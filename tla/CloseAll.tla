------------------------------- MODULE CloseAll -------------------------------
(***************************************************************************)
(* mixins/positions_mixin.py close_all_positions(): three workers close    *)
(* the positions that were listed, each with close_digital_option()        *)
(* (orders_mixin.py), whose answer is one api.result and one Event for     *)
(* them all.  close_position(), for the others, raises before it asks:     *)
(* the Event it clears is created nowhere.                                 *)
(***************************************************************************)
EXTENDS Integers, Sequences, FiniteSets, SequencesExt, Lists

CONSTANTS
  Listed,       \* the positions held, in the order of positions_state_data
  Digital,      \* those that are digital options
  MaxCloseJobs  \* max_workers

ASSUME CloseAllAssumption ==
  /\ Listed \in Seq(ToSet(Listed)) /\ IsInjective(Listed)
  /\ Digital \subseteq ToSet(Listed)
  /\ MaxCloseJobs \in Nat \ {0}

VARIABLES
  wanted,      \* the positions the filters let through, in order; empty before the call
  job,         \* of each position: where closing it is
  asked,       \* requests the server has not answered
  success,     \* api.result
  signal,       \* api.result_event
  really,      \* positions the server has closed
  late,        \* some worker gave up waiting
  report       \* what close_all_positions() returned or raised

closeAllVars == <<wanted, job, asked, success, signal, really, late, report>>

Held == ToSet(Listed)

Unreported == [outcome |-> "none", closed |-> <<>>, failed |-> <<>>]

\* Calls before this one have left an answer behind.
CloseAllInit ==
  /\ wanted = <<>>
  /\ job = [p \in Held |-> "none"]
  /\ asked = {} /\ really = {}
  /\ success \in BOOLEAN /\ signal \in BOOLEAN
  /\ late = FALSE
  /\ report = Unreported

AtWork == {p \in Held : job[p] \in {"starts", "cleared", "waits", "woken"}}

Goes(p, stage) == job' = [job EXCEPT ![p] = stage]

\* get_open_positions() and the filters; without a position it is over at once.
CloseAllPositions(some) ==
  /\ wanted = <<>>
  /\ some # {}
  /\ wanted' = Those(Listed, {i \in DOMAIN Listed : Listed[i] \in some})
  /\ job' = [p \in Held |-> IF p \in some THEN "queued" ELSE "none"]
  /\ UNCHANGED <<asked, success, signal, really, late, report>>

\* The pool takes the positions in the order they were submitted.
StartsJob(p) ==
  /\ job[p] = "queued"
  /\ Cardinality(AtWork) < MaxCloseJobs
  /\ \A q \in Held : job[q] = "queued" =>
       ~ \E i, j \in DOMAIN wanted : i < j /\ wanted[i] = q /\ wanted[j] = p
  /\ Goes(p, "starts")
  /\ UNCHANGED <<wanted, asked, success, signal, really, late, report>>

ClearsNot(p) ==   \* variant: the Event is left as it is
  /\ job[p] = "starts" /\ p \in Digital
  /\ Goes(p, "cleared")
  /\ UNCHANGED <<wanted, asked, success, signal, really, late, report>>

Clears(p) ==
  /\ job[p] = "starts" /\ p \in Digital
  /\ signal' = FALSE
  /\ Goes(p, "cleared")
  /\ UNCHANGED <<wanted, asked, success, really, late, report>>

\* No Event, or no position-changed message of the position in time.
RaisesClosing(p) ==
  /\ job[p] = "starts"
  /\ Goes(p, "raised")
  /\ UNCHANGED <<wanted, asked, success, signal, really, late, report>>

AsksToClose(p) ==
  /\ job[p] = "cleared"
  /\ asked' = asked \cup {p}
  /\ Goes(p, "waits")
  /\ UNCHANGED <<wanted, success, signal, really, late, report>>

\* The answer names nobody: set() wakes every thread that waits.
AnswersClose(p, ok) ==
  /\ p \in asked
  /\ asked' = asked \ {p}
  /\ really' = IF ok THEN really \cup {p} ELSE really
  /\ success' = ok
  /\ signal' = TRUE
  /\ job' = [q \in Held |-> IF job[q] = "waits" THEN "woken" ELSE job[q]]
  /\ UNCHANGED <<wanted, late, report>>

\* The wait begins with the Event set, or ends after 15 seconds.
GoesOn(p) ==
  /\ job[p] = "waits"
  /\ late' = (late \/ ~signal)
  /\ Goes(p, "woken")
  /\ UNCHANGED <<wanted, asked, success, signal, really, report>>

ReadsResult(p) ==
  /\ job[p] = "woken"
  /\ Goes(p, IF success THEN "closed" ELSE "failed")
  /\ UNCHANGED <<wanted, asked, success, signal, really, late, report>>

\* f.result() raises what the worker raised; the pool has waited for all of them.
ReturnsReport ==
  /\ report = Unreported /\ wanted # <<>>
  /\ \A p \in ToSet(wanted) : job[p] \in {"closed", "failed", "raised"}
  /\ report' = IF \E p \in ToSet(wanted) : job[p] = "raised"
                 THEN [Unreported EXCEPT !.outcome = "raised"]
                 ELSE [outcome |-> "returned",
                       closed  |-> Those(wanted, {i \in DOMAIN wanted : job[wanted[i]] = "closed"}),
                       failed  |-> Those(wanted, {i \in DOMAIN wanted : job[wanted[i]] = "failed"})]
  /\ UNCHANGED <<wanted, job, asked, success, signal, really, late>>

WorkerStep(p) ==
  StartsJob(p) \/ Clears(p) \/ RaisesClosing(p) \/ AsksToClose(p) \/ GoesOn(p) \/ ReadsResult(p)

CloseAllNext ==
  \/ \E some \in SUBSET Held : CloseAllPositions(some)
  \/ \E p \in Held : WorkerStep(p) \/ \E ok \in BOOLEAN : AnswersClose(p, ok)
  \/ ReturnsReport

CloseAllSpec == CloseAllInit /\ [][CloseAllNext]_closeAllVars

\* The workers run and a wait ends; the server may stay silent.
FairCloseAllSpec ==
  CloseAllSpec /\ WF_closeAllVars((\E p \in Held : WorkerStep(p)) \/ ReturnsReport)

-----------------------------------------------------------------------------
(* Properties *)

CloseAllTypeOK ==
  /\ ToSet(wanted) \subseteq Held
  /\ job \in [Held -> {"none", "queued", "starts", "cleared", "waits", "woken",
                       "closed", "failed", "raised"}]
  /\ asked \subseteq Held /\ really \subseteq Held
  /\ success \in BOOLEAN /\ signal \in BOOLEAN /\ late \in BOOLEAN
  /\ report.outcome \in {"none", "returned", "raised"}

\* A call that closes a single position reports the truth, if the answer came in time:
\* what an earlier call left in api.result and in the Event does not count.
AloneIsTrue ==
  report.outcome = "returned" /\ Len(wanted) = 1 /\ ~late =>
    (report.closed # <<>>) = (ToSet(wanted) \subseteq really)

\* With several at once a success may be another position's, but somebody's it is: of
\* those reported closed in time at least one really is, and if every close succeeded
\* nothing is reported failed.
SuccessIsSomebodys ==
  report.outcome = "returned" /\ ~late =>
    /\ report.closed # <<>> => really # {}
    /\ ToSet(wanted) \subseteq really => report.failed = <<>>

\* close_all_positions() ends, with a report or an exception, though no answer arrives.
CloseAllEnds == (wanted # <<>>) ~> (report.outcome # "none")

\* What close_all_positions() reports is backed by what the server did, for one
\* position and for several.
ReportIsBacked == AloneIsTrue /\ SuccessIsSomebodys
=============================================================================
