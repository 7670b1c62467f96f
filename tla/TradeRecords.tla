----------------------------- MODULE TradeRecords -----------------------------
(***************************************************************************)
(* trade_journal.py and the threads of bot/orchestrator.py that write to   *)
(* it.  The bot starts a thread for each order it placed; the thread waits *)
(* for the outcome and records it.  The program may also open and close    *)
(* trades of its own.  There is one file per day, and a method works on    *)
(* the file of the day on which it looks at the clock.                     *)
(*                                                                         *)
(* A record is appended under the lock.  A trade that is closed is found   *)
(* by reading the file and writing all of it again, under the lock as      *)
(* well: from the opening of the file for writing to its end, the file is  *)
(* empty for readers, who take no lock, and for a process that dies.       *)
(***************************************************************************)
EXTENDS Naturals, Sequences, FiniteSets

CONSTANTS
  RecordedOrders,   \* orders placed by the bot, each with a thread of its own
  Trades,   \* trades opened by the program with open_trade()
  NoTrade,  \* nobody holds the lock
  LastDay,  \* bound: midnights
  Crashes   \* bound: deaths of the process

ASSUME RecordsAssumption ==
  /\ RecordedOrders \cap Trades = {} /\ NoTrade \notin RecordedOrders \cup Trades
  /\ LastDay \in Nat /\ Crashes \in Nat

Ids     == RecordedOrders \cup Trades
Results == {"win", "loss"}
Record  == [id : Ids, result : Results \cup {"open"}]

VARIABLES
  day,        \* today
  file,       \* the file of each day
  writer,     \* the trade whose thread holds the lock to write the file again
  rewritten,  \* what it will write, and on which day
  rewriteDay,
  stage,      \* where the thread of each trade stands
  outcome,    \* what check_win_v3() made of it
  crashes,    \* bound
  journaled,  \* history: the records that were written, each with its day
  torn        \* history: days whose file was empty when the process died

recordVars == <<day, file, writer, rewritten, rewriteDay, stage, outcome, crashes,
                journaled, torn>>
rewriting == <<writer, rewritten, rewriteDay>>

RecordInit ==
  /\ day = 0
  /\ file = [d \in 0 .. LastDay |-> <<>>]
  /\ writer = NoTrade /\ rewritten = <<>> /\ rewriteDay = 0
  /\ stage = [i \in Ids |-> "none"]
  /\ outcome = [i \in Ids |-> "open"]
  /\ crashes = 0
  /\ journaled = {}
  /\ torn = {}

Unlocked == writer = NoTrade

Moves(i, from, to) == stage[i] = from /\ stage' = [stage EXCEPT ![i] = to]

PersistUnlocked(r) ==   \* variant: a line is added without the lock
  /\ file' = [file EXCEPT ![day] = Append(@, r)]
  /\ journaled' = journaled \cup {[id |-> r.id, day |-> day]}

\* _persist(): a line at the end of today's file.
Persist(r) ==
  /\ Unlocked
  /\ file' = [file EXCEPT ![day] = Append(@, r)]
  /\ journaled' = journaled \cup {[id |-> r.id, day |-> day]}

Has(d, i) == \E k \in DOMAIN file[d] : file[d][k].id = i

-----------------------------------------------------------------------------
(* The bot and its threads. *)

\* _record_trade_async()
OrderPlaced(o) ==
  /\ Moves(o, "none", "waiting")
  /\ UNCHANGED <<day, file, rewriting, outcome, crashes, journaled, torn>>

\* check_win_v3() gives (True, profit), or (False, None) when the time is over or
\* nothing was won: all but a profit counts as a loss.  A result that is no
\* number raises, and the trade is not recorded.
OutcomeKnown(o) ==
  /\ \/ Moves(o, "waiting", "closing") /\ \E r \in Results : outcome' = [outcome EXCEPT ![o] = r]
     \/ Moves(o, "waiting", "ended") /\ UNCHANGED outcome
  /\ UNCHANGED <<day, file, rewriting, crashes, journaled, torn>>

-----------------------------------------------------------------------------
(* The program. *)

OpenTrade(t) ==
  /\ Moves(t, "none", "open")
  /\ Persist([id |-> t, result |-> "open"])
  /\ UNCHANGED <<day, rewriting, outcome, crashes, torn>>

\* record() of a trade of its own.
TradeEnds(t) ==
  /\ Moves(t, "open", "closing")
  /\ \E r \in Results : outcome' = [outcome EXCEPT ![t] = r]
  /\ UNCHANGED <<day, file, rewriting, crashes, journaled, torn>>

-----------------------------------------------------------------------------
(* record(): close_trade(), and a record of its own if there was none. *)

Closed(records, i) ==
  [k \in DOMAIN records |-> IF records[k].id = i THEN [records[k] EXCEPT !.result = outcome[i]]
                                                 ELSE records[k]]

\* The trade is in today's file, which is opened for writing.
CloseTrade(i) ==
  /\ stage[i] = "closing"
  /\ Unlocked
  /\ Has(day, i)
  /\ writer' = i
  /\ rewritten' = Closed(file[day], i)
  /\ rewriteDay' = day
  /\ file' = [file EXCEPT ![day] = <<>>]
  /\ UNCHANGED <<day, stage, outcome, crashes, journaled, torn>>

TradeClosed(i) ==
  /\ writer = i
  /\ Moves(i, "closing", "ended")
  /\ file' = [file EXCEPT ![rewriteDay] = rewritten]
  /\ writer' = NoTrade /\ rewritten' = <<>> /\ rewriteDay' = 0
  /\ UNCHANGED <<day, outcome, crashes, journaled, torn>>

NotFoundInside(i) ==   \* variant: KeyError leaves the lock taken
  /\ Unlocked
  /\ ~Has(day, i)
  /\ Moves(i, "closing", "adding")
  /\ writer' = i
  /\ UNCHANGED <<day, file, rewritten, rewriteDay, outcome, crashes, journaled, torn>>

\* KeyError: the lock is free again.
NotFound(i) ==
  /\ Unlocked
  /\ ~Has(day, i)
  /\ Moves(i, "closing", "adding")
  /\ UNCHANGED <<day, file, rewriting, outcome, crashes, journaled, torn>>

RecordAdded(i) ==
  /\ Moves(i, "adding", "ended")
  /\ Persist([id |-> i, result |-> outcome[i]])
  /\ UNCHANGED <<day, rewriting, outcome, crashes, torn>>

-----------------------------------------------------------------------------
Midnight ==
  /\ day < LastDay
  /\ day' = day + 1
  /\ UNCHANGED <<file, rewriting, stage, outcome, crashes, journaled, torn>>

\* The process ends, all threads are daemons: outcomes that were waited for, and
\* a file under way, are lost.
Crash ==
  /\ crashes < Crashes
  /\ crashes' = crashes + 1
  /\ torn' = IF Unlocked THEN torn ELSE torn \cup {rewriteDay}
  /\ writer' = NoTrade /\ rewritten' = <<>> /\ rewriteDay' = 0
  /\ stage' = [i \in Ids |-> IF stage[i] = "none" THEN "none" ELSE "ended"]
  /\ UNCHANGED <<day, file, outcome, journaled>>

Recording(i) ==
  OutcomeKnown(i) \/ CloseTrade(i) \/ TradeClosed(i) \/ NotFound(i) \/ RecordAdded(i)

RecordNext ==
  \/ \E o \in RecordedOrders : OrderPlaced(o)
  \/ \E t \in Trades : OpenTrade(t) \/ TradeEnds(t)
  \/ \E i \in Ids : Recording(i)
  \/ Midnight \/ Crash

RecordSpec == RecordInit /\ [][RecordNext]_recordVars

\* The threads run: check_win_v3() has a time limit.
RecordFairSpec == RecordSpec /\ \A i \in Ids : WF_recordVars(Recording(i))

-----------------------------------------------------------------------------
RecordTypeOK ==
  /\ day \in 0 .. LastDay
  /\ file \in [0 .. LastDay -> Seq(Record)]
  /\ writer \in Ids \cup {NoTrade}
  /\ rewritten \in Seq(Record)
  /\ rewriteDay \in 0 .. LastDay
  /\ stage \in [Ids -> {"none", "open", "waiting", "closing", "adding", "ended"}]
  /\ outcome \in [Ids -> Results \cup {"open"}]
  /\ crashes \in 0 .. Crashes
  /\ journaled \subseteq [id : Ids, day : 0 .. LastDay]
  /\ torn \subseteq 0 .. LastDay

\* No record that was written is lost to the records of other threads, nor to a
\* midnight: whenever no file is being written again, each is in the file of its
\* day, unless the process died while that file was empty.
NothingOverwritten ==
  Unlocked => \A r \in journaled : r.day \notin torn => Has(r.day, r.id)

\* A trade is in the file of a day once, whoever looked for it when.
OncePerDay ==
  \A d \in 0 .. LastDay : \A j, k \in DOMAIN file[d] :
    file[d][j].id = file[d][k].id => j = k

\* What was recorded stays recorded, once.
RecordedOnce == NothingOverwritten /\ OncePerDay

\* An outcome that is being recorded is recorded, or the process ends: no thread
\* waits for the lock for ever.
RecordingEnds == \A i \in Ids : (stage[i] \in {"waiting", "closing", "adding"}) ~> (stage[i] = "ended")
=============================================================================
