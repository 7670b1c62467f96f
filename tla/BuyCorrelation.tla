--------------------------- MODULE BuyCorrelation ---------------------------
(***************************************************************************)
(* Placing a binary option: the threads that call IQ_Option.buy() against  *)
(* the WebSocket thread that runs the handlers of "result", "option" and   *)
(* "option-opened".  They share api.buy_multi_option (a dict every call    *)
(* replaces), api.pending_buy_ids (a FIFO queue: an "option-opened" message *)
(* carries no request id, so the handler gives it to the head) and         *)
(* api.result (one variable for every call).                               *)
(*                                                                         *)
(* Statements of Python interleave between threads; the groups below are   *)
(* the ones whose inner order another thread can observe.  result_event    *)
(* only wakes the waiting loop before its next 0.1 s poll and is left out. *)
(* The server is external: it accepts or rejects a request and its         *)
(* messages arrive in any order, or never.                                 *)
(***************************************************************************)
EXTENDS Naturals, Sequences, SequencesExt

CONSTANTS
  Calls,       \* the calls of buy() made in one session, each by some thread
  ReqIds,      \* the values of randint(0, 10000) that come up
  OtherIds,    \* those of them that other commands of the session use as well
  NoReq,       \* no request id drawn yet
  NoOrder,     \* Python's None in place of an order id
  Overlapping, \* TRUE: calls overlap; FALSE: each begins after the last ended
  Patient      \* TRUE: 15 s are enough for every answer of the server

ASSUME CallsAssumption ==
  /\ NoReq \notin ReqIds
  /\ OtherIds \subseteq ReqIds
  /\ NoOrder \notin Calls
  /\ Overlapping \in BOOLEAN
  /\ Patient \in BOOLEAN

VARIABLES
  pc,       \* where each call stands
  req,      \* req_id of each call
  got,      \* the local variable "id" when the waiting loop ends
  ret,      \* what the call returned: <<success, id>>
  entries,  \* api.buy_multi_option
  pending,  \* api.pending_buy_ids
  result,   \* api.result
  served,   \* external: what the server has made of each call's request
  net       \* external: messages sent by the server and not yet handled

vars == <<pc, req, got, ret, entries, pending, result, served, net>>
callVars   == <<pc, req, got, ret>>
serverVars == <<served, net>>

Flag == {"unset", "yes", "no"}          \* a Python None, True or False
Absent == [id |-> NoOrder, ok |-> "absent"]
Blank  == [id |-> NoOrder, ok |-> "unset"]
Entry  == [id : Calls \cup {NoOrder}, ok : Flag]
Kind   == {"accepted", "rejected", "option-error", "option-opened"}
\* The order the server opens for the request of call c is named c.
Message == [kind : Kind, call : Calls]

Init ==
  /\ pc = [c \in Calls |-> "idle"]
  /\ req = [c \in Calls |-> NoReq]
  /\ got = [c \in Calls |-> NoOrder]
  /\ ret = [c \in Calls |-> <<"unset", NoOrder>>]
  /\ entries = [r \in ReqIds |-> Absent]
  /\ pending = <<>>
  /\ result = "unset"
  /\ served = [c \in Calls |-> "none"]
  /\ net = {}

Finished(c) == pc[c] \in {"idle", "done", "raised"}

-----------------------------------------------------------------------------
(* The calling thread. *)

Begins(c) ==
  /\ pc[c] = "idle"
  /\ Overlapping \/ \A d \in Calls : Finished(d)

\* The validator (or a non-blocking rate limiter) turns the order down before
\* anything is written.
BuyRefused(c) ==
  /\ Begins(c)
  /\ pc' = [pc EXCEPT ![c] = "done"]
  /\ ret' = [ret EXCEPT ![c] = <<"no", NoOrder>>]
  /\ UNCHANGED <<req, got, entries, pending, result, serverVars>>

\* buy_multi_option = {}: the entries of the other calls in flight go too.
BuyReset(c) ==
  /\ Begins(c)
  /\ pc' = [pc EXCEPT ![c] = "cleared"]
  /\ entries' = [r \in ReqIds |-> Absent]
  /\ UNCHANGED <<req, got, ret, pending, result, serverVars>>

\* The request id is drawn, gets a blank entry and joins the queue.
BuyRegister(c, r) ==
  /\ pc[c] = "cleared"
  /\ pc' = [pc EXCEPT ![c] = "listed"]
  /\ req' = [req EXCEPT ![c] = r]
  /\ entries' = [entries EXCEPT ![r] = Blank]
  /\ pending' = Append(pending, r)
  /\ UNCHANGED <<got, ret, result, serverVars>>

\* send_websocket_request sees an "open-option" body and queues the id again.
\* The request reaches the server, or the websocket is None and it is dropped
\* with a log line, or send() raises through buy().
BuySend(c) ==
  /\ pc[c] = "listed"
  /\ pending' = Append(pending, req[c])
  /\ \/ /\ pc' = [pc EXCEPT ![c] = "waiting"]
        /\ served' = [served EXCEPT ![c] = "sent"]
     \/ /\ ~Patient
        /\ pc' = [pc EXCEPT ![c] = "waiting"]
        /\ UNCHANGED served
     \/ /\ ~Patient
        /\ pc' = [pc EXCEPT ![c] = "raised"]
        /\ UNCHANGED served
  /\ UNCHANGED <<req, got, ret, entries, result, net>>

Leave(c, id) ==
  /\ pc[c] = "waiting"
  /\ pc' = [pc EXCEPT ![c] = "leaving"]
  /\ got' = [got EXCEPT ![c] = id]
  /\ UNCHANGED <<req, ret, entries, pending, result, serverVars>>

BuyTakesId(c) ==
  /\ pc[c] = "waiting"
  /\ entries[req[c]].id # NoOrder
  /\ Leave(c, entries[req[c]].id)

BuySeesFailure(c) ==
  /\ pc[c] = "waiting"
  /\ entries[req[c]].ok = "no"
  /\ Leave(c, NoOrder)

\* All the server will ever say about the requests it got has been handled.
Quiet == net = {} /\ \A c \in Calls : served[c] # "sent"

BuyNeverTimesOut(c) ==      \* variant: the loop has no deadline
  /\ pc[c] = "waiting" /\ FALSE
  /\ Leave(c, NoOrder)

BuyTimesOut(c) ==
  /\ pc[c] = "waiting"
  /\ Patient => Quiet /\ entries[req[c]].id = NoOrder
  /\ Leave(c, NoOrder)

\* (False, None) without an id, else api.result as it is now, and the id.  No
\* path takes the request out of the queue.
BuyReturns(c) ==
  /\ pc[c] = "leaving"
  /\ pc' = [pc EXCEPT ![c] = "done"]
  /\ ret' = [ret EXCEPT ![c] = IF got[c] = NoOrder THEN <<"no", NoOrder>>
                               ELSE <<result, got[c]>>]
  /\ UNCHANGED <<req, got, entries, pending, result, serverVars>>

-----------------------------------------------------------------------------
(* The server. *)

ServerAccepts(c) ==
  /\ served[c] = "sent"
  /\ served' = [served EXCEPT ![c] = "accepted"]
  /\ net' = net \cup [kind : {"accepted", "option-opened"}, call : {c}]
  /\ UNCHANGED <<callVars, entries, pending, result>>

\* A refusal is told by a "result", by an "option" message without an id, or
\* by both.
ServerRejects(c) ==
  /\ served[c] = "sent"
  /\ served' = [served EXCEPT ![c] = "rejected"]
  /\ \E kinds \in SUBSET {"rejected", "option-error"} :
       /\ kinds # {}
       /\ net' = net \cup [kind : kinds, call : {c}]
  /\ UNCHANGED <<callVars, entries, pending, result>>

-----------------------------------------------------------------------------
(* The WebSocket thread: one handler at a time, under api._ws_lock. *)

Present(r) == entries[r] # Absent

Take(m) == m \in net /\ net' = net \ {m}

\* result(): the flag is shared, the entry's flag is the call's own; a failure
\* also takes one copy of the request id r out of the queue, the first.
ApplyResult(ok, r) ==
  /\ result' = ok
  /\ entries' = IF Present(r) THEN [entries EXCEPT ![r].ok = ok] ELSE entries
  /\ pending' = IF ok = "no" THEN RemoveFirst(pending, r) ELSE pending

HandleResult(c) ==
  /\ \/ Take([kind |-> "accepted", call |-> c]) /\ ApplyResult("yes", req[c])
     \/ Take([kind |-> "rejected", call |-> c]) /\ ApplyResult("no", req[c])
  /\ UNCHANGED <<callVars, served>>

\* The reply to another command (a sale, an alert, ...) is a "result" too.  Its
\* request id comes from another counter and may be one a buy() has drawn.
HandleOtherResult(ok) ==
  /\ \/ result' = ok /\ UNCHANGED <<entries, pending>>
     \/ \E r \in OtherIds : ApplyResult(ok, r)
  /\ UNCHANGED <<callVars, serverVars>>

\* "option" without an id: the message takes the place of the entry.
HandleOptionError(c) ==
  /\ Take([kind |-> "option-error", call |-> c])
  /\ entries' = [entries EXCEPT ![req[c]] = Blank]
  /\ UNCHANGED <<callVars, pending, result, served>>

\* "option-opened": the order id goes to the request at the head of the queue,
\* whichever call opened it, and an entry is made if there is none.
HandleOptionOpenedPeeking(o) ==   \* variant: all copies of the head get the id
  /\ Take([kind |-> "option-opened", call |-> o])
  /\ entries' = [r \in ReqIds |-> IF r \in Range(pending)
                                  THEN [id |-> o, ok |-> "unset"] ELSE entries[r]]
  /\ UNCHANGED <<callVars, pending, result, served>>

HandleOptionOpened(o) ==
  /\ Take([kind |-> "option-opened", call |-> o])
  /\ IF pending = <<>> THEN UNCHANGED <<entries, pending>>
     ELSE LET r == Head(pending)
          IN  /\ pending' = Tail(pending)
              /\ entries' = [entries EXCEPT ![r] =
                   [id |-> o, ok |-> IF Present(r) THEN @.ok ELSE "unset"]]
  /\ UNCHANGED <<callVars, result, served>>

-----------------------------------------------------------------------------
Caller(c) ==
  \/ BuyRefused(c)
  \/ BuyReset(c)
  \/ \E r \in ReqIds : BuyRegister(c, r)
  \/ BuySend(c)
  \/ BuyTakesId(c)
  \/ BuySeesFailure(c)
  \/ BuyTimesOut(c)
  \/ BuyReturns(c)

Server(c) == ServerAccepts(c) \/ ServerRejects(c)

Handler ==
  \/ \E c \in Calls :
       HandleResult(c) \/ HandleOptionError(c) \/ HandleOptionOpened(c)
  \/ \E ok \in {"yes", "no"} : HandleOtherResult(ok)

Next == (\E c \in Calls : Caller(c) \/ Server(c)) \/ Handler

Spec == Init /\ [][Next]_vars

\* A thread that runs keeps running; nothing is promised of the server.
FairSpec ==
  /\ Spec
  /\ \A c \in Calls : WF_vars(pc[c] # "idle" /\ Caller(c))

-----------------------------------------------------------------------------
(* What holds. *)

TypeOK ==
  /\ pc \in [Calls -> {"idle", "cleared", "listed", "waiting", "leaving",
                       "done", "raised"}]
  /\ req \in [Calls -> ReqIds \cup {NoReq}]
  /\ got \in [Calls -> Calls \cup {NoOrder}]
  /\ ret \in [Calls -> Flag \X (Calls \cup {NoOrder})]
  /\ entries \in [ReqIds -> Entry \cup {Absent}]
  /\ pending \in Seq(ReqIds)
  /\ result \in Flag
  /\ served \in [Calls -> {"none", "sent", "accepted", "rejected"}]
  /\ net \in SUBSET Message

\* The requests that hold order o: in the shared dict, or taken by a call.
Holders(o) ==
  {r \in ReqIds : entries[r].id = o} \cup {req[c] : c \in {d \in Calls : got[d] = o}}

\* An order id is never handed to two requests, however "option-opened"
\* messages, refusals and calls interleave, and only after the server accepted
\* the order.  (Two calls that drew the same id are one request to the SDK.)
OneOwner ==
  \A o \in Calls :
    /\ \A r1, r2 \in Holders(o) : r1 = r2
    /\ Holders(o) # {} => served[o] = "accepted"

\* buy() always comes back, whatever the server does: the 15 s deadline.
EveryCallReturns ==
  \A c \in Calls : pc[c] = "cleared" ~> pc[c] \in {"done", "raised"}

-----------------------------------------------------------------------------
(* What the documentation says and the code does not do. *)

\* docs/integration.md: success is "True if the order was accepted by the
\* server": an accepted order is not reported as (False, None), when every
\* answer comes in time and calls do not overlap.
AcceptedIsReported ==
  \A c \in Calls :
    pc[c] = "done" /\ served[c] = "accepted" => ret[c] # <<"no", NoOrder>>
=============================================================================
