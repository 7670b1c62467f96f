------------------------------ MODULE Settlement ------------------------------
(***************************************************************************)
(* How the result of an order reaches the thread that waits for it:        *)
(* check_win() -> _wait_result() against the handlers of the WebSocket     *)
(* thread, its on_close(), and connect(), which replaces the whole api     *)
(* object and with it the event store.                                     *)
(*                                                                         *)
(* The store (api.result_event_store) maps an order to a threading.Event.  *)
(* Which Event object a thread holds matters, so events are numbered in    *)
(* the order they are made.  The handlers run under api._ws_lock, one at a *)
(* time; _wait_result() takes no lock, and every access of it to the store *)
(* is a step.  The stores of digital options work the same way.            *)
(***************************************************************************)
EXTENDS Naturals

CONSTANTS
  Waiters,      \* calls of check_win(), each by some thread
  Orders,
  Asks,         \* the orders each call may ask for
  MaxCloses,    \* bound: connections lost
  MaxReports    \* bound: messages that close an order, per order

ASSUME SettlementAssumption ==
  /\ Asks \in [Waiters -> SUBSET Orders]
  /\ MaxCloses \in Nat /\ MaxReports \in [Orders -> Nat]

VARIABLES
  target,    \* the order each call asks for
  pc,        \* where each call stands
  event,     \* the Event it holds, 0 if none
  home,      \* the api object whose store it has hold of
  ret,       \* what the call returned: "outcome", "nothing" (None)
  api,       \* number of the current api object
  online,    \* its WebSocket is open
  store,     \* its result_event_store: the Event of each order, 0 if absent
  fired,     \* the Events that are set
  made,      \* the number of Events made so far
  heard,     \* the messages that closed an order: <<api object, order, kind>>
  reports,   \* bound: the number of them so far, per order
  closes     \* bound: connections lost so far

settlementVars == <<target, pc, event, home, ret, api, online, store, fired, made, heard,
          reports, closes>>
callVars == <<target, pc, event, home, ret>>
wsVars   == <<target, api, online, heard, reports, closes>>

\* The messages that set the event of an order: api_game_betinfo_result, whose
\* contents go to game_betinfo, and the others (option-closed, position-changed,
\* socket-option-closed), of which the server sends several for one order.
Kind == {"betinfo", "closed"}

\* Api object a was told that order o is closed.
Settled(a, o) == \E kind \in Kind : <<a, o, kind>> \in heard

SettlementInit ==
  /\ target \in [Waiters -> Orders] /\ \A w \in Waiters : target[w] \in Asks[w]
  /\ pc = [w \in Waiters |-> "idle"]
  /\ event = [w \in Waiters |-> 0]
  /\ home = [w \in Waiters |-> 0]
  /\ ret = [w \in Waiters |-> "pending"]
  /\ api = 1 /\ online = TRUE
  /\ store = [o \in Orders |-> 0]
  /\ fired = {} /\ made = 0
  /\ heard = {}
  /\ reports = [o \in Orders |-> 0]
  /\ closes = 0

-----------------------------------------------------------------------------
(* The calling thread. *)

\* event_store.get(order_id)
Look(w) ==
  /\ pc[w] = "idle"
  /\ home' = [home EXCEPT ![w] = api]
  /\ event' = [event EXCEPT ![w] = store[target[w]]]
  /\ pc' = [pc EXCEPT ![w] = IF store[target[w]] = 0 THEN "creating" ELSE "waiting"]
  /\ UNCHANGED <<ret, store, fired, made, wsVars>>

\* event_store[order_id] = Event(), over whatever is there by now; the store
\* may be that of an api object that is gone.
Create(w) ==
  /\ pc[w] = "creating"
  /\ made' = made + 1
  /\ event' = [event EXCEPT ![w] = made']
  /\ store' = IF home[w] = api THEN [store EXCEPT ![target[w]] = made'] ELSE store
  /\ pc' = [pc EXCEPT ![w] = "waiting"]
  /\ UNCHANGED <<home, ret, fired, wsVars>>

Wakes(w) ==
  /\ pc[w] = "waiting"
  /\ event[w] \in fired
  /\ pc' = [pc EXCEPT ![w] = "reading"]
  /\ UNCHANGED <<event, home, ret, store, fired, made, wsVars>>

NeverTimesOut(w) == FALSE /\ UNCHANGED settlementVars   \* variant: wait() without timeout

TimesOut(w) ==
  /\ pc[w] = "waiting"
  /\ event[w] \notin fired
  /\ pc' = [pc EXCEPT ![w] = "leaving"]
  /\ ret' = [ret EXCEPT ![w] = "nothing"]
  /\ UNCHANGED <<event, home, store, fired, made, wsVars>>

\* The stores are those the call started with.  game_betinfo has the outcome;
\* the messages kept in order_async have it one level below the key that
\* check_win() reads, and give None.
Reads(w) ==
  /\ pc[w] = "reading"
  /\ ret' = [ret EXCEPT ![w] =
       IF <<home[w], target[w], "betinfo">> \in heard THEN "outcome" ELSE "nothing"]
  /\ pc' = [pc EXCEPT ![w] = "leaving"]
  /\ UNCHANGED <<event, home, store, fired, made, wsVars>>

\* finally: del event_store[order_id], whoever else waits for it
Cleans(w) ==
  /\ pc[w] = "leaving"
  /\ store' = IF home[w] = api THEN [store EXCEPT ![target[w]] = 0] ELSE store
  /\ pc' = [pc EXCEPT ![w] = "done"]
  /\ UNCHANGED <<event, home, ret, fired, made, wsVars>>

-----------------------------------------------------------------------------
(* The WebSocket thread. *)

\* A message that closes order o: its contents are kept, then the event is set,
\* and made if there is none.
Handle(o, kind) ==
  /\ online
  /\ reports[o] < MaxReports[o]
  /\ reports' = [reports EXCEPT ![o] = @ + 1]
  /\ heard' = heard \cup {<<api, o, kind>>}
  /\ IF store[o] = 0
     THEN /\ made' = made + 1
          /\ store' = [store EXCEPT ![o] = made']
          /\ fired' = fired \cup {made'}
     ELSE /\ fired' = fired \cup {store[o]}
          /\ UNCHANGED <<made, store>>
  /\ UNCHANGED <<callVars, api, online, closes>>

OnCloseSilent ==   \* variant: on_close() without its kill switch
  /\ online /\ closes < MaxCloses
  /\ online' = FALSE
  /\ closes' = closes + 1
  /\ UNCHANGED <<callVars, api, store, fired, made, heard, reports>>

\* on_close(): the kill switch sets every event of every store.
OnClose ==
  /\ online /\ closes < MaxCloses
  /\ online' = FALSE
  /\ closes' = closes + 1
  /\ fired' = fired \cup ({store[o] : o \in Orders} \ {0})
  /\ UNCHANGED <<callVars, api, store, made, heard, reports>>

ConnectKeepingStore ==   \* variant: the event store is handed on
  /\ ~online
  /\ api' = api + 1
  /\ online' = TRUE
  /\ home' = [w \in Waiters |-> IF home[w] = api THEN api' ELSE home[w]]
  /\ UNCHANGED <<target, pc, event, ret, store, fired, made, heard, reports, closes>>

\* connect(): a new api object, with new stores.
Connect ==
  /\ ~online
  /\ api' = api + 1
  /\ online' = TRUE
  /\ store' = [o \in Orders |-> 0]
  /\ UNCHANGED <<callVars, fired, made, heard, reports, closes>>

-----------------------------------------------------------------------------
Caller(w) == Look(w) \/ Create(w) \/ Wakes(w) \/ TimesOut(w) \/ Reads(w) \/ Cleans(w)

SettlementNext ==
  \/ \E w \in Waiters : Caller(w)
  \/ \E o \in Orders, kind \in Kind : Handle(o, kind)
  \/ OnClose \/ Connect

SettlementSpec == SettlementInit /\ [][SettlementNext]_settlementVars

\* A thread that runs keeps running.
SettlementFairSpec == SettlementSpec /\ \A w \in Waiters : WF_settlementVars(pc[w] # "idle" /\ Caller(w))

-----------------------------------------------------------------------------
(* What holds. *)

SettlementTypeOK ==
  /\ target \in [Waiters -> Orders]
  /\ pc \in [Waiters -> {"idle", "creating", "waiting", "reading", "leaving", "done"}]
  /\ event \in [Waiters -> 0 .. made]
  /\ home \in [Waiters -> 0 .. api]
  /\ ret \in [Waiters -> {"pending", "outcome", "nothing"}]
  /\ api \in Nat \ {0} /\ made \in Nat
  /\ online \in BOOLEAN
  /\ store \in [Orders -> 0 .. made]
  /\ fired \in SUBSET (1 .. made)
  /\ heard \in SUBSET ((1 .. api) \X Orders \X Kind)
  /\ reports \in [Orders -> Nat]
  /\ closes \in 0 .. MaxCloses

\* check_win() always comes back: the result, the kill switch or its timeout.
EveryWaitEnds == \A w \in Waiters : pc[w] = "waiting" ~> pc[w] = "done"

\* No false alarm: while its connection lasts, a call wakes up only because this
\* connection said that its own order was closed, never for another order, nor
\* for an event left by an earlier call or an earlier connection.
OwnWakeup ==
  \A w \in Waiters :
    pc[w] = "reading" /\ online /\ home[w] = api => Settled(api, target[w])

\* docs/integration.md: "If the WebSocket connection is lost, the SDK
\* automatically signals all pending events to unblock waiting threads."  A call
\* that is the only one ever made for its order is woken up, if it is waiting and
\* its store is still the current one.  (Of two calls for one order the first to
\* return takes away the Event of the other, or they overwrite it when they
\* start together, and the kill switch finds one Event at most.)
Alone(w) == \A v \in Waiters \ {w} : target[v] # target[w]

KillSwitchFrees ==
  [][online /\ ~online' =>
       \A w \in Waiters :
         pc[w] = "waiting" /\ home[w] = api /\ Alone(w) => event[w] \in fired']_settlementVars

=============================================================================
