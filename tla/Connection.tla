----------------------------- MODULE Connection -----------------------------
(***************************************************************************)
(* How the SDK keeps its connection: IQ_Option.connect() and close(), the  *)
(* on_close() of a WebSocket, which starts an AutoReconnect thread, and    *)
(* _reconnect_with_backoff() in that thread, with the ReconnectManager and *)
(* the circuit breaker it shares with the others.  connect() is called by  *)
(* the owner, by reconnect threads (on_close, watchdog) and by the worker  *)
(* that refreshes the token; nothing keeps these calls apart.              *)
(*                                                                         *)
(* connect() replaces self.api by a new IQOptionAPI object and registers   *)
(* the reconnect callback on it at the end; the steps of one call read     *)
(* self.api anew, so that two calls may work on the same object.  Objects  *)
(* come from a finite pool and are reused when nothing refers to them.     *)
(* Sleeps are steps of any length; the breaker recovers at any time.       *)
(***************************************************************************)
EXTENDS Naturals, FiniteSets

CONSTANTS
  Owner,         \* the thread of the program
  Worker,        \* TokenRefreshWorker; bound: one (every connect() starts another)
  Reconnectors,  \* bound: AutoReconnect and WatchdogReconnect threads at a time
  MaxApis,       \* bound: api objects at a time
  MaxAttempts,   \* MAX_RECONNECT_ATTEMPTS
  MaxFailures,   \* max_consecutive_losses of the breaker
  MaxDisturbed,  \* bound: losses, forced reconnections, refreshes, calls
  Failing,       \* TRUE: attempts to connect may fail
  Renewing,      \* TRUE: a connection that is up is renewed, too: by the
                 \* watchdog, the token worker, or another connect() of the owner
  Closing        \* TRUE: the owner may call close()

ASSUME ConnectionAssumption ==
  /\ Owner # Worker /\ {Owner, Worker} \cap Reconnectors = {}
  /\ MaxApis \in Nat
  /\ IsFiniteSet(Reconnectors)
  /\ MaxAttempts \in Nat \ {0} /\ MaxFailures \in Nat \ {0} /\ MaxDisturbed \in Nat
  /\ {Failing, Renewing, Closing} \subseteq BOOLEAN

Callers == {Owner, Worker} \cup Reconnectors
Apis    == 1 .. MaxApis
NoApi   == 0

VARIABLES
  pc,         \* where each thread stands
  at,         \* the object whose api.connect() a thread runs
  api,        \* self.api
  link,       \* the WebSocket of each object (its websocket_client), "closed"
              \* if there is none
  orphan,     \* objects with an open WebSocket that is not their websocket_client
  called,     \* objects with _reconnect_callback
  attempt,    \* ReconnectManager._attempt
  breaker,    \* CircuitBreaker._state
  failures,   \* CircuitBreaker._consecutive_losses
  established,\* the first connect() has succeeded: the token worker runs
  watching,   \* _heartbeat_watchdog_active
  closed,     \* history: the owner called close(), and not connect() since
  tries,      \* history: reconnection attempts since the last success or rest
  disturbed   \* bound

vars == <<pc, at, api, link, orphan, called, attempt, breaker, failures, established,
          watching, closed, tries, disturbed>>
linkVars   == <<api, link, orphan, called>>
policyVars == <<attempt, breaker, failures>>
history    == <<established, watching, closed, tries>>

\* Of the failures that count, the breaker has room for some, and each thread
\* may have one under way.
StormBound == MaxFailures + Cardinality(Reconnectors) - 1

Init ==
  /\ pc = [c \in Callers |-> "idle"]
  /\ at = [c \in Callers |-> NoApi]
  /\ api = NoApi
  /\ link = [a \in Apis |-> "closed"]
  /\ orphan = {} /\ called = {}
  /\ attempt = 0 /\ breaker = "CLOSED" /\ failures = 0
  /\ established = FALSE /\ watching = FALSE /\ closed = FALSE
  /\ tries = 0
  /\ disturbed = 0

Online == api # NoApi /\ link[api] = "open"

\* The callbacks of objects that are current or have a WebSocket left, after a
\* step; those of the others nobody can call.
InUse(a) == a = api \/ a \in orphan \/ link[a] # "closed"
Kept == {a \in called : InUse(a)'}

Goes(c, to) == pc' = [pc EXCEPT ![c] = to]

Disturbs == disturbed < MaxDisturbed /\ disturbed' = disturbed + 1

\* A new thread runs _auto_reconnect().
Spawns(r) == pc[r] = "idle" /\ Goes(r, "checking")

-----------------------------------------------------------------------------
(* The threads that call connect(). *)

\* The owner calls connect(), to begin with or again.
OwnerConnects ==
  /\ pc[Owner] = "idle"
  /\ established => Renewing
  /\ Disturbs
  /\ Goes(Owner, "replacing")
  /\ closed' = FALSE
  /\ UNCHANGED <<at, linkVars, policyVars, established, watching, tries>>

\* IQ_Option.close(): the watchdog stops, and the WebSocket of the current object
\* is closed; the object keeps its callback, and on_close() follows.
OwnerCloses ==
  /\ Closing
  /\ pc[Owner] = "idle" /\ established
  /\ Disturbs
  /\ link' = IF Online THEN [link EXCEPT ![api] = "closing"] ELSE link
  /\ watching' = FALSE
  /\ closed' = TRUE
  /\ UNCHANGED <<pc, at, api, orphan, called, policyVars, established, tries>>

\* Every few hours the token worker calls connect(), whatever the connection.
TokenRefresh ==
  /\ Renewing /\ established
  /\ pc[Worker] = "idle"
  /\ Disturbs
  /\ Goes(Worker, "replacing")
  /\ UNCHANGED <<at, linkVars, policyVars, history>>

\* No heartbeat was noticed for a while: the watchdog starts a reconnection
\* although the connection is up.
WatchdogForces(r) ==
  /\ Renewing /\ watching
  /\ Online
  /\ Disturbs
  /\ Spawns(r)
  /\ UNCHANGED <<at, linkVars, policyVars, history>>

-----------------------------------------------------------------------------
(* connect(). *)

\* Nothing refers to object a any more.
Free(a) ==
  /\ a # api /\ a \notin orphan
  /\ link[a] = "closed"
  /\ \A c \in Callers : at[c] # a

\* The old object is closed, and a new one takes its place.
Replace(c) ==
  /\ pc[c] = "replacing"
  /\ \E a \in Apis :
       /\ Free(a) /\ \A b \in Apis : Free(b) => a <= b
       /\ link' = [b \in Apis |->
            IF b = api /\ Online THEN "closing" ELSE link[b]]
       /\ api' = a
  /\ Goes(c, "opening")
  /\ UNCHANGED <<at, orphan, policyVars, history, disturbed>>
  /\ called' = Kept

\* api.connect() on the object that is current by now; its WebSocket may be the
\* second one of that object.  (A WebSocket that is being closed ends before the
\* next one of its object opens.)
Open(c) ==
  /\ pc[c] = "opening"
  /\ link[api] # "closing"
  /\ at' = [at EXCEPT ![c] = api]
  /\ link' = [link EXCEPT ![api] = "open"]
  /\ orphan' = IF Online THEN orphan \cup {api} ELSE orphan
  /\ Goes(c, "syncing")
  /\ UNCHANGED <<api, called, policyVars, history, disturbed>>

\* The first timeSync has arrived, and the callback goes to the current object,
\* whichever the call has connected, and open or lost meanwhile.
Register(c) ==
  /\ pc[c] = "syncing"
  /\ at' = [at EXCEPT ![c] = NoApi]
  /\ called' = called \cup {api}
  /\ attempt' = 0
  /\ Goes(c, "finishing")
  /\ UNCHANGED <<api, link, orphan, breaker, failures, history, disturbed>>

\* Subscriptions and requests are sent on the current object, and all is well.
Finish(c) ==
  /\ pc[c] = "finishing"
  /\ Online
  /\ IF c \in Reconnectors
     THEN attempt' = 0 /\ breaker' = "CLOSED" /\ failures' = 0
     ELSE UNCHANGED policyVars
  /\ established' = TRUE /\ watching' = TRUE
  /\ tries' = 0
  /\ Goes(c, "idle")
  /\ UNCHANGED <<at, linkVars, closed, disturbed>>

\* record_failure()
RecordFailure ==
  /\ failures' = IF failures < MaxFailures THEN failures + 1 ELSE failures
  /\ breaker' = IF failures' = MaxFailures THEN "OPEN" ELSE breaker

\* connect() returns False or raises: a reconnect thread goes on, the owner and
\* the worker hand it on.
Fails(c) ==
  /\ IF c \in Reconnectors
     THEN Goes(c, "checking") /\ RecordFailure
     ELSE Goes(c, "idle") /\ UNCHANGED <<breaker, failures>>
  /\ at' = [at EXCEPT ![c] = NoApi]
  /\ UNCHANGED <<linkVars, attempt, history, disturbed>>

\* The server refuses, or is out of reach.
OpenFails(c) == Failing /\ pc[c] = "opening" /\ Fails(c)

\* No timeSync within 15 s, or a handshake later than its timeout; the WebSocket
\* stays as it is.
SyncFails(c) ==
  /\ pc[c] = "syncing"
  /\ Failing \/ link[at[c]] # "open"
  /\ Fails(c)

\* send() raises: the WebSocket is closed.
FinishRaises(c) == pc[c] = "finishing" /\ ~Online /\ Fails(c)

-----------------------------------------------------------------------------
(* _reconnect_with_backoff() in a reconnect thread. *)

CheckUnguarded(r) ==   \* variant: the breaker is not asked
  /\ pc[r] = "checking"
  /\ attempt < MaxAttempts
  /\ attempt' = attempt + 1
  /\ tries' = IF tries > StormBound THEN tries ELSE tries + 1
  /\ Goes(r, "replacing")
  /\ UNCHANGED <<at, linkVars, breaker, failures, established, watching, closed, disturbed>>

\* The breaker lets the thread try, and the manager counts the attempt; connect()
\* comes after the backoff.
Check(r) ==
  /\ pc[r] = "checking"
  /\ breaker # "OPEN"
  /\ attempt < MaxAttempts
  /\ attempt' = attempt + 1
  /\ tries' = IF tries > StormBound THEN tries ELSE tries + 1
  /\ Goes(r, "replacing")
  /\ UNCHANGED <<at, linkVars, breaker, failures, established, watching, closed, disturbed>>

\* The breaker is open: the thread ends, and nobody takes its place.
GiveUp(r) ==
  /\ pc[r] = "checking"
  /\ breaker = "OPEN"
  /\ Goes(r, "idle")
  /\ UNCHANGED <<at, linkVars, policyVars, established, watching, closed, tries, disturbed>>

\* MaxReconnectAttemptsError: the counter stays where it is.
Exhausted(r) ==
  /\ pc[r] = "checking"
  /\ breaker # "OPEN"
  /\ attempt >= MaxAttempts
  /\ attempt' = MaxAttempts + 1
  /\ RecordFailure
  /\ Goes(r, "idle")
  /\ UNCHANGED <<at, linkVars, established, watching, closed, tries, disturbed>>

\* The recovery wait is over; the state is noticed at the next question.
Rests ==
  /\ breaker = "OPEN"
  /\ breaker' = "HALF"
  /\ tries' = 0
  /\ UNCHANGED <<pc, at, linkVars, attempt, failures, established, watching, closed, disturbed>>

-----------------------------------------------------------------------------
(* The WebSocket threads. *)

OnCloseSilent(a, r) ==   \* variant: on_close() leaves reconnecting to the owner
  /\ link[a] \in {"open", "closing"}
  /\ link[a] = "open" => Disturbs
  /\ link[a] = "closing" => UNCHANGED disturbed
  /\ link' = [link EXCEPT ![a] = "closed"]
  /\ UNCHANGED <<pc, at, api, orphan, policyVars, history>>
  /\ called' = Kept

\* on_close(), after close() or a loss: whoever is to blame, the callback of the
\* object runs in thread r.
OnClose(a, r) ==
  /\ link[a] \in {"open", "closing"}
  /\ link[a] = "open" => Disturbs
  /\ link[a] = "closing" => UNCHANGED disturbed
  /\ link' = [link EXCEPT ![a] = "closed"]
  /\ IF a \in called THEN Spawns(r) ELSE UNCHANGED pc
  /\ UNCHANGED <<at, api, orphan, policyVars, history>>
  /\ called' = Kept

\* The same for a WebSocket its object has forgotten, and nobody closes: it ends
\* some time.
OrphanCloses(a, r) ==
  /\ a \in orphan
  /\ orphan' = orphan \ {a}
  /\ IF a \in called THEN Spawns(r) ELSE UNCHANGED pc
  /\ UNCHANGED <<at, api, link, policyVars, history, disturbed>>
  /\ called' = Kept

-----------------------------------------------------------------------------
Connects(c) ==
  \/ Replace(c) \/ Open(c) \/ OpenFails(c) \/ Register(c) \/ SyncFails(c)
  \/ Finish(c) \/ FinishRaises(c)

Reconnects(r) == Check(r) \/ GiveUp(r) \/ Exhausted(r)

Next ==
  \/ OwnerConnects \/ OwnerCloses \/ TokenRefresh \/ Rests
  \/ \E c \in Callers : Connects(c)
  \/ \E r \in Reconnectors :
       \/ Reconnects(r) \/ WatchdogForces(r)
       \/ \E a \in Apis : OnClose(a, r) \/ OrphanCloses(a, r)

Spec == Init /\ [][Next]_vars

\* Threads run; a WebSocket that is being closed ends.
FairSpec ==
  /\ Spec
  /\ \A c \in Callers : WF_vars(Connects(c))
  /\ \A r \in Reconnectors : WF_vars(Reconnects(r))
  /\ \A a \in Apis : WF_vars(link[a] = "closing" /\ \E r \in Reconnectors : OnClose(a, r))

-----------------------------------------------------------------------------
TypeOK ==
  /\ pc \in [Callers -> {"idle", "checking", "replacing", "opening", "syncing", "finishing"}]
  /\ at \in [Callers -> Apis \cup {NoApi}]
  /\ api \in Apis \cup {NoApi}
  /\ link \in [Apis -> {"open", "closing", "closed"}]
  /\ orphan \in SUBSET Apis /\ called \in SUBSET Apis
  /\ attempt \in 0 .. MaxAttempts + 1
  /\ breaker \in {"CLOSED", "OPEN", "HALF"}
  /\ failures \in 0 .. MaxFailures
  /\ {established, watching, closed} \subseteq BOOLEAN
  /\ tries \in 0 .. StormBound + 1
  /\ disturbed \in 0 .. MaxDisturbed

\* The breaker ends a storm ("Reconnection aborted to prevent further damage"):
\* however many threads reconnect, until one succeeds or the breaker has rested
\* they try no more often than the breaker allows and the threads under way add.
StormBounded == tries <= StormBound

\* docs/integration.md: "The SDK handles reconnection automatically".  A session
\* that was lost comes back, while the server answers and connections are not lost
\* so fast that the breaker opens.
LostIsReconnected == (established /\ ~Online) ~> (Online \/ closed)

-----------------------------------------------------------------------------
(* What the code, its comments and its documentation say and do not do. *)

\* "Actualizar para evitar spam de reconexion": when nothing disturbs the
\* connection any more, reconnecting comes to an end.
SettlesDown == <>[](\A r \in Reconnectors : pc[r] = "idle")
=============================================================================
