--------------------------- MODULE BotOrchestrator ---------------------------
(***************************************************************************)
(* bot/orchestrator.py: the owner of the bot (cli/main.py, one thread)     *)
(* calls start() and stop(); each start makes a daemon thread that runs    *)
(* _run_loop: while _running: _tick(), sleep(timeframe).  _running and     *)
(* _thread are plain attributes that both sides write.                     *)
(*                                                                         *)
(* stop() waits at most 5 s for the thread, and a thread leaves its loop   *)
(* only after a whole tick and sleep: Prompt says that these fit in 5 s.   *)
(* What a tick decides is left open here; GuardedBot adds the breaker.     *)
(***************************************************************************)
EXTENDS Naturals, FiniteSets

CONSTANTS
  Loops,   \* the threads that start() may create, each used once
  NoLoop,  \* _thread is None
  Prompt   \* TRUE: a tick and its sleep take less than the 5 s of join()

ASSUME LoopsAssumption ==
  /\ NoLoop \notin Loops
  /\ Prompt \in BOOLEAN

VARIABLES
  running,  \* _running
  thread,   \* _thread
  loop,     \* where each thread stands
  owner,    \* "free", or "joining": inside stop()
  wanted    \* history: start() was called, and no stop() since

botVars == <<running, thread, loop, owner, wanted>>

InTick == {"ticking", "ordering", "balancing"}
Alive(l) == loop[l] \notin {"new", "dead"}

Init ==
  /\ running = FALSE
  /\ thread = NoLoop
  /\ loop = [l \in Loops |-> "new"]
  /\ owner = "free"
  /\ wanted = FALSE

-----------------------------------------------------------------------------
(* The owner. *)

StartUnchecked(l) ==   \* variant: start() without its guard
  /\ owner = "free"
  /\ loop[l] = "new"
  /\ running' = TRUE
  /\ thread' = l
  /\ loop' = [loop EXCEPT ![l] = "checking"]
  /\ wanted' = TRUE
  /\ UNCHANGED owner

\* start() does nothing but log while it believes that a loop is running.
Start(l) ==
  /\ owner = "free"
  /\ ~running /\ (thread # NoLoop => ~Alive(thread))
  /\ loop[l] = "new"
  /\ running' = TRUE
  /\ thread' = l
  /\ loop' = [loop EXCEPT ![l] = "checking"]
  /\ wanted' = TRUE
  /\ UNCHANGED owner

\* stop() returns at once if _running is False already.
StopIgnored ==
  /\ owner = "free"
  /\ ~running
  /\ wanted' = FALSE
  /\ UNCHANGED <<running, thread, loop, owner>>

StopBegins ==
  /\ owner = "free"
  /\ running
  /\ running' = FALSE
  /\ owner' = IF thread = NoLoop THEN "free" ELSE "joining"
  /\ wanted' = FALSE
  /\ UNCHANGED <<thread, loop>>

JoinEndsAnyhow ==   \* variant: stop() does not wait for the thread
  /\ owner = "joining"
  /\ thread' = NoLoop
  /\ owner' = "free"
  /\ UNCHANGED <<running, loop, wanted>>

\* The join ends with the thread, or after 5 s; nobody looks which.
JoinEnds ==
  /\ owner = "joining"
  /\ Prompt => ~Alive(thread)
  /\ thread' = NoLoop
  /\ owner' = "free"
  /\ UNCHANGED <<running, loop, wanted>>

-----------------------------------------------------------------------------
(* A thread in _run_loop. *)

Moves(l, from, to) ==
  /\ loop[l] = from
  /\ loop' = [loop EXCEPT ![l] = to]
  /\ UNCHANGED <<running, thread, owner, wanted>>

EnterForever(l) == Moves(l, "checking", "ticking")   \* variant: while True

Enter(l) == Moves(l, "checking", IF running THEN "ticking" ELSE "ending")

\* The tick ends early: breaker open, no candles or fewer than 30, a signal
\* that is not actionable, a dry run, or an exception, which is logged.
TickSkips(l) == Moves(l, "ticking", "sleeping")

TickDecides(l) == Moves(l, "ticking", "ordering")

\* buy(), whatever it returns; then the balance is read for the breaker.
TickOrders(l) == Moves(l, "ordering", "balancing")

TickBalances(l) == Moves(l, "balancing", "sleeping")

Wakes(l) == Moves(l, "sleeping", "checking")

\* The last statement of the thread: it clears the flag of whoever set it.
Ends(l) ==
  /\ loop[l] = "ending"
  /\ loop' = [loop EXCEPT ![l] = "dead"]
  /\ running' = FALSE
  /\ UNCHANGED <<thread, owner, wanted>>

-----------------------------------------------------------------------------
Control ==
  \/ \E l \in Loops : Start(l)
  \/ StopIgnored \/ StopBegins \/ JoinEnds

Runs(l) ==
  \/ Enter(l) \/ Wakes(l) \/ Ends(l)
  \/ TickSkips(l) \/ TickDecides(l) \/ TickOrders(l) \/ TickBalances(l)

Next == Control \/ \E l \in Loops : Runs(l)

Spec == Init /\ [][Next]_botVars

\* Threads run; buy(), get_candles() and get_balance() come back; join() ends.
FairSpec ==
  /\ Spec
  /\ \A l \in Loops : WF_botVars(Runs(l))
  /\ WF_botVars(JoinEnds)

-----------------------------------------------------------------------------
TypeOK ==
  /\ running \in BOOLEAN
  /\ thread \in Loops \cup {NoLoop}
  /\ loop \in [Loops -> {"new", "checking", "sleeping", "ending", "dead"} \cup InTick]
  /\ owner \in {"free", "joining"}
  /\ wanted \in BOOLEAN

\* Two loops never trade at the same time ("Lanza el ciclo principal en un
\* thread separado", "BotOrchestrator is already running.").  It holds while
\* stop() can wait for the thread.
OneLoop == \A l, m \in Loops : Alive(l) /\ Alive(m) => l = m

\* stop() "detiene el orquestador limpiamente": once it has returned, and until
\* the next start(), no thread is left that could place an order.
StoppedIsQuiet == owner = "free" /\ ~wanted => \A l \in Loops : ~Alive(l)

\* A bot that was started and not stopped is running: no earlier thread clears
\* the flag under the new one.
StartedKeepsRunning == wanted => running /\ thread # NoLoop /\ Alive(thread)

\* After stop() every thread leaves its loop, unless the bot is started again
\* before the thread looks at the flag.
StopsInTheEnd == \A l \in Loops : (Alive(l) /\ ~running) ~> (~Alive(l) \/ running)
=============================================================================
