----------------------- MODULE BotOrchestratorProofs -----------------------
(***************************************************************************)
(* BotOrchestrator for any number of starts: its types, and, where stop()  *)
(* can wait for the thread (Prompt), that two loops never run, that        *)
(* nothing is left after stop(), and that a started bot keeps running.     *)
(* None of the three is inductive alone: what they have in common is that  *)
(* the thread that lives is the one in _thread (Owned) and that the flag   *)
(* follows the owner's wish (Obeys).                                       *)
(*                                                                         *)
(* At the end, GuardedBot: its steps are steps of the bot, so that no two  *)
(* threads are between the question to the breaker and the order.          *)
(***************************************************************************)
EXTENDS GuardedBot, TLAPS

\* Only the thread in _thread lives.
Owned == \A l \in Loops : Alive(l) => thread = l

\* The flag is up only on the owner's wish; it is down inside stop(); and the
\* thread of a wanted bot is not on its way out.
Obeys ==
  /\ running => wanted
  /\ owner = "joining" => ~wanted /\ thread # NoLoop
  /\ wanted => thread # NoLoop /\ loop[thread] # "ending"

\* The types; and for a bot whose ticks are prompt the parts above with the properties
\* they make inductive.
IInv == TypeOK /\ (Prompt => Owned /\ Obeys /\ StoppedIsQuiet /\ StartedKeepsRunning)

\* Before the first start() nothing runs.
LEMMA InitIInv == Init => IInv
BY LoopsAssumption DEF Init, IInv, TypeOK, InTick, Owned, Obeys, StoppedIsQuiet,
                       StartedKeepsRunning, Alive

\* Every step of the owner and of the threads keeps the types.
LEMMA NextTypeOK == TypeOK /\ [Next]_botVars => TypeOK'
<1> SUFFICES ASSUME TypeOK, [Next]_botVars PROVE TypeOK'
  OBVIOUS
<1> USE LoopsAssumption DEF TypeOK, InTick
<1>1. ASSUME NEW l \in Loops, Start(l) PROVE TypeOK'
  BY <1>1 DEF Start
<1>2. CASE StopIgnored \/ StopBegins \/ JoinEnds
  BY <1>2 DEF StopIgnored, StopBegins, JoinEnds
<1>3. ASSUME NEW l \in Loops, Runs(l) PROVE TypeOK'
  BY <1>3 DEF Runs, Enter, Wakes, Ends, TickSkips, TickDecides, TickOrders, TickBalances,
              Moves
<1>4. CASE UNCHANGED botVars
  BY <1>4 DEF botVars
<1> QED
  BY <1>1, <1>2, <1>3, <1>4 DEF Next, Control

\* A thread that moves within its loop disturbs nothing, as long as it leaves
\* the loop only when the flag is down.
LEMMA MovesKeep ==
  ASSUME TypeOK, Owned, Obeys, StoppedIsQuiet, StartedKeepsRunning,
         NEW l \in Loops, NEW from \in {"checking", "sleeping"} \cup InTick,
         NEW to \in {"checking", "sleeping", "ending"} \cup InTick,
         to = "ending" => ~running,
         Moves(l, from, to)
  PROVE  Owned' /\ Obeys' /\ StoppedIsQuiet' /\ StartedKeepsRunning'
<1>1. /\ UNCHANGED <<running, thread, owner, wanted>>
      /\ loop' = [loop EXCEPT ![l] = to]
      /\ loop \in [Loops -> {"new", "checking", "sleeping", "ending", "dead"} \cup InTick]
      /\ thread \in Loops \cup {NoLoop}
  BY DEF Moves, TypeOK
<1>2. \A m \in Loops : Alive(m)' <=> Alive(m)
  BY <1>1 DEF Moves, Alive, InTick
<1>3. wanted => thread \in Loops /\ (thread = l => to # "ending")
  BY <1>1 DEF Obeys, StartedKeepsRunning
<1>4. Owned'
  BY <1>1, <1>2 DEF Owned
<1>5. Obeys'
  BY <1>1, <1>3 DEF Obeys
<1>6. StoppedIsQuiet'
  BY <1>1, <1>2 DEF StoppedIsQuiet
<1>7. StartedKeepsRunning'
  BY <1>1, <1>2, <1>3 DEF StartedKeepsRunning
<1> QED
  BY <1>4, <1>5, <1>6, <1>7

\* The invariant is inductive: start() finds no thread alive, stop() leaves
\* none, and the thread that ends is the one that was stopped.
LEMMA NextIInv == IInv /\ [Next]_botVars => IInv'
<1> SUFFICES ASSUME IInv, [Next]_botVars, Prompt
             PROVE  Owned' /\ Obeys' /\ StoppedIsQuiet' /\ StartedKeepsRunning'
  BY NextTypeOK DEF IInv
<1> USE LoopsAssumption
<1>0. TypeOK /\ Owned /\ Obeys /\ StoppedIsQuiet /\ StartedKeepsRunning
  BY DEF IInv
<1>1. ASSUME NEW l \in Loops, Start(l)
      PROVE  Owned' /\ Obeys' /\ StoppedIsQuiet' /\ StartedKeepsRunning'
  <2>1. \A m \in Loops : ~Alive(m)
    BY <1>0, <1>1 DEF Start, StoppedIsQuiet, StartedKeepsRunning
  <2>2. \A m \in Loops : Alive(m)' <=> m = l
    BY <1>0, <1>1, <2>1 DEF Start, TypeOK, Alive
  <2> QED
    BY <1>0, <1>1, <2>2
       DEF Start, TypeOK, Owned, Obeys, StoppedIsQuiet, StartedKeepsRunning
<1>2. CASE StopIgnored
  BY <1>0, <1>2 DEF StopIgnored, Owned, Obeys, StoppedIsQuiet, StartedKeepsRunning, Alive
<1>3. CASE StopBegins
  BY <1>0, <1>3 DEF StopBegins, Owned, Obeys, StoppedIsQuiet, StartedKeepsRunning, Alive
<1>4. CASE JoinEnds
  BY <1>0, <1>4 DEF JoinEnds, Owned, Obeys, StoppedIsQuiet, StartedKeepsRunning, Alive
<1>5. ASSUME NEW l \in Loops, Runs(l)
      PROVE  Owned' /\ Obeys' /\ StoppedIsQuiet' /\ StartedKeepsRunning'
  <2>1. CASE Enter(l)
    <3> DEFINE to == IF running THEN "ticking" ELSE "ending"
    <3>1. Moves(l, "checking", to) /\ to \in {"ticking", "ending"}
          /\ (to = "ending" => ~running)
      BY <2>1 DEF Enter
    <3> HIDE DEF to
    <3> QED
      BY <1>0, <3>1, MovesKeep DEF InTick
  <2>2. CASE TickSkips(l) \/ TickDecides(l) \/ TickOrders(l) \/ TickBalances(l) \/ Wakes(l)
    BY <1>0, <2>2, MovesKeep
       DEF TickSkips, TickDecides, TickOrders, TickBalances, Wakes, InTick
  <2>3. CASE Ends(l)
    <3>1. Alive(l) /\ thread = l /\ ~wanted
      BY <1>0, <2>3 DEF Ends, Alive, Owned, Obeys
    <3>2. \A m \in Loops : ~Alive(m)'
      BY <1>0, <2>3, <3>1 DEF Ends, TypeOK, Alive, Owned
    <3> QED
      BY <1>0, <2>3, <3>1, <3>2
         DEF Ends, Owned, Obeys, StoppedIsQuiet, StartedKeepsRunning
  <2> QED
    BY <1>5, <2>1, <2>2, <2>3 DEF Runs
<1>6. CASE UNCHANGED botVars
  BY <1>0, <1>6 DEF botVars, Owned, Obeys, StoppedIsQuiet, StartedKeepsRunning, Alive
<1> QED
  BY <1>1, <1>2, <1>3, <1>4, <1>5, <1>6 DEF Next, Control

\* The invariant holds in every state the bot reaches.
LEMMA Invariance == Spec => []IInv
BY InitIInv, NextIInv, PTL DEF Spec

\* The attributes of the orchestrator and the place of every thread have their
\* types, however long ticks take.
THEOREM TypeCorrect == Spec => []TypeOK
<1>1. IInv => TypeOK
  BY DEF IInv
<1> QED
  BY <1>1, Invariance, PTL

\* Where stop() can wait for the thread, two loops never run.
THEOREM LoopsAreOne == ASSUME Prompt PROVE Spec => []OneLoop
<1>1. IInv => OneLoop
  BY DEF IInv, Owned, OneLoop
<1> QED
  BY <1>1, Invariance, PTL

\* Where stop() can wait for the thread, no thread is left once it returned.
THEOREM StopLeavesNothing == ASSUME Prompt PROVE Spec => []StoppedIsQuiet
<1>1. IInv => StoppedIsQuiet
  BY DEF IInv
<1> QED
  BY <1>1, Invariance, PTL

\* Where stop() can wait for the thread, a bot that was started and not stopped
\* is running.
THEOREM StartLasts == ASSUME Prompt PROVE Spec => []StartedKeepsRunning
<1>1. IInv => StartedKeepsRunning
  BY DEF IInv
<1> QED
  BY <1>1, Invariance, PTL

-----------------------------------------------------------------------------
(* The bot with its breaker. *)

\* Once an order has slipped through, no other is on its way.
Slips ==
  state = "OPEN" =>
    slipped = 0 \/ (slipped = 1 /\ \A l \in Loops : loop[l] # "ordering")

\* The steps of the bot with its breaker are steps of the bot.
LEMMA GuardedIsBot == [GuardedNext]_guardedVars => [Next]_botVars
<1> SUFFICES ASSUME [GuardedNext]_guardedVars PROVE [Next]_botVars
  OBVIOUS
<1>1. CASE Control /\ BreakerAlone
  BY <1>1 DEF Next
<1>2. ASSUME NEW l \in Loops, RunsGuarded(l) PROVE Next
  <2>1. Runs(l)
    BY <1>2 DEF RunsGuarded, SkipsGuarded, DecidesGuarded, OrdersGuarded, BalancesGuarded, Runs
  <2> QED
    BY <2>1 DEF Next
<1>3. CASE Status \/ Reports \/ TimePasses \/ UNCHANGED guardedVars
  BY <1>3 DEF Status, Reports, TimePasses, guardedVars
<1> QED
  BY <1>1, <1>2, <1>3 DEF GuardedNext

\* A step that places no order, and decides on none while the breaker is open.
LEMMA SlipsKept ==
  ASSUME Slips, Counts,
         state' = "OPEN" => \A l \in Loops : loop'[l] = "ordering" => loop[l] = "ordering"
  PROVE  Slips'
<1> SUFFICES ASSUME state' = "OPEN"
             PROVE  (slipped = 0 \/ (slipped = 1 /\ \A l \in Loops : loop[l] # "ordering"))'
  BY DEF Slips
<1>1. CASE state # "OPEN"
  BY <1>1 DEF Counts
<1>2. CASE state = "OPEN"
  <2>1. slipped' = slipped
    BY <1>2 DEF Counts
  <2> QED
    BY <1>2, <2>1 DEF Slips
<1> QED
  BY <1>1, <1>2

\* Only a thread that found the breaker closed goes on to an order, and there is one
\* thread.
LEMMA SlipsInductive ==
  ASSUME TypeOK, OneLoop, Slips, [GuardedNext]_guardedVars
  PROVE  Slips'
<1>1. CASE Control /\ BreakerAlone
  <2>1. UNCHANGED state /\ UNCHANGED slipped
    BY <1>1 DEF BreakerAlone, breakerVars
  <2>2. \A l \in Loops : loop'[l] = "ordering" => loop[l] = "ordering"
    BY <1>1 DEF Control, Start, StopIgnored, StopBegins, JoinEnds, TypeOK
  <2> QED
    BY <2>1, <2>2, SlipsKept DEF Counts
<1>2. ASSUME NEW l \in Loops, SkipsGuarded(l) PROVE Slips'
  <2>1. \A m \in Loops : loop'[m] = "ordering" => loop[m] = "ordering"
    BY <1>2 DEF SkipsGuarded, TickSkips, Moves, TypeOK
  <2> QED
    BY <1>2, <2>1, SlipsKept DEF SkipsGuarded
<1>3. ASSUME NEW l \in Loops, DecidesGuarded(l) PROVE Slips'
  <2>1. state' # "OPEN"
    BY <1>3 DEF DecidesGuarded, Breaker!IsOpen, Breaker!Observe
  <2> QED
    BY <2>1 DEF Slips
<1>4. ASSUME NEW l \in Loops, OrdersGuarded(l) PROVE Slips'
  <2> SUFFICES ASSUME state' = "OPEN"
               PROVE  slipped' = 1 /\ \A m \in Loops : loop'[m] # "ordering"
    BY DEF Slips
  <2>1. state = "OPEN" /\ loop[l] = "ordering" /\ loop' = [loop EXCEPT ![l] = "balancing"]
    BY <1>4 DEF OrdersGuarded, TickOrders, Moves, breakerVars
  <2>2. slipped = 0
    BY <2>1 DEF Slips
  <2>3. slipped' = 1
    BY <1>4, <2>1, <2>2, CompositionAssumption DEF OrdersGuarded, UpTo
  <2>4. \A m \in Loops : loop[m] = "ordering" => m = l
    BY <2>1 DEF OneLoop, Alive
  <2> QED
    BY <2>1, <2>3, <2>4 DEF TypeOK
<1>5. ASSUME NEW l \in Loops, BalancesGuarded(l) PROVE Slips'
  <2>1. UNCHANGED state /\ UNCHANGED slipped
    BY <1>5 DEF BalancesGuarded, Breaker!BalanceUpdate, Breaker!phaseVars, breakerVars
  <2>2. \A m \in Loops : loop'[m] = "ordering" => loop[m] = "ordering"
    BY <1>5 DEF BalancesGuarded, TickBalances, Moves, TypeOK
  <2> QED
    BY <2>1, <2>2, SlipsKept DEF Counts
<1>6. ASSUME NEW l \in Loops, (Enter(l) \/ Wakes(l) \/ Ends(l)) /\ BreakerAlone PROVE Slips'
  <2>1. UNCHANGED state /\ UNCHANGED slipped
    BY <1>6 DEF BreakerAlone, breakerVars
  <2>2. \A m \in Loops : loop'[m] = "ordering" => loop[m] = "ordering"
    BY <1>6 DEF Enter, Wakes, Ends, Moves, TypeOK
  <2> QED
    BY <2>1, <2>2, SlipsKept DEF Counts
<1>7. CASE Status \/ Reports
  BY <1>7, SlipsKept DEF Status, Reports, botVars
<1>8. CASE TimePasses \/ UNCHANGED guardedVars
  BY <1>8 DEF TimePasses, Breaker!BreakerTick, guardedVars, botVars, breakerVars, Slips
<1> QED
  BY <1>1, <1>2, <1>3, <1>4, <1>5, <1>6, <1>7, <1>8 DEF GuardedNext, RunsGuarded

\* Where stop() can wait for the thread, no more than one order is placed while the
\* breaker stays open, for any limits, balances and stakes and any number of starts.
THEOREM OneOrderSlips == ASSUME Prompt PROVE GuardedSpec => []OneSlips
<1>1. GuardedInit => IInv /\ Slips
  BY InitIInv DEF GuardedInit, Breaker!BreakerInit, Slips
<1>2. IInv /\ Slips /\ [GuardedNext]_guardedVars => IInv' /\ Slips'
  <2> SUFFICES ASSUME IInv, Slips, [GuardedNext]_guardedVars PROVE IInv' /\ Slips'
    OBVIOUS
  <2>1. IInv'
    BY GuardedIsBot, NextIInv
  <2>2. TypeOK /\ OneLoop
    BY DEF IInv, Owned, OneLoop
  <2> QED
    BY <2>1, <2>2, SlipsInductive
<1>3. Slips => OneSlips
  BY DEF Slips, OneSlips
<1> QED
  BY <1>1, <1>2, <1>3, PTL DEF GuardedSpec
=============================================================================
