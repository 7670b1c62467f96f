----------------------------- MODULE GuardedBot -----------------------------
(***************************************************************************)
(* The bot with its circuit breaker: BotOrchestrator composed with         *)
(* CircuitBreaker, as cli/main.py wires them.  A tick asks is_open() when  *)
(* it begins and hands the new balance over when it has traded; the owner  *)
(* asks for the status every second.  No code of the repository reports    *)
(* the outcome of a trade to the breaker: the program around the library   *)
(* does, through record_win() and record_loss(), as the tests of the       *)
(* breaker do.                                                             *)
(***************************************************************************)
EXTENDS BotOrchestrator, Integers

CONSTANTS
  MaxConsecutive, MaxSessionLoss, MaxDrawdownPct, RecoveryWait, Balances, Stakes,
  MaxCounted   \* bound: how far slipped counts

ASSUME CompositionAssumption == MaxCounted \in Nat \ {0}

VARIABLES
  state, losses, sessionLoss, peak, current, seen, sinceTrip, testDone, trials, lastCall,
  slipped      \* history: orders placed since the breaker opened

Breaker == INSTANCE CircuitBreaker

breakerVars == <<state, losses, sessionLoss, peak, current, seen, sinceTrip, testDone,
                 trials, lastCall>>
guardedVars == <<botVars, breakerVars, slipped>>

GuardedInit == Init /\ Breaker!BreakerInit /\ slipped = 0

UpTo(limit, n) == IF n > limit THEN limit ELSE n

\* A step that uses the breaker may open it, and the count starts anew.
Counts == slipped' = IF state # "OPEN" /\ state' = "OPEN" THEN 0 ELSE slipped

\* The other steps.
BreakerAlone == UNCHANGED <<breakerVars, slipped>>

-----------------------------------------------------------------------------
SkipsGuarded(l) ==
  /\ TickSkips(l)
  /\ Breaker!IsOpen
  /\ Counts

DecidesUnguarded(l) ==   \* variant: the tick does not ask is_open()
  /\ TickDecides(l)
  /\ BreakerAlone

\* The breaker is asked once, before the candles are fetched and evaluated.
DecidesGuarded(l) ==
  /\ TickDecides(l)
  /\ Breaker!IsOpen
  /\ Breaker!Observed # "OPEN"
  /\ Counts

OrdersGuarded(l) ==
  /\ TickOrders(l)
  /\ slipped' = IF state = "OPEN" THEN UpTo(MaxCounted, slipped + 1) ELSE slipped
  /\ UNCHANGED breakerVars

\* get_balance() gives a balance, or None, or raises.
BalancesGuarded(l) ==
  /\ TickBalances(l)
  /\ (\E b \in Balances : Breaker!BalanceUpdate(b)) \/ UNCHANGED breakerVars
  /\ UNCHANGED slipped

RunsGuarded(l) ==
  \/ SkipsGuarded(l) \/ DecidesGuarded(l) \/ OrdersGuarded(l) \/ BalancesGuarded(l)
  \/ (Enter(l) \/ Wakes(l) \/ Ends(l)) /\ BreakerAlone

\* status() is asked while is_running().
Status ==
  /\ thread # NoLoop /\ Alive(thread)
  /\ owner = "free"
  /\ Breaker!StatusReport
  /\ Counts
  /\ UNCHANGED botVars

\* External: outcomes reported by the program that uses the library.
Reports ==
  /\ \E b \in Balances :
       Breaker!RecordWin(b) \/ \E amount \in Stakes : Breaker!RecordLoss(amount, b)
  /\ Counts
  /\ UNCHANGED botVars

TimePasses ==
  /\ Breaker!BreakerTick
  /\ UNCHANGED <<botVars, slipped>>

GuardedNext ==
  \/ Control /\ BreakerAlone
  \/ \E l \in Loops : RunsGuarded(l)
  \/ Status \/ Reports \/ TimePasses

GuardedSpec == GuardedInit /\ [][GuardedNext]_guardedVars

\* As in BotOrchestrator: threads run, and join() ends.
GuardedFairSpec ==
  /\ GuardedSpec
  /\ \A l \in Loops : WF_guardedVars(RunsGuarded(l))
  /\ WF_guardedVars(JoinEnds /\ BreakerAlone)

-----------------------------------------------------------------------------
\* The breaker is asked at the beginning of a tick and the order is placed at
\* its end.  A trip in between comes too late for that order, and for no other:
\* while the breaker stays open one order slips through, with one bot that is
\* stopped and started as often as you like.
OneSlips == state = "OPEN" => slipped <= 1
=============================================================================
