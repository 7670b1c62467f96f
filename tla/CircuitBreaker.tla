--------------------------- MODULE CircuitBreaker ---------------------------
(***************************************************************************)
(* circuit_breaker.py: the switch that should stop trading after losses.   *)
(* One action per public method; each is called by the trading thread, the *)
(* reconnection threads or whoever asks for the status.                    *)
(*                                                                         *)
(* Counters are kept only as far as the code compares them: the loss       *)
(* counter up to its limit, the loss of the session up to its limit, the   *)
(* time since the last trip up to the recovery wait.  Money is in whole    *)
(* units.  _trips_today is only reported and is left out.                  *)
(***************************************************************************)
EXTENDS Integers

CONSTANTS
  MaxConsecutive,  \* max_consecutive_losses
  MaxSessionLoss,  \* max_session_loss_usd
  MaxDrawdownPct,  \* max_drawdown_pct, in percent
  RecoveryWait,    \* recovery_wait_secs, in ticks
  Balances,        \* the account balances that come up
  Stakes           \* the amounts that can be lost in one trade

ASSUME BreakerAssumption ==
  /\ MaxConsecutive \in Nat \ {0}
  /\ MaxSessionLoss \in Nat
  /\ MaxDrawdownPct \in Nat
  /\ RecoveryWait \in Nat
  /\ Balances \subseteq Nat
  /\ Stakes \subseteq Nat

VARIABLES
  state,        \* _state
  losses,       \* _consecutive_losses
  sessionLoss,  \* _session_loss_usd
  peak,         \* _peak_balance
  current,      \* _current_balance
  seen,         \* _initial_balance is not None
  sinceTrip,    \* time.time() - _last_trip_time
  testDone,     \* _half_open_test_done
  trials,       \* history: orders can_trade() let through in this test phase
  lastCall      \* history: the method called last

breakerVars == <<state, losses, sessionLoss, peak, current, seen, sinceTrip, testDone,
          trials, lastCall>>
balanceVars == <<peak, current, seen>>
phaseVars   == <<state, testDone, trials>>

UpTo(limit, n) == IF n > limit THEN limit ELSE n

BreakerInit ==
  /\ state = "CLOSED"
  /\ losses = 0
  /\ sessionLoss = 0
  /\ peak = 0 /\ current = 0 /\ seen = FALSE
  /\ sinceTrip = RecoveryWait
  /\ testDone = FALSE
  /\ trials = 0
  /\ lastCall = "none"

-----------------------------------------------------------------------------
(* The state property: reading it is what ends the OPEN phase. *)

Recovers == state = "OPEN" /\ sinceTrip >= RecoveryWait
Observed == IF Recovers THEN "HALF" ELSE state

\* The phase as a method finds it after reading the property.
TestDone == ~Recovers /\ testDone
Trials   == IF Recovers THEN 0 ELSE trials

Observe == state' = Observed /\ testDone' = TestDone /\ trials' = Trials

\* _trip(), from whatever state.
Trip == state' = "OPEN" /\ sinceTrip' = 0

UpdateBalance(b) ==
  /\ seen' = TRUE
  /\ peak' = IF ~seen \/ b > peak THEN b ELSE peak
  /\ current' = b

\* The drawdown of peak p and balance b; not looked at when the balance is 0.
DrawdownReached(p, b) == (p - b) * 100 >= MaxDrawdownPct * p
LimitReached ==
  \/ losses' >= MaxConsecutive
  \/ sessionLoss' >= MaxSessionLoss
  \/ peak' > 0 /\ current' > 0 /\ DrawdownReached(peak', current')

-----------------------------------------------------------------------------
RecordWinClosing(b) ==   \* variant: closes whatever the phase
  /\ losses' = 0
  /\ UpdateBalance(b)
  /\ state' = "CLOSED"
  /\ testDone' = TestDone
  /\ trials' = Trials
  /\ lastCall' = "record_win"
  /\ UNCHANGED <<sessionLoss, sinceTrip>>

RecordWin(b) ==
  /\ losses' = 0
  /\ UpdateBalance(b)
  /\ state' = IF Observed = "HALF" THEN "CLOSED" ELSE Observed
  /\ testDone' = TestDone
  /\ trials' = Trials
  /\ lastCall' = "record_win"
  /\ UNCHANGED <<sessionLoss, sinceTrip>>

RecordLoss(amount, b) ==
  /\ losses' = UpTo(MaxConsecutive, losses + 1)
  /\ sessionLoss' = UpTo(MaxSessionLoss, sessionLoss + amount)
  /\ UpdateBalance(b)
  /\ IF Observed = "HALF" \/ (Observed = "CLOSED" /\ LimitReached)
     THEN Trip
     ELSE state' = Observed /\ UNCHANGED sinceTrip
  /\ testDone' = TestDone
  /\ trials' = Trials
  /\ lastCall' = "record_loss"

\* _update_balance_metrics(), called by the bot after each order.
BalanceUpdate(b) ==
  /\ UpdateBalance(b)
  /\ lastCall' = "balance"
  /\ UNCHANGED <<losses, sessionLoss, sinceTrip, phaseVars>>

RecordSuccess ==
  /\ losses' = 0
  /\ state' = "CLOSED"
  /\ lastCall' = "record_success"
  /\ UNCHANGED <<sessionLoss, sinceTrip, testDone, trials, balanceVars>>

\* It trips an OPEN breaker again, which starts the wait afresh.
RecordFailure ==
  /\ losses' = UpTo(MaxConsecutive, losses + 1)
  /\ IF losses' >= MaxConsecutive THEN Trip ELSE UNCHANGED <<state, sinceTrip>>
  /\ lastCall' = "record_failure"
  /\ UNCHANGED <<sessionLoss, testDone, trials, balanceVars>>

\* The current balance keeps its old value.
ResetSession(b) ==
  /\ losses' = 0 /\ sessionLoss' = 0
  /\ seen' = TRUE /\ peak' = b /\ UNCHANGED current
  /\ state' = "CLOSED"
  /\ lastCall' = "reset_session"
  /\ UNCHANGED <<sinceTrip, testDone, trials>>

\* is_open(), the state property, health checks.
IsOpen ==
  /\ Observe
  /\ lastCall' = "is_open"
  /\ UNCHANGED <<losses, sessionLoss, sinceTrip, balanceVars>>

AskForgetting ==   \* variant: _half_open_test_done is never set
  /\ state' = Observed
  /\ testDone' = TestDone
  /\ UNCHANGED <<losses, sessionLoss, sinceTrip, balanceVars>>

\* The first question of a test phase is answered True and uses the test up.
Ask ==
  /\ state' = Observed
  /\ testDone' = (TestDone \/ Observed = "HALF")
  /\ UNCHANGED <<losses, sessionLoss, sinceTrip, balanceVars>>

CanTrade ==
  /\ Ask
  /\ trials' = IF Observed = "HALF" /\ ~TestDone THEN UpTo(2, Trials + 1) ELSE Trials
  /\ lastCall' = "can_trade"

\* status_report() asks can_trade() too, and nobody trades on the answer.
StatusReport ==
  /\ Ask
  /\ trials' = Trials
  /\ lastCall' = "status_report"

BreakerTick ==
  /\ sinceTrip < RecoveryWait
  /\ sinceTrip' = sinceTrip + 1
  /\ UNCHANGED <<state, losses, sessionLoss, balanceVars, testDone, trials, lastCall>>

BreakerNext ==
  \/ \E b \in Balances :
       \/ RecordWin(b)
       \/ \E amount \in Stakes : RecordLoss(amount, b)
       \/ BalanceUpdate(b)
       \/ ResetSession(b)
  \/ RecordSuccess \/ RecordFailure
  \/ IsOpen \/ CanTrade \/ StatusReport
  \/ BreakerTick

BreakerSpec == BreakerInit /\ [][BreakerNext]_breakerVars

-----------------------------------------------------------------------------
BreakerTypeOK ==
  /\ state \in {"CLOSED", "OPEN", "HALF"}
  /\ losses \in 0 .. MaxConsecutive
  /\ sessionLoss \in 0 .. MaxSessionLoss
  /\ peak \in Balances \cup {0}
  /\ current \in Balances \cup {0}
  /\ seen \in BOOLEAN
  /\ sinceTrip \in 0 .. RecoveryWait
  /\ testDone \in BOOLEAN
  /\ trials \in 0 .. 2
  /\ lastCall \in {"none", "record_win", "record_loss", "balance", "record_success",
                   "record_failure", "reset_session", "is_open", "can_trade",
                   "status_report"}

\* A breaker that is CLOSED has seen fewer losses or failures in a row than its
\* limit, whatever mix of outcomes, reconnections and resets led there.
ClosedBelowLimit == state = "CLOSED" => losses < MaxConsecutive

\* can_trade() lets at most one order through in a test phase, and when it has
\* let one through the test counts as done until the phase is over.
OneTrial == state = "HALF" => trials <= 1 /\ (trials = 1 => testDone)

\* Trading resumes after a trip only once the wait is over, or because a
\* reconnection or a reset of the session closed the circuit.
RecoveryIsWaited ==
  [][state = "OPEN" /\ state' # "OPEN"
       => sinceTrip >= RecoveryWait \/ lastCall' \in {"record_success", "reset_session"}]_breakerVars
=============================================================================
