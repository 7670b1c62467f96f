-------------------------------- MODULE Stakes --------------------------------
(***************************************************************************)
(* martingale_guard.py: the amount of the next trade, from the result of   *)
(* the last one and the balance.  Money is in cents, and a percentage of   *)
(* it is rounded down.                                                     *)
(*                                                                         *)
(* The library knows the results "win", "loss" and "draw"; the server says *)
(* "loose" and "equal", which next_amount() would take for a win.  Who     *)
(* calls it has to translate.                                              *)
(***************************************************************************)
EXTENDS Integers, Sequences

CONSTANTS
  Strategies,    \* members of MoneyManagement
  BaseAmount,    \* base_amount
  Growth,        \* the powers of multiplier
  MaxSteps,      \* max_steps
  MaxAmount,     \* max_amount_usd
  MaxBalancePct, \* max_balance_pct, in percent
  MinAmount,     \* the 1.0 of the broker
  Accounts,      \* the balances that come up
  MaxStreak      \* bound: losses, or wins, in a row

ASSUME StakesAssumption ==
  /\ Strategies \subseteq {"flat", "martingale", "anti_martingale", "fibonacci", "kelly"}
  /\ MaxSteps \in Nat /\ MaxStreak \in Nat
  /\ {BaseAmount, MaxAmount, MaxBalancePct, MinAmount} \subseteq Nat
  /\ Growth \in [0 .. MaxSteps -> Nat]
  /\ Accounts \subseteq Nat

VARIABLES
  strategy,
  step,         \* _current_step
  lastAmount,   \* _last_amount
  lastBalance,  \* history: the balance of the last call, -1 if there was none
  streak        \* history: the losses since the last win, or the wins since the
                \* last loss with "anti_martingale"

stakeVars == <<strategy, step, lastAmount, lastBalance, streak>>

FibSequence == <<1, 1, 2, 3, 5, 8, 13, 21, 34, 55>>

StakeInit ==
  /\ strategy \in Strategies
  /\ step = 0
  /\ lastAmount = BaseAmount
  /\ lastBalance = -1
  /\ streak = 0

-----------------------------------------------------------------------------
Lower(a, b)  == IF a < b THEN a ELSE b
Higher(a, b) == IF a > b THEN a ELSE b

BalanceCap(balance) == (balance * MaxBalancePct) \div 100

\* The caps, and then the smallest amount that the broker takes.
Capped(amount, balance) ==
  Higher(MinAmount, Lower(Lower(amount, MaxAmount), BalanceCap(balance)))

Grows(result) == result = IF strategy = "anti_martingale" THEN "win" ELSE "loss"

StepSaturates(result) ==   \* variant: the progression stays at its limit
  IF strategy \in {"martingale", "anti_martingale"}
  THEN IF Grows(result) THEN Lower(MaxSteps, step + 1) ELSE 0
  ELSE IF strategy = "fibonacci"
  THEN IF Grows(result) THEN Lower(Lower(Len(FibSequence) - 1, MaxSteps), step + 1)
                        ELSE Higher(0, step - 2)
  ELSE step

\* _calculate_raw_amount(): too many steps begin from the base again.
NextStep(result) ==
  IF strategy \in {"martingale", "anti_martingale"}
  THEN IF Grows(result) /\ step < MaxSteps THEN step + 1 ELSE 0
  ELSE IF strategy = "fibonacci"
  THEN IF Grows(result)
       THEN LET up == Lower(Len(FibSequence) - 1, step + 1) IN IF up > MaxSteps THEN 0 ELSE up
       ELSE Higher(0, step - 2)
  ELSE step

RawAmount(s) ==
  IF strategy \in {"martingale", "anti_martingale"} THEN BaseAmount * Growth[s]
  ELSE IF strategy = "fibonacci" THEN BaseAmount * FibSequence[s + 1]
  ELSE BaseAmount

\* next_amount(None, balance)
FirstAmount(balance) ==
  /\ step' = 0
  /\ lastAmount' = Capped(BaseAmount, balance)
  /\ lastBalance' = balance
  /\ streak' = 0
  /\ UNCHANGED strategy

\* next_amount("draw", balance): the same amount again, if the balance allows it.
AmountAfterDraw(balance) ==
  /\ lastAmount' = Capped(lastAmount, balance)
  /\ lastBalance' = balance
  /\ UNCHANGED <<strategy, step, streak>>

NextAmount(result, balance) ==
  /\ Grows(result) => streak < MaxStreak
  /\ step' = NextStep(result)
  /\ lastAmount' = Capped(RawAmount(NextStep(result)), balance)
  /\ lastBalance' = balance
  /\ streak' = IF Grows(result) THEN streak + 1 ELSE 0
  /\ UNCHANGED strategy

Reset ==
  /\ step' = 0
  /\ lastAmount' = BaseAmount
  /\ lastBalance' = -1
  /\ streak' = 0
  /\ UNCHANGED strategy

StakeNext ==
  \/ \E balance \in Accounts :
       \/ FirstAmount(balance) \/ AmountAfterDraw(balance)
       \/ \E result \in {"win", "loss"} : NextAmount(result, balance)
  \/ Reset

StakeSpec == StakeInit /\ [][StakeNext]_stakeVars

-----------------------------------------------------------------------------
StakeTypeOK ==
  /\ strategy \in Strategies
  /\ step \in 0 .. MaxSteps
  /\ strategy = "fibonacci" => step < Len(FibSequence)
  /\ lastAmount \in Nat
  /\ lastBalance \in Accounts \cup {-1}
  /\ streak \in 0 .. MaxStreak

\* Whatever the run of results, no stake is above max_amount_usd or above its
\* share of the balance at that time, unless it is the smallest the broker takes:
\* the floor comes after the caps.
StakeWithinCaps ==
  lastBalance # -1 =>
    \/ lastAmount = MinAmount
    \/ lastAmount <= MaxAmount /\ lastAmount * 100 <= lastBalance * MaxBalancePct

\* The progression follows the losses in a row and begins again after max_steps of
\* them, draws and calls with other balances in between notwithstanding.
StepFollowsStreak ==
  strategy \in {"martingale", "anti_martingale"} =>
    \E rounds \in 0 .. streak : streak = rounds * (MaxSteps + 1) + step

\* Stakes stay within the caps and return to the base, for every run of results.
StakesAreBounded == StakeWithinCaps /\ StepFollowsStreak
=============================================================================
