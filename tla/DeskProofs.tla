------------------------------ MODULE DeskProofs ------------------------------
(***************************************************************************)
(* Invariants of eleven small components, for all values of their           *)
(* constants: the stakes of martingale_guard.py, the rotations of           *)
(* ip_rotation.py, the pool of async_api.py, the registry of                *)
(* core/idempotency.py, the queue of subscription_manager.py, the monitors  *)
(* of mixins/positions_mixin.py, the files of trade_journal.py, the breaker *)
(* of circuit_breaker.py, the bucket of ratelimit.py, the settlement of the *)
(* orders mixin and the expiry of expiration.py.                            *)
(***************************************************************************)
EXTENDS Stakes, IpRotation, AsyncCalls, Idempotency, Subscriptions, Monitors, TradeRecords,
        CircuitBreaker, TokenBucket, Settlement, Expirations, ListsProofs

-----------------------------------------------------------------------------
(* Stakes *)

\* A percentage that is rounded down is no more than the percentage.
LEMMA RoundedDown ==
  ASSUME NEW x \in Nat
  PROVE  x \div 100 \in Nat /\ (x \div 100) * 100 <= x
OBVIOUS

\* A stake is at most the caps, or the least the broker takes.
LEMMA CappedWithin ==
  ASSUME NEW amount \in Nat, NEW balance \in Accounts
  PROVE  /\ Capped(amount, balance) \in Nat
         /\ \/ Capped(amount, balance) = MinAmount
            \/ /\ Capped(amount, balance) <= MaxAmount
               /\ Capped(amount, balance) * 100 <= balance * MaxBalancePct
<1> DEFINE share == balance * MaxBalancePct
           cap   == share \div 100
<1>1. share \in Nat
  BY StakesAssumption
<1>2. cap \in Nat /\ cap * 100 <= share
  BY <1>1, RoundedDown
<1>3. Capped(amount, balance) = Higher(MinAmount, Lower(Lower(amount, MaxAmount), cap))
  BY DEF Capped, BalanceCap
<1> HIDE DEF cap, share
<1>4. /\ Capped(amount, balance) \in Nat
      /\ \/ Capped(amount, balance) = MinAmount
         \/ Capped(amount, balance) <= MaxAmount /\ Capped(amount, balance) <= cap
  BY <1>2, <1>3, StakesAssumption DEF Higher, Lower
<1>5. Capped(amount, balance) <= cap => Capped(amount, balance) * 100 <= share
  BY <1>1, <1>2, <1>4
<1> QED
  BY <1>4, <1>5 DEF share

\* The steps of the progression have amounts.
LEMMA RawType ==
  ASSUME StakeTypeOK, NEW s \in 0 .. MaxSteps, strategy = "fibonacci" => s < 10
  PROVE  RawAmount(s) \in Nat
<1>1. BaseAmount * Growth[s] \in Nat
  <2>1. BaseAmount \in Nat /\ Growth[s] \in Nat
    BY StakesAssumption
  <2> QED
    BY <2>1
<1>2. ASSUME strategy = "fibonacci" PROVE BaseAmount * FibSequence[s + 1] \in Nat
  <2>1. s + 1 \in 1 .. 10
    BY <1>2, StakesAssumption
  <2>2. FibSequence[s + 1] \in Nat
    BY <2>1 DEF FibSequence
  <2>3. BaseAmount \in Nat
    BY StakesAssumption
  <2> QED
    BY <2>2, <2>3
<1> QED
  BY <1>1, <1>2, StakesAssumption DEF RawAmount

\* The progression moves within its limits.
LEMMA StepType ==
  ASSUME StakeTypeOK, NEW result \in {"win", "loss"}
  PROVE  /\ NextStep(result) \in 0 .. MaxSteps
         /\ strategy = "fibonacci" => NextStep(result) < 10
<1>1. Len(FibSequence) = 10
  BY DEF FibSequence
<1> QED
  BY <1>1, StakesAssumption DEF StakeTypeOK, NextStep, Lower, Higher

\* With the types the property is inductive.
StakeIInv == StakeTypeOK /\ StakesAreBounded

\* Before the first call the base amount is nobody's stake.
LEMMA StakeInitial == StakeInit => StakeIInv
<1>1. Len(FibSequence) = 10
  BY DEF FibSequence
<1>2. ASSUME StakeInit PROVE StakeTypeOK
  BY <1>1, <1>2, StakesAssumption DEF StakeInit, StakeTypeOK
<1>3. ASSUME StakeInit PROVE StakeWithinCaps
  BY <1>3 DEF StakeInit, StakeWithinCaps
<1>4. ASSUME StakeInit PROVE StepFollowsStreak
  <2>1. 0 = 0 * (MaxSteps + 1) + 0 /\ 0 \in 0 .. 0
    BY StakesAssumption
  <2> QED
    BY <1>4, <2>1 DEF StakeInit, StepFollowsStreak
<1> QED
  BY <1>2, <1>3, <1>4 DEF StakeIInv, StakesAreBounded

\* A result moves the step as the streak moves, around the circle of max_steps + 1.
LEMMA StepGoesRound ==
  ASSUME StakeIInv, NEW result \in {"win", "loss"}, NEW balance \in Accounts,
         NextAmount(result, balance)
  PROVE  StepFollowsStreak'
<1> SUFFICES ASSUME strategy \in {"martingale", "anti_martingale"}
             PROVE  \E rounds \in 0 .. streak' : streak' = rounds * (MaxSteps + 1) + step'
  BY DEF NextAmount, StepFollowsStreak
<1>1. /\ step' = IF Grows(result) /\ step < MaxSteps THEN step + 1 ELSE 0
      /\ streak' = IF Grows(result) THEN streak + 1 ELSE 0
  BY DEF NextAmount, NextStep
<1>2. /\ step \in 0 .. MaxSteps /\ streak \in Nat /\ MaxSteps \in Nat
  BY StakesAssumption DEF StakeIInv, StakeTypeOK
<1>3. PICK rounds \in 0 .. streak : streak = rounds * (MaxSteps + 1) + step
  BY DEF StakeIInv, StakesAreBounded, StepFollowsStreak
<1>4. CASE ~Grows(result)
  <2>1. step' = 0 /\ streak' = 0
    BY <1>1, <1>4
  <2>2. 0 = 0 * (MaxSteps + 1) + 0
    BY <1>2
  <2> QED
    BY <2>1, <2>2
<1>5. CASE Grows(result) /\ step < MaxSteps
  <2> DEFINE past == rounds * (MaxSteps + 1)
  <2>1. past \in Int
    BY <1>2
  <2> HIDE DEF past
  <2>2. streak + 1 = past + (step + 1)
    BY <1>2, <1>3, <2>1 DEF past
  <2> QED
    BY <1>1, <1>2, <1>5, <2>2 DEF past
<1>6. CASE Grows(result) /\ ~(step < MaxSteps)
  <2>1. step = MaxSteps /\ step' = 0 /\ streak' = streak + 1
    BY <1>1, <1>2, <1>6
  <2>2. streak + 1 = (rounds + 1) * (MaxSteps + 1) + 0
    BY <1>2, <1>3, <2>1
  <2>3. rounds + 1 \in 0 .. streak + 1
    BY <1>2
  <2> QED
    BY <2>1, <2>2, <2>3
<1> QED
  BY <1>4, <1>5, <1>6

\* Every stake that is computed is capped, and the step follows the streak.
LEMMA StakeInductive == StakeIInv /\ [StakeNext]_stakeVars => StakeIInv'
<1> SUFFICES ASSUME StakeIInv, [StakeNext]_stakeVars PROVE StakeIInv'
  OBVIOUS
<1> USE StakesAssumption
<1>0. StakeTypeOK /\ StakeWithinCaps /\ StepFollowsStreak /\ Len(FibSequence) = 10
  BY DEF StakeIInv, StakesAreBounded, FibSequence
<1>1. ASSUME NEW balance \in Accounts, FirstAmount(balance) PROVE StakeIInv'
  <2>1. StakeTypeOK'
    BY <1>0, <1>1, CappedWithin DEF FirstAmount, StakeTypeOK
  <2>2. StakeWithinCaps'
    BY <1>0, <1>1, CappedWithin DEF FirstAmount, StakeWithinCaps, StakeTypeOK
  <2>3. 0 = 0 * (MaxSteps + 1) + 0 /\ 0 \in 0 .. 0
    OBVIOUS
  <2>4. StepFollowsStreak'
    BY <1>1, <2>3 DEF FirstAmount, StepFollowsStreak
  <2> QED
    BY <2>1, <2>2, <2>4 DEF StakeIInv, StakesAreBounded
<1>2. ASSUME NEW balance \in Accounts, AmountAfterDraw(balance) PROVE StakeIInv'
  <2>1. StakeTypeOK'
    BY <1>0, <1>2, CappedWithin DEF AmountAfterDraw, StakeTypeOK
  <2>2. StakeWithinCaps'
    BY <1>0, <1>2, CappedWithin DEF AmountAfterDraw, StakeWithinCaps, StakeTypeOK
  <2>3. StepFollowsStreak'
    BY <1>0, <1>2 DEF AmountAfterDraw, StepFollowsStreak
  <2> QED
    BY <2>1, <2>2, <2>3 DEF StakeIInv, StakesAreBounded
<1>3. ASSUME NEW balance \in Accounts, NEW result \in {"win", "loss"}, NextAmount(result, balance)
      PROVE  StakeIInv'
  <2>1. /\ NextStep(result) \in 0 .. MaxSteps
        /\ strategy = "fibonacci" => NextStep(result) < 10
    BY <1>0, StepType
  <2>2. RawAmount(NextStep(result)) \in Nat
    BY <1>0, <2>1, RawType
  <2>3. StakeTypeOK'
    BY <1>0, <1>3, <2>1, <2>2, CappedWithin DEF NextAmount, StakeTypeOK
  <2>4. StakeWithinCaps'
    BY <1>0, <1>3, <2>2, CappedWithin DEF NextAmount, StakeWithinCaps
  <2>5. StepFollowsStreak'
    BY <1>3, StepGoesRound
  <2> QED
    BY <2>3, <2>4, <2>5 DEF StakeIInv, StakesAreBounded
<1>4. CASE Reset
  <2>1. StakeTypeOK'
    BY <1>0, <1>4 DEF Reset, StakeTypeOK
  <2>2. StakeWithinCaps'
    BY <1>4 DEF Reset, StakeWithinCaps
  <2>3. 0 = 0 * (MaxSteps + 1) + 0 /\ 0 \in 0 .. 0
    OBVIOUS
  <2>4. StepFollowsStreak'
    BY <1>4, <2>3 DEF Reset, StepFollowsStreak
  <2> QED
    BY <2>1, <2>2, <2>4 DEF StakeIInv, StakesAreBounded
<1>5. CASE UNCHANGED stakeVars
  BY <1>0, <1>5 DEF stakeVars, StakeIInv, StakeTypeOK, StakesAreBounded, StakeWithinCaps, StepFollowsStreak
<1> QED
  BY <1>1, <1>2, <1>3, <1>4, <1>5 DEF StakeNext

\* For all caps, balances and multipliers: no stake is above the caps, unless it is
\* the least the broker takes, and the progression begins again after max_steps.
THEOREM StakesStayBounded == StakeSpec => [](StakeTypeOK /\ StakesAreBounded)
<1>1. StakeIInv => StakeTypeOK /\ StakesAreBounded
  BY DEF StakeIInv
<1> QED
  BY <1>1, StakeInitial, StakeInductive, PTL DEF StakeSpec

-----------------------------------------------------------------------------
(* Rotations *)

\* The threads inside a rotation.
Rotating == {t \in Dialers : dial[t] = "rotating"}

\* Who logs in has attempts left, and while the cooldown runs, the rotations counted
\* and those that have begun are together no more than the threads.
RotationIInv ==
  /\ RotationTypeOK
  /\ RotationsBounded
  /\ \A t \in Dialers : dial[t] = "dialing" => logins[t] < MaxLogins
  /\ sinceRotation < Cooldown => rotations + Cardinality(Rotating) <= Cardinality(Dialers)

\* A thread that rotates takes one of the places that the count may still fill.
LEMMA RotatingCounted ==
  /\ Cardinality(Dialers) \in Nat
  /\ Cardinality(Rotating) \in Nat
  /\ \A t \in Rotating :
       /\ Cardinality(Rotating \ {t}) = Cardinality(Rotating) - 1
       /\ Cardinality(Rotating) <= Cardinality(Dialers)
<1>1. IsFiniteSet(Dialers) /\ Rotating \subseteq Dialers
  BY RotationAssumption DEF Rotating
<1>2. IsFiniteSet(Rotating) /\ Cardinality(Rotating) <= Cardinality(Dialers)
  BY <1>1, FS_Subset
<1>3. \A t \in Rotating : Cardinality(Rotating \ {t}) = Cardinality(Rotating) - 1
  BY <1>2, FS_RemoveElement
<1> QED
  BY <1>1, <1>2, <1>3, FS_CardinalityType

\* No thread rotates yet.
LEMMA RotationInitial == RotationInit => RotationIInv
<1> SUFFICES ASSUME RotationInit PROVE RotationIInv
  OBVIOUS
<1>1. RotationTypeOK
  BY RotationAssumption DEF RotationInit, RotationTypeOK
<1> QED
  BY <1>1, RotatingCounted, RotationAssumption
  DEF RotationIInv, RotationInit, RotationsBounded

\* A step that begins no rotation and ends none keeps the counts.
LEMMA RotationUndisturbed ==
  ASSUME RotationIInv, Rotating' = Rotating, rotations' = rotations,
         sinceRotation' < Cooldown => sinceRotation < Cooldown
  PROVE  /\ RotationsBounded'
         /\ (sinceRotation < Cooldown => rotations + Cardinality(Rotating) <= Cardinality(Dialers))'
BY DEF RotationIInv, RotationsBounded

\* A rotation that is not counted frees its place.
LEMMA RotationDropped ==
  ASSUME RotationIInv, NEW t \in Rotating, Rotating' = Rotating \ {t},
         rotations' = rotations, sinceRotation' = sinceRotation
  PROVE  /\ RotationsBounded'
         /\ (sinceRotation < Cooldown => rotations + Cardinality(Rotating) <= Cardinality(Dialers))'
<1>1. /\ Cardinality(Rotating') = Cardinality(Rotating) - 1
      /\ Cardinality(Dialers) \in Nat /\ Cardinality(Rotating) \in Nat
  BY RotatingCounted
<1> QED
  BY <1>1 DEF RotationIInv, RotationsBounded, RotationTypeOK

\* A rotation that is counted moves from the one count to the other; the first after
\* the cooldown is counted alone.
LEMMA RotationCounted ==
  ASSUME RotationIInv, NEW t \in Rotating, Rotating' = Rotating \ {t}, Counted
  PROVE  /\ RotationsBounded'
         /\ (sinceRotation < Cooldown => rotations + Cardinality(Rotating) <= Cardinality(Dialers))'
<1>1. /\ Cardinality(Rotating') = Cardinality(Rotating) - 1
      /\ Cardinality(Dialers) \in Nat /\ Cardinality(Rotating) \in Nat
      /\ Cardinality(Rotating) <= Cardinality(Dialers)
  BY RotatingCounted
<1>2. Cardinality(Rotating') \in Nat
  <2>1. IsFiniteSet(Dialers) /\ Rotating' \subseteq Dialers
    BY RotationAssumption DEF Rotating
  <2>2. IsFiniteSet(Rotating')
    BY <2>1, FS_Subset
  <2> QED
    BY <2>2, FS_CardinalityType
<1>3. rotations \in Nat
  BY DEF RotationIInv, RotationTypeOK
<1>4. CASE sinceRotation < Cooldown
  BY <1>1, <1>2, <1>3, <1>4 DEF Counted, RotationIInv, RotationsBounded
<1>5. CASE ~(sinceRotation < Cooldown)
  BY <1>1, <1>2, <1>5 DEF Counted, RotationsBounded
<1> QED
  BY <1>4, <1>5

\* Every thread counts at most once while the cooldown runs.
LEMMA RotationInductive == RotationIInv /\ [RotationNext]_rotationVars => RotationIInv'
<1> SUFFICES ASSUME RotationIInv, [RotationNext]_rotationVars PROVE RotationIInv'
  OBVIOUS
<1> USE RotationAssumption
<1> DEFINE Places == sinceRotation < Cooldown => rotations + Cardinality(Rotating) <= Cardinality(Dialers)
           Attempts == \A t \in Dialers : dial[t] = "dialing" => logins[t] < MaxLogins
<1>0. RotationTypeOK /\ Attempts
  BY DEF RotationIInv
<1>a. RotationTypeOK' /\ Attempts' /\ RotationsBounded' /\ Places' => RotationIInv'
  BY DEF RotationIInv
<1> HIDE DEF Places
<1>1. ASSUME NEW t \in Dialers, CallsConnect(t) PROVE RotationIInv'
  <2>1. RotationTypeOK' /\ Attempts'
    BY <1>0, <1>1 DEF CallsConnect, Dials, RotationTypeOK
  <2>2. Rotating' = Rotating
    BY <1>0, <1>1 DEF CallsConnect, Dials, Rotating, RotationTypeOK
  <2>3. RotationsBounded' /\ Places'
    BY <1>1, <2>2, RotationUndisturbed DEF CallsConnect, Places
  <2> QED
    BY <1>a, <2>1, <2>3
<1>2. ASSUME NEW t \in Dialers, LoginEnds(t) PROVE RotationIInv'
  <2>1. RotationTypeOK' /\ Attempts'
    BY <1>0, <1>2 DEF LoginEnds, Dials, RotationTypeOK
  <2>2. Rotating' = Rotating
    BY <1>0, <1>2 DEF LoginEnds, Dials, Rotating, RotationTypeOK
  <2>3. RotationsBounded' /\ Places'
    BY <1>2, <2>2, RotationUndisturbed DEF LoginEnds, Places
  <2> QED
    BY <1>a, <2>1, <2>3
<1>3. ASSUME NEW t \in Dialers, LoginLimited(t) PROVE RotationIInv'
  <2>1. RotationTypeOK' /\ Attempts'
    BY <1>0, <1>3 DEF LoginLimited, Dials, RotationTypeOK
  <2>2. Rotating' = Rotating
    BY <1>0, <1>3 DEF LoginLimited, Dials, Rotating, RotationTypeOK
  <2>3. RotationsBounded' /\ Places'
    BY <1>3, <2>2, RotationUndisturbed DEF LoginLimited, Places
  <2> QED
    BY <1>a, <2>1, <2>3
<1>4. ASSUME NEW t \in Dialers, RotationBegins(t) PROVE RotationIInv'
  <2>1. RotationTypeOK' /\ Attempts'
    BY <1>0, <1>4 DEF RotationBegins, Dials, RotationTypeOK
  <2>2. ~(sinceRotation < Cooldown) /\ UNCHANGED <<sinceRotation, rotations>>
    BY <1>0, <1>4 DEF RotationBegins, RotationTypeOK
  <2>3. RotationsBounded' /\ Places'
    BY <2>2 DEF RotationIInv, RotationsBounded, Places
  <2> QED
    BY <1>a, <2>1, <2>3
<1>5. ASSUME NEW t \in Dialers, RotationRefused(t) PROVE RotationIInv'
  <2>1. RotationTypeOK' /\ Attempts'
    BY <1>0, <1>5 DEF RotationRefused, Dials, RotationTypeOK
  <2>2. Rotating' = Rotating
    BY <1>0, <1>5 DEF RotationRefused, Dials, Rotating, RotationTypeOK
  <2>3. RotationsBounded' /\ Places'
    BY <1>5, <2>2, RotationUndisturbed DEF RotationRefused, Places
  <2> QED
    BY <1>a, <2>1, <2>3
<1>6. ASSUME NEW t \in Dialers, RotationEnds(t) PROVE RotationIInv'
  <2>1. dial[t] = "rotating" /\ \E to \in {Onward(t), "resting"} : dial' = [dial EXCEPT ![t] = to]
    BY <1>6 DEF RotationEnds, Dials
  <2>2. t \in Rotating /\ Rotating' = Rotating \ {t}
    BY <1>0, <2>1 DEF Rotating, RotationTypeOK, Onward
  <2>3. RotationTypeOK'
    <3>1. rotations' \in Nat
      BY <1>0, <1>6 DEF RotationEnds, Counted, RotationTypeOK
    <3> QED
      BY <1>0, <1>6, <2>1, <3>1 DEF RotationEnds, RotationTypeOK, Onward
  <2>4. Attempts'
    BY <1>0, <1>6, <2>1 DEF RotationEnds, RotationTypeOK, Onward
  <2>5. RotationsBounded' /\ Places'
    BY <1>6, <2>2, RotationCounted DEF RotationEnds, Places
  <2> QED
    BY <1>a, <2>3, <2>4, <2>5
<1>7. ASSUME NEW t \in Dialers, RotationRaises(t) PROVE RotationIInv'
  <2>1. RotationTypeOK' /\ Attempts'
    BY <1>0, <1>7 DEF RotationRaises, Dials, RotationTypeOK
  <2>2. t \in Rotating /\ Rotating' = Rotating \ {t}
    BY <1>0, <1>7 DEF RotationRaises, Dials, Rotating, RotationTypeOK
  <2>3. RotationsBounded' /\ Places'
    BY <1>7, <2>2, RotationDropped DEF RotationRaises, Places
  <2> QED
    BY <1>a, <2>1, <2>3
<1>8. ASSUME NEW t \in Dialers, RestEnds(t) PROVE RotationIInv'
  <2>1. RotationTypeOK' /\ Attempts'
    BY <1>0, <1>8 DEF RestEnds, Dials, RotationTypeOK, Onward
  <2>2. Rotating' = Rotating
    BY <1>0, <1>8 DEF RestEnds, Dials, Rotating, RotationTypeOK, Onward
  <2>3. RotationsBounded' /\ Places'
    BY <1>8, <2>2, RotationUndisturbed DEF RestEnds, Places
  <2> QED
    BY <1>a, <2>1, <2>3
<1>9. CASE RotationClock
  <2>1. RotationTypeOK' /\ Attempts'
    BY <1>0, <1>9 DEF RotationClock, RotationTypeOK
  <2>2. Rotating' = Rotating /\ rotations' = rotations /\ (sinceRotation' < Cooldown => sinceRotation < Cooldown)
    BY <1>0, <1>9 DEF RotationClock, Rotating, RotationTypeOK
  <2>3. RotationsBounded' /\ Places'
    BY <2>2, RotationUndisturbed DEF Places
  <2> QED
    BY <1>a, <2>1, <2>3
<1>10. CASE UNCHANGED rotationVars
  <2>1. RotationTypeOK' /\ Attempts' /\ Rotating' = Rotating /\ rotations' = rotations /\ sinceRotation' = sinceRotation
    BY <1>0, <1>10 DEF rotationVars, RotationTypeOK, Rotating
  <2>2. RotationsBounded' /\ Places'
    BY <2>1, RotationUndisturbed DEF Places
  <2> QED
    BY <1>a, <2>1, <2>2
<1> QED
  BY <1>1, <1>2, <1>3, <1>4, <1>5, <1>6, <1>7, <1>8, <1>9, <1>10 DEF RotationNext, Dialing

\* For any number of threads, attempts and any cooldown: rotations that are less than
\* the cooldown apart are no more than the threads that dial, although the time of
\* the last one is read and written without a lock.
THEOREM RotationsStayBounded == RotationSpec => [](RotationTypeOK /\ RotationsBounded)
<1>1. RotationIInv => RotationTypeOK /\ RotationsBounded
  BY DEF RotationIInv
<1> QED
  BY <1>1, RotationInitial, RotationInductive, PTL DEF RotationSpec

-----------------------------------------------------------------------------
(* The pool *)

\* The connection is closed by the call of close(), when it ends.
AsyncIInv ==
  /\ AsyncTypeOK
  /\ ShutAfterClose
  /\ work[Closer] = "done" => closed

\* For any number of coroutines and workers: the pool is shut down after the
\* connection was closed, or the coroutine of close() was cancelled.
THEOREM PoolOutlivesConnection == AsyncSpec => [](AsyncTypeOK /\ ShutAfterClose)
<1>1. ASSUME AsyncInit PROVE AsyncIInv
  <2>1. AsyncTypeOK
    <3>1. <<>> \in Seq(Calls)
      OBVIOUS
    <3> QED
      BY <1>1, <3>1 DEF AsyncInit, AsyncTypeOK
  <2>2. Closer \in Calls
    BY DEF Calls
  <2> QED
    BY <1>1, <2>1, <2>2 DEF AsyncInit, AsyncIInv, ShutAfterClose
<1>2. AsyncIInv /\ [AsyncNext]_asyncVars => AsyncIInv'
  <2> SUFFICES ASSUME AsyncIInv, [AsyncNext]_asyncVars PROVE AsyncIInv'
    OBVIOUS
  <2>0. AsyncTypeOK /\ Closer \in Calls
    BY DEF AsyncIInv, Calls
  <2>1. ASSUME NEW c \in Calls, Run(c) PROVE AsyncIInv'
    <3>1. AsyncTypeOK'
      BY <2>0, <2>1 DEF Run, AsyncTypeOK
    <3> QED
      BY <2>0, <2>1, <3>1 DEF Run, AsyncIInv, AsyncTypeOK, ShutAfterClose
  <2>2. ASSUME NEW c \in Calls, RunRaises(c) PROVE AsyncIInv'
    <3>1. AsyncTypeOK'
      BY <2>0, <2>2 DEF RunRaises, AsyncTypeOK
    <3> QED
      BY <2>0, <2>2, <3>1 DEF RunRaises, AsyncIInv, AsyncTypeOK, ShutAfterClose
  <2>3. ASSUME NEW c \in Calls, Cancelled(c) PROVE AsyncIInv'
    <3>1. AsyncTypeOK'
      BY <2>0, <2>3 DEF Cancelled, Shuts, AsyncTypeOK
    <3> QED
      BY <2>0, <2>3, <3>1 DEF Cancelled, Shuts, AsyncIInv, AsyncTypeOK, ShutAfterClose
  <2>4. ASSUME NEW c \in Calls, Returns(c) PROVE AsyncIInv'
    <3>1. AsyncTypeOK'
      BY <2>0, <2>4 DEF Returns, Shuts, AsyncTypeOK
    <3> QED
      BY <2>0, <2>4, <3>1 DEF Returns, Shuts, AsyncIInv, AsyncTypeOK, ShutAfterClose
  <2>5. CASE WorkerTakes
    <3>1. Tail(line) \in Seq(Calls) /\ Head(line) \in Calls
      BY <2>0, <2>5 DEF WorkerTakes, AsyncTypeOK
    <3>2. AsyncTypeOK'
      BY <2>0, <2>5, <3>1 DEF WorkerTakes, AsyncTypeOK
    <3>3. work'[Closer] = "done" => work[Closer] = "done"
      BY <2>0, <2>5, <3>1 DEF WorkerTakes, AsyncTypeOK
    <3> QED
      BY <2>0, <2>5, <3>2, <3>3 DEF WorkerTakes, AsyncIInv, ShutAfterClose
  <2>6. ASSUME NEW c \in Calls, WorkerEnds(c) PROVE AsyncIInv'
    <3>1. AsyncTypeOK'
      BY <2>0, <2>6 DEF WorkerEnds, AsyncTypeOK
    <3> QED
      BY <2>0, <2>6, <3>1 DEF WorkerEnds, AsyncIInv, AsyncTypeOK, ShutAfterClose
  <2>7. CASE UNCHANGED asyncVars
    BY <2>7 DEF asyncVars, AsyncIInv, AsyncTypeOK, ShutAfterClose
  <2> QED
    BY <2>1, <2>2, <2>3, <2>4, <2>5, <2>6, <2>7 DEF AsyncNext, Progress
<1>3. AsyncIInv => AsyncTypeOK /\ ShutAfterClose
  BY DEF AsyncIInv
<1> QED
  BY <1>1, <1>2, <1>3, PTL DEF AsyncSpec

-----------------------------------------------------------------------------
(* The registry *)

\* An entry whose order id came in is there for its lifetime.
RegistryIInv ==
  /\ IdempotencyTypeOK
  /\ ConfirmedIsFound
  /\ \A r \in known : age[r] <= Lifetime => registry[r] # "absent"

\* For any set of requests and any lifetime: get_order_id() gives the id of an order
\* once confirm() had it, until its entry expires or fail() is called.
THEOREM ConfirmedStaysFound == IdempotencySpec => [](IdempotencyTypeOK /\ ConfirmedIsFound)
<1> USE IdempotencyAssumption
<1>1. IdempotencyInit => RegistryIInv
  BY DEF IdempotencyInit, RegistryIInv, IdempotencyTypeOK, ConfirmedIsFound
<1>2. RegistryIInv /\ [IdempotencyNext]_registryVars => RegistryIInv'
  <2> SUFFICES ASSUME RegistryIInv, [IdempotencyNext]_registryVars PROVE RegistryIInv'
    OBVIOUS
  <2> USE DEF RegistryIInv, IdempotencyTypeOK, ConfirmedIsFound, GetOrderId
  <2>1. ASSUME NEW r \in RequestIds, Register(r) PROVE RegistryIInv'
    BY <2>1 DEF Register
  <2>2. ASSUME NEW r \in RequestIds, Confirm(r) PROVE RegistryIInv'
    BY <2>2 DEF Confirm
  <2>3. ASSUME NEW r \in RequestIds, Fail(r) PROVE RegistryIInv'
    BY <2>3 DEF Fail
  <2>4. CASE PurgeExpired
    BY <2>4 DEF PurgeExpired
  <2>5. CASE RegistryAges
    BY <2>5 DEF RegistryAges
  <2>6. CASE UNCHANGED registryVars
    BY <2>6 DEF registryVars
  <2> QED
    BY <2>1, <2>2, <2>3, <2>4, <2>5, <2>6 DEF IdempotencyNext
<1>3. RegistryIInv => IdempotencyTypeOK /\ ConfirmedIsFound
  BY DEF RegistryIInv
<1> QED
  BY <1>1, <1>2, <1>3, PTL DEF IdempotencySpec

-----------------------------------------------------------------------------
(* The dispatcher *)

\* What the dispatcher has in hand once the Event is set may still go out.
Leftover == IF subPc \in {"taking", "sending"} THEN 1 ELSE 0

\* Late sends, and what is in hand for one, are one at most; there are none before
\* stop().
SubIInv ==
  /\ lateSends \in Nat
  /\ ~subStopping => lateSends = 0
  /\ lateSends + Leftover <= IF subStopping THEN 1 ELSE lateSends + 1

\* For any number of requests: once the Event of stop() is set, at most one more
\* request goes to the server, also if the join has timed out.
THEOREM AtMostOneLateSend == SubSpec => []OneLateSend
<1> USE DEF Leftover, SubIInv
<1>1. SubInit => SubIInv
  BY DEF SubInit
<1>2. SubIInv /\ [SubNext]_subVars => SubIInv'
  <2> SUFFICES ASSUME SubIInv, [SubNext]_subVars PROVE SubIInv'
    OBVIOUS
  <2>1. ASSUME NEW s \in Streams, NEW urgent \in BOOLEAN, SubscribeCandle(s, urgent) PROVE SubIInv'
    BY <2>1 DEF SubscribeCandle, Enqueues, dispatcher
  <2>2. ASSUME NEW request \in News, NEW urgent \in BOOLEAN, SubscribeNews(request, urgent)
        PROVE  SubIInv'
    BY <2>2 DEF SubscribeNews, Enqueues, dispatcher
  <2>3. ASSUME NEW s \in Streams, UnsubscribeCandle(s) PROVE SubIInv'
    BY <2>3 DEF UnsubscribeCandle, Enqueues, dispatcher
  <2>4. CASE StopAsks
    BY <2>4 DEF StopAsks, dispatcher
  <2>5. CASE StopReturns
    BY <2>5 DEF StopReturns, dispatcher
  <2>6. CASE Looks
    BY <2>6 DEF Looks, Dispatcher
  <2>7. CASE Takes
    BY <2>7 DEF Takes, Dispatcher
  <2>8. CASE FindsNothing
    BY <2>8 DEF FindsNothing, Dispatcher
  <2>9. CASE Sends
    BY <2>9 DEF Sends, Dispatcher
  <2>10. CASE SendRaises
    BY <2>10 DEF SendRaises, Dispatcher
  <2>11. CASE Records
    BY <2>11 DEF Records, Dispatcher
  <2>12. CASE Rests
    BY <2>12 DEF Rests, Dispatcher
  <2>13. CASE UNCHANGED subVars
    BY <2>13 DEF subVars, dispatcher
  <2> QED
    BY <2>1, <2>2, <2>3, <2>4, <2>5, <2>6, <2>7, <2>8, <2>9, <2>10, <2>11, <2>12, <2>13
    DEF SubNext, Dispatches
<1>3. SubIInv => OneLateSend
  BY DEF OneLateSend
<1> QED
  BY <1>1, <1>2, <1>3, PTL DEF SubSpec

\* The dispatcher holds a request for s that it has not recorded.
InHand(s) == subPc \in {"sending", "recording"} /\ subItem.stream = s

\* The last request for s in the queue, the one in hand if there is none, and else
\* the record, is as s was last asked for.
LastQueued(s) ==
  \A k \in 1 .. Len(subQueue) :
    subQueue[k].stream = s /\ (\A j \in k + 1 .. Len(subQueue) : subQueue[j].stream # s)
      => subQueue[k].action = lastAsked[s]

\* No request for s is queued.
NoneQueued(s) == \A k \in 1 .. Len(subQueue) : subQueue[k].stream # s

\* With none queued, the request in hand, or else the record, is as s was last asked
\* for.
OnRecord(s) ==
  NoneQueued(s) =>
    IF InHand(s) THEN subItem.action = lastAsked[s]
                 ELSE s \in subActive <=> lastAsked[s] = "subscribe"

\* For each stream without an urgent or failed request, the last word is where it
\* should be.
LastIInv ==
  /\ SubTypeOK
  /\ subPc \in {"sending", "recording"} => subItem \in Requests
  /\ subPc = "recording" => subItem \in Changes
  /\ \A s \in Streams \ irregular : LastQueued(s) /\ OnRecord(s)

\* A request for a stream is a change of a subscription.
LEMMA StreamOfChange ==
  ASSUME NEW r \in Requests, NEW s \in Streams, r.stream = s
  PROVE  r \in Changes /\ r.action \in {"subscribe", "unsubscribe"}
BY SubscriptionsAssumption DEF Requests, Changes, News

\* A request that is queued keeps, or says, what each stream was last asked for.
LEMMA LastEnqueued ==
  ASSUME LastIInv, NEW r \in Requests, NEW urgent \in BOOLEAN, Enqueues(r, urgent),
         NEW s \in Streams, s \notin irregular,
         IF r.stream = s THEN ~urgent /\ lastAsked'[s] = r.action ELSE lastAsked'[s] = lastAsked[s]
  PROVE  LastQueued(s)' /\ OnRecord(s)'
<1>1. subQueue \in Seq(Requests) /\ LastQueued(s) /\ OnRecord(s)
  BY DEF LastIInv, SubTypeOK
<1>2. UNCHANGED <<subItem, subPc, subActive>>
  BY DEF Enqueues, dispatcher
<1>3. CASE ~urgent
  <2>1. /\ subQueue' = Append(subQueue, r)
        /\ Len(subQueue') = Len(subQueue) + 1 /\ Len(subQueue) \in Nat
        /\ \A k \in 1 .. Len(subQueue) : subQueue'[k] = subQueue[k]
        /\ subQueue'[Len(subQueue) + 1] = r
    BY <1>1, <1>3, AppendProperties DEF Enqueues
  <2>2. LastQueued(s)'
    <3> SUFFICES ASSUME NEW k \in 1 .. Len(subQueue'), subQueue'[k].stream = s,
                        \A j \in k + 1 .. Len(subQueue') : subQueue'[j].stream # s
                 PROVE  subQueue'[k].action = lastAsked'[s]
      BY DEF LastQueued
    <3>1. CASE k = Len(subQueue) + 1
      BY <1>3, <2>1, <3>1
    <3>2. CASE k # Len(subQueue) + 1
      <4>1. k \in 1 .. Len(subQueue) /\ Len(subQueue) + 1 \in k + 1 .. Len(subQueue')
        BY <2>1, <3>2
      <4>2. r.stream # s
        BY <2>1, <4>1
      <4>3. \A j \in k + 1 .. Len(subQueue) : subQueue[j].stream # s
        BY <2>1, <4>1
      <4>4. subQueue[k].action = lastAsked[s]
        BY <1>1, <2>1, <4>1, <4>3 DEF LastQueued
      <4> QED
        BY <2>1, <4>1, <4>2, <4>4
    <3> QED
      BY <3>1, <3>2
  <2>3. OnRecord(s)'
    <3>1. NoneQueued(s)' => NoneQueued(s) /\ r.stream # s
      BY <2>1 DEF NoneQueued
    <3> QED
      BY <1>1, <1>2, <3>1 DEF OnRecord, InHand
  <2> QED
    BY <2>2, <2>3
<1>4. CASE urgent
  <2>1. r.stream # s
    BY <1>4
  <2>2. subQueue' = <<r>> \o subQueue /\ <<r>> \in Seq(Requests) /\ Len(<<r>>) = 1 /\ <<r>>[1] = r
    BY <1>4 DEF Enqueues
  <2>3. /\ Len(subQueue') = Len(subQueue) + 1 /\ Len(subQueue) \in Nat
        /\ \A k \in 1 .. 1 + Len(subQueue) : subQueue'[k] = IF k <= 1 THEN r ELSE subQueue[k - 1]
    BY <1>1, <2>2, ConcatProperties
  <2>4. LastQueued(s)'
    <3> SUFFICES ASSUME NEW k \in 1 .. Len(subQueue'), subQueue'[k].stream = s,
                        \A j \in k + 1 .. Len(subQueue') : subQueue'[j].stream # s
                 PROVE  subQueue'[k].action = lastAsked'[s]
      BY DEF LastQueued
    <3>1. k # 1 /\ k - 1 \in 1 .. Len(subQueue) /\ subQueue'[k] = subQueue[k - 1]
      BY <2>1, <2>3
    <3>2. \A j \in (k - 1) + 1 .. Len(subQueue) : subQueue[j].stream # s
      <4> SUFFICES ASSUME NEW j \in (k - 1) + 1 .. Len(subQueue) PROVE subQueue[j].stream # s
        OBVIOUS
      <4>1. j + 1 \in k + 1 .. Len(subQueue') /\ subQueue'[j + 1] = subQueue[j]
        BY <2>3, <3>1
      <4> QED
        BY <4>1
    <3> QED
      BY <1>1, <2>1, <3>1, <3>2 DEF LastQueued
  <2>5. OnRecord(s)'
    <3>1. ASSUME NoneQueued(s)', NEW k \in 1 .. Len(subQueue) PROVE subQueue[k].stream # s
      <4>1. k + 1 \in 1 .. Len(subQueue') /\ subQueue'[k + 1] = subQueue[k]
        BY <2>3
      <4> QED
        BY <3>1, <4>1 DEF NoneQueued
    <3>2. NoneQueued(s)' => NoneQueued(s)
      BY <3>1 DEF NoneQueued
    <3> QED
      BY <1>1, <1>2, <2>1, <3>2 DEF OnRecord, InHand
  <2> QED
    BY <2>4, <2>5
<1> QED
  BY <1>3, <1>4

\* A queued request keeps the types.
LEMMA EnqueuedType ==
  ASSUME SubTypeOK, NEW r \in Requests, NEW urgent \in BOOLEAN, Enqueues(r, urgent),
         lastAsked' \in [Streams -> {"subscribe", "unsubscribe"}], irregular' \subseteq Streams
  PROVE  SubTypeOK'
<1>1. <<r>> \in Seq(Requests)
  OBVIOUS
<1>2. <<r>> \o subQueue \in Seq(Requests) /\ Append(subQueue, r) \in Seq(Requests)
  BY <1>1, ConcatProperties, AppendProperties DEF SubTypeOK
<1> QED
  BY <1>2, SubscriptionsAssumption DEF SubTypeOK, Enqueues, dispatcher

\* The request that is taken goes from the head of the queue into the hand.
LEMMA LastTaken ==
  ASSUME LastIInv, Takes, NEW s \in Streams, s \notin irregular
  PROVE  LastQueued(s)' /\ OnRecord(s)'
<1>1. subQueue \in Seq(Requests) /\ subQueue # <<>> /\ LastQueued(s) /\ OnRecord(s)
  BY DEF LastIInv, SubTypeOK, Takes
<1>2. /\ subQueue' = Tail(subQueue) /\ subItem' = subQueue[1]
      /\ Len(subQueue') = Len(subQueue) - 1 /\ Len(subQueue) \in Nat \ {0}
      /\ \A k \in 1 .. Len(subQueue') : subQueue'[k] = subQueue[k + 1]
      /\ ~InHand(s) /\ subPc' = "sending" /\ UNCHANGED <<subActive, lastAsked>>
  BY <1>1, HeadTailProperties DEF Takes, Dispatcher, InHand
<1>3. LastQueued(s)'
  <2> SUFFICES ASSUME NEW k \in 1 .. Len(subQueue'), subQueue'[k].stream = s,
                      \A j \in k + 1 .. Len(subQueue') : subQueue'[j].stream # s
               PROVE  subQueue'[k].action = lastAsked'[s]
    BY DEF LastQueued
  <2>1. k + 1 \in 1 .. Len(subQueue) /\ subQueue'[k] = subQueue[k + 1]
    BY <1>2
  <2>2. \A j \in (k + 1) + 1 .. Len(subQueue) : subQueue[j].stream # s
    <3> SUFFICES ASSUME NEW j \in (k + 1) + 1 .. Len(subQueue) PROVE subQueue[j].stream # s
      OBVIOUS
    <3>1. j - 1 \in k + 1 .. Len(subQueue') /\ subQueue'[j - 1] = subQueue[j]
      BY <1>2
    <3> QED
      BY <3>1
  <2> QED
    BY <1>1, <1>2, <2>1, <2>2 DEF LastQueued
<1>4. OnRecord(s)'
  <2> SUFFICES ASSUME NoneQueued(s)'
               PROVE  IF InHand(s)' THEN subItem'.action = lastAsked'[s]
                                    ELSE s \in subActive' <=> lastAsked'[s] = "subscribe"
    BY DEF OnRecord
  <2>1. \A k \in 2 .. Len(subQueue) : subQueue[k].stream # s
    <3> SUFFICES ASSUME NEW k \in 2 .. Len(subQueue) PROVE subQueue[k].stream # s
      OBVIOUS
    <3>1. k - 1 \in 1 .. Len(subQueue') /\ subQueue'[k - 1] = subQueue[k]
      BY <1>2
    <3> QED
      BY <3>1 DEF NoneQueued
  <2>2. CASE subQueue[1].stream = s
    <3>1. 1 \in 1 .. Len(subQueue) /\ (\A j \in 1 + 1 .. Len(subQueue) : subQueue[j].stream # s)
      BY <1>2, <2>1
    <3>2. subQueue[1].action = lastAsked[s]
      BY <1>1, <2>2, <3>1 DEF LastQueued
    <3>3. InHand(s)'
      BY <1>2, <2>2 DEF InHand
    <3> QED
      BY <1>2, <3>2, <3>3
  <2>3. CASE subQueue[1].stream # s
    <3>1. NoneQueued(s)
      BY <1>2, <2>1, <2>3 DEF NoneQueued
    <3>2. ~InHand(s)'
      BY <1>2, <2>3 DEF InHand
    <3> QED
      BY <1>1, <1>2, <3>1, <3>2 DEF OnRecord
  <2> QED
    BY <2>2, <2>3
<1> QED
  BY <1>3, <1>4

\* The other steps leave the queue alone.
LEMMA LastKept ==
  ASSUME LastIInv, NEW s \in Streams, s \notin irregular, UNCHANGED <<subQueue, lastAsked>>,
         OnRecord(s) => (NoneQueued(s) =>
           IF InHand(s)' THEN subItem'.action = lastAsked[s]
                         ELSE s \in subActive' <=> lastAsked[s] = "subscribe")
  PROVE  LastQueued(s)' /\ OnRecord(s)'
<1>1. LastQueued(s) /\ OnRecord(s)
  BY DEF LastIInv
<1>2. LastQueued(s)'
  BY <1>1 DEF LastQueued
<1>3. NoneQueued(s)' => NoneQueued(s)
  BY DEF NoneQueued
<1> QED
  BY <1>1, <1>2, <1>3 DEF OnRecord

\* No step loses what a stream was last asked for.
LEMMA LastInductive == LastIInv /\ [SubNext]_subVars => LastIInv'
<1> SUFFICES ASSUME LastIInv, [SubNext]_subVars PROVE LastIInv'
  OBVIOUS
<1>0. /\ SubTypeOK
      /\ subPc \in {"sending", "recording"} => subItem \in Requests
      /\ subPc = "recording" => subItem \in Changes
  BY DEF LastIInv
<1> DEFINE Asked == \A s \in Streams \ irregular : LastQueued(s) /\ OnRecord(s)
           HeldItem  == /\ subPc \in {"sending", "recording"} => subItem \in Requests
                        /\ subPc = "recording" => subItem \in Changes
<1>a. SubTypeOK' /\ HeldItem' /\ Asked' => LastIInv'
  BY DEF LastIInv
<1> HIDE DEF Asked
<1>1. ASSUME NEW s \in Streams, NEW urgent \in BOOLEAN, SubscribeCandle(s, urgent) PROVE LastIInv'
  <2> DEFINE r == [action |-> "subscribe", stream |-> s]
  <2>1. r \in Requests /\ r.stream = s /\ r.action = "subscribe" /\ Enqueues(r, urgent)
    BY <1>1 DEF Requests, Changes, SubscribeCandle
  <2> HIDE DEF r
  <2>2. SubTypeOK'
    <3>1. lastAsked' \in [Streams -> {"subscribe", "unsubscribe"}] /\ irregular' \subseteq Streams
      BY <1>0, <1>1 DEF SubscribeCandle, SubTypeOK
    <3> QED
      BY <1>0, <2>1, <3>1, EnqueuedType
  <2>3. HeldItem'
    BY <1>0, <2>1 DEF Enqueues, dispatcher
  <2>4. ASSUME NEW x \in Streams \ irregular' PROVE LastQueued(x)' /\ OnRecord(x)'
    <3>1. x \in Streams /\ x \notin irregular /\ (x = s => ~urgent)
      BY <1>1, <2>4 DEF SubscribeCandle
    <3>2. IF r.stream = x THEN ~urgent /\ lastAsked'[x] = r.action ELSE lastAsked'[x] = lastAsked[x]
      BY <1>0, <1>1, <2>1, <3>1 DEF SubscribeCandle, SubTypeOK
    <3> QED
      BY <2>1, <3>1, <3>2, LastEnqueued
  <2> QED
    BY <1>a, <2>2, <2>3, <2>4 DEF Asked
<1>2. ASSUME NEW request \in News, NEW urgent \in BOOLEAN, SubscribeNews(request, urgent) PROVE LastIInv'
  <2>1. request \in Requests /\ request.stream \in Kinds /\ Enqueues(request, urgent)
    BY <1>2 DEF Requests, News, SubscribeNews
  <2>2. SubTypeOK'
    <3>1. lastAsked' \in [Streams -> {"subscribe", "unsubscribe"}] /\ irregular' \subseteq Streams
      BY <1>0, <1>2 DEF SubscribeNews, SubTypeOK
    <3> QED
      BY <1>0, <2>1, <3>1, EnqueuedType
  <2>3. HeldItem'
    BY <1>0, <2>1 DEF Enqueues, dispatcher
  <2>4. ASSUME NEW x \in Streams \ irregular' PROVE LastQueued(x)' /\ OnRecord(x)'
    <3>1. x \in Streams /\ x \notin irregular /\ request.stream # x /\ lastAsked'[x] = lastAsked[x]
      BY <1>2, <2>1, <2>4, SubscriptionsAssumption DEF SubscribeNews
    <3> QED
      BY <2>1, <3>1, LastEnqueued
  <2> QED
    BY <1>a, <2>2, <2>3, <2>4 DEF Asked
<1>3. ASSUME NEW s \in Streams, UnsubscribeCandle(s) PROVE LastIInv'
  <2> DEFINE r == [action |-> "unsubscribe", stream |-> s]
  <2>1. r \in Requests /\ r.stream = s /\ r.action = "unsubscribe" /\ Enqueues(r, FALSE)
    BY <1>3 DEF Requests, Changes, UnsubscribeCandle
  <2> HIDE DEF r
  <2>2. SubTypeOK'
    <3>1. lastAsked' \in [Streams -> {"subscribe", "unsubscribe"}] /\ irregular' \subseteq Streams
      BY <1>0, <1>3 DEF UnsubscribeCandle, SubTypeOK
    <3> QED
      BY <1>0, <2>1, <3>1, EnqueuedType
  <2>3. HeldItem'
    BY <1>0, <2>1 DEF Enqueues, dispatcher
  <2>4. ASSUME NEW x \in Streams \ irregular' PROVE LastQueued(x)' /\ OnRecord(x)'
    <3>1. x \in Streams /\ x \notin irregular
      BY <1>3, <2>4 DEF UnsubscribeCandle
    <3>2. IF r.stream = x THEN ~FALSE /\ lastAsked'[x] = r.action ELSE lastAsked'[x] = lastAsked[x]
      BY <1>0, <1>3, <2>1, <3>1 DEF UnsubscribeCandle, SubTypeOK
    <3> QED
      BY <2>1, <3>1, <3>2, LastEnqueued
  <2> QED
    BY <1>a, <2>2, <2>3, <2>4 DEF Asked
<1>4. CASE Takes
  <2>1. Head(subQueue) \in Requests /\ Tail(subQueue) \in Seq(Requests)
    BY <1>0, <1>4, HeadTailProperties DEF Takes, SubTypeOK
  <2>2. SubTypeOK' /\ HeldItem'
    BY <1>0, <1>4, <2>1 DEF Takes, Dispatcher, SubTypeOK
  <2>3. Asked'
    BY <1>4, LastTaken DEF Takes, Asked
  <2> QED
    BY <1>a, <2>2, <2>3
<1>5. CASE Records
  <2>1. subItem \in Changes /\ subItem.stream \in Streams /\ subItem.action \in {"subscribe", "unsubscribe"}
    BY <1>0, <1>5 DEF Records, Dispatcher, Changes
  <2>2. SubTypeOK' /\ HeldItem'
    BY <1>0, <1>5, <2>1 DEF Records, Dispatcher, SubTypeOK
  <2>3. ASSUME NEW s \in Streams, s \notin irregular PROVE LastQueued(s)' /\ OnRecord(s)'
    <3>1. ~InHand(s)' /\ UNCHANGED <<subQueue, lastAsked>> /\ subPc = "recording"
      BY <1>5 DEF Records, Dispatcher, InHand
    <3>2. CASE subItem.stream = s
      <4>1. InHand(s) /\ (s \in subActive' <=> subItem.action = "subscribe")
        BY <1>5, <2>1, <3>1, <3>2 DEF Records, InHand
      <4> QED
        BY <2>3, <3>1, <4>1, LastKept DEF OnRecord
    <3>3. CASE subItem.stream # s
      <4>1. ~InHand(s) /\ (s \in subActive' <=> s \in subActive)
        BY <1>5, <2>1, <3>1, <3>3 DEF Records, InHand
      <4> QED
        BY <2>3, <3>1, <4>1, LastKept DEF OnRecord
    <3> QED
      BY <3>2, <3>3
  <2>4. Asked'
    BY <1>5, <2>3 DEF Records, Asked
  <2> QED
    BY <1>a, <2>2, <2>4
<1>6. CASE Sends
  <2>1. SubTypeOK' /\ HeldItem'
    BY <1>0, <1>6 DEF Sends, Dispatcher, SubTypeOK
  <2>2. ASSUME NEW s \in Streams, s \notin irregular PROVE LastQueued(s)' /\ OnRecord(s)'
    <3>1. (InHand(s)' <=> InHand(s)) /\ UNCHANGED <<subQueue, lastAsked, subItem, subActive>>
      BY <1>0, <1>6, StreamOfChange DEF Sends, Dispatcher, InHand
    <3> QED
      BY <2>2, <3>1, LastKept DEF OnRecord
  <2>3. Asked'
    BY <1>6, <2>2 DEF Sends, Asked
  <2> QED
    BY <1>a, <2>1, <2>3
<1>7. CASE SendRaises
  <2>1. SubTypeOK' /\ HeldItem'
    BY <1>0, <1>7 DEF SendRaises, Dispatcher, SubTypeOK
  <2>2. ASSUME NEW s \in Streams \ irregular' PROVE LastQueued(s)' /\ OnRecord(s)'
    <3>1. s \in Streams /\ s \notin irregular /\ ~InHand(s)' /\ ~InHand(s) /\ UNCHANGED <<subQueue, lastAsked, subActive>>
      BY <1>7, <2>2 DEF SendRaises, Dispatcher, InHand
    <3> QED
      BY <2>2, <3>1, LastKept DEF OnRecord
  <2>3. Asked'
    BY <2>2 DEF Asked
  <2> QED
    BY <1>a, <2>1, <2>3
<1>8. CASE Looks \/ FindsNothing \/ Rests
  <2>1. SubTypeOK' /\ HeldItem'
    BY <1>0, <1>8 DEF Looks, FindsNothing, Rests, Dispatcher, SubTypeOK
  <2>2. ASSUME NEW s \in Streams, s \notin irregular PROVE LastQueued(s)' /\ OnRecord(s)'
    <3>1. ~InHand(s)' /\ ~InHand(s) /\ UNCHANGED <<subQueue, lastAsked, subActive>>
      BY <1>8 DEF Looks, FindsNothing, Rests, Dispatcher, InHand
    <3> QED
      BY <2>2, <3>1, LastKept DEF OnRecord
  <2>3. Asked'
    BY <1>8, <2>2 DEF Looks, FindsNothing, Rests, Asked
  <2> QED
    BY <1>a, <2>1, <2>3
<1>9. CASE StopAsks \/ StopReturns \/ UNCHANGED subVars
  <2>1. SubTypeOK' /\ HeldItem'
    BY <1>0, <1>9 DEF StopAsks, StopReturns, subVars, dispatcher, SubTypeOK
  <2>2. ASSUME NEW s \in Streams, s \notin irregular PROVE LastQueued(s)' /\ OnRecord(s)'
    <3>1. (InHand(s)' <=> InHand(s)) /\ UNCHANGED <<subQueue, lastAsked, subItem, subActive>>
      BY <1>9 DEF StopAsks, StopReturns, subVars, dispatcher, InHand
    <3> QED
      BY <2>2, <3>1, LastKept DEF OnRecord
  <2>3. Asked'
    BY <1>9, <2>2 DEF StopAsks, StopReturns, subVars, Asked
  <2> QED
    BY <1>a, <2>1, <2>3
<1> QED
  BY <1>1, <1>2, <1>3, <1>4, <1>5, <1>6, <1>7, <1>8, <1>9 DEF SubNext, Dispatches

\* For any streams and any mix of requests: with nothing queued or in hand, a stream
\* without an urgent and without a failed request is on record exactly if its last
\* request was to subscribe.
THEOREM LastRequestAlwaysWins == SubSpec => [](SubTypeOK /\ LastRequestWins)
<1>1. ASSUME SubInit PROVE LastIInv
  <2>1. SubTypeOK
    <3>1. subQueue \in Seq(Requests)
      BY <1>1 DEF SubInit
    <3>2. subAsked \in 0 .. MaxRequests /\ lateSends \in Nat
      BY <1>1, SubscriptionsAssumption DEF SubInit
    <3> QED
      BY <1>1, <3>1, <3>2 DEF SubInit, SubTypeOK
  <2> QED
    BY <1>1, <2>1 DEF SubInit, LastIInv, LastQueued, OnRecord, InHand, NoneQueued
<1>2. ASSUME LastIInv PROVE LastRequestWins
  <2> SUFFICES ASSUME subQueue = <<>>, subItem = Nothing, NEW s \in Streams \ irregular
               PROVE  s \in subActive <=> lastAsked[s] = "subscribe"
    BY DEF LastRequestWins
  <2>1. NoneQueued(s)
    BY DEF NoneQueued
  <2>2. Nothing \notin Requests
    BY DEF Nothing, Requests, Changes, News
  <2>3. ~InHand(s)
    BY <1>2, <2>2 DEF LastIInv, InHand
  <2> QED
    BY <1>2, <2>1, <2>3 DEF LastIInv, OnRecord
<1>3. LastIInv => SubTypeOK /\ LastRequestWins
  BY <1>2 DEF LastIInv
<1> QED
  BY <1>1, <1>3, LastInductive, PTL DEF SubSpec

-----------------------------------------------------------------------------
(* The trade journal.  While a file is being written again its records are *)
(* in the hands of the writer: the invariant speaks of the content of a    *)
(* day, the file or what will be written in its place.  A thread that is   *)
(* about to add a record has not found it in today's content, and a trade  *)
(* whose thread has not begun is in no file.                               *)


\* Some record is of trade i.
Holds(records, i) == \E k \in DOMAIN records : records[k].id = i

\* No trade has two records.
Distinct(records) ==
  \A j, k \in DOMAIN records : records[j].id = records[k].id => j = k

\* The records of a day, also while its file is being written again.
Content(d) == IF writer # NoTrade /\ rewriteDay = d THEN rewritten ELSE file[d]

\* What was written is in the content of its day, unless that file was torn by a crash.
Kept == \A r \in journaled : r.day \notin torn => Holds(Content(r.day), r.id)

\* No file has two records of one trade.
Once == Distinct(rewritten) /\ \A d \in 0 .. LastDay : Distinct(file[d])

\* There is no file of a day to come.
Future == rewriteDay <= day /\ \A d \in 0 .. LastDay : d > day => file[d] = <<>>

\* Only a thread that closes a trade writes a file again, and that file is empty
\* meanwhile.
Writing == writer # NoTrade => stage[writer] = "closing" /\ file[rewriteDay] = <<>>

\* A trade that has not begun is in no file.
Unknown ==
  \A i \in Ids : stage[i] = "none" =>
    ~Holds(rewritten, i) /\ \A d \in 0 .. LastDay : ~Holds(file[d], i)

\* A thread about to add a record has not found it in the file of the day.
Missing == \A i \in Ids : stage[i] = "adding" => ~Holds(Content(day), i)

\* All of these.
RecordIInv ==
  RecordTypeOK /\ Kept /\ Once /\ Future /\ Writing /\ Unknown /\ Missing

-----------------------------------------------------------------------------
\* An empty file holds nothing.
LEMMA EmptyRecords ==
  /\ <<>> \in Seq(Record) /\ Distinct(<<>>)
  /\ \A i : ~Holds(<<>>, i)
BY DEF Distinct, Holds

\* A line at the end adds its trade, and no other.
LEMMA AppendedRecord ==
  ASSUME NEW records \in Seq(Record), NEW r \in Record
  PROVE  /\ Append(records, r) \in Seq(Record)
         /\ \A i : Holds(Append(records, r), i) <=> Holds(records, i) \/ i = r.id
         /\ Distinct(records) /\ ~Holds(records, r.id) => Distinct(Append(records, r))
<1> DEFINE longer == Append(records, r)
<1>1. /\ longer \in Seq(Record)
      /\ DOMAIN longer = 1 .. Len(records) + 1 /\ DOMAIN records = 1 .. Len(records)
      /\ Len(records) \in Nat
      /\ \A k \in 1 .. Len(records) : longer[k] = records[k]
      /\ longer[Len(records) + 1] = r
  BY AppendProperties
<1> HIDE DEF longer
<1>2. ASSUME NEW i PROVE Holds(longer, i) <=> Holds(records, i) \/ i = r.id
  <2>1. ASSUME Holds(longer, i) PROVE Holds(records, i) \/ i = r.id
    <3>1. PICK k \in 1 .. Len(records) + 1 : longer[k].id = i
      BY <1>1, <2>1 DEF Holds
    <3>2. k = Len(records) + 1 \/ k \in 1 .. Len(records)
      BY <1>1
    <3> QED
      BY <1>1, <3>1, <3>2 DEF Holds
  <2>2. ASSUME Holds(records, i) PROVE Holds(longer, i)
    <3>1. PICK k \in 1 .. Len(records) : records[k].id = i
      BY <1>1, <2>2 DEF Holds
    <3>2. k \in 1 .. Len(records) + 1 /\ longer[k].id = i
      BY <1>1, <3>1
    <3> QED
      BY <1>1, <3>2 DEF Holds
  <2>3. ASSUME i = r.id PROVE Holds(longer, i)
    <3>1. Len(records) + 1 \in 1 .. Len(records) + 1
      BY <1>1
    <3> QED
      BY <1>1, <2>3, <3>1 DEF Holds
  <2> QED
    BY <2>1, <2>2, <2>3
<1>3. ASSUME Distinct(records), ~Holds(records, r.id),
             NEW j \in 1 .. Len(records) + 1, NEW k \in 1 .. Len(records) + 1,
             longer[j].id = longer[k].id
      PROVE  j = k
  <2>1. /\ j = Len(records) + 1 \/ j \in 1 .. Len(records)
        /\ k = Len(records) + 1 \/ k \in 1 .. Len(records)
    BY <1>1
  <2> QED
    BY <1>1, <1>3, <2>1 DEF Distinct, Holds
<1>4. Distinct(records) /\ ~Holds(records, r.id) => Distinct(longer)
  BY <1>1, <1>3 DEF Distinct
<1> QED
  BY <1>1, <1>2, <1>4 DEF longer

\* A trade that is closed keeps its place, and no record comes or goes.
LEMMA ClosedRecords ==
  ASSUME RecordTypeOK, NEW records \in Seq(Record), NEW i \in Ids
  PROVE  /\ Closed(records, i) \in Seq(Record)
         /\ \A x : Holds(Closed(records, i), x) <=> Holds(records, x)
         /\ Distinct(records) => Distinct(Closed(records, i))
<1> DEFINE after == Closed(records, i)
<1>1. DOMAIN records = 1 .. Len(records) /\ Len(records) \in Nat
  OBVIOUS
<1>2. ASSUME NEW k \in 1 .. Len(records)
      PROVE  after[k] \in Record /\ after[k].id = records[k].id
  <2>1. records[k] \in Record
    BY <1>1
  <2>2. outcome[i] \in Results \cup {"open"}
    BY DEF RecordTypeOK
  <2>3. /\ [records[k] EXCEPT !.result = outcome[i]] \in Record
        /\ [records[k] EXCEPT !.result = outcome[i]].id = records[k].id
    BY <2>1, <2>2 DEF Record
  <2>4. after[k] = IF records[k].id = i THEN [records[k] EXCEPT !.result = outcome[i]] ELSE records[k]
    BY <1>1 DEF Closed
  <2> QED
    BY <2>1, <2>3, <2>4
<1>3. DOMAIN after = 1 .. Len(records)
  BY <1>1 DEF Closed
<1>4. after \in [1 .. Len(records) -> Record]
  BY <1>1, <1>2, <1>3 DEF Closed
<1> HIDE DEF after
<1>5. after \in Seq(Record)
  BY <1>1, <1>4, SeqDef
<1>6. \A x : Holds(after, x) <=> Holds(records, x)
  BY <1>1, <1>2, <1>3 DEF Holds
<1>7. Distinct(records) => Distinct(after)
  BY <1>1, <1>2, <1>3 DEF Distinct
<1> QED
  BY <1>5, <1>6, <1>7 DEF after

-----------------------------------------------------------------------------
\* Nothing is recorded yet.
LEMMA RecordInitial == RecordInit => RecordIInv
<1> SUFFICES ASSUME RecordInit PROVE RecordIInv
  OBVIOUS
<1>1. \A d \in 0 .. LastDay : file[d] = <<>>
  BY DEF RecordInit
<1>2. RecordTypeOK
  <2>1. file \in [0 .. LastDay -> Seq(Record)] /\ rewritten \in Seq(Record)
    BY EmptyRecords DEF RecordInit
  <2>2. day \in 0 .. LastDay /\ rewriteDay \in 0 .. LastDay /\ crashes \in 0 .. Crashes
    BY RecordsAssumption DEF RecordInit
  <2> QED
    BY <2>1, <2>2 DEF RecordInit, RecordTypeOK
<1> QED
  BY <1>1, <1>2, EmptyRecords
  DEF RecordInit, RecordIInv, Kept, Once, Future, Writing, Unknown, Missing

\* A record is added only to a day that has none of the trade.
LEMMA RecordPersisted ==
  ASSUME RecordIInv, NEW r \in Record, NEW to \in {"open", "ended"}, Persist(r),
         stage[r.id] \in {"none", "adding"}, stage' = [stage EXCEPT ![r.id] = to],
         UNCHANGED <<day, rewriting, outcome, crashes, torn>>
  PROVE  RecordIInv'
<1>1. /\ RecordTypeOK /\ Kept /\ Once /\ Future /\ Unknown /\ Missing
      /\ writer = NoTrade /\ UNCHANGED <<writer, rewritten, rewriteDay>>
      /\ r.id \in Ids /\ day \in 0 .. LastDay /\ file[day] \in Seq(Record)
  BY DEF RecordIInv, RecordTypeOK, Persist, Unlocked, rewriting, Record
<1>2. /\ \A d \in 0 .. LastDay : file'[d] = IF d = day THEN Append(file[day], r) ELSE file[d]
      /\ file' = [file EXCEPT ![day] = Append(file[day], r)]
  BY <1>1 DEF Persist, RecordTypeOK
<1>3. ~Holds(file[day], r.id)
  BY <1>1 DEF Unknown, Missing, Content
<1>4. /\ Append(file[day], r) \in Seq(Record)
      /\ \A i : Holds(Append(file[day], r), i) <=> Holds(file[day], i) \/ i = r.id
      /\ Distinct(Append(file[day], r))
  BY <1>1, <1>3, AppendedRecord DEF Once
<1>5. RecordTypeOK'
  <2>1. journaled' \subseteq [id : Ids, day : 0 .. LastDay]
    BY <1>1 DEF Persist, RecordTypeOK
  <2>2. file' \in [0 .. LastDay -> Seq(Record)]
    BY <1>1, <1>2, <1>4 DEF RecordTypeOK
  <2>3. stage' \in [Ids -> {"none", "open", "waiting", "closing", "adding", "ended"}]
    BY <1>1 DEF RecordTypeOK
  <2> QED
    BY <1>1, <2>1, <2>2, <2>3 DEF RecordTypeOK
<1>6. Kept'
  <2> SUFFICES ASSUME NEW x \in journaled', x.day \notin torn'
               PROVE  Holds(file'[x.day], x.id)
    BY <1>1 DEF Kept, Content
  <2>1. CASE x \in journaled
    <3>1. x.day \in 0 .. LastDay /\ Holds(file[x.day], x.id)
      BY <1>1, <2>1 DEF Kept, Content, RecordTypeOK
    <3> QED
      BY <1>2, <1>4, <3>1
  <2>2. CASE x = [id |-> r.id, day |-> day]
    BY <1>1, <1>2, <1>4, <2>2
  <2> QED
    BY <2>1, <2>2 DEF Persist
<1>7. Once'
  BY <1>1, <1>2, <1>4 DEF Once
<1>8. Future' /\ Writing'
  BY <1>1, <1>2 DEF Future, Writing, RecordTypeOK
<1>9. Unknown' /\ Missing'
  <2>1. ASSUME NEW i \in Ids, stage'[i] \in {"none", "adding"} PROVE i # r.id /\ stage'[i] = stage[i]
    BY <1>1, <2>1 DEF RecordTypeOK
  <2> QED
    BY <1>1, <1>2, <1>4, <2>1 DEF Unknown, Missing, Content
<1> QED
  BY <1>5, <1>6, <1>7, <1>8, <1>9 DEF RecordIInv

\* A thread that goes on without a file leaves all of them as they are.
LEMMA RecordUndisturbed ==
  ASSUME RecordIInv, UNCHANGED <<day, file, rewriting, crashes, journaled, torn>>,
         NEW i \in Ids, NEW to \in {"open", "waiting", "closing", "adding", "ended"},
         stage' = [stage EXCEPT ![i] = to],
         writer # i,
         to = "adding" => ~Holds(Content(day), i),
         outcome' \in [Ids -> Results \cup {"open"}]
  PROVE  RecordIInv'
<1>1. /\ RecordTypeOK /\ Kept /\ Once /\ Future /\ Writing /\ Unknown /\ Missing
      /\ UNCHANGED <<writer, rewritten, rewriteDay>>
  BY DEF RecordIInv, rewriting
<1>2. RecordTypeOK'
  BY <1>1 DEF RecordTypeOK
<1>3. Kept' /\ Once' /\ Future'
  BY <1>1 DEF Kept, Once, Future, Content
<1>4. Writing'
  BY <1>1 DEF Writing, RecordTypeOK
<1>5. Unknown' /\ Missing'
  BY <1>1 DEF Unknown, Missing, Content, RecordTypeOK
<1> QED
  BY <1>2, <1>3, <1>4, <1>5 DEF RecordIInv

\* Opening the file for writing moves its records into the hands of the writer.
LEMMA FileOpened ==
  ASSUME RecordIInv, NEW i \in Ids, CloseTrade(i)
  PROVE  RecordIInv'
<1>1. /\ RecordTypeOK /\ Kept /\ Once /\ Future /\ Unknown /\ Missing
      /\ writer = NoTrade /\ i # NoTrade /\ day \in 0 .. LastDay /\ file[day] \in Seq(Record)
      /\ \A k \in Ids : k # NoTrade
  BY RecordsAssumption DEF RecordIInv, RecordTypeOK, CloseTrade, Unlocked, Ids
<1>2. /\ writer' = i /\ rewriteDay' = day /\ rewritten' = Closed(file[day], i)
      /\ stage[i] = "closing"
      /\ UNCHANGED <<day, stage, outcome, crashes, journaled, torn>>
      /\ file' = [file EXCEPT ![day] = <<>>]
      /\ \A d \in 0 .. LastDay : file'[d] = IF d = day THEN <<>> ELSE file[d]
  BY <1>1 DEF CloseTrade, RecordTypeOK
<1>3. /\ rewritten' \in Seq(Record)
      /\ \A x : Holds(rewritten', x) <=> Holds(file[day], x)
      /\ Distinct(rewritten')
  BY <1>1, <1>2, ClosedRecords DEF Once
<1>4. \A d \in 0 .. LastDay, x \in Ids : Holds(Content(d), x)' <=> Holds(Content(d), x)
  BY <1>1, <1>2, <1>3 DEF Content
<1>5. RecordTypeOK'
  <2>1. file' \in [0 .. LastDay -> Seq(Record)]
    BY <1>1, <1>2, EmptyRecords DEF RecordTypeOK
  <2> QED
    BY <1>1, <1>2, <1>3, <2>1 DEF RecordTypeOK
<1>6. Kept'
  BY <1>1, <1>2, <1>4 DEF Kept, RecordTypeOK
<1>7. Once' /\ Future' /\ Writing'
  BY <1>1, <1>2, <1>3, EmptyRecords DEF Once, Future, Writing, RecordTypeOK
<1>8. Unknown'
  BY <1>1, <1>2, <1>3, EmptyRecords DEF Unknown
<1>9. Missing'
  BY <1>1, <1>2, <1>4 DEF Missing
<1> QED
  BY <1>5, <1>6, <1>7, <1>8, <1>9 DEF RecordIInv

\* Writing the file again puts them back.
LEMMA FileClosed ==
  ASSUME RecordIInv, NEW i \in Ids, TradeClosed(i)
  PROVE  RecordIInv'
<1>1. /\ RecordTypeOK /\ Kept /\ Once /\ Future /\ Unknown /\ Missing
      /\ writer = i /\ writer # NoTrade /\ rewriteDay \in 0 .. LastDay /\ rewritten \in Seq(Record)
  BY RecordsAssumption DEF RecordIInv, RecordTypeOK, TradeClosed, Ids
<1>2. /\ writer' = NoTrade /\ rewriteDay' = 0 /\ rewritten' = <<>>
      /\ stage' = [stage EXCEPT ![i] = "ended"]
      /\ UNCHANGED <<day, outcome, crashes, journaled, torn>>
      /\ file' = [file EXCEPT ![rewriteDay] = rewritten]
      /\ \A d \in 0 .. LastDay : file'[d] = IF d = rewriteDay THEN rewritten ELSE file[d]
  BY <1>1 DEF TradeClosed, Moves, RecordTypeOK
<1>3. \A d \in 0 .. LastDay, x \in Ids : Holds(Content(d), x)' <=> Holds(Content(d), x)
  BY <1>1, <1>2 DEF Content
<1>4. RecordTypeOK'
  <2>1. file' \in [0 .. LastDay -> Seq(Record)]
    BY <1>1, <1>2 DEF RecordTypeOK
  <2>2. stage' \in [Ids -> {"none", "open", "waiting", "closing", "adding", "ended"}]
    BY <1>1, <1>2 DEF RecordTypeOK
  <2>3. 0 \in 0 .. LastDay
    BY RecordsAssumption
  <2> QED
    BY <1>1, <1>2, <2>1, <2>2, <2>3, EmptyRecords DEF RecordTypeOK
<1>5. Kept'
  BY <1>1, <1>2, <1>3 DEF Kept, RecordTypeOK
<1>6. Once' /\ Future' /\ Writing'
  BY <1>1, <1>2, EmptyRecords DEF Once, Future, Writing, RecordTypeOK
<1>7. \A k \in Ids : stage'[k] \in {"none", "adding"} => stage'[k] = stage[k]
  BY <1>1, <1>2 DEF RecordTypeOK
<1>8. Unknown'
  BY <1>1, <1>2, <1>7, EmptyRecords DEF Unknown
<1>9. Missing'
  BY <1>1, <1>2, <1>3, <1>7 DEF Missing, RecordTypeOK
<1> QED
  BY <1>4, <1>5, <1>6, <1>8, <1>9 DEF RecordIInv

\* Today's file is new after midnight.
LEMMA DayChanged ==
  ASSUME RecordIInv, Midnight
  PROVE  RecordIInv'
<1>1. /\ RecordTypeOK /\ Kept /\ Once /\ Future /\ Writing /\ Unknown
      /\ day' = day + 1 /\ day' \in 0 .. LastDay /\ day \in Nat
      /\ UNCHANGED <<file, writer, rewritten, rewriteDay, stage, outcome, crashes, journaled, torn>>
  BY RecordsAssumption DEF RecordIInv, RecordTypeOK, Midnight, rewriting
<1>2. RecordTypeOK'
  BY <1>1 DEF RecordTypeOK
<1>3. Kept' /\ Once' /\ Writing' /\ Unknown'
  BY <1>1 DEF Kept, Once, Writing, Unknown, Content
<1>4. Future'
  BY <1>1 DEF Future, RecordTypeOK
<1>5. Missing'
  <2>1. rewriteDay # day' /\ file[day'] = <<>>
    BY <1>1 DEF Future, RecordTypeOK
  <2>2. Content(day)' = <<>>
    BY <1>1, <2>1 DEF Content
  <2> QED
    BY <2>2, EmptyRecords DEF Missing
<1> QED
  BY <1>2, <1>3, <1>4, <1>5 DEF RecordIInv

\* A crash takes the records that are in the hands of a writer, and no others.
LEMMA Crashed ==
  ASSUME RecordIInv, Crash
  PROVE  RecordIInv'
<1>1. /\ RecordTypeOK /\ Kept /\ Once /\ Future /\ Unknown
      /\ UNCHANGED <<day, file, outcome, journaled>>
      /\ writer' = NoTrade /\ rewritten' = <<>> /\ rewriteDay' = 0
      /\ torn' = IF writer = NoTrade THEN torn ELSE torn \cup {rewriteDay}
      /\ stage' = [i \in Ids |-> IF stage[i] = "none" THEN "none" ELSE "ended"]
      /\ crashes' = crashes + 1 /\ crashes < Crashes
  BY DEF RecordIInv, Crash, Unlocked
<1>2. RecordTypeOK'
  <2>1. 0 \in 0 .. LastDay /\ crashes' \in 0 .. Crashes
    BY <1>1, RecordsAssumption DEF RecordTypeOK
  <2> QED
    BY <1>1, <2>1, EmptyRecords DEF RecordTypeOK
<1>3. Kept'
  BY <1>1 DEF Kept, Content
<1>4. Once' /\ Future' /\ Writing'
  BY <1>1, EmptyRecords DEF Once, Future, Writing, RecordTypeOK
<1>5. \A i \in Ids : stage'[i] # "adding" /\ (stage'[i] = "none" => stage[i] = "none")
  BY <1>1
<1>6. Unknown' /\ Missing'
  BY <1>1, <1>5, EmptyRecords DEF Unknown, Missing
<1> QED
  BY <1>2, <1>3, <1>4, <1>6 DEF RecordIInv

\* No step loses a record of a file, or adds one twice.
LEMMA RecordInductive == RecordIInv /\ [RecordNext]_recordVars => RecordIInv'
<1> SUFFICES ASSUME RecordIInv, [RecordNext]_recordVars PROVE RecordIInv'
  OBVIOUS
<1>0. RecordTypeOK /\ Writing /\ RecordedOrders \subseteq Ids /\ Trades \subseteq Ids /\ NoTrade \notin Ids
  BY RecordsAssumption DEF RecordIInv, Ids
<1>1. ASSUME NEW o \in RecordedOrders, OrderPlaced(o) PROVE RecordIInv'
  <2>1. writer # o
    BY <1>0, <1>1 DEF OrderPlaced, Moves, Writing
  <2> QED
    BY <1>0, <1>1, <2>1, RecordUndisturbed DEF OrderPlaced, Moves, RecordTypeOK
<1>2. ASSUME NEW t \in Trades, OpenTrade(t) PROVE RecordIInv'
  <2>1. [id |-> t, result |-> "open"] \in Record /\ [id |-> t, result |-> "open"].id = t
    BY <1>0 DEF Record
  <2> QED
    BY <1>2, <2>1, RecordPersisted DEF OpenTrade, Moves
<1>3. ASSUME NEW t \in Trades, TradeEnds(t) PROVE RecordIInv'
  <2>1. writer # t
    BY <1>0, <1>3 DEF TradeEnds, Moves, Writing
  <2>2. outcome' \in [Ids -> Results \cup {"open"}]
    BY <1>0, <1>3 DEF TradeEnds, RecordTypeOK
  <2> QED
    BY <1>0, <1>3, <2>1, <2>2, RecordUndisturbed DEF TradeEnds, Moves
<1>4. ASSUME NEW i \in Ids, OutcomeKnown(i) PROVE RecordIInv'
  <2>1. writer # i
    BY <1>0, <1>4 DEF OutcomeKnown, Moves, Writing
  <2>2. outcome' \in [Ids -> Results \cup {"open"}]
    BY <1>0, <1>4 DEF OutcomeKnown, RecordTypeOK
  <2>3. stage' = [stage EXCEPT ![i] = "closing"] \/ stage' = [stage EXCEPT ![i] = "ended"]
    BY <1>4 DEF OutcomeKnown, Moves
  <2> QED
    BY <1>4, <2>1, <2>2, <2>3, RecordUndisturbed DEF OutcomeKnown
<1>5. ASSUME NEW i \in Ids, CloseTrade(i) PROVE RecordIInv'
  BY <1>5, FileOpened
<1>6. ASSUME NEW i \in Ids, TradeClosed(i) PROVE RecordIInv'
  BY <1>6, FileClosed
<1>7. ASSUME NEW i \in Ids, NotFound(i) PROVE RecordIInv'
  <2>1. writer # i
    BY <1>0, <1>7 DEF NotFound, Unlocked
  <2>2. ~Holds(Content(day), i)
    BY <1>7 DEF NotFound, Unlocked, Has, Holds, Content
  <2> QED
    BY <1>0, <1>7, <2>1, <2>2, RecordUndisturbed DEF NotFound, Moves, RecordTypeOK
<1>8. ASSUME NEW i \in Ids, RecordAdded(i) PROVE RecordIInv'
  <2>1. /\ [id |-> i, result |-> outcome[i]] \in Record
        /\ [id |-> i, result |-> outcome[i]].id = i
    BY <1>0 DEF Record, RecordTypeOK
  <2> QED
    BY <1>8, <2>1, RecordPersisted DEF RecordAdded, Moves
<1>9. CASE Midnight
  BY <1>9, DayChanged
<1>10. CASE Crash
  BY <1>10, Crashed
<1>11. CASE UNCHANGED recordVars
  BY <1>11
  DEF recordVars, rewriting, RecordIInv, RecordTypeOK, Kept, Once, Future, Writing, Unknown, Missing, Content
<1> QED
  BY <1>1, <1>2, <1>3, <1>4, <1>5, <1>6, <1>7, <1>8, <1>9, <1>10, <1>11 DEF RecordNext, Recording

\* For any number of threads, trades, midnights and crashes: a record that was
\* written stays in the file of its day, once, unless the process died while the file
\* was empty.
THEOREM RecordedStaysOnce == RecordSpec => [](RecordTypeOK /\ RecordedOnce)
<1>1. RecordIInv => RecordTypeOK /\ RecordedOnce
  <2>1. ASSUME RecordIInv PROVE NothingOverwritten
    BY <2>1 DEF RecordIInv, Kept, Content, Holds, NothingOverwritten, Unlocked, Has
  <2>2. ASSUME RecordIInv PROVE OncePerDay
    BY <2>2 DEF RecordIInv, Once, Distinct, OncePerDay
  <2> QED
    BY <2>1, <2>2 DEF RecordIInv, RecordedOnce
<1> QED
  BY <1>1, RecordInitial, RecordInductive, PTL DEF RecordSpec

-----------------------------------------------------------------------------
(* Monitors *)

\* The monitors have their types: only Events of monitors that were started are set, and
\* a monitor waits on one of those.
THEOREM MonitorTypeCorrect == MonitorSpec => []MonitorTypeOK
<1> USE MonitorAssumption
<1>1. MonitorInit => MonitorTypeOK
  BY DEF MonitorInit, MonitorTypeOK, MonitorIds, NoEvent, At
<1>2. MonitorTypeOK /\ [MonitorNext]_monitorVars => MonitorTypeOK'
  <2> SUFFICES ASSUME MonitorTypeOK, [MonitorNext]_monitorVars PROVE MonitorTypeOK'
    OBVIOUS
  <2> USE DEF MonitorTypeOK, MonitorIds, NoEvent, At
  <2>1. CASE MonitorPositions
    BY <2>1 DEF MonitorPositions
  <2>2. CASE StopMonitorPositions
    BY <2>2 DEF StopMonitorPositions
  <2>3. ASSUME NEW m \in MonitorIds, LooksUp(m)
        PROVE  MonitorTypeOK'
    BY <2>3 DEF LooksUp
  <2>4. ASSUME NEW m \in MonitorIds, EndsMonitor(m)
        PROVE  MonitorTypeOK'
    BY <2>4 DEF EndsMonitor
  <2>5. ASSUME NEW m \in MonitorIds, CallsBack(m)
        PROVE  MonitorTypeOK'
    BY <2>5 DEF CallsBack
  <2>6. ASSUME NEW m \in MonitorIds, CallbackEnds(m)
        PROVE  MonitorTypeOK'
    BY <2>6 DEF CallbackEnds
  <2>7. CASE UNCHANGED monitorVars
    BY <2>7 DEF monitorVars
  <2> QED
    BY <2>1, <2>2, <2>3, <2>4, <2>5, <2>6, <2>7 DEF MonitorNext, MonitorSteps
<1> QED
  BY <1>1, <1>2, PTL DEF MonitorSpec

-----------------------------------------------------------------------------
(* CircuitBreaker.  ClosedBelowLimit and OneTrial are inductive together with      *)
(* BreakerTypeOK; a HALF breaker has no other history.                             *)

\* The breaker has its types, and both properties of the phase.
BreakerIInv == BreakerTypeOK /\ ClosedBelowLimit /\ OneTrial

\* A counter cut at its limit stays within it, and reaches it if it would
\* otherwise have.
LEMMA UpToRange ==
  ASSUME NEW limit \in Nat, NEW n \in Nat
  PROVE  /\ UpTo(limit, n) \in 0 .. limit
         /\ UpTo(limit, n) <= n
BY DEF UpTo

\* What reading the state property leaves is a phase, with its history.
LEMMA ObservedType ==
  ASSUME BreakerTypeOK
  PROVE  /\ Observed \in {"CLOSED", "OPEN", "HALF"}
         /\ TestDone \in BOOLEAN
         /\ Trials \in 0 .. 2
BY DEF BreakerTypeOK, Observed, TestDone, Trials, Recovers

\* Reading the state property keeps both properties of the phase.
LEMMA ObservedPhase ==
  ASSUME BreakerIInv
  PROVE  /\ Observed = "CLOSED" => losses < MaxConsecutive
         /\ Observed = "HALF" => Trials <= 1 /\ (Trials = 1 => TestDone)
BY DEF BreakerIInv, BreakerTypeOK, ClosedBelowLimit, OneTrial, Observed, TestDone, Trials, Recovers

\* A new balance is one of those that come up.
LEMMA UpdateBalanceType ==
  ASSUME BreakerTypeOK, NEW b \in Balances, UpdateBalance(b)
  PROVE  peak' \in Balances \cup {0} /\ current' \in Balances \cup {0} /\ seen' \in BOOLEAN
BY DEF BreakerTypeOK, UpdateBalance

\* Before the first call the breaker is CLOSED, without losses or trials.
LEMMA BreakerInitial == BreakerInit => BreakerIInv
<1> SUFFICES ASSUME BreakerInit PROVE BreakerIInv
  OBVIOUS
<1>1. seen \in BOOLEAN /\ testDone \in BOOLEAN
  BY DEF BreakerInit
<1>2. BreakerTypeOK
  BY <1>1, BreakerAssumption DEF BreakerInit, BreakerTypeOK
<1>3. ClosedBelowLimit /\ OneTrial
  BY BreakerAssumption DEF BreakerInit, ClosedBelowLimit, OneTrial
<1> QED
  BY <1>2, <1>3 DEF BreakerIInv

\* A loss trips the breaker at its limit: every method leaves BreakerIInv true.
LEMMA BreakerInductive == BreakerIInv /\ [BreakerNext]_breakerVars => BreakerIInv'
<1> SUFFICES ASSUME BreakerIInv, [BreakerNext]_breakerVars PROVE BreakerIInv'
  OBVIOUS
<1> USE BreakerAssumption DEF BreakerIInv
<1>0. BreakerTypeOK
  OBVIOUS
<1>1. ASSUME NEW b \in Balances, RecordWin(b) PROVE BreakerIInv'
  BY <1>0, <1>1, ObservedType, ObservedPhase, UpdateBalanceType
     DEF RecordWin, BreakerTypeOK, ClosedBelowLimit, OneTrial
<1>2. ASSUME NEW b \in Balances, NEW amount \in Stakes, RecordLoss(amount, b)
      PROVE  BreakerIInv'
  <2>1. /\ peak' \in Balances \cup {0} /\ current' \in Balances \cup {0}
        /\ seen' \in BOOLEAN
    BY <1>0, <1>2, UpdateBalanceType DEF RecordLoss
  <2>2. losses' \in 0 .. MaxConsecutive /\ sessionLoss' \in 0 .. MaxSessionLoss
    <3>1. losses + 1 \in Nat /\ sessionLoss + amount \in Nat
      BY <1>0 DEF BreakerTypeOK
    <3> QED
      BY <1>2, <3>1, UpToRange DEF RecordLoss
  <2>3. state' \in {"CLOSED", "OPEN", "HALF"} /\ sinceTrip' \in 0 .. RecoveryWait
    BY <1>0, <1>2, ObservedType DEF RecordLoss, Trip, BreakerTypeOK
  <2>4. /\ testDone' = TestDone /\ trials' = Trials
        /\ lastCall' = "record_loss"
    BY <1>2 DEF RecordLoss
  <2>5. BreakerTypeOK'
    BY <1>0, <2>1, <2>2, <2>3, <2>4, ObservedType DEF BreakerTypeOK
  <2>6. ClosedBelowLimit'
    <3> SUFFICES ASSUME state' = "CLOSED" PROVE losses' < MaxConsecutive
      BY DEF ClosedBelowLimit
    <3>1. Observed = "CLOSED" /\ ~LimitReached
      BY <1>2 DEF RecordLoss, Trip
    <3> QED
      BY <2>2, <3>1 DEF LimitReached
  <2>7. OneTrial'
    <3> SUFFICES ASSUME state' = "HALF"
                 PROVE  trials' <= 1 /\ (trials' = 1 => testDone')
      BY DEF OneTrial
    <3>1. Observed # "HALF"
      BY <1>2 DEF RecordLoss, Trip
    <3> QED
      BY <1>2, <3>1 DEF RecordLoss, Trip
  <2> QED
    BY <2>5, <2>6, <2>7
<1>3. ASSUME NEW b \in Balances, BalanceUpdate(b) PROVE BreakerIInv'
  BY <1>0, <1>3, UpdateBalanceType
     DEF BalanceUpdate, BreakerTypeOK, ClosedBelowLimit, OneTrial, phaseVars
<1>4. ASSUME NEW b \in Balances, ResetSession(b) PROVE BreakerIInv'
  BY <1>0, <1>4 DEF ResetSession, BreakerTypeOK, ClosedBelowLimit, OneTrial
<1>5. CASE RecordSuccess
  BY <1>0, <1>5 DEF RecordSuccess, BreakerTypeOK, ClosedBelowLimit, OneTrial, balanceVars
<1>6. CASE RecordFailure
  <2>1. losses' \in 0 .. MaxConsecutive
    <3>1. losses + 1 \in Nat
      BY <1>0 DEF BreakerTypeOK
    <3> QED
      BY <1>6, <3>1, UpToRange DEF RecordFailure
  <2> QED
    BY <1>0, <1>6, <2>1
       DEF RecordFailure, Trip, BreakerTypeOK, ClosedBelowLimit, OneTrial, balanceVars
<1>7. CASE IsOpen
  BY <1>0, <1>7, ObservedType, ObservedPhase
     DEF IsOpen, Observe, BreakerTypeOK, ClosedBelowLimit, OneTrial, balanceVars
<1>8. CASE CanTrade
  <2>1. trials' \in 0 .. 2 /\ (Observed = "HALF" /\ ~TestDone => trials' <= 1)
    <3>1. Trials + 1 \in Nat
      BY <1>0, ObservedType
    <3>2. Observed = "HALF" /\ ~TestDone => Trials = 0
      BY <1>0, ObservedType, ObservedPhase
    <3>3. UpTo(2, Trials + 1) \in 0 .. 2 /\ UpTo(2, Trials + 1) <= Trials + 1
      BY <3>1, UpToRange
    <3> QED
      BY <1>0, <1>8, <3>2, <3>3, ObservedType DEF CanTrade
  <2> QED
    BY <1>0, <1>8, <2>1, ObservedType, ObservedPhase
       DEF CanTrade, Ask, BreakerTypeOK, ClosedBelowLimit, OneTrial, balanceVars
<1>9. CASE StatusReport
  BY <1>0, <1>9, ObservedType, ObservedPhase
     DEF StatusReport, Ask, BreakerTypeOK, ClosedBelowLimit, OneTrial, balanceVars
<1>10. CASE BreakerTick
  BY <1>0, <1>10 DEF BreakerTick, BreakerTypeOK, ClosedBelowLimit, OneTrial, balanceVars
<1>11. CASE UNCHANGED breakerVars
  BY <1>11 DEF breakerVars, BreakerTypeOK, ClosedBelowLimit, OneTrial
<1> QED
  BY <1>1, <1>2, <1>3, <1>4, <1>5, <1>6, <1>7, <1>8, <1>9, <1>10, <1>11 DEF BreakerNext

\* The breaker keeps its invariant whatever methods are called, in any order.
LEMMA BreakerInvariant == BreakerSpec => []BreakerIInv
<1>1. BreakerInit => BreakerIInv
  BY BreakerInitial
<1>2. BreakerIInv /\ [BreakerNext]_breakerVars => BreakerIInv'
  BY BreakerInductive
<1> QED
  BY <1>1, <1>2, PTL DEF BreakerSpec

\* The state stays within its types, and the counters within their limits.
THEOREM BreakerTypeCorrect == BreakerSpec => []BreakerTypeOK
<1>1. BreakerIInv => BreakerTypeOK
  BY DEF BreakerIInv
<1> QED
  BY <1>1, BreakerInvariant, PTL

\* While it is CLOSED, the losses or failures in a row are below the limit.
THEOREM ClosedMeansFewLosses == BreakerSpec => []ClosedBelowLimit
<1>1. BreakerIInv => ClosedBelowLimit
  BY DEF BreakerIInv
<1> QED
  BY <1>1, BreakerInvariant, PTL

\* can_trade() lets at most one order through in a test phase.
THEOREM OneTrialPerTest == BreakerSpec => []OneTrial
<1>1. BreakerIInv => OneTrial
  BY DEF BreakerIInv
<1> QED
  BY <1>1, BreakerInvariant, PTL

\* The OPEN phase ends after the wait, or by a reconnection or a reset.
THEOREM RecoveryTakesTheWait == BreakerSpec => RecoveryIsWaited
<1> DEFINE Waited ==
      state = "OPEN" /\ state' # "OPEN"
        => sinceTrip >= RecoveryWait \/ lastCall' \in {"record_success", "reset_session"}
<1>1. [BreakerNext]_breakerVars => [Waited]_breakerVars
  <2> SUFFICES ASSUME BreakerNext, state = "OPEN", state' # "OPEN",
                      ~(sinceTrip >= RecoveryWait)
               PROVE  lastCall' \in {"record_success", "reset_session"}
    OBVIOUS
  <2>1. Observed = "OPEN"
    BY DEF Observed, Recovers
  <2> QED
    BY <2>1 DEF BreakerNext, RecordWin, RecordLoss, BalanceUpdate, ResetSession, RecordSuccess,
                RecordFailure, IsOpen, CanTrade, StatusReport, BreakerTick, Observe, Ask, Trip,
                phaseVars
<1> QED
  BY <1>1, PTL DEF BreakerSpec, RecoveryIsWaited

-----------------------------------------------------------------------------
(* TokenBucket: what is in the bucket is what the busiest span of time has left     *)
(* over.                                                                            *)

\* What the bucket holds and what the busiest span used make at most Full.
Balanced == surplus + Refilled <= Full

\* A thread still asking has tokens to take; so "left" does not pass 0.
Asking == \A c \in Callers : phase[c] \in {"asking", "sleeping"} => left[c] > 0

\* The balance, with the types.
BucketIInv == BucketTypeOK /\ Asking /\ Balanced

\* The bucket never holds more than its capacity.
LEMMA RefilledType ==
  ASSUME BucketTypeOK
  PROVE  Refilled \in 0 .. Full
BY BucketAssumption DEF BucketTypeOK, Refilled, UpToFull

\* The bucket starts full and nobody has ordered.
LEMMA BucketInitial == BucketInit => BucketIInv
BY BucketAssumption DEF BucketInit, BucketIInv, BucketTypeOK, Asking, Balanced, Refilled, UpToFull

\* What a thread takes, the busiest span gains; what time gives, it loses.
LEMMA BucketInductive == BucketIInv /\ [BucketNext]_bucketVars => BucketIInv'
<1> SUFFICES ASSUME BucketIInv, [BucketNext]_bucketVars PROVE BucketIInv'
  OBVIOUS
<1> USE BucketAssumption DEF BucketIInv
<1>0. BucketTypeOK /\ Asking /\ Balanced /\ Refilled \in 0 .. Full
  BY RefilledType
<1>1. ASSUME NEW c \in Callers, Call(c) PROVE BucketIInv'
  BY <1>0, <1>1 DEF Call, BucketTypeOK, Asking, Balanced, Refilled
<1>2. ASSUME NEW c \in Callers, ConsumeTaken(c) PROVE BucketIInv'
  <2>1. BucketTypeOK'
    BY <1>0, <1>2 DEF ConsumeTaken, BucketTypeOK, Asking
  <2>2. Asking'
    BY <1>0, <1>2 DEF ConsumeTaken, BucketTypeOK, Asking
  <2>3. Refilled' = Refilled - Unit
    BY <1>0, <1>2 DEF ConsumeTaken, Refilled, UpToFull
  <2>4. Balanced'
    BY <1>0, <1>2, <2>3 DEF ConsumeTaken, BucketTypeOK, Balanced
  <2> QED
    BY <2>1, <2>2, <2>4
<1>3. ASSUME NEW c \in Callers, ConsumeFails(c) PROVE BucketIInv'
  <2>1. BucketTypeOK'
    BY <1>0, <1>3 DEF ConsumeFails, BucketTypeOK
  <2>2. Asking'
    BY <1>0, <1>3 DEF ConsumeFails, BucketTypeOK, Asking
  <2>3. Refilled' = Refilled
    BY <1>0, <1>3 DEF ConsumeFails, Refilled, UpToFull
  <2> QED
    BY <1>0, <1>3, <2>1, <2>2, <2>3 DEF ConsumeFails, Balanced
<1>4. ASSUME NEW c \in Callers, SleepEnds(c) \/ CallReturns(c) PROVE BucketIInv'
  BY <1>0, <1>4 DEF SleepEnds, CallReturns, BucketTypeOK, Asking, Balanced, Refilled
<1>5. CASE AvailableTokens
  <2>1. Refilled' = Refilled
    BY <1>0, <1>5 DEF AvailableTokens, Refilled, UpToFull
  <2> QED
    BY <1>0, <1>5, <2>1 DEF AvailableTokens, BucketTypeOK, Asking, Balanced
<1>6. CASE BucketTick
  <2>1. BucketTypeOK'
    BY <1>0, <1>6 DEF BucketTick, BucketTypeOK, UpToFull, Less
  <2>2. /\ tokens \in 0 .. Full /\ since \in 0 .. Full /\ surplus \in Nat
        /\ tokens' = tokens /\ since' = UpToFull(since + 1) /\ surplus' = Less(surplus)
    BY <1>0, <1>6 DEF BucketTick, BucketTypeOK
  <2>3. Refilled' <= Refilled + 1 /\ Refilled' \in 0 .. Full
    BY <2>2 DEF Refilled, UpToFull
  <2>4. Balanced'
    <3> HIDE DEF BucketIInv
    <3> SUFFICES surplus' + Refilled' <= Full
      BY DEF Balanced
    <3>1. surplus + Refilled <= Full
      BY <1>0 DEF Balanced
    <3>2. surplus' = 0 \/ (surplus' = surplus - 1 /\ surplus > 0)
      BY <2>2 DEF Less
    <3> QED
      BY <1>0, <2>2, <2>3, <3>1, <3>2
  <2> QED
    BY <1>0, <1>6, <2>1, <2>4 DEF BucketTick, Asking
<1>7. CASE UNCHANGED bucketVars
  BY <1>0, <1>7 DEF bucketVars, BucketTypeOK, Asking, Balanced, Refilled
<1> QED
  BY <1>1, <1>2, <1>3, <1>4, <1>5, <1>6, <1>7 DEF BucketNext, Thread

\* The invariant holds in every state of the bucket.
LEMMA BucketInvariant == BucketSpec => []BucketIInv
BY BucketInitial, BucketInductive, PTL DEF BucketSpec

\* The bucket, its threads and the counts keep their types.
THEOREM BucketTypeCorrect == BucketSpec => []BucketTypeOK
<1>1. BucketIInv => BucketTypeOK
  BY DEF BucketIInv
<1> QED
  BY <1>1, BucketInvariant, PTL

\* In no span of time there are more orders than the capacity plus what the
\* span earns.
THEOREM OrdersDoNotFlood == BucketSpec => []NoFlood
<1>1. BucketIInv => NoFlood
  BY BucketAssumption, RefilledType DEF BucketIInv, Balanced, NoFlood, BucketTypeOK
<1> QED
  BY <1>1, BucketInvariant, PTL

\* A step of the bucket is a step of the allowance, or leaves its level alone.
LEMMA StepKeepsPromise == BucketTypeOK /\ [BucketNext]_bucketVars => [Promise!Next]_Refilled
<1> SUFFICES ASSUME BucketTypeOK, [BucketNext]_bucketVars, Refilled' # Refilled
             PROVE  Promise!Next
  OBVIOUS
<1> USE BucketAssumption
<1>0. Refilled \in 0 .. Full
  BY RefilledType
<1>1. ASSUME NEW c \in Callers, ConsumeTaken(c) PROVE Promise!Next
  <2>1. Refilled >= Unit /\ Refilled' = Refilled - Unit
    BY <1>0, <1>1 DEF ConsumeTaken, Refilled, UpToFull
  <2> QED
    BY <2>1 DEF Promise!Next, Promise!Grant
<1>2. ASSUME NEW c \in Callers, ConsumeFails(c) PROVE FALSE
  BY <1>0, <1>2 DEF ConsumeFails, Refilled, UpToFull
<1>3. ASSUME NEW c \in Callers, Call(c) \/ SleepEnds(c) \/ CallReturns(c) PROVE FALSE
  BY <1>3 DEF Call, SleepEnds, CallReturns, Refilled
<1>4. CASE AvailableTokens
  BY <1>0, <1>4 DEF AvailableTokens, Refilled, UpToFull
<1>5. CASE BucketTick
  <2>1. tokens \in 0 .. Full /\ since \in 0 .. Full
    BY DEF BucketTypeOK
  <2>2. tokens' = tokens /\ since' = UpToFull(since + 1)
    BY <1>5 DEF BucketTick
  <2>3. Refilled < Full /\ Refilled' = Refilled + 1
    BY <1>0, <2>1, <2>2 DEF Refilled, UpToFull
  <2> QED
    BY <2>3 DEF Promise!Next, Promise!Grows
<1>6. CASE UNCHANGED bucketVars
  BY <1>6 DEF bucketVars, Refilled
<1> QED
  BY <1>1, <1>2, <1>3, <1>4, <1>5, <1>6 DEF BucketNext, Thread

\* The lazy bucket implements the allowance.
THEOREM BucketKeepsPromise == BucketSpec => KeepsPromise
<1>1. BucketInit => Promise!Init
  BY BucketAssumption DEF BucketInit, Promise!Init, Refilled, UpToFull
<1>2. BucketTypeOK /\ [BucketNext]_bucketVars => [Promise!Next]_Refilled
  BY StepKeepsPromise
<1> QED
  BY <1>1, <1>2, BucketTypeCorrect, PTL DEF BucketSpec, KeepsPromise, Promise!Spec

-----------------------------------------------------------------------------
(* Settlement: an Event never serves two orders, and a new connection starts with   *)
(* empty stores.                                                                    *)

\* An Event is in the store for one order only, and whoever holds it waits for
\* that order.
OneOrder == \A o, p \in Orders : store[o] # 0 /\ store[o] = store[p] => o = p
EventHeld == \A w \in Waiters, o \in Orders :
          event[w] # 0 /\ event[w] = store[o] => target[w] = o

\* On a live connection, an Event is set only for a settled order.
StoreTrue == online => \A o \in Orders : store[o] \in fired => Settled(api, o)
EventTrue == online => \A w \in Waiters :
               home[w] = api /\ event[w] \in fired => Settled(api, target[w])

\* Only an Event that is set ends the wait.
Woken == \A w \in Waiters : pc[w] = "reading" => event[w] \in fired

\* All of these, with the types.
SettlementIInv == SettlementTypeOK /\ OneOrder /\ EventHeld /\ StoreTrue /\ EventTrue /\ Woken

\* A message once heard stays heard, so a settled order stays settled.
LEMMA SettledStays ==
  ASSUME NEW a, NEW o, heard \subseteq heard', Settled(a, o)
  PROVE  Settled(a, o)'
BY DEF Settled

\* No Event exists yet.
LEMMA SettlementInitial == SettlementInit => SettlementIInv
BY SettlementAssumption
   DEF SettlementInit, SettlementIInv, SettlementTypeOK, OneOrder, EventHeld, StoreTrue, EventTrue, Woken

\* The steps of a call: the only Event it adds to the store is a fresh one.
LEMMA CallerKeeps ==
  ASSUME SettlementIInv, NEW w \in Waiters, Caller(w)
  PROVE  SettlementIInv'
<1> USE SettlementAssumption DEF SettlementIInv
<1>0. target[w] \in Orders
  BY DEF SettlementTypeOK
<1>1. CASE Look(w)
  <2>1. SettlementTypeOK' /\ Woken'
    BY <1>0, <1>1 DEF Look, wsVars, SettlementTypeOK, Woken
  <2>2. OneOrder' /\ StoreTrue'
    BY <1>1 DEF Look, wsVars, OneOrder, StoreTrue, Settled
  <2>3. EventHeld'
    BY <1>0, <1>1 DEF Look, wsVars, SettlementTypeOK, OneOrder, EventHeld
  <2>4. EventTrue'
    BY <1>0, <1>1 DEF Look, wsVars, SettlementTypeOK, StoreTrue, EventTrue, Settled
  <2> QED
    BY <2>1, <2>2, <2>3, <2>4
<1>2. CASE Create(w)
  <2>1. /\ made' = made + 1 /\ made' \notin fired
        /\ \A o \in Orders : store[o] # made'
        /\ \A v \in Waiters : event[v] # made'
    BY <1>2 DEF Create, SettlementTypeOK
  <2>2. SettlementTypeOK' /\ Woken'
    <3>1. event' \in [Waiters -> 0 .. made'] /\ store' \in [Orders -> 0 .. made']
      BY <1>0, <1>2 DEF Create, SettlementTypeOK
    <3>2. fired' \in SUBSET (1 .. made') /\ made' \in Nat
      BY <1>2 DEF Create, SettlementTypeOK
    <3> QED
      BY <1>2, <3>1, <3>2 DEF Create, wsVars, SettlementTypeOK, Woken
  <2>3. OneOrder'
    BY <1>0, <1>2, <2>1 DEF Create, SettlementTypeOK, OneOrder
  <2>4. EventHeld'
    BY <1>0, <1>2, <2>1 DEF Create, wsVars, SettlementTypeOK, EventHeld
  <2>5. StoreTrue'
    BY <1>0, <1>2, <2>1 DEF Create, wsVars, SettlementTypeOK, StoreTrue, Settled
  <2>6. EventTrue'
    BY <1>0, <1>2, <2>1 DEF Create, wsVars, SettlementTypeOK, EventTrue, Settled
  <2> QED
    BY <2>2, <2>3, <2>4, <2>5, <2>6
<1>3. CASE Wakes(w) \/ TimesOut(w) \/ Reads(w)
  <2>1. SettlementTypeOK' /\ Woken'
    BY <1>3 DEF Wakes, TimesOut, Reads, wsVars, SettlementTypeOK, Woken
  <2>2. /\ UNCHANGED <<target, store, fired, made, heard, api, online, home>>
        /\ \A v \in Waiters : event'[v] = event[v]
    BY <1>3 DEF Wakes, TimesOut, Reads, wsVars, SettlementTypeOK
  <2>3. OneOrder' /\ EventHeld' /\ StoreTrue' /\ EventTrue'
    BY <2>2 DEF OneOrder, EventHeld, StoreTrue, EventTrue, Settled
  <2> QED
    BY <2>1, <2>3
<1>4. CASE Cleans(w)
  <2>1. SettlementTypeOK' /\ Woken'
    BY <1>0, <1>4 DEF Cleans, wsVars, SettlementTypeOK, Woken
  <2>2. OneOrder' /\ EventHeld'
    BY <1>0, <1>4 DEF Cleans, wsVars, SettlementTypeOK, OneOrder, EventHeld
  <2>3. 0 \notin fired
    BY DEF SettlementTypeOK
  <2>4. StoreTrue' /\ EventTrue'
    BY <1>0, <1>4, <2>3 DEF Cleans, wsVars, SettlementTypeOK, StoreTrue, EventTrue, Settled
  <2> QED
    BY <2>1, <2>2, <2>4
<1> QED
  BY <1>1, <1>2, <1>3, <1>4 DEF Caller

\* A message about order o sets the Event of o, which nobody holds for another.
LEMMA HandleKeeps ==
  ASSUME SettlementIInv, NEW o \in Orders, NEW kind \in Kind, Handle(o, kind)
  PROVE  SettlementIInv'
<1> USE SettlementAssumption DEF SettlementIInv
<1>1. /\ heard \subseteq heard' /\ Settled(api, o)'
      /\ api' = api /\ online' = online
      /\ UNCHANGED <<pc, event, home, ret, target>>
  BY DEF Handle, callVars, Settled
<1>2. /\ store'[o] \in 1 .. made' /\ fired' = fired \cup {store'[o]}
      /\ made' \in Nat /\ made <= made'
      /\ \A p \in Orders : p # o => store'[p] = store[p]
  BY DEF Handle, SettlementTypeOK
<1>3. \A p \in Orders : store'[p] = store'[o] => p = o
  BY <1>2 DEF Handle, SettlementTypeOK, OneOrder
<1>4. \A w \in Waiters : event[w] = store'[o] => target[w] = o
  BY <1>2 DEF Handle, SettlementTypeOK, EventHeld
<1>5. SettlementTypeOK' /\ Woken'
  <2>1. heard' \in SUBSET ((1 .. api') \X Orders \X Kind) /\ reports' \in [Orders -> Nat]
    BY DEF Handle, SettlementTypeOK, callVars
  <2>2. store' \in [Orders -> 0 .. made'] /\ event' \in [Waiters -> 0 .. made']
    BY <1>1, <1>2 DEF Handle, SettlementTypeOK
  <2>3. fired' \in SUBSET (1 .. made')
    <3>1. fired \subseteq 1 .. made /\ made \in Nat
      BY DEF SettlementTypeOK
    <3>2. \A e \in 1 .. made : e \in 1 .. made'
      BY <1>2, <3>1
    <3> QED
      BY <1>2, <3>1, <3>2
  <2> QED
    BY <1>1, <1>2, <2>1, <2>2, <2>3 DEF Handle, SettlementTypeOK, Woken
<1>6. OneOrder'
  BY <1>2, <1>3 DEF OneOrder
<1>7. EventHeld'
  BY <1>1, <1>2, <1>4 DEF EventHeld
<1>8. StoreTrue'
  BY <1>1, <1>2, <1>3, SettledStays DEF StoreTrue
<1>9. EventTrue'
  BY <1>1, <1>2, <1>4, SettledStays DEF EventTrue
<1> QED
  BY <1>5, <1>6, <1>7, <1>8, <1>9

\* The kill switch ends the connection; a new one starts with empty stores, to
\* which no call belongs yet.
LEMMA LinkKeeps == SettlementIInv /\ (OnClose \/ Connect) => SettlementIInv'
<1> SUFFICES ASSUME SettlementIInv, OnClose \/ Connect PROVE SettlementIInv'
  OBVIOUS
<1> USE SettlementAssumption DEF SettlementIInv
<1>1. CASE OnClose
  <2>1. fired' \in SUBSET (1 .. made)
    <3>1. fired \subseteq 1 .. made /\ made \in Nat /\ store \in [Orders -> 0 .. made]
      BY DEF SettlementTypeOK
    <3>2. \A e \in {store[o] : o \in Orders} \ {0} : e \in 1 .. made
      BY <3>1
    <3> QED
      BY <1>1, <3>1, <3>2 DEF OnClose
  <2>2. closes' \in 0 .. MaxCloses
    BY <1>1 DEF OnClose, SettlementTypeOK
  <2>3. SettlementTypeOK' /\ Woken'
    BY <1>1, <2>1, <2>2 DEF OnClose, callVars, SettlementTypeOK, Woken
  <2>4. OneOrder' /\ EventHeld' /\ StoreTrue' /\ EventTrue'
    BY <1>1 DEF OnClose, callVars, OneOrder, EventHeld, StoreTrue, EventTrue
  <2> QED
    BY <2>3, <2>4
<1>2. CASE Connect
  <2>1. api' = api + 1 /\ \A w \in Waiters : home'[w] # api'
    BY <1>2 DEF Connect, callVars, SettlementTypeOK
  <2>2. store' = [p \in Orders |-> 0] /\ fired' = fired /\ 0 \notin fired
    BY <1>2 DEF Connect, SettlementTypeOK
  <2>3. SettlementTypeOK' /\ Woken'
    BY <1>2, <2>1, <2>2 DEF Connect, callVars, SettlementTypeOK, Woken
  <2>4. OneOrder' /\ EventHeld' /\ StoreTrue' /\ EventTrue'
    BY <1>2, <2>1, <2>2 DEF Connect, callVars, OneOrder, EventHeld, StoreTrue, EventTrue
  <2> QED
    BY <2>3, <2>4
<1> QED
  BY <1>1, <1>2

\* Every step keeps the inductive invariant.
LEMMA SettlementInductive == SettlementIInv /\ [SettlementNext]_settlementVars => SettlementIInv'
<1> SUFFICES ASSUME SettlementIInv, [SettlementNext]_settlementVars PROVE SettlementIInv'
  OBVIOUS
<1>1. CASE UNCHANGED settlementVars
  BY <1>1 DEF settlementVars, SettlementIInv, SettlementTypeOK, OneOrder, EventHeld, StoreTrue, EventTrue, Woken, Settled
<1> QED
  BY <1>1, CallerKeeps, HandleKeeps, LinkKeeps DEF SettlementNext

\* Every variable of the settlement of orders keeps its type.
THEOREM SettlementTypeCorrect == SettlementSpec => []SettlementTypeOK
<1>1. SettlementIInv => SettlementTypeOK
  BY DEF SettlementIInv
<1>2. QED
  BY <1>1, SettlementInitial, SettlementInductive, PTL DEF SettlementSpec

\* While its connection lasts, check_win() wakes up only because its own order
\* was closed on this connection, however many calls wait for the same order
\* and however often the connection was lost before.
THEOREM NoFalseAlarm == SettlementSpec => []OwnWakeup
<1>1. SettlementIInv => OwnWakeup
  BY DEF SettlementIInv, EventTrue, Woken, OwnWakeup
<1>2. QED
  BY <1>1, SettlementInitial, SettlementInductive, PTL DEF SettlementSpec

\* A call that waits as the only one of its order holds the Event that the store has
\* for it.
LoneHolds ==
  \A w \in Waiters :
    pc[w] = "waiting" /\ home[w] = api /\ Alone(w) => event[w] # 0 /\ event[w] = store[target[w]]

\* Other calls change the entries of other orders, and a message never replaces an Event.
LEMMA LoneStays ==
  SettlementIInv /\ LoneHolds /\ [SettlementNext]_settlementVars => LoneHolds'
<1> SUFFICES ASSUME SettlementIInv, LoneHolds, [SettlementNext]_settlementVars PROVE LoneHolds'
  OBVIOUS
<1> USE SettlementAssumption
<1>1. /\ target \in [Waiters -> Orders] /\ store \in [Orders -> 0 .. made] /\ made \in Nat
      /\ api \in Nat \ {0} /\ home \in [Waiters -> 0 .. api]
      /\ pc \in [Waiters -> {"idle", "creating", "waiting", "reading", "leaving", "done"}]
      /\ event \in [Waiters -> 0 .. made]
  BY DEF SettlementIInv, SettlementTypeOK
<1>2. ASSUME NEW v \in Waiters, Look(v)
      PROVE  LoneHolds'
  BY <1>1, <1>2 DEF Look, wsVars, LoneHolds, Alone
<1>3. ASSUME NEW v \in Waiters, Create(v)
      PROVE  LoneHolds'
  <2> SUFFICES ASSUME NEW w \in Waiters, pc'[w] = "waiting", home'[w] = api', Alone(w)'
               PROVE  event'[w] # 0 /\ event'[w] = store'[target'[w]]
    BY DEF LoneHolds
  <2>1. target' = target /\ api' = api /\ home' = home /\ Alone(w)
    BY <1>3 DEF Create, wsVars, Alone
  <2>2. made' = made + 1 /\ made' # 0
    BY <1>1, <1>3 DEF Create
  <2>3. CASE v = w
    BY <1>1, <1>3, <2>1, <2>2, <2>3 DEF Create
  <2>4. CASE v # w
    <3>1. target[v] # target[w] /\ pc[w] = "waiting" /\ event'[w] = event[w]
      BY <1>1, <1>3, <2>1, <2>4 DEF Create, Alone
    <3>2. store'[target[w]] = store[target[w]]
      BY <1>1, <1>3, <3>1 DEF Create
    <3> QED
      BY <2>1, <3>1, <3>2 DEF LoneHolds
  <2> QED
    BY <2>3, <2>4
<1>4. ASSUME NEW v \in Waiters, Wakes(v) \/ TimesOut(v) \/ Reads(v)
      PROVE  LoneHolds'
  <2>1. /\ UNCHANGED <<target, store, api, home, event>>
        /\ \A w \in Waiters : pc'[w] = "waiting" => pc[w] = "waiting"
    BY <1>1, <1>4 DEF Wakes, TimesOut, Reads, wsVars
  <2> QED
    BY <2>1 DEF LoneHolds, Alone
<1>5. ASSUME NEW v \in Waiters, Cleans(v)
      PROVE  LoneHolds'
  <2> SUFFICES ASSUME NEW w \in Waiters, pc'[w] = "waiting", home'[w] = api', Alone(w)'
               PROVE  event'[w] # 0 /\ event'[w] = store'[target'[w]]
    BY DEF LoneHolds
  <2>1. /\ target' = target /\ api' = api /\ home' = home /\ event' = event /\ Alone(w)
        /\ pc[w] = "waiting" /\ v # w
    BY <1>1, <1>5 DEF Cleans, wsVars, Alone
  <2>2. target[v] # target[w]
    BY <2>1 DEF Alone
  <2>3. store'[target[w]] = store[target[w]]
    BY <1>1, <1>5, <2>2 DEF Cleans
  <2> QED
    BY <2>1, <2>3 DEF LoneHolds
<1>6. ASSUME NEW o \in Orders, NEW kind \in Kind, Handle(o, kind)
      PROVE  LoneHolds'
  <2>1. UNCHANGED <<target, pc, event, home, api>>
    BY <1>6 DEF Handle, callVars
  <2>2. \A p \in Orders : store[p] # 0 => store'[p] = store[p]
    BY <1>1, <1>6 DEF Handle
  <2> QED
    BY <1>1, <2>1, <2>2 DEF LoneHolds, Alone
<1>7. CASE OnClose
  BY <1>7 DEF OnClose, callVars, LoneHolds, Alone
<1>8. CASE Connect
  <2>1. \A w \in Waiters : home'[w] # api'
    BY <1>1, <1>8 DEF Connect, callVars
  <2> QED
    BY <2>1 DEF LoneHolds
<1>9. CASE UNCHANGED settlementVars
  BY <1>9 DEF settlementVars, LoneHolds, Alone
<1> QED
  BY <1>2, <1>3, <1>4, <1>5, <1>6, <1>7, <1>8, <1>9 DEF SettlementNext, Caller

\* When the connection is lost, the kill switch of on_close() frees every call that
\* waits as the only one of its order.
THEOREM KillSwitchReaches == SettlementSpec => KillSwitchFrees
<1>1. SettlementInit => LoneHolds
  BY DEF SettlementInit, LoneHolds
<1>2. /\ LoneHolds /\ SettlementTypeOK
      /\ [SettlementNext]_settlementVars
      => [online /\ ~online' =>
            \A w \in Waiters :
              pc[w] = "waiting" /\ home[w] = api /\ Alone(w) => event[w] \in fired']_settlementVars
  <2> SUFFICES ASSUME LoneHolds, SettlementTypeOK, [SettlementNext]_settlementVars, online, ~online',
                      NEW w \in Waiters, pc[w] = "waiting", home[w] = api, Alone(w)
               PROVE  event[w] \in fired'
    OBVIOUS
  <2>1. OnClose
    BY DEF SettlementNext, Caller, Look, Create, Wakes, TimesOut, Reads, Cleans, wsVars, Handle,
           Connect, settlementVars
  <2>2. event[w] # 0 /\ event[w] = store[target[w]] /\ target[w] \in Orders
    BY DEF LoneHolds, SettlementTypeOK
  <2> QED
    BY <2>1, <2>2 DEF OnClose
<1> QED
  BY <1>1, <1>2, SettlementInitial, SettlementInductive, SettlementTypeCorrect, LoneStays, PTL
     DEF SettlementSpec, KillSwitchFrees

-----------------------------------------------------------------------------
(* Expirations.  All candidates are whole minutes, the first of them more than half *)
(* a minute away and the quarters more than five: the closest one is found by       *)
(* arithmetic on how far they are.                                                  *)

\* The clocks, and that the last timeSync is never older than the server lets it be.
ExpirationIInv == ExpirationTypeOK /\ now - synced <= MaxLag

\* The least of a set of numbers is one of them.
LEMMA MinIsLeast ==
  ASSUME NEW S, S \subseteq Nat, S # {}
  PROVE  Min(S) \in S /\ \A x \in S : Min(S) <= x
BY LeastNumber DEF Min

\* A whole minute half a minute ahead of a second, and a quarter five minutes ahead.
MinuteAhead(t, f) ==
  /\ f \in Nat /\ f % 60 = 0
  /\ 30 < f - t /\ f - t <= 90
  /\ f - t = 90 => t % 60 = 30
  /\ t % 60 < 30 => f - t <= 60

QuarterAhead(t, q) ==
  /\ q \in Nat /\ q % 60 = 0
  /\ 300 < q - t /\ q - t <= 1200
  /\ q - t > 900 => q - t = 1800 - (t % 900)

\* Half a minute ahead of a second there is a first whole minute.
LEMMA FirstMinuteIs ==
  ASSUME NEW t \in Nat
  PROVE  MinuteAhead(t, FirstMinute(t))
BY DEF FirstMinute, MinuteOf, Minute, MinuteAhead

\* Five minutes ahead of a second there is a first quarter of an hour.
LEMMA FirstQuarterIs ==
  ASSUME NEW t \in Nat
  PROVE  QuarterAhead(t, FirstQuarter(t))
<1> DEFINE q(k) == Quarter * (t \div Quarter + k)
           S == {x \in {q(k) : k \in 0 .. 2} : x >= MinuteOf(t) /\ x - t > 5 * Minute}
<1>1. PICK b \in Nat, r \in 0 .. 899 : t = 900 * b + r /\ b = t \div 900 /\ r = t % 900
  BY SMTT(30)
<1>2. MinuteOf(t) <= t /\ MinuteOf(t) \in Nat
  BY DEF MinuteOf, Minute
<1>3. q(0) = 900 * b /\ q(1) = 900 * b + 900 /\ q(2) = 900 * b + 1800
  BY <1>1 DEF Quarter, Minute
<1>4. /\ q(0) \notin S /\ q(2) \in S
      /\ q(1) \in S <=> r < 600
      /\ S \subseteq {q(0), q(1), q(2)}
  BY <1>1, <1>2, <1>3 DEF Quarter, Minute
<1>5. FirstQuarter(t) = Min(S)
  BY DEF FirstQuarter
<1>6. S \subseteq Nat /\ S # {}
  BY <1>3, <1>4
<1> HIDE DEF q, S
<1>7. Min(S) \in S /\ \A x \in S : Min(S) <= x
  BY ZenonT(30), <1>6, MinIsLeast
<1>8. \A x \in Nat : (900 * x + 900) % 60 = 0 /\ (900 * x + 1800) % 60 = 0
  OBVIOUS
<1>9. CASE r < 600
  <2>1. FirstQuarter(t) = 900 * b + 900
    BY <1>1, <1>3, <1>4, <1>5, <1>7, <1>9
  <2>2. FirstQuarter(t) \in Nat /\ FirstQuarter(t) - t = 900 - r
    BY <1>1, <2>1
  <2> QED
    BY <1>8, <1>9, <2>1, <2>2 DEF QuarterAhead
<1>10. CASE r >= 600
  <2>1. FirstQuarter(t) = 900 * b + 1800
    BY <1>1, <1>3, <1>4, <1>5, <1>7, <1>10
  <2>2. FirstQuarter(t) \in Nat /\ FirstQuarter(t) - t = 1800 - r
    BY <1>1, <2>1
  <2>3. FirstQuarter(t) % 60 = 0
    BY <1>8, <2>1
  <2> QED
    <3>1. r = t % 900
      BY <1>1
    <3>2. FirstQuarter(t) - t = 1800 - (t % 900)
      BY <2>2, <3>1
    <3>3. 300 < FirstQuarter(t) - t /\ FirstQuarter(t) - t <= 1200
      BY <1>1, <1>10, <2>2
    <3> QED
      BY <2>2, <2>3, <3>2, <3>3 DEF QuarterAhead
<1> QED
  BY <1>1, <1>9, <1>10

\* A grid of five minutes, one after the other, and then quarters.
Grid(t, exp) ==
  /\ DOMAIN exp = 1 .. 5 + NumQuarters
  /\ \A k \in 1 .. 5 : exp[k] = FirstMinute(t) + 60 * (k - 1)
  /\ \A k \in 6 .. 5 + NumQuarters : exp[k] = FirstQuarter(t) + 900 * (k - 6)
  /\ \A k \in 1 .. 5 + NumQuarters : exp[k] \in Nat /\ exp[k] - t > 30

\* The candidates are such a grid.
LEMMA CandidatesAre ==
  ASSUME NEW t \in Nat
  PROVE  Grid(t, Candidates(t))
<1>1. NumQuarters \in Nat /\ NumQuarters >= 3
  BY ExpirationAssumption
<1>2. PICK f \in Nat : f = FirstMinute(t) /\ f - t > 30
  <2>1. MinuteAhead(t, FirstMinute(t))
    BY FirstMinuteIs
  <2> QED
    BY <2>1 DEF MinuteAhead
<1>3. PICK q \in Nat : q = FirstQuarter(t) /\ q - t > 30
  <2>1. QuarterAhead(t, FirstQuarter(t))
    BY FirstQuarterIs
  <2> QED
    BY <2>1 DEF QuarterAhead
<1>4. DOMAIN Candidates(t) = 1 .. 5 + NumQuarters
  BY DEF Candidates
<1>5. ASSUME NEW k \in 1 .. 5
      PROVE  Candidates(t)[k] = FirstMinute(t) + 60 * (k - 1)
  BY <1>1, <1>2 DEF Candidates, Minute
<1>6. ASSUME NEW k \in 6 .. 5 + NumQuarters
      PROVE  Candidates(t)[k] = FirstQuarter(t) + 900 * (k - 6)
  BY <1>1, <1>3 DEF Candidates, Minute, Quarter
<1>7. ASSUME NEW k \in 1 .. 5 + NumQuarters
      PROVE  Candidates(t)[k] \in Nat /\ Candidates(t)[k] - t > 30
  <2>1. CASE k \in 1 .. 5
    BY <1>5, <1>2, <2>1
  <2>2. CASE k \in 6 .. 5 + NumQuarters
    BY <1>6, <1>3, <1>1, <2>2
  <2> QED
    BY <1>1, <2>1, <2>2
<1> QED
  BY <1>4, <1>5, <1>6, <1>7 DEF Grid

\* Of the grid exp entry K is the closest to a second, and the first that is as close.
FirstClosest(exp, second, K) ==
  /\ K \in 1 .. 5 + NumQuarters
  /\ \A k \in 1 .. 5 + NumQuarters :
       /\ Abs(exp[K] - second) <= Abs(exp[k] - second)
       /\ Abs(exp[k] - second) = Abs(exp[K] - second) => K <= k

\* An order of d minutes is given the first of the candidates that are closest to the
\* second it asked for, by the local clock.
LEMMA ClosestIs ==
  ASSUME NEW t \in Nat, NEW d \in Nat, localTime \in Int
  PROVE  FirstClosest(Candidates(t), localTime + 60 * d, Closest(t, d))
<1> DEFINE close == Closeness(t, d)
           best == {k \in DOMAIN close : \A j \in DOMAIN close : close[k] <= close[j]}
           Values == {close[k] : k \in DOMAIN close}
<1>1. PICK exp : exp = Candidates(t)
  OBVIOUS
<1>2. /\ DOMAIN exp = 1 .. 5 + NumQuarters
      /\ \A k \in 1 .. 5 + NumQuarters : exp[k] \in Nat
  <2>1. Grid(t, exp)
    BY <1>1, CandidatesAre
  <2> QED
    BY <2>1 DEF Grid
<1>3. DOMAIN close = 1 .. 5 + NumQuarters
  BY <1>1, <1>2 DEF Closeness
<1>4. \A k \in 1 .. 5 + NumQuarters : close[k] = Abs(exp[k] - localTime - 60 * d)
  BY <1>1, <1>2 DEF Closeness, Minute
<1>5. PICK second \in Int : second = localTime + 60 * d
  OBVIOUS
<1>6. \A k \in 1 .. 5 + NumQuarters : close[k] = Abs(exp[k] - second) /\ close[k] \in Nat
  <2> SUFFICES ASSUME NEW k \in 1 .. 5 + NumQuarters
               PROVE  close[k] = Abs(exp[k] - second) /\ close[k] \in Nat
    OBVIOUS
  <2>1. exp[k] \in Nat /\ close[k] = Abs(exp[k] - localTime - 60 * d)
    BY <1>2, <1>4
  <2>2. exp[k] - localTime - 60 * d = exp[k] - second
    BY <1>5, <2>1
  <2>3. Abs(exp[k] - second) \in Nat
    BY <2>1 DEF Abs
  <2> QED
    BY <2>1, <2>2, <2>3
<1> HIDE DEF close
<1>7. 1 \in DOMAIN close
  BY <1>3, ExpirationAssumption
<1>8. PICK v \in Values : \A w \in Values : v <= w
  <2>1. Values \subseteq Nat /\ Values # {}
    BY <1>3, <1>6, <1>7
  <2> HIDE DEF Values
  <2> QED
    BY <2>1, LeastNumber
<1>9. PICK k0 \in DOMAIN close : \A j \in DOMAIN close : close[k0] <= close[j]
  BY <1>8
<1>10. best \subseteq Nat /\ best # {}
  BY <1>3, <1>9
<1>11. PICK K : K = Closest(t, d)
  OBVIOUS
<1>12. K = Min(best)
  BY <1>11 DEF Closest, close
<1>13. K \in best /\ \A x \in best : K <= x
  <2> HIDE DEF best
  <2> QED
    BY <1>10, <1>12, MinIsLeast
<1>14. \A k \in DOMAIN close : close[k] = close[K] => k \in best
  BY <1>13
<1>15. FirstClosest(exp, second, K)
  BY <1>3, <1>6, <1>13, <1>14 DEF FirstClosest
<1> QED
  BY <1>1, <1>5, <1>11, <1>15

\* The clocks as the invariant has them: the last timeSync, the local clock and how
\* far it is ahead.
LEMMA ClocksAre ==
  ASSUME ExpirationIInv
  PROVE  /\ synced \in Nat /\ now \in Nat /\ skew \in Int /\ MaxLag \in Nat
         /\ synced <= now /\ now - synced <= MaxLag
         /\ localTime \in Int /\ offset \in Int /\ localTime = synced + offset
BY ExpirationAssumption DEF ExpirationIInv, ExpirationTypeOK, localTime, offset

\* The grid has a candidate near every expiry that is asked for.
LEMMA GridIsNear ==
  ASSUME NEW t \in Nat, NEW d \in Durations, NEW exp, Grid(t, exp)
  PROVE  \E k \in 1 .. 5 + NumQuarters :
           Abs(exp[k] - t - 60 * d) <= IF d \in Turbo THEN 30 ELSE 450
<1>1. d \in {1, 2, 3, 4, 5, 15, 30} /\ NumQuarters \in Nat /\ NumQuarters >= 3
  BY ExpirationAssumption
<1>2. /\ FirstMinute(t) \in Nat /\ 30 < FirstMinute(t) - t /\ FirstMinute(t) - t <= 90
      /\ FirstQuarter(t) \in Nat /\ 300 < FirstQuarter(t) - t /\ FirstQuarter(t) - t <= 1200
  <2>1. MinuteAhead(t, FirstMinute(t)) /\ QuarterAhead(t, FirstQuarter(t))
    BY FirstMinuteIs, FirstQuarterIs
  <2> QED
    BY <2>1 DEF MinuteAhead, QuarterAhead
<1>3. CASE d <= 5
  <2>1. d \in 1 .. 5 /\ d \in 1 .. 5 + NumQuarters /\ d \in Turbo
    BY <1>1, <1>3 DEF Turbo
  <2>2. exp[d] = FirstMinute(t) + 60 * (d - 1)
    BY <2>1 DEF Grid
  <2>3. Abs(exp[d] - t - 60 * d) <= 30
    BY <1>2, <2>1, <2>2 DEF Abs
  <2> QED
    BY <2>1, <2>3
<1>4. CASE d > 5
  <2>1. d \in {15, 30} /\ d \notin Turbo
    BY <1>1, <1>4 DEF Turbo
  <2>2. \A k \in 6 .. 5 + NumQuarters : exp[k] = FirstQuarter(t) + 900 * (k - 6)
    BY DEF Grid
  <2>3. {6, 7, 8} \subseteq 6 .. 5 + NumQuarters /\ {6, 7, 8} \subseteq 1 .. 5 + NumQuarters
    BY <1>1
  <2>4. /\ 6 \in 1 .. 5 + NumQuarters /\ 7 \in 1 .. 5 + NumQuarters /\ 8 \in 1 .. 5 + NumQuarters
        /\ exp[6] = FirstQuarter(t)
        /\ exp[7] = FirstQuarter(t) + 900
        /\ exp[8] = FirstQuarter(t) + 1800
    BY <1>2, <2>2, <2>3
  <2>5. \/ Abs(exp[6] - t - 60 * d) <= 450
        \/ Abs(exp[7] - t - 60 * d) <= 450
        \/ Abs(exp[8] - t - 60 * d) <= 450
    BY <1>2, <2>1, <2>4 DEF Abs
  <2> QED
    BY <2>1, <2>4, <2>5
<1> QED
  BY <1>1, <1>3, <1>4

\* The expiry is near.
LEMMA ExpiryNear ==
  ASSUME ExpirationIInv
  PROVE  ExpiryIsNear
<1> SUFFICES ASSUME NEW d \in Durations, NEW exp, exp = get_expiration_time(synced, d)
             PROVE  /\ exp - now > 30 - MaxLag
                    /\ Abs(exp - synced - Minute * d) <= (IF d \in Turbo THEN 30 ELSE 450) + 2 * Abs(offset)
  BY DEF ExpiryIsNear
<1>1. /\ synced \in Nat /\ now \in Nat /\ MaxLag \in Nat
      /\ now - synced <= MaxLag
      /\ localTime \in Int /\ offset \in Int /\ localTime = synced + offset
  BY ClocksAre
<1>2. d \in Nat
  BY ExpirationAssumption
<1>3. PICK grid, K : /\ Grid(synced, grid) /\ FirstClosest(grid, localTime + 60 * d, K)
                      /\ exp = grid[K]
  BY <1>1, <1>2, CandidatesAre, ClosestIs DEF get_expiration_time
<1>4. exp \in Nat /\ exp - synced > 30
  BY <1>3 DEF Grid, FirstClosest
<1>5. PICK k \in 1 .. 5 + NumQuarters :
        Abs(grid[k] - synced - 60 * d) <= IF d \in Turbo THEN 30 ELSE 450
  <2> HIDE DEF Turbo
  <2> QED
    BY <1>1, <1>3, GridIsNear
<1>6. PICK c \in Nat : c = grid[k]
  BY <1>3 DEF Grid
<1>7. Abs(exp - (localTime + 60 * d)) <= Abs(c - (localTime + 60 * d))
  BY <1>3, <1>6 DEF FirstClosest
<1>8. Abs(exp - synced - 60 * d) <= Abs(c - synced - 60 * d) + 2 * Abs(offset)
  BY <1>1, <1>2, <1>4, <1>7 DEF Abs
<1>9. /\ Abs(exp - synced - 60 * d) \in Nat /\ Abs(offset) \in Nat
      /\ Abs(c - synced - 60 * d) \in Nat
  BY <1>1, <1>2, <1>4 DEF Abs
<1>10. exp - now > 30 - MaxLag
  BY <1>1, <1>4
<1>11. PICK near \in Nat : near = IF d \in Turbo THEN 30 ELSE 450
  OBVIOUS
<1>12. Abs(exp - synced - 60 * d) <= near + 2 * Abs(offset)
  BY <1>5, <1>6, <1>8, <1>9, <1>11
<1> QED
  BY <1>10, <1>11, <1>12 DEF Minute

\* Minutes and quarters are equal or a minute apart.
LEMMA WholeMinutes ==
  ASSUME NEW x \in Nat, NEW y \in Nat, x % 60 = 0, y % 60 = 0
  PROVE  x < y => x + 60 <= y
OBVIOUS

\* A quarter is a whole minute.
LEMMA WholeQuarters ==
  ASSUME NEW x \in Nat, x % 60 = 0, NEW k \in Nat
  PROVE  (x + 900 * k) % 60 = 0 /\ (x + 60 * k) % 60 = 0
OBVIOUS

\* The last of the minutes and the first quarter: between them lies at most what half
\* of a quarter leaves, and where the quarter is among the minutes it is the last.
LEMMA MinuteAndQuarter ==
  ASSUME NEW t \in Nat, NEW m, MinuteAhead(t, m), NEW q, QuarterAhead(t, q)
  PROVE  /\ m \in Nat /\ q \in Nat
         /\ q <= m + 240 => q = m + 240
         /\ q > m + 240 => q + (m + 240) <= 2 * t + 1500
         /\ m + 240 >= t + 271 /\ m + 240 <= t + 330 /\ q >= t + 301
<1>1. m \in Nat /\ m % 60 = 0 /\ 30 < m - t /\ m - t <= 90 /\ (t % 60 < 30 => m - t <= 60)
  BY DEF MinuteAhead
<1>2. /\ q \in Nat /\ q % 60 = 0 /\ 300 < q - t /\ q - t <= 1200
      /\ q - t > 900 => q - t = 1800 - (t % 900)
  BY DEF QuarterAhead
<1>3. q <= m + 240 => q = m + 240
  BY <1>1, <1>2
<1>4. ASSUME q - t > 900
      PROVE  q + (m + 240) <= 2 * t + 1500
  <2>1. PICK r \in Nat : r = t % 900
    OBVIOUS
  <2>2. t % 60 = r % 60
    BY <2>1
  <2>3. q - t = 1800 - r /\ r >= 600 /\ r < 900
    BY <1>2, <1>4, <2>1
  <2>4. CASE r < 630
    <3>1. t % 60 < 30
      BY <2>2, <2>3, <2>4
    <3>2. m - t <= 60
      BY <1>1, <3>1
    <3> QED
      BY <1>1, <1>2, <2>3, <3>2
  <2>5. CASE r >= 630
    BY <1>1, <1>2, <2>3, <2>5
  <2> QED
    BY <2>3, <2>4, <2>5
<1>5. q - t <= 900 => q + (m + 240) <= 2 * t + 1500
  BY <1>1, <1>2
<1> QED
  BY <1>1, <1>2, <1>3, <1>4, <1>5

\* An order of up to five minutes gets one of the minutes, unless the local clock is
\* ahead by more than a second.
LEMMA TurboIsMinute ==
  ASSUME NEW t \in Nat, NEW d \in 1 .. 5, NEW o \in Int, o <= 1,
         NEW exp, Grid(t, exp), NEW K, FirstClosest(exp, t + o + 60 * d, K)
  PROVE  K <= 5
<1> SUFFICES ASSUME K > 5 PROVE FALSE
  BY DEF FirstClosest
<1>1. PICK s \in Int : s = t + o + 60 * d /\ s <= t + 301
  OBVIOUS
<1>2. PICK m, q : m = FirstMinute(t) /\ q = FirstQuarter(t)
  OBVIOUS
<1>3. /\ m \in Nat /\ q \in Nat
      /\ q <= m + 240 => q = m + 240
      /\ m + 240 >= t + 271 /\ q >= t + 301
  BY <1>2, FirstMinuteIs, FirstQuarterIs, MinuteAndQuarter
<1>4. m % 60 = 0 /\ q % 60 = 0
  <2>1. MinuteAhead(t, m) /\ QuarterAhead(t, q)
    BY <1>2, FirstMinuteIs, FirstQuarterIs
  <2> QED
    BY <2>1 DEF MinuteAhead, QuarterAhead
<1>5. NumQuarters \in Nat /\ K \in 1 .. 5 + NumQuarters /\ K \in 6 .. 5 + NumQuarters
  BY ExpirationAssumption DEF FirstClosest
<1>6. exp[5] = m + 240
  <2>1. exp[5] = FirstMinute(t) + 60 * (5 - 1)
    BY DEF Grid
  <2> QED
    BY <1>2, <1>3, <2>1
<1>7. exp[K] = q + 900 * (K - 6)
  BY <1>2, <1>5 DEF Grid
<1>8. PICK a \in Nat, b \in Nat : a = exp[5] /\ b = exp[K] /\ b % 60 = 0 /\ a % 60 = 0 /\ a <= b
                              /\ a >= t + 271 /\ b >= t + 301
  <2>1. K - 6 \in Nat /\ 900 * (K - 6) \in Nat
    BY <1>5
  <2>2. (q + 900 * (K - 6)) % 60 = 0 /\ (m + 60 * 4) % 60 = 0
    BY <1>3, <1>4, <2>1, WholeQuarters
  <2>3. m + 240 \in Nat /\ q + 900 * (K - 6) \in Nat /\ m + 240 <= q + 900 * (K - 6)
    BY <1>3, <2>1
  <2>4. m + 60 * 4 = m + 240
    BY <1>3
  <2>5. q + 900 * (K - 6) >= t + 301
    BY <1>3, <2>1
  <2> QED
    BY <1>3, <1>6, <1>7, <2>2, <2>3, <2>4, <2>5
<1>9. Abs(a - s) <= Abs(b - s)
  <2>1. CASE a = b
    BY <2>1 DEF Abs
  <2>2. CASE a < b
    <3>1. a + 60 <= b
      BY <1>8, <2>2, WholeMinutes
    <3> QED
      BY <1>1, <1>8, <3>1 DEF Abs
  <2> QED
    BY <1>8, <2>1, <2>2
<1>10. /\ Abs(b - s) <= Abs(a - s)
       /\ Abs(a - s) = Abs(b - s) => K <= 5
  <2>1. 5 \in 1 .. 5 + NumQuarters
    BY <1>5
  <2> QED
    BY <1>1, <1>8, <2>1 DEF FirstClosest
<1>11. Abs(a - s) \in Nat /\ Abs(b - s) \in Nat
  BY DEF Abs
<1> QED
  BY <1>5, <1>9, <1>10, <1>11

\* An order of fifteen or thirty minutes gets a quarter, unless the local clock is two
\* minutes behind.
LEMMA BinaryIsQuarter ==
  ASSUME NEW t \in Nat, NEW d \in {15, 30}, NEW o \in Int, o > -120,
         NEW exp, Grid(t, exp), NEW K, FirstClosest(exp, t + o + 60 * d, K)
  PROVE  K > 5
<1> SUFFICES ASSUME ~ (K > 5) PROVE FALSE
  OBVIOUS
<1>1. PICK s \in Int : s = t + o + 60 * d /\ s > t + 780
  OBVIOUS
<1>2. PICK m, q : m = FirstMinute(t) /\ q = FirstQuarter(t)
  OBVIOUS
<1>3. /\ m \in Nat /\ q \in Nat
      /\ q <= m + 240 => q = m + 240
      /\ q > m + 240 => q + (m + 240) <= 2 * t + 1500
      /\ m + 240 <= t + 330
  BY SMTT(30), <1>2, FirstMinuteIs, FirstQuarterIs, MinuteAndQuarter
<1>4. NumQuarters \in Nat /\ NumQuarters >= 3 /\ K \in 1 .. 5
  BY ExpirationAssumption DEF FirstClosest
<1>5. exp[K] = m + 60 * (K - 1)
  BY ZenonT(30), <1>2, <1>4 DEF Grid
<1>6. exp[6] = q /\ exp[7] = q + 900
  <2>1. \A k \in 6 .. 5 + NumQuarters : exp[k] = FirstQuarter(t) + 900 * (k - 6)
    BY DEF Grid
  <2>2. {6, 7} \subseteq 6 .. 5 + NumQuarters
    BY <1>4
  <2> QED
    BY <1>2, <1>3, <2>1, <2>2
<1>7. PICK a \in Nat : a = exp[K] /\ a <= m + 240
  BY <1>3, <1>4, <1>5
<1>8. Abs(a - s) <= Abs(q - s) /\ Abs(a - s) <= Abs(q + 900 - s)
  <2>1. {6, 7} \subseteq 1 .. 5 + NumQuarters
    BY <1>4
  <2>2. \A k \in 1 .. 5 + NumQuarters : Abs(a - s) <= Abs(exp[k] - s)
    BY <1>1, <1>7 DEF FirstClosest
  <2>3. PICK x \in Nat, y \in Nat : x = exp[6] /\ y = exp[7]
    BY <1>3, <1>6
  <2>4. Abs(a - s) <= Abs(x - s) /\ Abs(a - s) <= Abs(y - s)
    BY <2>1, <2>2, <2>3
  <2>5. x = q /\ y = q + 900
    BY <1>6, <2>3
  <2> QED
    BY <1>3, <2>4, <2>5
<1>9. CASE q = m + 240
  BY <1>1, <1>3, <1>7, <1>8, <1>9 DEF Abs
<1>10. CASE q > m + 240
  BY <1>1, <1>3, <1>7, <1>8, <1>10 DEF Abs
<1> QED
  BY <1>3, <1>9, <1>10

\* The kind of option is right.
LEMMA KindRight ==
  ASSUME ExpirationIInv
  PROVE  KindIsRight
<1> SUFFICES ASSUME offset \in -119 .. 1, NEW d \in Durations
             PROVE  OptionKind(synced, d) = IF d \in Turbo THEN "turbo" ELSE "binary"
  BY DEF KindIsRight
<1>1. synced \in Nat /\ localTime \in Int /\ localTime = synced + offset
  BY ClocksAre
<1>2. d \in {1, 2, 3, 4, 5, 15, 30}
  BY ExpirationAssumption
<1>3. PICK exp, K : /\ Grid(synced, exp) /\ K = Closest(synced, d)
                    /\ FirstClosest(exp, synced + offset + 60 * d, K)
  BY <1>1, <1>2, CandidatesAre, ClosestIs
<1>4. CASE d <= 5
  <2>1. d \in 1 .. 5 /\ d \in Turbo
    BY <1>2, <1>4 DEF Turbo
  <2>2. PICK o \in Int : o = offset /\ o <= 1
    OBVIOUS
  <2>3. K <= 5
    BY <1>1, <1>3, <2>1, <2>2, TurboIsMinute
  <2> QED
    BY <1>3, <2>1, <2>3 DEF OptionKind
<1>5. CASE d > 5
  <2>1. d \in {15, 30} /\ d \notin Turbo
    BY <1>2, <1>5 DEF Turbo
  <2>2. PICK o \in Int : o = offset /\ o > -120
    OBVIOUS
  <2>3. K > 5
    BY <1>1, <1>3, <2>1, <2>2, BinaryIsQuarter
  <2>4. ~ (K <= 5)
    BY <2>3, <1>3, ExpirationAssumption DEF FirstClosest
  <2> QED
    BY <1>3, <2>1, <2>4 DEF OptionKind
<1> QED
  BY <1>2, <1>4, <1>5

\* With the clocks in step an order of up to five minutes gets the minute of its label.
LEMMA TurboIsOwnMinute ==
  ASSUME NEW t \in Nat, t % 60 # 30, NEW d \in 1 .. 5,
         NEW exp, Grid(t, exp), NEW K, FirstClosest(exp, t + 60 * d, K)
  PROVE  exp[K] = exp[d]
<1>1. PICK s \in Nat : s = t + 60 * d
  OBVIOUS
<1>2. PICK m, q : m = FirstMinute(t) /\ q = FirstQuarter(t)
  OBVIOUS
<1>3. /\ m \in Nat /\ m % 60 = 0 /\ q \in Nat /\ q % 60 = 0
      /\ 30 < m - t /\ m - t < 90
  <2>1. MinuteAhead(t, m) /\ QuarterAhead(t, q)
    BY <1>2, FirstMinuteIs, FirstQuarterIs
  <2> QED
    BY <2>1 DEF MinuteAhead, QuarterAhead
<1>4. NumQuarters \in Nat /\ K \in 1 .. 5 + NumQuarters
  BY ExpirationAssumption DEF FirstClosest
<1>5. \A k \in 1 .. 5 + NumQuarters : exp[k] \in Nat /\ exp[k] % 60 = 0
  <2> SUFFICES ASSUME NEW k \in 1 .. 5 + NumQuarters
               PROVE  exp[k] \in Nat /\ exp[k] % 60 = 0
    OBVIOUS
  <2>1. CASE k \in 1 .. 5
    <3>1. k - 1 \in Nat /\ exp[k] = m + 60 * (k - 1)
      BY <1>2, <2>1 DEF Grid
    <3> QED
      BY <1>3, <3>1, WholeQuarters
  <2>2. CASE k \in 6 .. 5 + NumQuarters
    <3>1. k - 6 \in Nat /\ exp[k] = q + 900 * (k - 6)
      BY <1>2, <1>4, <2>2 DEF Grid
    <3> QED
      BY <1>3, <3>1, WholeQuarters
  <2> QED
    BY <1>4, <2>1, <2>2
<1>6. exp[d] = m + 60 * (d - 1) /\ d \in 1 .. 5 + NumQuarters
  <2>1. \A k \in 1 .. 5 : exp[k] = FirstMinute(t) + 60 * (k - 1)
    BY DEF Grid
  <2>2. d \in 1 .. 5 + NumQuarters
    BY <1>4
  <2> QED
    BY <1>2, <2>1, <2>2
<1>7. PICK a \in Nat, b \in Nat : a = exp[d] /\ b = exp[K] /\ a % 60 = 0 /\ b % 60 = 0
  BY <1>4, <1>5, <1>6
<1>8. Abs(b - s) <= Abs(a - s)
  BY <1>1, <1>6, <1>7 DEF FirstClosest
<1>9. Abs(a - s) < 30
  BY <1>1, <1>3, <1>6, <1>7 DEF Abs
<1>10. a < b => a + 60 <= b
  BY <1>7, WholeMinutes
<1>11. b < a => b + 60 <= a
  BY <1>7, WholeMinutes
<1>12. a = b
  BY <1>1, <1>8, <1>9, <1>10, <1>11 DEF Abs
<1> QED
  BY <1>7, <1>12

\* get_remaning() tells the time to that minute.
LEMMA RemainingRight ==
  ASSUME ExpirationIInv
  PROVE  RemainingAgrees
<1> SUFFICES ASSUME offset = 0, synced % Minute # 30, NEW d \in Turbo
             PROVE  RemainingOf(synced, d) = get_expiration_time(synced, d) - localTime
  BY DEF RemainingAgrees
<1>1. synced \in Nat /\ localTime \in Int /\ localTime = synced
  BY ClocksAre
<1>2. d \in 1 .. 5
  BY ExpirationAssumption DEF Turbo
<1>3. PICK exp : exp = Candidates(synced) /\ Grid(synced, exp)
  BY <1>1, CandidatesAre
<1>4. FirstClosest(exp, synced + 60 * d, Closest(synced, d))
  BY <1>1, <1>2, <1>3, ClosestIs
<1>5. get_expiration_time(synced, d) = exp[d]
  <2>1. synced % 60 # 30
    BY DEF Minute
  <2>2. exp[Closest(synced, d)] = exp[d]
    BY <1>1, <1>2, <1>3, <1>4, <2>1, TurboIsOwnMinute
  <2> QED
    BY <1>3, <2>2 DEF get_expiration_time
<1>6. RemainingOf(synced, d) = exp[d] - localTime
  <2> DEFINE dr(k) == IF k > 5 THEN 15 * (k - 5) ELSE k
             k == CHOOSE i \in DOMAIN exp : dr(i) = d
  <2>1. NumQuarters \in Nat /\ DOMAIN exp = 1 .. 5 + NumQuarters
    BY <1>3, ExpirationAssumption DEF Grid
  <2>2. d \in DOMAIN exp /\ dr(d) = d
    BY <1>2, <2>1
  <2>3. \A i \in DOMAIN exp : dr(i) = d => i = d
    BY <1>2, <2>1
  <2> HIDE DEF dr
  <2>4. k = d
    BY <2>2, <2>3
  <2>5. RemainingOf(synced, d) = exp[k] - localTime
    BY <1>3 DEF RemainingOf, dr
  <2> QED
    BY <2>4, <2>5
<1> QED
  BY <1>5, <1>6

\* Of the minutes to come one within the duration is a multiple of it.
LEMMA NextMultiple ==
  ASSUME NEW m \in Nat, NEW d \in {2, 3, 4, 5}
  PROVE  \E n \in 0 .. d - 1 : (m + 1 + n) % d = 0
<1>1. CASE d = 2
  <2>1. (m + 1 + 0) % 2 = 0 \/ (m + 1 + 1) % 2 = 0
    OBVIOUS
  <2> QED
    BY <1>1, <2>1
<1>2. CASE d = 3
  <2>1. (m + 1 + 0) % 3 = 0 \/ (m + 1 + 1) % 3 = 0 \/ (m + 1 + 2) % 3 = 0
    OBVIOUS
  <2> QED
    BY <1>2, <2>1
<1>3. CASE d = 4
  <2>1. \/ (m + 1 + 0) % 4 = 0 \/ (m + 1 + 1) % 4 = 0
        \/ (m + 1 + 2) % 4 = 0 \/ (m + 1 + 3) % 4 = 0
    OBVIOUS
  <2> QED
    BY <1>3, <2>1
<1>4. CASE d = 5
  <2>1. \/ (m + 1 + 0) % 5 = 0 \/ (m + 1 + 1) % 5 = 0 \/ (m + 1 + 2) % 5 = 0
        \/ (m + 1 + 3) % 5 = 0 \/ (m + 1 + 4) % 5 = 0
    OBVIOUS
  <2> QED
    BY <1>4, <2>1
<1> QED
  BY <1>1, <1>2, <1>3, <1>4

\* A minute that is a multiple of the duration is a second that is one.
LEMMA MultipleInSeconds ==
  ASSUME NEW x \in Nat, NEW d \in {2, 3, 4, 5}, x % d = 0
  PROVE  (60 * x) % (60 * d) = 0
<1>1. CASE d = 2
  <2>1. (60 * x) % 120 = 0
    BY <1>1
  <2> QED
    BY <1>1, <2>1
<1>2. CASE d = 3
  <2>1. (60 * x) % 180 = 0
    BY <1>2
  <2> QED
    BY <1>2, <2>1
<1>3. CASE d = 4
  <2>1. (60 * x) % 240 = 0
    BY <1>3
  <2> QED
    BY <1>3, <2>1
<1>4. CASE d = 5
  <2>1. (60 * x) % 300 = 0
    BY <1>4
  <2> QED
    BY <1>4, <2>1
<1> QED
  BY <1>1, <1>2, <1>3, <1>4

\* A digital option expires on the next multiple of its duration.
LEMMA DigitalRight ==
  ASSUME ExpirationIInv
  PROVE  DigitalOnTheMark
<1> SUFFICES ASSUME NEW d \in Turbo \ {1}, NEW exp, exp = DigitalExpiry(ClockNow, d)
             PROVE  exp % (Minute * d) = 0 /\ exp - now \in 1 .. Minute * d
  BY DEF DigitalOnTheMark
<1>1. now \in Nat /\ d \in {2, 3, 4, 5}
  BY ClocksAre, ExpirationAssumption DEF Turbo
<1>2. ClockNow = now
  BY ClocksAre DEF ClockNow, localTime
<1>3. PICK m \in Nat, r \in 0 .. 59 : now = 60 * m + r /\ MinuteOf(now) = 60 * m
  BY <1>1 DEF MinuteOf, Minute
<1> DEFINE date(n) == MinuteOf(now) + 90 + Minute * n
           fits(n) == (date(n) \div Minute) % d = 0 /\ date(n) - now > 30
           Fitting == {i \in 0 .. 99 : fits(i)}
<1>4. ASSUME NEW n \in 0 .. 99
      PROVE  /\ date(n) \div 60 = m + 1 + n /\ date(n) - now > 30
             /\ MinuteOf(date(n)) = 60 * (m + 1 + n)
  <2>1. date(n) = 60 * (m + 1 + n) + 30 /\ m + 1 + n \in Nat
    BY <1>3 DEF Minute
  <2>2. \A x \in Nat : (60 * x + 30) \div 60 = x /\ (60 * x + 30) % 60 = 30
    OBVIOUS
  <2>3. date(n) \div 60 = m + 1 + n /\ date(n) % 60 = 30
    BY <2>1, <2>2
  <2>4. date(n) - now > 30
    BY <1>3, <2>1
  <2>5. MinuteOf(date(n)) = 60 * (m + 1 + n)
    BY <2>1, <2>3 DEF MinuteOf, Minute
  <2> QED
    BY <2>3, <2>4, <2>5
<1>5. \A n \in 0 .. 99 : n \in Fitting <=> (m + 1 + n) % d = 0
  BY <1>4 DEF Minute
<1>6. PICK n0 \in 0 .. d - 1 : (m + 1 + n0) % d = 0
  BY <1>1, NextMultiple
<1>7. n0 \in Fitting /\ Fitting \subseteq 0 .. 99
  BY <1>1, <1>5, <1>6
<1>8. PICK n : n = Min(Fitting)
  OBVIOUS
<1>9. exp = MinuteOf(date(n))
  BY <1>2, <1>8 DEF DigitalExpiry
<1> HIDE DEF Fitting, date, fits
<1>10. n \in Fitting /\ n <= n0
  <2>1. Fitting \subseteq Nat /\ Fitting # {}
    BY <1>7
  <2> QED
    BY <1>7, <1>8, <2>1, MinIsLeast
<1>11. n \in 0 .. 99 /\ n <= d - 1 /\ (m + 1 + n) % d = 0
  BY <1>1, <1>5, <1>6, <1>7, <1>10
<1>12. exp = 60 * (m + 1 + n) /\ m + 1 + n \in Nat
  BY <1>3, <1>4, <1>9, <1>11
<1>13. exp % (60 * d) = 0
  BY <1>1, <1>11, <1>12, MultipleInSeconds
<1>14. exp - now >= 1 /\ exp - now <= 60 * d
  BY <1>1, <1>3, <1>11, <1>12
<1>15. exp - now \in Int
  BY <1>1, <1>12
<1> QED
  BY <1>1, <1>13, <1>14, <1>15 DEF Minute

\* Every option gets the expiry that was asked for, for any skew of the local clock and
\* any lag of the server's messages.
THEOREM ExpiryIsAsAsked == ExpirationSpec => [](ExpirationTypeOK /\ ExpiryIsAsked)
<1>1. ExpirationInit => ExpirationIInv
  BY ExpirationAssumption DEF ExpirationInit, ExpirationIInv, ExpirationTypeOK
<1>2. ExpirationIInv /\ [ExpirationNext]_expirationVars => ExpirationIInv'
  <2> SUFFICES ASSUME ExpirationIInv, [ExpirationNext]_expirationVars
               PROVE  ExpirationIInv'
    OBVIOUS
  <2>1. MaxLag \in Nat /\ LastSecond \in Nat
    BY ExpirationAssumption
  <2>2. CASE Second
    BY <2>1, <2>2 DEF Second, ExpirationIInv, ExpirationTypeOK
  <2>3. CASE TimeSync
    BY <2>1, <2>3 DEF TimeSync, ExpirationIInv, ExpirationTypeOK
  <2>4. CASE UNCHANGED expirationVars
    BY <2>4 DEF expirationVars, ExpirationIInv, ExpirationTypeOK
  <2> QED
    BY <2>2, <2>3, <2>4 DEF ExpirationNext
<1>3. ExpirationIInv => ExpirationTypeOK /\ ExpiryIsAsked
  BY ExpiryNear, KindRight, RemainingRight, DigitalRight DEF ExpirationIInv, ExpiryIsAsked
<1> QED
  BY <1>1, <1>2, <1>3, PTL DEF ExpirationSpec
=============================================================================
