----------------------------- MODULE TokenBucket -----------------------------
(***************************************************************************)
(* core/ratelimit.py: the token bucket in front of every order, and the    *)
(* threads that call the decorated methods.  The bucket is lazy: the time  *)
(* passed is turned into tokens when somebody asks, under the lock, so     *)
(* that consume() is one step up to its sleep.                             *)
(*                                                                         *)
(* A tick is the time in which 1/Unit of a token is earned; tokens and     *)
(* times are counted in ticks, so that refill_rate is 1.  Floating-point   *)
(* rounding is left out.                                                   *)
(***************************************************************************)
EXTENDS Naturals

CONSTANTS
  Callers,  \* threads that place orders
  Cost,     \* tokens each takes: 2 for buy_digital_spot(), which is decorated
            \* and calls buy_digital_spot_v2(), which is decorated too
  Unit,     \* ticks per token
  Full,     \* the capacity, in ticks
  Block,    \* block=True: wait for a token; the SDK's own bucket does
  MaxCalls  \* bound: orders each thread places

ASSUME BucketAssumption ==
  /\ Unit \in Nat \ {0}
  /\ Full \in Nat /\ Full >= Unit
  /\ Cost \in [Callers -> Nat \ {0}]
  /\ Block \in BOOLEAN
  /\ MaxCalls \in Nat

VARIABLES
  tokens,   \* _tokens
  since,    \* now - _last_refill, as far as it matters
  phase,       \* where each thread stands
  left,     \* tokens it has still to take
  wake,     \* ticks it still sleeps
  calls,    \* bound: the orders it has begun so far
  surplus   \* history: the most by which the orders of a time span up to now
            \* exceed the time it lasted, over all time spans (in ticks)

bucketVars == <<tokens, since, phase, left, wake, calls, surplus>>

UpToFull(n) == IF n > Full THEN Full ELSE n
Less(n)     == IF n = 0 THEN 0 ELSE n - 1

BucketInit ==
  /\ tokens = Full
  /\ since = 0
  /\ phase = [c \in Callers |-> "idle"]
  /\ left = [c \in Callers |-> 0]
  /\ wake = [c \in Callers |-> 0]
  /\ calls = [c \in Callers |-> 0]
  /\ surplus = 0

-----------------------------------------------------------------------------
Call(c) ==
  /\ phase[c] = "idle"
  /\ phase' = [phase EXCEPT ![c] = "asking"]
  /\ calls[c] < MaxCalls
  /\ calls' = [calls EXCEPT ![c] = @ + 1]
  /\ left' = [left EXCEPT ![c] = Cost[c]]
  /\ UNCHANGED <<tokens, since, wake, surplus>>

RefilledUncapped == tokens + since   \* variant: without min()

\* _refill(): what the bucket holds at this moment.
Refilled == UpToFull(tokens + since)

ConsumeTaken(c) ==
  /\ phase[c] = "asking"
  /\ Refilled >= Unit
  /\ tokens' = Refilled - Unit
  /\ since' = 0
  /\ left' = [left EXCEPT ![c] = @ - 1]
  /\ phase' = [phase EXCEPT ![c] = IF left[c] = 1 THEN "done" ELSE "asking"]
  /\ surplus' = surplus + Unit
  /\ UNCHANGED <<wake, calls>>

ConsumeStale(c) ==      \* variant: _last_refill is not moved
  /\ phase[c] = "asking"
  /\ Refilled < Unit
  /\ tokens' = Refilled
  /\ phase' = [phase EXCEPT ![c] = IF Block THEN "sleeping" ELSE "refused"]
  /\ wake' = [wake EXCEPT ![c] = IF Block THEN Unit - Refilled ELSE 0]
  /\ UNCHANGED <<since, left, calls, surplus>>

ConsumeForfeits(c) ==   \* variant: the part of a token is lost
  /\ phase[c] = "asking"
  /\ Refilled < Unit
  /\ tokens' = 0 /\ since' = 0
  /\ phase' = [phase EXCEPT ![c] = IF Block THEN "sleeping" ELSE "refused"]
  /\ wake' = [wake EXCEPT ![c] = IF Block THEN Unit - Refilled ELSE 0]
  /\ UNCHANGED <<left, calls, surplus>>

\* Not enough: sleep until there should be, or give up.
ConsumeFails(c) ==
  /\ phase[c] = "asking"
  /\ Refilled < Unit
  /\ tokens' = Refilled
  /\ since' = 0
  /\ phase' = [phase EXCEPT ![c] = IF Block THEN "sleeping" ELSE "refused"]
  /\ wake' = [wake EXCEPT ![c] = IF Block THEN Unit - Refilled ELSE 0]
  /\ UNCHANGED <<left, calls, surplus>>

\* The sleep is over, and the thread asks again: others may have been faster.
SleepEnds(c) ==
  /\ phase[c] = "sleeping"
  /\ wake[c] = 0
  /\ phase' = [phase EXCEPT ![c] = "asking"]
  /\ UNCHANGED <<tokens, since, left, wake, calls, surplus>>

CallReturns(c) ==
  /\ phase[c] \in {"done", "refused"}
  /\ phase' = [phase EXCEPT ![c] = "idle"]
  /\ UNCHANGED <<tokens, since, left, wake, calls, surplus>>

\* available_tokens refills, too.
AvailableTokens ==
  /\ tokens' = Refilled
  /\ since' = 0
  /\ UNCHANGED <<phase, left, wake, calls, surplus>>

BucketTick ==
  /\ since' = UpToFull(since + 1)
  /\ wake' = [c \in Callers |-> Less(wake[c])]
  /\ surplus' = Less(surplus)
  /\ UNCHANGED <<tokens, phase, left, calls>>

Thread(c) ==
  Call(c) \/ ConsumeTaken(c) \/ ConsumeFails(c) \/ SleepEnds(c) \/ CallReturns(c)

BucketNext == (\E c \in Callers : Thread(c)) \/ AvailableTokens \/ BucketTick

BucketSpec == BucketInit /\ [][BucketNext]_bucketVars

\* Time passes, and a thread that has called goes on.
BucketFairSpec ==
  /\ BucketSpec
  /\ WF_bucketVars(BucketTick)
  /\ \A c \in Callers : WF_bucketVars(phase[c] # "idle" /\ Thread(c))

-----------------------------------------------------------------------------
BucketTypeOK ==
  /\ tokens \in 0 .. Full
  /\ since \in 0 .. Full
  /\ phase \in [Callers -> {"idle", "asking", "sleeping", "done", "refused"}]
  /\ left \in [Callers -> Nat]
  /\ wake \in [Callers -> 0 .. Unit]
  /\ calls \in [Callers -> 0 .. MaxCalls]
  /\ surplus \in Nat

\* In no span of time are there more orders than the capacity plus what the
\* span earns, whoever asks, sleeps and looks in between.
NoFlood == surplus <= Full

\* The lazy bucket is the allowance that grows tick by tick.
Promise == INSTANCE Allowance WITH level <- Refilled
KeepsPromise == Promise!Spec

\* A thread that may wait gets its tokens, however many threads wait with it,
\* as long as the others do not place orders for ever.
EveryOrderGoes == \A c \in Callers : phase[c] = "asking" ~> phase[c] = "done"
=============================================================================
