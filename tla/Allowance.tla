------------------------------ MODULE Allowance ------------------------------
(***************************************************************************)
(* What a rate limiter promises: an allowance that grows with time up to a *)
(* ceiling, and that every order takes one unit from.  One token of the    *)
(* bucket is Unit ticks of refill.                                         *)
(***************************************************************************)
EXTENDS Naturals

CONSTANTS
  Unit,   \* ticks it takes to earn one order
  Full    \* ceiling: the capacity, in the same ticks

VARIABLE level

Init == level = Full

Grant == level >= Unit /\ level' = level - Unit

Grows == level < Full /\ level' = level + 1

Next == Grant \/ Grows

Spec == Init /\ [][Next]_level
=============================================================================
