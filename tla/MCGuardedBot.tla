---------------------------- MODULE MCGuardedBot ----------------------------
(* A finite instance of GuardedBot: a few starts, a breaker with low limits. *)
EXTENDS GuardedBot

CONSTANTS l1, l2, l3

MCLoops    == {l1, l2, l3}
MCBalances == {45, 50}
MCStakes   == {1}
=============================================================================
