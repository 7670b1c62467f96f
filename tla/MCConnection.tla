---------------------------- MODULE MCConnection ----------------------------
(* Finite instances of Connection: two reconnect threads at a time.          *)
EXTENDS Connection, TLC

CONSTANTS r1, r2

MCReconnectors == {r1, r2}
MCSymmetry == Permutations(MCReconnectors)
=============================================================================
