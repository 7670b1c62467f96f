------------------------- MODULE MCBotOrchestrator -------------------------
(* Finite instances of BotOrchestrator: one start() per thread. *)
EXTENDS BotOrchestrator, TLC

CONSTANTS l1, l2, l3, l4

MCLoops == {l1, l2, l3, l4}
MCSymmetry == Permutations(MCLoops)
=============================================================================
