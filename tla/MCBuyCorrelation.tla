-------------------------- MODULE MCBuyCorrelation --------------------------
(* Finite instances of BuyCorrelation: a few calls, a few request ids. *)
EXTENDS BuyCorrelation, TLC

CONSTANTS c1, c2, c3, r1, r2, r3

MCTwoCalls   == {c1, c2}
MCThreeCalls == {c1, c2, c3}
MCTwoIds     == {r1, r2}
MCThreeIds   == {r1, r2, r3}
MCOneId      == {r1}
MCNoIds      == {}

\* Request ids are only compared; no property names one.
MCSymmetry == Permutations(MCThreeIds)
=============================================================================
