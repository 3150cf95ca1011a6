------------------------- MODULE MCRolloutCoordinator -------------------------
EXTENDS RolloutCoordinator, TLC
CONSTANTS train1, eval1, c1, c2
OneId == {train1}
TwoIds == {train1, eval1}
OneEval == {eval1}
TwoClients == {c1, c2}
Symmetry == Permutations(TwoClients)
=============================================================================
