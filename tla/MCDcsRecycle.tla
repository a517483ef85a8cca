---------------------------- MODULE MCDcsRecycle ----------------------------
EXTENDS DcsRecycle, TLC
Symm == Permutations(Inst \ {Master})
=============================================================================
