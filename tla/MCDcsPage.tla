----------------------------- MODULE MCDcsPage -----------------------------
EXTENDS DcsPage, TLC
Symm == Permutations(Inst \ {Master})
=============================================================================
