---------------------------- MODULE MCProfilePage -----------------------------
EXTENDS ProfilePage, TLC

CONSTANTS r1, r2, r3, v, w

Symmetry == Permutations(Requests) \cup Permutations(Values)
==============================================================================
