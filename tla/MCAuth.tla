------------------------------- MODULE MCAuth -------------------------------
EXTENDS Auth, TLC

Symmetry == Permutations(Calls) \cup Permutations(Ctxs) \cup Permutations(Users)
=============================================================================
