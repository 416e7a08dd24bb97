------------------------------ MODULE MCMedia ------------------------------
EXTENDS Media, TLC
Symmetry == Permutations(Clients) \cup Permutations(Handlers)
=============================================================================
