---------------------------- MODULE MCPostStore ----------------------------
EXTENDS PostStore, TLC

CONSTANTS a, b, c, s1, s2, s3

TwoPosts == <<a, b>>
Symmetry == Permutations(Slots)
=============================================================================
