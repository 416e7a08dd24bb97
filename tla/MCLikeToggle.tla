---------------------------- MODULE MCLikeToggle ----------------------------
EXTENDS LikeToggle, TLC

CONSTANTS u1, u2, c1, c2, c3

\* u1 has two tabs (or a retry of a call that timed out), u2 one.
TwoTabs == c1 :> u1 @@ c2 :> u1 @@ c3 :> u2
=============================================================================
