--------------------------- MODULE MCSocialCache ---------------------------
EXTENDS SocialCache, TLC

CONSTANTS u1, u2, p1, h1, h2

OnePost == p1 :> u1
=============================================================================
