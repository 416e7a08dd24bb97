--------------------------- MODULE MCRateLimiter ---------------------------
(* Two calls at once, from one address, to a limited and a free method.    *)
EXTENDS RateLimiter
mcMaxRequests == [m \in Routes |-> 2]
mcWindow == [m \in Routes |-> 2]
=============================================================================
