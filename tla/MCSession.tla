----------------------------- MODULE MCSession -----------------------------
EXTENDS Session, TLC

CONSTANTS u1, u2, p1, p2, k1, k2

\* One page with two calls that share a refresh, and one with a single call.
MCCallsOf == p1 :> {k1, k2} @@ p2 :> {k1}
=============================================================================
