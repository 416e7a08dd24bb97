------------------------------ MODULE MCUsers ------------------------------
EXTENDS Users, TLC

CONSTANTS i1, i2, ana, bia, none

\* Ana and ANA, say, are two names with one handle.
SameHandle == ana :> "ana" @@ bia :> "ana" @@ none :> ""
=============================================================================
