CONSTANTS
    Files = {f1}
    Keys = {k1, k2}
    Posts = {p1, p2}
    Clients = {c1, c2}
    Handlers = {h1, h2}
    Nothing = Nothing
    Failures = TRUE
SPECIFICATION Spec
INVARIANTS DanglingHasCause OrphanHasCause LivePostServed
SYMMETRY Symmetry
CHECK_DEADLOCK FALSE
