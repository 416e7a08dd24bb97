CONSTANTS
    Calls = {c1, c2}
    Ctxs = {x1, x2}
    Users = {u1, u2}
    None = None
    MaxRotations = 2
SPECIFICATION Spec
SYMMETRY Symmetry
INVARIANTS OkIsForTokenUser RefusedHasCause
CHECK_DEADLOCK FALSE
