CONSTANTS
    u1 = u1  u2 = u2  p1 = p1  p2 = p2  k1 = k1  k2 = k2
    Users = {u1, u2}
    Pages = {p1, p2}
    None = None
    CallsOf <- MCCallsOf
    FirstUser = u1
    MaxEvents = 3
SPECIFICATION SessionSpec
PROPERTY RestoresWhenPossible
CHECK_DEADLOCK FALSE
