CONSTANTS
    u1 = u1  u2 = u2  c1 = c1  c2 = c2  c3 = c3
    Users = {u1, u2}
    Posts = {p1}
    Calls = {c1, c2, c3}
    UserOf <- TwoTabs
    NoPost = NoPost
SPECIFICATION Spec
INVARIANTS TypeOK CounterNeverOver DriftHasCause NoOrphanLikes
PROPERTY EveryCallEnds
