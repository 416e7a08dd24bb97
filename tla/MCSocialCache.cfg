CONSTANTS
    u1 = u1  u2 = u2  p1 = p1  h1 = h1  h2 = h2
    Users = {u1}
    Posts = {p1}
    Handlers = {h1, h2}
    Author <- OnePost
    NoUser = NoUser
    Nothing = Nothing
    Outcomes = {"ok", "refused", "lost"}
    CacheFaults = TRUE
    MaxWrites = 1
SPECIFICATION Spec
INVARIANTS TypeOK StaleHasCause
PROPERTY Settles
