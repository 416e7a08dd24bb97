CONSTANTS
    u1 = u1  u2 = u2  p1 = p1  h1 = h1  h2 = h2
    Users = {u1, u2}
    Posts = {p1}
    Handlers = {h1}
    Author <- OnePost
    NoUser = NoUser
    Nothing = Nothing
    Outcomes = {"ok"}
    CacheFaults = FALSE
    MaxWrites = 3
SPECIFICATION Spec
INVARIANT LikedByMe
