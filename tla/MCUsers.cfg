CONSTANTS
    i1 = i1  i2 = i2  ana = ana  bia = bia  none = none
    Ids = {i1, i2}
    Names = {ana, bia, none}
    NoName = none
    FirstUser = i1
    FirstName = ana
    Handlers = {h1, h2}
    HandleOf <- SameHandle
    Nothing = Nothing
    Failures = TRUE
    MaxWrites = 2
    MaxReads = 2
SPECIFICATION Spec
INVARIANTS TypeOK HandleClashHasCause StaleByIdHasCause
PROPERTY Settles
CHECK_DEADLOCK FALSE
