CONSTANTS
    a = a  c = c  b = b  s1 = s1  s2 = s2  s3 = s3
    Ids = {a, b, c}
    NoId = NoId
    Slots = {s1, s2, s3}
    Objs = {1, 2, 3, 4, 5, 6, 7, 8, 9, 10, 11, 12}
    FetchLimit = 3
    PageSize = 2
    MaxCalls = 4
    OldLikes = 0
    FirstPosts <- TwoPosts
SYMMETRY Symmetry
SPECIFICATION Spec
INVARIANTS TypeOK NoStuckFlag VersionsAgree DisplayHasCause DuplicateHasCause
CHECK_DEADLOCK FALSE
