CONSTANTS
    Calls = {c1, c2}
    Ips = {ip1}
    Methods = {like, get}
    Routes = {like}
    MaxRequests <- mcMaxRequests
    Window <- mcWindow
    MaxTime = 5
SPECIFICATION Spec
INVARIANTS TypeOK WindowBound
PROPERTY RejectedForCause
