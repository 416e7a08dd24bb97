CONSTANTS
    Handlers = {h1, h2}
SPECIFICATION ProcessSpec
CHECK_DEADLOCK FALSE
INVARIANTS ProcessTypeOK OneTeardown NoFreedPool
PROPERTIES CleanStop StopsOrHangs
