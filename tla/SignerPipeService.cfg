SPECIFICATION FairSpec
CONSTANTS
    Clients = {c1, c2}
    Allowed = {c1}
    Requests = {r1}
    MaxStarts = 2
    MaxRestarts = 1
    Waker = Waker
    Nothing = Nothing
CHECK_DEADLOCK FALSE
INVARIANTS SignedOncePerInstance PackageForCaller
PROPERTIES DeadlineBounds
