SPECIFICATION FairSpec
CONSTANTS
    Clients = {}
    Allowed = {}
    Requests = {r1}
    MaxStarts = 1
    MaxRestarts = 0
    Waker = Waker
    Nothing = Nothing
PROPERTY StopCompletes
CHECK_DEADLOCK FALSE
