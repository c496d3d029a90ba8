SPECIFICATION Spec
CONSTANTS
    MaxTime = 2
    MaxInstances = 3
    MaxTrust = 2
    MaxBackends = 2
    NotAfter <- SmallNotAfter
    TTL = 2
    IoLimit = 1
    None = None
CHECK_DEADLOCK FALSE
INVARIANTS ChangeProvedTwice EnabledMeansProved LeaseFresh
