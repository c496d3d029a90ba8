CONSTANTS
    Identities = {cap}
    PublicKeys = {k1, k2}
    Administrators = {a1}
    MaxTime = 2
    None = None
SPECIFICATION Spec
CHECK_DEADLOCK FALSE
PROPERTIES EveryChangeReceipted
