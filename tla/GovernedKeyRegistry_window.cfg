CONSTANTS
    Roles = {"ATTESTATION"}
    KeyIds = {v1, v2, v3}
    PublicKeys = {k1, k2, k3}
    Administrators = {a1}
    MaxTime = 2
SPECIFICATION Spec
CHECK_DEADLOCK FALSE
PROPERTIES RetiredWindowIsFinal
