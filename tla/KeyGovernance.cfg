CONSTANTS
    Identities = {cap}
    PublicKeys = {k1, k2, k3}
    Administrators = {a1, a2}
    MaxTime = 3
    None = None
    Roles = {"CAPABILITY", "ATTESTATION", "RELEASE"}
    KeyIds = {"v1", "v2"}
    IssuerKeys = {"e1", "e2"}
    IssuerMaxTime = 2
    Tokens <- SmallTokens
    Plan <- SmallPlan
    Permissions = {"read"}
    Executor = "host"
SPECIFICATION KeySpec
SYMMETRY Symmetry
CHECK_DEADLOCK FALSE
INVARIANTS SuccessorsMeet ReceiptsNumberUses
PROPERTIES HistoryNarrows RevocationStopsAuthorization
