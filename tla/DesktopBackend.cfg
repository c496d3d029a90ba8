SPECIFICATION BackendSpec
CONSTANTS
    N = 3
    NoChain = NoChain
    MaxTokens = 3
    MaxClock = 2
    MaxFaults = 3
    Contents <- Files
    None = None
    MaxApprovals = 2
    MaxCuts = 1
INVARIANTS
    ReceiptsAreDurable OneTokenPerStep ConsumedCoversPlan
    AcceptedIsCertified InputsAreStored ChainApprovalIsJobs
PROPERTIES ApprovedJobEnds CertifiedJobAccepted
