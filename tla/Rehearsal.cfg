SPECIFICATION RehearsalSpec
CONSTANTS
    ArtifactIds = {"a1", "a2"}
    Contents = {"c1", "c2"}
    Operations <- SmallOperations
    CheckpointIds = {"k1"}
    RollbackIds = {"r1", "r2"}
    MaxEvents = 5
    Garbage = Garbage
    Absent = Absent
    Plan <- SmallPlan
    Invocations <- SmallInvocations
    MaxPrepared = 1
    MaxInvocations = 3
    RequestIds = {"r1"}
    Values = {v1, v2}
    Instances = {p1, p2}
    MaximumCachedObservations = 2
    MaxTime = 1
    MaxLog = 6
    MaxFaults = 1
    None = None
SYMMETRY Symmetry
CHECK_DEADLOCK FALSE
INVARIANTS TraceExplainsState SealedReproduces VerifiedActionTookPlace
