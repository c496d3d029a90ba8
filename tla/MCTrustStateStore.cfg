CONSTANTS
    States <- MCStates
    Recoveries <- MCRecoveries
    Genesis <- MCGenesis
    Administrators = {a1, a2}
    Services = {}
    MaxTime = 1
    MaxFaults = 1
    None = None
SYMMETRY MCSymmetry
SPECIFICATION Spec
INVARIANTS AcceptedIsComplete
PROPERTIES FloorNeverFalls RecoveryNotReplayed
