SPECIFICATION AssessmentSpec
CHECK_DEADLOCK FALSE
CONSTANTS
    text = text
    color = color
    layout = layout
    v1 = v1
    v2 = v2
    self = self
    e1 = e1
    e2 = e2
    e3 = e3
    Obligations = {text, color, layout}
    Mandatory = {text, color}
    Required <- MCRequired
    Validators = {v1, v2, self}
    Bound <- MCBound
    Class <- MCClass
    Versions = {1, 2}
    Version <- MCVersion
    Constraints = {"brand", "content"}
    Constraint <- MCConstraint
    EvidenceIds = {e1, e2, e3}
    Contracts = {"sealed", "other"}
    Contract = "sealed"
    Levels = 1
    MinimumLevel = 1
    MaxUnknowns = 1
    None = None
    Steps <- MCSteps
    PlanSeal = "plan"
    Events <- MCEvents
    Submissions <- MCSubmissions
    MaxEvents = 4
    MaxFlagged = 1
    Seals = {"plan", "other"}
    ArtifactLists <- MCArtifactLists
    Results <- MCResults
SYMMETRY Symmetry
INVARIANTS TraceVerdictExact AcceptedMeansVouched AcceptedBundleIsProved
