-------------------------- MODULE OperatorSimulation --------------------------
(***************************************************************************)
(* simulate_operator_plan (operator-simulation-runtime): a compiled plan   *)
(* is run, step by step, on an occupational twin that has a history of its *)
(* own.  The simulation holds the workspace exclusively; an error of the   *)
(* twin ends it half way, without a report.                                *)
(***************************************************************************)
EXTENDS TwinWorkspace

CONSTANTS Plan,          \* sequence of plan steps, in dependency order
          Invocations,   \* the step invocations a simulation may contain
          MaxPrepared,   \* bound on the events before a simulation
          MaxInvocations \* bound on the invocations of one simulation

StepIds == {Plan[k].id : k \in DOMAIN Plan}

ASSUME PlanAssumption ==
    \A k \in DOMAIN Plan : \A d \in Plan[k].depends_on :
        \E j \in 1 .. k - 1 : Plan[j].id = d
\* FaultInjection; "corrupt" replaces the content of the first write.
Faults == [kind : {"none"}] \cup [kind : {"pre", "post"}, artifact : ArtifactIds]
              \cup [kind : {"corrupt"}, content : Contents \cup {Garbage}]

ASSUME InvocationAssumption ==
    /\ \A i \in Invocations : i.operation \in Operations /\ i.fault \in Faults
    /\ {MaxPrepared, MaxInvocations} \subseteq Nat

VARIABLES phase,        \* "idle", "running", "reported", "aborted"
          invocations,  \* the simulation's invocations, in order
          initial,      \* snapshot the simulation started from
          succeeded,    \* steps that succeeded
          violations,   \* global violations
          reports       \* one per plan step

simVars == <<phase, invocations, initial, succeeded, violations, reports>>
allVars == <<vars, simVars>>

Statuses == {"succeeded", "rejected", "rolled_back", "blocked", "missing"}
Reports  == [step : StepIds, status : Statuses, before : Snapshots, after : Snapshots]

SimTypeOK ==
    /\ TypeOK
    /\ phase \in {"idle", "running", "reported", "aborted"}
    /\ invocations \in Seq(Invocations)
    /\ initial \in Snapshots
    /\ succeeded \subseteq StepIds
    /\ violations \in SUBSET ({"duplicate", "unexpected", "missing"} \cup Statuses)
    /\ reports \in Seq(Reports)

SimInit ==
    /\ Init
    /\ phase = "idle" /\ invocations = <<>> /\ initial = Snapshot
    /\ succeeded = {} /\ violations = {} /\ reports = <<>>

\* The workspace's own history, before the simulation.
Prepare == phase = "idle" /\ Next /\ UNCHANGED simVars

\* The invocation a step uses, if any: a later one replaces an earlier one.
Indexed(step) ==
    {invocations[k] : k \in {n \in DOMAIN invocations :
        /\ invocations[n].step = step
        /\ \A j \in DOMAIN invocations : j > n => invocations[j].step # step}}

\* Violations found while the invocations are indexed.
IndexViolations(invs) ==
    (IF \E k \in DOMAIN invs : invs[k].step \notin StepIds THEN {"unexpected"} ELSE {})
        \cup (IF \E j, k \in DOMAIN invs : j # k /\ invs[j].step = invs[k].step
                                               /\ invs[j].step \in StepIds
              THEN {"duplicate"} ELSE {})

Start(invs) ==
    /\ phase = "idle" /\ Len(trace) <= MaxPrepared
    /\ phase' = "running"
    /\ invocations' = invs
    /\ initial' = Snapshot
    /\ violations' = IndexViolations(invs)
    /\ UNCHANGED <<vars, succeeded, reports>>

-----------------------------------------------------------------------------
Impossible(a) == [kind |-> "digest", artifact |-> a, content |-> Garbage]

FirstWrite(op) ==
    CHOOSE k \in DOMAIN op.commands :
        op.commands[k].kind = "write" /\ \A j \in 1 .. k - 1 : op.commands[j].kind # "write"

FaultApplies(op, fault) ==
    fault.kind = "corrupt" => \E k \in DOMAIN op.commands : op.commands[k].kind = "write"

\* apply_fault, on a copy of the operation
Faulted(op, fault) ==
    CASE fault.kind = "none"    -> op
      [] fault.kind = "pre"     -> [op EXCEPT !.pre = @ \cup {Impossible(fault.artifact)}]
      [] fault.kind = "post"    -> [op EXCEPT !.post = @ \cup {Impossible(fault.artifact)}]
      [] fault.kind = "corrupt" ->
             [op EXCEPT !.commands[FirstWrite(op)].content = fault.content]

\* validate_dependencies, validate_invocation, and a fault that applies.
Ready(step, i) ==
    /\ step.depends_on \subseteq succeeded
    /\ i.operator = step.operator /\ i.operation.operator = step.operator
    /\ i.operation.inputs = step.inputs /\ i.operation.outputs = step.outputs
    /\ FaultApplies(i.operation, i.fault)

Step == Plan[Len(reports) + 1]

Report(status, before, after) ==
    reports' = Append(reports, [step |-> Step.id, status |-> status,
                                before |-> before, after |-> after])

Running == phase = "running" /\ Len(reports) < Len(Plan)

StepMissing ==
    /\ Running /\ Indexed(Step.id) = {}
    /\ violations' = violations \cup IF Step.mandatory THEN {"missing"} ELSE {}
    /\ Report("missing", Snapshot, Snapshot)
    /\ UNCHANGED <<vars, phase, invocations, initial, succeeded>>

StepBlocked ==
    /\ Running /\ \E i \in Indexed(Step.id) : ~ Ready(Step, i)
    /\ violations' = violations \cup {"blocked"}
    /\ Report("blocked", Snapshot, Snapshot)
    /\ UNCHANGED <<vars, phase, invocations, initial, succeeded>>

\* The twin refuses the operation id: the simulation returns the error.
StepAborts ==
    /\ Running
    /\ \E i \in Indexed(Step.id) : Ready(Step, i) /\ i.operation.id \in operationIds
    /\ phase' = "aborted"
    /\ UNCHANGED <<vars, invocations, initial, succeeded, violations, reports>>

StepApplied ==
    /\ Running
    /\ \E i \in Indexed(Step.id) :
          LET op      == Faulted(i.operation, i.fault)
              outcome == Outcome(op, artifacts)
          IN /\ Ready(Step, i)
             /\ ApplyOperation(op)
             /\ succeeded' = IF outcome = "succeeded" THEN succeeded \cup {Step.id}
                             ELSE succeeded
             /\ violations' = IF outcome = "succeeded" THEN violations
                              ELSE violations \cup {outcome}
             /\ LET receipt == trace'[Len(trace) + 1]
                IN Report(outcome, receipt.before, receipt.after)
    /\ UNCHANGED <<phase, invocations, initial>>

Finish ==
    /\ phase = "running" /\ Len(reports) = Len(Plan)
    /\ phase' = "reported"
    /\ UNCHANGED <<vars, invocations, initial, succeeded, violations, reports>>

SimNext ==
    \/ Prepare
    \/ phase = "idle" /\ \E n \in 0 .. MaxInvocations :
          \E invs \in [1 .. n -> Invocations] : Start(invs)
    \/ StepMissing \/ StepBlocked \/ StepAborts \/ StepApplied \/ Finish

SimSpec == SimInit /\ [][SimNext]_allVars

=============================================================================
