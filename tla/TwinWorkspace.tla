---------------------------- MODULE TwinWorkspace ----------------------------
(***************************************************************************)
(* The occupational twin's workspace (occupational-twin-runtime): inputs   *)
(* are staged, typed operations are committed or rolled back, checkpoints  *)
(* are taken and restored, and every step is traced and journalled.        *)
(*                                                                         *)
(* Content stands for its digest.  A snapshot digest stands for what it    *)
(* seals and what can change: the revision and the artifacts.              *)
(***************************************************************************)
EXTENDS Naturals, Sequences, FiniteSets

CONSTANTS ArtifactIds, Contents,
          Operations,     \* the typed operations that may be submitted
          CheckpointIds, RollbackIds,
          MaxEvents,      \* bound on trace events
          Garbage,        \* content that does not decode
          Absent

Records == [mutability : {"immutable", "mutable"}, content : Contents]

Conditions ==
    [kind : {"exists", "absent", "immutable", "mutable"}, artifact : ArtifactIds]
        \cup [kind : {"digest"}, artifact : ArtifactIds, content : Contents \cup {Garbage}]

Commands ==
    [kind : {"write"}, artifact : ArtifactIds, content : Contents \cup {Garbage}]
        \cup [kind : {"delete"}, artifact : ArtifactIds]

ASSUME ContentsAssumption == Garbage \notin Contents /\ Absent \notin Records
ASSUME OperationsAssumption ==
    \A op \in Operations :
        op \in [id : {op.id}, operator : {op.operator},
               inputs : SUBSET ArtifactIds, outputs : SUBSET ArtifactIds,
               pre : SUBSET Conditions, commands : Seq(Commands), post : SUBSET Conditions]
ASSUME BoundAssumption == MaxEvents \in Nat

VARIABLES artifacts,     \* artifact -> record, or Absent
          revision,
          checkpoints,   \* checkpoint -> snapshot, for the ones created
          operationIds, rollbackIds,
          journal,       \* receipts of operations and rollbacks
          trace,         \* trace events
          packages       \* sealed packages handed out

vars == <<artifacts, revision, checkpoints, operationIds, rollbackIds, journal, trace,
          packages>>

Artifacts == [ArtifactIds -> Records \cup {Absent}]
Snapshots == [revision : Nat, artifacts : Artifacts]
Snapshot  == [revision |-> revision, artifacts |-> artifacts]

Outcomes == {"succeeded", "rejected", "rolled_back"}
Kinds    == {"staged", "operation", "checkpoint", "rollback", "sealed"}
Events   == [kind : Kinds, before : Snapshots, after : Snapshots]

Blobs    == [digest : Contents, content : Contents]

OperationIds == {op.id : op \in Operations}
Receipts == [kind : {"operation"}, subject : OperationIds, outcome : Outcomes]
                \cup [kind : {"rollback"}, subject : RollbackIds, checkpoint : CheckpointIds]
Packages == [snapshot : Snapshots, journal : Nat, trace : Nat,
             inventory : SUBSET Contents, blobs : SUBSET Blobs]

TypeOK ==
    /\ artifacts \in Artifacts
    /\ revision \in Nat
    /\ checkpoints \in [CheckpointIds -> Snapshots \cup {Absent}]
    /\ operationIds \subseteq OperationIds
    /\ rollbackIds \subseteq RollbackIds
    /\ journal \in Seq(Receipts)
    /\ trace \in Seq(Events)
    /\ packages \in Seq(Packages)

Init ==
    /\ artifacts = [a \in ArtifactIds |-> Absent]
    /\ revision = 0
    /\ checkpoints = [c \in CheckpointIds |-> Absent]
    /\ operationIds = {} /\ rollbackIds = {}
    /\ journal = <<>> /\ trace = <<>> /\ packages = <<>>

\* push_trace, for a step that leads to artifacts as and revision r.
PushTrace(kind, as, r) ==
    /\ Len(trace) < MaxEvents
    /\ trace' = Append(trace, [kind |-> kind, before |-> Snapshot,
                               after |-> [revision |-> r, artifacts |-> as]])

-----------------------------------------------------------------------------
\* stage_immutable_input, with content that has the expected digest.
StageInput(a, content) ==
    /\ artifacts[a] = Absent
    /\ artifacts' = [artifacts EXCEPT ![a] = [mutability |-> "immutable", content |-> content]]
    /\ revision' = revision + 1
    /\ PushTrace("staged", artifacts', revision')
    /\ UNCHANGED <<checkpoints, operationIds, rollbackIds, journal, packages>>

\* condition_matches
Matches(as, c) ==
    CASE c.kind = "exists"    -> as[c.artifact] # Absent
      [] c.kind = "absent"    -> as[c.artifact] = Absent
      [] c.kind = "digest"    -> as[c.artifact] # Absent /\ as[c.artifact].content = c.content
      [] c.kind = "immutable" -> as[c.artifact] # Absent
                                     /\ as[c.artifact].mutability = "immutable"
      [] c.kind = "mutable"   -> as[c.artifact] # Absent
                                     /\ as[c.artifact].mutability = "mutable"

\* prepare_commands: no violation for the k-th command.
CommandPrepared(op, as, k) ==
    LET c == op.commands[k]
    IN /\ \A j \in 1 .. k - 1 : op.commands[j].artifact # c.artifact
       /\ c.artifact \in op.outputs
       /\ as[c.artifact] # Absent => as[c.artifact].mutability # "immutable"
       /\ IF c.kind = "write" THEN c.content # Garbage ELSE as[c.artifact] # Absent

\* Inputs, preconditions and commands without a violation.
Prepared(op, as) ==
    /\ \A a \in op.inputs : as[a] # Absent
    /\ \A c \in op.pre : Matches(as, c)
    /\ \A k \in DOMAIN op.commands : CommandPrepared(op, as, k)

\* apply_prepared_commands: the targets are distinct, so their order is not seen.
Candidate(op, as) ==
    [a \in ArtifactIds |->
        IF \E k \in DOMAIN op.commands : op.commands[k].artifact = a
        THEN LET c == op.commands[CHOOSE k \in DOMAIN op.commands : op.commands[k].artifact = a]
             IN IF c.kind = "write" THEN [mutability |-> "mutable", content |-> c.content]
                ELSE Absent
        ELSE as[a]]

Outcome(op, as) ==
    IF ~ Prepared(op, as) THEN "rejected"
    ELSE IF \A c \in op.post : Matches(Candidate(op, as), c) THEN "succeeded" ELSE "rolled_back"

Commit_Unchecked(op, outcome) ==
    /\ artifacts' = IF outcome # "rejected" THEN Candidate(op, artifacts) ELSE artifacts
    /\ revision' = IF outcome = "succeeded" THEN revision + 1 ELSE revision
    /\ Len(trace) < MaxEvents
    /\ trace' = Append(trace, [kind |-> "operation", before |-> Snapshot,
           after |-> IF outcome = "succeeded"
                     THEN [revision |-> revision', artifacts |-> artifacts'] ELSE Snapshot])

\* The candidate replaces the artifacts only when all checks passed.
Commit(op, outcome) ==
    /\ artifacts' = IF outcome = "succeeded" THEN Candidate(op, artifacts) ELSE artifacts
    /\ revision' = IF outcome = "succeeded" THEN revision + 1 ELSE revision
    /\ PushTrace("operation", artifacts', revision')

\* The id is used up whatever comes of the operation.
ConsumeOperation(op, outcome) == operationIds' = operationIds \cup {op.id}

\* apply_operation and finish_operation
ApplyOperation(op) ==
    LET outcome == Outcome(op, artifacts)
    IN /\ op.id \notin operationIds
          /\ ConsumeOperation(op, outcome)
       /\ Commit(op, outcome)
       /\ journal' = Append(journal, [kind |-> "operation", subject |-> op.id,
                                    outcome |-> outcome])
       /\ UNCHANGED <<checkpoints, rollbackIds, packages>>

CreateCheckpoint(c) ==
    /\ checkpoints[c] = Absent
    /\ checkpoints' = [checkpoints EXCEPT ![c] = Snapshot]
    /\ PushTrace("checkpoint", artifacts, revision)
    /\ UNCHANGED <<artifacts, revision, operationIds, rollbackIds, journal, packages>>

\* The id is used up before the checkpoint is looked up.
RollbackUnknown(r, c) ==
    /\ r \notin rollbackIds /\ checkpoints[c] = Absent
    /\ rollbackIds' = rollbackIds \cup {r}
    /\ UNCHANGED <<artifacts, revision, checkpoints, operationIds, journal, trace, packages>>

\* Restoring is a change of its own: the revision goes on.
RestoredRevision(c) == revision + 1

RollbackToCheckpoint(r, c) ==
    /\ r \notin rollbackIds /\ checkpoints[c] # Absent
    /\ rollbackIds' = rollbackIds \cup {r}
    /\ artifacts' = checkpoints[c].artifacts
    /\ revision' = RestoredRevision(c)
    /\ journal' = Append(journal, [kind |-> "rollback", subject |-> r, checkpoint |-> c])
    /\ PushTrace("rollback", artifacts', revision')
    /\ UNCHANGED <<checkpoints, operationIds, packages>>

\* The contents a snapshot names.
ContentsOf(as) == {as[a].content : a \in {b \in ArtifactIds : as[b] # Absent}}

\* One blob for each distinct content of the workspace.
SealedBlobs(as) == {[digest |-> c, content |-> c] : c \in ContentsOf(as)}

\* seal_final_state: the sealing event is part of the sealed trace.  The
\* digests of the append-only journal and trace stand for their lengths.
SealFinalState ==
    /\ PushTrace("sealed", artifacts, revision)
    /\ packages' = Append(packages, [snapshot |-> Snapshot, journal |-> Len(journal),
                                     trace |-> Len(trace) + 1,
                                     inventory |-> ContentsOf(artifacts),
                                     blobs |-> SealedBlobs(artifacts)])
    /\ UNCHANGED <<artifacts, revision, checkpoints, operationIds, rollbackIds, journal>>

BlobIntact_Unhashed(b) == TRUE

\* The content hashes to the digest it is filed under.
BlobIntact(b) == b.content = b.digest

\* reproduce_final_workspace accepts the package.
Reproducible(p) ==
    /\ \A b \in p.blobs : BlobIntact(b)
    /\ \A b, d \in p.blobs : b.digest = d.digest => b = d
    /\ {b.digest : b \in p.blobs} = p.inventory
    /\ ContentsOf(p.snapshot.artifacts) \subseteq p.inventory

\* ... and the content it then restores for artifact a.
Reproduced(p, a) ==
    IF p.snapshot.artifacts[a] = Absent THEN Absent
    ELSE (CHOOSE b \in p.blobs : b.digest = p.snapshot.artifacts[a].content).content

Next ==
    \/ SealFinalState
    \/ \E a \in ArtifactIds, content \in Contents : StageInput(a, content)
    \/ \E op \in Operations : ApplyOperation(op)
    \/ \E c \in CheckpointIds : CreateCheckpoint(c)
    \/ \E r \in RollbackIds, c \in CheckpointIds :
           RollbackUnknown(r, c) \/ RollbackToCheckpoint(r, c)

Spec == Init /\ [][Next]_vars

-----------------------------------------------------------------------------
(* Properties *)

\* The trace explains the workspace: it starts at the empty workspace, every
\* event starts from the snapshot its predecessor ended with, and the last
\* one ends with the present state.  An operation that failed half way, or a
\* change nobody traced, would break the chain.
TraceExplainsState ==
    /\ \A k \in 1 .. Len(trace) - 1 : trace[k].after = trace[k + 1].before
    /\ IF trace = <<>> THEN Snapshot = [revision |-> 0,
                                        artifacts |-> [a \in ArtifactIds |-> Absent]]
       ELSE trace[Len(trace)].after = Snapshot

\* The monotonic revision names the state: two snapshots in the trace with
\* the same revision are equal, also on either side of a rollback.
RevisionNamesState ==
    \A j, k \in DOMAIN trace :
        trace[j].after.revision = trace[k].after.revision => trace[j].after = trace[k].after

\* Every operation id and every rollback id has at most one receipt in the
\* journal, also when the operation was rejected or rolled back.
OneReceipt ==
    \A j, k \in DOMAIN journal :
        journal[j].kind = journal[k].kind /\ journal[j].subject = journal[k].subject => j = k

\* A sealed package can be reproduced for ever, from itself alone, with the
\* final state the trace ended with when it was sealed; and a package whose
\* blobs were lost, exchanged or added to on the way is refused or still
\* reproduces exactly that state.
SealedReproduces ==
    \A n \in DOMAIN packages :
        LET p == packages[n]
            damaged == {[p EXCEPT !.blobs = bs] : bs \in SUBSET Blobs}
            sealed  == trace[p.trace].after.artifacts
        IN /\ Reproducible(p) /\ trace[p.trace].kind = "sealed"
           /\ \A q \in damaged : Reproducible(q) =>
                  \A a \in ArtifactIds :
                      Reproduced(q, a) = IF sealed[a] = Absent THEN Absent ELSE sealed[a].content

\* A typed operation never changes, deletes or replaces a staged input; only
\* a rollback can take it away.
InputsKept ==
    [][\A a \in ArtifactIds :
          (artifacts[a] # Absent /\ artifacts[a].mutability = "immutable"
              /\ artifacts'[a] # artifacts[a]) => rollbackIds' # rollbackIds]_vars
=============================================================================
