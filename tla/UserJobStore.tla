--------------------------- MODULE UserJobStore ---------------------------
(***************************************************************************)
(* The persistent record of one Product Alpha user job                     *)
(* (crates/desktop-user-job-runtime): the phases of the job, what a record  *)
(* of each phase must carry, the operations that derive the next record,    *)
(* and the files the records and the imported inputs are kept in.           *)
(*                                                                         *)
(* Data abstraction.  A digest is the thing it digests.  The history of a   *)
(* job is its newest record: every record names its predecessor and its     *)
(* revision, so the pending file of a write that was cut short can only     *)
(* collide with a write of the same record onto the same predecessor, and   *)
(* `stuck` holds the pending files that belong to the newest record.        *)
(* Compiled material is the inputs it was compiled from.  An approval is    *)
(* its number.  A production binding is the observed chain state.           *)
(***************************************************************************)
EXTENDS Naturals

CONSTANTS Contents,    \* for each GraphicDesignerJobKind created, the files the user has
          None         \* an absent Option

required_input_roles(kind) ==
    {"intent_manifest"} \cup
    CASE kind = "StaticSocialPost" -> {"approved_logo", "brand_profile", "approved_copy"}
      [] kind = "ImageBackgroundCleanup" -> {"source_raster", "approved_cleanup_mask"}
      [] kind = "BrandCompliantImageExport" -> {"source_svg", "brand_manifest", "approved_logo"}
      [] kind = "PrintReadyPosterPreflight" -> {"source_svg", "print_specification"}

UserJobPhase ==
    {"Draft", "UnresolvedIntent", "ReadyForApproval", "PermissionRequired", "Approved",
     "ApprovalExpired", "ProductionSignerUnavailable", "Executing", "ExecutionFailed",
     "EvidenceRejected", "RecoveryRequired", "Accepted", "Cancelled", "RolledBack"}

VARIABLES
    disk,      \* the newest record of the job directory, or the directory without one
    stuck,     \* records whose pending file lies beside the newest record
    blobs,     \* content -> the state of its file in the immutable-input directory
    handle,    \* UserJobStore.current
    op         \* the operation in progress

storeVars == <<disk, stuck, blobs, handle, op>>

UserJobRecord(kind, phase) ==
    [kind |-> kind, phase |-> phase, inputs |-> << >>, intent |-> FALSE, plan |-> None,
     approval |-> None, production |-> None, evidence |-> None, certificate |-> None]

NoJob == UserJobRecord(None, "Absent")
EmptyDirectory(kind) == UserJobRecord(kind, "Empty")
initial(kind) == UserJobRecord(kind, "Draft")

-----------------------------------------------------------------------------
(* validate_seal: what a record of a phase must carry. *)

Early == {"Draft", "UnresolvedIntent", "Cancelled"}
Observed == {"Executing", "ExecutionFailed", "EvidenceRejected", "RecoveryRequired",
             "Accepted", "RolledBack"}

requires_all_inputs(r) == r.phase \notin Early

validate_inputs(r) ==
    /\ DOMAIN r.inputs \subseteq required_input_roles(r.kind)
    /\ requires_all_inputs(r) => DOMAIN r.inputs = required_input_roles(r.kind)

validate_compiled_material(r) == r.phase \notin Early => r.intent /\ r.plan # None

\* The approval is one of this job's plan; every approval the host issues is.
validate_approval(r) ==
    r.phase \in Observed \cup {"Approved", "ApprovalExpired", "ProductionSignerUnavailable"}
        => r.approval # None

validate_production(r) == r.phase \in Observed => r.production # None

validate_evidence(r) ==
    IF r.evidence = None
    THEN r.phase \notin {"EvidenceRejected", "RecoveryRequired", "Accepted"}
    ELSE r.phase = "EvidenceRejected" => r.evidence = "rejected"

validate_certificate(r) ==
    IF r.certificate = None
    THEN r.phase \notin {"RecoveryRequired", "Accepted"}
    ELSE /\ r.certificate = r.production
         /\ r.phase \in {"Accepted", "RecoveryRequired"} => r.evidence = "accepted"

validate_seal(r) ==
    /\ validate_inputs(r)
    /\ validate_compiled_material(r)
    /\ validate_approval(r)
    /\ validate_production(r)
    /\ validate_evidence(r)
    /\ validate_certificate(r)

-----------------------------------------------------------------------------
(* The operations: the condition of each and the record it derives. *)

clear_compiled_material(r) ==
    [r EXCEPT !.plan = None, !.approval = None, !.production = None,
              !.evidence = None, !.certificate = None]

clear_derived_material(r) == [clear_compiled_material(r) EXCEPT !.intent = FALSE]

Editable(r) == r.phase \in {"Draft", "UnresolvedIntent"}

Imported(inputs, role, content) ==
    [x \in DOMAIN inputs \cup {role} |-> IF x = role THEN content ELSE inputs[x]]

can_import_input(r, role) == Editable(r) /\ role \in required_input_roles(r.kind)

import_input(r, role, content) ==
    [clear_derived_material(r) EXCEPT !.inputs = Imported(@, role, content), !.phase = "Draft"]

record_unresolved(r) ==
    [clear_compiled_material(r) EXCEPT !.intent = TRUE, !.phase = "UnresolvedIntent"]

can_record_compiled(r) == Editable(r) /\ required_input_roles(r.kind) \subseteq DOMAIN r.inputs

record_compiled(r) ==
    [clear_compiled_material(r) EXCEPT !.intent = TRUE, !.plan = r.inputs,
                                       !.phase = "PermissionRequired"]

can_record_canonical_approval(r) ==
    r.phase \in {"PermissionRequired", "ReadyForApproval", "ApprovalExpired"}

record_canonical_approval(r, approval) ==
    [r EXCEPT !.approval = approval, !.phase = "Approved"]

\* Only an approved job expires.
record_approval_expired(r) == [r EXCEPT !.phase = "ApprovalExpired"]

\* Of an approved job, or of one that waits for the signer already.
record_signer_unavailable(r) == [r EXCEPT !.phase = "ProductionSignerUnavailable"]

\* Mutant: a job that executes already is not observed again.
can_record_production_observation_Once(r) ==
    r.phase \in {"Approved", "ProductionSignerUnavailable", "RecoveryRequired"}

can_record_production_observation(r) ==
    r.phase \in {"Approved", "ProductionSignerUnavailable", "Executing", "ExecutionFailed",
                 "EvidenceRejected", "RecoveryRequired"}

record_production_observation(r, chain) ==
    [r EXCEPT !.production = chain,
              !.phase = IF @ = "RecoveryRequired" THEN @ ELSE "Executing"]

can_record_execution_failed(r) ==
    r.production # None /\ r.phase \in {"Executing", "ExecutionFailed"}

record_execution_failed(r) == [r EXCEPT !.phase = "ExecutionFailed"]

can_record_evidence(r) ==
    r.production # None /\ r.phase \in {"Executing", "ExecutionFailed", "RecoveryRequired"}

record_evidence(r, verdict) ==
    [r EXCEPT !.evidence = verdict,
              !.phase = IF @ = "RecoveryRequired" THEN @
                        ELSE IF verdict = "accepted" THEN "Executing" ELSE "EvidenceRejected"]

can_record_certificate(r, chain) ==
    r.phase = "Executing" /\ r.evidence = "accepted" /\ r.production = chain

record_certificate(r, chain) == [r EXCEPT !.certificate = chain, !.phase = "Accepted"]

can_record_recovery_verified(r, chain) ==
    r.phase = "RecoveryRequired" /\ r.production = chain /\ r.certificate = chain

record_recovery_verified(r) == [r EXCEPT !.phase = "Accepted"]

can_cancel_before_execution(r) == r.production = None /\ r.phase \notin Observed

cancel_before_execution(r) == [r EXCEPT !.phase = "Cancelled"]

can_record_rollback_observed(r, chain) == r.production # None /\ r.production = chain

record_rollback_observed(r) == [r EXCEPT !.phase = "RolledBack"]

-----------------------------------------------------------------------------
(* The files. *)

Idle == [pc |-> "idle", next |-> NoJob, content |-> None, then |-> "done"]

\* The operation goes on to commit the record; `then` says what it does behind it.
Commit(next, then) == op' = [Idle EXCEPT !.pc = "commit", !.next = next, !.then = then]

\* Mutant: the record is committed before the content is persisted.
persist_blob_Later(next, content) ==
    /\ blobs[content] # "pending"
    /\ Commit(next, "done")
    /\ UNCHANGED blobs

\* persist_blob: the content is there already, or a pending file is created for it.
\* A pending file that was left behind refuses the content for good.
persist_blob(next, content) ==
    IF blobs[content] = "present"
    THEN Commit(next, "done") /\ UNCHANGED blobs
    ELSE /\ blobs[content] = "absent"
         /\ blobs' = [blobs EXCEPT ![content] = "pending"]
         /\ op' = [Idle EXCEPT !.pc = "blob", !.next = next, !.content = content]

\* The rename that publishes the content, before the record that names it is written.
RenameBlob ==
    /\ op.pc = "blob"
    /\ blobs' = [blobs EXCEPT ![op.content] = "present"]
    /\ Commit(op.next, "done")
    /\ UNCHANGED <<disk, stuck, handle>>

\* read_blob behind input_bytes: the role has an input and its bytes are there.
input_bytes(r, role) == role \in DOMAIN r.inputs /\ blobs[r.inputs[role]] = "present"

\* load_history: the directory holds a history, and with one process writing it is
\* linear; a directory without any record is refused.
load_history == disk.phase \in UserJobPhase

\* create: the directory, and the pending file of the first record in it.
create(kind) ==
    /\ disk = NoJob
    /\ disk' = EmptyDirectory(kind)
    /\ handle' = EmptyDirectory(kind)
    /\ stuck' = {initial(kind)}
    /\ op' = [Idle EXCEPT !.pc = "write", !.next = initial(kind)]
    /\ UNCHANGED blobs

\* commit up to the pending file of write_state: the newest record is the one this
\* store holds, the next one is well formed, and no pending file has its name.
commit ==
    /\ op.pc = "commit"
    /\ load_history
    /\ handle = disk
    /\ validate_seal(op.next)
    /\ op.next \notin stuck
    /\ stuck' = stuck \cup {op.next}
    /\ op' = [op EXCEPT !.pc = "write"]
    /\ UNCHANGED <<disk, blobs, handle>>

\* The commit is refused; the operation ends without a trace.
CommitRefused ==
    /\ op.pc = "commit"
    /\ ~load_history \/ handle # disk \/ ~validate_seal(op.next) \/ op.next \in stuck
    /\ op' = Idle
    /\ UNCHANGED <<disk, stuck, blobs>>

\* write_state's rename, and the store adopts the record.
write_state ==
    /\ op.pc = "write"
    /\ disk' = op.next
    /\ handle' = op.next
    /\ stuck' = {}
    /\ UNCHANGED blobs

StoreInit ==
    /\ disk = NoJob
    /\ stuck = {}
    /\ blobs = [c \in UNION {Contents[k] : k \in DOMAIN Contents} |-> "absent"]
    /\ handle = NoJob
    /\ op = Idle
=============================================================================
