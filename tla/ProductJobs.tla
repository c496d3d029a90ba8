---------------------------- MODULE ProductJobs ----------------------------
(***************************************************************************)
(* The Product Alpha commands of the desktop backend                       *)
(* (apps/desktop/src-tauri/src/product_jobs.rs) over one user job: the      *)
(* record of UserJobStore on one side, the job's own durable production     *)
(* chain on the other.  The runtime mutex is held for a whole command, so   *)
(* commands do not interleave; a crash or a failed write may fall between   *)
(* any two of the commits a command makes.  A request whose expected        *)
(* digest is not the current one is refused without effect and is left      *)
(* out.                                                                     *)
(*                                                                         *)
(* The chain is what the commands read of it: its stage and the approval    *)
(* recorded in it.  Its steps behind the approval are those of              *)
(* ProductionExecutionChain, one stage at a time.                           *)
(***************************************************************************)
EXTENDS UserJobStore

CONSTANTS MaxApprovals,  \* bound: approvals the user gives
          MaxCuts        \* bound: crashes and failed writes

VARIABLES
    host,       \* the process: down, opening the job, up, or up without job runtime
    chain,      \* the job's production chain on disk
    approvals,  \* approvals issued so far
    lapsed,     \* approvals up to this number have expired
    cuts

prodVars == <<host, chain, approvals, lapsed, cuts>>
jobVars == <<disk, stuck, blobs, handle, op, host, chain, approvals, lapsed, cuts>>

Stages == <<"Initial", "Approved", "CapabilitiesIssued", "CapabilitiesConsumed", "Executed",
            "Certified", "RolledBack">>

Unstarted == [stage |-> "None", approval |-> 0]

JobInit ==
    /\ StoreInit
    /\ host = "down"
    /\ chain = Unstarted
    /\ approvals = 0
    /\ lapsed = 0
    /\ cuts = 0

Cut == cuts < MaxCuts /\ cuts' = cuts + 1

\* A command may begin: the runtime is there and its mutex is free.
Ready == host = "up" /\ op = Idle
WithJob == Ready /\ handle.phase \in UserJobPhase

-----------------------------------------------------------------------------
(* Start and stop of the process. *)

\* UserJobStore::open: acceptance does not survive a restart.
Reopened(r) == IF r.phase = "Accepted" THEN [r EXCEPT !.phase = "RecoveryRequired"] ELSE r

\* initialize_runtime: every job is opened; a directory without a record, or a
\* demotion that cannot be written, leaves the process without job runtime.
initialize_runtime ==
    /\ host = "down"
    /\ handle' = IF disk.phase = "Empty" THEN NoJob ELSE disk
    /\ IF disk.phase = "Empty" THEN host' = "unavailable" /\ UNCHANGED op
       ELSE IF Reopened(disk) = disk THEN host' = "up" /\ UNCHANGED op
       ELSE host' = "opening" /\ Commit(Reopened(disk), "done")
    /\ UNCHANGED <<disk, stuck, blobs, chain, approvals, lapsed, cuts>>

Stop ==
    /\ host' = "down"
    /\ handle' = NoJob
    /\ op' = Idle
    /\ UNCHANGED <<disk, stuck, blobs, chain, approvals, lapsed>>

Quit ==
    /\ op = Idle /\ host # "down"
    /\ Stop
    /\ UNCHANGED cuts

Crash ==
    /\ op # Idle
    /\ Cut
    /\ Stop

\* Mutant: a store whose write failed goes on with the record it meant to write.
HandleAfterFailure_Kept ==
    IF host = "opening" THEN NoJob ELSE IF op.pc = "write" THEN op.next ELSE handle

\* current is only assigned behind write_state; a job that could not be opened is not
\* kept.
HandleAfterFailure == IF host = "opening" THEN NoJob ELSE handle

HostAfterFailure == IF host = "opening" THEN "unavailable" ELSE host

\* A file operation fails: the command returns the error and leaves what it wrote.
WriteFails ==
    /\ op.pc \in {"blob", "commit", "write"}
    /\ Cut
    /\ op' = Idle
    /\ host' = HostAfterFailure
    /\ handle' = HandleAfterFailure
    /\ UNCHANGED <<disk, stuck, blobs, chain, approvals, lapsed>>

-----------------------------------------------------------------------------
(* The commands. *)

create_product_job ==
    /\ Ready
    /\ \E kind \in DOMAIN Contents : create(kind)
    /\ UNCHANGED prodVars

import_product_job_input ==
    /\ WithJob
    /\ \E role \in required_input_roles(handle.kind), content \in Contents[handle.kind] :
          /\ can_import_input(handle, role)
          /\ persist_blob(import_input(handle, role, content), content)
    /\ UNCHANGED <<disk, stuck, handle, prodVars>>

decode_intent_manifest(r) == input_bytes(r, "intent_manifest")
immutable_input(r, role) == role \in DOMAIN r.inputs

\* The outcome belongs to the compiler and the planner: an intent with open
\* questions is recorded as unresolved, a plan as compiled, and a rejection by
\* either returns before anything is recorded.
Prepared(r, artifacts) ==
    IF decode_intent_manifest(r) /\ \A role \in artifacts : immutable_input(r, role)
    THEN {record_unresolved(r)} \cup {c \in {record_compiled(r)} : can_record_compiled(r)}
    ELSE {}

prepare_static_social(r) == Prepared(r, {"approved_logo", "brand_profile", "approved_copy"})
prepare_background_cleanup(r) == Prepared(r, {"source_raster", "approved_cleanup_mask"})
prepare_brand_export(r) == Prepared(r, {"source_svg", "brand_manifest", "approved_logo"})
prepare_print_poster(r) == Prepared(r, {"source_svg", "print_specification"})

prepare_store(r) ==
    CASE r.kind = "StaticSocialPost" -> prepare_static_social(r)
      [] r.kind = "ImageBackgroundCleanup" -> prepare_background_cleanup(r)
      [] r.kind = "BrandCompliantImageExport" -> prepare_brand_export(r)
      [] r.kind = "PrintReadyPosterPreflight" -> prepare_print_poster(r)

prepare_product_job ==
    /\ WithJob
    /\ Editable(handle)
    /\ \E next \in prepare_store(handle) : Commit(next, "done")
    /\ UNCHANGED <<disk, stuck, blobs, handle, prodVars>>

\* The snapshots the approval is bound to compile the stored material once more.
build_product_control_snapshot(r) == r.plan # None

approve_product_job ==
    /\ WithJob
    /\ can_record_canonical_approval(handle)
    /\ build_product_control_snapshot(handle)
    /\ approvals < MaxApprovals
    /\ approvals' = approvals + 1
    /\ Commit(record_canonical_approval(handle, approvals'), "done")
    /\ UNCHANGED <<disk, stuck, blobs, handle, host, chain, lapsed, cuts>>

CanStart == WithJob /\ handle.phase = "Approved"

StartExpired ==
    /\ CanStart
    /\ handle.approval <= lapsed
    /\ Commit(record_approval_expired(handle), "done")
    /\ UNCHANGED <<disk, stuck, blobs, handle, prodVars>>

StartWithoutSigner ==
    /\ CanStart
    /\ handle.approval > lapsed
    /\ Commit(record_signer_unavailable(handle), "done")
    /\ UNCHANGED <<disk, stuck, blobs, handle, prodVars>>

\* The chain with_fresh_lease_for_job hands to the command: created at its first use.
ChainOfJob == IF chain = Unstarted THEN [stage |-> "Initial", approval |-> 0] ELSE chain

\* A chain at its initial stage takes the job's approval; a later one is only read.
start_product_job_execution ==
    /\ CanStart
    /\ handle.approval > lapsed
    /\ chain' = IF ChainOfJob.stage = "Initial"
                THEN [stage |-> "Approved", approval |-> handle.approval]
                ELSE chain
    /\ Commit(record_production_observation(handle, chain'), "done")
    /\ UNCHANGED <<disk, stuck, blobs, handle, host, approvals, lapsed, cuts>>

\* The chain state is read once, and all the commits of the command are made from it.
sync_product_job_from_production ==
    /\ WithJob
    /\ chain' = ChainOfJob
    /\ IF can_record_production_observation(handle)
       THEN Commit(record_production_observation(handle, chain'), "observed")
       ELSE UNCHANGED op
    /\ UNCHANGED <<disk, stuck, blobs, handle, host, approvals, lapsed, cuts>>

cancel_product_job ==
    /\ WithJob
    /\ can_cancel_before_execution(handle)
    /\ Commit(cancel_before_execution(handle), "done")
    /\ UNCHANGED <<disk, stuck, blobs, handle, prodVars>>

\* Two operations of the store that no command calls yet.
FailExecution ==
    /\ WithJob
    /\ can_record_execution_failed(handle)
    /\ Commit(record_execution_failed(handle), "done")
    /\ UNCHANGED <<disk, stuck, blobs, handle, prodVars>>

VerifyRecovery ==
    /\ WithJob
    /\ can_record_recovery_verified(handle, chain)
    /\ Commit(record_recovery_verified(handle), "done")
    /\ UNCHANGED <<disk, stuck, blobs, handle, prodVars>>

-----------------------------------------------------------------------------
(* The commits of a command. *)

\* Mutant: the certificate is recorded for a chain that has only executed.
Certifies_Executed(c) == c.stage \in {"Executed", "Certified"}

\* A certified chain carries a verified certificate with an accepting decision
\* (validate_seal of the chain state).
Certifies(c) == c.stage = "Certified"

\* apply_production_chain: the commits behind the observation, all made from the chain
\* state it was made of.  A recovered job gets no second certificate.
apply_production_chain(r) ==
    IF op.then = "observed" /\ Certifies(r.production) /\ can_record_evidence(r)
    THEN Commit(record_evidence(r, "accepted"), "evidence")
    ELSE IF /\ op.then = "observed" /\ r.production.stage = "RolledBack"
            /\ can_record_rollback_observed(r, r.production)
    THEN Commit(record_rollback_observed(r), "done")
    ELSE IF op.then = "evidence" /\ can_record_certificate(r, r.production)
    THEN Commit(record_certificate(r, r.production), "done")
    ELSE op' = Idle

Written ==
    /\ write_state
    /\ apply_production_chain(op.next)
    /\ host' = IF host = "opening" THEN "up" ELSE host
    /\ UNCHANGED <<chain, approvals, lapsed, cuts>>

Refused ==
    /\ CommitRefused
    /\ host' = HostAfterFailure
    /\ handle' = HandleAfterFailure
    /\ UNCHANGED <<chain, approvals, lapsed, cuts>>

Progress ==
    \/ RenameBlob /\ UNCHANGED prodVars
    \/ commit /\ UNCHANGED prodVars
    \/ Written
    \/ Refused

\* The chain moves on behind an approval, or is cancelled before any capability.
ChainMoves ==
    /\ \/ \E i \in 2 .. 6 : chain.stage = Stages[i] /\ chain' = [chain EXCEPT !.stage = Stages[i + 1]]
       \/ chain.stage = "Approved" /\ chain' = [chain EXCEPT !.stage = "Cancelled"]
    /\ UNCHANGED <<storeVars, host, approvals, lapsed, cuts>>

\* APPROVAL_TTL_S passes.
Lapse ==
    /\ lapsed < approvals
    /\ lapsed' = approvals
    /\ UNCHANGED <<storeVars, host, chain, approvals, cuts>>

JobCommand ==
    \/ create_product_job \/ import_product_job_input \/ prepare_product_job
    \/ approve_product_job \/ StartExpired \/ StartWithoutSigner
    \/ start_product_job_execution \/ sync_product_job_from_production
    \/ cancel_product_job \/ FailExecution \/ VerifyRecovery

JobNext ==
    initialize_runtime \/ Quit \/ Crash \/ WriteFails \/ JobCommand \/ Progress
    \/ ChainMoves \/ Lapse
-----------------------------------------------------------------------------
\* An accepted job, or one whose acceptance awaits its verification after a restart,
\* has accepting evidence and a certificate for the chain state it observed, and the
\* chain on disk is that one or its rollback: the three commits of a sync and the
\* chain's own steps never pair a certificate with another state of the chain.
AcceptedIsCertified ==
    disk.phase \in {"Accepted", "RecoveryRequired"} =>
        /\ disk.evidence = "accepted"
        /\ disk.certificate = disk.production
        /\ disk.certificate.stage = "Certified"
        /\ disk.certificate.approval = chain.approval
        /\ chain.stage \in {"Certified", "RolledBack"}

\* A record on disk never names an input whose bytes are not on disk, wherever an
\* import is cut short: input_bytes can read every role of a reopened job.
InputsAreStored ==
    \A role \in DOMAIN disk.inputs : blobs[disk.inputs[role]] = "present"

\* The durable chain never carries an approval that the durable job does not have: the
\* approval is on disk in the job's history before the chain takes it, and an approved
\* chain leaves the job no way back to before its approval.
ChainApprovalIsJobs ==
    chain.approval > 0 =>
        /\ disk.approval # None
        /\ chain.approval <= disk.approval

\* A job that executes on a certified chain is accepted by a later sync, whatever
\* crashes in between, unless the production is rolled back; only a commit cut short
\* between its pending file and the rename can keep it, because the same record can
\* then not be written again.
CertifiedJobAccepted ==
    (disk.phase = "Executing" /\ chain.stage = "Certified")
        ~> \/ disk.phase \in {"Accepted", "RolledBack"}
           \/ chain.stage = "RolledBack"
           \/ stuck # {}
=============================================================================
