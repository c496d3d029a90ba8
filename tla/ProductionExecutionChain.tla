---------------------- MODULE ProductionExecutionChain ----------------------
(***************************************************************************)
(* One production job from approval to certificate: the desktop control    *)
(* session (apps/desktop/src-tauri/src/commands.rs), the pipeline that      *)
(* executes an approved job (production_pipeline.rs), the authority that    *)
(* owns policy and chain store (production-execution-authority-runtime) and *)
(* the durable chain (production-execution-runtime).                        *)
(*                                                                         *)
(* The session mutex is held for a whole command, so commands of one        *)
(* process do not interleave; what interleaves with a command is a crash,   *)
(* a failed write, a refused lease or signer, and the approval expiring     *)
(* between two of its steps.  Each critical section of the pipeline (one    *)
(* fresh trust lease, one clock reading) is one action, split where the     *)
(* signer is called, because a crash may fall on either side of the call.   *)
(*                                                                         *)
(* Data abstraction.  The chain is its newest record; the file protocol of  *)
(* write_state is that of IssuancePolicyStore, so here a commit takes       *)
(* effect, or fails without effect, or takes effect and reports an error    *)
(* (the pending file could not be removed).  The n-th token signed for a    *)
(* step is the number n: the token id is fixed by the plan and the nonce    *)
(* makes tokens differ.  The clock only knows where it is relative to the   *)
(* expiry of the approval.                                                  *)
(***************************************************************************)
EXTENDS Naturals

CONSTANTS
    N,             \* number of steps of the compiled plan
    NoChain,       \* no chain on disk, or the backend is not running
    MaxTokens,     \* bound: later tokens of a step are not told apart
    MaxClock,      \* bound: 2 lets the approval expire, 0 keeps it valid
    MaxFaults      \* bound: crashes, failed writes, refused leases and signers

ASSUME StepsAssumption == N \in Nat \ {0}
ASSUME ChainBoundsAssumption ==
    MaxTokens \in Nat \ {0} /\ MaxClock \in 0 .. 2 /\ MaxFaults \in Nat

Steps == 1 .. N

VARIABLES
    disk,          \* the newest record of the chain store
    handle,        \* ProductionExecutionChainStore.current
    status,        \* what the desktop control session shows
    op,            \* the command in progress
    clock,         \* 0 before, 1 at, 2 after approval.expires_at_epoch_s
    signed,        \* capability tokens signed for each step
    attested,      \* attestations signed
    granted,       \* <<step, token>> whose receipt was handed to the executor
    faults

vars == <<disk, handle, status, op, clock, signed, attested, granted, faults>>
ghosts == <<signed, attested, granted>>

Stage == {"Initial", "Approved", "CapabilitiesIssued", "CapabilitiesConsumed",
          "Executed", "Certified", "Cancelled", "RolledBack"}

\* token[s] is the recorded token of step s (0: none); used are the steps with a
\* consumption receipt; inWindow says that the execute receipt was issued before
\* the approval expired.
Chain == [stage : Stage, token : [Steps -> Nat], used : SUBSET Steps,
          inWindow : BOOLEAN]

InitialChain == [stage |-> "Initial", token |-> [s \in Steps |-> 0],
                 used |-> {}, inWindow |-> FALSE]

ASSUME NoChainAssumption == NoChain \notin Chain

Status == {"Down", "AwaitingApproval", "Approved", "Executed", "Certified",
           "Cancelled", "RolledBack"}

Pc == {"idle", "ensure", "sign", "record", "collect", "twin", "execute",
       "attest", "signAttestation", "certify"}

NoReceipts == [s \in Steps |-> 0]
Idle == [pc |-> "idle", step |-> 1, receipts |-> NoReceipts, inWindow |-> FALSE]

-----------------------------------------------------------------------------
(* ProductionExecutionChainStore::commit. *)

Fault == faults < MaxFaults /\ faults' = faults + 1

Committed(next) ==
    /\ handle = disk
    /\ disk' = next
    /\ handle' = next
    /\ UNCHANGED faults

\* The disk moved on (ConcurrentMutation); a write fails before the hard link; or the
\* record is published and only the removal of the pending file fails.
CommitFails(next) ==
    \/ handle # disk /\ UNCHANGED <<disk, handle, faults>>
    \/ handle = disk /\ Fault /\ UNCHANGED <<disk, handle>>
    \/ handle = disk /\ Fault /\ disk' = next /\ UNCHANGED handle

Return == op' = Idle

CountUp(n) == IF n < MaxTokens THEN n + 1 ELSE n

\* The next iteration of the loop over the plan's steps, or the code behind it.
Advance(pc, after) ==
    IF op.step < N
    THEN [op EXCEPT !.pc = pc, !.step = @ + 1]
    ELSE [op EXCEPT !.pc = after, !.step = 1]

-----------------------------------------------------------------------------
Init ==
    /\ disk = NoChain
    /\ handle = NoChain
    /\ status = "Down"
    /\ op = Idle
    /\ clock = 0
    /\ signed = [s \in Steps |-> 0]
    /\ attested = 0
    /\ granted = {}
    /\ faults = 0

Running == handle # NoChain
IsIdle == Running /\ op = Idle

\* The session from_chain_state builds for a recovered chain.
StatusOf(c) ==
    CASE c.stage = "Initial" -> "AwaitingApproval"
      [] c.stage \in {"Approved", "CapabilitiesIssued", "CapabilitiesConsumed"} -> "Approved"
      [] c.stage = "Executed" -> "Executed"
      [] c.stage = "Certified" -> "Certified"
      [] c.stage = "Cancelled" -> "Cancelled"
      [] c.stage = "RolledBack" -> "RolledBack"

\* Mutant: a chain interrupted before execution starts over from its approval.
Recover_StartsOver ==
    /\ ~Running
    /\ disk' = IF disk = NoChain THEN InitialChain
               ELSE IF disk.stage \in {"CapabilitiesIssued", "CapabilitiesConsumed"}
                    THEN [disk EXCEPT !.stage = "Approved", !.token = NoReceipts, !.used = {}]
                    ELSE disk
    /\ handle' = disk'
    /\ status' = StatusOf(disk')
    /\ UNCHANGED <<op, clock, ghosts, faults>>

\* Start of the backend: load_or_create the chain, rebuild the session from it.
Recover ==
    /\ ~Running
    /\ disk' = IF disk = NoChain THEN InitialChain ELSE disk
    /\ handle' = disk'
    /\ status' = StatusOf(disk')
    /\ UNCHANGED <<op, clock, ghosts, faults>>

Stop ==
    /\ handle' = NoChain
    /\ status' = "Down"
    /\ op' = Idle

\* The backend dies in the middle of a command.
Crash ==
    /\ Running
    /\ Fault
    /\ Stop
    /\ UNCHANGED <<disk, clock, ghosts>>

\* The operator closes the application between two commands.
Quit ==
    /\ IsIdle
    /\ Stop
    /\ UNCHANGED <<disk, clock, ghosts, faults>>

\* Time passes towards and beyond the expiry of a recorded approval.
Tick ==
    /\ disk # NoChain /\ disk.stage # "Initial"
    /\ clock < MaxClock
    /\ clock' = clock + 1
    /\ UNCHANGED <<disk, handle, status, op, ghosts, faults>>

-----------------------------------------------------------------------------
(* approve_desktop_job, cancel_desktop_job, rollback_desktop_job. *)

CanApprove == IsIdle /\ status = "AwaitingApproval" /\ handle.stage = "Initial"
ApprovedChain == [handle EXCEPT !.stage = "Approved"]

Approve ==
    /\ CanApprove
    /\ Committed(ApprovedChain)
    /\ status' = "Approved"
    /\ clock' = 0
    /\ UNCHANGED <<op, ghosts>>

ApproveFails ==
    /\ CanApprove
    /\ CommitFails(ApprovedChain)
    /\ UNCHANGED <<status, op, ghosts>>
    /\ clock' = IF disk' = disk THEN clock ELSE 0

\* Before an approval a cancellation lives in the session only.
CancelUnapproved ==
    /\ IsIdle
    /\ status = "AwaitingApproval"
    /\ status' = "Cancelled"
    /\ UNCHANGED <<disk, handle, op, clock, ghosts, faults>>

\* record_cancellation: approved, and no capability issued yet.
CanCancel ==
    /\ IsIdle
    /\ status = "Approved"
    /\ handle.stage = "Approved"
    /\ handle.token = NoReceipts

CancelledChain == [handle EXCEPT !.stage = "Cancelled"]

Cancel ==
    /\ CanCancel
    /\ Committed(CancelledChain)
    /\ status' = "Cancelled"
    /\ UNCHANGED <<op, clock, ghosts>>

CancelFails ==
    /\ CanCancel
    /\ CommitFails(CancelledChain)
    /\ UNCHANGED <<status, op, clock, ghosts>>

CanRollback == IsIdle /\ status = "Certified" /\ handle.stage = "Certified"
RolledBackChain == [handle EXCEPT !.stage = "RolledBack"]

Rollback ==
    /\ CanRollback
    /\ Committed(RolledBackChain)
    /\ status' = "RolledBack"
    /\ UNCHANGED <<op, clock, ghosts>>

RollbackFails ==
    /\ CanRollback
    /\ CommitFails(RolledBackChain)
    /\ UNCHANGED <<status, op, clock, ghosts>>

-----------------------------------------------------------------------------
(* start_desktop_job_execution: execute_approved_job. *)

\* The session is approved and not past its expiry, or it was recovered from an
\* execution without certificate whose execute receipt is inside the window.
CanExecute ==
    /\ IsIdle
    /\ \/ status = "Approved" /\ clock <= 1
       \/ status = "Executed" /\ handle.inWindow

\* Mutant: a chain whose capabilities are all consumed is not resumed.
Execute_NoResume ==
    /\ CanExecute
    /\ handle.stage \in {"Approved", "CapabilitiesIssued"}
    /\ op' = [op EXCEPT !.pc = "ensure"]
    /\ UNCHANGED <<disk, handle, status, clock, ghosts, faults>>

Execute ==
    /\ CanExecute
    /\ handle.stage \in {"Approved", "CapabilitiesIssued", "CapabilitiesConsumed"}
    /\ op' = [op EXCEPT !.pc = "ensure"]
    /\ UNCHANGED <<disk, handle, status, clock, ghosts, faults>>

\* resume_attestation: the execution is on disk, only its certificate is missing.
ResumeAttestation ==
    /\ CanExecute
    /\ handle.stage = "Executed"
    /\ op' = [op EXCEPT !.pc = "attest"]
    /\ UNCHANGED <<disk, handle, status, clock, ghosts, faults>>

\* ensure_capabilities: the step has a recorded token; verify_persisted_token.
EnsureExisting ==
    /\ op.pc = "ensure"
    /\ handle.token[op.step] # 0
    /\ clock = 0
    /\ op' = Advance("ensure", "collect")
    /\ UNCHANGED <<disk, handle, status, clock, ghosts, faults>>

\* ensure_capabilities: a new draft; issue_capability reserves and consumes its
\* intent and commits the policy.
Issue ==
    /\ op.pc = "ensure"
    /\ handle.token[op.step] = 0
    /\ handle.stage \in {"Approved", "CapabilitiesIssued"}
    /\ clock = 0
    /\ op' = [op EXCEPT !.pc = "sign"]
    /\ UNCHANGED <<disk, handle, status, clock, ghosts, faults>>

\* issue_capability: the signer answers with a token, or its answer is lost.
Sign ==
    /\ op.pc = "sign"
    /\ signed' = [signed EXCEPT ![op.step] = CountUp(@)]
    /\ \/ op' = [op EXCEPT !.pc = "record"] /\ UNCHANGED faults
       \/ Return /\ Fault
    /\ UNCHANGED <<disk, handle, status, clock, attested, granted>>

IssuedChain ==
    [handle EXCEPT !.stage = "CapabilitiesIssued",
                   !.token = [@ EXCEPT ![op.step] = signed[op.step]]]

CanRecordIssuance ==
    /\ op.pc = "record"
    /\ handle.stage \in {"Approved", "CapabilitiesIssued"}
    /\ handle.token[op.step] = 0

\* Mutant: each token is consumed right after it is issued.
RecordIssuance_ConsumeNow ==
    /\ CanRecordIssuance
    /\ Committed(IssuedChain)
    /\ op' = [op EXCEPT !.pc = "collect"]
    /\ UNCHANGED <<status, clock, ghosts>>

RecordIssuance ==
    /\ CanRecordIssuance
    /\ Committed(IssuedChain)
    /\ op' = Advance("ensure", "collect")
    /\ UNCHANGED <<status, clock, ghosts>>

RecordIssuanceFails ==
    /\ CanRecordIssuance
    /\ CommitFails(IssuedChain)
    /\ Return
    /\ UNCHANGED <<status, clock, ghosts>>

\* The receipt of the current step goes to the executor.
Hand ==
    /\ op' = [Advance("collect", "twin") EXCEPT !.receipts[op.step] = handle.token[op.step]]
    /\ granted' = granted \cup {<<op.step, handle.token[op.step]>>}

\* collect_authorization_receipts: a recorded receipt is verified and reused.
CollectPersisted ==
    /\ op.pc = "collect"
    /\ op.step \in handle.used
    /\ clock = 0
    /\ Hand
    /\ UNCHANGED <<disk, handle, status, clock, signed, attested, faults>>

\* consume_capability: authorize the recorded token at the current time.
CanConsume ==
    /\ op.pc = "collect"
    /\ handle.token[op.step] # 0
    /\ op.step \notin handle.used
    /\ handle.stage \in {"CapabilitiesIssued", "CapabilitiesConsumed"}
    /\ clock = 0

\* record_capability_consumption: the stage moves when all recorded tokens are used.
ConsumedChain ==
    LET used == handle.used \cup {op.step}
    IN  [handle EXCEPT
            !.used = used,
            !.stage = IF \A s \in Steps : handle.token[s] # 0 => s \in used
                      THEN "CapabilitiesConsumed" ELSE @]

\* The receipt is returned after it is durable.
Consume ==
    /\ CanConsume
    /\ Committed(ConsumedChain)
    /\ Hand
    /\ UNCHANGED <<status, clock, signed, attested>>

\* Mutant: the receipt is used although recording it failed.
ConsumeFails_Handed ==
    /\ CanConsume
    /\ CommitFails(ConsumedChain)
    /\ Hand
    /\ UNCHANGED <<status, clock, signed, attested>>

ConsumeFails ==
    /\ CanConsume
    /\ CommitFails(ConsumedChain)
    /\ Return
    /\ UNCHANGED <<status, clock, ghosts>>

\* The Occupational Twin runs and the execute receipt is issued at the current time.
Twin ==
    /\ op.pc = "twin"
    /\ op' = [op EXCEPT !.pc = "execute", !.inWindow = clock <= 1]
    /\ UNCHANGED <<disk, handle, status, clock, ghosts, faults>>

\* verify_capability_receipt_binding: the bundle carries exactly the recorded receipts.
ReceiptsBound ==
    \A s \in Steps : op.receipts[s] = IF s \in handle.used THEN handle.token[s] ELSE 0

CanRecordExecution ==
    /\ op.pc = "execute"
    /\ handle.stage = "CapabilitiesConsumed"
    /\ ReceiptsBound

ExecutedChain == [handle EXCEPT !.stage = "Executed", !.inWindow = op.inWindow]

RecordExecution ==
    /\ CanRecordExecution
    /\ Committed(ExecutedChain)
    /\ op' = [op EXCEPT !.pc = "attest"]
    /\ UNCHANGED <<status, clock, ghosts>>

RecordExecutionFails ==
    /\ CanRecordExecution
    /\ CommitFails(ExecutedChain)
    /\ Return
    /\ UNCHANGED <<status, clock, ghosts>>

\* issue_attestation: authorize_attestation checks the window of the execute receipt;
\* the intent is consumed and the policy committed before the signer is asked.
Attest ==
    /\ op.pc = "attest"
    /\ handle.stage = "Executed"
    /\ handle.inWindow
    /\ op' = [op EXCEPT !.pc = "signAttestation"]
    /\ UNCHANGED <<disk, handle, status, clock, ghosts, faults>>

SignAttestation ==
    /\ op.pc = "signAttestation"
    /\ attested' = CountUp(attested)
    /\ \/ op' = [op EXCEPT !.pc = "certify"] /\ UNCHANGED faults
       \/ Return /\ Fault
    /\ UNCHANGED <<disk, handle, status, clock, signed, granted>>

CanCertify == op.pc = "certify" /\ handle.stage = "Executed"
CertifiedChain == [handle EXCEPT !.stage = "Certified"]

RecordCertificate ==
    /\ CanCertify
    /\ Committed(CertifiedChain)
    /\ status' = "Certified"
    /\ Return
    /\ UNCHANGED <<clock, ghosts>>

RecordCertificateFails ==
    /\ CanCertify
    /\ CommitFails(CertifiedChain)
    /\ Return
    /\ UNCHANGED <<status, clock, ghosts>>

\* The step is refused by its own checks: the approval or the token has expired, or
\* the execute receipt lies outside the window.
Rejected ==
    /\ \/ op.pc \in {"ensure", "collect"} /\ clock # 0
       \/ op.pc = "attest" /\ ~handle.inWindow
    /\ Return
    /\ UNCHANGED <<disk, handle, status, clock, ghosts, faults>>

\* The lease, the policy commit, the signer or the Twin evidence is refused.
Refused ==
    /\ op.pc \in {"ensure", "sign", "collect", "twin", "attest", "signAttestation"}
    /\ Fault
    /\ Return
    /\ UNCHANGED <<disk, handle, status, clock, ghosts>>

Pipeline ==
    \/ EnsureExisting \/ Issue \/ Sign \/ RecordIssuance \/ RecordIssuanceFails
    \/ CollectPersisted \/ Consume \/ ConsumeFails \/ Twin
    \/ RecordExecution \/ RecordExecutionFails \/ Attest \/ SignAttestation
    \/ RecordCertificate \/ RecordCertificateFails \/ Rejected \/ Refused

Command ==
    \/ Approve \/ ApproveFails \/ CancelUnapproved \/ Cancel \/ CancelFails
    \/ Rollback \/ RollbackFails \/ Execute \/ ResumeAttestation

Next == Recover \/ Crash \/ Quit \/ Tick \/ Command \/ Pipeline

Spec == Init /\ [][Next]_vars

-----------------------------------------------------------------------------
TypeOK ==
    /\ disk \in Chain \cup {NoChain}
    /\ handle \in Chain \cup {NoChain}
    /\ status \in Status
    /\ op \in [pc : Pc, step : Steps, receipts : [Steps -> Nat], inWindow : BOOLEAN]
    /\ clock \in 0 .. 2
    /\ signed \in [Steps -> Nat]
    /\ attested \in Nat
    /\ granted \subseteq Steps \X Nat
    /\ faults \in 0 .. MaxFaults

Finished == {"Executed", "Certified", "RolledBack"}

\* Every receipt the executor ever got is on disk, for the token that is on disk
\* (consume_capability: "Receipt persistence precedes returning authorization to the
\* executor"), so a restart finds every use that may have had an effect.
ReceiptsAreDurable ==
    \A g \in granted : /\ disk # NoChain
                       /\ g[1] \in disk.used
                       /\ disk.token[g[1]] = g[2]

\* Crashes, lost answers and restarts may have several tokens signed for a step, but
\* the executor is only ever authorized with one of them: max_uses = 1 holds for the
\* step, not only for the token, although each authorize call starts from an empty
\* usage table.
OneTokenPerStep ==
    \A g, h \in granted : g[1] = h[1] => g = h

\* The chain store calls the capabilities consumed when the recorded ones are; only
\* the order of the pipeline (all tokens issued before the first is consumed) makes
\* that every step of the plan.
ConsumedCoversPlan ==
    disk # NoChain /\ disk.stage \in Finished \cup {"CapabilitiesConsumed"}
        => disk.used = Steps /\ \A s \in Steps : disk.token[s] # 0

\* A certificate is recorded only for an execution inside the approval window and
\* only after the signer attested it, whichever process run did which part.
CertifiedInWindow ==
    disk # NoChain /\ disk.stage \in {"Certified", "RolledBack"}
        => disk.inWindow /\ attested > 0

\* While the approval stays valid, no crash, lost answer, refused signer or failed
\* write at any step of an approved job keeps it from being certified by a later
\* attempt, unless it is cancelled.
ApprovedJobEnds ==
    (disk # NoChain /\ disk.stage = "Approved")
        ~> \/ clock > 0
           \/ disk # NoChain /\ disk.stage \in {"Certified", "Cancelled", "RolledBack"}

=============================================================================
