# Verification of Ergaxiom

TLA+ models of Ergaxiom from the intent of a user to the attested certificate:
the compilers and planners, execution, trace and evidence, the certified
profession paths, and behind them the durable stores, key governance, the
production signer and the desktop backend. TLC checks the models on small
instances; TLAPS proves the main safety properties for every value of the
constants.

Contents: [the system](#1-the-system), [modules](#2-modules), [runs](#3-runs),
[fairness](#4-fairness), [proofs](#5-proofs),
[disagreements](#6-where-code-and-documents-disagree),
[observations](#7-observations), [limits](#8-what-is-not-modelled).

## 1. The system

An *intent* is compiled into a *work contract* that names constraints and proof
obligations, or answered with questions. The contract is compiled against a
*profession capsule* (which validators may vouch for what) and turned into an
*operator plan* (ordered steps with declared capability tokens). A run executes
the plan under signed, use-limited *capability tokens*; every use yields an
authorization receipt. The *occupational twin* is the transactional workspace
the operators change. The run leaves a *trace*, artifacts and proof results,
packed into an *evidence bundle*; the bundle is assessed by re-verifying the
trace and re-deciding acceptance in the *proof kernel*, and an *acceptance
certificate* is attested. In production the tokens and certificates are signed
by a Windows service holding TPM keys; the desktop backend talks to it over a
named pipe, checks its identity before every use, and keeps two durable stores:
the issuance policy store and the execution chain of a job. Keys and the
*trust state* that names them are administered with guarded mutations and
persisted under an accepted pointer.

| Component (crate or app) | State | Modelled in | What is hard |
|---|---|---|---|
| Persistent issuance policy store (`backend-issuance-runtime/persistent`) | directory of digest-chained records, in-memory policy per authority | `IssuancePolicyStore`, `AtMostOnceIssuance` | crashes between steps, several handles on one root, left-over files |
| In-memory issuance policy, development and production authorities, governed issuance, desktop approvals and snapshots | policies, approvals, receipts | `BackendIssuance` | genuine but outdated records presented together, clock set back, signer answers |
| Execution chain (`production-execution-runtime`), authority, desktop pipeline and control session | record chain on disk, handle, session, running command | `ProductionExecutionChain` | crash or lost answer between signer and record, approval expiring in mid-plan, resume from every stage |
| Product Alpha user jobs (`desktop-user-job-runtime`, `product_jobs.rs`) | job history and blobs on disk, the job's own chain | `UserJobStore`, `ProductJobs`, `DesktopBackend` | two durable stores changed by one command, crashes and short writes between the commits |
| P-256 key registry (`windows-production-key-governance-runtime`) | generations per identity, revision | `ProductionKeyRegistry` | stale snapshots, coinciding window boundaries, failure after a change |
| Ed25519 registry, capability runtime, governed verification | records, authorizers with usage counters | `GovernedKeyRegistry`, `GovernedVerification` | counters against rotation and revocation |
| Trust state (`windows-production-trust-state-runtime`) | activator memory, state and recovery files, accepted pointer | `TrustStateStore` | crash between files, replayed recovery, reader beside a writer |
| Signer host, transport, caller identity, signer service | worker, waker, watchdog, pipe, replay set, process table | `SignerPipeService` | stop against bind, deadline against blocking call, reused process ids, resent requests |
| Startup gate and execution boundary (`production_startup.rs`, `production_execution.rs`, `identity_proof.rs`) | active and candidate identity, issuance flag, baseline | `SignerIdentityGate` | service restarts during an exchange, slow exchanges, clock |
| Intent compilers, contract and plan compilers, typed planners | none (pure) | `WorkContract`, `SocialPostWork`, `CleanupWork`, `BrandWork`, `PrintWork`, `GraphicDesignerCapsule`, `WorkPreparation` | agreement of producer and checker, capsule replaced in between |
| Occupational twin, operator simulation | artifacts, revision, checkpoints, trace, packages | `TwinWorkspace`, `OperatorSimulation` | failure after partial application, rollback, re-use of ids |
| Plan trace, execution runtime | step states, receipt table | `AuthorizedTrace` | lost, repeated, reordered events; receipts shared between steps |
| Proof kernel, contract session, evidence runtime | admitted evidence | `ContractSession`, `EvidenceAssessment` | contradictory, replayed, self-declared evidence; claims that must be recomputed |
| Certified paths of cleanup, brand export and print preflight; PNG readers and writers | staged files of a request | `CleanupPath`, `BrandPath`, `PrintPath`, `PngFile`, `Attestation`, `CertifiedRun`, `CertifiedWork` | producer and validator written twice, files left by a failed attempt, material of two runs mixed |
| Attestation and purpose-locked issuance | none of their own | `Attestation`, `BackendIssuance` | a signer that answers something else |
| Windows bridge, UI Automation client and host | client phase, host's observation cache | `WindowsBridge` | an application its user changes and restarts, host ending in mid-call |
| Inkscape adapter, deliveries, rendered-page validators, wire protocols, provisioning, renderer, tools | files, key container | not modelled (section 8) | data and platform calls |

`PROJECT.json` lists every component with its sources and status, the hazards
with the line where each one bites, and for every definition the source lines
it translates.

## 2. Modules

Definitions keep the source's names where they model one function. A name with a
trailing `_Something` is a variant of the definition that follows it, with a
plausible mistake in it; no specification uses these. `.cfg` files give the
constants their values, with definitions at the end of the module a run names or
in an `MC...` module; `...Proofs` modules hold the theorems. A module of a run
may put two specifications that share no state side by side, with a variable
that says which of them a behaviour is of; its theorems then speak of exactly
the specification the run checks.

### Issuance and execution

**`AtMostOnceIssuance`** is the promise of durable issuance: intents are
consumed, then signed, each at most once.

**`IssuancePolicyStore`** (`persistent.rs`). `published` and `temps` are the
records and pending files on disk, `current` and `policy` what each authority
holds, `op` the call it is in. A record is the sequence of policies it
chains over, so that digest equality is sequence equality. `Authorize` reserves
and consumes in memory, `CommitScan` re-reads the chain and compares the tip,
`CreatePending`, `Publish` (hard link) and `RemovePending` are the file steps,
`Sign` the signer call; `IoError` fails any of them, `Crash` kills a process.

**`BackendIssuance`** (`backend-issuance-runtime` `lib.rs` and `production.rs`,
`capability-issuance-runtime`, governed issuance, `desktop-shell-runtime`). Two
jobs whose snapshots, approvals and command receipts accumulate; a caller
presents any combination of them to `issue_capability` or `issue_attestation` of
the development or the production authority, and the signer answers rightly, with
another payload or key, or fails. **`IssuancePolicy`** puts both policies side
by side.

**`ProductionExecutionChain`** (`production-execution-runtime`,
`production-execution-authority-runtime`, `production_pipeline.rs`,
`commands.rs`, `desktop-shell-runtime`). One job with a plan of `N` steps.
`disk` is the recovered tip of the chain, `handle` the store's copy, `status`
the control session's, `op` the running command with its program counter and the
receipts collected so far. Every recording operation has an outcome that takes
effect, one that fails, and one that takes effect and reports an error. The
signer call and the record after it are separate steps. The clock lets the
approval expire anywhere.

**`UserJobStore`** (`desktop-user-job-runtime`) has the phases of a user job, what
a record of each phase must carry, every operation that derives the next record,
and the pending files and blobs behind it. **`ProductJobs`** (`product_jobs.rs`)
composes it with the job's production chain: one action per commit a command
makes, crashes and failed writes between any two. **`DesktopBackend`** joins both
kinds of jobs; no command touches both, so a behaviour is one of either.

### Keys, trust and the signer

**`ProductionKeyRegistry`** and **`GovernedKeyRegistry`** model the two key
registries: `records`, `revision`, and per administrator the snapshot (`base`) a
guarded mutation was prepared from. `RotateGuarded` of the former includes the
two ways it fails after having changed the registry. **`GovernedVerification`**
(`governed-verification-runtime`, `capability-runtime`) extends the latter with
an authorizer per capability key: its usage counters, token pinning, time,
binding, subject and grant checks. **`KeyGovernance`** puts both registries side
by side.

**`TrustStateStore`** (`model.rs`, `store.rs`, `windows.rs` of the trust state
runtime). Activator memory, files and pointer; `persist_activated` and
`load_accepted` are one action per file, run by any number of administrators and
services, with crashes, I/O errors and left-over temporary files. Bootstrap looks
at the activator's own memory only, as in the code, and may come at any time.
`base` is a history variable: the accepted state a process's memory goes back to.

**`SignerPipeService`** (host, transport, caller identity, signer service). The
worker thread, the waker of the stop handler, the deadline watchdog and client
processes around one pipe instance; process ids are reused, requests resent.

**`SignerIdentityGate`** (`production_startup.rs`, `production_execution.rs`,
`identity_proof.rs`). Challenge, proof and verification are separate steps on a
clock; the gate keeps an active and a candidate identity, the boundary a
baseline; the service restarts and the administrator activates trust states in
between.

### Preparation of work

**`WorkContract`** has `compile_contract` and `compile_plan` as operators, each a
conjunction of the checks in the code. **`SocialPostWork`**, **`CleanupWork`**,
**`BrandWork`** and **`PrintWork`** have the intent compiler (questions,
validation, the contract built) and the planner (profile checks, the steps
planned) of one kind of work. The planner's tables of admitted inputs, outputs
(with their destinations) and permissions are translated from the planner, those
of the contract from the compiler. **`GraphicDesignerCapsule`** is the shipped
`profession.json` as far as these read it. **`WorkPreparation`** puts them in
sequence: an intent with any one field absent or wrong, answers to questions, a
capsule replaced and a contract altered between compiling and planning.

### Execution, trace and evidence

**`TwinWorkspace`** (`occupational-twin-runtime`) has artifacts, revision,
checkpoints, trace, receipts and sealed packages; `ApplyOperation` covers
preconditions, prepared commands, postconditions and the three outcomes.
**`OperatorSimulation`** extends it: a history of the workspace, then the
simulation loop step by step with injected faults and errors of the twin.
**`Rehearsal`** puts it beside the bridge below.

**`WindowsBridge`** (`windows-bridge-runtime`, `windows-uia-client-runtime`,
`hosts/windows-uia`). A call of the bridge is its steps through the client's
phases (`client`); the host caches observations, checks the expected state and
acts; in between the user changes the value or restarts the application under
any process id, and the host process may end. `signed` collects the packages;
verification is asked about every package that can be put together from the
parts of two.

**`ContractSession`** (`contract-runtime/runtime.rs`, `proof-kernel/engine.rs`)
admits evidence and decides. **`AuthorizedTrace`** (`trace.rs`, `verifier.rs`)
reads a trace event by event; its state is what both verifiers know so far.
**`EvidenceAssessment`** (`assessor.rs`) composes them: it extends the session,
instantiates the trace, and adds the envelope checks, the proof results and the
claimed decision.

### Certified paths

**`PngFile`** has the structural inspector, the pixel decoder, the restricted
decoder of the cleanup path and both sRGB normalisers, over chunk sequences and
small rasters with the five PNG filters modulo 256. **`Attestation`** is what
the paths share: signed packages, proof results, the bundle they assemble, its
replay manifest, the certificate and their verifiers.
**`CleanupPath`** applies a mask and validates the result with another decoder;
**`BrandPath`** judges an SVG, as a sequence of parser events, against the brand
manifest, before and after export; **`PrintPath`** does the same for a poster and
its PDF, with page boxes in binary32 points. **`CertifiedRun`** carries
prepared work through its path: stage, execute with an adapter that may fail or
misbehave, retry, certify from the material of one run or of two, attest with a
signer that answers anything. The material, what the adapters report and the
capsule are its constants; contract and plan are open until inputs are staged.
**`CertifiedWork`** gives the constants values and composes the run with
`WorkPreparation`, which makes the contract and the plan: every step of it is a
preparation, with `Prepare` of the run, or a step `Work` of the run, so what is
proved of `CertifiedRun` holds of it.

## 3. Runs

| Run | Instance | Shows |
|---|---|---|
| `policy_store` | one backend, two authorities, three intents, two faults (I/O error or crash) anywhere; in memory two desktop jobs before either issuance authority | `SignedIsDurable`: the signer is asked only for intents consumed on disk; `ImplementsAtMostOnce`: refinement, so once each; `RestartLoads`: a restarted backend gets its handles back; `IssuedUnderApproval`: only what was approved and executed is put before the signer, and once |
| `production_chain` | a desktop job with three plan steps, three faults, two clock ticks; a user job of each kind with two approvals and one crash or failed write | of the desktop job `ReceiptsAreDurable`, `OneTokenPerStep`, `ConsumedCoversPlan` and `ApprovedJobEnds` (while the approval is valid some later attempt finishes); of the user job `AcceptedIsCertified`, `InputsAreStored`, `ChainApprovalIsJobs` and `CertifiedJobAccepted` (a job over a certified chain is accepted by a later sync) |
| `key_governance` | one P-256 identity, three keys, times 0..3; Ed25519 keys of three roles under two key ids with tokens of which two share an id, times 0..2; two administrators each | `SuccessorsMeet`, `HistoryNarrows`; `ReceiptsNumberUses`, `RevocationStopsAuthorization` |
| `key_registry_receipts` | the P-256 part, smaller | counterexample to `EveryChangeReceipted` (section 6) |
| `governed_keys_window` | one role, three keys | counterexample to `RetiredWindowIsFinal` (section 6) |
| `trust_store` | two administrators that bootstrap, activate, recover and load at any time, the first state, a successor that raises the floor, one after it that would lower it, a replacement and its successor, two recoveries under one sequence number, one fault | `AcceptedIsComplete`; `FloorNeverFalls` and `RecoveryNotReplayed`: of an administrator whose memory goes back to the `accepted.json` it replaces |
| `signer_pipe` | two clients (one allowlisted), one request, two lives of the service, one client restart | `SignedOncePerInstance`, `PackageForCaller`, `DeadlineBounds` |
| `signer_pipe_stop` | no client | counterexample to `StopCompletes` (section 6) |
| `identity_gate` | two backends, three service processes, two trust states, TTL 2 above an I/O limit of 1 | `ChangeProvedTwice`, `EnabledMeansProved`, `LeaseFresh` |
| `operator_simulation` | two artifacts, two contents, five traced events, two rollbacks; a three-step plan, up to three invocations; two bridge calls with two values and two processes, one end of the host | `TraceExplainsState`, `SealedReproduces`; of the bridge `VerifiedActionTookPlace`: exactly the signed packages verify, and each stands for an action of its own on the observed state |
| `evidence_assessment` | three obligations (diverse, independent, optional); three steps, traces of up to four events with at most one flagged, ten receipt lists; up to three results or records | `TraceVerdictExact`, `AcceptedMeansVouched`, `AcceptedBundleIsProved` |
| `certified_work` | four kinds of work, one field wrong or absent, ten capsule edits, thirteen contract edits; 2 by 2 rasters, paths of four segments, eight poster edges, two attempts in a workspace whose writes and removals may fail, requests with up to two foreign parts | `QuestionsSuffice`, `CompiledIsPlannable` (the compilers' and the planners' tables agree); `DecodersRecoverRaster`, `PathBoundsExact`; `HonestRunCertifies`, `FailedPosterRetries`, `CertifiedFromOneRun`, `CertifiedIsOrdered`; `AttestedVerifies` |

The definition of a property carries a comment that states it. The runs leave out
what a theorem of section 5 or another property of the run already gives. The type
invariants of modules without theorems document their state.

*Bounds.* Two handles, administrators or clients are the least number that
interleave; a third adds no new order for the pairwise comparisons the code
makes, and the theorems of section 5 lift the bound where they apply. Three
faults let a crash hit a call, its retry and the recovery of the retry; with two,
as in the policy store's run, a call and its retry are hit and the recovery that
follows is undisturbed, the safety of any number being proved. Three
plan steps distinguish first, middle and last; three intents let each authority
commit between two commits of the other. Times 0..2 or 0..3 let every pair of
window boundaries be equal, adjacent or apart. Four events are the shortest
trace in which a dependent step runs after its dependency; at most one is
objectionable (`MaxFlagged`), since verdicts only collect objections. Two
bridge calls under one request id are the pair hardest to tell apart, and a
cache of two observations loses entries within them. A 2 by 2 raster has a pixel
with each combination of left and upper neighbour, which is what the PNG filters
read; the poster edges lie on both sides of the two-metre limit and of the
millimetre values whose points round in binary32; four path segments close a
subpath and draw on from it. Intents, contracts, capsules and certification
requests are a right one with any one thing changed (requests: two), since every check
rejects on its own. `MaxRecords`, `MaxTokens`, `MaxLog`, `MaxInstances`, `MaxStarts` and the
like only stop counters that grow without end.

*Symmetry* is used for evidence ids, administrators, public keys, and values and
processes of the bridge's application, in runs
that check no liveness.

*Deadlock* is checked in `production_chain` and `trust_store`. Elsewhere the
system may stop: bounded inputs are used up, every intent is consumed, or the
work is certified or refused.

## 4. Fairness

- `IssuancePolicyStore`: a started call goes on and a backend keeps opening its
  store. The call runs on one thread without waiting for anyone.
- `DesktopBackend`, desktop job: a started command runs on and the application
  is started again (weak fairness). Strong fairness stands for an operator who
  asks again for an approved job, and who restarts an application whose store
  handle is behind the disk, which the code reports as a concurrent mutation.
  Nothing is assumed of faults, which are bounded, or of the clock:
  `ApprovedJobEnds` claims nothing once the approval has expired.
- `DesktopBackend`, user job: a started command runs on and the runtime is
  initialised at start (weak); the interface keeps asking for a sync, and an
  application that reports its runtime unavailable is restarted (strong).
- `SignerPipeService`: the service's threads are scheduled and a timed wait
  ends. Nothing is assumed of clients or the control manager.

## 5. Proofs

Every theorem holds for any values of the constants, any number of steps and
any number of faults, under the named assumptions below. Each is about the
specification a run checks, or about one component of it.

| Module | Theorems | Inductive invariant |
|---|---|---|
| `IssuancePolicyProofs` | of the store `TypeCorrect`, `DurableBeforeSign`; for one backend process `AtMostOnce`, `LinearHistoryHolds`, `OnlyTipSignsHolds`, `Refinement` (the step simulation to `AtMostOnceIssuance`) | `DurInv` follows the intent of a call in flight from memory through the pending file to the published record; `OneInv`: the published records are one chain whose tip includes all others, and a handle that passed its comparison holds the tip while it is the only one in a call |
| | of the policy in memory `AlwaysIssuedUnderApproval` | `IssuanceInv`: every snapshot is one the desktop built for some job, an approved session's approval is among those issued, and what was asked of the signer is a registered scope, so that registering refuses the second request |
| `DesktopBackendProofs` | of the desktop job `TypeCorrect`, `ReceiptsDurable`, `OneTokenGranted`, `ConsumedCovers`, `CertifiedInside` | `ChainInv` adds what the pipeline relies on without testing it: all tokens are recorded before the first is consumed, and a handle behind the disk is behind only |
| | of the user job `AcceptanceCertified`, `InputsStored`, `ChainApprovalFromJob` | `JobInv` is about two records at once, the one on disk and the one the command is about to write; both are sound with respect to the chain, which may move on between the commits of a sync |
| `KeyGovernanceProofs` | of the P-256 registry `OneActiveHolds`, `KeysUniqueHolds`, `RevisionNames`, `DamageFrozen`, `HistoryOnlyNarrows`, `SuccessorsAlwaysMeet` | `RegistryInv`: an active generation is the last one of its identity, because a rotation retires the one it succeeds |
| | of governed verification `UsesNumbered`, `RevocationIsFinal` | `GovInv`: an authorizer belongs to a key the registry knows, and the registry takes no key id twice, so that no insertion or rotation resets a usage counter |
| `TrustStateStoreProofs` | `TypeCorrect`, `AcceptedComplete`, `LoadFinds` for any number of administrators and services; `FloorHolds`, `RecoveryOnce` likewise, of replacements by a process whose memory goes back to the pointer it replaces | `FilesInv`: what each program counter has written so far; `AheadInv`: the memory of every process is ahead of or equal to the accepted state it goes back to |
| `SignerProofs` | of the gate `TypeCorrect`, `ChangesProvedTwice`, `EnabledProved`, `LeasesFresh`, `LeasesFromOne` | `GateInv`: what an exchange has recorded lies in the past, and a pending identity has been proved once |
| | of the pipe service `SignsOnce`, `AnswersCaller` | `ServedInv`: the request in the pipe, the one handled and the one answered are the one the pipe's owner sent last; `ReplayInv`: a request the key was used for is in the replay set |
| `RehearsalProofs` | of the twin, with its own history and under a simulation with faults, `TypeCorrect`, `TraceExplains`, `RevisionsNameStates`, `ReceiptsUnique`, `InputsAreKept`, `SealedAlwaysReproduces` | `TraceInv`, from `StepShape`: every step leaves state and trace alone or appends the one event that leads from the old snapshot to the new one |
| | of the bridge `VerifiedAlwaysTookPlace` | `BridgeInv`: for each stage of a call what the host has seen and done by then, and for every signed package an action of its own, between its two observations |
| `EvidenceAssessmentProofs` | of the session `AcceptedVouched`, `IdsUnique`, `RejectionsFinal` | `SessionInv`: what the two admission checks established of each record |
| | of the trace `VerdictAlwaysExact`; of the bundle `AcceptedAlwaysProved` | `TraceInv`: what the verifier keeps while it reads (states, noted receipts, objections) is at every position what the events read so far show; `BundleInv` adds that a session opens only on a conforming trace and holds one record per result |
| `CertifiedRunProofs` | `CertifiedFromOneRunAlways` | `RunInv`: a run is an execution of the staged inputs by the trusted executor, or was claimed by a stranger and nothing was executed |
| | `AttestedVerifiesAlways` | `IssuedInv`: what was handed out was granted for the certificate there is |
| | `FailedPosterRetriesAlways` | `StagedInv`: what is staged is material of the kind; the rest is `FailedPosterRemoves`, that a failed attempt leaves the workspace as it was |

The argument for `CertifiedFromOneRun`: a signed record verifies only as one of
the two runs' own (`PackageTaken`); the certification compares every file of the
request with that record (`RecordBinds`), and recomputes the report from them, so
that the files and the report are that run's too. The probe of a cleanup is
signed apart and bound to the cleaned raster only, which is why the two jobs'
rasters have to differ.

A leaf of a proof is tried with Zenon for 3 s, then with SMT for 20 s, and only if
both fail, as on a busy machine, again with each for longer; the few that are known
to need Zenon for longer say so.

Where two specifications stand side by side, a lemma (`StoreBehaviour`,
`DesktopBehaviour`, `RegistryBehaviour`, `TwinBehaviour`, `BridgeBehaviour`) says
that a behaviour of the whole is one of the part.

*Assumptions.* Bounds are naturals and functions have their domains. Beyond that:

- a digest has one content (`DigestAssumption` of `IssuancePolicy` and
  `TrustStateStore`, `ReceiptsAssumption`), see section 8;
- `None` and other stand-ins for an absent value are no values
  (`NoneAssumption`, `NoChainAssumption`, `ContentsAssumption`);
- enumerations have the members the code gives them (`KindsAssumption`,
  `RolesAssumption`, `EventsAssumption`, `BundleAssumption`), records their
  fields (`OperationsAssumption`, `InvocationAssumption`, `StatesAssumption`,
  `RecoveriesAssumption`), and `max_uses` is a number (`TokensAssumption`);
- the dependencies of a step are earlier steps of its plan (`PlanAssumption` of
  `EvidenceAssessment` and `OperatorSimulation`; `compile_plan` refuses others);
- of a certified run (`CertifiedRun`): only kinds with a certified path are staged
  (`StagedAssumption`), the other job, parts of which are mixed in, was executed
  (`OtherAssumption`) and made another cleaned raster (`RastersDiffer`), and a
  failed attempt at a poster wrote no files but the four it has names for
  (`LeftAssumption`);
- an exchange is cut off before a proof or lease has expired
  (`DeadlineAssumption`: 5 seconds for its write and its read each, against 30).

TLC evaluates all of them on the instances of the runs. The bridge needs none.

*Only model-checked.*

- Liveness, which the prover does not support: `RestartLoads`,
  `ApprovedJobEnds`, `CertifiedJobAccepted`, `DeadlineBounds`.
- Of `certified_work` what rests on computation with data. `DecodersRecoverRaster`
  and `PathBoundsExact` say what recursions over chunks, rows and segments
  compute, for which a proof would need induction over data; `CertifiedIsOrdered`
  and `HonestRunCertifies` rest on them and on arithmetic in binary32.
  `QuestionsSuffice` and `CompiledIsPlannable` are statements about the shipped
  capsule and the concrete documents built from it, whose finite number of cases
  the run goes through.

## 6. Where code and documents disagree

With a run whose counterexample shows it:

- `rotate_guarded` of the P-256 registry changes the current record and
  validates it afterwards; with a retirement time equal to `not_before` it
  returns an error, without a receipt, on a registry that can no longer be
  digested (`key_registry_receipts`; document 41 line 143).
- A retired Ed25519 key can be rotated again, which moves the end of its window
  (`governed_keys_window`; test `governance.rs` line 78).
- A stop control that lands between the worker's test of the flag and its bind
  is never delivered (`signer_pipe_stop`; document 43 line 88).

Met while modelling, without a run of their own:

- Two backend processes on one policy store root (the runs have one) can both pass the tip
  comparison and both publish a successor (`persistent.rs:189`; document 52
  line 26). `DurableBeforeSign` still holds.
- The pending file of the *initial* policy record has a constant name and is
  opened with `create_new`; left behind by a crash it blocks every later attempt
  (`persistent.rs:483`; document 52 line 9). `RestartLoads` therefore starts
  from a store that has its root record.
- A key inserted with activation at time 0 is in the registry, but its receipt
  would have the effective time 0, which the seal refuses
  (`windows-production-key-governance-runtime/src/lib.rs:144`; document 41 line
  143): the caller gets an error and no receipt. `EveryChangeReceipted` leaves
  such registries out, so that its counterexample is the one above.
- "Once a checkpoint exists, bootstrap cannot be repeated" (document 42 line 59).
  `bootstrap` refuses only when the activator's own memory holds a checkpoint
  (`model.rs:905`), and `persist_activated` does not compare the pointer on disk
  (`store.rs:157`): a new activator bootstraps again, and `accepted.json` goes
  back to revision 1 and recovery sequence 0. `FloorNeverFalls` and
  `RecoveryNotReplayed` say nothing of this replacement.
- Of two administrators the one that replaces `accepted.json` last wins, even
  with an older state (`store.rs:157`; document 41 line 192). The two properties
  leave this replacement out as well.
- A deadline that expires before the worker has entered its blocking call
  cancels nothing (`windows.rs:343` of the transport; document 43 line 84);
  `DeadlineBounds` excepts this case.
- `SERVICE_RUNNING` is reported before the pipe is bound (`windows.rs:293` of
  the host; document 43 lines 61 and 76).
- Work is accepted with contradictory results on an *optional* obligation
  (`engine.rs:137`; document 02 line 24).
- A token id is pinned per verification key, not per issuer
  (`governed-verification-runtime/src/lib.rs:57`; document 06 line 79).

## 7. Observations

Behaviours the models follow and a reader of the code may not expect.

*User jobs.* The four intent compilers take input references that begin with
`contract://inputs/`, while `product_jobs.rs:1041` supplies
`ergaxiom-immutable://sha256/...`, so preparing a complete intent is refused
today; `ProductJobs` leaves the compiler's verdict open. A crash between the
chain's approval and the job's observation of it leaves the job Approved over an
approved chain: it may then be cancelled, or expire and be approved again, and
the chain keeps the first approval. A write cut short between creating its
pending file and the rename makes that same record, or that same input,
unwritable from then on; `CertifiedJobAccepted` excepts it, and after a restart
it can keep the runtime unavailable. A crash while a job is created leaves an
empty directory that has the same effect. From ProductionSignerUnavailable a job
cannot be started again, RecoveryRequired never returns to Accepted, and a
cancelled chain leaves its job Executing.

*Identity gate.* After the user has recovered the gate for a new service process
issuance is shown as enabled, while the execution boundary keeps refusing leases
from that process until the backend restarts (`production_execution.rs:246`).

*Issuance.* The in-memory policy does not know of cancellations, which the
durable chain does. An intent includes its issue time, so one token id can be
authorized again at another second. A consumed authorization whose signer call
fails stays consumed.

*Trust states.* A recovery keeps the revoked keys of the state it replaces; a
normal activation does not compare them, so that there a revocation lasts only as
long as those who sign the states repeat it.

*Certified paths.* A failed brand execution or cleanup probe leaves its files, so
its request id cannot be used again in that workspace. A failed print execution
removes them, with two exceptions: when the write of the source fails it returns
at once (`runtime.rs:99`), and a removal that fails is ignored (`runtime.rs:467`).
Either leaves a file for which every later attempt is refused;
`FailedPosterRetries` excepts both. The print planner accepts repeated
permissions, which the other planners refuse. The certification of
a brand export recomputes the normalisation, that of a poster does not. The print
report has no failure code for an unsupported number of paths. Brand copy that needs
escaping is refused by the path's own parser. The cleanup validator compares no
colour of removed pixels. Page boxes survive their round trip through binary32
up to the two-metre limit of the code; from about 2.89 m they would not.
Certification compares artifacts with each other and with the evidence, not with
the inputs the contract names.

*Windows bridge.* The host acts on what it saw at its check; the user may still
change the target before the action, and the package says what was seen. An
application that goes away between the two ends the host process. After a refused
call the client is ready again only after one more failing call. Two observations
of the same state within a millisecond have one digest, and digests that were
used stay in the host's queue until newer ones displace them.

## 8. What is not modelled

Signatures, hashes and seals are taken as ideal: equality of digests is equality
of content, a signature verifies exactly under its key. File-system calls take
effect in the order issued; power loss that reorders them is outside the models.
Access-control lists, path and size checks, JSON schemas and wire encodings are one
success or failure where they guard a step, and left out otherwise. XML and PDF
are parser events and page objects; deflate and CRC succeed or fail. Two
backends over one user-job directory are not modelled: the runtime mutex orders
the commands of one process only.

Components without a model:

- *Inkscape adapter and execution evidence*: one child process on files of its
  own directory and edits of XML text. The certified paths treat it as the
  external renderer whose output they inspect.
- *Graphic certified deliveries*: sequential calls of planning, rendering,
  validation and assessment without state of their own; the same steps are
  modelled for three certified paths.
- *Graphic designer twin, contrast, text and logo validators*: geometry and
  folds over the pixels of a real page; a raster small enough to enumerate never
  holds what they look for.
- *Signer protocols, CNG provider, production signer, provisioning, DPAPI
  signer*: encodings and single calls into Windows; the decisions before
  them are in `SignerPipeService`.
- *Deployment manifest, deployment and installation evidence*: files written
  once and compared field by field; facts collected in one pass.
- *Desktop renderer, release and catalogue tools*: presentation and offline
  scripts without authority or running state.
