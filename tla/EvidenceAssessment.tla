------------------------- MODULE EvidenceAssessment -------------------------
(***************************************************************************)
(* assess_bundle (evidence-runtime): an evidence bundle carries an         *)
(* authorized trace, artifacts, proof results and a claimed decision.  The *)
(* trace is verified (AuthorizedTrace), every proof result is put through  *)
(* a new contract session (ContractSession), and the claimed decision must *)
(* be the one the session reaches.  Any failed check refuses the bundle.   *)
(* A session is also used directly by its callers (phase "session").       *)
(***************************************************************************)
EXTENDS ContractSession, Sequences

CONSTANTS Steps, PlanSeal, Events, Submissions, None, MaxEvents, MaxFlagged,
          Seals,          \* contract, capsule and plan a bundle can name
          ArtifactLists,  \* sequences of [id, role] a bundle can carry
          Results         \* proof results a bundle can carry

\* compile refuses a plan with an unknown dependency; a token and the digest of
\* a receipt are never absent; a digest has one content.
ASSUME PlanAssumption ==
    \A s \in DOMAIN Steps : /\ Steps[s].depends_on \subseteq DOMAIN Steps
                            /\ None \notin Steps[s].tokens
ASSUME EventsAssumption ==
    \A e \in Events : e.status \in {"STARTED", "SUCCEEDED", "FAILED", "ROLLED_BACK", "SKIPPED"}
ASSUME ReceiptsAssumption ==
    \A p \in Submissions : \A i, j \in DOMAIN p :
        /\ p[i].digest # None
        /\ p[i].intact /\ p[j].intact /\ p[i].digest = p[j].digest => p[i] = p[j]
ASSUME BundleAssumption ==
    /\ \A list \in ArtifactLists : \A i \in DOMAIN list :
           list[i] = [id |-> list[i].id, role |-> list[i].role]
    /\ \A r \in Results : r.status \in {"passed", "failed", "unknown"}

VARIABLES presented, events, states, step_receipts, receipt_steps,
          plan_flags, auth_flags,
          phase,      \* of the assessment
          artifacts,  \* the bundle's artifacts
          results,    \* proof results taken into the session
          claimed     \* the claimed decision once it is confirmed, << >> before

Trace == INSTANCE AuthorizedTrace

traceVars == <<presented, events, states, step_receipts, receipt_steps,
               plan_flags, auth_flags>>
bundleVars == <<artifacts, results, claimed>>
allVars == <<vars, traceVars, phase, bundleVars>>

Counts == 0 .. Cardinality(Mandatory)
Claims == [status : {"accepted", "rejected", "blocked"},
           passed : Counts, failed : Counts, unknown : Counts]

AssessmentTypeOK ==
    /\ TypeOK /\ Trace!TypeOK
    /\ phase \in {"session", "bundle", "results", "assessed", "refused"}
    /\ artifacts \in ArtifactLists \cup {<< >>}
    /\ results \subseteq Results
    /\ claimed \in Claims \cup {<< >>}

\* The session of a bundle is created by OpenSession; until then its
\* variables are at rest.
AssessmentInit ==
    /\ Init /\ Trace!Init
    /\ phase \in {"session", "bundle"}
    /\ phase = "session" => presented = << >>
    /\ phase = "bundle" => assurance = 0 /\ unknowns = 0
    /\ artifacts = << >> /\ results = {} /\ claimed = << >>

UseSession == phase = "session" /\ Next /\ UNCHANGED <<traceVars, phase, bundleVars>>

ReadTrace == phase = "bundle" /\ Trace!Next /\ UNCHANGED <<vars, phase, bundleVars>>

index_artifacts(list) == \A i, j \in DOMAIN list : list[i].id = list[j].id => i = j

\* Bindings, claimed assurance, trace verdict and its claim, artifact ids.
\* None of these checks has an effect but refusal.
EnvelopeOK(seal, claimed_level, level, conforms, list) ==
    /\ seal = PlanSeal
    /\ claimed_level = level
    /\ conforms = Trace!conforms_to_authorized_plan
    /\ Trace!conforms_to_authorized_plan
    /\ index_artifacts(list)

OpenSession(seal, claimed_level, level, conforms, list) ==
    /\ phase = "bundle"
    /\ IF EnvelopeOK(seal, claimed_level, level, conforms, list)
         THEN /\ phase' = "results"
              /\ assurance' = level
              /\ unknowns' \in 0 .. MaxUnknowns
              /\ artifacts' = list
         ELSE phase' = "refused" /\ UNCHANGED <<assurance, unknowns, artifacts>>
    /\ UNCHANGED <<traceVars, admitted, results, claimed>>

Listed(id) == \E i \in DOMAIN artifacts : artifacts[i].id = id
RoleOf(id) == artifacts[CHOOSE i \in DOMAIN artifacts : artifacts[i].id = id].role

ResultOK(r) ==
    /\ \A s \in results : s.id # r.id
    /\ r.obligation \in Obligations
    /\ r.claim = Constraint[r.obligation]
    /\ r.mandatory = (r.obligation \in Mandatory)
    /\ Listed(r.subject)
    /\ \A a \in r.evidence : Listed(a) /\ RoleOf(a) = "evidence"

truth_value(status) ==
    CASE status = "passed" -> "true" [] status = "failed" -> "false"
      [] status = "unknown" -> "unknown"

RecordOf(r) ==
    [id |-> r.id, obligation |-> r.obligation, constraint |-> r.claim,
     contract |-> Contract, validator |-> r.validator, version |-> r.version,
     class |-> r.class, result |-> truth_value(r.status)]

TakeResult(r) ==
    /\ phase = "results"
    /\ \/ /\ ResultOK(r) /\ IngestEvidence(RecordOf(r))
          /\ results' = results \cup {r}
          /\ UNCHANGED phase
       \/ /\ ~ (ResultOK(r) /\ BindingAdmits(RecordOf(r)) /\ KernelAdmits(RecordOf(r)))
          /\ phase' = "refused"
          /\ UNCHANGED <<vars, results>>
    /\ UNCHANGED <<traceVars, artifacts, claimed>>

CountIn(obligation_states) ==
    Cardinality({o \in Mandatory : StateFor(o) \in obligation_states})

count_mandatory ==
    [passed |-> CountIn({"satisfied"}), failed |-> CountIn({"failed", "invalidated"}),
     unknown |-> CountIn({"pending", "indeterminate"})]

\* Mutant: the claimed counts are compared with the kernel's, the claimed status is not.
validate_claimed_decision_CountsOnly(c) ==
    /\ \A k \in DOMAIN count_mandatory : c[k] = count_mandatory[k]
    /\ ~ (Decision = "accepted" /\ count_mandatory.unknown > 0)

validate_claimed_decision(c) ==
    /\ c.status = Decision
    /\ \A k \in DOMAIN count_mandatory : c[k] = count_mandatory[k]
    /\ ~ (Decision = "accepted" /\ count_mandatory.unknown > 0)

Conclude(c) ==
    /\ phase = "results"
    /\ IF validate_claimed_decision(c)
         THEN phase' = "assessed" /\ claimed' = c
         ELSE phase' = "refused" /\ UNCHANGED claimed
    /\ UNCHANGED <<vars, traceVars, artifacts, results>>

AssessmentNext ==
    \/ UseSession
    \/ ReadTrace
    \/ \E seal \in Seals, claimed_level, level \in 0 .. Levels,
          conforms \in BOOLEAN, list \in ArtifactLists :
          OpenSession(seal, claimed_level, level, conforms, list)
    \/ \E r \in Results : TakeResult(r)
    \/ \E c \in Claims : Conclude(c)

AssessmentSpec == AssessmentInit /\ [][AssessmentNext]_allVars

-----------------------------------------------------------------------------
(* Properties *)

\* verify_authorized_trace is exact on every trace a bundle can carry (see
\* AuthorizedTrace).
TraceVerdictExact == Trace!VerdictExact

\* A bundle assessed as accepted stands on work that was done as planned and
\* on results that are tied to it: every step of the plan ran in order under
\* its own receipt or was optional, and each mandatory obligation was found
\* true by bound validators, in results that name the bundle's artifacts and
\* rest only on artifacts listed as evidence; nothing found it false.
AcceptedBundleIsProved ==
    phase = "assessed" /\ claimed.status = "accepted" =>
        /\ Trace!EventsBelong /\ Trace!ReceiptsMatchSteps
        /\ \A s \in DOMAIN Steps : Trace!Ran(s) \/ Trace!LeftOut(s)
        /\ \A o \in Mandatory :
              /\ \E r \in results : r.obligation = o /\ r.status = "passed"
              /\ \A r \in results : r.obligation = o => r.status # "failed"
        /\ \A r \in results :
              /\ r.validator \in Bound[r.obligation] /\ r.class = Class[r.validator]
              /\ \E i \in DOMAIN artifacts : artifacts[i].id = r.subject
              /\ \A a \in r.evidence : \E i \in DOMAIN artifacts :
                     artifacts[i] = [id |-> a, role |-> "evidence"]
        /\ claimed.passed = Cardinality(Mandatory)
=============================================================================
