---------------------------- MODULE WorkContract ----------------------------
(***************************************************************************)
(* compile_contract (contract-runtime) and compile_plan (operator-plan-    *)
(* runtime) as operators: what a Work Contract and an Operator Plan must   *)
(* be, against a Profession Capsule, to be sealed.  A document is a record *)
(* of what the compilers read; a canonical digest is injective, so the     *)
(* document itself stands for its digest.  Lists keep their order where    *)
(* the code compares order and can hold an identifier twice.               *)
(***************************************************************************)
EXTENDS Naturals, Sequences, FiniteSets, Functions

None == "none"

ContractInput == "contract://inputs/"
Named(names) == {<<n>> : n \in names}
FieldsOf(artifacts) == artifacts \X {"uri", "media_type", "sha256"}

Present(intent, fields) == \A f \in fields : intent[f] # None
Missing(intent, fields) == {f \in fields : intent[f] = None}
WellFormed(intent, fields) == \A f \in fields : intent[f] # "bad"

\* The compilers accept an input under contract://inputs/ only.
ArtifactsWellFormed(intent, artifacts) ==
    /\ WellFormed(intent, FieldsOf(artifacts))
    /\ \A a \in artifacts : intent[<<a, "uri">>] \in {None, ContractInput}

\* The outcomes of the intent compilers and of the planners.
Rejected == [status |-> "rejected"]
NeedsResolution(fields) == [status |-> "asked", fields |-> fields]
Sealed(document) == [status |-> "sealed", document |-> document]

-----------------------------------------------------------------------------
(* Contracts *)

Ids(list) == {list[i].id : i \in DOMAIN list}
ById(list, id) == list[CHOOSE i \in DOMAIN list : list[i].id = id]
Unique(list) == \A i, j \in DOMAIN list : list[i] = list[j] => i = j
index_by_id(list) ==
    "" \notin Ids(list) /\ \A i, j \in DOMAIN list : list[i].id = list[j].id => i = j

input(id) == [id |-> id, kind |-> id, immutable |-> TRUE]
output(id, kind, destination, media_type) ==
    [id |-> id, kind |-> kind, destination |-> destination, media_type |-> media_type,
     required |-> TRUE]

constraint(id) == [id |-> id, mandatory |-> TRUE]

obligation(id, validators, independence, evidence) ==
    [id |-> id, constraint_id |-> id, validator_ids |-> validators,
     mandatory |-> TRUE, independence |-> independence, evidence_types |-> evidence]

\* E3 of the levels E0 .. E5.
acceptance == [minimum |-> 3, unknowns_must_be_empty |-> TRUE,
               all_mandatory_proofs_must_pass |-> TRUE,
               validator_conflicts_allowed |-> FALSE]

ContractSchema == "0.2.0"
CapsuleSchema == "0.1.0"

validate_schema_versions(contract, capsule) ==
    contract.schema_version = ContractSchema /\ capsule.schema_version = CapsuleSchema

validate_capsule_binding(contract, capsule) ==
    contract.capsule_id = capsule.capsule_id /\ contract.capsule_version = capsule.version

validate_acceptance_policy(contract) ==
    /\ contract.acceptance.unknowns_must_be_empty
    /\ contract.acceptance.all_mandatory_proofs_must_pass
    /\ ~ contract.acceptance.validator_conflicts_allowed

validate_required_constraints(job, hard) ==
    \A c \in job.required_constraints : c \in Ids(hard) /\ ById(hard, c).mandatory

\* An obligation's validators are known, distinct, claim its constraint,
\* reach the independence it asks for and support its evidence.
validate_obligation(o, validators) ==
    LET chosen == Range(o.validator_ids)
        independent == {v \in chosen : ById(validators, v).independence # "executor"}
    IN  /\ o.validator_ids # << >> /\ Unique(o.validator_ids)
        /\ \A v \in chosen :
              v \in Ids(validators) /\ o.constraint_id \in ById(validators, v).claims
        /\ Cardinality(independent) >= (CASE o.independence = "executor"    -> 0
                                          [] o.independence = "independent" -> 1
                                          [] o.independence = "diverse"     -> 2)
        /\ o.evidence_types \subseteq
              UNION {ById(validators, v).evidence_types : v \in chosen}

CapsuleMinimum(capsule, job) ==
    IF job.id \in DOMAIN capsule.minimum_assurance_by_job_type
      THEN capsule.minimum_assurance_by_job_type[job.id] ELSE job.minimum

\* Every mandatory constraint has a mandatory obligation, and there is one.
ProofsCover(contract) ==
    LET proofs == {o \in Range(contract.obligations) : o.mandatory}
    IN  /\ proofs # {}
        /\ \A c \in Range(contract.hard) :
              c.mandatory => \E o \in proofs : o.constraint_id = c.id

\* compile_contract succeeds.
Compiles(contract, capsule) ==
    /\ validate_schema_versions(contract, capsule)
    /\ validate_capsule_binding(contract, capsule)
    /\ validate_acceptance_policy(contract)
    /\ index_by_id(capsule.job_types) /\ index_by_id(capsule.validators)
    /\ index_by_id(contract.hard) /\ index_by_id(contract.obligations)
    /\ contract.job_type \in Ids(capsule.job_types)
    /\ LET job == ById(capsule.job_types, contract.job_type)
       IN  /\ validate_required_constraints(job, contract.hard)
           /\ \A o \in Range(contract.obligations) :
                 o.constraint_id \in Ids(contract.hard)
                     /\ validate_obligation(o, capsule.validators)
           /\ ProofsCover(contract)
           /\ contract.acceptance.minimum >= CapsuleMinimum(capsule, job)

\* The seal of a compiled contract.
Seal(contract, capsule) == [contract |-> contract, capsule |-> capsule]

-----------------------------------------------------------------------------
(* Plans *)

PlanSchema == "0.1.0"

capability(suffix, capability_name, resource, access) ==
    [token |-> suffix, step |-> suffix, capability |-> capability_name,
     resource |-> resource, access |-> access]

step(id, sequence, operator, version, depends_on, inputs, outputs) ==
    [id |-> id, sequence |-> sequence, operator |-> operator, version |-> version,
     depends_on |-> depends_on, inputs |-> inputs, outputs |-> outputs,
     tokens |-> <<id>>, mandatory |-> TRUE, rollback |-> None]

\* validate_bindings: the plan names the contract and the capsule it was
\* compiled against.
validate_bindings(plan, capsule, seal) ==
    /\ plan.contract_id = seal.contract.id
    /\ plan.contract_digest = seal.contract
    /\ plan.capsule_id = capsule.capsule_id
    /\ plan.capsule_digest = seal.capsule

index_operators(capsule) == index_by_id(capsule.operators)

validate_unique_step_values(s) ==
    Unique(s.depends_on) /\ Unique(s.inputs) /\ Unique(s.outputs) /\ Unique(s.tokens)

\* A step's operator is one the job type allows, in the capsule's version,
\* and the steps it depends on come before it.
StepOK(s, plan, capsule, job) ==
    /\ s.operator \in Range(job.operator_ids)
    /\ s.operator \in Ids(capsule.operators)
    /\ s.version = ById(capsule.operators, s.operator).version
    /\ \A d \in Range(s.depends_on) :
          d \in Ids(plan.steps) /\ ById(plan.steps, d).sequence < s.sequence
    /\ s.rollback \in Ids(plan.steps) \cup {None}

\* compile_plan succeeds.
PlanCompiles(plan, capsule, seal) ==
    /\ plan.schema_version = PlanSchema
    /\ validate_bindings(plan, capsule, seal)
    /\ index_operators(capsule)
    /\ seal.contract.job_type \in Ids(capsule.job_types)
    /\ index_by_id(plan.steps)
    /\ \A s \in Range(plan.steps) : validate_unique_step_values(s)
    /\ {s.sequence : s \in Range(plan.steps)} = 0 .. Len(plan.steps) - 1
    /\ LET job == ById(capsule.job_types, seal.contract.job_type)
       IN  \A s \in Range(plan.steps) : StepOK(s, plan, capsule, job)
    /\ \E s \in Range(plan.steps) : s.mandatory

-----------------------------------------------------------------------------
(* What the planners share *)

\* A planner has tables of its own of what it admits: pairs of identifier and
\* kind of the inputs, identifier, kind, destination and media type of the
\* outputs, and permissions.  A contract must name all of them, each once.
InputsAdmitted(inputs, admitted) ==
    /\ Unique(inputs) /\ \A i \in Range(inputs) : i.immutable
    /\ {<<i.id, i.kind>> : i \in Range(inputs)} = admitted

OutputsAdmitted(outputs, admitted) ==
    /\ Unique(outputs) /\ \A o \in Range(outputs) : o.required
    /\ {<<o.id, o.kind, o.destination, o.media_type>> : o \in Range(outputs)} = admitted

permission(capability_name, resource, access, restriction) ==
    [capability |-> capability_name, resource |-> resource, access |-> access,
     constraint |-> restriction]

AllowsExactly(capsule, job_type, operators) ==
    /\ job_type \in Ids(capsule.job_types)
    /\ ById(capsule.job_types, job_type).operator_ids = operators

VersionOf(capsule, operator) == ById(capsule.operators, operator).version

\* The capsule has every required operator, once and with a version.
OperatorsResolve(capsule, operators) ==
    /\ index_operators(capsule)
    /\ Range(operators) \subseteq Ids(capsule.operators)
    /\ \A o \in Range(operators) : VersionOf(capsule, o) # ""

IdentityFields == Named({"plan_id", "created_at"})

\* What an intent compiler answers: an error before a question, a question
\* before a contract.
CompileOutcome(valid, requests, built, contract, capsule) ==
    CASE ~ valid -> Rejected
      [] valid /\ requests # {} -> NeedsResolution(requests)
      [] OTHER -> IF built /\ Compiles(contract, capsule) /\ contract.unknowns = 0
                    THEN Sealed(contract) ELSE Rejected

\* What a planner answers.  The plan is built only when the profile fits.
PlanOutcome(valid, requests, contract, capsule, profile, plan) ==
    CASE ~ valid -> Rejected
      [] valid /\ requests # {} -> NeedsResolution(requests)
      [] OTHER -> IF /\ Compiles(contract, capsule) /\ contract.unknowns = 0
                     /\ profile /\ PlanCompiles(plan, capsule, Seal(contract, capsule))
                    THEN Sealed(plan) ELSE Rejected

planned(seal, capsule, steps, requirements) ==
    [schema_version |-> PlanSchema, contract_id |-> seal.contract.id,
     contract_digest |-> seal.contract, capsule_id |-> capsule.capsule_id,
     capsule_digest |-> seal.capsule, steps |-> steps,
     capability_requirements |-> requirements]
=============================================================================
