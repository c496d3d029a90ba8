--------------------------- MODULE ContractSession ---------------------------
(***************************************************************************)
(* A contract session (contract-runtime) on top of the proof kernel        *)
(* (proof-kernel): evidence is admitted against the capsule's validator    *)
(* bindings and the sealed contract, and the acceptance decision is        *)
(* evaluated from what has been admitted.  Refused evidence changes        *)
(* nothing and has no action.                                              *)
(***************************************************************************)
EXTENDS Naturals, FiniteSets

CONSTANTS Obligations,
          Mandatory,     \* the obligations that are mandatory
          Required,      \* obligation -> required independence class
          Validators,
          Bound,         \* obligation -> validators the capsule allows for it
          Class,         \* validator -> the class the capsule declares for it
          Versions, Version,          \* validator -> the version it declares
          Constraints, Constraint,    \* obligation -> the constraint it proves
          EvidenceIds, Contracts, Contract,
          Levels,        \* assurance levels, 0 .. Levels
          MinimumLevel,
          MaxUnknowns    \* bound on unresolved contract unknowns

Executor    == 0
Independent == 1
Diverse     == 2
Classes     == Executor .. Diverse
Truth       == {"true", "false", "unknown"}

ASSUME ContractAssumption ==
    /\ Mandatory \subseteq Obligations
    /\ Required \in [Obligations -> Classes]
    /\ Bound \in [Obligations -> SUBSET Validators]
    /\ Class \in [Validators -> Classes]
    /\ Version \in [Validators -> Versions]
    /\ Constraint \in [Obligations -> Constraints]
    /\ Contract \in Contracts
    /\ Levels \in Nat /\ MinimumLevel \in 0 .. Levels /\ MaxUnknowns \in Nat

Evidence == [id : EvidenceIds, obligation : Obligations, contract : Contracts,
             constraint : Constraints, validator : Validators,
             version : Versions, class : Classes, result : Truth]

VARIABLES admitted,   \* evidence the kernel has accumulated
          assurance,  \* externally established assurance level
          unknowns    \* unresolved contract unknowns

vars == <<admitted, assurance, unknowns>>

TypeOK ==
    /\ admitted \subseteq Evidence
    /\ assurance \in 0 .. Levels
    /\ unknowns \in 0 .. MaxUnknowns

Init ==
    /\ admitted = {}
    /\ assurance \in 0 .. Levels
    /\ unknowns \in 0 .. MaxUnknowns

BindingAdmits_SelfDeclared(e) ==
    /\ e.validator \in Bound[e.obligation]
    /\ e.version = Version[e.validator]

\* ContractSession::ingest_evidence: bound validator, with the version and
\* the class the capsule declares for it.
BindingAdmits(e) ==
    /\ e.validator \in Bound[e.obligation]
    /\ e.version = Version[e.validator]
    /\ e.class = Class[e.validator]

\* ProofKernel::ingest_evidence: fresh id, sealed contract, the obligation's
\* constraint.
KernelAdmits(e) ==
    /\ \A f \in admitted : f.id # e.id
    /\ e.contract = Contract
    /\ e.constraint = Constraint[e.obligation]

IngestEvidence(e) ==
    /\ BindingAdmits(e) /\ KernelAdmits(e)
    /\ admitted' = admitted \cup {e}
    /\ UNCHANGED <<assurance, unknowns>>

SetAssuranceLevel(level) ==
    /\ assurance' = level
    /\ UNCHANGED <<admitted, unknowns>>

SetDeclaredUnknowns(n) ==
    /\ unknowns' = n
    /\ UNCHANGED <<admitted, assurance>>

Next ==
    \/ \E e \in Evidence : IngestEvidence(e)
    \/ \E level \in 0 .. Levels : SetAssuranceLevel(level)
    \/ \E n \in 0 .. MaxUnknowns : SetDeclaredUnknowns(n)

Spec == Init /\ [][Next]_vars

-----------------------------------------------------------------------------
For(o) == {e \in admitted : e.obligation = o}
Has(o, result) == \E e \in For(o) : e.result = result
Supports(e) == e.result = "true" /\ e.class >= Independent

\* The required independence is met.
Satisfied(o) ==
    CASE Required[o] = Executor    -> Has(o, "true")
      [] Required[o] = Independent -> \E e \in For(o) : Supports(e)
      [] Required[o] = Diverse     -> \E e, f \in For(o) :
             Supports(e) /\ Supports(f) /\ e.validator # f.validator

\* state_for
StateFor(o) ==
    IF For(o) = {} THEN "pending"
    ELSE IF Has(o, "true") /\ Has(o, "false") THEN "invalidated"
    ELSE IF Has(o, "false") THEN "failed"
    ELSE IF ~ Has(o, "true") /\ Has(o, "unknown") THEN "indeterminate"
    ELSE IF Satisfied(o) THEN "satisfied"
    ELSE "indeterminate"

\* evaluate: the reasons against acceptance.
Reasons ==
    (IF Mandatory = {} THEN {"no_mandatory_obligations"} ELSE {})
        \cup (IF unknowns > 0 THEN {"unresolved_unknowns"} ELSE {})
        \cup (IF assurance < MinimumLevel THEN {"assurance_below_minimum"} ELSE {})
        \cup ({StateFor(o) : o \in Mandatory} \ {"satisfied"})

Decision ==
    IF \E o \in Mandatory : StateFor(o) \in {"failed", "invalidated"} THEN "rejected"
    ELSE IF Reasons = {} THEN "accepted" ELSE "blocked"

-----------------------------------------------------------------------------
(* Properties *)

\* Who may vouch for an obligation, by what the capsule declares and not by
\* what the evidence says of itself.
Vouchers(o) ==
    {v \in Bound[o] : \E e \in admitted : /\ e.obligation = o /\ e.validator = v
                                           /\ e.result = "true" /\ e.contract = Contract}

\* Accepted work is vouched for: every mandatory obligation has a bound
\* validator that found it true for this contract, and none that found it
\* false; an independent obligation has one the capsule declares independent
\* of the executor, a diverse one has two of them.
AcceptedMeansVouched ==
    Decision = "accepted" =>
        /\ Mandatory # {} /\ unknowns = 0 /\ assurance >= MinimumLevel
        /\ \A o \in Mandatory :
               LET independent == {v \in Vouchers(o) : Class[v] # Executor}
               IN /\ Vouchers(o) # {}
                  /\ ~ Has(o, "false")
                  /\ Required[o] = Independent => independent # {}
                  /\ Required[o] = Diverse =>
                         \E v, w \in independent : v # w

\* An evidence id stands for one record: nothing is admitted again under a
\* used id, for the same obligation or another one.
EvidenceIdsUnique == \A e, f \in admitted : e.id = f.id => e = f

\* Once a mandatory obligation has been found false, no later evidence,
\* assurance or answer brings the work back: it stays rejected.
RejectionFinal == [][Decision = "rejected" => Decision' = "rejected"]_vars

=============================================================================
