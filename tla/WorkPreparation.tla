--------------------------- MODULE WorkPreparation ---------------------------
(***************************************************************************)
(* From an intent to a plan, for the four certified kinds of work: the     *)
(* intent is compiled into a Work Contract, or answered with questions, or *)
(* refused; a planner turns a contract into an Operator Plan.  Answers     *)
(* come, the capsule is replaced, and a contract reaches the planner as it *)
(* was sealed or altered on the way.                                       *)
(***************************************************************************)
EXTENDS GraphicDesignerCapsule, SequencesExt

CONSTANTS Kinds,         \* kinds of work prepared in this instance
          CapsuleEdits,  \* ways in which the loaded capsule can differ
          ContractEdits  \* ways in which a contract can be altered

Social == INSTANCE SocialPostWork
Cleanup == INSTANCE CleanupWork
Brand == INSTANCE BrandWork
Printing == INSTANCE PrintWork

VARIABLES kind,
          intent,    \* field -> what the intent says of it
          loaded,    \* the edit of the loaded capsule, None for the shipped one
          answered,  \* the questions of the first round have been answered
          outcome,   \* of the last compilation or planning, Idle before one
          contract,  \* the sealed contract, << >> before
          sealedBy,  \* the capsule edit the contract was sealed under
          plan       \* the sealed plan, << >> before

vars == <<kind, intent, loaded, answered, outcome, contract, sealedBy, plan>>

Idle == [status |-> "idle"]

FieldsFor(k) ==
    CASE k = "social" -> Social!Fields [] k = "cleanup" -> Cleanup!Fields
      [] k = "brand" -> Brand!Fields [] k = "print" -> Printing!Fields

Good(f) == IF f[Len(f)] = "uri" THEN ContractInput ELSE "good"

\* The fields whose value can contradict another field.
Contradictable == {<<"logo_clear_space_px">>, <<"brand_manifest", "sha256">>,
                   <<"print_specification", "sha256">>}

ValuesOf(f) == {None, Good(f), "bad"} \cup (IF f \in Contradictable THEN {"odd"} ELSE {})

\* Intents that leave one field open or get it wrong, and one of those that
\* can contradict another.
Intents(k) ==
    LET complete == [f \in FieldsFor(k) |-> Good(f)]
    IN  {[f \in FieldsFor(k) |-> IF f \in DOMAIN d THEN d[f] ELSE complete[f]] :
            d \in UNION {{e \in [open -> {None, "bad", "odd"}] :
                             \A f \in open : e[f] \in ValuesOf(f)} :
                         open \in {{}} \cup {{f} : f \in FieldsFor(k)}
                             \cup {{f, g} : f \in FieldsFor(k),
                                           g \in FieldsFor(k) \cap Contradictable}}}

\* The capsule after an edit.
Capsule(edit) ==
    CASE edit = None -> Shipped
      [] edit = "newer" -> [Shipped EXCEPT !.version = "0.7.0"]
      [] edit = "other" -> [Shipped EXCEPT !.capsule_id = "other"]
      [] edit = "schema" -> [Shipped EXCEPT !.schema_version = "0.2.0"]
      [] edit = "jobless" -> [Shipped EXCEPT !.job_types = << >>]
      [] edit = "stricter" ->
            [Shipped EXCEPT !.minimum_assurance_by_job_type =
                [j \in Ids(JobTypes) |-> 4]]
      [] edit = "reordered" ->
            [Shipped EXCEPT !.job_types =
                [i \in DOMAIN JobTypes |->
                    [JobTypes[i] EXCEPT !.operator_ids = Reverse(@)]]]
      [] edit = "self" ->
            [Shipped EXCEPT !.validators =
                [i \in DOMAIN Validators |->
                    [Validators[i] EXCEPT !.independence = "executor"]]]
      [] edit = "lone" ->
            [Shipped EXCEPT !.validators =
                [i \in DOMAIN Validators |->
                    IF Validators[i].id = "raster.text_contrast.render_sampling"
                      THEN [Validators[i] EXCEPT !.independence = "executor"]
                      ELSE Validators[i]]]
      [] edit = "twice" -> [Shipped EXCEPT !.operators = Append(@, @[1])]
      [] edit = "older_operators" ->
            [Shipped EXCEPT !.operators =
                [i \in DOMAIN Operators |-> [Operators[i] EXCEPT !.version = "0.0.9"]]]

\* A contract after an alteration.
Altered(c, edit) ==
    CASE edit = None -> c
      [] edit = "wider" -> [c EXCEPT !.permissions =
            Append(@, permission("network", "any", "control", "none"))]
      [] edit = "network" -> [c EXCEPT !.permissions[3].constraint = "none"]
      [] edit = "mutable" -> [c EXCEPT !.inputs[1].immutable = FALSE]
      [] edit = "optional_output" -> [c EXCEPT !.outputs[2].required = FALSE]
      [] edit = "moved" -> [c EXCEPT !.outputs[2].destination = "elsewhere"]
      [] edit = "repeated" -> [c EXCEPT !.permissions = Append(@, @[1])]
      [] edit = "weaker" -> [c EXCEPT !.acceptance.minimum = 2]
      [] edit = "conflicts" -> [c EXCEPT !.acceptance.validator_conflicts_allowed = TRUE]
      [] edit = "unproved" -> [c EXCEPT !.obligations = Tail(@)]
      [] edit = "optional_proof" -> [c EXCEPT !.obligations[1].mandatory = FALSE]
      [] edit = "soft" -> [c EXCEPT !.hard[1].mandatory = FALSE]
      [] edit = "open" -> [c EXCEPT !.unknowns = 1]
      [] edit = "same_validator" -> [c EXCEPT !.obligations[1].validator_ids = @ \o @]

-----------------------------------------------------------------------------

CompileIntent(k, i, capsule) ==
    CASE k = "social" -> Social!compile_static_social_post_intent(i, capsule)
      [] k = "cleanup" -> Cleanup!compile_background_cleanup_intent(i, capsule)
      [] k = "brand" -> Brand!compile_brand_export_intent(i, capsule)
      [] k = "print" -> Printing!compile_print_preflight_intent(i, capsule)

SynthesizePlan(k, identity, c, capsule) ==
    CASE k = "social" -> Social!synthesize_static_social_post_plan(identity, c, capsule)
      [] k = "cleanup" -> Cleanup!synthesize_background_cleanup_plan(identity, c, capsule)
      [] k = "brand" -> Brand!synthesize_brand_export_plan(identity, c, capsule)
      [] k = "print" -> Printing!synthesize_print_preflight_plan(identity, c, capsule)

Identity == [f \in IdentityFields |-> "good"]
Identities == {Identity} \cup
    {[Identity EXCEPT ![f] = v] : f \in IdentityFields, v \in {None, "bad"}}

Init ==
    /\ kind \in Kinds
    /\ intent \in Intents(kind)
    /\ loaded = None /\ sealedBy = None
    /\ answered = FALSE
    /\ outcome = Idle
    /\ contract = << >> /\ plan = << >>

Compile ==
    LET result == CompileIntent(kind, intent, Capsule(loaded))
    IN  /\ contract = << >> /\ outcome = Idle
        /\ outcome' = [status |-> result.status,
                       fields |-> IF result.status = "asked" THEN result.fields ELSE {}]
        /\ IF result.status = "sealed"
             THEN contract' = result.document /\ sealedBy' = loaded
             ELSE UNCHANGED <<contract, sealedBy>>
        /\ UNCHANGED <<kind, intent, loaded, answered, plan>>

\* A question about an artifact as a whole is answered with all its fields.
Asked(f) == f \in outcome.fields \/ <<f[1]>> \in outcome.fields

\* Every question is answered with a well formed value.
Answer ==
    /\ outcome.status = "asked" /\ contract = << >>
    /\ intent' = [f \in DOMAIN intent |->
                     IF Asked(f) /\ intent[f] = None THEN Good(f) ELSE intent[f]]
    /\ answered' = TRUE
    /\ outcome' = Idle
    /\ UNCHANGED <<kind, loaded, contract, sealedBy, plan>>

\* The work is planned from the contract, as sealed or altered.
Plan(identity, edit) ==
    LET c == Altered(contract, edit)
        result == SynthesizePlan(kind, identity, c, Capsule(loaded))
    IN  /\ contract # << >> /\ plan = << >>
        /\ outcome' = [status |-> result.status, fields |-> {}]
        /\ IF result.status = "sealed" THEN plan' = result.document ELSE UNCHANGED plan
        /\ UNCHANGED <<kind, intent, loaded, answered, contract, sealedBy>>

\* Another capsule is loaded.  Bounded: from the shipped one.
LoadCapsule(edit) ==
    /\ loaded = None /\ plan = << >>
    /\ loaded' = edit
    /\ UNCHANGED <<kind, intent, answered, outcome, contract, sealedBy, plan>>

Next ==
    \/ Compile
    \/ Answer
    \/ \E identity \in Identities, edit \in ContractEdits \cup {None} :
          (identity = Identity \/ edit = None) /\ Plan(identity, edit)
    \/ \E edit \in CapsuleEdits : LoadCapsule(edit)

Spec == Init /\ [][Next]_vars

-----------------------------------------------------------------------------
(* Properties *)

\* The capsules a kind of work can be prepared with.
Serving == {None, "newer", "older_operators"}

\* One round of questions is enough: an intent whose questions have all been
\* answered is not asked about again, and one that is merely incomplete is
\* asked about, never refused.  A refusal has a cause the requester or the
\* operator can find: a value that is wrong, or another capsule.
QuestionsSuffice ==
    contract = << >> =>
        /\ answered => outcome.status # "asked"
        /\ outcome.status = "rejected" =>
              \/ loaded \notin Serving
              \/ \E f \in DOMAIN intent : intent[f] \in {"bad", "odd"}

\* The compiler and the planner of a kind agree: what was sealed is planned
\* when the capsule has not changed in between, unless the capsule's own
\* list of operators is not the planner's.
CompiledIsPlannable ==
    /\ contract # << >> /\ plan = << >>
    /\ loaded = sealedBy /\ loaded \notin {"reordered", "twice"}
    =>
        SynthesizePlan(kind, Identity, contract, Capsule(loaded)).status = "sealed"

=============================================================================
