-------------------------- MODULE AuthorizedTrace --------------------------
(***************************************************************************)
(* The verification of an authorized execution trace against a compiled    *)
(* plan (execution-runtime over operator-plan-runtime).  The trace is read *)
(* one event at a time; a state is what both verifiers know after the      *)
(* events read so far, so their verdict on every trace is the verdict in   *)
(* some state.  Events reach the verifier numbered by the bridge that ran  *)
(* them, and may be lost, repeated or out of order.                        *)
(* A receipt is intact when its content has the digest it is listed under. *)
(***************************************************************************)
EXTENDS Naturals, Sequences, FiniteSets

CONSTANTS Steps,         \* step id -> [operator, depends_on, tokens, mandatory]
          PlanSeal,      \* contract, capsule and plan the trace is checked for
          Events,        \* [step, operator, status, token, receipt] reported
          Submissions,   \* sequences of receipt records that come with a trace
          None,          \* no token, no receipt
          MaxEvents,     \* bound on the events of a trace
          MaxFlagged     \* bound on the events of a trace that are flagged

VARIABLES presented,       \* authorization_receipts of the trace
          events,          \* events read
          states,          \* StepState of every step
          step_receipts,   \* step -> digest cited first, None before
          receipt_steps,   \* digest cited -> first step (keys: used_receipts)
          plan_flags,      \* positions of the events verify_trace objects to
          auth_flags       \* positions verify_authorized_trace objects to

vars == <<presented, events, states, step_receipts, receipt_steps,
          plan_flags, auth_flags>>

StepStates ==
    {"NOT_STARTED", "STARTED", "SUCCEEDED", "FAILED", "ROLLED_BACK", "SKIPPED"}

TypeOK ==
    /\ presented \in Submissions
    /\ Len(events) <= MaxEvents
    /\ states \in [DOMAIN Steps -> StepStates]
    /\ DOMAIN step_receipts = DOMAIN Steps
    /\ plan_flags \subseteq 1 .. Len(events)
    /\ auth_flags \subseteq 0 .. Len(events)

-----------------------------------------------------------------------------

ReceiptOK(r) ==
    /\ r.intact
    /\ r.use_number > 0 /\ r.use_number <= r.max_uses
    /\ r.seal = PlanSeal

\* The receipt table holds the intact records; a later record of a digest
\* replaces an earlier one.
Known(d) == \E i \in DOMAIN presented : presented[i].intact /\ presented[i].digest = d

ReceiptOf(d) ==
    presented[CHOOSE i \in DOMAIN presented :
                  presented[i].intact /\ presented[i].digest = d]

ReceiptTableOK(p) ==
    /\ \A i \in DOMAIN p : ReceiptOK(p[i])
    /\ \A i, j \in DOMAIN p : p[i].digest = p[j].digest => i = j

validate_capability_token(s, e) ==
    IF e.token = None THEN Steps[s].tokens = {} ELSE e.token \in Steps[s].tokens

StatesBefore(status) ==
    CASE status = "STARTED"     -> {"NOT_STARTED"}
      [] status = "SUCCEEDED"   -> {"STARTED"}
      [] status = "FAILED"      -> {"STARTED"}
      [] status = "ROLLED_BACK" -> {"FAILED", "SUCCEEDED"}
      [] status = "SKIPPED"     -> {"NOT_STARTED"}

PlanEventOK_AnyOrder(id, n, e) ==
    /\ id \notin {events[i].id : i \in DOMAIN events}
    /\ n = Len(events)
    /\ e.step \in DOMAIN Steps
    /\ e.operator = Steps[e.step].operator
    /\ validate_capability_token(e.step, e)
    /\ states[e.step] \in StatesBefore(e.status)
    /\ e.status \notin {"FAILED", "ROLLED_BACK"}
    /\ e.status = "SKIPPED" => ~ Steps[e.step].mandatory

PlanEventOK(id, n, e) ==
    /\ id \notin {events[i].id : i \in DOMAIN events}
    /\ n = Len(events)
    /\ e.step \in DOMAIN Steps
    /\ e.operator = Steps[e.step].operator
    /\ validate_capability_token(e.step, e)
    /\ states[e.step] \in StatesBefore(e.status)
    /\ e.status = "STARTED" =>
          \A d \in Steps[e.step].depends_on : states[d] = "SUCCEEDED"
    /\ e.status \notin {"FAILED", "ROLLED_BACK"}
    /\ e.status = "SKIPPED" => ~ Steps[e.step].mandatory

AuthorizationRequired(e) == Steps[e.step].tokens # {} /\ e.status # "SKIPPED"

\* The event cites a receipt, may do so, and the table has that receipt.
Resolved(e) ==
    /\ e.step \in DOMAIN Steps
    /\ e.receipt # None
    /\ AuthorizationRequired(e)
    /\ Known(e.receipt)

CitedReceiptOK(e) ==
    LET r == ReceiptOf(e.receipt)
    IN  /\ r.step = e.step
        /\ r.operator = e.operator
        /\ e.token # None => r.token = e.token
        /\ step_receipts[e.step] \in {None, e.receipt}
        /\ e.receipt \in DOMAIN receipt_steps => receipt_steps[e.receipt] = e.step

\* An event of an unknown step is left to verify_trace.
AuthEventOK(e) ==
    e.step \in DOMAIN Steps =>
        IF e.receipt = None THEN ~ AuthorizationRequired(e)
        ELSE Resolved(e) /\ CitedReceiptOK(e)

Init ==
    /\ presented \in Submissions
    /\ events = << >>
    /\ states = [s \in DOMAIN Steps |-> "NOT_STARTED"]
    /\ step_receipts = [s \in DOMAIN Steps |-> None]
    /\ receipt_steps = << >>
    /\ plan_flags = {}
    /\ auth_flags = IF ReceiptTableOK(presented) THEN {} ELSE {0}

StatesAfter(e) ==
    IF e.step \in DOMAIN Steps THEN [states EXCEPT ![e.step] = e.status] ELSE states

\* One iteration of the event loops of both verifiers.
ReadEvent(id, n, e) ==
    LET i == Len(events) + 1
    IN  /\ i <= MaxEvents
        /\ events' = Append(events, [id |-> id, sequence |-> n, event |-> e])
        /\ plan_flags' = plan_flags \cup (IF PlanEventOK(id, n, e) THEN {} ELSE {i})
        /\ auth_flags' = auth_flags \cup (IF AuthEventOK(e) THEN {} ELSE {i})
        /\ Cardinality(plan_flags' \cup auth_flags') <= MaxFlagged
        /\ states' = StatesAfter(e)
        /\ receipt_steps' =
               IF Resolved(e)
                 THEN [d \in DOMAIN receipt_steps \cup {e.receipt} |->
                         IF d \in DOMAIN receipt_steps THEN receipt_steps[d]
                         ELSE e.step]
                 ELSE receipt_steps
        /\ step_receipts' =
               IF Resolved(e) /\ step_receipts[e.step] = None
                 THEN [step_receipts EXCEPT ![e.step] = e.receipt]
                 ELSE step_receipts
        /\ UNCHANGED presented

\* An event arrives in its place, or after one that was lost, or as a repeat
\* of the first, or with the first one's id.
Next ==
    \E e \in Events :
        \/ ReadEvent(Len(events), Len(events), e)
        \/ \E n \in {0, Len(events) + 1} \ {Len(events)} : ReadEvent(n, n, e)
        \/ events # << >> /\ ReadEvent(0, Len(events), e)

Spec == Init /\ [][Next]_vars

FinalStatesOK ==
    \A s \in DOMAIN Steps :
        /\ states[s] # "STARTED"
        /\ Steps[s].mandatory => states[s] = "SUCCEEDED"

AllReceiptsUsed ==
    {presented[i].digest : i \in {j \in DOMAIN presented : presented[j].intact}}
        \subseteq DOMAIN receipt_steps

conforms_to_authorized_plan ==
    /\ plan_flags = {} /\ FinalStatesOK
    /\ auth_flags = {} /\ AllReceiptsUsed

-----------------------------------------------------------------------------

At(i) == events[i].event

PositionsOf(s) == {i \in DOMAIN events : At(i).step = s}

Ran(s) ==
    \E i, j \in DOMAIN events :
        /\ PositionsOf(s) = {i, j} /\ i < j
        /\ At(i).status = "STARTED" /\ At(j).status = "SUCCEEDED"
        /\ \A d \in Steps[s].depends_on :
              \E k \in PositionsOf(d) : k < i /\ At(k).status = "SUCCEEDED"

LeftOut(s) ==
    /\ ~ Steps[s].mandatory
    /\ \/ PositionsOf(s) = {}
       \/ \E i \in DOMAIN events : PositionsOf(s) = {i} /\ At(i).status = "SKIPPED"

\* Every event is one of the plan's, in the order it was numbered.
EventsBelong ==
    /\ \A i \in DOMAIN events :
          /\ events[i].sequence = i - 1
          /\ At(i).step \in DOMAIN Steps
          /\ At(i).operator = Steps[At(i).step].operator
          /\ validate_capability_token(At(i).step, At(i))
    /\ \A i, j \in DOMAIN events : events[i].id = events[j].id => i = j

\* The receipts are matched one to one with the tokenised steps that ran.
ReceiptsMatchSteps ==
    LET authorized == {s \in DOMAIN Steps : Ran(s) /\ Steps[s].tokens # {}}
    IN  \E f \in [authorized -> DOMAIN presented] :
            /\ \A i \in DOMAIN presented : \E s \in authorized : f[s] = i
            /\ \A s \in authorized :
                  LET r == presented[f[s]]
                  IN  /\ ReceiptOK(r) /\ r.step = s
                      /\ \A i \in PositionsOf(s) :
                            At(i).receipt = r.digest /\ At(i).token = r.token
                                /\ At(i).operator = r.operator
            /\ \A i \in DOMAIN events :
                  At(i).step \notin authorized => At(i).receipt = None

\* The verdict is exact: a trace conforms to the authorized plan when its
\* events are the plan's, numbered without a gap, every step either ran once
\* after its dependencies succeeded or was left out and optional, and the
\* intact, well bound receipts are in one to one correspondence with the
\* tokenised steps that ran; and in no other case.
VerdictExact ==
    conforms_to_authorized_plan <=>
        /\ EventsBelong
        /\ \A s \in DOMAIN Steps : Ran(s) \/ LeftOut(s)
        /\ ReceiptsMatchSteps
=============================================================================
