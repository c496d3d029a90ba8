--------------------------- MODULE WindowsBridge ---------------------------
(***************************************************************************)
(* One step of a plan carried out in a Windows application: the bridge     *)
(* (windows-bridge-runtime), its UI Automation client                      *)
(* (windows-uia-client-runtime), the host process that watches and         *)
(* operates the application (hosts/windows-uia) and the application        *)
(* itself, which changes whenever its user likes and may be started again  *)
(* under any process id.  A digest is the value it is computed from.       *)
(***************************************************************************)
EXTENDS Integers, Sequences, FiniteSets

CONSTANTS
    RequestIds,
    Values,                     \* what the target element may show
    Instances,                  \* process ids of the application
    MaximumCachedObservations,  \* 128 in the code
    MaxTime, MaxLog, MaxFaults, \* bounds of the model
    None

VARIABLES
    now,            \* milliseconds, as the host reads them
    app, shown,     \* the running application and what the target shows
    host,           \* whether the host process runs
    observations,   \* the host's dictionary, its keys being the digests of the values
    order,          \* the host's queue of digests
    client,         \* the client's phase
    call,           \* the bridge call under way
    signed,         \* the packages returned so far
    log,            \* what the host did: observations made and actions applied
    faults

outside == <<now, app, shown>>
hostVars == <<host, observations, order, log>>
vars == <<now, app, shown, host, observations, order, client, call, signed, log, faults>>

Contract == [contract_digest |-> "contract", capsule_digest |-> "capsule",
             permissions |-> {"type", "press"}]
OperatorPlan == [plan |-> "plan", contract_digest |-> "contract",
                 steps |-> {[step_id |-> "fill", operator_id |-> "compose", tokens |-> {"t1"}],
                            [step_id |-> "send", operator_id |-> "publish", tokens |-> {"t2"}]}]

-----------------------------------------------------------------------------
(* Requests and observed states *)

\* WindowsControlMethod with the selector each needs.
SelectorOf == [NativeModel |-> "NativeObject", ApplicationApi |-> "ApplicationObject",
               SignedPlugin |-> "PluginObject", Cli |-> "CliEndpoint",
               UiAutomation |-> "UiAutomation", Accessibility |-> "Accessibility",
               VisuallyConfirmed |-> "VisualRegion", CoordinateFallback |-> "Coordinates"]

selector_matches_method(method, selector) == selector.kind = SelectorOf[method]

\* A plugin, UI Automation or accessibility selector has two parts.
selector_stable_id(selector) ==
    IF selector.kind \in {"PluginObject", "UiAutomation", "Accessibility"}
    THEN <<selector.group, selector.id>> ELSE <<selector.id>>

observed_state_digest(s) == <<s.application, s.target, s.value, s.observed_at>>

validate_observed_state(s, request) ==
    /\ s.state_digest = observed_state_digest(s)
    /\ s.application = request.application
    /\ s.target = selector_stable_id(request.selector)

Passed(assertion, s) ==
    CASE assertion.kind = "property" -> s.value = assertion.value
      [] assertion.kind = "artifact" -> FALSE   \* the host reports no artifact
      [] assertion.kind = "target" -> s.target = assertion.value

\* The indices of the postconditions that fail.
evaluate_postconditions(assertions, s) ==
    {i \in DOMAIN assertions : ~ Passed(assertions[i], s)}

validate_request_policy(request) ==
    /\ selector_matches_method(request.method, request.selector)
    /\ request.postconditions # <<>>
    /\ request.method \in {"VisuallyConfirmed", "CoordinateFallback"}
          => \E i \in DOMAIN request.postconditions :
                request.postconditions[i].kind \in {"property", "artifact"}

\* The request, the receipt, the plan and the contract name each other.
validate_package_bindings(request, receipt) ==
    \E step \in OperatorPlan.steps :
       /\ step.step_id = request.step_id /\ step.operator_id = request.operator_id
       /\ request.plan = OperatorPlan.plan
       /\ OperatorPlan.contract_digest = Contract.contract_digest
       /\ receipt.contract_digest = Contract.contract_digest
       /\ receipt.capsule_digest = Contract.capsule_digest
       /\ receipt.plan = request.plan
       /\ receipt.step_id = request.step_id /\ receipt.operator_id = request.operator_id
       /\ receipt.executor = request.executor
       /\ receipt.token_id \in step.tokens
       /\ receipt.grant = request.required_grant
       /\ request.required_grant \in Contract.permissions

Blank == ""

validate_request(request, authorization) ==
    /\ request.request_id # Blank
    /\ validate_package_bindings(request, authorization.receipt)
    /\ authorization.receipt_digest = authorization.receipt
    /\ request.authorization_receipt_digest = authorization.receipt_digest
    /\ validate_request_policy(request)

-----------------------------------------------------------------------------
(* The host *)

ValidateRequestEnvelope(request) ==
    request.method = "UiAutomation" /\ request.selector.kind = "UiAutomation"

\* The process with the id of the request is the application and has the element.
ResolveTarget(request) ==
    /\ request.application = app
    /\ request.selector.group = "Edit" /\ request.selector.id = "field"

ObserveTarget(request) ==
    LET s == [application |-> app, target |-> selector_stable_id(request.selector),
              value |-> shown, observed_at |-> now, state_digest |-> <<>>]
    IN  [s EXCEPT !.state_digest = observed_state_digest(s)]

CacheObservation(s) ==
    LET queued == Append(order, s.state_digest)
        full == Len(queued) > MaximumCachedObservations
    IN  /\ order' = IF full THEN Tail(queued) ELSE queued
        /\ observations' = {o \in observations \cup {s} :
                               full => o.state_digest # Head(queued)}

\* The answer to an observe command; an error leaves the host as it was.
Observes(request) ==
    /\ host /\ Len(log) < MaxLog
    /\ ValidateRequestEnvelope(request) /\ ResolveTarget(request)
    /\ CacheObservation(ObserveTarget(request))
    /\ log' = Append(log, [kind |-> "observed", state |-> ObserveTarget(request)])
    /\ UNCHANGED host

ConsumeObservation(digest) == {o \in observations : o.state_digest = digest}

\* Everything but the time and the digest.
SemanticStateEquals_Identity(expected, current) ==
    expected.application = current.application /\ expected.target = current.target
SemanticStateEquals(expected, current) ==
    /\ expected.application = current.application
    /\ expected.target = current.target
    /\ expected.value = current.value

\* What the target shows after the action; a press may do anything.
Effects(action) == IF action.kind = "SetValue" THEN {action.value} ELSE Values

-----------------------------------------------------------------------------
(* The client and the bridge *)

Idle == [kind |-> "Idle"]
Idling == call = None
Fault == faults < MaxFaults /\ faults' = faults + 1

\* An exchange that fails in the transport: no host, a host that ends before it answers,
\* or an answer the client cannot use.
Unanswered(done) ==
    \/ ~ host /\ UNCHANGED <<hostVars, faults>>
    \/ host /\ Fault /\ host' = FALSE /\ UNCHANGED <<observations, order, log>>
    \/ Fault /\ done

prime(request) ==
    /\ Idling /\ client = Idle /\ request.method = "UiAutomation"
    /\ \/ /\ Observes(request) /\ UNCHANGED faults
          /\ client' = [kind |-> "Primed", request_id |-> request.request_id,
                       state |-> ObserveTarget(request)]
       \/ Unanswered(Observes(request)) /\ UNCHANGED client
    /\ UNCHANGED <<outside, call, signed>>

\* The first observation of a call answers from the client's phase; any mistake resets it.
observe(request) ==
    IF /\ client.kind = "Primed"
       /\ client.request_id = request.request_id
       /\ client.state.state_digest = request.expected_pre_state_digest
    THEN [kind |-> "PreStateDelivered", request_id |-> client.request_id,
          state_digest |-> client.state.state_digest]
    ELSE Idle

\* execute_windows_bridge up to the command that acts.
execute_windows_bridge(request, authorization) ==
    /\ Idling
    /\ validate_request(request, authorization)
    /\ client' = observe(request)
    /\ call' = IF client' # Idle /\ validate_observed_state(client.state, request)
               THEN [stage |-> "observed", request |-> request,
                     authorization |-> authorization, pre_state |-> client.state]
               ELSE None
    /\ UNCHANGED <<outside, hostVars, signed, faults>>

Gives_up == call' = None /\ client' = Idle

\* The execute command: the host consumes the observation and looks at the target again.
execute ==
    /\ ~ Idling /\ call.stage = "observed"
    /\ LET request == call.request
           expected == ConsumeObservation(client.state_digest)
           current == ObserveTarget(request)
       IN  \/ /\ host /\ ValidateRequestEnvelope(request)
              /\ observations' = observations \ expected
              /\ IF /\ expected # {} /\ ResolveTarget(request)
                    /\ \A e \in expected : SemanticStateEquals(e, current)
                 THEN /\ call' = [stage |-> "acting", request |-> request,
                                  authorization |-> call.authorization,
                                  pre_state |-> call.pre_state, seen |-> current]
                      /\ UNCHANGED client
                 ELSE Gives_up
              /\ UNCHANGED <<host, order, log, faults>>
           \/ /\ host /\ ~ ValidateRequestEnvelope(request)
              /\ Gives_up /\ UNCHANGED <<hostVars, faults>>
           \/ Gives_up /\ Unanswered(FALSE)
    /\ UNCHANGED <<outside, signed>>

Applies ==
    /\ host /\ Len(log) < MaxLog
    /\ call.seen.application = app
    /\ \E v \in Effects(call.request.action) : shown' = v
    /\ log' = Append(log, [kind |-> "applied", request_id |-> call.request.request_id,
                           consumed |-> call.pre_state.state_digest, seen |-> call.seen])
    /\ UNCHANGED <<now, app, host, observations, order>>

\* The host acts, with whatever the target shows by now, and answers; the target may
\* refuse, and an application that has gone takes the host with it.
ApplyAction ==
    /\ ~ Idling /\ call.stage = "acting"
    /\ \/ /\ Applies /\ UNCHANGED faults
          /\ call' = [stage |-> "executed", request |-> call.request,
                      authorization |-> call.authorization, pre_state |-> call.pre_state]
          /\ client' = [kind |-> "AwaitingPostState", request_id |-> call.request.request_id]
       \/ Applies /\ Fault /\ Gives_up
       \/ host /\ Fault /\ Gives_up /\ UNCHANGED <<outside, hostVars>>
       \/ /\ host /\ call.seen.application # app /\ host' = FALSE
          /\ Gives_up /\ UNCHANGED <<outside, observations, order, log, faults>>
    /\ UNCHANGED signed

-----------------------------------------------------------------------------
(* The record *)

Package(c, post) ==
    LET violations == evaluate_postconditions(c.request.postconditions, post)
    IN  [request |-> c.request, authorization |-> c.authorization,
         pre_state |-> c.pre_state, post_state |-> post,
         record |-> [request_digest |-> c.request,
                     authorization_receipt_digest |-> c.authorization.receipt_digest,
                     pre_state_digest |-> c.pre_state.state_digest,
                     consumed_pre_state_digest |-> c.pre_state.state_digest,
                     post_state_digest |-> post.state_digest,
                     status |-> IF violations = {} THEN "Succeeded" ELSE "Failed",
                     violations |-> violations]]

\* The second observation comes from the host; then the record is signed.
complete_post_observe ==
    /\ ~ Idling /\ call.stage = "executed"
    /\ Gives_up
    /\ \/ /\ Observes(call.request)
          /\ signed' = Append(signed, Package(call, ObserveTarget(call.request)))
          /\ UNCHANGED faults
       \/ /\ host /\ ~ ResolveTarget(call.request)
          /\ UNCHANGED <<hostVars, signed, faults>>
       \/ Unanswered(Observes(call.request)) /\ UNCHANGED signed
    /\ UNCHANGED outside

verify_windows_bridge_package(p) ==
    LET r == p.record
        violations == evaluate_postconditions(p.request.postconditions, p.post_state)
    IN  /\ validate_request_policy(p.request)
        /\ r.request_digest = p.request
        /\ p.authorization.receipt_digest = p.authorization.receipt
        /\ p.request.authorization_receipt_digest = p.authorization.receipt
        /\ validate_package_bindings(p.request, p.authorization.receipt)
        /\ validate_observed_state(p.pre_state, p.request)
        /\ validate_observed_state(p.post_state, p.request)
        /\ r.pre_state_digest = p.pre_state.state_digest
        /\ r.pre_state_digest = p.request.expected_pre_state_digest
        /\ r.post_state_digest = p.post_state.state_digest
        /\ r.consumed_pre_state_digest = r.pre_state_digest
        /\ r.violations = violations
        /\ r.status = IF violations = {} THEN "Succeeded" ELSE "Failed"
        /\ r.authorization_receipt_digest = p.authorization.receipt

-----------------------------------------------------------------------------
(* The application, the host process and the caller *)

UserActs ==
    /\ Fault /\ shown' \in Values \ {shown}
    /\ UNCHANGED <<now, app, hostVars, client, call, signed>>
ApplicationRestarts ==
    /\ Fault /\ app' \in Instances /\ shown' \in Values
    /\ UNCHANGED <<now, hostVars, client, call, signed>>
\* Time matters to the next observation only, so it passes before one.
TimePasses ==
    /\ IF Idling THEN client = Idle ELSE call.stage = "executed"
    /\ now < MaxTime /\ now' = now + 1
    /\ UNCHANGED <<app, shown, hostVars, client, call, signed, faults>>

\* A new child process and a new client.
spawn ==
    /\ Idling /\ ~ host
    /\ host' = TRUE /\ observations' = {} /\ order' = <<>> /\ client' = Idle
    /\ UNCHANGED <<outside, call, signed, log, faults>>

\* A request as the plan wants it, and ones with a single thing wrong.
Receipt(step) ==
    [contract_digest |-> "contract", capsule_digest |-> "capsule", plan |-> "plan",
     step_id |-> step, operator_id |-> IF step = "fill" THEN "compose" ELSE "publish",
     token_id |-> IF step = "fill" THEN "t1" ELSE "t2", executor |-> "host",
     grant |-> IF step = "fill" THEN "type" ELSE "press"]
Request(id, step, application, value, digest) ==
    [request_id |-> id, plan |-> "plan", step_id |-> step,
     operator_id |-> Receipt(step).operator_id, executor |-> "host",
     method |-> "UiAutomation", application |-> application,
     selector |-> [kind |-> "UiAutomation", group |-> "Edit", id |-> "field"],
     action |-> IF step = "fill" THEN [kind |-> "SetValue", value |-> value]
                ELSE [kind |-> "Invoke"],
     required_grant |-> Receipt(step).grant,
     expected_pre_state_digest |-> digest,
     postconditions |-> <<[kind |-> "property", value |-> value]>>,
     authorization_receipt_digest |-> Receipt(step)]
Variants(request) ==
    {request,
     [request EXCEPT !.request_id = Blank], [request EXCEPT !.request_id = "other"], [request EXCEPT !.step_id = "fill"],
     [request EXCEPT !.required_grant = "delete"], [request EXCEPT !.postconditions = <<>>],
     [request EXCEPT !.postconditions =
         <<[kind |-> "target", value |-> <<"Edit", "field">>], [kind |-> "artifact"]>>],
     [request EXCEPT !.selector.kind = "Coordinates"], [request EXCEPT !.selector.id = "other"],
     [request EXCEPT !.method = "CoordinateFallback", !.selector.kind = "Coordinates"]}
Requests(digest) ==
    UNION {{Request(id, "fill", application, value, digest) :
               application \in Instances, value \in Values}
           \cup Variants(Request(id, "send", app, shown, digest)) : id \in RequestIds}

Authorizations ==
    {[receipt |-> Receipt(step), receipt_digest |-> Receipt(step)] : step \in {"fill", "send"}}

\* The digest the caller puts in is that of an observation, its own or an older one.
Digests == {log[i].state.state_digest : i \in {j \in DOMAIN log : log[j].kind = "observed"}}

Init ==
    /\ now = 0 /\ app \in Instances /\ shown \in Values
    /\ host = TRUE /\ observations = {} /\ order = <<>>
    /\ client = Idle /\ call = None
    /\ signed = <<>> /\ log = <<>> /\ faults = 0

Next ==
    \/ \E id \in RequestIds : prime(Request(id, "fill", app, shown, <<>>))
    \/ client # Idle /\ \E digest \in Digests, authorization \in Authorizations :
          \E request \in Requests(digest) : execute_windows_bridge(request, authorization)
    \/ execute \/ ApplyAction \/ complete_post_observe
    \/ UserActs \/ ApplicationRestarts \/ TimePasses \/ spawn

Spec == Init /\ [][Next]_vars

-----------------------------------------------------------------------------
\* Package x is about this action: the host observed its pre-state before, found the
\* target unchanged at the check, acted for that request, observed the post-state after,
\* and did nothing else to the application in between.
Carries(p, j) ==
    /\ log[j].kind = "applied"
    /\ log[j].request_id = p.request.request_id
    /\ log[j].consumed = p.pre_state.state_digest
    /\ \A f \in {"application", "target", "value"} : p.pre_state[f] = log[j].seen[f]
    /\ \E i \in 1 .. j - 1, k \in j + 1 .. Len(log) :
          /\ log[i] = [kind |-> "observed", state |-> p.pre_state]
          /\ log[k] = [kind |-> "observed", state |-> p.post_state]
          /\ \A m \in (i .. k) \ {j} : log[m].kind # "applied"

Issued == {signed[x] : x \in DOMAIN signed}
Assembled ==
    {[request |-> a.request, authorization |-> b.authorization, pre_state |-> c.pre_state,
      post_state |-> d.post_state, record |-> e.record] :
        a \in Issued, b \in Issued, c \in Issued, d \in Issued, e \in Issued}

\* Of all packages put together from the parts of signed ones, exactly the signed ones
\* verify, and each stands for an action of its own that the host carried out on the
\* observed state between the two observations (verify_windows_bridge_package,
\* execute_windows_bridge, WindowsUiaClient, UiaAdapter.Execute).
VerifiedActionTookPlace ==
    /\ \A p \in Assembled : verify_windows_bridge_package(p) <=> p \in Issued
    /\ signed # <<>> =>
          \E f \in [DOMAIN signed -> DOMAIN log] :
             /\ \A x, y \in DOMAIN signed : f[x] = f[y] => x = y
             /\ \A x \in DOMAIN signed : Carries(signed[x], f[x])
=============================================================================
