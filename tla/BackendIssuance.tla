--------------------------- MODULE BackendIssuance ---------------------------
(***************************************************************************)
(* What the desktop's approvals and command receipts let a backend ask the *)
(* signer for: the control records of desktop-shell-runtime, the snapshots *)
(* the desktop builds, the in-memory BackendIssuancePolicy and the two     *)
(* authorities that use it (backend-issuance-runtime lib.rs and            *)
(* production.rs, capability-issuance-runtime, governed issuance).         *)
(*                                                                         *)
(* A digest is the value it is taken of.  Snapshots name a passed contract *)
(* and plan of their job and one trusted capsule, as the desktop builds    *)
(* them.  Whoever asks for an issuance may present any snapshot, approval  *)
(* and receipt the desktop ever made, and the clock may be set back.       *)
(* Bounds: MaxTime, MaxCommands receipts, MaxIssued authorizations.        *)
(***************************************************************************)
EXTENDS Naturals, Sequences, FiniteSets

CONSTANTS Jobs,
          Contract,     \* the compiled contract of each job
          Plan,         \* the compiled plan of each job
          ApprovalTtl,  \* APPROVAL_TTL_S
          MaxTime, MaxCommands, MaxIssued, None

VARIABLES now,         \* the clock
          session,     \* the current snapshot of each job's session
          running,     \* jobs in execution, their session locked
          shown,       \* every snapshot the sessions had
          approvals,   \* every approval given
          receipts,    \* every command receipt
          production,  \* is the authority the production one?
          key,         \* its signing key in its copy of the registry
          policy,      \* BackendIssuancePolicy
          asked        \* what the signer was asked for, in order

vars == <<now, session, running, shown, approvals, receipts,
          production, key, policy, asked>>

Actor == "local"
Capsule == "capsule"
Executor == [executor_id |-> "host", device_id |-> "device"]

-----------------------------------------------------------------------------
(* Snapshots *)

DesktopShellSnapshot(j, status, approval_status, approval, evidence, replay, certified) ==
    [job |-> j, control_status |-> status, contract |-> Contract[j].digest,
     plan |-> Plan[j].digest, permission |-> Plan[j].permission,
     approval_status |-> approval_status, approval_digest |-> approval,
     evidence_bundle |-> evidence, replay_manifest |-> replay, certificate |-> certified]

PipelineSnapshotMode(status) ==
    CASE status = "awaiting_approval" -> "pending"
      [] status = "approved" -> "passed" [] status = "cancelled" -> "blocked"

build_pipeline_snapshot(j, status, approval) ==
    DesktopShellSnapshot(j, status, PipelineSnapshotMode(status), approval, None, None, FALSE)

build_replay_manifest(manifest_id, plan, bundle) ==
    [manifest_id |-> manifest_id, plan |-> plan.digest, evidence_bundle |-> bundle]

build_executed_snapshot(approval, bundle) ==
    LET j == approval.job IN
    DesktopShellSnapshot(j, "executed", "passed", approval, bundle,
                         build_replay_manifest("manifest", Plan[j], bundle), FALSE)

build_final_snapshot(executed) == [executed EXCEPT !.certificate = TRUE]

terminal_snapshot(snapshot, status) == [snapshot EXCEPT !.control_status = status]

-----------------------------------------------------------------------------
(* Approvals and command receipts *)

\* A request quotes the snapshot it was made on.
issue_desktop_approval(snapshot, request, t, ttl) ==
    IF /\ request.expected_snapshot = snapshot
       /\ snapshot.control_status = "awaiting_approval"
       /\ ttl > 0
       /\ snapshot.approval_status = "pending"
       /\ snapshot.contract = request.contract /\ snapshot.plan = request.plan
       /\ snapshot.permission = request.permission
    THEN [job |-> snapshot.job, actor |-> Actor, contract |-> request.contract,
          plan |-> request.plan, permission |-> request.permission,
          issued_at |-> t, expires_at |-> t + ttl]
    ELSE None

verify_desktop_approval(a) == a.expires_at > a.issued_at

verify_desktop_approval_binding(snapshot, a) ==
    /\ verify_desktop_approval(a)
    /\ snapshot.approval_digest = a /\ snapshot.approval_status = "passed"
    /\ snapshot.job = a.job /\ snapshot.contract = a.contract /\ snapshot.plan = a.plan
    /\ snapshot.permission = a.permission

verify_desktop_approval_for_execution(snapshot, a, t) ==
    /\ verify_desktop_approval_binding(snapshot, a)
    /\ snapshot.control_status = "approved"
    /\ t <= a.expires_at

issue_desktop_command_receipt(action, pre, post, a, t) ==
    [action |-> action, job |-> post.job, actor |-> Actor, pre |-> pre, post |-> post,
     approval |-> a, issued_at |-> t]

-----------------------------------------------------------------------------
(* The desktop's commands *)

\* The session takes the next snapshot and keeps the command's receipt.
Moves(j, action, post, a) ==
    /\ Cardinality(receipts) < MaxCommands
    /\ session' = [session EXCEPT ![j] = post]
    /\ shown' = shown \cup {post}
    /\ receipts' = receipts \cup
          {issue_desktop_command_receipt(action, session[j], post, a, now)}

approve(j, quoted) ==
    LET request == [expected_snapshot |-> quoted, contract |-> quoted.contract,
                    plan |-> quoted.plan, permission |-> quoted.permission]
        a == issue_desktop_approval(session[j], request, now, ApprovalTtl)
    IN  /\ a # None
        /\ Moves(j, "approve", build_pipeline_snapshot(j, "approved", a), a)
        /\ approvals' = approvals \cup {a}
        /\ UNCHANGED <<now, running, production, key, policy, asked>>

\* The checks of execute; the session stays locked while the work is done.
execute_begins(j) ==
    /\ j \notin running
    /\ session[j].approval_digest # None
    /\ verify_desktop_approval_for_execution(session[j], session[j].approval_digest, now)
    /\ running' = running \cup {j}
    /\ UNCHANGED <<now, session, shown, approvals, receipts, production, key, policy, asked>>

\* The end of the execution reads the clock again for its receipt.
execute_ends(j, bundle) ==
    LET a == session[j].approval_digest IN
    /\ j \in running
    /\ running' = running \ {j}
    /\ Moves(j, "execute", build_executed_snapshot(a, bundle), a)
    /\ UNCHANGED <<now, approvals, production, key, policy, asked>>

cancel(j) ==
    /\ j \notin running
    /\ session[j].control_status \in {"awaiting_approval", "approved"}
    /\ LET a == session[j].approval_digest
       IN  Moves(j, "cancel", build_pipeline_snapshot(j, "cancelled", a), a)
    /\ UNCHANGED <<now, running, approvals, production, key, policy, asked>>

rollback(j) ==
    /\ session[j].control_status = "executed" /\ session[j].certificate
    /\ verify_desktop_approval_binding(session[j], session[j].approval_digest)
    /\ Moves(j, "rollback", terminal_snapshot(session[j], "rolled_back"),
             session[j].approval_digest)
    /\ UNCHANGED <<now, running, approvals, production, key, policy, asked>>

-----------------------------------------------------------------------------
(* What a presented snapshot, approval and receipt authorize *)

\* Mutant: a receipt of the future is taken.
validate_common_bindings_AnyTime(s, a, r, contract, plan, status, action, t) ==
    /\ verify_desktop_approval(a)
    /\ s.control_status = status /\ r.action = action
    /\ verify_desktop_approval_binding(s, a)
    /\ r.job = s.job /\ r.actor = a.actor /\ r.post = s /\ r.approval = a
    /\ s.contract = contract.digest /\ s.plan = plan.digest
    /\ plan.contract = contract.digest /\ plan.capsule = contract.capsule
    /\ a.contract = contract.digest /\ a.plan = plan.digest
    /\ plan.capsule = Capsule

validate_common_bindings(s, a, r, contract, plan, status, action, t) ==
    /\ verify_desktop_approval(a)
    /\ s.control_status = status /\ r.action = action
    /\ r.issued_at <= t
    /\ verify_desktop_approval_binding(s, a)
    /\ r.job = s.job /\ r.actor = a.actor /\ r.post = s /\ r.approval = a
    /\ s.contract = contract.digest /\ s.plan = plan.digest
    /\ plan.contract = contract.digest /\ plan.capsule = contract.capsule
    /\ a.contract = contract.digest /\ a.plan = plan.digest
    /\ plan.capsule = Capsule

validate_capability_intent(draft, contract, plan, a, t) ==
    /\ draft.subject = Executor
    /\ draft.issued_at = t /\ draft.not_before >= t
    /\ draft.expires_at <= a.expires_at /\ draft.expires_at > draft.not_before
    /\ draft.max_uses = 1
    /\ draft.contract = contract.digest /\ draft.capsule = contract.capsule
    /\ draft.plan = plan.digest
    /\ \E step \in plan.steps : /\ step.step = draft.step
                                /\ step.operator = draft.operator
                                /\ draft.token \in step.tokens
    /\ draft.grant \in contract.permissions

authorize_capability(s, a, r, contract, plan, draft, t) ==
    /\ validate_common_bindings(s, a, r, contract, plan, "approved", "approve", t)
    /\ verify_desktop_approval_for_execution(s, a, t)
    /\ validate_capability_intent(draft, contract, plan, a, t)

assess_bundle(contract, plan, bundle) ==
    bundle.contract = contract.digest /\ bundle.plan = plan.digest /\ bundle.accepted

authorize_attestation(s, a, r, contract, plan, bundle, draft, t) ==
    /\ validate_common_bindings(s, a, r, contract, plan, "executed", "execute", t)
    /\ r.issued_at <= a.expires_at
    /\ draft.issued_at = t
    /\ assess_bundle(contract, plan, bundle)
    /\ s.evidence_bundle = bundle
    /\ s.replay_manifest = build_replay_manifest(draft.manifest_id, plan, bundle)

-----------------------------------------------------------------------------
(* BackendIssuancePolicy *)

MAX_AUTHORIZATION_TTL_S == 300

authorization_digest(authorization) == authorization

register_authorization(p, kind, s, a, r, intent, t, ttl) ==
    LET scope == <<a, intent, kind>>
        authorization ==
            [id |-> <<r, intent, t, kind, s>>, kind |-> kind, snapshot |-> s, approval |-> a,
             receipt |-> r, intent |-> intent, issued_at |-> t, expires_at |-> t + ttl]
    IN  IF ttl = 0 \/ ttl > MAX_AUTHORIZATION_TTL_S \/ scope \in p.authorized_intents
        THEN [ok |-> FALSE]
        ELSE [ok |-> TRUE, authorization |-> authorization,
              policy |-> [p EXCEPT
                  !.authorized_intents = @ \cup {scope},
                  !.pending = @ \cup {<<authorization.id, authorization_digest(authorization)>>}]]

consume_authorization(p, authorization, kind, t) ==
    LET entry == <<authorization.id, authorization_digest(authorization)>>
    IN  IF /\ authorization.kind = kind
           /\ t <= authorization.expires_at
           /\ authorization.id \notin p.consumed
           /\ entry \in p.pending
        THEN [ok |-> TRUE, policy |-> [p EXCEPT !.pending = @ \ {entry},
                                                !.consumed = @ \cup {authorization.id}]]
        ELSE [ok |-> FALSE]

\* An issuance registers and consumes its authorization at one reading of the clock.
Consumed(p, kind, s, a, r, intent, ttl) ==
    LET registered == register_authorization(p, kind, s, a, r, intent, now, ttl)
    IN  IF registered.ok
        THEN consume_authorization(registered.policy, registered.authorization, kind, now)
        ELSE [ok |-> FALSE]

-----------------------------------------------------------------------------
(* The signer's answer *)

Identity(kind) ==
    IF kind = "capability"
    THEN [role |-> "CAPABILITY", issuer_id |-> "ergaxiom.policy-authority",
          key_id |-> "capability-key-v1"]
    ELSE [role |-> "ATTESTATION", issuer_id |-> "ergaxiom.attestation-authority",
          key_id |-> "attestation-key-v1"]

request_id_for_payload(payload) == payload

validate_draft(draft) ==
    /\ draft.issued_at <= draft.not_before /\ draft.not_before < draft.expires_at
    /\ draft.max_uses > 0
    /\ draft.nonce >= 16

Ttls == {0, 1, MAX_AUTHORIZATION_TTL_S + 1}
Faults == {"none", "unsigned", "request", "role", "digest", "public_key"}

\* The answer to a request for a digest, right or wrong in one place.
Response(kind, payload, fault) ==
    [signed |-> fault # "unsigned",
     request_id |-> IF fault = "request" THEN None ELSE request_id_for_payload(payload),
     identity |-> IF fault = "role" THEN Identity("other") ELSE Identity(kind),
     digest |-> IF fault = "digest" THEN None ELSE payload,
     public_key |-> IF fault = "public_key" THEN "retired" ELSE "provisioned"]

\* Of either kind, checked against the provisioned key or the trust snapshot.
AnswerFits(kind, payload, response) ==
    /\ response.signed
    /\ response.request_id = request_id_for_payload(payload)
    /\ response.identity = Identity(kind)
    /\ response.digest = payload
    /\ response.public_key = "provisioned"

\* Whether the signer is asked, and whether its answer is taken.
issue(draft, response) ==
    [asked |-> validate_draft(draft), ok |-> AnswerFits("capability", draft, response)]

issue_certificate(draft, intent, response) ==
    [asked |-> draft.manifest_id # "" /\ draft.certificate_id # "" /\ draft.issued_at > 0,
     ok |-> AnswerFits("attestation", intent, response)]

\* The trust binding and the registry are the authority's own copies.
resolve(k, t) == k.status # "revoked" /\ t \in k.not_before .. k.not_after - 1

validate_active_signing_trust(k, t) == resolve(k, t) /\ k.status = "active"

governed_issue(draft, response, k) ==
    [asked |-> validate_active_signing_trust(k, draft.issued_at) /\ validate_draft(draft),
     ok |-> AnswerFits("capability", draft, response) /\ resolve(k, draft.issued_at)]

governed_issue_certificate(draft, intent, response, k) ==
    [asked |-> /\ validate_active_signing_trust(k, draft.issued_at)
               /\ issue_certificate(draft, intent, response).asked,
     ok |-> AnswerFits("attestation", intent, response) /\ resolve(k, draft.issued_at)]

-----------------------------------------------------------------------------
(* The authorities *)

\* Whatever becomes of the request, the authorization is spent.
Spends(kind, a, intent, consumed, outcome) ==
    /\ consumed.ok
    /\ policy' = consumed.policy
    /\ asked' = IF outcome.asked
                  THEN Append(asked, [kind |-> kind, approval |-> a, intent |-> intent,
                                      ok |-> outcome.ok])
                  ELSE asked
    /\ UNCHANGED <<now, session, running, shown, approvals, receipts, production, key>>

issue_capability(s, a, r, c, p, draft) ==
    /\ ~ production
    /\ authorize_capability(s, a, r, Contract[c], Plan[p], draft, now)
    /\ \E ttl \in Ttls, fault \in Faults :
          Spends("capability", a, draft, Consumed(policy, "capability", s, a, r, draft, ttl),
                    issue(draft, Response("capability", draft, fault)))

production_issue_capability(s, a, r, c, p, draft) ==
    /\ production
    /\ authorize_capability(s, a, r, Contract[c], Plan[p], draft, now)
    /\ \E ttl \in Ttls, fault \in Faults :
          Spends("capability", a, draft, Consumed(policy, "capability", s, a, r, draft, ttl),
                    governed_issue(draft, Response("capability", draft, fault), key))

AttestationIntent(draft, plan, bundle) ==
    [draft |-> draft, bundle |-> bundle,
     replay_manifest |-> build_replay_manifest(draft.manifest_id, plan, bundle)]

issue_attestation(s, a, r, c, p, bundle, draft) ==
    LET intent == AttestationIntent(draft, Plan[p], bundle) IN
    /\ ~ production
    /\ authorize_attestation(s, a, r, Contract[c], Plan[p], bundle, draft, now)
    /\ \E ttl \in Ttls, fault \in Faults :
          Spends("attestation", a, intent, Consumed(policy, "attestation", s, a, r, intent, ttl),
                    issue_certificate(draft, intent, Response("attestation", intent, fault)))

production_issue_attestation(s, a, r, c, p, bundle, draft) ==
    LET intent == AttestationIntent(draft, Plan[p], bundle) IN
    /\ production
    /\ authorize_attestation(s, a, r, Contract[c], Plan[p], bundle, draft, now)
    /\ \E ttl \in Ttls, fault \in Faults :
          Spends("attestation", a, intent, Consumed(policy, "attestation", s, a, r, intent, ttl),
                    governed_issue_certificate(draft, intent, Response("attestation", intent, fault),
                                               key))

\* The certificate is shown once it is issued.
certify(j) ==
    /\ j \notin running
    /\ session[j].control_status = "executed" /\ ~ session[j].certificate
    /\ \E i \in DOMAIN asked : /\ asked[i].kind = "attestation" /\ asked[i].ok
                               /\ asked[i].intent.bundle = session[j].evidence_bundle
    /\ session' = [session EXCEPT ![j] = build_final_snapshot(@)]
    /\ shown' = shown \cup {session'[j]}
    /\ UNCHANGED <<now, running, approvals, receipts, production, key, policy, asked>>

SetClock(t) ==
    /\ t # now
    /\ now' = t
    /\ UNCHANGED <<session, running, shown, approvals, receipts, production, key, policy, asked>>

-----------------------------------------------------------------------------
(* Inputs *)

\* Drafts for a plan at an instant, and with one thing not right.
CapabilityDrafts(p, t) ==
    LET right == UNION {
            {[token |-> x, step |-> step.step, operator |-> step.operator,
              subject |-> Executor, contract |-> Contract[p].digest,
              capsule |-> Capsule, plan |-> Plan[p].digest, issued_at |-> t,
              not_before |-> from, expires_at |-> until, max_uses |-> 1, nonce |-> 16,
              grant |-> grant] :
                x \in step.tokens, from \in {t, t + 1}, until \in {t + 1},
                grant \in Contract[p].permissions} : step \in Plan[p].steps}
        first == CHOOSE d \in right : d.not_before < d.expires_at
    IN  right \cup
        {[first EXCEPT !.token = "other"], [first EXCEPT !.operator = "other"],
         [first EXCEPT !.subject = [executor_id |-> "other", device_id |-> "device"]],
         [first EXCEPT !.issued_at = t + 1], [first EXCEPT !.not_before = t - 1],
         [first EXCEPT !.expires_at = t + ApprovalTtl + 1], [first EXCEPT !.max_uses = 2],
         [first EXCEPT !.nonce = 8], [first EXCEPT !.grant = "other"],
         [first EXCEPT !.capsule = "other"]}

Bundles == {[contract |-> Contract[j].digest, plan |-> Plan[j].digest, accepted |-> b] :
               j \in Jobs, b \in BOOLEAN}

AttestationDrafts(t) ==
    {[manifest_id |-> m, certificate_id |-> "certificate", issued_at |-> at] :
        m \in {"manifest", "other"}, at \in {t, t + 1}}

\* Drafts are varied for what passes the checks that do not look at them.
Presentable(s, a, r, c, p, status, action) ==
    validate_common_bindings(s, a, r, Contract[c], Plan[p], status, action, now)

Init ==
    /\ now \in 1 .. MaxTime
    /\ session = [j \in Jobs |-> build_pipeline_snapshot(j, "awaiting_approval", None)]
    /\ running = {} /\ approvals = {} /\ receipts = {}
    /\ shown = {session[j] : j \in Jobs}
    /\ production \in BOOLEAN
    /\ key \in [status : {"active", "retired"}, not_before : {1}, not_after : {MaxTime}]
    /\ ~ production => key.status = "active"
    /\ policy = [pending |-> {}, consumed |-> {}, authorized_intents |-> {}]
    /\ asked = << >>

Next ==
    \/ \E j \in Jobs : \/ \E quoted \in shown : approve(j, quoted)
                       \/ execute_begins(j)
                       \/ \E bundle \in Bundles : bundle.plan = Plan[j].digest
                                                  /\ execute_ends(j, bundle)
                       \/ cancel(j) \/ rollback(j) \/ certify(j)
    \/ \E t \in 1 .. MaxTime : SetClock(t)
    \/ /\ Cardinality(policy.authorized_intents) < MaxIssued
       /\ \E s \in shown, a \in approvals, r \in receipts, c, p \in Jobs :
            \/ /\ Presentable(s, a, r, c, p, "approved", "approve")
               /\ \E draft \in CapabilityDrafts(p, now) :
                     \/ issue_capability(s, a, r, c, p, draft)
                     \/ production_issue_capability(s, a, r, c, p, draft)
            \/ /\ Presentable(s, a, r, c, p, "executed", "execute")
               /\ \E draft \in AttestationDrafts(now), bundle \in Bundles :
                     \/ issue_attestation(s, a, r, c, p, bundle, draft)
                     \/ production_issue_attestation(s, a, r, c, p, bundle, draft)

Spec == Init /\ [][Next]_vars

-----------------------------------------------------------------------------
(* Properties *)

\* A capability the signer was asked for lies within an approval: of its
\* contract and plan, given by then, and not over before the token is.
TokenCovered(e) ==
    LET d == e.intent IN
    \E a \in approvals :
        /\ a = e.approval /\ d.contract = a.contract /\ d.plan = a.plan
        /\ a.issued_at <= d.issued_at /\ d.expires_at <= a.expires_at
        /\ d.max_uses = 1 /\ d.grant \in Contract[a.job].permissions

\* A certificate the signer was asked for is about an execution that was
\* finished by then, within its approval, with accepted evidence.
CertificateCovered(e) ==
    \E r \in receipts :
        /\ r.action = "execute" /\ r.approval = e.approval
        /\ r.issued_at <= r.approval.expires_at /\ r.issued_at <= e.intent.draft.issued_at
        /\ r.post.evidence_bundle = e.intent.bundle /\ e.intent.bundle.accepted
        /\ e.intent.bundle.plan = Plan[r.job].digest

\* Whichever of the desktop's snapshots, approvals and receipts a caller
\* presents to issue_capability and issue_attestation, also after the clock
\* was set back, the signer is asked only for what the user approved and for
\* what was executed under it, and never twice for the same intent.
IssuedUnderApproval ==
    \A i \in DOMAIN asked :
        /\ asked[i].kind = "capability" => TokenCovered(asked[i])
        /\ asked[i].kind = "attestation" => CertificateCovered(asked[i])
        /\ \A k \in DOMAIN asked \ {i} : asked[k].approval = asked[i].approval
              => asked[k].kind # asked[i].kind \/ asked[k].intent # asked[i].intent
=============================================================================
