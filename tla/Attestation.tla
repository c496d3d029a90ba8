----------------------------- MODULE Attestation -----------------------------
(***************************************************************************)
(* What the certified paths share: signed evidence packages, proof         *)
(* results, the assessment of the bundle a certification assembles, and    *)
(* the replay manifests and Acceptance Certificates issued for it with a   *)
(* local key, through the isolated signer and through the production       *)
(* signer, and how these are verified (attestation-runtime,                *)
(* attestation-issuance-runtime).                                          *)
(*                                                                         *)
(* A digest is the value it is taken of.  A record that carries its own    *)
(* digest carries `intact`: whether that digest still reproduces.  A       *)
(* signed package is the record, the key it names and the record that was  *)
(* signed; a signer's answer is the envelope it signed and the public key  *)
(* that signed it.                                                         *)
(***************************************************************************)
EXTENDS Integers, Sequences, FiniteSets, Functions

sign_value(record, key) == [record |-> record, key |-> key, signed |-> record]

\* A trusted key of that name signed this very record.
verify_value(package, trusted) ==
    package.key \in trusted /\ package.signed = package.record

artifact(id, role, content) == [id |-> id, role |-> role, content |-> content]

\* Every certified path reports its proof results as passed by an
\* independent validator; what decides is whether it gets to report them.
proof(claim, subject, by, evidence) ==
    [claim |-> claim, subject |-> subject, validator |-> by, evidence |-> evidence]

\* A proof result is one the contract asks for and the bundle can back: it is
\* about an obligation's constraint, from a validator bound to it, about an
\* artifact of the bundle, with evidence artifacts of the bundle.
ResultStands(r, contract, capsule, artifacts) ==
    /\ \E o \in Range(contract.obligations) :
          /\ o.constraint_id = r.claim /\ o.mandatory
          /\ r.validator \in Range(o.validator_ids)
    /\ \E v \in Range(capsule.validators) :
          v.id = r.validator /\ v.independence = "independent"
    /\ r.subject \in {a.id : a \in artifacts}
    /\ r.evidence \subseteq {a.id : a \in {b \in artifacts : b.role = "evidence"}}

\* assess_bundle accepts: the bundle names the seal of the plan, its trace is
\* one of that plan and conforms to it, every result stands, every mandatory
\* obligation has one, two of different validators if it must be diverse, and
\* the assurance level suffices.  EvidenceAssessment has the whole of it.
assess_bundle(contract, plan, bundle, level) ==
    /\ bundle.plan = plan /\ bundle.contract = contract /\ bundle.level = level
    /\ plan.contract_digest = contract
    /\ bundle.trace.plan = plan /\ bundle.trace.conforms
    /\ \A r \in bundle.results :
          ResultStands(r, contract, plan.capsule_digest, bundle.artifacts)
    /\ \A o \in Range(contract.obligations) : o.mandatory =>
          Cardinality({r.validator : r \in {s \in bundle.results :
                                               s.claim = o.constraint_id}})
              >= (IF o.independence = "diverse" THEN 2 ELSE 1)
    /\ level >= contract.acceptance.minimum

\* The plan of a certification names the contract's seal.
PlanBound(plan, contract, capsule) ==
    plan.contract_digest = contract /\ plan.capsule_digest = capsule

-----------------------------------------------------------------------------
(* Issuance with a local key *)

ATTESTATION_ISSUER_ID == "ergaxiom.attestation-authority"
ATTESTATION_KEY_ID == "attestation-key-v1"

build_replay_manifest(id, plan, bundle, level) ==
    [manifest_id |-> id, contract |-> plan.contract_digest,
     capsule |-> plan.capsule_digest, plan |-> plan, evidence_bundle |-> bundle,
     authorized_trace |-> bundle.trace, environment |-> bundle.environment,
     artifacts |-> bundle.artifacts, proofs |-> {r.claim : r \in bundle.results},
     decision |-> "accepted", level |-> level,
     mandatory_passed |-> Cardinality(bundle.results)]

Payload(draft, issuer, key, manifest) ==
    [certificate_id |-> draft.certificate_id, issuer_id |-> issuer, key_id |-> key,
     issued_at |-> draft.issued_at, contract |-> manifest.contract,
     capsule |-> manifest.capsule, plan |-> manifest.plan,
     evidence_bundle |-> manifest.evidence_bundle,
     authorized_trace |-> manifest.authorized_trace, replay_manifest |-> manifest,
     level |-> manifest.level, mandatory_passed |-> manifest.mandatory_passed,
     decision |-> manifest.decision]

\* With a key of the caller's: any named draft and issuer.
issue_attestation(contract, plan, bundle, level, draft, signer) ==
    LET manifest == build_replay_manifest(draft.manifest_id, plan, bundle, level)
        payload == Payload(draft, signer.issuer_id, signer.key_id, manifest)
    IN  IF /\ draft.manifest_id # "" /\ draft.certificate_id # ""
           /\ assess_bundle(contract, plan, bundle, level)
        THEN [ok |-> TRUE,
              package |-> [replay_manifest |-> manifest, payload |-> payload,
                           signed |-> payload, public_key |-> signer.public_key]]
        ELSE [ok |-> FALSE]

-----------------------------------------------------------------------------
(* Verification *)

validate_manifest_payload_match(manifest, payload) ==
    \A f \in DOMAIN manifest \cap DOMAIN payload : manifest[f] = payload[f]

validate_document(manifest, payload) ==
    /\ payload.decision = "accepted" /\ manifest.decision = "accepted"
    /\ payload.replay_manifest = manifest
    /\ validate_manifest_payload_match(manifest, payload)

\* trusted: <<issuer, key id>> -> public key.
trusted_key(trusted, payload) ==
    LET id == <<payload.issuer_id, payload.key_id>>
    IN  IF id \in DOMAIN trusted THEN trusted[id] ELSE "unknown"

verify_attestation(package, trusted) ==
    /\ trusted_key(trusted, package.payload) = package.public_key
    /\ package.signed = package.payload
    /\ validate_document(package.replay_manifest, package.payload)

verify_recomputed_manifest(manifest, contract, plan, bundle, level) ==
    /\ assess_bundle(contract, plan, bundle, level)
    /\ build_replay_manifest(manifest.manifest_id, plan, bundle, level) = manifest

verify_attestation_against_bundle(package, trusted, contract, plan, bundle, level) ==
    /\ verify_attestation(package, trusted)
    /\ verify_recomputed_manifest(package.replay_manifest, contract, plan, bundle, level)

\* The end of every certification: the bundle is assessed, a certificate is
\* issued with the caller's key and verified at once against that key.
Attested(request, artifacts, results) ==
    LET bundle == [contract |-> request.contract, plan |-> request.plan,
                   level |-> request.level, environment |-> request.environment,
                   artifacts |-> artifacts, results |-> results, trace |-> request.trace]
        issued == issue_attestation(request.contract, request.plan, bundle, request.level,
                                    request.draft, request.signer)
        own == [id \in {<<request.signer.issuer_id, request.signer.key_id>>} |->
                   request.signer.public_key]
    IN  IF /\ assess_bundle(request.contract, request.plan, bundle, request.level)
           /\ issued.ok
           /\ verify_attestation_against_bundle(issued.package, own, request.contract,
                                                request.plan, bundle, request.level)
        THEN [ok |-> TRUE, bundle |-> bundle]
        ELSE [ok |-> FALSE]

EnvelopeNames(envelope, payload) ==
    /\ envelope.role = "ATTESTATION"
    /\ envelope.issuer_id = payload.issuer_id /\ envelope.key_id = payload.key_id
    /\ envelope.digest = payload

verify_signer_bound_attestation(package, trusted) ==
    /\ validate_document(package.replay_manifest, package.payload)
    /\ package.response.signed
    /\ EnvelopeNames(package.response.envelope, package.payload)
    /\ trusted_key(trusted, package.payload) = package.response.public_key

verify_signer_bound_attestation_against_bundle(package, trusted, contract, plan, bundle, level) ==
    /\ verify_signer_bound_attestation(package, trusted)
    /\ verify_recomputed_manifest(package.replay_manifest, contract, plan, bundle, level)

\* A production package is verified against the trust snapshot, which names
\* the one key the package has to be signed with.
verify_production_signer_bound_attestation(package, snapshot) ==
    /\ validate_document(package.replay_manifest, package.payload)
    /\ package.response.signed /\ package.response.public_key = snapshot.public_key
    /\ EnvelopeNames(package.response.envelope, package.payload)

verify_production_signer_bound_attestation_against_bundle(package, snapshot, contract, plan, bundle, level) ==
    /\ verify_production_signer_bound_attestation(package, snapshot)
    /\ verify_recomputed_manifest(package.replay_manifest, contract, plan, bundle, level)

-----------------------------------------------------------------------------
(* Issuance through a signer *)

\* The request id is the start of the payload's digest.
request_id_for_payload(payload) == <<"attestation.issue", payload.certificate_id>>

validate_draft(draft) ==
    draft.manifest_id # "" /\ draft.certificate_id # "" /\ draft.issued_at > 0

prepare_attestation(contract, plan, bundle, level, draft) ==
    LET manifest == build_replay_manifest(draft.manifest_id, plan, bundle, level)
        payload == Payload(draft, ATTESTATION_ISSUER_ID, ATTESTATION_KEY_ID, manifest)
    IN  IF validate_draft(draft) /\ assess_bundle(contract, plan, bundle, level)
        THEN [ok |-> TRUE, replay_manifest |-> manifest, payload |-> payload,
              request_id |-> request_id_for_payload(payload)]
        ELSE [ok |-> FALSE]

\* Mutant: the envelope's digest is not compared with the payload's.
validate_ed25519_envelope_AnyDigest(envelope, prepared) ==
    /\ envelope.request_id = prepared.request_id
    /\ envelope.role = "ATTESTATION"
    /\ envelope.issuer_id = ATTESTATION_ISSUER_ID
    /\ envelope.key_id = ATTESTATION_KEY_ID

validate_ed25519_envelope(envelope, prepared) ==
    /\ envelope.request_id = prepared.request_id
    /\ envelope.role = "ATTESTATION"
    /\ envelope.issuer_id = ATTESTATION_ISSUER_ID
    /\ envelope.key_id = ATTESTATION_KEY_ID
    /\ envelope.digest = prepared.payload

\* `response` is what the transport returns for the request.
issue(contract, plan, bundle, level, draft, response, expected_public_key) ==
    LET prepared == prepare_attestation(contract, plan, bundle, level, draft)
    IN  IF /\ prepared.ok
           /\ response.signed
           /\ validate_ed25519_envelope(response.envelope, prepared)
           /\ response.public_key = expected_public_key
        THEN [ok |-> TRUE,
              package |-> [replay_manifest |-> prepared.replay_manifest,
                           payload |-> prepared.payload, response |-> response]]
        ELSE [ok |-> FALSE]

\* Through the production signer: its package has to verify under the trust
\* snapshot the authority was made with.
production_issue(contract, plan, bundle, level, draft, response, snapshot) ==
    LET prepared == prepare_attestation(contract, plan, bundle, level, draft)
    IN  IF /\ prepared.ok
           /\ response.signed /\ response.public_key = snapshot.public_key
           /\ validate_ed25519_envelope(response.envelope, prepared)
        THEN [ok |-> TRUE,
              package |-> [replay_manifest |-> prepared.replay_manifest,
                           payload |-> prepared.payload, response |-> response]]
        ELSE [ok |-> FALSE]
=============================================================================
