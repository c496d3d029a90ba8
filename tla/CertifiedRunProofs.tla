-------------------------- MODULE CertifiedRunProofs --------------------------
(***************************************************************************)
(* Proofs about CertifiedRun, for whatever material, adapters and capsule  *)
(* the run is given.                                                       *)
(***************************************************************************)
EXTENDS CertifiedRun, TLAPS

\* A leaf is tried with Zenon, then with SMT, then with each again for longer.
USE ZenonT(3), SMTT(20), ZenonT(60), SMTT(120)

-----------------------------------------------------------------------------
(* Attestation *)

\* Given the same key, the production issuer grants what the other one does.
LEMMA IssuersAgree ==
    ASSUME NEW c, NEW p, NEW b, NEW l, NEW d, NEW r, NEW k
    PROVE  Signer!production_issue(c, p, b, l, d, r, [public_key |-> k])
             = Signer!issue(c, p, b, l, d, r, k)
BY DEF Signer!production_issue, Signer!issue

\* What issue hands out: the manifest and the payload of the bundle, with an
\* answer of the authority's that names them.
LEMMA IssuedPackage ==
    ASSUME NEW c, NEW p, NEW b, NEW l, NEW d, NEW r, NEW k,
           Signer!issue(c, p, b, l, d, r, k).ok
    PROVE  \E package, manifest, payload :
              /\ package = Signer!issue(c, p, b, l, d, r, k).package
              /\ manifest = Signer!build_replay_manifest(d.manifest_id, p, b, l)
              /\ payload = Signer!Payload(d, Signer!ATTESTATION_ISSUER_ID,
                                          Signer!ATTESTATION_KEY_ID, manifest)
              /\ package = [replay_manifest |-> manifest, payload |-> payload, response |-> r]
              /\ r.signed /\ r.public_key = k
              /\ Signer!assess_bundle(c, p, b, l)
              /\ r.envelope.role = "ATTESTATION"
              /\ r.envelope.issuer_id = Signer!ATTESTATION_ISSUER_ID
              /\ r.envelope.key_id = Signer!ATTESTATION_KEY_ID
              /\ r.envelope.digest = payload
<1> DEFINE manifest == Signer!build_replay_manifest(d.manifest_id, p, b, l)
           payload == Signer!Payload(d, Signer!ATTESTATION_ISSUER_ID,
                                     Signer!ATTESTATION_KEY_ID, manifest)
           full == [ok |-> TRUE, replay_manifest |-> manifest, payload |-> payload,
                    request_id |-> Signer!request_id_for_payload(payload)]
           doc == Signer!prepare_attestation(c, p, b, l, d)
           good == /\ doc.ok /\ r.signed
                   /\ Signer!validate_ed25519_envelope(r.envelope, doc)
                   /\ r.public_key = k
           package == [replay_manifest |-> doc.replay_manifest,
                       payload |-> doc.payload, response |-> r]
<1>1. Signer!issue(c, p, b, l, d, r, k)
        = IF good THEN [ok |-> TRUE, package |-> package] ELSE [ok |-> FALSE]
  BY DEF Signer!issue
<1>2. good /\ Signer!issue(c, p, b, l, d, r, k).package = package
  <2> HIDE DEF good, package
  <2> QED
    BY <1>1
<1>3. doc = IF Signer!validate_draft(d) /\ Signer!assess_bundle(c, p, b, l)
                   THEN full ELSE [ok |-> FALSE]
  BY DEF Signer!prepare_attestation
<1>4. doc = full /\ Signer!assess_bundle(c, p, b, l)
  <2> HIDE DEF doc, full
  <2> QED
    BY <1>2, <1>3
<1>5. doc.replay_manifest = manifest /\ doc.payload = payload
  <2> HIDE DEF manifest, payload, doc
  <2> QED
    BY <1>4
<1>6. /\ r.signed /\ r.public_key = k
      /\ r.envelope.role = "ATTESTATION"
      /\ r.envelope.issuer_id = Signer!ATTESTATION_ISSUER_ID
      /\ r.envelope.key_id = Signer!ATTESTATION_KEY_ID
      /\ r.envelope.digest = payload
  <2> HIDE DEF manifest, payload, doc
  <2> QED
    BY <1>2, <1>5 DEF Signer!validate_ed25519_envelope
<1>7. Signer!issue(c, p, b, l, d, r, k).package
        = [replay_manifest |-> manifest, payload |-> payload, response |-> r]
  <2> HIDE DEF manifest, payload, doc
  <2> QED
    BY <1>2, <1>5
<1> WITNESS Signer!issue(c, p, b, l, d, r, k).package, manifest, payload
<1> HIDE DEF manifest, payload
<1> QED
  BY <1>4, <1>6, <1>7 DEF manifest, payload

\* The payload made of a manifest agrees with it (validate_document).
LEMMA DocumentStands ==
    ASSUME NEW id, NEW p, NEW b, NEW l, NEW d, NEW i, NEW k,
           NEW m, m = Signer!build_replay_manifest(id, p, b, l)
    PROVE  Signer!validate_document(m, Signer!Payload(d, i, k, m))
<1> DEFINE q == Signer!Payload(d, i, k, m)
<1>1. /\ m.decision = "accepted"
      /\ DOMAIN m = {"manifest_id", "contract", "capsule", "plan", "evidence_bundle",
                     "authorized_trace", "environment", "artifacts", "proofs", "decision",
                     "level", "mandatory_passed"}
  BY DEF Signer!build_replay_manifest
<1>2. /\ q.replay_manifest = m /\ q.decision = m.decision
      /\ q.contract = m.contract /\ q.capsule = m.capsule /\ q.plan = m.plan
      /\ q.evidence_bundle = m.evidence_bundle
      /\ q.authorized_trace = m.authorized_trace /\ q.level = m.level
      /\ q.mandatory_passed = m.mandatory_passed
      /\ DOMAIN q = {"certificate_id", "issuer_id", "key_id", "issued_at", "contract",
                     "capsule", "plan", "evidence_bundle", "authorized_trace",
                     "replay_manifest", "level", "mandatory_passed", "decision"}
  BY DEF Signer!Payload
<1> HIDE DEF q
<1>3. ASSUME NEW f \in DOMAIN m \cap DOMAIN q PROVE m[f] = q[f]
  <2>1. f \in {"contract", "capsule", "plan", "evidence_bundle", "authorized_trace",
               "decision", "level", "mandatory_passed"}
    BY <1>1, <1>2
  <2> QED
    BY <2>1, <1>2
<1>4. Signer!validate_document(m, q)
  BY <1>1, <1>2, <1>3 DEF Signer!validate_document, Signer!validate_manifest_payload_match
<1> QED
  BY <1>4 DEF q

\* A replay manifest is about one bundle.
LEMMA ManifestNamesBundle ==
    ASSUME NEW id, NEW jd, NEW p, NEW b, NEW e, NEW l,
           Signer!build_replay_manifest(id, p, b, l) = Signer!build_replay_manifest(jd, p, e, l)
    PROVE  b = e
<1>1. /\ Signer!build_replay_manifest(id, p, b, l).evidence_bundle = b
      /\ Signer!build_replay_manifest(jd, p, e, l).evidence_bundle = e
  BY DEF Signer!build_replay_manifest
<1> QED
  BY <1>1

\* The issuer grants the request.
Grants(c, p, b, l, d, r, k) == Signer!issue(c, p, b, l, d, r, k).ok

\* A package verifies for a bundle, and for no other, under a key, and under
\* no other.
VerifiesOnly(package, c, p, b, l, k) ==
    /\ Signer!verify_signer_bound_attestation_against_bundle(package,
           [id \in {<<Signer!ATTESTATION_ISSUER_ID, Signer!ATTESTATION_KEY_ID>>} |-> k],
           c, p, b, l)
    /\ Signer!verify_production_signer_bound_attestation_against_bundle(package,
           [public_key |-> k], c, p, b, l)
    /\ \A j : Signer!verify_production_signer_bound_attestation(package,
                  [public_key |-> j]) => j = k
    /\ \A e : Signer!verify_recomputed_manifest(package.replay_manifest, c, p, e, l)
                 => e = b

\* The issuer, key and manifest that a payload and a manifest name.
LEMMA PayloadFields ==
    ASSUME NEW draft, NEW issuer, NEW key, NEW manifest, NEW q,
           q = Signer!Payload(draft, issuer, key, manifest)
    PROVE  q.issuer_id = issuer /\ q.key_id = key
BY DEF Signer!Payload

LEMMA ManifestId ==
    ASSUME NEW id, NEW p, NEW b, NEW l, NEW m, m = Signer!build_replay_manifest(id, p, b, l)
    PROVE  m.manifest_id = id
BY DEF Signer!build_replay_manifest

\* A package that was granted verifies as VerifiesOnly says.
LEMMA PackageVerifies ==
    ASSUME NEW c, NEW p, NEW b, NEW l, NEW d, NEW r, NEW k, Grants(c, p, b, l, d, r, k)
    PROVE  VerifiesOnly(Signer!issue(c, p, b, l, d, r, k).package, c, p, b, l, k)
<1> DEFINE package == Signer!issue(c, p, b, l, d, r, k).package
           trusted ==
             [id \in {<<Signer!ATTESTATION_ISSUER_ID, Signer!ATTESTATION_KEY_ID>>} |-> k]
<1>1. PICK made, m, q :
          /\ made = Signer!issue(c, p, b, l, d, r, k).package
          /\ m = Signer!build_replay_manifest(d.manifest_id, p, b, l)
          /\ q = Signer!Payload(d, Signer!ATTESTATION_ISSUER_ID,
                                Signer!ATTESTATION_KEY_ID, m)
          /\ made = [replay_manifest |-> m, payload |-> q, response |-> r]
          /\ r.signed /\ r.public_key = k
          /\ Signer!assess_bundle(c, p, b, l)
          /\ r.envelope.role = "ATTESTATION"
          /\ r.envelope.issuer_id = Signer!ATTESTATION_ISSUER_ID
          /\ r.envelope.key_id = Signer!ATTESTATION_KEY_ID
          /\ r.envelope.digest = q
  BY IssuedPackage DEF Grants
<1>2. /\ package.replay_manifest = m /\ package.payload = q /\ package.response = r
  BY <1>1
<1>3. Signer!validate_document(m, q)
  BY <1>1, DocumentStands
<1>4. /\ q.issuer_id = Signer!ATTESTATION_ISSUER_ID /\ q.key_id = Signer!ATTESTATION_KEY_ID
      /\ m.manifest_id = d.manifest_id
  BY <1>1, PayloadFields, ManifestId
<1>5. Signer!EnvelopeNames(r.envelope, q)
  BY <1>1, <1>4 DEF Signer!EnvelopeNames
<1>6. Signer!trusted_key(trusted, q) = k
  BY <1>4 DEF Signer!trusted_key
<1>7. Signer!verify_recomputed_manifest(m, c, p, b, l)
  BY <1>1, <1>4 DEF Signer!verify_recomputed_manifest
<1>8. Signer!verify_signer_bound_attestation_against_bundle(package, trusted, c, p, b, l)
  <2> HIDE DEF trusted
  <2> QED
    BY <1>1, <1>2, <1>3, <1>5, <1>6, <1>7
    DEF Signer!verify_signer_bound_attestation_against_bundle,
        Signer!verify_signer_bound_attestation
<1>9. Signer!verify_production_signer_bound_attestation_against_bundle(package,
          [public_key |-> k], c, p, b, l)
  BY <1>1, <1>2, <1>3, <1>5, <1>7
  DEF Signer!verify_production_signer_bound_attestation_against_bundle,
      Signer!verify_production_signer_bound_attestation
<1>10. ASSUME NEW j,
              Signer!verify_production_signer_bound_attestation(package, [public_key |-> j])
       PROVE  j = k
  BY <1>10, <1>1, <1>2 DEF Signer!verify_production_signer_bound_attestation
<1>11. ASSUME NEW e, Signer!verify_recomputed_manifest(package.replay_manifest, c, p, e, l)
       PROVE  e = b
  BY <1>11, <1>1, <1>2, ManifestNamesBundle DEF Signer!verify_recomputed_manifest
<1> QED
  <2> HIDE DEF package
  <2> QED
    BY <1>8, <1>9, <1>10, <1>11 DEF VerifiesOnly, package

\* A bundle that differs in its environment or lacks an artifact is another.
LEMMA BundleParts ==
    /\ [Bundle EXCEPT !.environment = "linux"] # Bundle
    /\ \A a \in certificate.artifacts : [Bundle EXCEPT !.artifacts = @ \ {a}] # Bundle
<1>1. /\ Bundle.environment = "windows" /\ Bundle.artifacts = certificate.artifacts
      /\ "environment" \in DOMAIN Bundle /\ "artifacts" \in DOMAIN Bundle
  BY DEF Bundle
<1>2. [Bundle EXCEPT !.environment = "linux"] # Bundle
  BY <1>1
<1>3. ASSUME NEW a \in certificate.artifacts
      PROVE  [Bundle EXCEPT !.artifacts = @ \ {a}] # Bundle
  <2>1. [Bundle EXCEPT !.artifacts = @ \ {a}].artifacts = certificate.artifacts \ {a}
    BY <1>1
  <2>2. certificate.artifacts \ {a} # certificate.artifacts
    OBVIOUS
  <2> QED
    BY <2>1, <2>2, <1>1
<1> QED
  BY <1>2, <1>3

\* Either way of issuing is issue with some answer of the signer's.
LEMMA IssuanceIssues ==
    ASSUME NEW response, NEW production \in BOOLEAN
    PROVE  \E answer : Issuance(response, production) =
              Signer!issue(contract, plan, Bundle, Level, Draft, answer, Authority.public_key)
BY IssuersAgree DEF Issuance

\* A grant of the issuance is all that AttestedVerifies needs.
LEMMA IssuedVerify ==
    ASSUME issued # << >>, issued.production \in BOOLEAN,
           Issuance(issued.response, issued.production).ok
    PROVE  AttestedVerifies
<1>1. PICK answer : Issuance(issued.response, issued.production) =
          Signer!issue(contract, plan, Bundle, Level, Draft, answer, Authority.public_key)
  BY IssuanceIssues
<1>2. /\ Authority.public_key = "authority"
      /\ Authority.issuer_id = Signer!ATTESTATION_ISSUER_ID
      /\ Authority.key_id = Signer!ATTESTATION_KEY_ID
  BY DEF Authority
<1> DEFINE package == Issuance(issued.response, issued.production).package
           trusted == [id \in {<<Authority.issuer_id, Authority.key_id>>} |-> "authority"]
<1>3. /\ Signer!verify_signer_bound_attestation_against_bundle(package, trusted,
            contract, plan, Bundle, Level)
      /\ Signer!verify_production_signer_bound_attestation_against_bundle(package,
            [public_key |-> "authority"], contract, plan, Bundle, Level)
      /\ \A j : Signer!verify_production_signer_bound_attestation(package,
                    [public_key |-> j]) => j = "authority"
      /\ \A e : Signer!verify_recomputed_manifest(package.replay_manifest, contract, plan,
                    e, Level) => e = Bundle
  <2>1. trusted = [id \in {<<Signer!ATTESTATION_ISSUER_ID, Signer!ATTESTATION_KEY_ID>>} |->
                      "authority"]
    BY <1>2
  <2>2. /\ Signer!issue(contract, plan, Bundle, Level, Draft, answer, "authority").ok
        /\ package =
             Signer!issue(contract, plan, Bundle, Level, Draft, answer, "authority").package
    BY <1>1, <1>2
  <2>3. Grants(contract, plan, Bundle, Level, Draft, answer, "authority")
    BY <2>2 DEF Grants
  <2>4. VerifiesOnly(package, contract, plan, Bundle, Level, "authority")
    BY <2>2, <2>3, PackageVerifies
  <2> HIDE DEF package, trusted
  <2> QED
    BY <2>1, <2>4 DEF VerifiesOnly
<1>4. ASSUME NEW e, e # Bundle
      PROVE  /\ ~ Signer!verify_signer_bound_attestation_against_bundle(package, trusted,
                    contract, plan, e, Level)
             /\ ~ Signer!verify_production_signer_bound_attestation_against_bundle(package,
                    [public_key |-> "authority"], contract, plan, e, Level)
  BY <1>3, <1>4 DEF Signer!verify_signer_bound_attestation_against_bundle,
     Signer!verify_production_signer_bound_attestation_against_bundle
<1>5. ~ Signer!verify_production_signer_bound_attestation(package, [public_key |-> "retired"])
  BY <1>3
<1> HIDE DEF package, trusted
<1>6. /\ [Bundle EXCEPT !.environment = "linux"] # Bundle
      /\ \A a \in certificate.artifacts : [Bundle EXCEPT !.artifacts = @ \ {a}] # Bundle
  BY BundleParts
<1> QED
  BY <1>3, <1>4, <1>5, <1>6 DEF AttestedVerifies, package, trusted

-----------------------------------------------------------------------------
(* What was attested was granted *)

\* Nothing is executed, certified or attested before inputs are staged; what
\* was issued was granted for the certificate there is.
IssuedInv ==
    /\ inputs = << >> => run = << >> /\ certificate = << >> /\ issued = << >>
    /\ certificate = << >> => issued = << >>
    /\ issued # << >> =>
          /\ issued.production \in BOOLEAN
          /\ Issuance(issued.response, issued.production).ok

\* The issuance depends on the sealed documents and the certificate only.
LEMMA IssuanceUnchanged ==
    ASSUME UNCHANGED <<contract, plan, certificate, issued>>
    PROVE  Issuance(issued.response, issued.production)' =
           Issuance(issued.response, issued.production)
BY DEF Issuance, Prepared, Bundle, Level, Draft, Authority

\* IssuedInv is inductive.
LEMMA IssuedInvHolds == Spec => []IssuedInv
<1>1. Init => IssuedInv
  BY DEF Init, IssuedInv
<1>2. IssuedInv /\ [Next]_vars => IssuedInv'
  <2> SUFFICES ASSUME IssuedInv, [Next]_vars PROVE IssuedInv'
    OBVIOUS
  <2> USE DEF IssuedInv
  <2>1. CASE Prepare
    BY <2>1 DEF Prepare, workVars
  <2>2. ASSUME NEW w, Stage(w) PROVE IssuedInv'
    BY <2>2, IssuanceUnchanged DEF Stage, prepared
  <2>3. ASSUME NEW adapter, inputs # << >>, Execute(adapter) PROVE IssuedInv'
    BY <2>3, IssuanceUnchanged DEF Execute, prepared
  <2>4. ASSUME NEW record, inputs # << >>, Claim(record) PROVE IssuedInv'
    BY <2>4, IssuanceUnchanged DEF Claim, prepared
  <2>5. ASSUME NEW mine, NEW mix, run # << >>, Certify(mine, mix) PROVE IssuedInv'
    BY <2>5 DEF Certify
  <2>6. ASSUME NEW response, NEW production \in BOOLEAN, certificate # << >>,
               Attest(response, production)
        PROVE  IssuedInv'
    <3>1. Issuance(response, production)' = Issuance(response, production)
      BY <2>6 DEF Attest, prepared, Issuance, Prepared, Bundle, Level, Draft, Authority
    <3> QED
      BY <2>6, <3>1 DEF Attest
  <2>7. CASE UNCHANGED vars
    BY <2>7, IssuanceUnchanged DEF vars, prepared, workVars
  <2> QED
    BY <2>1, <2>2, <2>3, <2>4, <2>5, <2>6, <2>7 DEF Next, Work
<1> QED
  BY <1>1, <1>2, PTL DEF Spec

\* Whatever the signer answers, a package that was handed out verifies against
\* the certified bundle and no other, and under the authority's key only.
THEOREM AttestedVerifiesAlways == Spec => []AttestedVerifies
<1>1. IssuedInv => AttestedVerifies
  <2> SUFFICES ASSUME IssuedInv, issued # << >> PROVE AttestedVerifies
    BY DEF AttestedVerifies
  <2> QED
    BY IssuedVerify DEF IssuedInv
<1> QED
  BY <1>1, IssuedInvHolds, PTL

-----------------------------------------------------------------------------
(* A failed poster *)

\* A failed attempt at a poster leaves the workspace as it was, where the file
\* system writes its source and removes its files.
LEMMA FailedPosterRemoves ==
    ASSUME NEW w, NEW fs, NEW adapter, DiskObeys(adapter),
           adapter.left \subseteq {"source", "editable", "raw", "delivery"},
           Executed("print", w, fs, adapter).run = Failed
    PROVE  Executed("print", w, fs, adapter).files = fs
<1> DEFINE request == Request("print", w)
           judged == PrintRun!validate_print_source(request.source, request.specification)
           made == PrintRun!normalize_print_pdf(adapter.export, request.specification)
           e == PrintRun!execute_print_preflight(request, fs, adapter)
           paths == PrintRun!PreflightPaths("job")
           left == {<<"job", p>> : p \in adapter.left}
<1>1. Executed("print", w, fs, adapter) = Exporting(e)
  BY DEF Executed
<1>2. request.id = "job"
  BY DEF Request
<1>3. e.ok \/ e.files = fs \/ (paths \cap fs = {} /\ e.files = (fs \cup left) \ paths)
  <2>1. e = PrintRun!Carried(request, fs, adapter, judged, made)
    BY DEF PrintRun!execute_print_preflight
  <2>2. adapter.source_written /\ adapter.kept = {}
    BY DEF DiskObeys
  <2> HIDE DEF e, judged, made, request
  <2> QED
    BY <2>1, <2>2, <1>2 DEF PrintRun!Carried, PrintRun!cleanup
<1>4. left \subseteq paths
  BY DEF PrintRun!PreflightPaths
<1> HIDE DEF e, left, paths
<1>5. ~ e.ok
  BY <1>1 DEF Exporting, Succeeded, Failed
<1>6. e.files = fs
  BY <1>3, <1>4, <1>5
<1> QED
  BY <1>1, <1>6 DEF Exporting

\* The staged material is of the kind.
StagedInv == inputs # << >> => inputs \in InputsOf(kind)

LEMMA StagedInvHolds == Spec => []StagedInv
<1>1. Init => StagedInv
  BY DEF Init, StagedInv
<1>2. StagedInv /\ [Next]_vars => StagedInv'
  <2> SUFFICES ASSUME StagedInv, [Next]_vars PROVE StagedInv'
    OBVIOUS
  <2> USE DEF StagedInv
  <2>1. ASSUME NEW w \in InputsOf(kind), Stage(w) PROVE StagedInv'
    BY <2>1 DEF Stage, prepared
  <2>2. CASE UNCHANGED <<kind, inputs>>
    BY <2>2
  <2>3. Prepare => UNCHANGED <<kind, inputs>>
    BY DEF Prepare, workVars
  <2>4. \A adapter : Execute(adapter) => UNCHANGED <<kind, inputs>>
    BY DEF Execute, prepared
  <2>5. \A record : Claim(record) => UNCHANGED <<kind, inputs>>
    BY DEF Claim, prepared
  <2>6. \A mine, mix : Certify(mine, mix) => UNCHANGED <<kind, inputs>>
    BY DEF Certify, prepared
  <2>7. \A response, production : Attest(response, production) => UNCHANGED <<kind, inputs>>
    BY DEF Attest, prepared
  <2>8. UNCHANGED vars => UNCHANGED <<kind, inputs>>
    BY DEF vars, prepared, workVars
  <2> QED
    BY <2>1, <2>2, <2>3, <2>4, <2>5, <2>6, <2>7, <2>8 DEF Next, Work
<1> QED
  BY <1>1, <1>2, PTL DEF Spec

\* For any material, workspace and adapter: an attempt at a poster that failed
\* after its source was written, and whose files could be removed, does not
\* cost the retry.  execute_print_preflight has removed every file the attempt
\* wrote, whatever the adapter left, and none that was there before.
THEOREM FailedPosterRetriesAlways == Spec => FailedPosterRetries
<1> DEFINE Kept ==
      kind = "print" /\ inputs # << >> /\ run' = Failed =>
          \A adapter \in Adapters(kind, inputs) :
             Execute(adapter) /\ DiskObeys(adapter) /\ WouldSucceed(files) =>
                WouldSucceed(files')
<1>1. StagedInv /\ [Next]_vars => [Kept]_vars
  <2> SUFFICES ASSUME StagedInv, kind = "print", inputs # << >>, run' = Failed,
                      NEW adapter \in Adapters(kind, inputs),
                      Execute(adapter), DiskObeys(adapter), WouldSucceed(files)
               PROVE  WouldSucceed(files')
    OBVIOUS
  <2>1. /\ run' = Executed(kind, inputs, files, adapter).run
        /\ files' = Executed(kind, inputs, files, adapter).files
    BY DEF Execute
  <2>2. adapter.left \subseteq {"source", "editable", "raw", "delivery"}
    BY LeftAssumption DEF StagedInv
  <2>3. files' = files
    BY <2>1, <2>2, FailedPosterRemoves
  <2> QED
    BY <2>3 DEF WouldSucceed
<1> QED
  BY <1>1, StagedInvHolds, PTL DEF Spec, FailedPosterRetries

-----------------------------------------------------------------------------
(* Executions *)

\* A record is of the material, and its probe of what it made.
Bound(k, w, r) ==
    /\ k = "cleanup" =>
          /\ r.record.source = w.source /\ r.record.mask = w.mask
          /\ r.record.output =
               CleanupRun!execute_background_cleanup(Request("cleanup", w)).cleaned
          /\ r.probe.cleaned = r.record.output
          /\ CleanupRun!execute_background_cleanup(Request("cleanup", w)).ok
    /\ k = "brand" =>
          /\ r.record.source = w.source /\ r.record.manifest = w.manifest
          /\ r.record.logo = w.logo
    /\ k = "print" =>
          r.record.source = w.source /\ r.record.specification = w.specification

\* An execution, a probe or a certification succeeds.
Accepted(e) == e.ok

\* A cleanup that succeeds records its request and the raster it made.
LEMMA CleanupCarried ==
    ASSUME NEW request, NEW source, NEW mask,
           NEW e, e = CleanupRun!Carried(request, source, mask), Accepted(e)
    PROVE  /\ e.record.source = request.source /\ e.record.mask = request.mask
           /\ e.record.output = e.cleaned
<1>1. PICK cleaned :
          \/ e = [ok |-> TRUE, cleaned |-> cleaned,
                  record |-> [source |-> request.source, mask |-> request.mask,
                              output |-> cleaned, width |-> request.width,
                              height |-> request.height, source_immutable |-> TRUE,
                              verified |-> TRUE, intact |-> TRUE]]
          \/ e = [ok |-> FALSE]
  BY ZenonT(60) DEF CleanupRun!Carried, CleanupRun!Refused
<1>2. e # [ok |-> FALSE]
  BY DEF Accepted
<1> QED
  BY <1>1, <1>2

\* A probe that succeeds reports the raster it was given.
LEMMA ProbeReports ==
    ASSUME NEW id, NEW fs, NEW adapter, NEW cleaned, NEW p,
           p = CleanupRun!execute_inkscape_cleanup_probe(id, fs, adapter, cleaned,
                                                         Width, Height),
           Accepted(p)
    PROVE  p.report.cleaned = cleaned
<1>1. PICK width, height, left :
          \/ p = [ok |-> TRUE, files |-> left,
                  report |-> [cleaned |-> cleaned, probe |-> adapter.export, width |-> width,
                              height |-> height, verified |-> TRUE, intact |-> TRUE]]
          \/ p = [ok |-> FALSE, files |-> left]
  BY ZenonT(60) DEF CleanupRun!execute_inkscape_cleanup_probe
<1>2. p # [ok |-> FALSE, files |-> left]
  BY DEF Accepted
<1> QED
  BY <1>1, <1>2

\* The record of a cleanup is of its request, its probe of the raster it made.
LEMMA CleanupBinds ==
    ASSUME NEW w, NEW id, NEW fs, NEW adapter,
           NEW e, e = CleanupRun!execute_background_cleanup(Request("cleanup", w)),
           Accepted(e),
           NEW p, p = CleanupRun!execute_inkscape_cleanup_probe(id, fs, adapter, e.cleaned,
                                                                Width, Height),
           Accepted(p)
    PROVE  /\ e.record.source = w.source /\ e.record.mask = w.mask
           /\ e.record.output = e.cleaned
           /\ p.report.cleaned = e.cleaned
<1>1. PICK request, source, mask :
          request = Request("cleanup", w) /\ e = CleanupRun!Carried(request, source, mask)
  BY ZenonT(60) DEF CleanupRun!execute_background_cleanup
<1>2. request.source = w.source /\ request.mask = w.mask
  BY <1>1 DEF Request
<1>3. /\ e.record.source = request.source /\ e.record.mask = request.mask
      /\ e.record.output = e.cleaned
  BY <1>1, CleanupCarried
<1>4. p.report.cleaned = e.cleaned
  BY ProbeReports
<1> QED
  BY <1>2, <1>3, <1>4

\* A brand export that succeeds records its request.
LEMMA BrandCarried ==
    ASSUME NEW request, NEW fs, NEW adapter, NEW judged, NEW made,
           NEW e, e = BrandRun!Carried(request, fs, adapter, judged, made), Accepted(e)
    PROVE  /\ e.record.source = request.source /\ e.record.manifest = request.manifest
           /\ e.record.logo = request.logo
<1> DEFINE record == [source |-> request.source, manifest |-> request.manifest,
                      logo |-> request.logo, source_validation |-> judged.report,
                      editable |-> adapter.editable, raw |-> adapter.export,
                      delivery |-> made.png, application |-> adapter.application,
                      source_immutable |-> TRUE, verified |-> TRUE, intact |-> TRUE]
<1>1. PICK left : \/ e = [ok |-> TRUE, files |-> left, record |-> record]
                  \/ e = [ok |-> FALSE, files |-> left]
  BY ZenonT(60) DEF BrandRun!Carried
<1>2. record.source = request.source /\ record.manifest = request.manifest
      /\ record.logo = request.logo
  OBVIOUS
<1> HIDE DEF record
<1>3. e.record = record
  BY <1>1 DEF Accepted
<1> QED
  BY <1>2, <1>3

\* The record of a brand export is of its request.
LEMMA BrandBinds ==
    ASSUME NEW w, NEW fs, NEW adapter,
           NEW e, e = BrandRun!execute_brand_export(Request("brand", w), fs, adapter),
           Accepted(e)
    PROVE  /\ e.record.source = w.source /\ e.record.manifest = w.manifest
           /\ e.record.logo = w.logo
<1>1. PICK request, judged, made :
          /\ request = Request("brand", w)
          /\ e = BrandRun!Carried(request, fs, adapter, judged, made)
  BY ZenonT(60) DEF BrandRun!execute_brand_export
<1>2. /\ request.source = w.source /\ request.manifest = w.manifest
      /\ request.logo = w.logo
  BY <1>1 DEF Request
<1>3. /\ e.record.source = request.source /\ e.record.manifest = request.manifest
      /\ e.record.logo = request.logo
  BY <1>1, BrandCarried
<1> QED
  BY <1>2, <1>3

\* A preflight that succeeds records its request.
LEMMA PrintCarried ==
    ASSUME NEW request, NEW fs, NEW adapter, NEW judged, NEW made,
           NEW e, e = PrintRun!Carried(request, fs, adapter, judged, made), Accepted(e)
    PROVE  /\ e.record.source = request.source
           /\ e.record.specification = request.specification
<1> DEFINE record == [source |-> request.source, specification |-> request.specification,
                      source_validation |-> judged.report, editable |-> adapter.editable,
                      raw |-> adapter.export, delivery |-> made.pdf,
                      normalization |-> made.record, application |-> adapter.application,
                      source_immutable |-> TRUE, verified |-> adapter.verified,
                      intact |-> TRUE]
<1>1. PICK left : \/ e = [ok |-> TRUE, files |-> left, record |-> record]
                  \/ e = [ok |-> FALSE, files |-> left]
  BY ZenonT(60) DEF PrintRun!Carried
<1>2. record.source = request.source /\ record.specification = request.specification
  OBVIOUS
<1> HIDE DEF record
<1>3. e.record = record
  BY <1>1 DEF Accepted
<1> QED
  BY <1>2, <1>3

\* The record of a poster is of its request.
LEMMA PrintBinds ==
    ASSUME NEW w, NEW fs, NEW adapter,
           NEW e, e = PrintRun!execute_print_preflight(Request("print", w), fs, adapter),
           Accepted(e)
    PROVE  e.record.source = w.source /\ e.record.specification = w.specification
<1>1. PICK request, judged, made :
          /\ request = Request("print", w)
          /\ e = PrintRun!Carried(request, fs, adapter, judged, made)
  BY ZenonT(60) DEF PrintRun!execute_print_preflight
<1>2. request.source = w.source /\ request.specification = w.specification
  BY <1>1 DEF Request
<1>3. e.record.source = request.source /\ e.record.specification = request.specification
  BY <1>1, PrintCarried
<1> QED
  BY <1>2, <1>3

\* A run by the trusted executor whose record is of the material.
Carrying(k, w, r) == r.ok /\ r.key = "executor" /\ Bound(k, w, r)

\* An execution fails or is one by the trusted executor of its material.
LEMMA ExecutedBinds ==
    ASSUME NEW k \in CertifiedKinds, NEW w, NEW fs, NEW adapter,
           NEW r, r = Executed(k, w, fs, adapter).run
    PROVE  r = Failed \/ Carrying(k, w, r)
<1> SUFFICES ASSUME r # Failed PROVE Carrying(k, w, r)
  OBVIOUS
<1>1. CASE k = "cleanup"
  <2> DEFINE e == CleanupRun!execute_background_cleanup(Request("cleanup", w))
             id == Request("cleanup", w).id
             p == CleanupRun!execute_inkscape_cleanup_probe(id, fs, adapter, e.cleaned,
                                                            Width, Height)
  <2>1. r = IF e.ok THEN Probed(e, p).run ELSE Failed
    BY <1>1 DEF Executed, Cleaned
  <2>2. e.ok /\ p.ok /\ r = Succeeded("executor", e.record, p.report)
    <3> HIDE DEF e, p
    <3> QED
      BY <2>1 DEF Probed
  <2>3. /\ e.record.source = w.source /\ e.record.mask = w.mask
        /\ e.record.output = e.cleaned
        /\ p.report.cleaned = e.cleaned
    BY <2>2, CleanupBinds DEF Accepted
  <2>4. r.ok /\ r.key = "executor" /\ r.record = e.record /\ r.probe = p.report
    BY <2>2 DEF Succeeded
  <2> HIDE DEF p
  <2> QED
    BY <1>1, <2>2, <2>3, <2>4 DEF Carrying, Bound
<1>2. CASE k = "brand"
  <2> DEFINE e == BrandRun!execute_brand_export(Request("brand", w), fs, adapter)
  <2>1. r = Exporting(e).run
    BY <1>2 DEF Executed
  <2>2. e.ok /\ r = Succeeded("executor", e.record, << >>)
    <3> HIDE DEF e
    <3> QED
      BY <2>1 DEF Exporting
  <2>3. /\ e.record.source = w.source /\ e.record.manifest = w.manifest
        /\ e.record.logo = w.logo
    BY <2>2, BrandBinds DEF Accepted
  <2> HIDE DEF e
  <2> QED
    BY <1>2, <2>2, <2>3 DEF Carrying, Bound, Succeeded
<1>3. CASE k = "print"
  <2> DEFINE e == PrintRun!execute_print_preflight(Request("print", w), fs, adapter)
  <2>1. r = Exporting(e).run
    BY <1>3 DEF Executed
  <2>2. e.ok /\ r = Succeeded("executor", e.record, << >>)
    <3> HIDE DEF e
    <3> QED
      BY <2>1 DEF Exporting
  <2>3. e.record.source = w.source /\ e.record.specification = w.specification
    BY <2>2, PrintBinds DEF Accepted
  <2> HIDE DEF e
  <2> QED
    BY <1>3, <2>2, <2>3 DEF Carrying, Bound, Succeeded
<1> QED
  BY <1>1, <1>2, <1>3 DEF CertifiedKinds

\* The other job's execution is one by the trusted executor.
LEMMA OtherCarrying ==
    ASSUME NEW k \in CertifiedKinds
    PROVE  /\ Carrying(k, OtherInputs(k), ElsewhereRun(k))
           /\ Elsewhere[k] = Material(k, OtherInputs(k), ElsewhereRun(k))
<1>1. ElsewhereRun(k).ok
  BY OtherAssumption
<1>2. ElsewhereRun(k) # Failed
  BY <1>1 DEF Failed
<1> QED
  BY <1>2, ExecutedBinds DEF ElsewhereRun, Elsewhere

-----------------------------------------------------------------------------
(* Certification requests *)

\* A part of a request is the execution's or the other one's.
LEMMA RequestPart ==
    ASSUME NEW mine, NEW other, NEW mix, NEW p \in DOMAIN mine,
           p \notin {"contract", "capsule", "plan", "named", "environment", "level", "trace",
                     "draft", "signer"}
    PROVE  CertificationRequest(mine, other, mix)[p] = Part(p, mine, other, mix)
<1>1. DOMAIN Terms(mix) = {"contract", "capsule", "plan", "named", "environment", "level",
                           "trace", "draft", "signer"}
  BY DEF Terms
<1> QED
  BY <1>1 DEF CertificationRequest

\* A verifier takes a package.
Verified(package) == package.key \in Trusted /\ package.signed = package.record

\* The package of a request: one run's record a is signed with key ka, the
\* other's record b by the executor, and what was mixed from them verifies.
Offered(q, mine, a, ka, other, b, mix) ==
    /\ mine.execution = Signer!sign_value(a, ka)
    /\ other.execution = Signer!sign_value(b, "executor")
    /\ q = Part("execution", mine, other, mix)
    /\ Verified(q)

\* A signed record that verifies is one of the two there are: signing another
\* record or with another key does not help.
LEMMA PackageTaken ==
    ASSUME NEW mine, NEW other, NEW mix, NEW a, NEW ka, NEW b, NEW q,
           Offered(q, mine, a, ka, other, b, mix)
    PROVE  \/ q = mine.execution /\ ka = "executor"
           \/ q = other.execution /\ mix # {}
<1>1. PICK taken, key, record :
          /\ taken = Signer!sign_value(record, key)
          /\ q = Package(taken, other, mix)
          /\ \/ taken = mine.execution /\ key = ka
             \/ taken = other.execution /\ mix # {}
  BY DEF Part, Offered
<1>2. taken = [record |-> record, key |-> key, signed |-> record]
  BY <1>1 DEF Signer!sign_value
<1>3. other.execution.record = b
  BY DEF Signer!sign_value, Offered
<1>4. q = taken
  <2>1. CASE "resigned" \in mix
    <3>1. q = [record |-> record, key |-> key, signed |-> b]
      BY <1>1, <1>2, <1>3, <2>1 DEF Package
    <3> QED
      BY <1>2, <3>1 DEF Offered, Verified
  <2>2. CASE "resigned" \notin mix /\ "stranger" \in mix
    <3>1. q = [record |-> record, key |-> "stranger", signed |-> record]
      BY <1>1, <1>2, <2>2 DEF Package
    <3> QED
      BY <3>1 DEF Trusted, Offered, Verified
  <2>3. CASE "resigned" \notin mix /\ "stranger" \notin mix
    BY <1>1, <2>3 DEF Package
  <2> QED
    BY <2>1, <2>2, <2>3
<1>5. key = "executor"
  BY <1>2, <1>4 DEF Trusted, Offered, Verified
<1> QED
  BY <1>1, <1>4, <1>5

\* The materials a request is assembled from: mine, of the run r of w, whose
\* record binds it when the executor signed it, and the executor's run s of v.
TwoRuns(k, mine, w, r, other, v, s) ==
    /\ mine = Material(k, w, r)
    /\ other = Material(k, v, s)
    /\ r.key = "executor" => Bound(k, w, r)
    /\ s.key = "executor"
    /\ Bound(k, v, s)

\* What is certified of a request assembled from both.
Requested(k, c, q, mine, other, mix) ==
    /\ q = CertificationRequest(mine, other, mix)
    /\ c = Certifier(k, q)
    /\ Accepted(c)

\* The contents of what a certification certifies.
ContentsOf(c) == {a.content : a \in c.bundle.artifacts}

\* All of it is of material m; a cleanup's includes the probe its record names.
OfRun(c, m) == ContentsOf(c) \subseteq {m[p] : p \in DOMAIN m}
OfCleanup(c, m) ==
    ContentsOf(c) \subseteq {m[p] : p \in DOMAIN m} \cup {m.integration.record.probe}

\* The report of a validation that passed.
LEMMA ReportTaken ==
    ASSUME NEW judged, NEW report, judged = [ok |-> TRUE, report |-> report]
    PROVE  ReportOf(judged) = report
BY DEF ReportOf

-----------------------------------------------------------------------------
(* Cleanup *)

\* A bundle that is certified holds the artifacts it was made of.
LEMMA CleanupAttested ==
    ASSUME NEW q, NEW artifacts, NEW results,
           NEW c, c = CleanupRun!Attested(q, artifacts, results), Accepted(c)
    PROVE  c.bundle.artifacts = artifacts
<1>1. PICK bundle : /\ bundle = [contract |-> q.contract, plan |-> q.plan, level |-> q.level,
                                 environment |-> q.environment, artifacts |-> artifacts,
                                 results |-> results, trace |-> q.trace]
                    /\ c = [ok |-> TRUE, bundle |-> bundle] \/ c = [ok |-> FALSE]
  BY ZenonT(60) DEF CleanupRun!Attested
<1>2. c.bundle = bundle
  BY <1>1 DEF Accepted
<1>3. bundle.artifacts = artifacts
  BY <1>1
<1> QED
  BY <1>2, <1>3

\* What certify_background_cleanup has checked when it certifies, and the
\* contents of its artifacts.
LEMMA CleanupCertified ==
    ASSUME NEW q, NEW c, c = CleanupRun!certify_background_cleanup(q, Trusted), Accepted(c)
    PROVE  /\ q.execution.key \in Trusted /\ q.execution.signed = q.execution.record
           /\ CleanupRun!validate_background_cleanup(q.source, q.mask, q.cleaned,
                  q.execution.record) = [ok |-> TRUE, report |-> q.report]
           /\ q.execution.record.source = q.source /\ q.execution.record.mask = q.mask
           /\ q.execution.record.output = q.cleaned
           /\ q.integration.record.cleaned = q.cleaned
           /\ ContentsOf(c) = {q.source, q.mask, q.cleaned, q.integration.record.probe,
                               q.execution, q.report, q.integration}
<1> DEFINE artifacts ==
        {CleanupRun!artifact("source_raster", "input", q.source),
         CleanupRun!artifact("approved_cleanup_mask", "input", q.mask),
         CleanupRun!artifact("cleaned_raster", "output", q.cleaned),
         CleanupRun!artifact("integration_probe", "output", q.integration.record.probe),
         CleanupRun!artifact("execution", "evidence", q.execution),
         CleanupRun!artifact("validation", "evidence", q.report),
         CleanupRun!artifact("integration", "evidence", q.integration)}
<1>1. /\ CleanupRun!verify_background_cleanup_execution_record(q.execution, Trusted)
      /\ CleanupRun!validate_background_cleanup(q.source, q.mask, q.cleaned,
             q.execution.record) = [ok |-> TRUE, report |-> q.report]
      /\ CleanupRun!validate_bindings(q, q.execution.record, q.report, q.integration.record)
      /\ c = CleanupRun!Attested(q, artifacts, CleanupRun!proof_results)
  <2> HIDE DEF artifacts
  <2> QED
    BY DEF CleanupRun!certify_background_cleanup, CleanupRun!Refused, Accepted, artifacts
<1>2. /\ q.execution.key \in Trusted /\ q.execution.signed = q.execution.record
      /\ q.execution.record.source = q.source /\ q.execution.record.mask = q.mask
      /\ q.execution.record.output = q.cleaned
      /\ q.integration.record.cleaned = q.cleaned
  BY <1>1 DEF CleanupRun!verify_background_cleanup_execution_record, CleanupRun!verify_value,
              CleanupRun!validate_bindings, CleanupRun!RecordBinds
<1>3. c.bundle.artifacts = artifacts
  <2> HIDE DEF artifacts
  <2> QED
    BY <1>1, CleanupAttested
<1>4. ContentsOf(c) = {q.source, q.mask, q.cleaned, q.integration.record.probe,
                       q.execution, q.report, q.integration}
  BY <1>3 DEF ContentsOf, CleanupRun!artifact
<1> QED
  BY <1>1, <1>2, <1>4

\* The material of a cleanup.
LEMMA CleanupParts ==
    ASSUME NEW w, NEW r, NEW m, m = Material("cleanup", w, r)
    PROVE  /\ DOMAIN m = {"source", "mask", "cleaned", "execution", "report", "integration"}
           /\ m.source = w.source /\ m.mask = w.mask /\ m.cleaned = r.record.output
           /\ m.execution = Signer!sign_value(r.record, r.key)
           /\ m.integration = Signer!sign_value(r.probe, r.key)
           /\ m.report = ReportOf(CleanupRun!validate_background_cleanup(w.source, w.mask,
                                      r.record.output, r.record))
           /\ m.execution.record = r.record /\ m.integration.record = r.probe
BY DEF Material, Judged, Signer!sign_value

\* The probe of a run is of the raster it recorded.
LEMMA ProbeOfRun ==
    ASSUME NEW w, NEW r, Bound("cleanup", w, r)
    PROVE  r.probe.cleaned = r.record.output
BY DEF Bound

\* With the record and the probe of one run all else is of that run too.
LEMMA CleanupOne ==
    ASSUME NEW w, NEW r, Bound("cleanup", w, r), NEW m, m = Material("cleanup", w, r),
           NEW q, q.execution = m.execution, q.integration = m.integration,
           NEW c, c = CleanupRun!certify_background_cleanup(q, Trusted), Accepted(c)
    PROVE  OfCleanup(c, m)
<1>1. /\ CleanupRun!validate_background_cleanup(q.source, q.mask, q.cleaned,
             q.execution.record) = [ok |-> TRUE, report |-> q.report]
      /\ q.execution.record.source = q.source /\ q.execution.record.mask = q.mask
      /\ q.execution.record.output = q.cleaned
      /\ ContentsOf(c) = {q.source, q.mask, q.cleaned, q.integration.record.probe,
                          q.execution, q.report, q.integration}
  BY CleanupCertified
<1>2. /\ DOMAIN m = {"source", "mask", "cleaned", "execution", "report", "integration"}
      /\ m.source = w.source /\ m.mask = w.mask /\ m.cleaned = r.record.output
      /\ m.report = ReportOf(CleanupRun!validate_background_cleanup(w.source, w.mask,
                                 r.record.output, r.record))
      /\ m.execution.record = r.record
  BY CleanupParts
<1>3. q.source = m.source /\ q.mask = m.mask /\ q.cleaned = m.cleaned
  BY <1>1, <1>2 DEF Bound
<1>4. q.report = m.report
  <2>1. CleanupRun!validate_background_cleanup(w.source, w.mask, r.record.output, r.record)
          = [ok |-> TRUE, report |-> q.report]
    BY <1>1, <1>2, <1>3
  <2> QED
    BY <2>1, <1>2, ReportTaken
<1>5. ContentsOf(c) = {m.source, m.mask, m.cleaned, m.integration.record.probe,
                       m.execution, m.report, m.integration}
  BY <1>1, <1>3, <1>4
<1> QED
  BY <1>2, <1>5 DEF OfCleanup

\* Parts are mixed only into a run that made another raster than the other's.
RastersApart(w, r, s, mix) ==
    mix # {} => Bound("cleanup", w, r) /\ r.record.output # s.record.output

\* Whatever the request was assembled from, its raster, record, report and
\* probe are of one run.
LEMMA CleanupFromOne ==
    ASSUME NEW w, NEW r, NEW v, NEW s, NEW mix,
           NEW mine, NEW other, TwoRuns("cleanup", mine, w, r, other, v, s),
           RastersApart(w, r, s, mix),
           NEW q, NEW c, Requested("cleanup", c, q, mine, other, mix)
    PROVE  \/ r.key = "executor" /\ OfCleanup(c, mine)
           \/ mix # {} /\ OfCleanup(c, other)
<1>1. /\ mine = Material("cleanup", w, r)
      /\ other = Material("cleanup", v, s)
      /\ r.key = "executor" => Bound("cleanup", w, r)
      /\ s.key = "executor"
      /\ Bound("cleanup", v, s)
  BY DEF TwoRuns
<1>2. /\ q = CertificationRequest(mine, other, mix)
      /\ c = CleanupRun!certify_background_cleanup(q, Trusted)
      /\ Accepted(c)
  BY DEF Requested, Certifier
<1>3. /\ Verified(q.execution)
      /\ q.execution.record.output = q.cleaned
      /\ q.integration.record.cleaned = q.cleaned
  BY <1>2, CleanupCertified DEF Verified
<1>4. /\ DOMAIN mine = {"source", "mask", "cleaned", "execution", "report", "integration"}
      /\ mine.execution = Signer!sign_value(r.record, r.key)
      /\ mine.execution.record = r.record /\ mine.integration.record = r.probe
  BY <1>1, CleanupParts
<1>5. /\ other.execution = Signer!sign_value(s.record, "executor")
      /\ other.execution.record = s.record /\ other.integration.record = s.probe
  BY <1>1, CleanupParts
<1>6. q.execution = Part("execution", mine, other, mix)
  BY <1>2, <1>4, RequestPart
<1>7. q.integration = Part("integration", mine, other, mix)
  BY <1>2, <1>4, RequestPart
<1>8. q.integration = mine.integration \/ (q.integration = other.integration /\ mix # {})
  BY <1>7 DEF Part
<1>9. \/ q.execution = mine.execution /\ r.key = "executor"
      \/ q.execution = other.execution /\ mix # {}
  <2>1. Offered(q.execution, mine, r.record, r.key, other, s.record, mix)
    BY <1>3, <1>4, <1>5, <1>6 DEF Offered
  <2> QED
    BY <2>1, PackageTaken
<1>10. CASE q.execution = mine.execution /\ r.key = "executor"
  <2>1. q.cleaned = r.record.output
    BY <1>3, <1>4, <1>10
  <2>2. ASSUME q.integration = other.integration PROVE q.cleaned = s.record.output
    <3>1. q.cleaned = s.probe.cleaned
      BY <1>3, <1>5, <2>2
    <3> QED
      BY <1>1, <3>1, ProbeOfRun
  <2>3. q.integration = mine.integration
    BY <1>8, <2>1, <2>2 DEF RastersApart
  <2> QED
    BY <1>1, <1>2, <1>10, <2>3, CleanupOne
<1>11. CASE q.execution = other.execution /\ mix # {}
  <2>1. q.cleaned = s.record.output
    BY <1>3, <1>5, <1>11
  <2>2. ASSUME q.integration = mine.integration PROVE q.cleaned = r.record.output
    <3>1. q.cleaned = r.probe.cleaned
      BY <1>3, <1>4, <2>2
    <3> QED
      BY <1>1, <1>11, <3>1, ProbeOfRun DEF RastersApart
  <2>3. q.integration = other.integration
    BY <1>8, <1>11, <2>1, <2>2 DEF RastersApart
  <2> QED
    BY <1>1, <1>2, <1>11, <2>3, CleanupOne
<1> QED
  BY <1>9, <1>10, <1>11

-----------------------------------------------------------------------------
(* Brand exports *)

\* The validator's report depends on what the record is bound to only.
LEMMA BrandReport ==
    ASSUME NEW q, NEW record, BrandRun!RecordBinds(record, q)
    PROVE  BrandRun!validate_brand_export(q, record) =
           BrandRun!validate_brand_export(record, record)
BY DEF BrandRun!validate_brand_export, BrandRun!RecordBinds

\* A bundle that is certified holds the artifacts it was made of.
LEMMA BrandAttested ==
    ASSUME NEW q, NEW artifacts, NEW results,
           NEW c, c = BrandRun!Attested(q, artifacts, results), Accepted(c)
    PROVE  c.bundle.artifacts = artifacts
<1>1. PICK bundle : /\ bundle = [contract |-> q.contract, plan |-> q.plan, level |-> q.level,
                                 environment |-> q.environment, artifacts |-> artifacts,
                                 results |-> results, trace |-> q.trace]
                    /\ c = [ok |-> TRUE, bundle |-> bundle] \/ c = [ok |-> FALSE]
  BY ZenonT(60) DEF BrandRun!Attested
<1>2. c.bundle = bundle
  BY <1>1 DEF Accepted
<1>3. bundle.artifacts = artifacts
  BY <1>1
<1> QED
  BY <1>2, <1>3

\* What certify_brand_export has checked when it certifies.
LEMMA BrandCertified ==
    ASSUME NEW q, NEW c, c = BrandRun!certify_brand_export(q, Trusted), Accepted(c)
    PROVE  /\ q.execution.key \in Trusted /\ q.execution.signed = q.execution.record
           /\ BrandRun!validate_brand_export(q.execution.record, q.execution.record) =
                [ok |-> TRUE, report |-> q.report]
           /\ BrandRun!RecordBinds(q.execution.record, q)
           /\ ContentsOf(c) = {q.source, q.manifest, q.logo, q.editable, q.delivery, q.raw,
                               q.execution, q.report}
<1> DEFINE artifacts ==
        {BrandRun!artifact("source_svg", "input", q.source),
         BrandRun!artifact("brand_manifest", "input", q.manifest),
         BrandRun!artifact("approved_logo", "input", q.logo),
         BrandRun!artifact("editable_master", "output", q.editable),
         BrandRun!artifact("delivery_raster", "output", q.delivery),
         BrandRun!artifact("raw_inkscape_export", "evidence", q.raw),
         BrandRun!artifact("execution", "evidence", q.execution),
         BrandRun!artifact("validation", "evidence", q.report)}
<1>1. /\ BrandRun!verify_brand_export_execution_record(q.execution, Trusted)
      /\ BrandRun!validate_brand_export(q, q.execution.record) =
           [ok |-> TRUE, report |-> q.report]
      /\ BrandRun!validate_bindings(q, q.report)
      /\ c = BrandRun!Attested(q, artifacts, BrandRun!proof_results)
  <2> HIDE DEF artifacts
  <2> QED
    BY DEF BrandRun!certify_brand_export, BrandRun!Refused, Accepted, artifacts
<1>2. /\ q.execution.key \in Trusted /\ q.execution.signed = q.execution.record
      /\ BrandRun!RecordBinds(q.execution.record, q)
  BY <1>1 DEF BrandRun!verify_brand_export_execution_record, BrandRun!verify_value,
              BrandRun!validate_bindings
<1>3. c.bundle.artifacts = artifacts
  <2> HIDE DEF artifacts
  <2> QED
    BY <1>1, BrandAttested
<1>4. ContentsOf(c) = {q.source, q.manifest, q.logo, q.editable, q.delivery, q.raw,
                       q.execution, q.report}
  BY <1>3 DEF ContentsOf, BrandRun!artifact
<1> QED
  BY <1>1, <1>2, <1>4, BrandReport

\* The material of a brand export.
LEMMA BrandParts ==
    ASSUME NEW w, NEW r, NEW m, m = Material("brand", w, r)
    PROVE  /\ DOMAIN m = {"source", "manifest", "logo", "editable", "raw", "delivery",
                          "execution", "report"}
           /\ m.source = w.source /\ m.manifest = w.manifest /\ m.logo = w.logo
           /\ m.editable = r.record.editable /\ m.raw = r.record.raw
           /\ m.delivery = r.record.delivery
           /\ m.execution = Signer!sign_value(r.record, r.key)
           /\ m.execution.record = r.record
           /\ m.report = ReportOf(BrandRun!validate_brand_export(r.record, r.record))
BY DEF Material, Judged, Signer!sign_value

\* With the record of one run all else is of that run too.
LEMMA BrandOne ==
    ASSUME NEW w, NEW r, Bound("brand", w, r), NEW m, m = Material("brand", w, r),
           NEW q, q.execution = m.execution,
           NEW c, c = BrandRun!certify_brand_export(q, Trusted), Accepted(c)
    PROVE  OfRun(c, m)
<1>1. /\ BrandRun!validate_brand_export(q.execution.record, q.execution.record) =
           [ok |-> TRUE, report |-> q.report]
      /\ BrandRun!RecordBinds(q.execution.record, q)
      /\ ContentsOf(c) = {q.source, q.manifest, q.logo, q.editable, q.delivery, q.raw,
                          q.execution, q.report}
  BY BrandCertified
<1>2. /\ DOMAIN m = {"source", "manifest", "logo", "editable", "raw", "delivery",
                     "execution", "report"}
      /\ m.source = w.source /\ m.manifest = w.manifest /\ m.logo = w.logo
      /\ m.editable = r.record.editable /\ m.raw = r.record.raw
      /\ m.delivery = r.record.delivery
      /\ m.execution.record = r.record
      /\ m.report = ReportOf(BrandRun!validate_brand_export(r.record, r.record))
  BY BrandParts
<1>3. /\ q.source = m.source /\ q.manifest = m.manifest /\ q.logo = m.logo
      /\ q.editable = m.editable /\ q.raw = m.raw /\ q.delivery = m.delivery
  BY <1>1, <1>2 DEF Bound, BrandRun!RecordBinds
<1>4. q.report = m.report
  <2>1. q.execution.record = r.record
    BY <1>2
  <2>2. BrandRun!validate_brand_export(r.record, r.record) = [ok |-> TRUE, report |-> q.report]
    BY ZenonT(60), <1>1, <2>1
  <2>3. ReportOf(BrandRun!validate_brand_export(r.record, r.record)) = q.report
    BY ZenonT(60), <2>2, ReportTaken
  <2> QED
    BY ZenonT(60), <1>2, <2>3
<1> QED
  BY <1>1, <1>2, <1>3, <1>4 DEF OfRun

\* Whatever the request was assembled from, it is of one run.
LEMMA BrandFromOne ==
    ASSUME NEW w, NEW r, NEW v, NEW s, NEW mix,
           NEW mine, NEW other, TwoRuns("brand", mine, w, r, other, v, s),
           NEW q, NEW c, Requested("brand", c, q, mine, other, mix)
    PROVE  \/ r.key = "executor" /\ OfRun(c, mine)
           \/ mix # {} /\ OfRun(c, other)
<1>1. /\ mine = Material("brand", w, r)
      /\ other = Material("brand", v, s)
      /\ r.key = "executor" => Bound("brand", w, r)
      /\ s.key = "executor"
      /\ Bound("brand", v, s)
  BY DEF TwoRuns
<1>2. /\ q = CertificationRequest(mine, other, mix)
      /\ c = BrandRun!certify_brand_export(q, Trusted)
      /\ Accepted(c)
  BY DEF Requested, Certifier
<1>3. Verified(q.execution)
  BY <1>2, BrandCertified DEF Verified
<1>4. /\ "execution" \in DOMAIN mine
      /\ mine.execution = Signer!sign_value(r.record, r.key)
      /\ other.execution = Signer!sign_value(s.record, "executor")
  BY <1>1, BrandParts
<1>5. q.execution = Part("execution", mine, other, mix)
  BY <1>2, <1>4, RequestPart
<1>6. \/ q.execution = mine.execution /\ r.key = "executor"
      \/ q.execution = other.execution /\ mix # {}
  <2>1. Offered(q.execution, mine, r.record, r.key, other, s.record, mix)
    BY <1>3, <1>4, <1>5 DEF Offered
  <2> QED
    BY <2>1, PackageTaken
<1> QED
  BY <1>1, <1>2, <1>6, BrandOne

-----------------------------------------------------------------------------
(* Posters *)

\* The validator's report depends on what the record is bound to only.
LEMMA PrintReport ==
    ASSUME NEW q, NEW record, PrintRun!RecordBinds(record, q)
    PROVE  PrintRun!validate_print_preflight(q, record) =
           PrintRun!validate_print_preflight(record, record)
BY DEF PrintRun!validate_print_preflight, PrintRun!RecordBinds

\* A bundle that is certified holds the artifacts it was made of.
LEMMA PrintAttested ==
    ASSUME NEW q, NEW artifacts, NEW results,
           NEW c, c = PrintRun!Attested(q, artifacts, results), Accepted(c)
    PROVE  c.bundle.artifacts = artifacts
<1>1. PICK bundle : /\ bundle = [contract |-> q.contract, plan |-> q.plan, level |-> q.level,
                                 environment |-> q.environment, artifacts |-> artifacts,
                                 results |-> results, trace |-> q.trace]
                    /\ c = [ok |-> TRUE, bundle |-> bundle] \/ c = [ok |-> FALSE]
  BY ZenonT(60) DEF PrintRun!Attested
<1>2. c.bundle = bundle
  BY <1>1 DEF Accepted
<1>3. bundle.artifacts = artifacts
  BY <1>1
<1> QED
  BY <1>2, <1>3

\* What certify_print_preflight has checked when it certifies.
LEMMA PrintCertified ==
    ASSUME NEW q, NEW c, c = PrintRun!certify_print_preflight(q, Trusted), Accepted(c)
    PROVE  /\ q.execution.key \in Trusted /\ q.execution.signed = q.execution.record
           /\ PrintRun!validate_print_preflight(q.execution.record, q.execution.record) =
                [ok |-> TRUE, report |-> q.report]
           /\ PrintRun!RecordBinds(q.execution.record, q)
           /\ ContentsOf(c) = {q.source, q.specification, q.editable, q.raw, q.delivery,
                               q.execution, q.report}
<1> DEFINE artifacts ==
        {PrintRun!artifact("source_svg", "input", q.source),
         PrintRun!artifact("print_specification", "input", q.specification),
         PrintRun!artifact("editable_master", "output", q.editable),
         PrintRun!artifact("raw_inkscape_pdf", "evidence", q.raw),
         PrintRun!artifact("delivery_pdf", "output", q.delivery),
         PrintRun!artifact("execution", "evidence", q.execution),
         PrintRun!artifact("validation", "evidence", q.report)}
<1>1. /\ PrintRun!verify_print_preflight_execution_record(q.execution, Trusted)
      /\ PrintRun!validate_print_preflight(q, q.execution.record) =
           [ok |-> TRUE, report |-> q.report]
      /\ PrintRun!validate_bindings(q, q.report)
      /\ c = PrintRun!Attested(q, artifacts, PrintRun!proof_results)
  <2> HIDE DEF artifacts
  <2> QED
    BY DEF PrintRun!certify_print_preflight, PrintRun!Refused, Accepted, artifacts
<1>2. /\ q.execution.key \in Trusted /\ q.execution.signed = q.execution.record
      /\ PrintRun!RecordBinds(q.execution.record, q)
  BY <1>1 DEF PrintRun!verify_print_preflight_execution_record, PrintRun!verify_value,
              PrintRun!validate_bindings
<1>3. c.bundle.artifacts = artifacts
  <2> HIDE DEF artifacts
  <2> QED
    BY <1>1, PrintAttested
<1>4. ContentsOf(c) = {q.source, q.specification, q.editable, q.raw, q.delivery,
                       q.execution, q.report}
  BY <1>3 DEF ContentsOf, PrintRun!artifact
<1> QED
  BY <1>1, <1>2, <1>4, PrintReport

\* The material of a poster.
LEMMA PrintParts ==
    ASSUME NEW w, NEW r, NEW m, m = Material("print", w, r)
    PROVE  /\ DOMAIN m = {"source", "specification", "editable", "raw", "delivery",
                          "execution", "report"}
           /\ m.source = w.source /\ m.specification = w.specification
           /\ m.editable = r.record.editable /\ m.raw = r.record.raw
           /\ m.delivery = r.record.delivery
           /\ m.execution = Signer!sign_value(r.record, r.key)
           /\ m.execution.record = r.record
           /\ m.report = ReportOf(PrintRun!validate_print_preflight(r.record, r.record))
BY DEF Material, Judged, Signer!sign_value

\* With the record of one run all else is of that run too.
LEMMA PrintOne ==
    ASSUME NEW w, NEW r, Bound("print", w, r), NEW m, m = Material("print", w, r),
           NEW q, q.execution = m.execution,
           NEW c, c = PrintRun!certify_print_preflight(q, Trusted), Accepted(c)
    PROVE  OfRun(c, m)
<1>1. /\ PrintRun!validate_print_preflight(q.execution.record, q.execution.record) =
           [ok |-> TRUE, report |-> q.report]
      /\ PrintRun!RecordBinds(q.execution.record, q)
      /\ ContentsOf(c) = {q.source, q.specification, q.editable, q.raw, q.delivery,
                          q.execution, q.report}
  BY PrintCertified
<1>2. /\ DOMAIN m = {"source", "specification", "editable", "raw", "delivery",
                     "execution", "report"}
      /\ m.source = w.source /\ m.specification = w.specification
      /\ m.editable = r.record.editable /\ m.raw = r.record.raw
      /\ m.delivery = r.record.delivery
      /\ m.execution.record = r.record
      /\ m.report = ReportOf(PrintRun!validate_print_preflight(r.record, r.record))
  BY PrintParts
<1>3. /\ q.source = m.source /\ q.specification = m.specification
      /\ q.editable = m.editable /\ q.raw = m.raw /\ q.delivery = m.delivery
  BY <1>1, <1>2 DEF Bound, PrintRun!RecordBinds
<1>4. q.report = m.report
  <2>1. q.execution.record = r.record
    BY <1>2
  <2>2. PrintRun!validate_print_preflight(r.record, r.record) =
          [ok |-> TRUE, report |-> q.report]
    BY ZenonT(60), <1>1, <2>1
  <2>3. ReportOf(PrintRun!validate_print_preflight(r.record, r.record)) = q.report
    BY ZenonT(60), <2>2, ReportTaken
  <2> QED
    BY ZenonT(60), <1>2, <2>3
<1> QED
  BY <1>1, <1>2, <1>3, <1>4 DEF OfRun

\* Whatever the request was assembled from, it is of one run.
LEMMA PrintFromOne ==
    ASSUME NEW w, NEW r, NEW v, NEW s, NEW mix,
           NEW mine, NEW other, TwoRuns("print", mine, w, r, other, v, s),
           NEW q, NEW c, Requested("print", c, q, mine, other, mix)
    PROVE  \/ r.key = "executor" /\ OfRun(c, mine)
           \/ mix # {} /\ OfRun(c, other)
<1>1. /\ mine = Material("print", w, r)
      /\ other = Material("print", v, s)
      /\ r.key = "executor" => Bound("print", w, r)
      /\ s.key = "executor"
      /\ Bound("print", v, s)
  BY DEF TwoRuns
<1>2. /\ q = CertificationRequest(mine, other, mix)
      /\ c = PrintRun!certify_print_preflight(q, Trusted)
      /\ Accepted(c)
  BY DEF Requested, Certifier
<1>3. Verified(q.execution)
  BY <1>2, PrintCertified DEF Verified
<1>4. /\ "execution" \in DOMAIN mine
      /\ mine.execution = Signer!sign_value(r.record, r.key)
      /\ other.execution = Signer!sign_value(s.record, "executor")
  BY <1>1, PrintParts
<1>5. q.execution = Part("execution", mine, other, mix)
  BY <1>2, <1>4, RequestPart
<1>6. \/ q.execution = mine.execution /\ r.key = "executor"
      \/ q.execution = other.execution /\ mix # {}
  <2>1. Offered(q.execution, mine, r.record, r.key, other, s.record, mix)
    BY <1>3, <1>4, <1>5 DEF Offered
  <2> QED
    BY <2>1, PackageTaken
<1> QED
  BY <1>1, <1>2, <1>6, PrintOne

-----------------------------------------------------------------------------
(* Certificates *)

\* What was executed is of the staged inputs, or claimed by a stranger and
\* never executed; what was certified was executed.
RunInv ==
    /\ kind \in Kinds
    /\ inputs # << >> => inputs \in InputsOf(kind)
    /\ inputs = << >> => run = << >>
    /\ run = << >> => tries = 0
    /\ run # << >> /\ run # Failed =>
          Carrying(kind, inputs, run) \/ (run.key = "stranger" /\ tries = 0)
    /\ certificate # << >> => run # << >> /\ run # Failed

\* An execution leaves an outcome.
LEMMA ExecutedSomething ==
    ASSUME NEW k \in CertifiedKinds, NEW w, NEW fs, NEW adapter
    PROVE  Executed(k, w, fs, adapter).run # << >>
<1>1. /\ Failed # << >>
      /\ \A key, record, probe : Succeeded(key, record, probe) # << >>
  BY DEF Failed, Succeeded
<1>2. \A e, id : Cleaned(e, id, fs, adapter).run # << >>
  BY <1>1 DEF Cleaned, Probed
<1>3. \A e : Exporting(e).run # << >>
  BY <1>1 DEF Exporting
<1> QED
  BY <1>2, <1>3 DEF Executed, CertifiedKinds

\* What is staged has a certified path.
LEMMA StagedKind ==
    ASSUME RunInv, inputs # << >>
    PROVE  kind \in CertifiedKinds
BY StagedAssumption DEF RunInv

\* RunInv is inductive.
LEMMA RunInvHolds == Spec => []RunInv
<1>1. Init => RunInv
  BY DEF Init, RunInv
<1>2. RunInv /\ [Next]_vars => RunInv'
  <2> SUFFICES ASSUME RunInv, [Next]_vars PROVE RunInv'
    OBVIOUS
  <2>1. CASE Prepare
    BY <2>1 DEF Prepare, workVars, RunInv
  <2>2. ASSUME NEW w \in InputsOf(kind), Stage(w) PROVE RunInv'
    BY <2>2 DEF Stage, prepared, RunInv
  <2>3. ASSUME inputs # << >>, NEW adapter, Execute(adapter) PROVE RunInv'
    <3>1. /\ UNCHANGED <<kind, inputs, certificate>>
          /\ run = << >> \/ run = Failed
          /\ run' = Executed(kind, inputs, files, adapter).run
      BY <2>3 DEF Execute, prepared
    <3>2. run' # << >> /\ (run' = Failed \/ Carrying(kind, inputs, run'))
      BY <2>3, <3>1, StagedKind, ExecutedSomething, ExecutedBinds
    <3> QED
      BY <2>3, <3>1, <3>2 DEF RunInv
  <2>4. ASSUME inputs # << >>, NEW record, Claim(record) PROVE RunInv'
    <3>1. run' # << >> /\ run'.key = "stranger"
      BY <2>4 DEF Claim, Succeeded
    <3> QED
      BY <2>4, <3>1 DEF Claim, prepared, RunInv
  <2>5. ASSUME NEW mine, NEW mix, run # << >>, run # Failed, Certify(mine, mix)
        PROVE  RunInv'
    BY <2>5 DEF Certify, prepared, RunInv
  <2>6. ASSUME NEW response, NEW production, Attest(response, production)
        PROVE  RunInv'
    BY <2>6 DEF Attest, prepared, RunInv
  <2>7. CASE UNCHANGED vars
    BY <2>7 DEF vars, prepared, workVars, RunInv
  <2> QED
    BY <2>1, <2>2, <2>3, <2>4, <2>5, <2>6, <2>7 DEF Next, Work
<1> QED
  BY <1>1, <1>2, PTL DEF Spec

\* The certificate of a request, whatever was mixed into it, is about one run.
LEMMA CertifyFromOne ==
    ASSUME RunInv, run # << >>, run # Failed,
           NEW mine, mine = Material(kind, inputs, run), NEW mix \in Mixes(DOMAIN mine),
           NEW c, c = Certification(kind, mine, mix), Accepted(c)
    PROVE  /\ run.key = "executor"
           /\ \/ ContentsOf(c) \subseteq Whole(mine)
              \/ ContentsOf(c) \subseteq Whole(Elsewhere[kind])
<1> DEFINE v == OtherInputs(kind)
           s == ElsewhereRun(kind)
           other == Elsewhere[kind]
           q == CertificationRequest(mine, other, mix)
<1>1. kind \in CertifiedKinds
  BY StagedKind DEF RunInv
<1>2. other = Material(kind, v, s) /\ s.key = "executor" /\ Bound(kind, v, s)
  BY <1>1, OtherCarrying DEF Carrying
<1>3. Requested(kind, c, q, mine, other, mix)
  BY DEF Certification, Requested
<1>4. mix # {} => Typical(kind, inputs) /\ tries = 1
  BY DEF Mixes
<1>5. /\ Carrying(kind, inputs, run) \/ (run.key = "stranger" /\ tries = 0)
      /\ inputs \in InputsOf(kind)
  BY DEF RunInv
<1>6. /\ run.key = "executor" => Bound(kind, inputs, run)
      /\ mix # {} => run.key = "executor" /\ Bound(kind, inputs, run)
  BY <1>4, <1>5 DEF Carrying
<1> HIDE DEF v, s, other, q
<1>7. TwoRuns(kind, mine, inputs, run, other, v, s)
  BY <1>2, <1>6 DEF TwoRuns
<1>8. CASE kind = "cleanup"
  <2>1. mix # {} => run.record.output # s.record.output
    BY <1>2, <1>4, <1>5, <1>6, <1>8, RastersDiffer DEF Bound, v
  <2>2. Requested("cleanup", c, q, mine, other, mix)
    BY <1>3, <1>8
  <2>3. \/ run.key = "executor" /\ OfCleanup(c, mine)
        \/ mix # {} /\ OfCleanup(c, other)
    <3>1. TwoRuns("cleanup", mine, inputs, run, other, v, s)
      BY <1>7, <1>8
    <3>2. RastersApart(inputs, run, s, mix)
      BY <1>6, <1>8, <2>1 DEF RastersApart
    <3> QED
      BY <2>2, <3>1, <3>2, CleanupFromOne
  <2> QED
    BY <1>6, <1>8, <2>3 DEF Whole, OfCleanup, other
<1>9. CASE kind = "brand"
  <2>1. Requested("brand", c, q, mine, other, mix)
    BY <1>3, <1>9
  <2>2. \/ run.key = "executor" /\ OfRun(c, mine)
        \/ mix # {} /\ OfRun(c, other)
    <3>1. TwoRuns("brand", mine, inputs, run, other, v, s)
      BY <1>7, <1>9
    <3> QED
      BY <2>1, <3>1, BrandFromOne
  <2> QED
    BY <1>6, <1>9, <2>2 DEF Whole, OfRun, other
<1>10. CASE kind = "print"
  <2>1. Requested("print", c, q, mine, other, mix)
    BY <1>3, <1>10
  <2>2. \/ run.key = "executor" /\ OfRun(c, mine)
        \/ mix # {} /\ OfRun(c, other)
    <3>1. TwoRuns("print", mine, inputs, run, other, v, s)
      BY <1>7, <1>10
    <3> QED
      BY <2>1, <3>1, PrintFromOne
  <2> QED
    BY <1>6, <1>10, <2>2 DEF Whole, OfRun, other
<1> QED
  BY <1>1, <1>8, <1>9, <1>10 DEF CertifiedKinds

\* The property is about the kind, the inputs, the run and the certificate.
LEMMA CertifiedUnchanged ==
    ASSUME UNCHANGED <<kind, inputs, run, certificate>>
    PROVE  CertifiedFromOneRun' = CertifiedFromOneRun
BY DEF CertifiedFromOneRun, Contents, Whole

\* A certificate is about one execution by the trusted executor: whatever
\* parts of another job's execution a request mixes in, what the certify_*
\* functions certify all belongs to the same one.
THEOREM CertifiedFromOneRunAlways == Spec => []CertifiedFromOneRun
<1>1. Init => CertifiedFromOneRun
  BY DEF Init, CertifiedFromOneRun
<1>2. RunInv /\ CertifiedFromOneRun /\ [Next]_vars => CertifiedFromOneRun'
  <2> SUFFICES ASSUME RunInv, CertifiedFromOneRun, [Next]_vars
               PROVE  CertifiedFromOneRun'
    OBVIOUS
  <2>1. CASE Prepare
    BY <2>1, CertifiedUnchanged DEF Prepare, workVars
  <2>2. ASSUME NEW w, Stage(w) PROVE CertifiedFromOneRun'
    <3>1. certificate' = << >>
      BY <2>2 DEF Stage, RunInv
    <3> QED
      BY <3>1 DEF CertifiedFromOneRun
  <2>3. ASSUME NEW adapter, Execute(adapter) PROVE CertifiedFromOneRun'
    <3>1. certificate' = << >>
      BY <2>3 DEF Execute, RunInv
    <3> QED
      BY <3>1 DEF CertifiedFromOneRun
  <2>4. ASSUME NEW record, Claim(record) PROVE CertifiedFromOneRun'
    <3>1. certificate' = << >>
      BY <2>4 DEF Claim, RunInv
    <3> QED
      BY <3>1 DEF CertifiedFromOneRun
  <2>5. ASSUME run # << >>, run # Failed, NEW mine, mine = Material(kind, inputs, run),
               NEW mix \in Mixes(DOMAIN mine), Certify(mine, mix)
        PROVE  CertifiedFromOneRun'
    <3> DEFINE c == Certification(kind, mine, mix)
    <3>1. /\ Accepted(c) /\ UNCHANGED <<kind, inputs, run>>
          /\ certificate'.artifacts = c.bundle.artifacts
      BY <2>5 DEF Certify, prepared, Accepted
    <3>2. /\ run.key = "executor"
          /\ \/ ContentsOf(c) \subseteq Whole(mine)
             \/ ContentsOf(c) \subseteq Whole(Elsewhere[kind])
      BY <2>5, <3>1, CertifyFromOne
    <3>3. Contents' = ContentsOf(c)
      <4> HIDE DEF c
      <4> QED
        BY <3>1 DEF Contents, ContentsOf
    <3>4. /\ Whole(Material(kind, inputs, run))' = Whole(mine)
          /\ Whole(Elsewhere[kind])' = Whole(Elsewhere[kind])
      BY <2>5, <3>1 DEF Whole
    <3> HIDE DEF c
    <3> QED
      BY <3>1, <3>2, <3>3, <3>4 DEF CertifiedFromOneRun
  <2>6. ASSUME NEW response, NEW production, Attest(response, production)
        PROVE  CertifiedFromOneRun'
    BY <2>6, CertifiedUnchanged DEF Attest, prepared
  <2>7. CASE UNCHANGED vars
    BY <2>7, CertifiedUnchanged DEF vars, prepared, workVars
  <2> QED
    BY <2>1, <2>2, <2>3, <2>4, <2>5, <2>6, <2>7 DEF Next, Work
<1> QED
  BY <1>1, <1>2, RunInvHolds, PTL DEF Spec
=============================================================================
