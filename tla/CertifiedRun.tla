---------------------------- MODULE CertifiedRun -----------------------------
(***************************************************************************)
(* Prepared work carried through its certified path: inputs are staged,    *)
(* executed (perhaps more than once, with an adapter that can fail),       *)
(* validated, certified from material that may belong to another run, and  *)
(* finally attested by the isolated signer.                                *)
(*                                                                         *)
(* The material, the adapters and the capsule are constants.  CertifiedWork *)
(* prepares the contract and the plan, and gives the constants values.     *)
(***************************************************************************)
EXTENDS Integers, FiniteSets

CONSTANTS Kinds,             \* kinds of work
          ShippedCapsule,    \* the capsule work is planned under
          InputsOf(_),       \* kind: the material that can be staged
          OtherInputs(_),    \* kind: the material of another job
          Honest(_, _),      \* kind, material: what a working adapter reports
          Adapters(_, _),    \* kind, material: what an adapter can report
          Forgeries,         \* rasters an executor nobody trusts may claim
          Width, Height,     \* of the staged rasters
          Executable(_, _),  \* kind, material: whether it is carried out
          Typical(_, _),     \* kind, material: whether requests are varied on it
          MaxAttempts        \* executions of the staged work

CleanupRun == INSTANCE CleanupPath
BrandRun == INSTANCE BrandPath
PrintRun == INSTANCE PrintPath
Signer == INSTANCE Attestation

VARIABLES kind,
          contract,     \* the sealed contract, << >> before
          plan,         \* the sealed plan, << >> before
          inputs,       \* the staged material, << >> before
          files,        \* files of the workspace
          tries,        \* executions so far
          run,          \* the last execution, << >> before
          certificate,  \* the certified bundle, << >> before
          issued        \* the signer's package for it, << >> before

prepared == <<kind, contract, plan>>
workVars == <<inputs, files, tries, run, certificate, issued>>
vars == <<prepared, workVars>>

CertifiedKinds == {"cleanup", "brand", "print"}

-----------------------------------------------------------------------------
(* Execution under the design adapter *)

Request(k, w) ==
    CASE k = "cleanup" ->
            [id |-> "job", width |-> Width, height |-> Height, source |-> w.source,
             expected_source |-> w.source, mask |-> w.mask, expected_mask |-> w.mask]
      [] k = "brand" ->
            [id |-> "job", digests_well_formed |-> TRUE, source |-> w.source,
             expected_source |-> w.source, manifest |-> w.manifest,
             expected_manifest |-> w.manifest, logo |-> w.logo, expected_logo |-> w.logo]
      [] k = "print" ->
            [id |-> "job", digests_well_formed |-> TRUE, source |-> w.source,
             expected_source |-> w.source, specification |-> w.specification,
             expected_specification |-> w.specification]

Failed == [ok |-> FALSE]
Succeeded(key, record, probe) ==
    [ok |-> TRUE, key |-> key, record |-> record, probe |-> probe]

Probed(e, p) ==
    [files |-> p.files,
     run |-> IF p.ok THEN Succeeded("executor", e.record, p.report) ELSE Failed]
Cleaned(e, id, fs, adapter) ==
    IF e.ok
    THEN Probed(e, CleanupRun!execute_inkscape_cleanup_probe(id, fs, adapter, e.cleaned,
                                                             Width, Height))
    ELSE [files |-> fs, run |-> Failed]
Exporting(e) ==
    [files |-> e.files,
     run |-> IF e.ok THEN Succeeded("executor", e.record, << >>) ELSE Failed]

\* What an execution leaves: its outcome and the files of the workspace.  The
\* cleanup is probed through the adapter, the other kinds are exported by it.
Executed(k, w, fs, adapter) ==
    LET request == Request(k, w) IN
    CASE k = "cleanup" ->
            Cleaned(CleanupRun!execute_background_cleanup(request), request.id, fs, adapter)
      [] k = "brand" -> Exporting(BrandRun!execute_brand_export(request, fs, adapter))
      [] k = "print" -> Exporting(PrintRun!execute_print_preflight(request, fs, adapter))

Granted(answer) == {a \in {answer} : a.ok}

\* Records that are consistent in themselves but were written by an executor
\* nobody trusts: of a cleanup that treated the raster in its own way, of
\* exports of sources nobody accepted.
Claimed(k, w, adapter) ==
    CASE k = "cleanup" ->
            {[source |-> w.source, mask |-> w.mask, output |-> x, width |-> Width,
              height |-> Height, source_immutable |-> kept, verified |-> TRUE, intact |-> TRUE] :
                x \in Forgeries, kept \in BOOLEAN}
      [] k = "brand" ->
            {[source |-> w.source, manifest |-> w.manifest, logo |-> w.logo,
              source_validation |-> judged.report, editable |-> adapter.editable,
              raw |-> adapter.export, delivery |-> made.png,
              application |-> adapter.application, source_immutable |-> TRUE,
              verified |-> TRUE, intact |-> TRUE] :
                judged \in Granted(BrandRun!validate_brand_source(w.source, w.logo, w.manifest)),
                made \in Granted(BrandRun!normalize_brand_png_srgb(adapter.export))}
      [] k = "print" ->
            {[source |-> w.source, specification |-> w.specification,
              source_validation |-> judged.report, editable |-> adapter.editable,
              raw |-> adapter.export, delivery |-> made.pdf,
              normalization |-> made.record, application |-> adapter.application,
              source_immutable |-> TRUE, verified |-> adapter.verified, intact |-> TRUE] :
                judged \in Granted(PrintRun!validate_print_source(w.source, w.specification)),
                made \in Granted(PrintRun!normalize_print_pdf(adapter.export, w.specification))}

\* The report of the kind's independent validator on an execution.
Judged(k, w, r) ==
    CASE k = "cleanup" -> CleanupRun!validate_background_cleanup(w.source, w.mask,
                                                                 r.record.output, r.record)
      [] k = "brand" -> BrandRun!validate_brand_export(r.record, r.record)
      [] k = "print" -> PrintRun!validate_print_preflight(r.record, r.record)

-----------------------------------------------------------------------------
(* Certification *)

Trusted == {"executor"}
Level == 3
Draft == [manifest_id |-> "manifest", certificate_id |-> "certificate", issued_at |-> 1]
Authority == [issuer_id |-> Signer!ATTESTATION_ISSUER_ID, key_id |-> Signer!ATTESTATION_KEY_ID,
              public_key |-> "authority"]

ReportOf(judged) == IF judged.ok THEN judged.report ELSE Failed

\* What an execution contributes to a certification request.
Material(k, w, r) ==
    LET execution == Signer!sign_value(r.record, r.key)
        report == ReportOf(Judged(k, w, r))
    IN  CASE k = "cleanup" ->
                [source |-> w.source, mask |-> w.mask, cleaned |-> r.record.output,
                 execution |-> execution, report |-> report,
                 integration |-> Signer!sign_value(r.probe, r.key)]
          [] k = "brand" ->
                [source |-> w.source, manifest |-> w.manifest, logo |-> w.logo,
                 editable |-> r.record.editable, raw |-> r.record.raw,
                 delivery |-> r.record.delivery, execution |-> execution, report |-> report]
          [] k = "print" ->
                [source |-> w.source, specification |-> w.specification,
                 editable |-> r.record.editable, raw |-> r.record.raw,
                 delivery |-> r.record.delivery, execution |-> execution, report |-> report]

ElsewhereRun(k) == Executed(k, OtherInputs(k), {}, Honest(k, OtherInputs(k))).run
Elsewhere ==
    [k \in CertifiedKinds |-> Material(k, OtherInputs(k), ElsewhereRun(k))]

\* Only kinds with a certified path are staged; the other job went through.
ASSUME StagedAssumption == \A k \in Kinds \ CertifiedKinds : InputsOf(k) = {}
ASSUME OtherAssumption == \A k \in CertifiedKinds : ElsewhereRun(k).ok

\* The two jobs' cleaned rasters, which a digest tells apart, are different.
ASSUME RastersDiffer ==
    LET cleanup(w) == CleanupRun!execute_background_cleanup(Request("cleanup", w))
    IN  \A w \in InputsOf("cleanup") : Typical("cleanup", w) /\ cleanup(w).ok =>
            cleanup(w).cleaned # cleanup(OtherInputs("cleanup")).cleaned

\* A failed attempt has written no files but those it has names for.
ASSUME LeftAssumption ==
    \A w \in InputsOf("print") : \A adapter \in Adapters("print", w) :
        adapter.left \subseteq {"source", "editable", "raw", "delivery"}

\* A request for certification made of an execution's material.  `mix` names
\* the parts taken from the other execution and what else is not right.
Package(p, other, mix) ==
    IF "resigned" \in mix THEN [p EXCEPT !.signed = other.execution.record]
    ELSE IF "stranger" \in mix THEN [p EXCEPT !.key = "stranger"] ELSE p
Part(p, mine, other, mix) ==
    LET taken == IF p \in mix THEN other[p] ELSE mine[p]
    IN  IF p = "execution" THEN Package(taken, other, mix) ELSE taken

Drafted(mix) == IF "draft" \in mix THEN [Draft EXCEPT !.manifest_id = ""] ELSE Draft
Terms(mix) ==
    [contract |-> contract, capsule |-> ShippedCapsule, plan |-> plan,
     named |-> "unnamed" \notin mix, environment |-> "windows",
     level |-> IF "level" \in mix THEN 2 ELSE Level,
     trace |-> [plan |-> IF "foreign" \in mix THEN << >> ELSE plan,
                conforms |-> "rejected" \notin mix],
     draft |-> Drafted(mix), signer |-> Authority]

CertificationRequest(mine, other, mix) ==
    LET terms == Terms(mix)
    IN  [p \in DOMAIN mine \cup DOMAIN terms |->
            IF p \in DOMAIN terms THEN terms[p] ELSE Part(p, mine, other, mix)]

Certifier(k, request) ==
    CASE k = "cleanup" -> CleanupRun!certify_background_cleanup(request, Trusted)
      [] k = "brand" -> BrandRun!certify_brand_export(request, Trusted)
      [] k = "print" -> PrintRun!certify_print_preflight(request, Trusted)
Certification(k, mine, mix) ==
    Certifier(k, CertificationRequest(mine, Elsewhere[k], mix))

Faults == {"resigned", "stranger", "unnamed", "level", "foreign", "rejected", "draft"}
Mixes(parts) ==
    IF ~ Typical(kind, inputs) \/ tries # 1 THEN {{}} ELSE
    {{}, parts} \cup {{p, q} : p \in parts, q \in parts} \cup {{f} : f \in Faults}
        \cup {{p, f} : p \in parts, f \in {"resigned", "stranger"}}

-----------------------------------------------------------------------------
(* Actions *)

Init ==
    /\ kind \in Kinds /\ contract = << >> /\ plan = << >>
    /\ inputs = << >> /\ files = {} /\ tries = 0 /\ run = << >>
    /\ certificate = << >> /\ issued = << >>

\* Until inputs are staged, contract and plan are the preparation's.
Prepare ==
    /\ inputs = << >>
    /\ UNCHANGED <<kind, workVars>>

Stage(w) ==
    /\ inputs = << >>
    /\ plan # << >> /\ plan.contract_digest = contract
    /\ inputs' = w
    /\ UNCHANGED <<prepared, files, tries, run, certificate, issued>>

Execute(adapter) ==
    /\ tries < MaxAttempts
    /\ run = << >> \/ run = Failed
    /\ \E e \in {Executed(kind, inputs, files, adapter)} :
          run' = e.run /\ files' = e.files
    /\ tries' = tries + 1
    /\ UNCHANGED <<prepared, inputs, certificate, issued>>

Claim(record) ==
    /\ run = << >>
    /\ run' = Succeeded("stranger", record, Elsewhere[kind].execution.record)
    /\ UNCHANGED <<prepared, inputs, files, tries, certificate, issued>>

\* The bundle of the certificate, whose digests are those of the work.
Bundle == [contract |-> contract, plan |-> plan, environment |-> "windows", level |-> Level,
           trace |-> [plan |-> plan, conforms |-> TRUE],
           artifacts |-> certificate.artifacts, results |-> certificate.results]

Certify(mine, mix) ==
    /\ certificate = << >>
    /\ \E c \in {Certification(kind, mine, mix)} :
          /\ c.ok
          /\ certificate' = [artifacts |-> c.bundle.artifacts, results |-> c.bundle.results]
    /\ UNCHANGED <<prepared, inputs, files, tries, run, issued>>

Prepared(certificate_id) ==
    Signer!prepare_attestation(contract, plan, Bundle, Level,
                               [Draft EXCEPT !.certificate_id = certificate_id])

\* Answers of a signer: the right one, and ones that differ in one place.
\* A payload is named by its certificate.
Responses ==
    LET right == [request |-> "certificate", role |-> "ATTESTATION",
                  issuer_id |-> Authority.issuer_id, key_id |-> Authority.key_id,
                  digest |-> "certificate"]
    IN  {[signed |-> s, envelope |-> v, public_key |-> key] :
            s \in BOOLEAN, key \in {"authority", "retired"},
            v \in {right, [right EXCEPT !.role = "CAPABILITY"],
                   [right EXCEPT !.issuer_id = "other"], [right EXCEPT !.key_id = "other"],
                   [right EXCEPT !.digest = "earlier"], [right EXCEPT !.request = "earlier"],
                   [right EXCEPT !.request = "earlier", !.digest = "earlier"]}}

Issuance(response, production) ==
    LET v == response.envelope
        envelope == [request_id |-> Prepared(v.request).request_id, role |-> v.role,
                     issuer_id |-> v.issuer_id, key_id |-> v.key_id,
                     digest |-> Prepared(v.digest).payload]
        answer == [response EXCEPT !.envelope = envelope]
    IN  IF production
        THEN Signer!production_issue(contract, plan, Bundle, Level, Draft, answer,
                                     [public_key |-> Authority.public_key])
        ELSE Signer!issue(contract, plan, Bundle, Level, Draft, answer, Authority.public_key)

Attest(response, production) ==
    /\ issued = << >>
    /\ Issuance(response, production).ok
    /\ issued' = [response |-> response, production |-> production]
    /\ UNCHANGED <<prepared, inputs, files, tries, run, certificate>>

Work ==
    \/ \E w \in InputsOf(kind) : Stage(w)
    \/ /\ inputs # << >> /\ Executable(kind, inputs)
       /\ \E adapter \in Adapters(kind, inputs) : Execute(adapter)
    \/ /\ inputs # << >> /\ Executable(kind, inputs)
       /\ \E adapter \in Adapters(kind, inputs) :
             \E record \in Claimed(kind, inputs, adapter) : Claim(record)
    \/ /\ run # << >> /\ run # Failed /\ certificate = << >>
       /\ \E mine \in {Material(kind, inputs, run)} :
             \E mix \in Mixes(DOMAIN mine) : Certify(mine, mix)
    \/ certificate # << >> /\ \E response \in Responses, production \in BOOLEAN :
          Attest(response, production)

Next == Prepare \/ Work

Spec == Init /\ [][Next]_vars

-----------------------------------------------------------------------------
(* Properties *)

\* Material the kind's own checks accept.
Acceptable(k, w) ==
    CASE k = "cleanup" ->
            LET mask == CleanupRun!decode_restricted_rgba_png(w.mask)
                source == CleanupRun!decode_restricted_rgba_png(w.source)
            IN  /\ source.ok /\ source.has_srgb /\ CleanupRun!decode_png_bytes(w.source).ok
                /\ {CleanupRun!AlphaAt(mask.pixels, i) : i \in 1 .. 4} = {0, 255}
      [] k = "brand" ->
            \E judged \in {BrandRun!validate_brand_source(w.source, w.logo, w.manifest)} :
                judged.ok /\ BrandRun!SourceAccepted(judged.report)
      [] k = "print" ->
            \E judged \in {PrintRun!validate_print_source(w.source, w.specification)} :
                judged.ok /\ PrintRun!SourceAccepted(judged.report)

\* The failures the kind's report on an execution that was probed names.
Failures(k, report) ==
    CASE k = "cleanup" -> CleanupRun!background_cleanup_failure_map(report, TRUE)
      [] k = "brand" -> BrandRun!brand_export_failure_map(report)
      [] k = "print" -> PrintRun!print_preflight_failure_map(report)

\* The checks before an execution, the execution and the checks after it
\* agree: material that is accepted, executed with an adapter that works, is
\* certified and its report names no failure.  For a poster that includes
\* that the page boxes, written as binary32 points, read back as specified,
\* up to the largest poster.
HonestRunCertifies ==
    inputs # << >> /\ Executable(kind, inputs) /\ run = << >> /\ Acceptable(kind, inputs) =>
        \A r \in {Executed(kind, inputs, {}, Honest(kind, inputs)).run} :
            /\ r.ok
            /\ \A mine \in {Material(kind, inputs, r)} :
                  /\ Certifier(kind, CertificationRequest(mine, mine, {})).ok
                  /\ Failures(kind, mine.report) = {}

\* The file system writes the source and removes what it is told to.
DiskObeys(adapter) == adapter.source_written /\ adapter.kept = {}
WouldSucceed(fs) == Executed(kind, inputs, fs, Honest(kind, inputs)).run.ok

\* A failed attempt at a poster does not cost the retry.  Wherever it failed
\* after its source was written, and whatever it left, its files are removed:
\* a request that a working adapter would have carried out before it is
\* carried out after it.  (A source that is not written whole, or a file that
\* cannot be removed, stays, and every later attempt is refused for it.)
FailedPosterRetries ==
    [][kind = "print" /\ inputs # << >> /\ run' = Failed =>
          \A adapter \in Adapters(kind, inputs) :
             Execute(adapter) /\ DiskObeys(adapter) /\ WouldSucceed(files) =>
                WouldSucceed(files')]_vars

Contents == {a.content : a \in certificate.artifacts}
Whole(m) == {m[p] : p \in DOMAIN m}
    \cup (IF kind = "cleanup" THEN {m.integration.record.probe} ELSE {})

\* A certificate is about one execution by a trusted executor: whatever parts
\* of another execution the request was assembled from, the artifacts of a
\* certified bundle all belong to the same one.
CertifiedFromOneRun ==
    certificate # << >> =>
        /\ run.key = "executor"
        /\ \/ Contents \subseteq Whole(Material(kind, inputs, run))
           \/ Contents \subseteq Whole(Elsewhere[kind])

\* Whatever the signer answers, a package either issuer hands out verifies
\* against the bundle it was issued for under the authority's key, and
\* against no bundle that differs from it; the production verifier takes it
\* under a trust snapshot with that key and under no other.
AttestedVerifies ==
    issued # << >> => \A package \in {Issuance(issued.response, issued.production).package} :
        LET trusted == [id \in {<<Authority.issuer_id, Authority.key_id>>} |-> "authority"]
            Verifies(bundle) ==
                IF issued.production
                THEN Signer!verify_production_signer_bound_attestation_against_bundle(
                         package, [public_key |-> "authority"], contract, plan, bundle, Level)
                ELSE Signer!verify_signer_bound_attestation_against_bundle(
                         package, trusted, contract, plan, bundle, Level)
        IN  /\ Verifies(Bundle)
            /\ ~ Signer!verify_production_signer_bound_attestation(
                     package, [public_key |-> "retired"])
            /\ ~ Verifies([Bundle EXCEPT !.environment = "linux"])
            /\ \A a \in certificate.artifacts :
                  ~ Verifies([Bundle EXCEPT !.artifacts = @ \ {a}])
=============================================================================
