------------------------------ MODULE PrintWork ------------------------------
(***************************************************************************)
(* Print ready poster preflight: its intent compiler and its planner       *)
(* (print-ready-poster-preflight-certified-path-runtime).                  *)
(***************************************************************************)
EXTENDS WorkContract

JobType == "print_ready_poster_preflight"
CapsuleId == "graphic-designer"

Artifacts == {"source_svg", "print_specification"}
Texts == Named({"contract_id", "created_at", "original_text", "language",
                      "requester_id", "required_application_version", "resolved_specification"})
Optional == Named({"visual_preference"})
Fields == FieldsOf(Artifacts) \cup Texts \cup Optional

validate_capsule(capsule) ==
    /\ capsule.capsule_id = CapsuleId /\ capsule.version # ""
    /\ JobType \in Ids(capsule.job_types)

\* Each artifact has the one media type of its role.
validate_artifact(intent, a) == ArtifactsWellFormed(intent, {a})

validate_present_values(intent) ==
    /\ WellFormed(intent, Texts)
    /\ \A a \in Artifacts : validate_artifact(intent, a)

\* An artifact is asked for as a whole.
missing_resolution_requests(intent) ==
    Missing(intent, Texts)
        \cup Named({a \in Artifacts : ~ Present(intent, FieldsOf({a}))})

Inputs == <<input("source_svg"), input("print_specification")>>

Outputs == <<output("editable_master", "editable_master", "print-ready-poster.svg",
                    "image/svg+xml"),
             output("delivery_pdf", "delivery_pdf", "print-ready-poster.pdf",
                    "application/pdf"),
             output("evidence_bundle", "evidence_bundle", "print-ready-poster-evidence.json",
                    "application/json")>>

Constraints ==
    <<constraint("restricted_svg_profile"), constraint("canvas_dimensions_match"),
      constraint("bleed_coverage"), constraint("safe_area_satisfied"),
      constraint("palette_violations"), constraint("vector_only"),
      constraint("fonts_outlined"), constraint("page_count"),
      constraint("media_box_match"), constraint("trim_box_match"),
      constraint("bleed_box_match"), constraint("crop_box_match"),
      constraint("pdf_version"), constraint("allowed_color_spaces"),
      constraint("transparency_absent"), constraint("external_actions_absent"),
      constraint("source_immutable"), constraint("inkscape_export_verified")>>

Permissions ==
    <<permission("filesystem", "inputs", "read", "immutable"),
      permission("filesystem", "outputs", "write", "no-overwrite"),
      permission("print-validator", "isolated-workspace", "control", "no-network"),
      permission("design-editor", "print-export", "control", "no-network")>>

proof_obligations ==
    LET one(c, v, evidence) == obligation(c, <<v>>, "independent", {evidence})
    IN  <<one("restricted_svg_profile", "print.svg.structure", "parsed_svg_snapshot"),
          one("canvas_dimensions_match", "print.canvas.dimensions", "parsed_svg_geometry"),
          one("bleed_coverage", "print.bleed.coverage", "parsed_svg_geometry"),
          one("safe_area_satisfied", "print.safe_area.geometry", "parsed_svg_geometry"),
          one("palette_violations", "print.palette.allowlist", "parsed_svg_snapshot"),
          one("vector_only", "print.pdf.vector_only", "parsed_pdf_resources"),
          one("fonts_outlined", "print.pdf.fonts_outlined", "parsed_pdf_resources"),
          one("page_count", "print.pdf.page", "parsed_pdf_page_tree"),
          one("media_box_match", "print.pdf.boxes", "parsed_pdf_page_boxes"),
          one("trim_box_match", "print.pdf.boxes", "parsed_pdf_page_boxes"),
          one("bleed_box_match", "print.pdf.boxes", "parsed_pdf_page_boxes"),
          one("crop_box_match", "print.pdf.boxes", "parsed_pdf_page_boxes"),
          one("pdf_version", "print.pdf.version", "parsed_pdf_header"),
          one("allowed_color_spaces", "print.pdf.color_spaces", "decoded_pdf_content"),
          one("transparency_absent", "print.pdf.transparency", "parsed_pdf_resources"),
          one("external_actions_absent", "print.pdf.security", "parsed_pdf_catalog"),
          one("source_immutable", "print.source.immutability", "pre_execution_digest"),
          one("inkscape_export_verified", "print.inkscape.integration", "signed_execution_record")>>

build_print_preflight_contract(intent, capsule) ==
    [schema_version |-> ContractSchema, id |-> "contract",
     capsule_id |-> CapsuleId, capsule_version |-> capsule.version,
     job_type |-> JobType, inputs |-> Inputs, outputs |-> Outputs,
     hard |-> Constraints, unknowns |-> 0, permissions |-> Permissions,
     obligations |-> proof_obligations, acceptance |-> acceptance]

\* The specification artifact must have the digest of the specification
\* the intent was resolved with.
BuildSucceeds(intent) ==
    /\ Present(intent, Fields \ Optional)
    /\ intent[<<"print_specification", "sha256">>] # "odd"

compile_print_preflight_intent(intent, capsule) ==
    CompileOutcome(validate_capsule(capsule) /\ validate_present_values(intent),
                   missing_resolution_requests(intent), BuildSucceeds(intent),
                   build_print_preflight_contract(intent, capsule), capsule)

-----------------------------------------------------------------------------
(* The planner *)

RequiredOperators == <<"print.validate_source", "print.export_pdf_with_inkscape",
                       "print.certify_preflight">>

validate_identity(identity) == WellFormed(identity, IdentityFields)
missing_identity_requests(identity) == Missing(identity, IdentityFields)

AdmittedInputs ==
    {<<"print_specification", "print_specification">>, <<"source_svg", "source_svg">>}

AdmittedOutputs ==
    {<<"delivery_pdf", "delivery_pdf", "print-ready-poster.pdf", "application/pdf">>,
     <<"editable_master", "editable_master", "print-ready-poster.svg", "image/svg+xml">>,
     <<"evidence_bundle", "evidence_bundle", "print-ready-poster-evidence.json",
       "application/json">>}

AdmittedPermissions ==
    {permission("filesystem", "inputs", "read", "immutable"),
     permission("filesystem", "outputs", "write", "no-overwrite"),
     permission("print-validator", "isolated-workspace", "control", "no-network"),
     permission("design-editor", "print-export", "control", "no-network")}

\* This planner does not mind a permission that is repeated.
validate_permissions(permissions) == Range(permissions) = AdmittedPermissions

validate_contract(contract) ==
    /\ contract.job_type = JobType
    /\ InputsAdmitted(contract.inputs, AdmittedInputs)
    /\ OutputsAdmitted(contract.outputs, AdmittedOutputs)
    /\ validate_permissions(contract.permissions)

validate_planning_capsule(capsule) ==
    /\ capsule.capsule_id = CapsuleId /\ capsule.version # ""
    /\ AllowsExactly(capsule, JobType, RequiredOperators)

operator_versions(capsule) ==
    \A o \in Range(RequiredOperators) :
        o \in Ids(capsule.operators) /\ VersionOf(capsule, o) # ""

capabilities ==
    <<capability("validate", "print-validator", "isolated-workspace", "control"),
      capability("export", "design-editor", "print-export", "control"),
      capability("certify", "print-validator", "isolated-workspace", "control")>>

PlanSteps(capsule) ==
    LET op(i) == RequiredOperators[i]
        v(i) == VersionOf(capsule, op(i))
    IN  <<step("validate", 0, op(1), v(1), << >>,
               <<"source_svg", "print_specification">>, << >>),
          step("export", 1, op(2), v(2), <<"validate">>,
               <<"source_svg", "print_specification">>,
               <<"editable_master", "delivery_pdf">>),
          step("certify", 2, op(3), v(3), <<"export">>,
               <<"editable_master", "delivery_pdf">>, <<"evidence_bundle">>)>>

build_plan(seal, capsule) ==
    planned(seal, capsule, PlanSteps(capsule), capabilities)

synthesize_print_preflight_plan(identity, contract, capsule) ==
    PlanOutcome(validate_identity(identity), missing_identity_requests(identity),
                contract, capsule, validate_contract(contract)
                    /\ validate_planning_capsule(capsule) /\ operator_versions(capsule),
                build_plan(Seal(contract, capsule), capsule))
=============================================================================
