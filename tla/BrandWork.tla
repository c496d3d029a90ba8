------------------------------ MODULE BrandWork ------------------------------
(***************************************************************************)
(* Brand compliant image export: its intent compiler and its planner       *)
(* (brand-compliant-export-certified-path-runtime).                        *)
(***************************************************************************)
EXTENDS WorkContract

JobType == "brand_compliant_image_export"
CapsuleId == "graphic-designer"

Artifacts == {"source_svg", "brand_manifest", "approved_logo"}
Texts == Named({"contract_id", "created_at", "original_text", "language",
                      "requester_id", "required_application_version", "resolved_manifest"})
Optional == Named({"visual_preference"})
Fields == FieldsOf(Artifacts) \cup Texts \cup Optional

validate_capsule(capsule) ==
    /\ capsule.capsule_id = CapsuleId /\ capsule.version # ""
    /\ JobType \in Ids(capsule.job_types)

\* Each artifact has the one media type of its role.
validate_artifact(intent, a) == ArtifactsWellFormed(intent, {a})

validate_present_values(intent) ==
    /\ WellFormed(intent, Texts \cup Optional)
    /\ \A a \in Artifacts : validate_artifact(intent, a)

\* An artifact is asked for as a whole.
missing_resolution_requests(intent) ==
    Missing(intent, Texts)
        \cup Named({a \in Artifacts : ~ Present(intent, FieldsOf({a}))})

Inputs == <<input("source_svg"), input("brand_manifest"), input("approved_logo")>>

Outputs == <<output("editable_master", "editable_master", "brand-compliant.svg",
                    "image/svg+xml"),
             output("delivery_raster", "delivery_raster", "brand-compliant.png",
                    "image/png"),
             output("evidence_bundle", "evidence_bundle", "brand-compliant-evidence.json",
                    "application/json")>>

Constraints ==
    <<constraint("canvas_width"), constraint("canvas_height"),
      constraint("restricted_svg_profile"), constraint("palette_violations"),
      constraint("logo_digest_match"), constraint("logo_geometry_match"),
      constraint("logo_clear_space"), constraint("typography_match"),
      constraint("approved_copy_match"), constraint("output_media_type"),
      constraint("color_profile"), constraint("source_immutable"),
      constraint("inkscape_export_verified")>>

Permissions ==
    <<permission("filesystem", "inputs", "read", "immutable"),
      permission("filesystem", "outputs", "write", "no-overwrite"),
      permission("brand-validator", "isolated-workspace", "control", "no-network"),
      permission("design-editor", "brand-export", "control", "no-network")>>

proof_obligations ==
    LET one(c, v, evidence) == obligation(c, <<v>>, "independent", {evidence})
    IN  <<one("canvas_width", "brand.canvas.dimensions", "decoded_image_metadata"),
          one("canvas_height", "brand.canvas.dimensions", "decoded_image_metadata"),
          one("restricted_svg_profile", "brand.svg.structure", "parsed_svg_snapshot"),
          one("palette_violations", "brand.palette.allowlist", "parsed_svg_snapshot"),
          one("logo_digest_match", "brand.logo.identity", "embedded_asset_digest"),
          one("logo_geometry_match", "brand.logo.geometry", "parsed_svg_geometry"),
          one("logo_clear_space", "brand.logo.clear_space", "parsed_svg_geometry"),
          one("typography_match", "brand.typography", "parsed_svg_typography"),
          one("approved_copy_match", "brand.copy.identity", "parsed_direct_text"),
          one("output_media_type", "brand.png.structure", "decoded_image_metadata"),
          one("color_profile", "brand.png.structure", "png_chunk_evidence"),
          one("source_immutable", "brand.source.immutability", "pre_execution_digest"),
          one("inkscape_export_verified", "brand.inkscape.integration", "signed_execution_record")>>

build_brand_export_contract(intent, capsule) ==
    [schema_version |-> ContractSchema, id |-> "contract",
     capsule_id |-> CapsuleId, capsule_version |-> capsule.version,
     job_type |-> JobType, inputs |-> Inputs, outputs |-> Outputs,
     hard |-> Constraints, unknowns |-> 0, permissions |-> Permissions,
     obligations |-> proof_obligations, acceptance |-> acceptance]

\* The brand manifest artifact must have the digest of the brand manifest
\* the intent was resolved with.
BuildSucceeds(intent) ==
    /\ Present(intent, Fields \ (Optional \cup Named({"requester_id"})))
    /\ intent[<<"brand_manifest", "sha256">>] # "odd"

compile_brand_export_intent(intent, capsule) ==
    CompileOutcome(validate_capsule(capsule) /\ validate_present_values(intent),
                   missing_resolution_requests(intent), BuildSucceeds(intent),
                   build_brand_export_contract(intent, capsule), capsule)

-----------------------------------------------------------------------------
(* The planner *)

RequiredOperators == <<"brand.validate_source", "brand.export_with_inkscape",
                       "brand.certify_delivery">>

validate_identity(identity) == WellFormed(identity, IdentityFields)
missing_identity_requests(identity) == Missing(identity, IdentityFields)

validate_contract_profile(contract) == contract.schema_version = ContractSchema

validate_capsule_profile(capsule) ==
    /\ capsule.capsule_id = CapsuleId /\ capsule.version # ""
    /\ AllowsExactly(capsule, JobType, RequiredOperators)

AdmittedInputs ==
    {<<"approved_logo", "approved_logo">>, <<"brand_manifest", "brand_manifest">>,
     <<"source_svg", "source_svg">>}

AdmittedOutputs ==
    {<<"delivery_raster", "delivery_raster", "brand-compliant.png", "image/png">>,
     <<"editable_master", "editable_master", "brand-compliant.svg", "image/svg+xml">>,
     <<"evidence_bundle", "evidence_bundle", "brand-compliant-evidence.json",
       "application/json">>}

AdmittedPermissions ==
    {permission("filesystem", "inputs", "read", "immutable"),
     permission("filesystem", "outputs", "write", "no-overwrite"),
     permission("brand-validator", "isolated-workspace", "control", "no-network"),
     permission("design-editor", "brand-export", "control", "no-network")}

validate_input_profile(inputs) == InputsAdmitted(inputs, AdmittedInputs)
validate_output_profile(outputs) == OutputsAdmitted(outputs, AdmittedOutputs)
validate_permission_profile(permissions) ==
    Unique(permissions) /\ Range(permissions) = AdmittedPermissions

resolve_operator_versions(capsule) == OperatorsResolve(capsule, RequiredOperators)

capability_requirements ==
    <<capability("validate", "brand-validator", "isolated-workspace", "control"),
      capability("export", "design-editor", "brand-export", "control"),
      capability("certify", "brand-validator", "isolated-workspace", "control")>>

PlanSteps(capsule) ==
    LET op(i) == RequiredOperators[i]
        v(i) == VersionOf(capsule, op(i))
    IN  <<step("validate", 0, op(1), v(1), << >>,
               <<"source_svg", "brand_manifest", "approved_logo">>, << >>),
          step("export", 1, op(2), v(2), <<"validate">>,
               <<"source_svg", "brand_manifest", "approved_logo">>,
               <<"editable_master", "delivery_raster">>),
          step("certify", 2, op(3), v(3), <<"export">>,
               <<"editable_master", "delivery_raster">>, <<"evidence_bundle">>)>>

build_plan(seal, capsule) ==
    planned(seal, capsule, PlanSteps(capsule), capability_requirements)

ProfileOK(contract, capsule) ==
    /\ contract.job_type = JobType
    /\ validate_contract_profile(contract) /\ validate_capsule_profile(capsule)
    /\ validate_input_profile(contract.inputs)
    /\ validate_output_profile(contract.outputs)
    /\ validate_permission_profile(contract.permissions)
    /\ resolve_operator_versions(capsule)

synthesize_brand_export_plan(identity, contract, capsule) ==
    PlanOutcome(validate_identity(identity), missing_identity_requests(identity),
                contract, capsule, ProfileOK(contract, capsule),
                build_plan(Seal(contract, capsule), capsule))
=============================================================================
