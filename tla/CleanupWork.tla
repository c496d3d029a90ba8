----------------------------- MODULE CleanupWork -----------------------------
(***************************************************************************)
(* Image background cleanup: its intent compiler and its planner           *)
(* (background-cleanup-certified-path-runtime).                            *)
(***************************************************************************)
EXTENDS WorkContract

JobType == "image_background_cleanup"
CapsuleId == "graphic-designer"

Artifacts == {"source_raster", "approved_cleanup_mask"}
Texts == Named({"contract_id", "created_at", "original_text", "language",
                      "required_application_version"})
Optional == Named({"requester_id", "visual_preference"})
Measures == Named({"source_width_px", "source_height_px"})
Fields == FieldsOf(Artifacts) \cup Texts \cup Optional \cup Measures

validate_capsule(capsule) ==
    /\ capsule.capsule_id = CapsuleId /\ capsule.version # ""
    /\ JobType \in Ids(capsule.job_types)

\* Both artifacts are PNG images.
validate_artifact(intent, a) == ArtifactsWellFormed(intent, {a})

validate_present_values(intent) ==
    /\ WellFormed(intent, Texts \cup Optional \cup Measures)
    /\ \A a \in Artifacts : validate_artifact(intent, a)

append_artifact_requests(intent) == Missing(intent, FieldsOf(Artifacts))

missing_resolution_requests(intent) ==
    append_artifact_requests(intent) \cup Missing(intent, Texts \cup Measures)

Inputs == <<input("source_raster"), input("approved_cleanup_mask")>>

Outputs == <<output("cleaned_raster", "cleaned_raster", "background-cleaned.png",
                    "image/png"),
             output("integration_probe", "integration_probe_raster", "background-cleanup-probe.png",
                    "image/png"),
             output("evidence_bundle", "evidence_bundle", "background-cleanup-evidence.json",
                    "application/json")>>

Constraints ==
    <<constraint("cleaned_width"), constraint("cleaned_height"),
      constraint("mask_dimensions_match"), constraint("mask_is_binary"),
      constraint("mask_foreground_pixels"), constraint("mask_background_pixels"),
      constraint("background_alpha_violations"),
      constraint("foreground_rgba_violations"), constraint("output_media_type"),
      constraint("color_profile"), constraint("source_immutable"),
      constraint("inkscape_probe_verified")>>

Permissions ==
    <<permission("filesystem", "inputs", "read", "immutable"),
      permission("filesystem", "outputs", "write", "no-overwrite"),
      permission("cleanup-runtime", "isolated-workspace", "control", "no-network"),
      permission("design-editor", "integration-probe", "control", "no-network")>>

proof_obligations ==
    LET one(c, v, evidence) == obligation(c, <<v>>, "independent", evidence)
        image == {"decoded_image_metadata"}
        compared == {"decoded_output_pixels", "mask_bound_comparison"}
        mask == {"decoded_mask_pixels", "mask_histogram"}
    IN  <<one("cleaned_width", "cleanup.png.structure", image \cup {"measurement_record"}),
          one("cleaned_height", "cleanup.png.structure", image \cup {"measurement_record"}),
          one("mask_dimensions_match", "cleanup.mask.dimensions",
              image \cup {"dimension_comparison"}),
          one("mask_is_binary", "cleanup.mask.binary", mask),
          one("mask_foreground_pixels", "cleanup.mask.binary", mask),
          one("mask_background_pixels", "cleanup.mask.binary", mask),
          one("background_alpha_violations", "cleanup.alpha.background", compared),
          one("foreground_rgba_violations", "cleanup.foreground.preservation",
              compared \cup {"decoded_source_pixels"}),
          one("output_media_type", "cleanup.png.structure", image \cup {"magic_bytes"}),
          one("color_profile", "cleanup.png.structure", image \cup {"png_chunk_evidence"}),
          one("source_immutable", "cleanup.source.immutability",
              {"pre_execution_digest", "post_execution_digest"}),
          one("inkscape_probe_verified", "cleanup.inkscape.integration",
              image \cup {"application_identity", "adapter_receipt"})>>

build_background_cleanup_contract(intent, capsule) ==
    [schema_version |-> ContractSchema, id |-> "contract",
     capsule_id |-> CapsuleId, capsule_version |-> capsule.version,
     job_type |-> JobType, inputs |-> Inputs, outputs |-> Outputs,
     hard |-> Constraints, unknowns |-> 0, permissions |-> Permissions,
     obligations |-> proof_obligations, acceptance |-> acceptance]

BuildSucceeds(intent) == Present(intent, Fields \ Optional)

compile_background_cleanup_intent(intent, capsule) ==
    CompileOutcome(validate_capsule(capsule) /\ validate_present_values(intent),
                   missing_resolution_requests(intent), BuildSucceeds(intent),
                   build_background_cleanup_contract(intent, capsule), capsule)

-----------------------------------------------------------------------------
(* The planner *)

RequiredOperators == <<"cleanup.apply_binary_mask", "cleanup.inkscape_probe",
                       "cleanup.certify_delivery">>

validate_identity_values(identity) == WellFormed(identity, IdentityFields)
missing_identity_requests(identity) == Missing(identity, IdentityFields)

validate_contract_profile(contract) == contract.schema_version = ContractSchema

validate_capsule_profile(capsule) ==
    /\ capsule.capsule_id = CapsuleId /\ capsule.version # ""
    /\ AllowsExactly(capsule, JobType, RequiredOperators)

AdmittedInputs ==
    {<<"approved_cleanup_mask", "approved_cleanup_mask">>, <<"source_raster", "source_raster">>}

AdmittedOutputs ==
    {<<"cleaned_raster", "cleaned_raster", "background-cleaned.png", "image/png">>,
     <<"evidence_bundle", "evidence_bundle", "background-cleanup-evidence.json",
       "application/json">>,
     <<"integration_probe", "integration_probe_raster", "background-cleanup-probe.png",
       "image/png">>}

AdmittedPermissions ==
    {permission("filesystem", "inputs", "read", "immutable"),
     permission("filesystem", "outputs", "write", "no-overwrite"),
     permission("cleanup-runtime", "isolated-workspace", "control", "no-network"),
     permission("design-editor", "integration-probe", "control", "no-network")}

validate_input_profile(inputs) == InputsAdmitted(inputs, AdmittedInputs)
validate_output_profile(outputs) == OutputsAdmitted(outputs, AdmittedOutputs)
validate_permission_profile(permissions) ==
    Unique(permissions) /\ Range(permissions) = AdmittedPermissions

resolve_operator_versions(capsule) == OperatorsResolve(capsule, RequiredOperators)

capability_requirements ==
    <<capability("cleanup", "cleanup-runtime", "isolated-workspace", "control"),
      capability("probe", "design-editor", "integration-probe", "control"),
      capability("certify", "cleanup-runtime", "isolated-workspace", "control")>>

PlanSteps(capsule) ==
    LET op(i) == RequiredOperators[i]
        v(i) == VersionOf(capsule, op(i))
    IN  <<step("cleanup", 0, op(1), v(1), << >>,
               <<"source_raster", "approved_cleanup_mask">>, <<"cleaned_raster">>),
          step("probe", 1, op(2), v(2), <<"cleanup">>, <<"cleaned_raster">>,
               <<"integration_probe">>),
          step("certify", 2, op(3), v(3), <<"probe">>,
               <<"cleaned_raster", "integration_probe">>, <<"evidence_bundle">>)>>

build_plan(seal, capsule) ==
    planned(seal, capsule, PlanSteps(capsule), capability_requirements)

ProfileOK(contract, capsule) ==
    /\ contract.job_type = JobType
    /\ validate_contract_profile(contract) /\ validate_capsule_profile(capsule)
    /\ validate_input_profile(contract.inputs)
    /\ validate_output_profile(contract.outputs)
    /\ validate_permission_profile(contract.permissions)
    /\ resolve_operator_versions(capsule)

synthesize_background_cleanup_plan(identity, contract, capsule) ==
    PlanOutcome(validate_identity_values(identity), missing_identity_requests(identity),
                contract, capsule, ProfileOK(contract, capsule),
                build_plan(Seal(contract, capsule), capsule))
=============================================================================
