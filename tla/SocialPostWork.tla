--------------------------- MODULE SocialPostWork ---------------------------
(***************************************************************************)
(* The static social post: its intent compiler (intent-contract-compiler-  *)
(* runtime) and its planner (typed-planner-runtime).                       *)
(***************************************************************************)
EXTENDS WorkContract

JobType == "social_media_static_post"
CapsuleId == "graphic-designer"

Artifacts == {"approved_logo", "brand_profile", "approved_copy"}
Texts == Named({"contract_id", "created_at", "original_text", "language"})
Optional == Named({"requester_id", "visual_tone", "required_application_version"})
Measures == Named({"canvas_width_px", "canvas_height_px", "color_profile",
                         "logo_clear_space_px", "minimum_text_contrast_milli"})
Fields == FieldsOf(Artifacts) \cup Texts \cup Optional \cup Measures

validate_capsule(capsule) == capsule.capsule_id = CapsuleId /\ capsule.version # ""

\* Twice the clear space reaches the shortest edge of the canvas; only known
\* once all three are.
ClearSpaceTooWide(intent) ==
    /\ intent[<<"logo_clear_space_px">>] = "odd"
    /\ Present(intent, Named({"canvas_width_px", "canvas_height_px"}))

validate_artifact(intent, a) == ArtifactsWellFormed(intent, {a})

validate_present_values(intent) ==
    /\ WellFormed(intent, Texts \cup Optional \cup Measures)
    /\ \A a \in Artifacts : validate_artifact(intent, a)
    /\ ~ ClearSpaceTooWide(intent)

append_artifact_requests(intent) == Missing(intent, FieldsOf(Artifacts))

\* Mutant: the contrast threshold is not asked for.
missing_resolution_requests_Quiet(intent) ==
    append_artifact_requests(intent)
        \cup Missing(intent, Texts \cup (Measures \ Named({"minimum_text_contrast_milli"})))

missing_resolution_requests(intent) ==
    append_artifact_requests(intent) \cup Missing(intent, Texts \cup Measures)

Inputs == <<input("approved_logo"), input("brand_profile"), input("approved_copy")>>

Outputs == <<output("editable_master", "editable_master", "master.design",
                    "application/x-ergaxiom-design-document"),
             output("delivery_raster", "delivery_raster", "social-post.png",
                    "image/png"),
             output("evidence_bundle", "evidence_bundle", "evidence.json",
                    "application/json")>>

Constraints ==
    <<constraint("canvas_width"), constraint("canvas_height"),
      constraint("color_profile"), constraint("logo_aspect_ratio"),
      constraint("logo_clear_space"), constraint("text_within_safe_area"),
      constraint("minimum_text_contrast"), constraint("export_media_type")>>

Permissions ==
    <<permission("filesystem", "inputs", "read", "immutable"),
      permission("filesystem", "outputs", "write", "no-overwrite"),
      permission("design-editor", "isolated-workspace", "control", "no-network")>>

proof_obligations ==
    LET image == {"decoded_image_metadata"}
        measured == {"measurement_record"}
        geometry == {"document_geometry_snapshot"} \cup measured
        one(c, v, evidence) == obligation(c, <<v>>, "independent", evidence)
    IN  <<one("canvas_width", "raster.dimensions", image \cup measured),
          one("canvas_height", "raster.dimensions", image \cup measured),
          one("color_profile", "raster.icc_profile",
              image \cup {"embedded_profile_digest"}),
          one("logo_aspect_ratio", "document.logo_geometry", geometry),
          one("logo_clear_space", "document.logo_geometry", geometry),
          one("text_within_safe_area", "document.text_bounds",
              measured \cup {"text_bounds_snapshot", "safe_area_geometry"}),
          obligation("minimum_text_contrast",
              <<"raster.text_contrast.relative_luminance",
                "raster.text_contrast.render_sampling">>, "diverse",
              {"contrast_measurements", "sample_coordinates", "render_digest"}),
          one("export_media_type", "raster.media_type", image \cup {"magic_bytes"})>>

\* The inputs, the outputs and the rest of the sealed contract.
build_contract(intent, capsule) ==
    [schema_version |-> ContractSchema, id |-> "contract",
     capsule_id |-> CapsuleId, capsule_version |-> capsule.version,
     job_type |-> JobType, inputs |-> Inputs, outputs |-> Outputs,
     hard |-> Constraints, unknowns |-> 0, permissions |-> Permissions,
     obligations |-> proof_obligations, acceptance |-> acceptance]

\* A field that is still absent when the contract is built is an error.
BuildSucceeds(intent) == Present(intent, Fields \ Optional)

compile_static_social_post_intent(intent, capsule) ==
    CompileOutcome(validate_capsule(capsule) /\ validate_present_values(intent),
                   missing_resolution_requests(intent), BuildSucceeds(intent),
                   build_contract(intent, capsule), capsule)

-----------------------------------------------------------------------------
(* The planner *)

RequiredOperators == <<"design.create_canvas", "design.place_asset",
                       "design.compose_text", "design.export_raster">>

validate_identity_values(identity) == WellFormed(identity, IdentityFields)
missing_identity_requests(identity) == Missing(identity, IdentityFields)

validate_contract_profile(contract) == contract.schema_version = ContractSchema

validate_capsule_profile(capsule) ==
    /\ capsule.capsule_id = CapsuleId /\ capsule.version # ""
    /\ AllowsExactly(capsule, JobType, RequiredOperators)

AdmittedInputs ==
    {<<"approved_copy", "approved_copy">>, <<"approved_logo", "approved_logo">>,
     <<"brand_profile", "brand_profile">>}

\* Mutant: the planner knows the delivery under another name.
AdmittedOutputs_Renamed ==
    {<<"delivery_raster", "delivery_raster", "delivery.png", "image/png">>,
     <<"editable_master", "editable_master", "master.design",
       "application/x-ergaxiom-design-document">>,
     <<"evidence_bundle", "evidence_bundle", "evidence.json", "application/json">>}

AdmittedOutputs ==
    {<<"delivery_raster", "delivery_raster", "social-post.png", "image/png">>,
     <<"editable_master", "editable_master", "master.design",
       "application/x-ergaxiom-design-document">>,
     <<"evidence_bundle", "evidence_bundle", "evidence.json", "application/json">>}

AdmittedPermissions ==
    {permission("filesystem", "inputs", "read", "immutable"),
     permission("filesystem", "outputs", "write", "no-overwrite"),
     permission("design-editor", "isolated-workspace", "control", "no-network")}

validate_input_profile(inputs) == InputsAdmitted(inputs, AdmittedInputs)
validate_output_profile(outputs) == OutputsAdmitted(outputs, AdmittedOutputs)
validate_permission_profile(permissions) ==
    Unique(permissions) /\ Range(permissions) = AdmittedPermissions

resolve_operator_versions(capsule) == OperatorsResolve(capsule, RequiredOperators)

capability_requirements ==
    <<capability("canvas", "design-editor", "isolated-workspace", "control"),
      capability("logo", "filesystem", "inputs", "read"),
      capability("text", "design-editor", "isolated-workspace", "control"),
      capability("export", "filesystem", "outputs", "write")>>

PlanSteps(capsule) ==
    LET v(i) == VersionOf(capsule, RequiredOperators[i])
        op(i) == RequiredOperators[i]
    IN  <<step("canvas", 0, op(1), v(1), << >>, <<"brand_profile">>,
               <<"editable_master">>),
          step("logo", 1, op(2), v(2), <<"canvas">>,
               <<"editable_master", "approved_logo">>, <<"editable_master">>),
          step("text", 2, op(3), v(3), <<"logo">>,
               <<"editable_master", "approved_copy">>, <<"editable_master">>),
          step("export", 3, op(4), v(4), <<"text">>, <<"editable_master">>,
               <<"delivery_raster">>)>>

build_plan(seal, capsule) ==
    planned(seal, capsule, PlanSteps(capsule), capability_requirements)

ProfileOK(contract, capsule) ==
    /\ contract.job_type = JobType
    /\ validate_contract_profile(contract) /\ validate_capsule_profile(capsule)
    /\ validate_input_profile(contract.inputs)
    /\ validate_output_profile(contract.outputs)
    /\ validate_permission_profile(contract.permissions)
    /\ resolve_operator_versions(capsule)

synthesize_static_social_post_plan(identity, contract, capsule) ==
    PlanOutcome(validate_identity_values(identity), missing_identity_requests(identity),
                contract, capsule, ProfileOK(contract, capsule),
                build_plan(Seal(contract, capsule), capsule))
=============================================================================
