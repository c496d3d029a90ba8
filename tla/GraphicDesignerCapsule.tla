----------------------- MODULE GraphicDesignerCapsule -----------------------
(***************************************************************************)
(* The Profession Capsule the repository ships                             *)
(* (professions/graphic-designer/profession.json), as far as the contract  *)
(* compiler, the plan compiler and the planners read it.                   *)
(***************************************************************************)
EXTENDS WorkContract

job(id, constraints, operators) ==
    [id |-> id, required_constraints |-> constraints, operator_ids |-> operators,
     minimum |-> 3]

validator(id, claims, evidence) ==
    [id |-> id, version |-> "0.1.0", independence |-> "independent",
     claims |-> claims, evidence_types |-> evidence]

JobTypes ==
    <<job("social_media_static_post",
          {"canvas_width", "canvas_height", "color_profile", "logo_aspect_ratio",
           "logo_clear_space", "text_within_safe_area", "minimum_text_contrast",
           "export_media_type"},
          <<"design.create_canvas", "design.place_asset", "design.compose_text",
            "design.export_raster">>),
      job("image_background_cleanup",
          {"cleaned_width", "cleaned_height", "mask_dimensions_match",
           "mask_is_binary", "mask_foreground_pixels", "mask_background_pixels",
           "background_alpha_violations", "foreground_rgba_violations",
           "output_media_type", "color_profile", "source_immutable",
           "inkscape_probe_verified"},
          <<"cleanup.apply_binary_mask", "cleanup.inkscape_probe",
            "cleanup.certify_delivery">>),
      job("brand_compliant_image_export",
          {"canvas_width", "canvas_height", "restricted_svg_profile",
           "palette_violations", "logo_digest_match", "logo_geometry_match",
           "logo_clear_space", "typography_match", "approved_copy_match",
           "output_media_type", "color_profile", "source_immutable",
           "inkscape_export_verified"},
          <<"brand.validate_source", "brand.export_with_inkscape",
            "brand.certify_delivery">>),
      job("print_ready_poster_preflight",
          {"restricted_svg_profile", "canvas_dimensions_match", "bleed_coverage",
           "safe_area_satisfied", "palette_violations", "vector_only",
           "fonts_outlined", "page_count", "media_box_match", "trim_box_match",
           "bleed_box_match", "crop_box_match", "pdf_version",
           "allowed_color_spaces", "transparency_absent", "external_actions_absent",
           "source_immutable", "inkscape_export_verified"},
          <<"print.validate_source", "print.export_pdf_with_inkscape",
            "print.certify_preflight">>)>>

Validators ==
    <<validator("raster.dimensions", {"canvas_width", "canvas_height"},
          {"decoded_image_metadata", "measurement_record"}),
      validator("raster.media_type", {"export_media_type"},
          {"magic_bytes", "decoded_image_metadata"}),
      validator("document.logo_geometry",
          {"logo_aspect_ratio", "logo_clear_space"},
          {"document_geometry_snapshot", "measurement_record"}),
      validator("document.text_bounds", {"text_within_safe_area"},
          {"text_bounds_snapshot", "safe_area_geometry", "measurement_record"}),
      validator("raster.text_contrast.relative_luminance",
          {"minimum_text_contrast"},
          {"contrast_measurements", "declared_region_geometry", "render_digest"}),
      validator("raster.text_contrast.render_sampling", {"minimum_text_contrast"},
          {"contrast_measurements", "sample_coordinates", "render_digest"}),
      validator("raster.icc_profile", {"color_profile"},
          {"embedded_profile_digest", "decoded_image_metadata"}),
      validator("cleanup.png.structure",
          {"cleaned_width", "cleaned_height", "output_media_type", "color_profile"},
          {"decoded_image_metadata", "measurement_record", "magic_bytes",
           "png_chunk_evidence"}),
      validator("cleanup.mask.dimensions", {"mask_dimensions_match"},
          {"decoded_image_metadata", "dimension_comparison"}),
      validator("cleanup.mask.binary",
          {"mask_is_binary", "mask_foreground_pixels", "mask_background_pixels"},
          {"decoded_mask_pixels", "mask_histogram"}),
      validator("cleanup.alpha.background", {"background_alpha_violations"},
          {"decoded_output_pixels", "mask_bound_comparison"}),
      validator("cleanup.foreground.preservation", {"foreground_rgba_violations"},
          {"decoded_source_pixels", "decoded_output_pixels", "mask_bound_comparison"}),
      validator("cleanup.source.immutability", {"source_immutable"},
          {"pre_execution_digest", "post_execution_digest"}),
      validator("cleanup.inkscape.integration", {"inkscape_probe_verified"},
          {"application_identity", "adapter_receipt", "decoded_image_metadata"}),
      validator("brand.canvas.dimensions", {"canvas_width", "canvas_height"},
          {"parsed_svg_snapshot", "decoded_image_metadata"}),
      validator("brand.svg.structure", {"restricted_svg_profile"},
          {"parsed_svg_snapshot"}),
      validator("brand.palette.allowlist", {"palette_violations"},
          {"parsed_svg_snapshot", "color_allowlist_comparison"}),
      validator("brand.logo.identity", {"logo_digest_match"},
          {"embedded_asset_digest", "approved_asset_digest"}),
      validator("brand.logo.geometry", {"logo_geometry_match"},
          {"parsed_svg_geometry"}),
      validator("brand.logo.clear_space", {"logo_clear_space"},
          {"parsed_svg_geometry", "measurement_record"}),
      validator("brand.typography", {"typography_match"},
          {"parsed_svg_typography"}),
      validator("brand.copy.identity", {"approved_copy_match"},
          {"parsed_direct_text"}),
      validator("brand.png.structure", {"output_media_type", "color_profile"},
          {"decoded_image_metadata", "png_chunk_evidence", "idat_payload_digest"}),
      validator("brand.source.immutability", {"source_immutable"},
          {"pre_execution_digest", "post_execution_digest"}),
      validator("brand.inkscape.integration", {"inkscape_export_verified"},
          {"application_identity", "adapter_receipt", "signed_execution_record"}),
      validator("print.svg.structure", {"restricted_svg_profile"},
          {"parsed_svg_snapshot"}),
      validator("print.canvas.dimensions", {"canvas_dimensions_match"},
          {"parsed_svg_geometry"}),
      validator("print.bleed.coverage", {"bleed_coverage"},
          {"parsed_svg_geometry"}),
      validator("print.safe_area.geometry", {"safe_area_satisfied"},
          {"parsed_svg_geometry"}),
      validator("print.palette.allowlist", {"palette_violations"},
          {"parsed_svg_snapshot"}),
      validator("print.pdf.vector_only", {"vector_only"},
          {"parsed_pdf_resources"}),
      validator("print.pdf.fonts_outlined", {"fonts_outlined"},
          {"parsed_pdf_resources"}),
      validator("print.pdf.page", {"page_count"}, {"parsed_pdf_page_tree"}),
      validator("print.pdf.boxes",
          {"media_box_match", "trim_box_match", "bleed_box_match", "crop_box_match"},
          {"parsed_pdf_page_boxes"}),
      validator("print.pdf.version", {"pdf_version"}, {"parsed_pdf_header"}),
      validator("print.pdf.color_spaces", {"allowed_color_spaces"},
          {"decoded_pdf_content"}),
      validator("print.pdf.transparency", {"transparency_absent"},
          {"parsed_pdf_resources"}),
      validator("print.pdf.security", {"external_actions_absent"},
          {"parsed_pdf_catalog"}),
      validator("print.source.immutability", {"source_immutable"},
          {"pre_execution_digest", "post_execution_digest"}),
      validator("print.inkscape.integration", {"inkscape_export_verified"},
          {"application_identity", "adapter_receipt", "signed_execution_record"})>>

Operators ==
    LET at(id) == [id |-> id, version |-> "0.1.0"]
    IN  <<at("design.create_canvas"), at("design.place_asset"), at("design.compose_text"),
          at("design.export_raster"), at("inkscape.canvas.resize"),
          at("inkscape.layer.create"), at("inkscape.asset.place"),
          at("inkscape.text.create"), at("inkscape.color.set_fill"),
          at("inkscape.object.transform"), at("inkscape.object.align"),
          at("inkscape.object.distribute"), at("inkscape.document.save_svg"),
          at("inkscape.export.profiled"), at("cleanup.apply_binary_mask"),
          at("cleanup.inkscape_probe"), at("cleanup.certify_delivery"),
          at("brand.validate_source"), at("brand.export_with_inkscape"),
          at("brand.certify_delivery"), at("print.validate_source"),
          at("print.export_pdf_with_inkscape"), at("print.certify_preflight")>>

Shipped ==
    [schema_version |-> CapsuleSchema, capsule_id |-> "graphic-designer",
     version |-> "0.6.0", job_types |-> JobTypes, validators |-> Validators,
     operators |-> Operators,
     minimum_assurance_by_job_type |-> [j \in Ids(JobTypes) |-> 3]]
=============================================================================
