----------------------------- MODULE CleanupPath -----------------------------
(***************************************************************************)
(* The certified path of image_background_cleanup: the binary mask is      *)
(* applied to the source, the result is validated by an independent        *)
(* decoder, probed through Inkscape, signed and certified                  *)
(* (background-cleanup-certified-path-runtime).                            *)
(***************************************************************************)
EXTENDS Attestation, PngFile

Pixel(bytes, i) == SubSeq(bytes, 4 * i - 3, 4 * i)
Pixels(bytes) == 1 .. Len(bytes) \div 4
AlphaAt(bytes, i) == bytes[4 * i]

\* The pixels a mask marks with an alpha value.
Marked(mask, alpha) == {i \in Pixels(mask) : AlphaAt(mask, i) = alpha}

validate_request(request) == request.id # "" /\ request.width > 0 /\ request.height > 0

\* Mutant: pixels outside the mask are blanked altogether.
Applied_Blank(source, mask) ==
    [k \in DOMAIN source |->
        IF mask[4 * ((k + 3) \div 4)] = 0 THEN 0 ELSE source[k]]

\* The source where the mask is opaque, the source with alpha 0 elsewhere.
Applied(source, mask) ==
    [k \in DOMAIN source |->
        IF k % 4 = 0 /\ mask[k] = 0 THEN 0 ELSE source[k]]

\* An execution, given what the restricted decoder makes of the two files.
Carried(request, source, mask) ==
    LET cleaned == encode_restricted_srgb_rgba_png(
                       request.width, request.height, Applied(source.pixels, mask.pixels))
    IN  IF /\ validate_request(request)
           /\ request.source = request.expected_source
           /\ request.mask = request.expected_mask
           /\ source.ok /\ mask.ok
           /\ source.has_srgb /\ mask.has_srgb
           /\ source.width = request.width /\ source.height = request.height
           /\ mask.width = source.width /\ mask.height = source.height
           /\ Marked(mask.pixels, 0) \cup Marked(mask.pixels, 255) = Pixels(mask.pixels)
           /\ Marked(mask.pixels, 255) # {} /\ Marked(mask.pixels, 0) # {}
        THEN [ok |-> TRUE, cleaned |-> cleaned,
              record |-> [source |-> request.source, mask |-> request.mask,
                          output |-> cleaned, width |-> request.width,
                          height |-> request.height, source_immutable |-> TRUE,
                          verified |-> TRUE, intact |-> TRUE]]
        ELSE Refused

execute_background_cleanup(request) ==
    Carried(request, decode_restricted_rgba_png(request.source),
            decode_restricted_rgba_png(request.mask))

RecordBinds(record, source, mask, cleaned) ==
    /\ record.source = source /\ record.mask = mask /\ record.output = cleaned
    /\ record.intact

\* The independent validator reads the three files with the full decoder:
\* `source`, `mask` and `result` are the decoded files.
Compared(record, source, mask, result, structure) ==
    LET foreground == Marked(mask.rgba8, 255)
        background == Marked(mask.rgba8, 0)
        report ==
            [source |-> record.source, mask |-> record.mask, output |-> record.output,
             width |-> result.width, height |-> result.height,
             output_media_type_png |-> /\ structure.bit_depth = 8
                                       /\ structure.color_type = TruecolorAlpha
                                       /\ structure.interlace_method = 0,
             output_srgb |-> structure.color_profile[1] = "srgb",
             mask_dimensions_match |->
                 /\ <<source.width, source.height>> = <<mask.width, mask.height>>
                 /\ <<source.width, source.height>> = <<result.width, result.height>>
                 /\ <<result.width, result.height>> = <<record.width, record.height>>,
             mask_is_binary |-> foreground \cup background = Pixels(mask.rgba8),
             foreground |-> Cardinality(foreground),
             background |-> Cardinality(background),
             background_alpha_violations |->
                 Cardinality({i \in background : AlphaAt(result.rgba8, i) # 0}),
             foreground_rgba_violations |->
                 Cardinality({i \in foreground :
                                 Pixel(result.rgba8, i) # Pixel(source.rgba8, i)}),
             source_immutable |-> record.source_immutable /\ record.verified]
    IN  IF /\ source.ok /\ mask.ok /\ result.ok
           /\ Len(source.rgba8) = Len(mask.rgba8) /\ Len(source.rgba8) = Len(result.rgba8)
        THEN [ok |-> TRUE, report |-> report]
        ELSE Refused

validate_background_cleanup(source_png, mask_png, cleaned_png, record) ==
    IF RecordBinds(record, source_png, mask_png, cleaned_png)
    THEN Compared(record, decode_png_bytes(source_png), decode_png_bytes(mask_png),
                  decode_png_bytes(cleaned_png), inspect_png_bytes(cleaned_png))
    ELSE Refused

Accepts(r) ==
    /\ r.output_media_type_png /\ r.output_srgb
    /\ r.mask_dimensions_match /\ r.mask_is_binary
    /\ r.foreground > 0 /\ r.background > 0
    /\ r.background_alpha_violations = 0 /\ r.foreground_rgba_violations = 0
    /\ r.source_immutable

background_cleanup_failure_map(r, integration_verified) ==
    {f \in {"OutputMediaType", "OutputColorProfile", "MaskDimensions", "MaskBinary",
            "MaskCoverage", "BackgroundAlpha", "ForegroundPreservation",
            "SourceImmutability", "InkscapeIntegration"} :
        CASE f = "OutputMediaType" -> ~ r.output_media_type_png
          [] f = "OutputColorProfile" -> ~ r.output_srgb
          [] f = "MaskDimensions" -> ~ r.mask_dimensions_match
          [] f = "MaskBinary" -> ~ r.mask_is_binary
          [] f = "MaskCoverage" -> r.foreground = 0 \/ r.background = 0
          [] f = "BackgroundAlpha" -> r.background_alpha_violations # 0
          [] f = "ForegroundPreservation" -> r.foreground_rgba_violations # 0
          [] f = "SourceImmutability" -> ~ r.source_immutable
          [] f = "InkscapeIntegration" -> ~ integration_verified}

ProbePaths(id) == {<<id, p>> : p \in {"source", "cleaned", "editable", "probe"}}

\* The probe places the cleaned raster in an SVG of its size and exports it.
\* `files` are the files of the workspace, `adapter` what the design adapter
\* reports, the PNG it exports, whether the two files it is given are
\* written, and the files there are (`left`) when a step fails: none is
\* removed.
execute_inkscape_cleanup_probe(id, files, adapter, cleaned, width, height) ==
    LET probe == inspect_png_bytes(adapter.export)
        started == id # "" /\ width > 0 /\ height > 0 /\ ProbePaths(id) \cap files = {}
    IN  IF ~ started THEN [ok |-> FALSE, files |-> files]
        ELSE IF
           /\ adapter.source_written
           /\ adapter.ok /\ adapter.verified /\ adapter.source_immutable
           /\ adapter.exports = 1
           /\ probe.ok
           /\ probe.width = width /\ probe.height = height
           /\ probe.bit_depth = 8
           /\ probe.color_type \in {Truecolor, TruecolorAlpha}
        THEN [ok |-> TRUE, files |-> files \cup ProbePaths(id),
              report |-> [cleaned |-> cleaned, probe |-> adapter.export,
                          width |-> probe.width, height |-> probe.height,
                          verified |-> TRUE, intact |-> TRUE]]
        ELSE [ok |-> FALSE, files |-> files \cup {<<id, p>> : p \in adapter.left}]

validate_execution_record(record) ==
    record.verified /\ record.source_immutable /\ record.intact
validate_integration_report(report) == report.verified /\ report.intact

verify_background_cleanup_execution_record(package, trusted) ==
    validate_execution_record(package.record) /\ verify_value(package, trusted)
verify_inkscape_cleanup_integration_report(package, trusted) ==
    validate_integration_report(package.record) /\ verify_value(package, trusted)

\* Mutant: the probe is not tied to the cleaned raster.
validate_bindings_AnyProbe(request, record, report, probe) ==
    /\ request.contract.job_type = "image_background_cleanup"
    /\ PlanBound(request.plan, request.contract, request.capsule)
    /\ Accepts(report)
    /\ RecordBinds(record, request.source, request.mask, request.cleaned)
    /\ probe.width = report.width /\ probe.height = report.height

validate_bindings(request, record, report, probe) ==
    /\ request.contract.job_type = "image_background_cleanup"
    /\ PlanBound(request.plan, request.contract, request.capsule)
    /\ Accepts(report)
    /\ RecordBinds(record, request.source, request.mask, request.cleaned)
    /\ report.source = request.source /\ report.mask = request.mask
    /\ report.output = request.cleaned
    /\ probe.cleaned = request.cleaned
    /\ probe.width = report.width /\ probe.height = report.height

proof_results ==
    LET by(claim, subject, who) == proof(claim, subject, who, {"validation"})
    IN  {by("cleaned_width", "cleaned_raster", "cleanup.png.structure"),
         by("cleaned_height", "cleaned_raster", "cleanup.png.structure"),
         by("mask_dimensions_match", "approved_cleanup_mask", "cleanup.mask.dimensions"),
         by("mask_is_binary", "approved_cleanup_mask", "cleanup.mask.binary"),
         by("mask_foreground_pixels", "approved_cleanup_mask", "cleanup.mask.binary"),
         by("mask_background_pixels", "approved_cleanup_mask", "cleanup.mask.binary"),
         by("background_alpha_violations", "cleaned_raster", "cleanup.alpha.background"),
         by("foreground_rgba_violations", "cleaned_raster",
            "cleanup.foreground.preservation"),
         by("output_media_type", "cleaned_raster", "cleanup.png.structure"),
         by("color_profile", "cleaned_raster", "cleanup.png.structure"),
         proof("source_immutable", "source_raster", "cleanup.source.immutability",
               {"execution", "validation"}),
         proof("inkscape_probe_verified", "integration_probe",
               "cleanup.inkscape.integration", {"integration"})}

certify_background_cleanup(request, trusted) ==
    LET record == request.execution.record
        probe == request.integration.record
        artifacts == {artifact("source_raster", "input", request.source),
                      artifact("approved_cleanup_mask", "input", request.mask),
                      artifact("cleaned_raster", "output", request.cleaned),
                      artifact("integration_probe", "output", probe.probe),
                      artifact("execution", "evidence", request.execution),
                      artifact("validation", "evidence", request.report),
                      artifact("integration", "evidence", request.integration)}
    IN  IF /\ request.named
           /\ verify_background_cleanup_execution_record(request.execution, trusted)
           /\ verify_inkscape_cleanup_integration_report(request.integration, trusted)
           /\ validate_background_cleanup(request.source, request.mask, request.cleaned, record)
                 = [ok |-> TRUE, report |-> request.report]
           /\ validate_bindings(request, record, request.report, probe)
        THEN Attested(request, artifacts, proof_results)
        ELSE Refused
=============================================================================
