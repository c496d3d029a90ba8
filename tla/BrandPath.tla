------------------------------ MODULE BrandPath ------------------------------
(***************************************************************************)
(* The certified path of brand_compliant_image_export: a source SVG is     *)
(* judged against the brand manifest, exported through Inkscape, given the *)
(* sRGB chunk, validated again, signed and certified                       *)
(* (brand-compliant-export-certified-path-runtime).                        *)
(*                                                                         *)
(* An SVG holds the sequence of its parser events.  An element event has   *)
(* its attributes as a record; `exact` says that they are the ones the     *)
(* profile lists for that element, each parsed.  A text is a sequence of   *)
(* pieces, where "&" stands for a character that has to be escaped.  A     *)
(* brand manifest gives a box and an identity to each of the elements; the *)
(* attributes that are only compared for equality are one `style`.         *)
(***************************************************************************)
EXTENDS Attestation, PngFile

MAX_CANVAS_EDGE == 16384

Event(kind, name, of) == [kind |-> kind, name |-> name, of |-> of]
Start(name, of) == Event("start", name, of)
Empty(name, of) == Event("empty", name, of)
End(name) == Event("end", name, [exact |-> TRUE])
Text(piece) == Event("text", piece, [exact |-> TRUE])
Reference == Event("reference", "", [exact |-> TRUE])

clear_space_satisfied(m) ==
    LET b == m.logo.box IN
    /\ b[1] >= m.clear_space /\ b[2] >= m.clear_space
    /\ b[1] + b[3] + m.clear_space <= m.canvas[1]
    /\ b[2] + b[4] + m.clear_space <= m.canvas[2]

validate_manifest(m) ==
    /\ m.named
    /\ \A i \in 1 .. 2 : m.canvas[i] \in 1 .. MAX_CANVAS_EDGE
    /\ m.logo.box[3] > 0 /\ m.logo.box[4] > 0
    /\ m.palette # {}
    /\ m.background.fill \in m.palette /\ m.typography.fill \in m.palette
    /\ clear_space_satisfied(m)

(* A piece that needs escaping is written as a character reference.        *)
xml_escape(piece) == IF piece = "&" THEN Reference ELSE Text(piece)

render_restricted_brand_svg(m, logo) ==
    [events |->
    <<Start("svg", [exact |-> TRUE, canvas |-> m.canvas, view_box |-> m.canvas]),
      Empty("rect", [exact |-> TRUE, id |-> m.background.id, style |-> "",
                     box |-> <<0, 0>> \o m.canvas, fill |-> m.background.fill]),
      Empty("image", [exact |-> TRUE, id |-> m.logo.id, box |-> m.logo.box, png |-> logo]),
      Start("text", [exact |-> TRUE, id |-> m.typography.id, fill |-> m.typography.fill,
                     style |-> m.typography.style])>>
    \o [i \in DOMAIN m.typography.copy |-> xml_escape(m.typography.copy[i])]
    \o <<End("text"), End("svg")>>]

-----------------------------------------------------------------------------
(* The parser: which events it takes at which depth, and what it keeps. *)

NotSeen == << >>
Parser == [ok |-> TRUE, depth |-> 0, root |-> NotSeen, background |-> NotSeen,
           logo |-> NotSeen, typography |-> NotSeen, open |-> NotSeen, segments |-> << >>]

Fail(p) == [p EXCEPT !.ok = FALSE]

start_element(p, e) ==
    CASE ~ e.of.exact -> Fail(p)
      [] e.name = "svg" /\ p.depth = 0 /\ p.root = NotSeen ->
            [p EXCEPT !.root = <<e.of>>, !.depth = 1]
      [] /\ e.name = "text" /\ p.depth = 1
         /\ p.open = NotSeen /\ p.typography = NotSeen ->
            [p EXCEPT !.open = <<e.of>>, !.depth = 2]
      [] OTHER -> Fail(p)

parse_background(p, of) ==
    IF of.exact /\ p.background = NotSeen
      THEN [p EXCEPT !.background = <<of>>] ELSE Fail(p)

(* The embedded logo has to start like a PNG; what it holds is compared    *)
(* with the approved logo later.                                           *)
parse_logo(p, of) ==
    IF of.exact /\ p.logo = NotSeen /\ of.png.signature
      THEN [p EXCEPT !.logo = <<of>>] ELSE Fail(p)

empty_element(p, e) ==
    CASE p.depth = 1 /\ e.name = "rect" -> parse_background(p, e.of)
      [] p.depth = 1 /\ e.name = "image" -> parse_logo(p, e.of)
      [] OTHER -> Fail(p)

text_event(p, e) ==
    CASE p.open # NotSeen -> [p EXCEPT !.segments = Append(@, e.name)]
      [] p.open = NotSeen /\ e.name = " " -> p
      [] OTHER -> Fail(p)

(* The text of the element is its one segment.                             *)
parse_typography(p) ==
    IF Len(p.segments) = 1
      THEN [p EXCEPT !.typography = <<p.open[1], p.segments>>, !.open = NotSeen,
                     !.segments = << >>, !.depth = @ - 1]
      ELSE Fail(p)

end_element(p, e) ==
    CASE p.depth = 0 -> Fail(p)
      [] e.name = "text" /\ p.depth = 2 -> parse_typography(p)
      [] e.name = "svg" /\ p.depth = 1 -> [p EXCEPT !.depth = 0]
      [] OTHER -> Fail(p)

(* Declarations come before the root.  Document types, processing          *)
(* instructions, character data sections, comments and references are      *)
(* refused wherever they stand.                                            *)
parse_event(p, e) ==
    CASE ~ p.ok -> p
      [] p.ok /\ e.kind = "declaration" ->
            IF p.root = NotSeen /\ p.depth = 0 THEN p ELSE Fail(p)
      [] p.ok /\ e.kind = "start" -> start_element(p, e)
      [] p.ok /\ e.kind = "empty" -> empty_element(p, e)
      [] p.ok /\ e.kind = "text" -> text_event(p, e)
      [] p.ok /\ e.kind = "end" -> end_element(p, e)
      [] OTHER -> Fail(p)

parse_svg(source) ==
    LET after[i \in 0 .. Len(source.events)] ==
            IF i = 0 THEN Parser ELSE parse_event(after[i - 1], source.events[i])
        p == after[Len(source.events)]
    IN  IF /\ p.ok /\ p.depth = 0
           /\ \A part \in {p.root, p.background, p.logo, p.typography} : part # NotSeen
        THEN p ELSE Fail(p)

SourceReport(source, logo, m, p) ==
    LET root == p.root[1]
        background == p.background[1]
        image == p.logo[1]
        text == p.typography[1]
    IN  [source |-> source, manifest |-> m, logo |-> logo,
         restricted_svg_profile |-> /\ background.id = m.background.id
                                    /\ background.box = <<0, 0>> \o m.canvas
                                    /\ background.fill = m.background.fill,
         canvas_dimensions_match |-> root.canvas = m.canvas /\ root.view_box = m.canvas,
         palette_violation_count |->
             Cardinality({background.fill, text.fill} \ m.palette),
         logo_digest_matches |-> logo = m.logo.approved /\ image.png = logo,
         logo_geometry_matches |-> image.id = m.logo.id /\ image.box = m.logo.box,
         logo_clear_space_satisfied |-> clear_space_satisfied(m),
         typography_matches |-> /\ text.id = m.typography.id
                                /\ text.style = m.typography.style
                                /\ text.fill = m.typography.fill,
         approved_copy_matches |-> p.typography[2] = m.typography.copy]

Reported(source, logo, m, p) ==
    IF p.ok THEN [ok |-> TRUE, report |-> SourceReport(source, logo, m, p)] ELSE Refused

validate_brand_source(source, logo, m) ==
    IF validate_manifest(m) THEN Reported(source, logo, m, parse_svg(source)) ELSE Refused

SourceAccepted(r) ==
    /\ r.restricted_svg_profile /\ r.canvas_dimensions_match
    /\ r.palette_violation_count = 0
    /\ r.logo_digest_matches /\ r.logo_geometry_matches /\ r.logo_clear_space_satisfied
    /\ r.typography_matches /\ r.approved_copy_matches

-----------------------------------------------------------------------------
(* Execution. `files` are the files of the workspace, `adapter` what the   *)
(* design adapter reports and what the file system does: whether the       *)
(* source and the delivery are written, and the files there are (`left`)   *)
(* when a step fails.                                                      *)

validate_request(request) == request.id # "" /\ request.digests_well_formed

ExportPaths(id) == {<<id, p>> : p \in {"source", "editable", "raw", "delivery"}}

\* A PNG of the canvas size that the delivery can be made of.
DeliveryProfile(png, m) ==
    LET report == inspect_png_bytes(png)
    IN  /\ report.ok
        /\ <<report.width, report.height>> = m.canvas
        /\ report.bit_depth = 8 /\ report.color_type \in {Truecolor, TruecolorAlpha}

AdapterVouches(adapter, request) ==
    /\ adapter.ok /\ adapter.verified /\ adapter.source_immutable
    /\ adapter.receipts = 1 /\ adapter.exports = 1
    /\ adapter.source_after = request.source

\* Nothing is removed when a step fails: the files written so far stay, and
\* the request id with them.  `judged` is the report on the source,
\* `normalized` the export with its colour profile.
Carried(request, files, adapter, judged, normalized) ==
    LET started == /\ validate_request(request)
                   /\ request.source = request.expected_source
                   /\ request.manifest = request.expected_manifest
                   /\ request.logo = request.expected_logo
                   /\ judged.ok /\ SourceAccepted(judged.report)
                   /\ ExportPaths(request.id) \cap files = {}
        exported == /\ adapter.source_written
                    /\ AdapterVouches(adapter, request)
                    /\ DeliveryProfile(adapter.export, request.manifest)
                    /\ normalized.ok /\ adapter.delivery_written
        record == [source |-> request.source, manifest |-> request.manifest,
                   logo |-> request.logo, source_validation |-> judged.report,
                   editable |-> adapter.editable, raw |-> adapter.export,
                   delivery |-> normalized.png, application |-> adapter.application,
                   source_immutable |-> TRUE, verified |-> TRUE, intact |-> TRUE]
    IN  IF ~ started THEN [ok |-> FALSE, files |-> files]
        ELSE IF exported
        THEN [ok |-> TRUE, files |-> files \cup ExportPaths(request.id), record |-> record]
        ELSE [ok |-> FALSE, files |-> files \cup {<<request.id, p>> : p \in adapter.left}]

execute_brand_export(request, files, adapter) ==
    Carried(request, files, adapter,
            validate_brand_source(request.source, request.logo, request.manifest),
            normalize_brand_png_srgb(adapter.export))

validate_execution_record(record) ==
    record.verified /\ record.source_immutable /\ record.intact

RecordBinds(record, r) ==
    /\ record.source = r.source /\ record.manifest = r.manifest /\ record.logo = r.logo
    /\ record.editable = r.editable /\ record.raw = r.raw /\ record.delivery = r.delivery

\* The normalisation is done again and has to give the delivered file.
verify_brand_png_normalization(raw, delivery) ==
    normalize_brand_png_srgb(raw) = [ok |-> TRUE, png |-> delivery]

validate_brand_export(r, record) ==
    LET report ==
            [source |-> record.source_validation, editable |-> r.editable, raw |-> r.raw,
             delivery |-> r.delivery,
             output_media_type_png |-> DeliveryProfile(r.delivery, r.manifest),
             output_srgb |-> inspect_png_bytes(r.delivery).color_profile[1] = "srgb",
             source_immutable |-> record.source_immutable,
             inkscape_export_verified |->
                 record.verified /\ record.application = "org.inkscape.Inkscape"]
    IN  IF /\ validate_execution_record(record)
           /\ RecordBinds(record, r)
           /\ validate_brand_source(r.source, r.logo, r.manifest) =
                 [ok |-> TRUE, report |-> record.source_validation]
           /\ verify_brand_png_normalization(r.raw, r.delivery)
        THEN [ok |-> TRUE, report |-> report]
        ELSE Refused

Accepts(r) ==
    /\ SourceAccepted(r.source)
    /\ r.output_media_type_png /\ r.output_srgb
    /\ r.source_immutable /\ r.inkscape_export_verified

brand_export_failure_map(r) ==
    LET s == r.source
        failure(code, raised) == IF raised THEN {code} ELSE {}
    IN  failure("RestrictedSvgProfile", ~ s.restricted_svg_profile)
        \cup failure("CanvasDimensions", ~ s.canvas_dimensions_match)
        \cup failure("PaletteAllowlist", s.palette_violation_count # 0)
        \cup failure("LogoIdentity", ~ s.logo_digest_matches)
        \cup failure("LogoGeometry", ~ s.logo_geometry_matches)
        \cup failure("LogoClearSpace", ~ s.logo_clear_space_satisfied)
        \cup failure("Typography", ~ s.typography_matches)
        \cup failure("ApprovedCopy", ~ s.approved_copy_matches)
        \cup failure("OutputMediaType", ~ r.output_media_type_png)
        \cup failure("OutputColorProfile", ~ r.output_srgb)
        \cup failure("SourceImmutability", ~ r.source_immutable)
        \cup failure("InkscapeIntegration", ~ r.inkscape_export_verified)

-----------------------------------------------------------------------------
(* Certification *)

verify_brand_export_execution_record(package, trusted) ==
    validate_execution_record(package.record) /\ verify_value(package, trusted)

validate_bindings(request, report) ==
    /\ request.contract.job_type = "brand_compliant_image_export"
    /\ PlanBound(request.plan, request.contract, request.capsule)
    /\ Accepts(report)
    /\ RecordBinds(request.execution.record, request)
    /\ report.editable = request.editable /\ report.delivery = request.delivery

proof_results ==
    LET by(claim, subject, who) == proof(claim, subject, who, {"validation"})
    IN  {by("canvas_width", "delivery_raster", "brand.canvas.dimensions"),
         by("canvas_height", "delivery_raster", "brand.canvas.dimensions"),
         by("restricted_svg_profile", "source_svg", "brand.svg.structure"),
         by("palette_violations", "source_svg", "brand.palette.allowlist"),
         by("logo_digest_match", "source_svg", "brand.logo.identity"),
         by("logo_geometry_match", "source_svg", "brand.logo.geometry"),
         by("logo_clear_space", "source_svg", "brand.logo.clear_space"),
         by("typography_match", "source_svg", "brand.typography"),
         by("approved_copy_match", "source_svg", "brand.copy.identity"),
         by("output_media_type", "delivery_raster", "brand.png.structure"),
         by("color_profile", "delivery_raster", "brand.png.structure"),
         by("source_immutable", "source_svg", "brand.source.immutability"),
         by("inkscape_export_verified", "delivery_raster", "brand.inkscape.integration")}

certify_brand_export(request, trusted) ==
    LET artifacts == {artifact("source_svg", "input", request.source),
                      artifact("brand_manifest", "input", request.manifest),
                      artifact("approved_logo", "input", request.logo),
                      artifact("editable_master", "output", request.editable),
                      artifact("delivery_raster", "output", request.delivery),
                      artifact("raw_inkscape_export", "evidence", request.raw),
                      artifact("execution", "evidence", request.execution),
                      artifact("validation", "evidence", request.report)}
    IN  IF /\ request.named
           /\ verify_brand_export_execution_record(request.execution, trusted)
           /\ validate_brand_export(request, request.execution.record) =
                 [ok |-> TRUE, report |-> request.report]
           /\ validate_bindings(request, request.report)
        THEN Attested(request, artifacts, proof_results)
        ELSE Refused
=============================================================================
