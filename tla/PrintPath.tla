------------------------------ MODULE PrintPath ------------------------------
(***************************************************************************)
(* The certified path of print_ready_poster_preflight: a source SVG is     *)
(* judged against the print specification, exported to PDF through         *)
(* Inkscape, given its page boxes, validated again, signed and certified   *)
(* (print-ready-poster-preflight-certified-path-runtime).                  *)
(*                                                                         *)
(* Lengths are thousandths of a millimetre or of a point, as in the code.  *)
(* An SVG holds its elements in document order and whether a document      *)
(* type or a reference occurs.  An element has a name, an id ("" for       *)
(* none), a fill, a box <<x, y, width, height>> (<< >> when it does not    *)
(* parse), the tokens of its path, and whether its attributes are allowed. *)
(* A PDF is a record of what the inspection reads; a number in it is an    *)
(* integer or a binary32 <<n, k>>, which is n / 2^k with n < 2^24.         *)
(***************************************************************************)
EXTENDS Attestation

Refused == [ok |-> FALSE]

\* Mutant: posters of twenty metres are certified.
MaxEdge_TwentyMetres == 20000000

\* The edge of the largest certified poster.
MaxEdge == 2000000

Total(spec) == [i \in 1 .. 2 |-> spec.trim[i] + 2 * spec.bleed]
Inset(spec) == spec.bleed + spec.safe_margin

validate_print_specification(spec) ==
    /\ spec.named
    /\ spec.trim[1] > 0 /\ spec.trim[2] > 0 /\ spec.bleed > 0 /\ spec.safe_margin > 0
    /\ spec.palette # << >> /\ spec.color_spaces # {}
    /\ \A i, j \in DOMAIN spec.palette : spec.palette[i] = spec.palette[j] => i = j
    /\ spec.color_spaces \subseteq {"DeviceRGB", "DeviceGray"}
    /\ spec.pdf_version = "1.5"
    /\ \A i \in 1 .. 2 : Total(spec)[i] <= MaxEdge /\ 2 * Inset(spec) < Total(spec)[i]

-----------------------------------------------------------------------------
(* The source *)

\* Path tokens: <<"M", 0>> is a command, <<"#", n>> a number.
Command(c) == <<c, 0>>
Number(n) == <<"#", n>>
IsNumber(t, i) == i \in DOMAIN t /\ t[i][1] = "#"

PathStart == [ok |-> TRUE, next |-> 1, command |-> "", at |-> <<0, 0>>, points |-> << >>]

\* Mutant: closing a subpath moves to the origin.
AfterClose_Origin(p) == <<0, 0>>

\* A closed subpath leaves the current point where it is.
AfterClose(p) == p.at

\* One turn of the loop: a command is read if one is there, and further
\* numbers repeat it.
path_step(p, t) ==
    LET reads == ~ IsNumber(t, p.next)
        c == IF reads THEN t[p.next][1] ELSE p.command
        i == IF reads THEN p.next + 1 ELSE p.next
        To(point, used) == [p EXCEPT !.command = c, !.at = point, !.next = i + used,
                                     !.points = Append(@, point)]
    IN  CASE reads /\ c = "Z" -> [p EXCEPT !.command = c, !.next = i, !.at = AfterClose(p)]
          [] c \in {"M", "L"} /\ IsNumber(t, i) /\ IsNumber(t, i + 1) ->
                To(<<t[i][2], t[i + 1][2]>>, 2)
          [] c = "H" /\ IsNumber(t, i) -> To(<<t[i][2], p.at[2]>>, 1)
          [] c = "V" /\ IsNumber(t, i) -> To(<<p.at[1], t[i][2]>>, 1)
          [] OTHER -> [p EXCEPT !.ok = FALSE]

Least(s) == CHOOSE x \in s : \A y \in s : x <= y
Greatest(s) == CHOOSE x \in s : \A y \in s : x >= y

BoundsOf(points) ==
    [i \in 1 .. 4 |-> IF i <= 2 THEN Least({p[i] : p \in points})
                      ELSE Greatest({p[i - 2] : p \in points})]

\* The bounds <<min x, min y, max x, max y>>, << >> when there are none.
simple_path_bounds(tokens) ==
    LET Turn(q) == IF q.ok /\ q.next <= Len(tokens) THEN path_step(q, tokens) ELSE q
        after[i \in 0 .. Len(tokens)] == IF i = 0 THEN PathStart ELSE Turn(after[i - 1])
        p == after[Len(tokens)]
    IN  IF p.ok /\ p.points # << >> THEN BoundsOf(Range(p.points)) ELSE << >>

rect_bounds(box) ==
    IF box = << >> THEN << >>
    ELSE IF box[3] <= 0 \/ box[4] <= 0 THEN << >>
    ELSE <<box[1], box[2], box[1] + box[3], box[2] + box[4]>>

inside_safe_area(b, spec) ==
    /\ b[1] >= Inset(spec) /\ b[2] >= Inset(spec)
    /\ b[3] <= Total(spec)[1] - Inset(spec) /\ b[4] <= Total(spec)[2] - Inset(spec)

Indices(svg, names) == {i \in DOMAIN svg.elements : svg.elements[i].name \in names}

\* Elements, attributes, identifiers and structure are those of the profile.
Restricted(svg, spec) ==
    LET e == svg.elements
        identified == Indices(svg, {"g", "rect", "path"})
    IN  /\ ~ svg.references
        /\ Cardinality(Indices(svg, {"svg"})) = 1
        /\ Indices(svg, {"svg", "g", "rect", "path"}) = DOMAIN e
        /\ \A i \in DOMAIN e : e[i].allowed
        /\ \A i \in identified : e[i].id # ""
        /\ \A i, j \in identified : e[i].id = e[j].id => i = j
        /\ \A i \in Indices(svg, {"rect"}) :
              e[i].id # spec.background => rect_bounds(e[i].box) # << >>

BoundsIn(svg) ==
    [i \in Indices(svg, {"rect", "path"}) |->
        IF svg.elements[i].name = "rect" THEN rect_bounds(svg.elements[i].box)
        ELSE simple_path_bounds(svg.elements[i].path)]

\* The last root and the last background count.
Inspected(svg, spec, bounds) ==
    LET e == svg.elements
        roots == Indices(svg, {"svg"})
        backgrounds == {i \in Indices(svg, {"rect"}) : e[i].id = spec.background}
        placed == {i \in DOMAIN bounds \ backgrounds : bounds[i] # << >>}
    IN  [source |-> svg, specification |-> spec,
         restricted_svg_profile |-> Restricted(svg, spec),
         canvas_dimensions_match |->
             roots # {} /\ e[Greatest(roots)].box = <<0, 0>> \o Total(spec),
         bleed_coverage |->
             /\ backgrounds # {}
             /\ bounds[Greatest(backgrounds)] = <<0, 0>> \o Total(spec),
         safe_area_satisfied |-> \A i \in placed : inside_safe_area(bounds[i], spec),
         palette_violation_count |->
             Cardinality({i \in DOMAIN bounds : e[i].fill \notin Range(spec.palette)}),
         raster_image_count |-> Cardinality(Indices(svg, {"image"})),
         live_text_count |-> Cardinality(Indices(svg, {"text"})),
         unsupported_path_count |->
             Cardinality({i \in Indices(svg, {"path"}) : bounds[i] = << >>})]

inspect_svg(svg, spec) == Inspected(svg, spec, BoundsIn(svg))

SourceAccepted(r) ==
    /\ r.restricted_svg_profile /\ r.canvas_dimensions_match
    /\ r.bleed_coverage /\ r.safe_area_satisfied
    /\ r.palette_violation_count = 0 /\ r.raster_image_count = 0
    /\ r.live_text_count = 0 /\ r.unsupported_path_count = 0

validate_print_source(svg, spec) ==
    IF validate_print_specification(spec)
      THEN [ok |-> TRUE, report |-> inspect_svg(svg, spec)] ELSE Refused

Element(name, id, fill, box, path) ==
    [name |-> name, id |-> id, fill |-> fill, box |-> box, path |-> path, allowed |-> TRUE]

\* A background, and a group with one outlined path along the safe area.
render_restricted_print_svg(spec) ==
    LET w == Total(spec)[1]
        h == Total(spec)[2]
        in == Inset(spec)
        N(x, y) == <<Number(x), Number(y)>>
    IN  [references |-> FALSE,
         elements |->
            <<Element("svg", "", "", <<0, 0, w, h>>, << >>),
              Element("rect", spec.background, spec.palette[1], <<0, 0, w, h>>, << >>),
              Element("g", "outlined-content", "", << >>, << >>),
              Element("path", "outlined-title",
                      spec.palette[IF Len(spec.palette) > 1 THEN 2 ELSE 1], << >>,
                      <<Command("M")>> \o N(in, in) \o <<Command("L")>> \o N(w - in, in)
                      \o <<Command("L")>> \o N(w - in, h - in)
                      \o <<Command("L")>> \o N(in, h - in) \o <<Command("Z")>>)>>]

-----------------------------------------------------------------------------
(* The PDF.  Arithmetic is split so that every intermediate value stays    *)
(* below 2^31; lengths are at least a point, or nothing.                   *)

Log2(v) == CHOOSE e \in 0 .. 30 : 2^e <= v /\ v \div 2 < 2^e

\* p / s to the nearest integer, ties to even.
RoundHalfEven(p, s) ==
    LET q == p \div s
        twice == 2 * (p % s)
    IN  IF twice > s \/ (twice = s /\ q % 2 = 1) THEN q + 1 ELSE q

\* (72000 v + 12700) / 25400
mm_milli_to_pt_milli(v) == 720 * (v \div 254) + (720 * (v % 254) + 127) \div 254

\* A whole number of points, or v / 1000 as the nearest binary32.
point_object(v) ==
    LET k == 23 - Log2(v \div 1000)
        unit == 2^(k - 3)
    IN  IF v % 1000 = 0 THEN <<v \div 1000, 0>>
        ELSE <<unit * (v \div 125) + RoundHalfEven(unit * (v % 125), 125), k>>

\* The number times 1000 as a binary32, to the nearest integer.
object_to_milli_pt(number) ==
    LET unit == 2^(number[2] - 3)
        product == 125 * number[1]
        spare == Log2(product \div unit) + number[2] - 26
        single == IF spare <= 0 THEN product
                  ELSE RoundHalfEven(product, 2^spare) * 2^spare
    IN  IF number[2] = 0 THEN 1000 * number[1]
        ELSE (single + unit \div 2) \div unit

box_object(box) == [i \in 1 .. 4 |-> point_object(box[i])]

read_box(pdf, name) == [i \in DOMAIN pdf.boxes[name] |-> object_to_milli_pt(pdf.boxes[name][i])]

Boxes == {"MediaBox", "TrimBox", "BleedBox", "CropBox"}

\* Trim and bleed are converted one by one and then added.
expected_boxes(spec) ==
    LET w == mm_milli_to_pt_milli(spec.trim[1])
        h == mm_milli_to_pt_milli(spec.trim[2])
        b == mm_milli_to_pt_milli(spec.bleed)
    IN  [name \in Boxes |-> IF name = "TrimBox" THEN <<b, b, b + w, b + h>>
                                                ELSE <<0, 0, w + 2 * b, h + 2 * b>>]

\* Declared graphics states are opaque, used ones declared, there are no
\* patterns, shadings or soft masks, and groups blend in an allowed space.
resources_transparency_safe(pdf, spec) ==
    /\ ~ pdf.patterns /\ pdf.opaque
    /\ pdf.states_used \subseteq pdf.states_declared
    /\ pdf.group_spaces \subseteq spec.color_spaces

document_transparency_groups_safe(pdf, spec) ==
    ~ pdf.soft_mask /\ pdf.group_spaces \subseteq spec.color_spaces

inspect_print_pdf(pdf, spec) ==
    [page_count |-> pdf.pages, pdf_version |-> pdf.version,
     boxes |-> [name \in Boxes |-> IF pdf.pages = 0 THEN << >> ELSE read_box(pdf, name)],
     vector_only |-> pdf.pages > 0 /\ ~ pdf.images,
     fonts_outlined |-> pdf.pages > 0 /\ ~ pdf.fonts,
     allowed_color_spaces_only |-> pdf.pages > 0 /\ pdf.spaces \subseteq spec.color_spaces,
     transparency_absent |-> /\ pdf.pages > 0
                             /\ resources_transparency_safe(pdf, spec)
                             /\ document_transparency_groups_safe(pdf, spec),
     external_actions_absent |->
         pdf.pages > 0 /\ ~ pdf.annotations /\ ~ pdf.actions /\ ~ pdf.encrypted]

\* The record is about these two files and the boxes it names are both the
\* specified ones and the ones read back.
verify_pdf_normalization(raw, delivery, record, spec) ==
    LET seen == inspect_print_pdf(delivery, spec)
    IN  /\ record.intact /\ record.raw = raw /\ record.normalized = delivery
        /\ record.boxes = expected_boxes(spec)
        /\ seen.page_count = 1 /\ seen.pdf_version = spec.pdf_version
        /\ seen.boxes = record.boxes

normalize_print_pdf(raw, spec) ==
    LET boxes == expected_boxes(spec)
        pdf == [raw EXCEPT !.version = spec.pdf_version,
                           !.boxes = [name \in Boxes |-> box_object(boxes[name])]]
        record == [raw |-> raw, normalized |-> pdf, boxes |-> boxes, intact |-> TRUE]
    IN  IF ~ raw.encrypted /\ raw.pages = 1 /\ verify_pdf_normalization(raw, pdf, record, spec)
        THEN [ok |-> TRUE, pdf |-> pdf, record |-> record]
        ELSE Refused

-----------------------------------------------------------------------------
(* Execution. `files` are the files of the workspace, `adapter` what the   *)
(* design adapter reports and what the file system does: whether the       *)
(* source and the delivery are written, the files there are (`left`) when  *)
(* a step fails, and those (`kept`) that cannot be removed.                *)

validate_request(request) == request.id # "" /\ request.digests_well_formed

PreflightPaths(id) == {<<id, p>> : p \in {"source", "editable", "raw", "delivery"}}

\* Mutant: what a failed attempt wrote stays.
cleanup_Nothing(files, paths, kept) == files

\* A file that cannot be removed stays, and nobody is told.
cleanup(files, paths, kept) == files \ (paths \ kept)

\* The adapter's own verdict is recorded, not required.
AdapterVouches(adapter, request) ==
    /\ adapter.ok
    /\ adapter.source_after = request.source
    /\ adapter.receipts = 1 /\ adapter.receipt_matches

\* An execution, given the report on the source and the normalised export.
\* When the source cannot be written it returns at once and removes nothing.
Carried(request, files, adapter, judged, normalized) ==
    LET paths == PreflightPaths(request.id)
        started == /\ validate_request(request)
                   /\ request.source = request.expected_source
                   /\ request.specification = request.expected_specification
                   /\ judged.ok /\ SourceAccepted(judged.report)
                   /\ paths \cap files = {}
        exported == /\ AdapterVouches(adapter, request)
                    /\ normalized.ok /\ adapter.delivery_written
        Named(names) == {<<request.id, p>> : p \in names}
        left == files \cup Named(adapter.left)
        record == [source |-> request.source, specification |-> request.specification,
                   source_validation |-> judged.report, editable |-> adapter.editable,
                   raw |-> adapter.export, delivery |-> normalized.pdf,
                   normalization |-> normalized.record, application |-> adapter.application,
                   source_immutable |-> TRUE, verified |-> adapter.verified, intact |-> TRUE]
    IN  IF ~ started THEN [ok |-> FALSE, files |-> files]
        ELSE IF ~ adapter.source_written THEN [ok |-> FALSE, files |-> left]
        ELSE IF exported
        THEN [ok |-> TRUE, files |-> files \cup paths, record |-> record]
        ELSE [ok |-> FALSE, files |-> cleanup(left, paths, Named(adapter.kept))]

execute_print_preflight(request, files, adapter) ==
    Carried(request, files, adapter,
            validate_print_source(request.source, request.specification),
            normalize_print_pdf(adapter.export, request.specification))

validate_execution_record(record) == record.intact

RecordBinds(record, r) ==
    /\ record.source = r.source /\ record.specification = r.specification
    /\ record.editable = r.editable /\ record.raw = r.raw /\ record.delivery = r.delivery

validate_print_preflight(r, record) ==
    LET seen == inspect_print_pdf(r.delivery, r.specification)
        expected == expected_boxes(r.specification)
        report ==
            [source |-> record.source_validation, editable |-> r.editable, raw |-> r.raw,
             delivery |-> r.delivery, pdf |-> seen,
             matching |-> {name \in Boxes : seen.boxes[name] = expected[name]},
             source_immutable |-> record.source_immutable,
             inkscape_export_verified |->
                 record.verified /\ record.application = "org.inkscape.Inkscape"]
    IN  IF /\ validate_execution_record(record)
           /\ RecordBinds(record, r)
           /\ validate_print_source(r.source, r.specification) =
                 [ok |-> TRUE, report |-> record.source_validation]
           /\ verify_pdf_normalization(r.raw, r.delivery, record.normalization,
                                       r.specification)
        THEN [ok |-> TRUE, report |-> report]
        ELSE Refused

Accepts(r) ==
    /\ SourceAccepted(r.source)
    /\ r.pdf.page_count = 1 /\ r.pdf.pdf_version = r.source.specification.pdf_version
    /\ r.pdf.vector_only /\ r.pdf.fonts_outlined /\ r.matching = Boxes
    /\ r.pdf.allowed_color_spaces_only /\ r.pdf.transparency_absent
    /\ r.pdf.external_actions_absent
    /\ r.source_immutable /\ r.inkscape_export_verified

\* The codes a report gives cause for; a path without bounds has none.
print_preflight_failure_map(r) ==
    LET s == r.source
        push_if(condition, code) == IF condition THEN {code} ELSE {}
    IN  push_if(~ s.restricted_svg_profile, "RestrictedSvgProfile")
        \cup push_if(~ s.canvas_dimensions_match, "CanvasDimensions")
        \cup push_if(~ s.bleed_coverage, "BleedCoverage")
        \cup push_if(~ s.safe_area_satisfied, "SafeArea")
        \cup push_if(s.palette_violation_count # 0, "PaletteAllowlist")
        \cup push_if(~ r.pdf.vector_only, "VectorOnly")
        \cup push_if(~ r.pdf.fonts_outlined, "FontsOutlined")
        \cup push_if(r.pdf.page_count # 1, "PageCount")
        \cup (Boxes \ r.matching)
        \cup push_if(r.pdf.pdf_version # "1.5", "PdfVersion")
        \cup push_if(~ r.pdf.allowed_color_spaces_only, "ColorSpace")
        \cup push_if(~ r.pdf.transparency_absent, "Transparency")
        \cup push_if(~ r.pdf.external_actions_absent, "ExternalAction")
        \cup push_if(~ r.source_immutable, "SourceImmutability")
        \cup push_if(~ r.inkscape_export_verified, "InkscapeIntegration")

-----------------------------------------------------------------------------
(* Certification *)

\* What the signing side asks of a record; signing and verification share it.
validate_signed_record(record) ==
    record.verified /\ record.source_immutable /\ record.intact

verify_print_preflight_execution_record(package, trusted) ==
    validate_signed_record(package.record) /\ verify_value(package, trusted)

validate_bindings(request, report) ==
    /\ request.contract.job_type = "print_ready_poster_preflight"
    /\ PlanBound(request.plan, request.contract, request.capsule)
    /\ Accepts(report)
    /\ RecordBinds(request.execution.record, request)
    /\ report.editable = request.editable /\ report.delivery = request.delivery

proof_results ==
    LET by(claim, subject, who) == proof(claim, subject, who, {"validation"})
    IN  {by("restricted_svg_profile", "source_svg", "print.svg.structure"),
         by("canvas_dimensions_match", "source_svg", "print.canvas.dimensions"),
         by("bleed_coverage", "source_svg", "print.bleed.coverage"),
         by("safe_area_satisfied", "source_svg", "print.safe_area.geometry"),
         by("palette_violations", "source_svg", "print.palette.allowlist"),
         by("vector_only", "delivery_pdf", "print.pdf.vector_only"),
         by("fonts_outlined", "delivery_pdf", "print.pdf.fonts_outlined"),
         by("page_count", "delivery_pdf", "print.pdf.page"),
         by("media_box_match", "delivery_pdf", "print.pdf.boxes"),
         by("trim_box_match", "delivery_pdf", "print.pdf.boxes"),
         by("bleed_box_match", "delivery_pdf", "print.pdf.boxes"),
         by("crop_box_match", "delivery_pdf", "print.pdf.boxes"),
         by("pdf_version", "delivery_pdf", "print.pdf.version"),
         by("allowed_color_spaces", "delivery_pdf", "print.pdf.color_spaces"),
         by("transparency_absent", "delivery_pdf", "print.pdf.transparency"),
         by("external_actions_absent", "delivery_pdf", "print.pdf.security"),
         by("source_immutable", "source_svg", "print.source.immutability"),
         by("inkscape_export_verified", "delivery_pdf", "print.inkscape.integration")}

certify_print_preflight(request, trusted) ==
    LET artifacts == {artifact("source_svg", "input", request.source),
                      artifact("print_specification", "input", request.specification),
                      artifact("editable_master", "output", request.editable),
                      artifact("raw_inkscape_pdf", "evidence", request.raw),
                      artifact("delivery_pdf", "output", request.delivery),
                      artifact("execution", "evidence", request.execution),
                      artifact("validation", "evidence", request.report)}
    IN  IF /\ request.named
           /\ verify_print_preflight_execution_record(request.execution, trusted)
           /\ validate_print_preflight(request, request.execution.record) =
                 [ok |-> TRUE, report |-> request.report]
           /\ validate_bindings(request, request.report)
        THEN Attested(request, artifacts, proof_results)
        ELSE Refused
=============================================================================
