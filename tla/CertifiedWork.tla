---------------------------- MODULE CertifiedWork ----------------------------
(***************************************************************************)
(* The preparation of work composed with its certified run, and the        *)
(* material the run is given.                                              *)
(*                                                                         *)
(* Bounds: 2 by 2 rasters, two attempts, certification requests that       *)
(* differ from an honest one in at most two places, paths of four          *)
(* segments.  Work is staged from one complete preparation of each kind.   *)
(***************************************************************************)
EXTENDS CertifiedRun, SequencesExt

CONSTANTS CapsuleEdits,   \* ways in which the loaded capsule can differ
          ContractEdits,  \* ways in which a contract can be altered
          PathSegments,   \* segments a staged path has at most
          PosterEdges     \* trimmed edges of the staged posters

VARIABLES intent, loaded, answered, outcome, sealedBy  \* of the preparation

Prep == INSTANCE WorkPreparation

preparing == <<intent, loaded, answered, outcome, sealedBy>>

Shipped == Prep!Shipped

-----------------------------------------------------------------------------
(* Staged material: rasters *)

Raster == <<10, 20, 30, 255, 200, 100, 50, 128, 0, 250, 7, 0, 255, 1, 255, 255>>
OtherRaster == [k \in 1 .. 16 |-> 255 - Raster[k]]

\* The prediction of the PNG specification.
Predicted(filter, a, b, c) ==
    LET p == a + b - c
        Far(x) == IF p > x THEN p - x ELSE x - p
    IN  CASE filter = 0 -> 0 [] filter = 1 -> a [] filter = 2 -> b
          [] filter = 3 -> (a + b) \div 2
          [] filter = 4 -> IF Far(a) <= Far(b) /\ Far(a) <= Far(c) THEN a
                           ELSE IF Far(b) <= Far(c) THEN b ELSE c

\* The bytes of a raster's rows after filtering.
Filtered(bytes, filters) ==
    LET row == 4 * Width
        Near(k, dx, dy) ==
            LET c == ((k - 1) % row) - dx
                r == ((k - 1) \div row) - dy
            IN  IF c >= 0 /\ r >= 0 THEN bytes[r * row + c + 1] ELSE 0
    IN  [k \in DOMAIN bytes |->
            (bytes[k] + 256 - Predicted(filters[(k - 1) \div row + 1], Near(k, 4, 0),
                                        Near(k, 0, 1), Near(k, 4, 1))) % 256]

Rgba(bytes, filters, srgb) ==
    CleanupRun!Png(<<CleanupRun!Header(Width, Height, 8, 6)>> \o srgb
        \o <<CleanupRun!chunk("IDAT",
                CleanupRun!Scanlines(Width, Height, 4, filters, Filtered(bytes, filters))),
             CleanupRun!chunk("IEND", << >>)>>)

Srgb == <<CleanupRun!chunk("sRGB", <<0>>)>>
Plain(bytes) == Rgba(bytes, <<0, 0>>, Srgb)

\* The same raster in files that differ in what a reader may object to.
Files(bytes) ==
    LET p == Plain(bytes)
        c == p.chunks
        half == Len(c[3].data) \div 2
    IN  {Rgba(bytes, <<f, g>>, Srgb) : f \in 0 .. 4, g \in 0 .. 4} \cup
        {Rgba(bytes, <<0, 0>>, << >>),
         [p EXCEPT !.rest = 1],
         [p EXCEPT !.signature = FALSE],
         [p EXCEPT !.chunks[3].crc = FALSE],
         [p EXCEPT !.chunks = <<c[2], c[1], c[3], c[4]>>],
         [p EXCEPT !.chunks = <<c[1], c[3], c[2], c[4]>>],
         [p EXCEPT !.chunks = <<c[1], c[2], c[2], c[3], c[4]>>],
         [p EXCEPT !.chunks = c \o <<c[3]>>],
         [p EXCEPT !.chunks[3].data = Append(@, -1)],
         [p EXCEPT !.chunks = <<c[1], c[2], CleanupRun!chunk("IDAT", SubSeq(c[3].data, 1, half)),
                                CleanupRun!chunk("IDAT", SubSeq(c[3].data, half + 1, 2 * half)),
                                c[4]>>]}

MaskOf(alphas) == [k \in 1 .. 16 |-> IF k % 4 = 0 THEN alphas[k \div 4] ELSE 0]
Masks == {Plain(MaskOf(a)) : a \in {<<255, 0, 255, 0>>, <<255, 255, 255, 255>>,
                                    <<0, 0, 0, 0>>, <<255, 0, 128, 0>>}}
Mask == Plain(MaskOf(<<255, 0, 255, 0>>))

\* The raster with nothing left of what the mask removes.
Blanked == [k \in 1 .. 16 |-> IF MaskOf(<<255, 0, 255, 0>>)[4 * ((k + 3) \div 4)] = 0
                               THEN 0 ELSE Raster[k]]

\* What an executor nobody trusts may claim it made of the raster.
Untrusted == {Plain(Blanked), Plain(Raster), Plain(OtherRaster), Rgba(Blanked, <<0, 0>>, << >>)}

CleanupInputs ==
    [source : Files(Raster), mask : {Mask}, pixels : {Raster}]
        \cup [source : {Plain(Raster)}, mask : Masks, pixels : {Raster}]
OtherCleanup == [source |-> Plain(OtherRaster), mask |-> Mask, pixels |-> OtherRaster]

-----------------------------------------------------------------------------
(* Staged material: brand manifests, print specifications and sources *)

Manifest ==
    [named |-> TRUE, canvas |-> <<8, 8>>, palette |-> {"white", "blue"}, clear_space |-> 1,
     background |-> [id |-> "background", fill |-> "white"],
     logo |-> [id |-> "logo", box |-> <<1, 1, 4, 4>>, approved |-> Plain(Raster)],
     typography |-> [id |-> "copy", fill |-> "blue", style |-> "bold", copy |-> <<"SALE">>]]

Manifests ==
    {Manifest,
     [Manifest EXCEPT !.typography.copy = <<"R", "&", "D">>],
     [Manifest EXCEPT !.clear_space = 2],
     [Manifest EXCEPT !.logo.box = <<3, 3, 4, 4>>],
     [Manifest EXCEPT !.palette = {"white"}]}

BrandSources ==
    LET svg == BrandRun!render_restricted_brand_svg(Manifest, Plain(Raster))
        e == svg.events
    IN  {svg,
         [events |-> <<e[1], e[3], e[2]>> \o SubSeq(e, 4, 7)],
         [events |-> SubSeq(e, 1, 3) \o <<BrandRun!Text(" ")>> \o SubSeq(e, 4, 7)],
         [events |-> SubSeq(e, 1, 4) \o <<BrandRun!Reference>> \o SubSeq(e, 5, 7)],
         [events |-> <<e[1], e[2], e[2]>> \o SubSeq(e, 3, 7)],
         [events |-> SubSeq(e, 1, 3) \o <<e[7]>>],
         [svg EXCEPT !.events[2].of.fill = "red"],
         [svg EXCEPT !.events[3].of.png = Plain(OtherRaster)],
         [svg EXCEPT !.events[3].of.box = <<2, 1, 4, 4>>],
         [svg EXCEPT !.events[1].of.canvas = <<8, 9>>],
         [svg EXCEPT !.events[5].name = "SALES"],
         [svg EXCEPT !.events[4].of.exact = FALSE]}

BrandInputs ==
    {[source |-> BrandRun!render_restricted_brand_svg(m, Plain(Raster)), manifest |-> m,
      logo |-> Plain(Raster)] : m \in Manifests}
    \cup {[source |-> s, manifest |-> Manifest, logo |-> l] :
              s \in BrandSources, l \in {Plain(Raster), Plain(OtherRaster)}}
OtherBrand ==
    LET m == [Manifest EXCEPT !.typography.copy = <<"SOLD">>]
    IN  [source |-> BrandRun!render_restricted_brand_svg(m, Plain(Raster)), manifest |-> m,
         logo |-> Plain(Raster)]

Poster(w, h) ==
    [named |-> TRUE, trim |-> <<w, h>>, bleed |-> 3000, safe_margin |-> 5000,
     palette |-> <<"white", "black">>, color_spaces |-> {"DeviceRGB"},
     pdf_version |-> "1.5", background |-> "background"]
Specification == Poster(210000, 297000)

\* Path segments: a command, or "" for numbers that repeat the one before,
\* and its numbers; all within the safe area of Specification.
Segments ==
    {<<c, n>> : c \in {"M", "L", ""}, n \in {<<8000, 9000>>, <<9000, 8000>>}}
        \cup {<<c, <<x>>>> : c \in {"H", "V", ""}, x \in {8000, 9000}} \cup {<<"Z", << >>>>}
Paths == {<<<<"M", <<8500, 8600>>>>>> \o p :
             p \in UNION {[1 .. n -> Segments] : n \in 0 .. PathSegments - 1}}
Tokens(path) ==
    FlattenSeq([i \in DOMAIN path |->
        (IF path[i][1] = "" THEN << >> ELSE <<PrintRun!Command(path[i][1])>>)
            \o [j \in DOMAIN path[i][2] |-> PrintRun!Number(path[i][2][j])]])

PrintSources ==
    LET svg == PrintRun!render_restricted_print_svg(Specification)
        e == svg.elements
    IN  {[svg EXCEPT !.references = TRUE],
         [svg EXCEPT !.elements = Append(e, e[1])],
         [svg EXCEPT !.elements = Append(e, e[4])],
         [svg EXCEPT !.elements = Append(e, PrintRun!Element("image", "i", "", << >>, << >>))],
         [svg EXCEPT !.elements = Append(e, PrintRun!Element("text", "t", "", << >>, << >>))],
         [svg EXCEPT !.elements = Append(e, PrintRun!Element("rect", "r", "black",
                                                    <<7999, 8000, 1000, 1000>>, << >>))],
         [svg EXCEPT !.elements[2].box[3] = @ - 1],
         [svg EXCEPT !.elements[2].allowed = FALSE],
         [svg EXCEPT !.elements[4].fill = "red"],
         [svg EXCEPT !.elements[4].path = <<PrintRun!Command("M")>>]}

Artwork(spec, source, drawn) == [source |-> source, specification |-> spec, drawn |-> drawn]

PrintInputs ==
    {Artwork(spec, PrintRun!render_restricted_print_svg(spec), << >>) :
        spec \in {Poster(w, h) : w \in PosterEdges, h \in PosterEdges}}
    \cup {Artwork(Specification, s, << >>) : s \in PrintSources}
    \cup {Artwork(Specification,
                 [PrintRun!render_restricted_print_svg(Specification)
                     EXCEPT !.elements[4].path = Tokens(d)], d) : d \in Paths}
OtherPrint ==
    LET spec == Poster(200000, 200000)
    IN  Artwork(spec, PrintRun!render_restricted_print_svg(spec), << >>)

StagedInputs(k) ==
    CASE k = "cleanup" -> CleanupInputs [] k = "brand" -> BrandInputs
      [] k = "print" -> PrintInputs [] OTHER -> {}

OtherJob(k) ==
    CASE k = "cleanup" -> OtherCleanup [] k = "brand" -> OtherBrand
      [] k = "print" -> OtherPrint

-----------------------------------------------------------------------------
(* The design adapter *)

Mark(k, w) == IF w = OtherJob(k) THEN 2 ELSE 1

Exported(k, w) ==
    CASE k = "cleanup" -> Rgba(w.pixels, <<0, 0>>, << >>)
      [] k = "brand" -> BrandRun!Png(<<BrandRun!Header(8, 8, 8, 6),
                                       BrandRun!chunk("IDAT", <<Mark(k, w)>>),
                                       BrandRun!chunk("IEND", << >>)>>)
      [] k = "print" ->
            [pages |-> 1, encrypted |-> FALSE, version |-> "1.7", images |-> FALSE,
             fonts |-> FALSE, spaces |-> {"DeviceRGB"}, patterns |-> FALSE, opaque |-> TRUE,
             states_used |-> {"a0"}, states_declared |-> {"a0"},
             group_spaces |-> {"DeviceRGB"}, soft_mask |-> FALSE, annotations |-> FALSE,
             actions |-> FALSE, mark |-> Mark(k, w),
             boxes |-> [b \in PrintRun!Boxes |-> << >>]]

\* Exports that a later check may object to.
Misfits(k, x) ==
    IF k = "print"
      THEN {[x EXCEPT ![f] = TRUE] : f \in {"encrypted", "images", "fonts", "patterns",
                                            "soft_mask", "annotations", "actions"}}
           \cup {[x EXCEPT !.pages = n] : n \in {0, 2}}
           \cup {[x EXCEPT !.opaque = FALSE], [x EXCEPT !.states_declared = {}],
                 [x EXCEPT !.spaces = {"DeviceCMYK"}], [x EXCEPT !.group_spaces = {"DeviceGray"}]}
      ELSE {[x EXCEPT !.chunks[1].data[1] = 3], [x EXCEPT !.chunks[1].data[4] = 0],
            [x EXCEPT !.chunks[1].data[3] = 16], [x EXCEPT !.chunks[2].crc = FALSE],
            [x EXCEPT !.chunks = <<@[1]>> \o Srgb \o Tail(@)]}

\* The files written before the adapter is called.
Opening(k) == IF k = "cleanup" THEN {"cleaned", "source"} ELSE {"source"}

\* What the file system may do: leave out a write, before or after it made
\* the file, and keep a file that is to be removed.
Failing(k, h) ==
    {[h EXCEPT !.source_written = FALSE, !.left = {}],
     [h EXCEPT !.source_written = FALSE, !.left = Opening(k)],
     [h EXCEPT !.ok = FALSE, !.kept = {"editable"}]}
    \cup (IF k = "cleanup" THEN {}
          ELSE {[h EXCEPT !.delivery_written = FALSE,
                          !.left = {"source", "editable", "raw", "delivery"}]})

Working(k, w) ==
    [ok |-> TRUE, verified |-> TRUE, source_immutable |-> TRUE, receipts |-> 1, exports |-> 1,
     receipt_matches |-> TRUE, source_after |-> w.source, editable |-> [layer_on |-> w.source],
     export |-> Exported(k, w), application |-> "org.inkscape.Inkscape",
     source_written |-> TRUE, delivery_written |-> TRUE,
     left |-> Opening(k) \cup {"editable"}, kept |-> {}]

\* The material on which adapters and certification requests are varied.
Varied(k, w) == w.source = (CASE k = "cleanup" -> Plain(Raster)
    [] k = "brand" -> BrandRun!render_restricted_brand_svg(Manifest, Plain(Raster))
    [] k = "print" -> PrintRun!render_restricted_print_svg(Specification))

Faulty(k, h) ==
    {h} \cup {[h EXCEPT ![f] = FALSE] : f \in {"ok", "verified", "source_immutable",
                                              "receipt_matches"}}
        \cup {[h EXCEPT ![f] = 0] : f \in {"receipts", "exports"}}
        \cup {[h EXCEPT !.source_after = OtherJob(k).source],
              [h EXCEPT !.application = "other"], [h EXCEPT !.ok = FALSE, !.left = Opening(k)]}
        \cup Failing(k, h)
        \cup {[h EXCEPT !.export = x] : x \in Misfits(k, h.export)}

Reporting(k, w) == IF Varied(k, w) THEN Faulty(k, Working(k, w)) ELSE {Working(k, w)}

\* Sources with a drawn path are judged; the rendered ones are carried out.
CarriedOut(k, w) == k = "print" => w.drawn = << >>

-----------------------------------------------------------------------------
(* The composition *)

Ready ==
    /\ loaded = Prep!None /\ ~ answered
    /\ \A f \in DOMAIN intent : intent[f] = Prep!Good(f)

WorkInit == Prep!Init /\ Init

WorkNext ==
    \/ Prepare /\ Prep!Next
    \/ (inputs = << >> => Ready) /\ Work /\ UNCHANGED preparing

WorkSpec == WorkInit /\ [][WorkNext]_<<vars, preparing>>

-----------------------------------------------------------------------------
(* Properties *)

\* One round of the compiler's questions is enough, and a refusal has a cause
\* in the intent or the capsule.
QuestionsSuffice == Prep!QuestionsSuffice

\* What the compiler of a kind sealed its planner can plan, unless the capsule
\* changed in between.
CompiledIsPlannable == Prep!CompiledIsPlannable

\* The executor of the cleanup and its independent validator read PNG files
\* with decoders of their own, one of them lenient about the order of chunks
\* and what follows the image.  A decoder may refuse a file, but when it
\* reads one it recovers the raster that was filtered into it, also when
\* normalize_png_srgb has tagged the file with a colour profile.
DecodersRecoverRaster ==
    kind = "cleanup" /\ inputs # << >> =>
        LET full == CleanupRun!decode_png_bytes(inputs.source)
            lenient == CleanupRun!decode_restricted_rgba_png(inputs.source)
            tagged == CleanupRun!normalize_png_srgb(inputs.source, 0)
        IN  /\ tagged.ok => CleanupRun!decode_png_bytes(tagged.png).rgba8 = inputs.pixels
            /\ full.ok => full.rgba8 = inputs.pixels
            /\ lenient.ok => lenient.pixels = inputs.pixels

\* The points an SVG renderer draws for a path: a closed subpath goes back to
\* where it began.
Renderer == [at |-> <<0, 0>>, start |-> <<0, 0>>, as |-> "M", points |-> {}]
Render(r, segment) ==
    LET c == IF segment[1] = "" THEN r.as ELSE segment[1]
        n == segment[2]
        to == CASE c = "Z" -> r.start [] c \in {"M", "L"} -> n
                [] c = "H" -> <<n[1], r.at[2]>> [] c = "V" -> <<r.at[1], n[1]>>
    IN  [at |-> to, start |-> IF c = "M" THEN to ELSE r.start, as |-> c,
         points |-> r.points \cup {to}]
Rendered(path) == FoldLeft(Render, Renderer, path).points

\* Numbers that repeat a command are as many as it takes.
Drawable(path) ==
    \A i \in DOMAIN path : path[i][1] = "" =>
        LET before == {j \in 1 .. i : path[j][1] # ""}
            last == path[CHOOSE j \in before : \A l \in before : l <= j]
        IN  last[1] # "Z" /\ Len(last[2]) = Len(path[i][2])

\* simple_path_bounds keeps the current point where it is when a subpath is
\* closed.  The bounds it gives a path are nevertheless those of what is
\* drawn, so that nothing drawn escapes the safe area and nothing within it
\* is refused.
PathBoundsExact ==
    kind = "print" /\ inputs # << >> =>
        LET d == inputs.drawn
            bounds == PrintRun!simple_path_bounds(Tokens(d))
        IN  d # << >> /\ Drawable(d) => bounds = PrintRun!BoundsOf(Rendered(d))

Certified(id) == (CHOOSE a \in certificate.artifacts : a.id = id).content
Near(a, b, d) == a - b \in -d .. d

\* What is certified is the work that was ordered.  A cleaned raster is the
\* source with nothing but the alpha of the masked pixels changed.  A brand
\* export shows exactly the elements of its manifest and delivers the image
\* data that was exported.  A poster's page is the artwork's canvas to within
\* two thousandths of a point, its trim box the ordered trim.
CertifiedIsOrdered ==
    certificate # << >> =>
        CASE kind = "cleanup" ->
                LET Read(id) == CleanupRun!decode_png_bytes(Certified(id)).rgba8
                    source == Read("source_raster")
                    mask == Read("approved_cleanup_mask")
                IN  Read("cleaned_raster") =
                        [k \in DOMAIN source |->
                            IF k % 4 = 0 THEN (IF mask[k] = 0 THEN 0 ELSE source[k])
                            ELSE source[k]]
          [] kind = "brand" ->
                /\ Range(Certified("source_svg").events) \ {BrandRun!Text(" ")} =
                      Range(BrandRun!render_restricted_brand_svg(
                                Certified("brand_manifest"), Certified("approved_logo")).events)
                /\ BrandRun!idat_payload(Certified("delivery_raster").chunks) =
                      BrandRun!idat_payload(Certified("raw_inkscape_export").chunks)
          [] kind = "print" ->
                LET spec == Certified("print_specification")
                    pdf == Certified("delivery_pdf")
                    media == PrintRun!read_box(pdf, "MediaBox")
                    trim == PrintRun!read_box(pdf, "TrimBox")
                    Pt(mm) == PrintRun!mm_milli_to_pt_milli(mm)
                IN  /\ pdf.mark = Certified("raw_inkscape_pdf").mark
                    /\ \A i \in 1 .. 2 :
                          /\ Near(media[i + 2], Pt(PrintRun!Total(spec)[i]), 2)
                          /\ trim[i + 2] - trim[i] = Pt(spec.trim[i])
=============================================================================
