------------------------------ MODULE PngFile ------------------------------
(***************************************************************************)
(* PNG files as the repository's three readers and two writers see them:   *)
(* the structural inspector (png-artifact-validator-runtime), the pixel    *)
(* decoder (png-pixel-decoder-runtime), the restricted RGBA codec of the   *)
(* background cleanup path, and the sRGB normalisers of the brand export   *)
(* path and of the social post path (png-srgb-normalizer-runtime).         *)
(*                                                                         *)
(* A file is a signature flag, a sequence of chunks and `rest`, the number *)
(* of bytes after the last whole chunk.  A chunk has a type, its data and  *)
(* whether its CRC is right.  Chunk data are sequences of integers: IHDR   *)
(* is <<width, height, depth, colour, compression, filter, interlace>>,    *)
(* sRGB <<intent>>, iCCP <<name>> (empty when malformed), IDAT the         *)
(* scanline bytes in the clear, where -1 stands for bytes past the end of  *)
(* the compressed stream.  Digests are the values themselves.              *)
(***************************************************************************)
EXTENDS Integers, Sequences, FiniteSets, Functions

MAX_DIMENSION == 1000000
MAX_PIXELS == 100000000
Grayscale == 0
Truecolor == 2
Indexed == 3
GrayscaleAlpha == 4
TruecolorAlpha == 6
ColorTypes == {Grayscale, Truecolor, Indexed, GrayscaleAlpha, TruecolorAlpha}

chunk(t, d) == [type |-> t, data |-> d, crc |-> TRUE]

Png(chunks) == [signature |-> TRUE, chunks |-> chunks, rest |-> 0]

Refused == [ok |-> FALSE]

At(chunks, t) == {i \in DOMAIN chunks : chunks[i].type = t}

First(chunks, t) == chunks[CHOOSE i \in At(chunks, t) : \A j \in At(chunks, t) : i <= j]

(* The IDAT payloads in order: the digest the normalisers compare, and the *)
(* stream the decoders decompress.                                         *)
idat_payload(chunks) ==
    LET upto[i \in 0 .. Len(chunks)] ==
            IF i = 0 THEN << >>
            ELSE IF chunks[i].type = "IDAT" THEN upto[i - 1] \o chunks[i].data ELSE upto[i - 1]
    IN  upto[Len(chunks)]

(***************************************************************************)
(* png-artifact-validator-runtime.                                         *)
(***************************************************************************)
valid_bit_depth(depth, color) ==
    CASE color = Grayscale -> depth \in {1, 2, 4, 8, 16}
      [] color = Indexed -> depth \in {1, 2, 4, 8}
      [] OTHER -> depth \in {8, 16}

parse_ihdr(data) ==
    /\ Len(data) = 7
    /\ data[1] \in 1 .. MAX_DIMENSION
    /\ data[2] \in 1 .. MAX_DIMENSION
    /\ data[4] \in ColorTypes
    /\ valid_bit_depth(data[3], data[4])
    /\ data[5] = 0
    /\ data[6] = 0
    /\ data[7] \in {0, 1}

is_unknown_critical(t) == t = "CRIT"

ColorProfile(chunks) ==
    CASE At(chunks, "sRGB") # {} -> <<"srgb", First(chunks, "sRGB").data[1]>>
      [] At(chunks, "iCCP") # {} -> <<"icc", First(chunks, "iCCP").data[1]>>
      [] OTHER -> <<"none", 0>>

(* The loop stops at the first IEND, which has to end the file.  A chunk   *)
(* of another kind after the first IDAT closes the image data.             *)
inspect_png_bytes(file) ==
    LET c == file.chunks
        idat == At(c, "IDAT")
        before == IF idat = {} THEN DOMAIN c
                  ELSE {i \in DOMAIN c : \A j \in idat : i < j}
        image == /\ file.signature
                 /\ file.rest = 0
                 /\ c # << >>
                 /\ \A i \in DOMAIN c : c[i].crc /\ ~is_unknown_critical(c[i].type)
                 /\ At(c, "IHDR") = {1}
                 /\ parse_ihdr(c[1].data)
                 /\ Cardinality(At(c, "PLTE")) <= 1
                 /\ At(c, "PLTE") \subseteq before
                 /\ \A i, j \in idat : i < j => \A k \in i .. j : k \in idat
                 /\ At(c, "IEND") = {Len(c)}
                 /\ c[Len(c)].data = << >>
                 /\ idat_payload(c) # << >>
        profile == /\ \A i \in At(c, "sRGB") \cup At(c, "iCCP") :
                         /\ i \in before
                         /\ \A p \in At(c, "PLTE") : i < p
                   /\ Cardinality(At(c, "sRGB") \cup At(c, "iCCP")) <= 1
                   /\ \A i \in At(c, "sRGB") : Len(c[i].data) = 1 /\ c[i].data[1] \in 0 .. 3
                   /\ \A i \in At(c, "iCCP") : Len(c[i].data) = 1
        palette == /\ c[1].data[4] = Indexed => At(c, "PLTE") # {}
                   /\ c[1].data[4] \in {Grayscale, GrayscaleAlpha} => At(c, "PLTE") = {}
    IN  IF image /\ profile /\ palette
        THEN [ok |-> TRUE, width |-> c[1].data[1], height |-> c[1].data[2],
              bit_depth |-> c[1].data[3], color_type |-> c[1].data[4],
              interlace_method |-> c[1].data[7], color_profile |-> ColorProfile(c)]
        ELSE Refused

(* validate_report under a policy that requires the sRGB chunk.            *)
validate_report(report, policy) ==
    /\ report.width = policy.width
    /\ report.height = policy.height
    /\ report.bit_depth = policy.bit_depth
    /\ report.color_type \in policy.color_types
    /\ report.color_profile[1] = "srgb"

(***************************************************************************)
(* png-pixel-decoder-runtime.                                              *)
(***************************************************************************)
Distance(a, b) == IF a >= b THEN a - b ELSE b - a

paeth(left, up, upper_left) ==
    LET estimate == left + up - upper_left
    IN  CASE /\ Distance(estimate, left) <= Distance(estimate, up)
             /\ Distance(estimate, left) <= Distance(estimate, upper_left) -> left
          [] OTHER -> IF Distance(estimate, up) <= Distance(estimate, upper_left)
                      THEN up ELSE upper_left

(* Mutant: the average filter rounds up.                                   *)
Predictor_RoundUp(filter, left, up, upper_left) ==
    CASE filter = 0 -> 0
      [] filter = 1 -> left
      [] filter = 2 -> up
      [] filter = 3 -> (left + up + 1) \div 2
      [] filter = 4 -> paeth(left, up, upper_left)

Predictor(filter, left, up, upper_left) ==
    CASE filter = 0 -> 0
      [] filter = 1 -> left
      [] filter = 2 -> up
      [] filter = 3 -> (left + up) \div 2
      [] filter = 4 -> paeth(left, up, upper_left)

(* Each sample adds, modulo 256, what its left, upper and upper-left       *)
(* neighbours predict under the filter byte that opens its row.            *)
unfilter_scanlines(scanlines, height, bpp, row) ==
    LET sample[p \in (1 .. height) \X (1 .. row)] ==
            LET at == (p[1] - 1) * (row + 1)
                Near(r, i) == IF r >= 1 /\ i >= 1 THEN sample[<<r, i>>] ELSE 0
            IN  (scanlines[at + 1 + p[2]]
                    + Predictor(scanlines[at + 1], Near(p[1], p[2] - bpp),
                                Near(p[1] - 1, p[2]), Near(p[1] - 1, p[2] - bpp))) % 256
    IN  [k \in 1 .. height * row |-> sample[<<((k - 1) \div row) + 1, ((k - 1) % row) + 1>>]]

convert_to_rgba(bytes, bpp) ==
    IF bpp = 4 THEN bytes
    ELSE [k \in 1 .. (Len(bytes) \div 3) * 4 |->
             IF k % 4 = 0 THEN 255 ELSE bytes[((k - 1) \div 4) * 3 + ((k - 1) % 4) + 1]]

(* decompress_exact refuses a stream of another length and bytes after it. *)
decompress_exact(payload, expected) == Len(payload) = expected /\ -1 \notin Range(payload)

FiltersKnown(scanlines, height, row, known) ==
    \A r \in 0 .. height - 1 : scanlines[r * (row + 1) + 1] \in known

Decoded(report, payload) ==
    LET bpp == IF report.color_type = Truecolor THEN 3 ELSE 4
        row == report.width * bpp
    IN  IF /\ report.ok
           /\ report.bit_depth = 8
           /\ report.interlace_method = 0
           /\ report.color_type \in {Truecolor, TruecolorAlpha}
           /\ report.width * report.height <= MAX_PIXELS
           /\ decompress_exact(payload, (row + 1) * report.height)
           /\ FiltersKnown(payload, report.height, row, 0 .. 4)
        THEN [ok |-> TRUE, width |-> report.width, height |-> report.height,
              rgba8 |-> convert_to_rgba(unfilter_scanlines(payload, report.height, bpp, row), bpp)]
        ELSE Refused

decode_png_bytes(file) == Decoded(inspect_png_bytes(file), idat_payload(file.chunks))

(***************************************************************************)
(* The restricted codec of the cleanup path (png.rs).                      *)
(***************************************************************************)

(* Reads chunks up to the first IEND and nothing after it; needs one IHDR  *)
(* anywhere, of one format, at most one sRGB chunk, and filter 0.          *)
UpToEnd(chunks) ==
    LET ends == At(chunks, "IEND")
    IN  IF ends = {} THEN << >>
        ELSE SubSeq(chunks, 1, CHOOSE i \in ends : \A j \in ends : i <= j)

DecodedRestricted(c) ==
    LET header == IF At(c, "IHDR") = {} THEN << >> ELSE First(c, "IHDR").data
        payload == SelectSeq(idat_payload(c), LAMBDA b : b # -1)
        row == header[1] * 4
    IN  IF /\ c # << >>
           /\ \A i \in DOMAIN c : c[i].crc
           /\ Cardinality(At(c, "IHDR")) = 1
           /\ Len(header) = 7
           /\ SubSeq(header, 3, 7) = <<8, 6, 0, 0, 0>>
           /\ Cardinality(At(c, "sRGB")) <= 1
           /\ \A i \in At(c, "sRGB") : Len(c[i].data) = 1
           /\ idat_payload(c) # << >>
           /\ c[Len(c)].data = << >>
           /\ header[1] > 0 /\ header[2] > 0
           /\ header[1] * header[2] <= MAX_PIXELS
           /\ Len(payload) = (row + 1) * header[2]
           /\ FiltersKnown(payload, header[2], row, {0})
        THEN [ok |-> TRUE, width |-> header[1], height |-> header[2],
              pixels |-> [k \in 1 .. row * header[2] |->
                             payload[((k - 1) \div row) * (row + 1) + ((k - 1) % row) + 2]],
              has_srgb |-> At(c, "sRGB") # {}]
        ELSE Refused

decode_restricted_rgba_png(file) ==
    IF file.signature THEN DecodedRestricted(UpToEnd(file.chunks)) ELSE Refused

Header(w, h, depth, color) == chunk("IHDR", <<w, h, depth, color, 0, 0, 0>>)

Scanlines(w, h, bpp, filters, bytes) ==
    [k \in 1 .. h * (w * bpp + 1) |->
        LET r == (k - 1) \div (w * bpp + 1)
            i == (k - 1) % (w * bpp + 1)
        IN  IF i = 0 THEN filters[r + 1] ELSE bytes[r * w * bpp + i]]

encode_restricted_srgb_rgba_png(w, h, pixels) ==
    Png(<<Header(w, h, 8, TruecolorAlpha), chunk("sRGB", <<0>>),
          chunk("IDAT", Scanlines(w, h, 4, [r \in 1 .. h |-> 0], pixels)),
          chunk("IEND", << >>)>>)

(***************************************************************************)
(* The two sRGB normalisers.                                               *)
(***************************************************************************)
ColorSignalChunks == {"sRGB", "iCCP", "cICP", "cHRM", "gAMA", "mDCV", "cLLI", "eXIf"}

insert_srgb_chunk(file, intent) ==
    [file EXCEPT !.chunks = <<@[1], chunk("sRGB", <<intent>>)>> \o Tail(@)]

(* normalize_brand_png_srgb: no sRGB or iCCP chunk in, the sRGB chunk and  *)
(* the same image data out.                                                *)
normalize_brand_png_srgb(file) ==
    LET before == inspect_png_bytes(file)
        output == insert_srgb_chunk(file, 0)
        after == inspect_png_bytes(output)
    IN  IF /\ before.ok
           /\ before.color_profile[1] = "none"
           /\ after.ok
           /\ after.color_profile = <<"srgb", 0>>
           /\ idat_payload(file.chunks) = idat_payload(output.chunks)
        THEN [ok |-> TRUE, png |-> output]
        ELSE Refused

(* normalize_png_srgb additionally refuses gamma and chromaticity chunks   *)
(* and judges the result with validate_report.                             *)
normalize_png_srgb(file, intent) ==
    LET before == inspect_png_bytes(file)
        output == insert_srgb_chunk(file, intent)
        after == inspect_png_bytes(output)
    IN  IF /\ before.ok
           /\ before.color_profile[1] = "none"
           /\ \A t \in ColorSignalChunks : At(file.chunks, t) = {}
           /\ after.ok
           /\ after.color_profile = <<"srgb", intent>>
           /\ idat_payload(file.chunks) = idat_payload(output.chunks)
           /\ validate_report(after, [width |-> before.width, height |-> before.height,
                                      bit_depth |-> before.bit_depth,
                                      color_types |-> {before.color_type}])
        THEN [ok |-> TRUE, png |-> output]
        ELSE Refused
=============================================================================
