------------------------------- MODULE Export -------------------------------
(***************************************************************************)
(* The writers of src/src/parser.c: geojson_export and wkt_export, and     *)
(* geojson_parse_geometry, the reader a GeoJSON geometry comes back by.    *)
(*                                                                         *)
(* A writer is a sequence of snprintf calls into one caller buffer of      *)
(* buffer_size bytes.  Each call is made at buffer + written with size     *)
(* buffer_size - written, a size_t: when written is past buffer_size the   *)
(* size wraps to a huge value and the call writes its whole text outside   *)
(* the buffer.  An export is described by the text of its first call, the  *)
(* texts of each coordinate-loop iteration (the loop runs while written <  *)
(* buffer_size) and the text of its closing call.  A coordinate is         *)
(* printed by %.6f.                                                        *)
(***************************************************************************)
EXTENDS Integers, Sequences, Parser

ExSeqs == INSTANCE SequencesExt

CONSTANT ExportGeoms   \* geometries handed to the writers

DigitChar(k) == SubSeq(DigitChars, k + 1, k + 1)

\* The decimal numeral of a natural number.
RECURSIVE NatStr(_)
NatStr(n) == IF n < 10 THEN DigitChar(n) ELSE NatStr(n \div 10) \o DigitChar(n % 10)

\* The last k digits of f, with leading zeros.
RECURSIVE Digits(_, _)
Digits(f, k) == IF k = 0 THEN "" ELSE Digits(f \div 10, k - 1) \o DigitChar(f % 10)

\* n / d in millionths, rounded to nearest, ties to even.
Millionths(n, d) ==
    LET q == (n * 1000000) \div d
        r == (n * 1000000) % d
    IN  IF 2 * r > d \/ (2 * r = d /\ q % 2 = 1) THEN q + 1 ELSE q

\* printf("%.6f") of the number n / d (d > 0): the sign of a negative
\* value is printed even when it rounds to zero.
Fixed6Of(neg, q) ==
    (IF neg THEN "-" ELSE "") \o NatStr(q \div 1000000) \o "." \o Digits(q % 1000000, 6)

Fixed6(n, d) == Fixed6Of(n < 0, Millionths(IF n < 0 THEN -n ELSE n, d))

X6(p) == Fixed6(p.x, p.d)
Y6(p) == Fixed6(p.y, p.d)

Ex(head, iters, tail) == [head |-> head, iters |-> iters, tail |-> tail]

\* Mutant of geojson_export: the comma goes before every point after the
\* second, not the first.
GeojsonExportSkipComma(g) ==
    LET pt(p)   == "[" \o X6(p) \o "," \o Y6(p) \o "]"
        iters   == [i \in DOMAIN g.pts |-> IF i > 2 THEN <<",", pt(g.pts[i])>> ELSE <<pt(g.pts[i])>>]
    IN  CASE g.type = "point" ->
               Ex("{\"type\":\"Point\",\"coordinates\":[" \o X6(g.pts[1]) \o "," \o Y6(g.pts[1]) \o "]}",
                  <<>>, "")
          [] g.type = "linestring" ->
               Ex("{\"type\":\"LineString\",\"coordinates\":[", iters, "]}")
          [] g.type = "polygon" ->
               Ex("{\"type\":\"Polygon\",\"coordinates\":[[", iters, "]]}")

\* geojson_export: a point is one call; a linestring, and a polygon's
\* exterior ring, are "[x,y]" per point with "," before all but the
\* first.  Polygon holes are not written.
GeojsonExport(g) ==
    LET pt(p)   == "[" \o X6(p) \o "," \o Y6(p) \o "]"
        iters   == [i \in DOMAIN g.pts |-> IF i > 1 THEN <<",", pt(g.pts[i])>> ELSE <<pt(g.pts[i])>>]
    IN  CASE g.type = "point" ->
               Ex("{\"type\":\"Point\",\"coordinates\":[" \o X6(g.pts[1]) \o "," \o Y6(g.pts[1]) \o "]}",
                  <<>>, "")
          [] g.type = "linestring" ->
               Ex("{\"type\":\"LineString\",\"coordinates\":[", iters, "]}")
          [] g.type = "polygon" ->
               Ex("{\"type\":\"Polygon\",\"coordinates\":[[", iters, "]]}")

\* wkt_export: "x y" per point, ", " before all but the first.
WktExport(g) ==
    LET pt(p)   == X6(p) \o " " \o Y6(p)
        iters   == [i \in DOMAIN g.pts |-> IF i > 1 THEN <<", ", pt(g.pts[i])>> ELSE <<pt(g.pts[i])>>]
    IN  CASE g.type = "point" ->
               Ex("POINT (" \o X6(g.pts[1]) \o " " \o Y6(g.pts[1]) \o ")", <<>>, "")
          [] g.type = "linestring" -> Ex("LINESTRING (", iters, ")")
          [] g.type = "polygon" -> Ex("POLYGON ((", iters, "))")

(***************************************************************************)
(* The snprintf calls of a writer into a buffer of size bytes.             *)
(***************************************************************************)
Call(at, text) == [at |-> at, text |-> text]

\* One loop iteration from written = w: its calls, one after the other.
IterCalls(w, it) ==
    [k \in DOMAIN it |-> Call(w + ExSeqs!FoldLeft(LAMBDA n, t : n + Len(t), 0, SubSeq(it, 1, k - 1)), it[k])]

IterLen(it) == ExSeqs!FoldLeft(LAMBDA n, t : n + Len(t), 0, it)

\* The loop: an iteration runs while written < buffer_size.
LoopFrom(st, size, it) ==
    IF st.w < size THEN [w |-> st.w + IterLen(it), calls |-> st.calls \o IterCalls(st.w, it)]
    ELSE st

\* Every call the writer makes, in order; a point writes one call.
WriterCalls(ex, size) ==
    LET body == ExSeqs!FoldLeft(LAMBDA st, it : LoopFrom(st, size, it),
                              [w |-> Len(ex.head), calls |-> <<Call(0, ex.head)>>], ex.iters)
    IN  IF ex.tail = "" THEN body.calls ELSE Append(body.calls, Call(body.w, ex.tail))

\* The return value: the sum of what each snprintf would have written.
Written(calls) == calls[Len(calls)].at + Len(calls[Len(calls)].text)

\* The whole text, as it is in the buffer when it fits.
FullText(calls) == ExSeqs!FoldLeft(LAMBDA acc, c : acc \o c.text, "", calls)

\* geojson_parse_geometry: parse_value, then parse_geojson_geometry.
GeojsonGeometryOf(root) ==
    IF root.err # "ok" THEN GeomRes(root.err, NoGeom) ELSE ParseGeojsonGeometry(root.val)

GeojsonParseGeometry(s) == GeojsonGeometryOf(ParseValue(s, 1))

(***************************************************************************)
(* Properties.                                                             *)
(***************************************************************************)
\* Coordinate b read back for a, n/d: within half a millionth of it.
CloseTo(bn, bd, an, ad) ==
    LET diff == IF bn * ad >= an * bd THEN bn * ad - an * bd ELSE an * bd - bn * ad
    IN  diff <= (ad * bd) \div 2000000

ClosePoints(qs, ps) ==
    /\ Len(qs) = Len(ps)
    /\ \A i \in DOMAIN ps : CloseTo(qs[i].x, qs[i].d, ps[i].x, ps[i].d) /\ CloseTo(qs[i].y, qs[i].d, ps[i].y, ps[i].d)

\* The geometry read back from an export of g: its type and exterior.
ReadsBack(r, g) == r.err = "ok" /\ r.geom.type = g.type /\ ClosePoints(r.geom.pts, g.pts)

WktReadsBack(w, g) == w.err = "ok" /\ ReadsBack([err |-> "ok", geom |-> w.obj.geom], g)

\* The text a writer leaves in a buffer it fits in.
TextOf(ex) == FullText(WriterCalls(ex, 1000000))

\* Written to a buffer one byte longer than its text, geojson_export
\* returns the text's length, and geojson_parse_geometry reads back the
\* type and every exterior point to within half a millionth (%.6f, then
\* strtod); so does wkt_parse for wkt_export of a point or a linestring.
\* A coordinate with more decimals is rounded, not kept; holes are not
\* written; wkt_parse of a one-ring POLYGON reads no points (README).
ExportRoundTrip ==
    \A g \in ExportGeoms :
        LET gc == WriterCalls(GeojsonExport(g), Len(TextOf(GeojsonExport(g))) + 1)
        IN  /\ Written(gc) = Len(FullText(gc))
            /\ ReadsBack(GeojsonParseGeometry(FullText(gc)), g)
            /\ g.type # "polygon" => WktReadsBack(WktParse(TextOf(WktExport(g))), g)

\* No snprintf of a writer is made at an offset past the end of a buffer of
\* size bytes, where buffer_size - written would wrap around.
ExportInBufferOf(size) ==
    \A g \in ExportGeoms :
        \A c \in ExSeqs!ToSet(WriterCalls(GeojsonExport(g), size) \o WriterCalls(WktExport(g), size)) :
            c.at <= size

ExportInBuffer == \A size \in 1..64 : ExportInBufferOf(size)

=============================================================================
