------------------------------- MODULE Parser -------------------------------
(***************************************************************************)
(* The GeoJSON and WKT readers of src/src/parser.c, as operators from a    *)
(* text to the objects the facade inserts.                                 *)
(*                                                                         *)
(* A text is a TLA+ string; position p is 1-based and Ch(s, p) is "" past  *)
(* the end, as peek returns '\0'.  Every reader returns a record with err  *)
(* ("ok", "syntax", "invalid_geom", "unsupported"), a value and the next   *)
(* position.  Numbers are read as strtod reads decimal numerals, exactly,  *)
(* as rationals; hexadecimal, infinity and NaN forms are not modelled.     *)
(* Line/column bookkeeping and error messages are left out: no caller      *)
(* reads them.  A parsed object is [id, geom], geom as in Geometry.        *)
(*                                                                         *)
(* Each step of a C function is an operator that is handed the result of   *)
(* the step before as a parameter (ArrayOpen gets expect's result, and so  *)
(* on), so that every intermediate result is computed once.                *)
(***************************************************************************)
EXTENDS Integers, Sequences, Geometry

Ch(s, i) == IF i >= 1 /\ i <= Len(s) THEN SubSeq(s, i, i) ELSE ""

Res(e, v, p) == [err |-> e, val |-> v, pos |-> p]
NoValue == [type |-> "none"]
Fail(e, p) == Res(e, NoValue, p)

\* JsonValue, by type.
JString(t) == [type |-> "string", str |-> t]
JNumber(r) == [type |-> "number", num |-> r]
JBool(b) == [type |-> "bool", b |-> b]
JNull == [type |-> "null"]
JArray(items) == [type |-> "array", items |-> items]
JObject(ks, vs) == [type |-> "object", keys |-> ks, vals |-> vs]

(***************************************************************************)
(* Lexical helpers.                                                        *)
(***************************************************************************)
\* skip_whitespace: ' ', '\t', '\r', '\n'.
RECURSIVE SkipWhitespace(_, _)
SkipWhitespace(s, p) ==
    IF Ch(s, p) \in {" ", "\t", "\r", "\n"} THEN SkipWhitespace(s, p + 1) ELSE p

\* expect: skip whitespace, then the character c or a syntax error.
ExpectAt(s, q, c) == IF Ch(s, q) = c THEN Res("ok", NoValue, q + 1) ELSE Fail("syntax", q)
Expect(s, p, c) == ExpectAt(s, SkipWhitespace(s, p), c)

\* isdigit, and the value of a digit.
DigitChars == "0123456789"
DigitValue == [c \in {Ch(DigitChars, k) : k \in 1..10} |->
                  CHOOSE v \in 0..9 : Ch(DigitChars, v + 1) = c]
IsDigit(c) == c \in DOMAIN DigitValue

\* The run of digits from i: its end, the number it extends v to, its length.
RECURSIVE DigitRun(_, _, _, _)
DigitRun(s, i, v, n) ==
    IF IsDigit(Ch(s, i)) THEN DigitRun(s, i + 1, 10 * v + DigitValue[Ch(s, i)], n + 1)
    ELSE [end |-> i, val |-> v, n |-> n]

(***************************************************************************)
(* strtod on a decimal numeral: sign, digits, '.', digits, and an exponent *)
(* only when digits follow it.  ok is FALSE when no digit is read (end ==  *)
(* start); the value is exact: [n, d].                                     *)
(***************************************************************************)
SignLen(s, p) == IF Ch(s, p) \in {"+", "-"} THEN 1 ELSE 0

\* The exponent at e, given the digit run r after its sign: [end, val].
ExponentFrom(s, e, r) ==
    IF Ch(s, e) \in {"e", "E"} /\ r.n > 0
    THEN [end |-> r.end, val |-> IF Ch(s, e + 1) = "-" THEN -r.val ELSE r.val]
    ELSE [end |-> e, val |-> 0]

Exponent(s, e) == ExponentFrom(s, e, DigitRun(s, e + 1 + SignLen(s, e + 1), 0, 0))

\* The mantissa from the integer digits ip and the fraction digits fp,
\* which extend ip's value: [end, val, digits, frac].
MantissaFrom(ip, fp) == [end |-> fp.end, val |-> fp.val, digits |-> ip.n + fp.n, frac |-> fp.n]

Mantissa(s, ip) ==
    IF Ch(s, ip.end) = "." THEN MantissaFrom(ip, DigitRun(s, ip.end + 1, ip.val, 0))
    ELSE MantissaFrom(ip, [end |-> ip.end, val |-> ip.val, n |-> 0])

\* n / 10^k with trailing zeros cancelled: the same number, kept small.
RECURSIVE Reduce10(_, _)
Reduce10(n, k) == IF k > 0 /\ n % 10 = 0 THEN Reduce10(n \div 10, k - 1) ELSE [n |-> n, d |-> 10^k]

\* m.val * 10^(e - m.frac), negated when neg.
Decimal(neg, m, e) ==
    LET v == IF neg THEN -m.val ELSE m.val
    IN  IF e >= m.frac THEN [n |-> v * 10^(e - m.frac), d |-> 1]
        ELSE Reduce10(v, m.frac - e)

StrtodOf(neg, m, ex) == [ok |-> m.digits > 0, end |-> ex.end, num |-> Decimal(neg, m, ex.val)]

StrtodAfter(s, p, m) == StrtodOf(Ch(s, p) = "-", m, Exponent(s, m.end))

Strtod(s, p) == StrtodAfter(s, p, Mantissa(s, DigitRun(s, p + SignLen(s, p), 0, 0)))

(***************************************************************************)
(* JSON (parse_string, parse_number, parse_array, parse_object,            *)
(* parse_value).                                                           *)
(***************************************************************************)
\* The scan of parse_string from i: up to an unescaped quote or the end; a
\* backslash takes the next character with it.  len counts the decoded
\* characters, not the raw ones.
RECURSIVE StrScan(_, _, _)
StrScan(s, i, n) ==
    IF i > Len(s) \/ Ch(s, i) = "\"" THEN [at |-> i, len |-> n]
    ELSE IF Ch(s, i) = "\\" /\ i + 1 > Len(s) THEN [at |-> i + 1, len |-> n]
    ELSE IF Ch(s, i) = "\\" THEN StrScan(s, i + 2, n + 1)
    ELSE StrScan(s, i + 1, n + 1)

Unescape(c) == CASE c = "n" -> "\n" [] c = "t" -> "\t" [] c = "r" -> "\r" [] OTHER -> c

\* The copy loop of parse_string: raw positions i in [start, stop), where
\* stop = start + len, decoding an escape whose second character is
\* before stop.
RECURSIVE StrCopy(_, _, _, _)
StrCopy(s, i, stop, acc) ==
    IF i >= stop THEN acc
    ELSE IF Ch(s, i) = "\\" /\ i + 1 < stop
         THEN StrCopy(s, i + 2, stop, acc \o Unescape(Ch(s, i + 1)))
         ELSE StrCopy(s, i + 1, stop, acc \o Ch(s, i))

\* parse_string after the opening quote at start - 1, given the scan e:
\* the copy, and consume() of the closing quote, which reads nothing at
\* the end of the input.
StringFrom(s, start, e) ==
    Res("ok", StrCopy(s, start, start + e.len, ""), IF e.at <= Len(s) THEN e.at + 1 ELSE e.at)

StringAt(s, q) == IF Ch(s, q) # "\"" THEN Fail("syntax", q) ELSE StringFrom(s, q + 1, StrScan(s, q + 1, 0))

ParseString(s, p) == StringAt(s, SkipWhitespace(s, p))

\* parse_number: strtod after whitespace; no digits is a syntax error.
NumberFrom(q, t) == IF ~t.ok THEN Fail("syntax", q) ELSE Res("ok", t.num, t.end)

ParseNumber(s, p) == LET q == SkipWhitespace(s, p) IN NumberFrom(q, Strtod(s, q))

AsString(r) == [r EXCEPT !.val = JString(@)]
AsNumber(r) == [r EXCEPT !.val = JNumber(@)]

RECURSIVE ParseValue(_, _), ParseArray(_, _), ArrayItems(_, _, _), ArrayItem(_, _, _),
          ArrayNext(_, _, _), ArraySep(_, _, _), ParseObject(_, _),
          ObjectMembers(_, _, _, _), MemberKey(_, _, _, _), MemberColon(_, _, _, _, _),
          MemberValue(_, _, _, _), ObjectNext(_, _, _, _), ObjectSep(_, _, _, _)

\* parse_value at q, after whitespace: dispatch on the character there;
\* the literals are matched with strncmp against the rest of the input.
ValueAt(s, q) ==
    LET c == Ch(s, q)
        lit(w) == q + Len(w) - 1 <= Len(s) /\ SubSeq(s, q, q + Len(w) - 1) = w
    IN  IF c = "\"" THEN AsString(ParseString(s, q))
        ELSE IF c = "[" THEN ParseArray(s, q)
        ELSE IF c = "{" THEN ParseObject(s, q)
        ELSE IF c = "t" /\ lit("true") THEN Res("ok", JBool(TRUE), q + 4)
        ELSE IF c = "f" /\ lit("false") THEN Res("ok", JBool(FALSE), q + 5)
        ELSE IF c = "n" /\ lit("null") THEN Res("ok", JNull, q + 4)
        ELSE IF c = "-" \/ IsDigit(c) THEN AsNumber(ParseNumber(s, q))
        ELSE Fail("syntax", q)

ParseValue(s, p) == ValueAt(s, SkipWhitespace(s, p))

\* parse_array: expect '[', then ']' or items separated by ','.
ArrayOpen(s, o) ==
    LET q == SkipWhitespace(s, o.pos)
    IN  IF o.err # "ok" THEN Fail("syntax", o.pos)
        ELSE IF Ch(s, q) = "]" THEN Res("ok", JArray(<<>>), q + 1)
        ELSE ArrayItems(s, q, <<>>)

ParseArray(s, p) == ArrayOpen(s, Expect(s, p, "["))

\* The item loop of parse_array: parse_value (its error is returned as it
\* is), then ']' ends the array, else expect ','.
ArrayItems(s, p, items) == ArrayItem(s, ParseValue(s, p), items)

ArrayItem(s, v, items) ==
    IF v.err # "ok" THEN v ELSE ArrayNext(s, SkipWhitespace(s, v.pos), Append(items, v.val))

ArrayNext(s, q, items) ==
    IF Ch(s, q) = "]" THEN Res("ok", JArray(items), q + 1) ELSE ArraySep(s, Expect(s, q, ","), items)

ArraySep(s, c, items) == IF c.err # "ok" THEN Fail("syntax", c.pos) ELSE ArrayItems(s, c.pos, items)

\* parse_object: expect '{', then '}' or "key": value members separated
\* by ','.
ObjectOpen(s, o) ==
    LET q == SkipWhitespace(s, o.pos)
    IN  IF o.err # "ok" THEN Fail("syntax", o.pos)
        ELSE IF Ch(s, q) = "}" THEN Res("ok", JObject(<<>>, <<>>), q + 1)
        ELSE ObjectMembers(s, q, <<>>, <<>>)

ParseObject(s, p) == ObjectOpen(s, Expect(s, p, "{"))

\* The member loop of parse_object: the key, expect ':', the value, then
\* '}' ends the object, else expect ','.
ObjectMembers(s, p, keys, vals) == MemberKey(s, ParseString(s, p), keys, vals)

MemberKey(s, k, keys, vals) ==
    IF k.err # "ok" THEN k ELSE MemberColon(s, k.val, Expect(s, k.pos, ":"), keys, vals)

MemberColon(s, key, col, keys, vals) ==
    IF col.err # "ok" THEN Fail("syntax", col.pos)
    ELSE MemberValue(s, ParseValue(s, col.pos), Append(keys, key), vals)

MemberValue(s, v, keys, vals) ==
    IF v.err # "ok" THEN v ELSE ObjectNext(s, SkipWhitespace(s, v.pos), keys, Append(vals, v.val))

ObjectNext(s, q, keys, vals) ==
    IF Ch(s, q) = "}" THEN Res("ok", JObject(keys, vals), q + 1)
    ELSE ObjectSep(s, Expect(s, q, ","), keys, vals)

ObjectSep(s, c, keys, vals) ==
    IF c.err # "ok" THEN Fail("syntax", c.pos) ELSE ObjectMembers(s, c.pos, keys, vals)

\* json_object_get: the value of the first member named key, or NULL.
JsonObjectGet(v, key) ==
    IF v.type # "object" \/ \A i \in DOMAIN v.keys : v.keys[i] # key THEN NoValue
    ELSE v.vals[CHOOSE i \in DOMAIN v.keys :
                    v.keys[i] = key /\ \A j \in 1..(i - 1) : v.keys[j] # key]

(***************************************************************************)
(* GeoJSON (parse_coordinates_point, parse_geojson_geometry,               *)
(* parse_geojson_feature, geojson_parse_string).                           *)
(***************************************************************************)
\* A point from two numbers [n, d], kept exact.
NumsToPt(a, b) == RatPt(a.n * b.d, b.n * a.d, a.d * b.d)

\* parse_coordinates_point: an array of at least two numbers.
CoordsPointOk(v) ==
    /\ v.type = "array" /\ Len(v.items) >= 2
    /\ v.items[1].type = "number" /\ v.items[2].type = "number"

CoordsPoint(v) == NumsToPt(v.items[1].num, v.items[2].num)

AllPointsOk(arr) == \A i \in DOMAIN arr.items : CoordsPointOk(arr.items[i])

PointsOf(arr) == [i \in DOMAIN arr.items |-> CoordsPoint(arr.items[i])]

Geom(t, ps, hs) == [type |-> t, pts |-> ps, holes |-> hs]
NoGeom == Geom("none", <<>>, <<>>)
GeomRes(e, g) == [err |-> e, geom |-> g]

\* The holes of a polygon from its rings after the first.  A ring that is
\* not an array is skipped; every other ring opens a hole, and its points
\* that parse are added with polygon_add_hole_point(.., h - 1, ..), which
\* is out of range, and rejected, once an earlier ring was skipped.
HoleOf(rings, h) ==
    IF \A j \in 1..h : rings[j].type = "array"
    THEN PointsOf(JArray(SelectSeq(rings[h].items, CoordsPointOk)))
    ELSE <<>>

PolygonHoles(rings) ==
    LET hs == SelectSeq([h \in DOMAIN rings |-> h], LAMBDA h : rings[h].type = "array")
    IN  [i \in DOMAIN hs |-> HoleOf(rings, hs[i])]

\* The Polygon case: the first ring is the exterior, every point of it
\* must parse.
PolygonOf(cs) ==
    IF \/ cs.type # "array" \/ Len(cs.items) < 1
       \/ cs.items[1].type # "array" \/ ~AllPointsOk(cs.items[1])
    THEN GeomRes("invalid_geom", NoGeom)
    ELSE GeomRes("ok", Geom("polygon", PointsOf(cs.items[1]), PolygonHoles(Tail(cs.items))))

\* parse_geojson_geometry, given its "type" and "coordinates" members.
\* spatial_object_update_derived runs on linestrings and polygons and its
\* result is ignored.
GeometryOf(t, cs) ==
    IF t.type # "string" \/ cs.type = "none" THEN GeomRes("invalid_geom", NoGeom)
    ELSE IF t.str = "Point" THEN
        IF CoordsPointOk(cs) THEN GeomRes("ok", Geom("point", <<CoordsPoint(cs)>>, <<>>))
        ELSE GeomRes("invalid_geom", NoGeom)
    ELSE IF t.str = "LineString" THEN
        IF cs.type # "array" \/ ~AllPointsOk(cs) THEN GeomRes("invalid_geom", NoGeom)
        ELSE GeomRes("ok", Geom("linestring", PointsOf(cs), <<>>))
    ELSE IF t.str = "Polygon" THEN PolygonOf(cs)
    ELSE GeomRes("unsupported", NoGeom)

ParseGeojsonGeometry(v) == GeometryOf(JsonObjectGet(v, "type"), JsonObjectGet(v, "coordinates"))

\* (uint64_t) of a feature's numeric id: truncation; the documents' ids
\* are non-negative.
NumToId(r) == r.n \div r.d

\* parse_geojson_feature after the geometry member parsed to r: a numeric
\* "id" becomes the object's id (a string id goes to id_str, which the
\* index never reads).
FeatureWith(r, idv) ==
    IF r.err # "ok" THEN [err |-> r.err]
    ELSE [err |-> "ok", obj |-> [id |-> IF idv.type = "number" THEN NumToId(idv.num) ELSE 0,
                                 geom |-> r.geom]]

FeatureOf(f, gv) ==
    IF gv.type = "none" THEN [err |-> "invalid_geom"]
    ELSE FeatureWith(ParseGeojsonGeometry(gv), JsonObjectGet(f, "id"))

ParseGeojsonFeature(f) == FeatureOf(f, JsonObjectGet(f, "geometry"))

\* The objects of the features that parsed, in order (feature_collection_add).
OkObjects(rs) == LET ok == SelectSeq(rs, LAMBDA r : r.err = "ok")
                 IN  [i \in DOMAIN ok |-> ok[i].obj]

Collected(objs) == [err |-> "ok", objects |-> objs]
NoCollection(e) == [err |-> e, objects |-> <<>>]

\* A FeatureCollection keeps the features that parse.
CollectionOf(fs) ==
    IF fs.type # "array" THEN NoCollection("syntax")
    ELSE Collected(OkObjects([i \in DOMAIN fs.items |-> ParseGeojsonFeature(fs.items[i])]))

\* A bare geometry is kept if it parses, with id 0.
BareGeometry(r) == IF r.err = "ok" THEN <<[id |-> 0, geom |-> r.geom]>> ELSE <<>>

\* geojson_parse_string after parse_value: the root must be an object with
\* a string "type".  A FeatureCollection needs a "features" array, a
\* Feature is kept if it parses, any other type is read as a bare
\* geometry.  Text after the root value is not looked at.
RootOf(rv, t) ==
    IF rv.type # "object" \/ t.type # "string" THEN NoCollection("syntax")
    ELSE IF t.str = "FeatureCollection" THEN CollectionOf(JsonObjectGet(rv, "features"))
    ELSE IF t.str = "Feature" THEN Collected(OkObjects(<<ParseGeojsonFeature(rv)>>))
    ELSE Collected(BareGeometry(ParseGeojsonGeometry(rv)))

ParsedRoot(root) ==
    IF root.err # "ok" THEN NoCollection(root.err) ELSE RootOf(root.val, JsonObjectGet(root.val, "type"))

GeojsonParseString(s) == ParsedRoot(ParseValue(s, 1))

(***************************************************************************)
(* WKT (wkt_parse).                                                        *)
(***************************************************************************)
\* isspace; '\v' has no TLA+ escape and is left out.
IsSpace(c) == c \in {" ", "\t", "\n", "\r", "\f"}

LowerChars == "abcdefghijklmnopqrstuvwxyz"
UpperChars == "ABCDEFGHIJKLMNOPQRSTUVWXYZ"
UpperOf == [c \in {Ch(LowerChars, k) : k \in 1..26} |->
               Ch(UpperChars, CHOOSE k \in 1..26 : Ch(LowerChars, k) = c)]
ToUpperCh(c) == IF c \in DOMAIN UpperOf THEN UpperOf[c] ELSE c

\* strncasecmp(s + p - 1, w, Len(w)) = 0, for an upper-case w.
KeywordAt(s, p, w) == \A i \in 1..Len(w) : ToUpperCh(Ch(s, p + i - 1)) = Ch(w, i)

\* while (*wkt && P(*wkt)) wkt++, for the predicates of wkt_parse.
RECURSIVE SkipSpace(_, _), SkipSpaceParen(_, _), SkipToParen(_, _), SkipToSep(_, _)
SkipSpace(s, p) == IF IsSpace(Ch(s, p)) THEN SkipSpace(s, p + 1) ELSE p
SkipSpaceParen(s, p) == IF IsSpace(Ch(s, p)) \/ Ch(s, p) = "(" THEN SkipSpaceParen(s, p + 1) ELSE p
SkipToParen(s, p) == IF Ch(s, p) \notin {"", "("} THEN SkipToParen(s, p + 1) ELSE p
SkipToSep(s, p) == IF Ch(s, p) \notin {"", ",", ")"} THEN SkipToSep(s, p + 1) ELSE p

\* sscanf(s + p - 1, "%lf %lf", &x, &y): the number of conversions and
\* the point; each %lf skips white space and reads as strtod does.
ScanPairOf(a, b) ==
    [n  |-> IF ~a.ok THEN 0 ELSE IF ~b.ok THEN 1 ELSE 2,
     pt |-> IF a.ok /\ b.ok THEN NumsToPt(a.num, b.num) ELSE Pt(0, 0)]

ScanPairFrom(s, a) == ScanPairOf(a, Strtod(s, SkipSpace(s, a.end)))

ScanPair(s, p) == ScanPairFrom(s, Strtod(s, SkipSpace(s, p)))

KeepPair(acc, sc) == IF sc.n = 2 THEN Append(acc, sc.pt) ELSE acc

\* Past the ',' the separator scan stopped at, and white space.
PastSep(s, q) == SkipSpace(s, IF Ch(s, q) = "," THEN q + 1 ELSE q)

\* The coordinate loop of wkt_parse: until ')' or the end, keep a pair
\* that scans, skip to the next ',' or ')', past a ',' and white space.
RECURSIVE WktPoints(_, _, _)
WktPoints(s, p, acc) ==
    IF Ch(s, p) \in {"", ")"} THEN acc
    ELSE WktPoints(s, PastSep(s, SkipToSep(s, p)), KeepPair(acc, ScanPair(s, p)))

WktObj(t, pts) == [err |-> "ok", obj |-> [id |-> 0, geom |-> Geom(t, pts, <<>>)]]

WktPoint(sc) == IF sc.n # 2 THEN [err |-> "syntax"] ELSE WktObj("point", <<sc.pt>>)

\* POLYGON: past the '(' the scan for the first ring stopped at.
WktPolygonAt(s, gp) == WktObj("polygon", WktPoints(s, IF Ch(s, gp) = "(" THEN gp + 1 ELSE gp, <<>>))

\* wkt_parse from the keyword at p0: after it, white space and '(' are
\* skipped; a POLYGON then skips to the next '(' before reading points.
WktParseAt(s, p0) ==
    IF KeywordAt(s, p0, "POINT") THEN WktPoint(ScanPair(s, SkipSpaceParen(s, p0 + 5)))
    ELSE IF KeywordAt(s, p0, "LINESTRING")
         THEN WktObj("linestring", WktPoints(s, SkipSpaceParen(s, p0 + 10), <<>>))
    ELSE IF KeywordAt(s, p0, "POLYGON")
         THEN WktPolygonAt(s, SkipToParen(s, SkipSpaceParen(s, p0 + 7)))
    ELSE [err |-> "unsupported"]

WktParse(s) == WktParseAt(s, SkipSpace(s, 1))

=============================================================================
