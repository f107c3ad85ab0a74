------------------------------ MODULE Geometry ------------------------------
(***************************************************************************)
(* Points and minimum bounding rectangles of src/src/geometry.c.           *)
(*                                                                         *)
(* Coordinates are integers.  An MBR is a record of four bounds; the empty *)
(* MBR of mbr_empty() uses DBL_MAX sentinels, modelled by Big, a constant  *)
(* larger than every coordinate the model uses.  A point is an exact       *)
(* rational [x, y, d] (x/d, y/d): page centroids are means of object       *)
(* centroids, and the k-d tree compares them, so they are kept exact.      *)
(***************************************************************************)
EXTENDS Integers, Sequences, FiniteSetsExt

CONSTANT Big

ASSUME Big \in Nat \ {0}

Pt(x, y) == [x |-> x, y |-> y, d |-> 1]

\* Coordinate of p on split dimension dim (0 = x, 1 = y), as numerator.
Coord(p, dim) == IF dim = 0 THEN p.x ELSE p.y

\* A rational [n, d] with d >= 0; d = 0 stands for DBL_MAX.
Rat(n, d) == [n |-> n, d |-> d]
RatInf == Rat(1, 0)
RatLess(r, s) == r.n * s.d < s.n * r.d

\* point_distance_sq(a, b), exactly.
DistSq(a, b) ==
    LET dx == a.x * b.d - b.x * a.d
        dy == a.y * b.d - b.y * a.d
    IN  Rat(dx * dx + dy * dy, (a.d * b.d) * (a.d * b.d))

\* Signed (coord(q) - split) on dimension dim, and its square.
CoordDiff(q, p, dim) == Rat(Coord(q, dim) * p.d - Coord(p, dim) * q.d, q.d * p.d)
RatSq(r) == Rat(r.n * r.n, r.d * r.d)

\* Strict comparison of two points on one dimension.
CoordLess(p, q, dim) == Coord(p, dim) * q.d < Coord(q, dim) * p.d

SamePoint(p, q) == p.x * q.d = q.x * p.d /\ p.y * q.d = q.y * p.d

(***************************************************************************)
(* MBR operations.                                                         *)
(***************************************************************************)
MbrCreate(x1, y1, x2, y2) == [minx |-> x1, miny |-> y1, maxx |-> x2, maxy |-> y2]

MbrEmpty == MbrCreate(Big, Big, -Big, -Big)

MbrIsEmpty(m) == m.minx > m.maxx \/ m.miny > m.maxy

Lo(a, b) == IF a < b THEN a ELSE b
Hi(a, b) == IF a > b THEN a ELSE b

\* mbr_expand_point for an integral point.
MbrExpandPoint(m, p) ==
    MbrCreate(Lo(m.minx, p.x), Lo(m.miny, p.y), Hi(m.maxx, p.x), Hi(m.maxy, p.y))

\* mbr_expand_mbr: an empty other leaves m unchanged.
MbrExpandMbr(m, o) ==
    IF MbrIsEmpty(o) THEN m
    ELSE MbrCreate(Lo(m.minx, o.minx), Lo(m.miny, o.miny),
                   Hi(m.maxx, o.maxx), Hi(m.maxy, o.maxy))

MbrIntersects(a, b) ==
    /\ ~MbrIsEmpty(a)
    /\ ~MbrIsEmpty(b)
    /\ ~(a.maxx < b.minx \/ a.minx > b.maxx \/ a.maxy < b.miny \/ a.miny > b.maxy)

MbrContainsMbr(a, b) ==
    /\ ~MbrIsEmpty(a)
    /\ ~MbrIsEmpty(b)
    /\ b.minx >= a.minx /\ b.maxx <= a.maxx /\ b.miny >= a.miny /\ b.maxy <= a.maxy

\* mbr_contains_point, for a point with a positive denominator.
MbrContainsPoint(m, p) ==
    /\ ~MbrIsEmpty(m)
    /\ p.x >= m.minx * p.d /\ p.x <= m.maxx * p.d
    /\ p.y >= m.miny * p.d /\ p.y <= m.maxy * p.d

MbrArea(m) == IF MbrIsEmpty(m) THEN 0 ELSE (m.maxx - m.minx) * (m.maxy - m.miny)

\* Union of the MBRs m[i] over a set of indices, starting from mbr_empty().
RECURSIVE MbrUnionOver(_, _)
MbrUnionOver(m, S) ==
    IF S = {} THEN MbrEmpty
    ELSE LET i == CHOOSE i \in S : TRUE
         IN  MbrExpandMbr(MbrUnionOver(m, S \ {i}), m[i])

\* The same MBR, with an empty one normalised, for comparing unions.
MbrNorm(m) == IF MbrIsEmpty(m) THEN MbrEmpty ELSE m


(***************************************************************************)
(* Spatial objects' geometry payloads and their derived fields.           *)
(*                                                                         *)
(* A geometry is [type, pts, holes]: the point (pts = <<p>>), the          *)
(* linestring's points, or the polygon's exterior ring and hole rings, all *)
(* integral.  Derived centroids are exact rationals.  point_distance is a  *)
(* sqrt, exact when the squared length is a perfect square, and the        *)
(* geometries used are those whose segments have whole lengths.            *)
(***************************************************************************)
GeomTypes == {"point", "linestring", "polygon"}

\* An exact point x/d, y/d with d > 0, reduced to d = 1 when integral.
RatPt(nx, ny, d) ==
    LET s == IF d < 0 THEN -1 ELSE 1
        x == s * nx  y == s * ny  e == s * d
    IN  IF x % e = 0 /\ y % e = 0 THEN Pt(x \div e, y \div e) ELSE [x |-> x, y |-> y, d |-> e]

\* point_distance: sqrt of point_distance_sq.
PointDistance(a, b) ==
    LET sq == (b.x - a.x) * (b.x - a.x) + (b.y - a.y) * (b.y - a.y)
    IN  CHOOSE r \in 0..sq : r * r = sq

\* The MBR of a point sequence from mbr_empty() (linestring_mbr,
\* polygon_mbr; both fail on no points, checked by the caller).
PointsMbr(ps) ==
    MbrCreate(Min({ps[i].x : i \in DOMAIN ps}), Min({ps[i].y : i \in DOMAIN ps}),
              Max({ps[i].x : i \in DOMAIN ps}), Max({ps[i].y : i \in DOMAIN ps}))

\* linestring_centroid, count >= 1: the segment midpoints weighted by
\* segment length; a single point, or zero total length, gives point 1.
LinestringCentroid(ls) ==
    LET segs  == 1..(Len(ls) - 1)
        len(i) == PointDistance(ls[i], ls[i + 1])
        total == MapThenSumSet(len, segs)
    IN  IF Len(ls) = 1 \/ total = 0 THEN ls[1]
        ELSE RatPt(MapThenSumSet(LAMBDA i : (ls[i].x + ls[i + 1].x) * len(i), segs),
                   MapThenSumSet(LAMBDA i : (ls[i].y + ls[i + 1].y) * len(i), segs),
                   2 * total)

\* Index of the vertex after i on a closed ring of n vertices.
Nxt(i, n) == (i % n) + 1

\* ring_signed_area, doubled to stay integral.
RingSignedArea2(r) ==
    IF Len(r) < 3 THEN 0
    ELSE MapThenSumSet(LAMBDA i : r[i].x * r[Nxt(i, Len(r))].y - r[Nxt(i, Len(r))].x * r[i].y,
                       DOMAIN r)

\* ring_centroid: the signed-area centroid sum / (6 * area), the vertex
\* average when the area is zero, (0, 0) below 3 vertices.
RingCentroid(r) ==
    LET n == Len(r)
        a2 == RingSignedArea2(r)
        cross(i) == r[i].x * r[Nxt(i, n)].y - r[Nxt(i, n)].x * r[i].y
    IN  IF n < 3 THEN Pt(0, 0)
        ELSE IF a2 = 0
        THEN RatPt(MapThenSumSet(LAMBDA i : r[i].x, DOMAIN r),
                   MapThenSumSet(LAMBDA i : r[i].y, DOMAIN r), n)
        ELSE RatPt(MapThenSumSet(LAMBDA i : (r[i].x + r[Nxt(i, n)].x) * cross(i), DOMAIN r),
                   MapThenSumSet(LAMBDA i : (r[i].y + r[Nxt(i, n)].y) * cross(i), DOMAIN r),
                   3 * a2)

\* The derived fields spatial_object_init_* leave before the geometry is
\* filled in: the point itself, or (0, 0) and mbr_empty().
InitDerived(g) ==
    IF g.type = "point" THEN [c |-> g.pts[1], mbr |-> MbrCreate(g.pts[1].x, g.pts[1].y, g.pts[1].x, g.pts[1].y)]
    ELSE [c |-> Pt(0, 0), mbr |-> MbrEmpty]

\* spatial_object_update_derived: recompute centroid and MBR from the
\* geometry.  A linestring with no points or a polygon with fewer than 3
\* exterior points fails in the centroid step and keeps prev entirely.
SpatialObjectUpdateDerived(g, prev) ==
    CASE g.type = "point" ->
            [c |-> g.pts[1], mbr |-> MbrCreate(g.pts[1].x, g.pts[1].y, g.pts[1].x, g.pts[1].y)]
      [] g.type = "linestring" /\ Len(g.pts) > 0 ->
            [c |-> LinestringCentroid(g.pts), mbr |-> PointsMbr(g.pts)]
      [] g.type = "polygon" /\ Len(g.pts) >= 3 ->
            [c |-> RingCentroid(g.pts), mbr |-> PointsMbr(g.pts)]
      [] OTHER -> prev

\* The derived fields of a freshly built object with geometry g.
Derived(g) == SpatialObjectUpdateDerived(g, InitDerived(g))

=============================================================================
