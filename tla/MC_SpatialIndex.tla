--------------------------- MODULE MC_SpatialIndex ---------------------------
(***************************************************************************)
(* Model values for SpatialIndex: a 3x3 grid, pages of 2 objects, tracks   *)
(* of 3 page slots, blocks of 1 point.  Two shapes: a point and a          *)
(* horizontal segment whose MBR reaches the point's column.                *)
(***************************************************************************)
EXTENDS SpatialIndex

GeomPoint(x, y) == [type |-> "point", pts |-> <<Pt(x, y)>>, holes |-> <<>>]

GeomLine(ps) == [type |-> "linestring", pts |-> ps, holes |-> <<>>]

\* The point (2, 2), and the segment (0, 0)-(2, 0): centroid (1, 0).
MC_Geoms == {GeomPoint(2, 2), GeomLine(<<Pt(0, 0), Pt(2, 0)>>)}

\* The point alone, where the documents bring the other shapes.
MC_OnePoint == {GeomPoint(2, 2)}

\* One array of two copies of the point, inserted by one bulk call.
MC_BulkInputs == {<<GeomPoint(2, 2), GeomPoint(2, 2)>>}

MC_Ranges == {MbrCreate(0, 0, 0, 0), MbrCreate(1, 1, 2, 2), MbrCreate(0, 0, 2, 2)}

MC_QueryPoints == {Pt(0, 0), Pt(2, 1)}

MC_Ks == {1, 2}

\* A FeatureCollection of a point and of the square (0, 0)-(2, 2) with a
\* hole, spaced and numbered the way GeoJSON writers do ("2.0", 2e0).
MC_FeatureCollection ==
    "{ \"type\": \"FeatureCollection\",\n  \"features\": [\n" \o
    "  {\"type\": \"Feature\", \"properties\": {\"name\": \"a\\\"b\"},\n" \o
    "   \"geometry\": {\"type\": \"Point\", \"coordinates\": [2.0, 2]}},\n" \o
    "  {\"type\": \"Feature\", \"geometry\": {\"type\": \"Polygon\", \"coordinates\":\n" \o
    "    [[[0, 0], [2e0, 0], [2, 2], [0, 2.00]], [[0.5, 0.5], [1, 0.5], [1, 1]]]}}\n" \o
    "  ] }"

\* A WKT segment, lower case and unspaced.
MC_WktLine == "linestring(0 0,2 0)"

\* No documents, for the runs about the index alone.
MC_NoDocShapes == [d \in {} |-> <<>>]

MC_GeojsonDocs == {MC_FeatureCollection}

MC_WktDocs == {MC_WktLine}

\* What spec C10 and section 3 say the documents hold: the point, the
\* square's exterior centroid (1, 1) and MBR, the segment's midpoint.
MC_DocShapes ==
    [d \in {MC_FeatureCollection, MC_WktLine} |->
        IF d = MC_WktLine THEN <<[c |-> Pt(1, 0), mbr |-> MbrCreate(0, 0, 2, 0)]>>
        ELSE <<[c |-> Pt(2, 2), mbr |-> MbrCreate(2, 2, 2, 2)],
               [c |-> Pt(1, 1), mbr |-> MbrCreate(0, 0, 2, 2)]>>]

=============================================================================
