--------------------------- MODULE MC_Persistence ---------------------------
(***************************************************************************)
(* Persistence with the query sets of MC_SpatialIndex and one geometry:  *)
(* the round trip is about which ids come back, and one geometry keeps    *)
(* processes' states small enough to explore.  The text writers of        *)
(* Export are checked here too, on three geometries.                       *)
(***************************************************************************)
EXTENDS Persistence, Export, MC_SpatialIndex

\* For the writers: a point with a negative half, a segment through a
\* third (six decimals cannot hold it), and the square with a hole.
MC_ExportGeoms ==
    {[type |-> "point", pts |-> <<RatPt(-1, 6, 2)>>, holes |-> <<>>],
     GeomLine(<<Pt(0, 0), RatPt(1, 6, 3), Pt(2, 0)>>),
     [type |-> "polygon", pts |-> <<Pt(0, 0), Pt(2, 0), Pt(2, 2), Pt(0, 2)>>,
      holes |-> <<<<RatPt(1, 1, 2), Pt(1, 1), RatPt(2, 1, 2)>>>>]}

MC_OneGeom == {GeomLine(<<Pt(0, 0), Pt(2, 0)>>)}

\* The writers' round trip is a fact about constants, checked once when
\* the model is loaded (ExportRoundTrip in Export).
ASSUME ExportRoundTrip

=============================================================================
