------------------------- MODULE MC_SpatialIndexClear -------------------------
(***************************************************************************)
(* SpatialIndexClear with the model values of MC_SpatialIndex.             *)
(***************************************************************************)
EXTENDS SpatialIndexClear, MC_SpatialIndex

=============================================================================
