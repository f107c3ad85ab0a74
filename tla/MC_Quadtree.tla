----------------------------- MODULE MC_Quadtree -----------------------------
(* A 4 x 4 root, split twice down to unit cells: boxes inside one cell, one *)
(* straddling the centre, and one outside the root.                        *)
EXTENDS Quadtree

MC_Root == MbrCreate(0, 0, 4, 4)

MC_Boxes == {MbrCreate(0, 0, 1, 1), MbrCreate(1, 1, 3, 3), MbrCreate(3, 3, 4, 4),
             MbrCreate(0, 3, 1, 4), MbrCreate(5, 5, 6, 6)}

MC_Ranges == {MbrCreate(0, 0, 0, 0), MbrCreate(2, 2, 2, 2), MbrCreate(3, 0, 4, 4),
              MbrCreate(0, 0, 4, 4)}

\* The centre (on every split line), a corner cell and the root's corner.
MC_QueryPoints == {Pt(2, 2), Pt(1, 3), Pt(0, 0)}

=============================================================================
