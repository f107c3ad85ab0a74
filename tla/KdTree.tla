------------------------------- MODULE KdTree -------------------------------
(***************************************************************************)
(* The 2-d tree of src/src/kdtree.c as pure operators over tree values.    *)
(*                                                                         *)
(* A node is a record [empty |-> FALSE, pt, id, dim, left, right, size];   *)
(* KdNil is the NULL child.  Points are Geometry rationals.  Node bounds    *)
(* are computed by KdBounds where a caller reads them (kdtree_partition);  *)
(* the range queries over tree->bounds visit every node.                   *)
(***************************************************************************)
EXTENDS Integers, Sequences, TLC, Geometry

KdNil == [empty |-> TRUE]

KdLeaf(p, id, dim) ==
    [empty |-> FALSE, pt |-> p, id |-> id, dim |-> dim,
     left |-> KdNil, right |-> KdNil, size |-> 1]

KdSize(t) == IF t.empty THEN 0 ELSE t.size

\* insert_recursive: a new leaf splits on depth % 2; an equal coordinate
\* goes right; the subtree size grows along the path.
RECURSIVE KdInsertAt(_, _, _, _)
KdInsertAt(t, p, id, depth) ==
    IF t.empty THEN KdLeaf(p, id, depth % 2)
    ELSE IF CoordLess(p, t.pt, t.dim)
         THEN [t EXCEPT !.left = KdInsertAt(t.left, p, id, depth + 1),
                        !.size = @ + 1]
         ELSE [t EXCEPT !.right = KdInsertAt(t.right, p, id, depth + 1),
                        !.size = @ + 1]

KdInsert(t, p, id) == KdInsertAt(t, p, id, 0)

\* nearest_recursive: st = [id, dist]; a strictly closer node replaces the
\* best; the near child is searched first, the far child only when the
\* squared distance to the split line is below the best so far.
RECURSIVE KdNearestFrom(_, _, _)
KdNearestFrom(t, q, st) ==
    IF t.empty THEN st
    ELSE LET d      == DistSq(q, t.pt)
             st1    == IF RatLess(d, st.dist) THEN [id |-> t.id, dist |-> d] ELSE st
             diff   == CoordDiff(q, t.pt, t.dim)
             first  == IF diff.n < 0 THEN t.left ELSE t.right
             second == IF diff.n < 0 THEN t.right ELSE t.left
             st2    == KdNearestFrom(first, q, st1)
         IN  IF RatLess(RatSq(diff), st2.dist) THEN KdNearestFrom(second, q, st2)
             ELSE st2

\* kdtree_nearest on a non-empty tree: the id of the point found.
KdNearest(t, q) == KdNearestFrom(t, q, [id |-> t.id, dist |-> RatInf]).id

\* build_tree_recursive over a sequence of [pt, id]: sort on depth % 2
\* (compare_by_x / compare_by_y), make points[count / 2] the node, build
\* the left part from the points before it and the right part from those
\* after it; kdnode_update_bounds sets the subtree size.  qsort is not
\* stable: among points with an equal coordinate the order it leaves is
\* unspecified, and SortSeq's stable order is one of its outcomes.
RECURSIVE KdBuildAt(_, _)
KdBuildAt(ps, depth) ==
    IF ps = <<>> THEN KdNil
    ELSE LET dim == depth % 2
             s   == SortSeq(ps, LAMBDA a, b : CoordLess(a.pt, b.pt, dim))
             m   == Len(s) \div 2 + 1
         IN  [empty |-> FALSE, pt |-> s[m].pt, id |-> s[m].id, dim |-> dim,
              left |-> KdBuildAt(SubSeq(s, 1, m - 1), depth + 1),
              right |-> KdBuildAt(SubSeq(s, m + 1, Len(s)), depth + 1),
              size |-> Len(s)]

\* kdtree_bulk_load with count > 0: the old tree is discarded and a
\* balanced one built from a copy of the points.
KdBulkLoad(ps) == KdBuildAt(ps, 0)

\* kdnode_update_bounds, applied bottom-up by build_tree_recursive: the
\* node's point expanded by its children's bounds.  The bounds are an MBR
\* of integers, so the points are those of denominator 1.
RECURSIVE KdBounds(_)
KdBounds(t) ==
    IF t.empty THEN MbrEmpty
    ELSE MbrExpandMbr(MbrExpandMbr(MbrCreate(t.pt.x, t.pt.y, t.pt.x, t.pt.y),
                                   KdBounds(t.left)),
                      KdBounds(t.right))

\* collect_leaf_bounds from the root (kdtree_partition): a subtree of at
\* most maxSize points, or a leaf, is one block; otherwise its left then
\* its right child are visited.  The point of a visited inner node is in
\* no block.  Blocks are returned as their subtrees, left-first.
RECURSIVE KdBlocks(_, _)
KdBlocks(t, maxSize) ==
    IF t.empty THEN <<>>
    ELSE IF t.size <= maxSize \/ (t.left.empty /\ t.right.empty) THEN <<t>>
    ELSE KdBlocks(t.left, maxSize) \o KdBlocks(t.right, maxSize)

=============================================================================
