------------------------------- MODULE Quadtree -------------------------------
(***************************************************************************)
(* The region quadtree of src/src/quadtree.c.                              *)
(*                                                                         *)
(* The tree is a function from node paths to nodes: <<>> is the root and  *)
(* Append(p, q) the child of p in quadrant q (0 = NW, 1 = NE, 2 = SW,      *)
(* 3 = SE, the order of children[]).  A node is its bounds, is_leaf and    *)
(* its item list; its depth is the length of its path.  An item is its id *)
(* and MBR; the centroid and data payload are carried, never inspected,   *)
(* by the operations modelled, and are left out.  Item arrays grow by     *)
(* realloc without bound and no allocation fails, so item_capacity is not *)
(* state except where split reads it (a new child's capacity is the node  *)
(* capacity).  Coordinates are integers: the root bounds are chosen so     *)
(* that every midpoint down to MaxDepth is integral.                       *)
(***************************************************************************)
EXTENDS Integers, Sequences, FiniteSets, FiniteSetsExt, TLC, Geometry

Seqs == INSTANCE SequencesExt

CONSTANTS RootBounds,  \* bounds passed to quadtree_create
          Capacity,    \* node_capacity
          MaxDepth,    \* max_depth
          Ids, Boxes,  \* item ids and MBRs callers use
          MaxTotal,    \* bound: total_items
          Ranges,      \* query ranges the properties range over
          QueryPoints  \* query points the properties range over

ASSUME Capacity \in Nat \ {0} /\ MaxDepth \in Nat /\ MaxTotal \in Nat

VARIABLES tree,       \* path -> [bounds, leaf, items]
          totalItems  \* qt->total_items

qtVars == <<tree, totalItems>>

Item(id, b) == [id |-> id, bounds |-> b]

\* qtnode_create: a leaf without items.
QtNode(b) == [bounds |-> b, leaf |-> TRUE, items |-> <<>>]

\* Mutant of the midpoint: the half-width, without the low edge.
MidFromWidth(lo, hi) == (hi - lo) \div 2

Mid(lo, hi) == (lo + hi) \div 2

\* The sub-rectangle of b for quadrant q, as qtnode_split creates them.
Quadrant(b, q) ==
    LET mx == Mid(b.minx, b.maxx)
        my == Mid(b.miny, b.maxy)
    IN  CASE q = 0 -> MbrCreate(b.minx, my, mx, b.maxy)
          [] q = 1 -> MbrCreate(mx, my, b.maxx, b.maxy)
          [] q = 2 -> MbrCreate(b.minx, b.miny, mx, my)
          [] q = 3 -> MbrCreate(mx, b.miny, b.maxx, my)

Child(p, q) == Append(p, q)

AppendItem(t, p, it) == [t EXCEPT ![p].items = Append(@, it)]

\* qtnode_split: four new leaves; each item goes to the first child that
\* contains it and still has room; then the parent's list is emptied, so
\* an item no child takes is dropped.
Split(t, p) ==
    LET n    == t[p]
        kids == [c \in {Child(p, q) : q \in 0..3} |-> QtNode(Quadrant(n.bounds, c[Len(c)]))]
        Room(acc, b) == {q \in 0..3 : MbrContainsMbr(acc[Child(p, q)].bounds, b)
                                      /\ Len(acc[Child(p, q)].items) < Capacity}
        Place(acc, it) == IF Room(acc, it.bounds) = {} THEN acc
                          ELSE AppendItem(acc, Child(p, Min(Room(acc, it.bounds))), it)
        t1   == Seqs!FoldLeft(Place, kids @@ t, n.items)
    IN  [t1 EXCEPT ![p].leaf = FALSE, ![p].items = <<>>]

\* Mutant: the first child that meets b.
FirstContainingByIntersect(t, p, b) ==
    LET qs == {q \in 0..3 : MbrIntersects(t[Child(p, q)].bounds, b)}
    IN  IF qs = {} THEN -1 ELSE Min(qs)

\* The first child of internal node p that contains b entirely, or -1.
FirstContaining(t, p, b) ==
    LET qs == {q \in 0..3 : MbrContainsMbr(t[Child(p, q)].bounds, b)}
    IN  IF qs = {} THEN -1 ELSE Min(qs)

\* qtnode_insert from node p: [tree, ok]; ok is FALSE for QT_ERR_BOUNDS.
RECURSIVE QtInsertAt(_, _, _)
QtInsertAt(t, p, it) ==
    LET n == t[p] IN
    IF ~MbrIntersects(n.bounds, it.bounds) THEN [tree |-> t, ok |-> FALSE]
    ELSE IF n.leaf /\ Len(n.items) >= Capacity /\ Len(p) < MaxDepth
         THEN QtInsertAt(Split(t, p), p, it)
    ELSE IF n.leaf \/ FirstContaining(t, p, it.bounds) = -1
         THEN [tree |-> AppendItem(t, p, it), ok |-> TRUE]
    ELSE QtInsertAt(t, Child(p, FirstContaining(t, p, it.bounds)), it)

\* Mutant of qtnode_query_range: items are reported from leaves only.
RECURSIVE QtQueryLeavesOnly(_, _, _)
QtQueryLeavesOnly(t, p, r) ==
    IF ~MbrIntersects(t[p].bounds, r) THEN {}
    ELSE IF t[p].leaf
         THEN {t[p].items[i].id : i \in {i \in DOMAIN t[p].items : MbrIntersects(t[p].items[i].bounds, r)}}
         ELSE UNION {QtQueryLeavesOnly(t, Child(p, q), r) : q \in 0..3}

\* qtnode_query_range: ids of the items that meet r, in the nodes that meet r.
RECURSIVE QtQuery(_, _, _)
QtQuery(t, p, r) ==
    IF ~MbrIntersects(t[p].bounds, r) THEN {}
    ELSE {t[p].items[i].id : i \in {i \in DOMAIN t[p].items : MbrIntersects(t[p].items[i].bounds, r)}}
         \cup (IF t[p].leaf THEN {} ELSE UNION {QtQuery(t, Child(p, q), r) : q \in 0..3})

\* qtnode_query_point: ids of the items whose MBR holds pt, in the nodes
\* whose bounds hold pt (a point on a split line is in every child it
\* touches).
RECURSIVE QtQueryPoint(_, _, _)
QtQueryPoint(t, p, pt) ==
    IF ~MbrContainsPoint(t[p].bounds, pt) THEN {}
    ELSE {t[p].items[i].id : i \in {i \in DOMAIN t[p].items : MbrContainsPoint(t[p].items[i].bounds, pt)}}
         \cup (IF t[p].leaf THEN {} ELSE UNION {QtQueryPoint(t, Child(p, q), pt) : q \in 0..3})

\* Node paths in the depth-first pre-order of qtnode_find and qtnode_remove.
RECURSIVE PreOrder(_, _)
PreOrder(t, p) ==
    IF t[p].leaf THEN <<p>>
    ELSE <<p>> \o PreOrder(t, Child(p, 0)) \o PreOrder(t, Child(p, 1))
               \o PreOrder(t, Child(p, 2)) \o PreOrder(t, Child(p, 3))

ItemIndex(n, id) == Seqs!SelectInSeq(n.items, LAMBDA it : it.id = id)

Found(t, id) == \E p \in DOMAIN t : ItemIndex(t[p], id) # 0

\* qtnode_find: the first node in pre-order holding id (when Found).
Holder(t, id) ==
    LET order == PreOrder(t, <<>>)
    IN  order[Seqs!SelectInSeq(order, LAMBDA p : ItemIndex(t[p], id) # 0)]

\* qtnode_remove: the first match is cut out of its node's list.
QtRemove(t, id) ==
    LET p == Holder(t, id) IN [t EXCEPT ![p].items = Seqs!RemoveAt(@, ItemIndex(t[p], id))]

StoredIds == UNION {{it.id : it \in Seqs!ToSet(tree[p].items)} : p \in DOMAIN tree}

Init ==
    /\ tree = (<<>> :> QtNode(RootBounds))
    /\ totalItems = 0

\* quadtree_insert (build_page_quadtree inserts each page id once).
Insert(id, b) ==
    LET res == QtInsertAt(tree, <<>>, Item(id, b)) IN
    /\ id \notin StoredIds
    /\ totalItems < MaxTotal
    /\ tree' = res.tree
    /\ totalItems' = IF res.ok THEN totalItems + 1 ELSE totalItems

\* quadtree_remove.
Remove(id) ==
    /\ Found(tree, id)
    /\ tree' = QtRemove(tree, id)
    /\ totalItems' = totalItems - 1

\* Mutant of quadtree_update: the removal is not subtracted from total_items.
UpdateNoDecrement(id, b) ==
    LET res == QtInsertAt(QtRemove(tree, id), <<>>, Item(id, b)) IN
    /\ Found(tree, id)
    /\ tree' = res.tree
    /\ totalItems' = IF res.ok THEN totalItems + 1 ELSE totalItems

\* quadtree_update: find, remove, then insert with the new bounds.
Update(id, b) ==
    LET res == QtInsertAt(QtRemove(tree, id), <<>>, Item(id, b)) IN
    /\ Found(tree, id)
    /\ tree' = res.tree
    /\ totalItems' = IF res.ok THEN totalItems ELSE totalItems - 1

\* quadtree_clear: a new root with the old bounds.
Clear ==
    /\ tree' = (<<>> :> QtNode(tree[<<>>].bounds))
    /\ totalItems' = 0

QtNext ==
    \/ \E id \in Ids, b \in Boxes : Insert(id, b) \/ Update(id, b)
    \/ \E id \in Ids : Remove(id)
    \/ Clear

QtSpec == Init /\ [][QtNext]_qtVars


(***************************************************************************)
(* Properties.                                                             *)
(***************************************************************************)
Paths == UNION {[1..n -> 0..3] : n \in 0..MaxDepth}

NodeItems(p) == Seqs!ToSet(tree[p].items)

QtTypeOK ==
    /\ DOMAIN tree \subseteq Paths
    /\ \A p \in DOMAIN tree : tree[p].leaf \in BOOLEAN /\ tree[p].items \in Seq([id : Ids, bounds : Boxes])
    /\ totalItems \in 0..MaxTotal

\* qtnode_split and qtnode_insert keep the tree a region quadtree: every
\* non-root node hangs under an internal node, an internal node has all
\* four children and a leaf none, and the children of a node tile it, each
\* inside it, meeting at its centre and covering a quarter of its area.
TreeShape ==
    \A p \in DOMAIN tree :
        /\ p # <<>> => Seqs!Front(p) \in DOMAIN tree /\ ~tree[Seqs!Front(p)].leaf
        /\ \A q \in 0..3 : (Child(p, q) \in DOMAIN tree) <=> ~tree[p].leaf
        /\ ~tree[p].leaf =>
             LET b == tree[p].bounds
                 c == [q \in 0..3 |-> tree[Child(p, q)].bounds]
             IN  /\ \A q \in 0..3 : MbrContainsMbr(b, c[q]) /\ 4 * MbrArea(c[q]) = MbrArea(b)
                 /\ c[0].maxx = c[1].minx /\ c[2].maxx = c[3].minx
                 /\ c[0].miny = c[2].maxy /\ c[1].miny = c[3].maxy

\* Where qtnode_insert and qtnode_split leave an item: it meets its node,
\* lies inside it below the root, sits in an internal node only when no
\* child contains it, and a leaf above max_depth never holds more than
\* node_capacity items.
ItemPlacement ==
    \A p \in DOMAIN tree :
        /\ \A it \in NodeItems(p) :
             /\ MbrIntersects(tree[p].bounds, it.bounds)
             /\ p # <<>> => MbrContainsMbr(tree[p].bounds, it.bounds)
             /\ ~tree[p].leaf => \A q \in 0..3 : ~MbrContainsMbr(tree[Child(p, q)].bounds, it.bounds)
        /\ tree[p].leaf /\ Len(p) < MaxDepth => Len(tree[p].items) <= Capacity

StoredItems == UNION {NodeItems(p) : p \in DOMAIN tree}

\* quadtree_query_range, pruning by node bounds, returns exactly the
\* stored items whose MBR meets the range; quadtree_query_point, pruning
\* by node bounds that hold the point, exactly those whose MBR holds it,
\* although an item kept at the root may reach outside every child.
QueryExact ==
    /\ \A r \in Ranges : QtQuery(tree, <<>>, r) = {it.id : it \in {it \in StoredItems : MbrIntersects(it.bounds, r)}}
    /\ \A pt \in QueryPoints :
          QtQueryPoint(tree, <<>>, pt) = {it.id : it \in {it \in StoredItems : MbrContainsPoint(it.bounds, pt)}}

\* Refinement: the items held in the tree form the RegionStore map.
AbsItems == [id \in StoredIds |-> (CHOOSE it \in StoredItems : it.id = id).bounds]

RS == INSTANCE RegionStore WITH items <- AbsItems

\* quadtree_insert, _remove, _update and _clear implement RegionStore: an
\* insert that returns QT_OK adds its item and loses none.
RegionStoreSpec == RS!Spec

=============================================================================
