---------------------------- MODULE SpatialIndex ----------------------------
(***************************************************************************)
(* The page pool, tracks and best-fit allocator (src/src/page.c,           *)
(* src/src/disk_manager.c) under the spatial index facade                  *)
(* (src/src/spatial_index.c): insert, remove, update and build, with the   *)
(* range and k-nearest queries as operators over the state.                *)
(*                                                                         *)
(* Data is abstracted to what the properties tell apart: an object is an   *)
(* id and a shape, the centroid and MBR spatial_object_update_derived      *)
(* derives from a geometry of the small set Geoms; the payload itself is   *)
(* never read by the index and is not kept.  Pages keep every slot of      *)
(* their object array, also those past object_count, because the block     *)
(* tree points into them.                                                  *)
(***************************************************************************)
EXTENDS Integers, Sequences, FiniteSets, FiniteSetsExt, Geometry, KdTree, Parser

Seqs == INSTANCE SequencesExt

CONSTANTS Geoms,           \* geometries a caller can insert: [type, pts, holes]
          GeojsonDocs,     \* texts urbis_load_geojson_string is given
          WktDocs,         \* texts urbis_load_wkt is given
          DocShapes,       \* per document, the shapes spec C10 says it holds
          PageCapacity,    \* MAX_OBJECTS_PER_PAGE
          PagesPerTrack,   \* PAGES_PER_TRACK
          BlockSize,       \* config.block_size
          BuildQuadtree,   \* config.build_quadtree
          MaxObjectId,     \* bound: highest id insert may assign
          MaxPages,        \* bound: pages in the pool
          MaxTracks,       \* bound: tracks in the pool
          Ranges,          \* query rectangles
          QueryPoints,     \* kNN query points
          Ks,              \* kNN result sizes asked for
          BulkInputs       \* object arrays spatial_index_bulk_insert is given

ASSUME /\ \A g \in Geoms : Derived(g).c.d = 1 /\ ~MbrIsEmpty(Derived(g).mbr)
       /\ PageCapacity \in Nat \ {0} /\ PagesPerTrack \in Nat \ {0}
       /\ BlockSize \in Nat \ {0} /\ BuildQuadtree \in BOOLEAN
       /\ BulkInputs \subseteq Seq(Geoms)

VARIABLES pages,        \* pool->pages, in pool order
          tracks,       \* pool->tracks, in pool order
          nextPageId,   \* pool->next_page_id
          nextTrackId,  \* pool->next_track_id
          nextObjectId, \* idx->next_object_id
          bounds,       \* idx->bounds
          dmBounds,     \* dm->header.bounds (zeroed by disk_manager_init)
          isBuilt,      \* idx->is_built
          blockTree,    \* idx->block_tree: entries {pt, id, page, slot}
          blocks,       \* idx->blocks[0 .. block_count - 1]: [bounds, track]
          pageTree      \* idx->page_tree: NULL, or the items inserted into it

siVars == <<pages, tracks, nextPageId, nextTrackId, nextObjectId, bounds,
            dmBounds, isBuilt, blockTree, blocks, pageTree>>

Obj(id, s) == [id |-> id, shape |-> s]

\* An object slot after calloc or spatial_object_free (memset to zero).
ZeroObj == Obj(0, [c |-> Pt(0, 0), mbr |-> MbrCreate(0, 0, 0, 0)])

NoTree == [present |-> FALSE, root |-> MbrEmpty, items |-> <<>>]

(***************************************************************************)
(* Pages (page.c).                                                         *)
(***************************************************************************)
\* page_create: flags = ALLOCATED, extent empty, centroid (0, 0),
\* checksum 0.
NewPage(pid, tid) ==
    [id |-> pid, track |-> tid, count |-> 0,
     slots |-> [j \in 1..PageCapacity |-> ZeroObj],
     extent |-> MbrEmpty, cen |-> Pt(0, 0), dirty |-> FALSE, full |-> FALSE,
     sum |-> {}]

PageIsFull(pg) == pg.count >= PageCapacity

LiveSlots(pg) == 1..pg.count

\* Adding a field hash to an XOR accumulator: equal hashes cancel.
XorIn(acc, h) == IF h \in acc THEN acc \ {h} ELSE acc \cup {h}

\* page_checksum: fnv1a_hash of page_id, XORed with those of track_id and
\* object_count, then of each object's id and centroid.  A hash is stood
\* for by the bytes it is taken of (a 4-byte, an 8-byte value or a Point;
\* FNV-1a collisions are not modelled), and the XOR of hashes by the set
\* of those occurring an odd number of times: equal values cancel, so a
\* track_id equal to object_count drops out.  0 is the empty set.
PageChecksum(pg) ==
    LET hdr == XorIn(XorIn({<<"u32", pg.id>>}, <<"u32", pg.track>>), <<"u32", pg.count>>)
    IN  Seqs!FoldLeft(LAMBDA acc, j : XorIn(XorIn(acc, <<"u64", pg.slots[j].id>>),
                                            <<"pt", pg.slots[j].shape.c>>),
                      hdr, [j \in LiveSlots(pg) |-> j])

\* page_verify: the stored checksum is the one page_checksum computes now.
PageVerify(pg) == pg.sum = PageChecksum(pg)

\* Mutant of page_update_derived: the checksum is not recomputed.
PageUpdateDerivedNoChecksum(pg) ==
    [pg EXCEPT
        !.extent = MbrUnionOver([j \in LiveSlots(pg) |-> pg.slots[j].shape.mbr],
                                LiveSlots(pg)),
        !.cen = IF pg.count > 0
                THEN [x |-> MapThenSumSet(LAMBDA j : pg.slots[j].shape.c.x, LiveSlots(pg)),
                      y |-> MapThenSumSet(LAMBDA j : pg.slots[j].shape.c.y, LiveSlots(pg)),
                      d |-> pg.count]
                ELSE @]

\* page_update_derived: extent and centroid recomputed from the objects
\* (an empty page keeps its old centroid), then the checksum.
PageUpdateDerived(pg) ==
    [pg EXCEPT
        !.extent = MbrUnionOver([j \in LiveSlots(pg) |-> pg.slots[j].shape.mbr],
                                LiveSlots(pg)),
        !.cen = IF pg.count > 0
                THEN [x |-> MapThenSumSet(LAMBDA j : pg.slots[j].shape.c.x, LiveSlots(pg)),
                      y |-> MapThenSumSet(LAMBDA j : pg.slots[j].shape.c.y, LiveSlots(pg)),
                      d |-> pg.count]
                ELSE @,
        !.sum = PageChecksum(pg)]

\* page_add_object on a page with room.
PageAddObject(pg, o) ==
    [pg EXCEPT !.slots[pg.count + 1] = o,
               !.count = @ + 1,
               !.dirty = TRUE,
               !.extent = MbrExpandMbr(@, o.shape.mbr),
               !.full = pg.count + 1 >= PageCapacity]

\* Mutant of page_remove_object: PAGE_FLAG_FULL is not cleared.
PageRemoveObjectKeepFull(pg, id) ==
    LET i == CHOOSE i \in LiveSlots(pg) : pg.slots[i].id = id
        n == pg.count
    IN  PageUpdateDerived(
          [pg EXCEPT !.slots = [j \in 1..PageCapacity |->
                                  IF j < i THEN pg.slots[j]
                                  ELSE IF j < n THEN pg.slots[j + 1]
                                  ELSE IF j = i THEN ZeroObj
                                  ELSE pg.slots[j]],
                     !.count = @ - 1, !.dirty = TRUE])

\* page_remove_object: free slot i, memmove the tail down one slot (the
\* last slot keeps its old bytes), then page_update_derived.
PageRemoveObject(pg, id) ==
    LET i == CHOOSE i \in LiveSlots(pg) :
                 pg.slots[i].id = id /\ \A j \in 1..(i - 1) : pg.slots[j].id # id
        n == pg.count
    IN  PageUpdateDerived(
          [pg EXCEPT !.slots = [j \in 1..PageCapacity |->
                                  IF j < i THEN pg.slots[j]
                                  ELSE IF j < n THEN pg.slots[j + 1]
                                  ELSE IF j = i THEN ZeroObj
                                  ELSE pg.slots[j]],
                     !.count = @ - 1,
                     !.dirty = TRUE,
                     !.full = FALSE])

PageIndex(pgs, pid) == CHOOSE k \in DOMAIN pgs : pgs[k].id = pid

(***************************************************************************)
(* Tracks (page.c).                                                        *)
(***************************************************************************)
NewTrack(tid) == [id |-> tid, pages |-> <<>>, extent |-> MbrEmpty, full |-> FALSE]

HasSpace(tr) == Len(tr.pages) < PagesPerTrack

\* track_update_derived: the union of the listed pages' current extents.
TrackUpdateDerived(tr, pgs) ==
    [tr EXCEPT !.extent =
        MbrUnionOver([k \in DOMAIN tr.pages |-> pgs[PageIndex(pgs, tr.pages[k])].extent],
                      DOMAIN tr.pages)]

\* Mutant of track_add_page: the track_has_space test is missing.
TrackAddPageNoSpaceCheck(tr, pid, pgs) ==
    TrackUpdateDerived([tr EXCEPT !.pages = Append(@, pid),
                                  !.full = Len(tr.pages) + 1 >= PagesPerTrack], pgs)

\* track_add_page: refused when full; otherwise appends the page (its
\* track_id is already this track's), sets is_full, refreshes derived.
TrackAddPage(tr, pid, pgs) ==
    IF ~HasSpace(tr) THEN tr
    ELSE TrackUpdateDerived([tr EXCEPT !.pages = Append(@, pid),
                                       !.full = Len(tr.pages) + 1 >= PagesPerTrack], pgs)

(***************************************************************************)
(* Allocator (disk_manager.c).  The state record s has the fields that     *)
(* insert and remove change, so that update can chain them.                *)
(***************************************************************************)
\* The allocation tree as disk_manager_rebuild_allocation_tree leaves it:
\* the non-empty pages inserted in pool order, keyed by centroid.  Every
\* insert and remove ends with that rebuild, so it is a function of pages.
AllocTree(pgs) ==
    Seqs!FoldLeft(LAMBDA t, pg : IF pg.count > 0 THEN KdInsert(t, pg.cen, pg.id) ELSE t,
             KdNil, pgs)

\* ALLOC_BEST_FIT: the first track with room whose extent grows least.
Expansion(tr, c) == MbrArea(MbrExpandPoint(tr.extent, c)) - MbrArea(tr.extent)

BestFit(trs, c) ==
    LET cands == {i \in DOMAIN trs : HasSpace(trs[i])}
    IN  IF cands = {} THEN 0
        ELSE CHOOSE i \in cands :
                \A j \in cands : \/ Expansion(trs[i], c) < Expansion(trs[j], c)
                                 \/ Expansion(trs[i], c) = Expansion(trs[j], c) /\ i <= j

\* Mutant of disk_manager_alloc_page: the page is stamped with the id a
\* new track would get, whether or not one was created.
AllocPageStaleTrackId(s, c) ==
    LET bt   == BestFit(s.tracks, c)
        trs1 == IF bt = 0 THEN Append(s.tracks, NewTrack(s.nextTrackId)) ELSE s.tracks
        ti   == IF bt = 0 THEN Len(trs1) ELSE bt
        pid  == s.nextPageId
        pgs  == Append(s.pages, [NewPage(pid, s.nextTrackId) EXCEPT !.cen = c])
    IN  [s EXCEPT !.pages = pgs,
                  !.tracks = [trs1 EXCEPT ![ti] =
                                TrackAddPage(TrackAddPage(@, pid, pgs), pid, pgs)],
                  !.nextPageId = pid + 1,
                  !.nextTrackId = IF bt = 0 THEN @ + 1 ELSE @,
                  !.dmBounds = MbrExpandPoint(@, c)]

\* page_pool_create_track (under disk_manager_create_track): track_create
\* with the next track id, appended to the pool.  The arrays' realloc
\* growth is not modelled: MaxTracks bounds the pool.
CreateTrack(s) ==
    [s EXCEPT !.tracks = Append(@, NewTrack(s.nextTrackId)), !.nextTrackId = @ + 1]

\* page_pool_alloc(pool, track_id), track_id > 0: page_create with the
\* next page id, appended to the pool and added to that track
\* (page_pool_get_track, track_add_page).
PagePoolAlloc(s, ti) ==
    LET pid == s.nextPageId
        pgs == Append(s.pages, NewPage(pid, s.tracks[ti].id))
    IN  [s EXCEPT !.pages = pgs, !.tracks[ti] = TrackAddPage(@, pid, pgs), !.nextPageId = pid + 1]

\* disk_manager_alloc_page: best track or a new one; page_pool_alloc
\* creates the page and adds it to the track, the centroid is stamped, and
\* track_add_page is called on the same page a second time.
AllocPage(s, c) ==
    LET bt  == BestFit(s.tracks, c)
        s1  == IF bt = 0 THEN CreateTrack(s) ELSE s
        ti  == IF bt = 0 THEN Len(s1.tracks) ELSE bt
        s2  == PagePoolAlloc(s1, ti)
        pgs == [s2.pages EXCEPT ![Len(s2.pages)].cen = c]
    IN  [s2 EXCEPT !.pages = pgs,
                   !.tracks[ti] = TrackAddPage(@, s.nextPageId, pgs),
                   !.dmBounds = MbrExpandPoint(@, c)]

(***************************************************************************)
(* Facade (spatial_index.c).                                               *)
(***************************************************************************)
\* Mutant of get_page_for_insert: the nearest page is used even when full.
InsertObjNoFullCheck(s, o) ==
    LET t     == AllocTree(s.pages)
        near  == IF KdSize(t) > 0 THEN KdNearest(t, o.shape.c) ELSE 0
        reuse == near # 0
        s1    == IF reuse THEN s ELSE AllocPage(s, o.shape.c)
        k     == PageIndex(s1.pages, IF reuse THEN near ELSE s.nextPageId)
    IN  [s1 EXCEPT !.pages[k] = PageUpdateDerived(PageAddObject(@, o)),
                   !.bounds = MbrExpandMbr(@, o.shape.mbr)]

\* Mutant of spatial_index_insert: idx->bounds is not grown.
InsertObjNoBoundsGrow(s, o) ==
    LET t     == AllocTree(s.pages)
        near  == IF KdSize(t) > 0 THEN KdNearest(t, o.shape.c) ELSE 0
        reuse == near # 0 /\ ~PageIsFull(s.pages[PageIndex(s.pages, near)])
        s1    == IF reuse THEN s ELSE AllocPage(s, o.shape.c)
        k     == PageIndex(s1.pages, IF reuse THEN near ELSE s.nextPageId)
    IN  [s1 EXCEPT !.pages[k] = PageUpdateDerived(PageAddObject(@, o))]

\* spatial_index_insert after the id is fixed: get_page_for_insert (the
\* nearest page by centroid if it is not full, else a new page), add the
\* object, page_update_derived, rebuild the allocation tree, grow bounds.
\* The retry after PAGE_ERR_FULL cannot fire: the page chosen is never full.
InsertObj(s, o) ==
    LET t     == AllocTree(s.pages)
        near  == IF KdSize(t) > 0 THEN KdNearest(t, o.shape.c) ELSE 0
        reuse == near # 0 /\ ~PageIsFull(s.pages[PageIndex(s.pages, near)])
        s1    == IF reuse THEN s ELSE AllocPage(s, o.shape.c)
        k     == PageIndex(s1.pages, IF reuse THEN near ELSE s.nextPageId)
    IN  [s1 EXCEPT !.pages[k] = PageUpdateDerived(PageAddObject(@, o)),
                   !.bounds = MbrExpandMbr(@, o.shape.mbr)]

\* find_page_for_object: the first page in pool order holding the id.
PageHolding(pgs, id) ==
    CHOOSE k \in DOMAIN pgs :
        /\ \E j \in LiveSlots(pgs[k]) : pgs[k].slots[j].id = id
        /\ \A k2 \in 1..(k - 1) : \A j \in LiveSlots(pgs[k2]) : pgs[k2].slots[j].id # id

\* spatial_index_remove after the page is found.
RemoveObj(s, id) ==
    [s EXCEPT !.pages[PageHolding(s.pages, id)] = PageUpdateDerived(PageRemoveObject(@, id))]

LiveIds == UNION {{pages[k].slots[j].id : j \in LiveSlots(pages[k])} : k \in DOMAIN pages}

Cur == [pages |-> pages, tracks |-> tracks, nextPageId |-> nextPageId,
        nextTrackId |-> nextTrackId, bounds |-> bounds, dmBounds |-> dmBounds]

Install(s) ==
    /\ Len(s.pages) <= MaxPages /\ Len(s.tracks) <= MaxTracks
    /\ pages' = s.pages /\ tracks' = s.tracks
    /\ nextPageId' = s.nextPageId /\ nextTrackId' = s.nextTrackId
    /\ bounds' = s.bounds /\ dmBounds' = s.dmBounds

Init ==
    /\ pages = <<>> /\ tracks = <<>>
    /\ nextPageId = 1 /\ nextTrackId = 1 /\ nextObjectId = 1
    /\ bounds = MbrEmpty /\ dmBounds = MbrCreate(0, 0, 0, 0)
    /\ isBuilt = FALSE /\ blockTree = {} /\ blocks = <<>> /\ pageTree = NoTree

\* spatial_object_update_derived of each geometry a caller can insert; it
\* depends on the geometry alone, so it is computed once per geometry.
ShapeOf == [g \in Geoms |-> Derived(g)]

\* spatial_index_insert of an object with id 0: the id is assigned and
\* spatial_object_update_derived recomputes centroid and MBR from g.
Insert(g) ==
    /\ nextObjectId <= MaxObjectId
    /\ Install(InsertObj(Cur, Obj(nextObjectId, ShapeOf[g])))
    /\ nextObjectId' = nextObjectId + 1
    /\ isBuilt' = FALSE
    /\ UNCHANGED <<blockTree, blocks, pageTree>>

\* urbis_insert_point, urbis_insert_linestring, urbis_insert_polygon: a
\* linestring needs a point and a polygon three (else 0 is returned and
\* nothing changes); the object is built with id 0 and no holes, derived,
\* and handed to spatial_index_insert.
UrbisInsert(g) ==
    /\ \/ g.type = "point"
       \/ g.type = "linestring" /\ Len(g.pts) > 0
       \/ g.type = "polygon" /\ Len(g.pts) >= 3 /\ g.holes = <<>>
    /\ Insert(g)

\* The parse of each document, computed once.
ParsedGeojson == [d \in GeojsonDocs |-> GeojsonParseString(d)]
ParsedWkt == [d \in WktDocs |-> WktParse(d)]

\* A parsed object with the shape spatial_object_update_derived gives it.
WithShape(po) == [id |-> po.id, shape |-> Derived(po.geom)]

\* The objects each document loads, in order; none when it fails to parse.
GeojsonObjects == [d \in GeojsonDocs |->
                     [i \in DOMAIN ParsedGeojson[d].objects |-> WithShape(ParsedGeojson[d].objects[i])]]
WktObjects == [d \in WktDocs |->
                 IF ParsedWkt[d].err = "ok" THEN <<WithShape(ParsedWkt[d].obj)>> ELSE <<>>]

\* spatial_index_insert of a parsed object: an id of 0 is replaced by the
\* next id, any other id is kept as it is.
InsertParsed(a, po) ==
    LET id == IF po.id = 0 THEN a.next ELSE po.id
    IN  [st   |-> InsertObj(a.st, Obj(id, po.shape)),
         next |-> IF po.id = 0 THEN a.next + 1 ELSE a.next]

\* The inserts of a load, one after the other from the current state.
LoadObjects(objs) ==
    Seqs!FoldLeft(InsertParsed, [st |-> Cur, next |-> nextObjectId], objs)

\* urbis_load_geojson_string: parse; a parse error returns URBIS_ERR_PARSE
\* and changes nothing; otherwise every feature is inserted in order.
LoadGeojsonString(d) ==
    LET objs == GeojsonObjects[d]
        r    == LoadObjects(objs)
    IN  /\ ParsedGeojson[d].err = "ok" /\ Len(objs) > 0
        /\ r.next - 1 <= MaxObjectId
        /\ Install(r.st)
        /\ nextObjectId' = r.next
        /\ isBuilt' = FALSE
        /\ UNCHANGED <<blockTree, blocks, pageTree>>

\* urbis_load_wkt: parse one object; a parse error changes nothing.
LoadWkt(d) ==
    LET r == LoadObjects(WktObjects[d])
    IN  /\ ParsedWkt[d].err = "ok"
        /\ r.next - 1 <= MaxObjectId
        /\ Install(r.st)
        /\ nextObjectId' = r.next
        /\ isBuilt' = FALSE
        /\ UNCHANGED <<blockTree, blocks, pageTree>>

\* spatial_index_bulk_insert of a fresh array of objects (ids 0): one
\* spatial_index_insert per element in order, each assigning the next id.
BulkInsert(gs) ==
    LET r == LoadObjects([i \in DOMAIN gs |-> Obj(0, ShapeOf[gs[i]])])
    IN  /\ r.next - 1 <= MaxObjectId
        /\ Install(r.st)
        /\ nextObjectId' = r.next
        /\ isBuilt' = FALSE
        /\ UNCHANGED <<blockTree, blocks, pageTree>>

\* spatial_index_remove of a stored id (an unknown id returns NOT_FOUND
\* and changes nothing).
Remove(id) ==
    /\ id \in LiveIds
    /\ Install(RemoveObj(Cur, id))
    /\ isBuilt' = FALSE
    /\ UNCHANGED <<nextObjectId, blockTree, blocks, pageTree>>

\* Mutant of spatial_index_update: the old copy is not removed first.
UpdateNoRemove(id, g) ==
    /\ id \in LiveIds
    /\ Install(InsertObj(Cur, Obj(id, ShapeOf[g])))
    /\ isBuilt' = FALSE
    /\ UNCHANGED <<nextObjectId, blockTree, blocks, pageTree>>

\* Mutant of spatial_index_update: the copy is inserted with id 0, so it
\* is given a fresh id.
UpdateFreshId(id, g) ==
    /\ id \in LiveIds
    /\ nextObjectId <= MaxObjectId
    /\ Install(InsertObj(RemoveObj(Cur, id), Obj(nextObjectId, ShapeOf[g])))
    /\ nextObjectId' = nextObjectId + 1
    /\ isBuilt' = FALSE
    /\ UNCHANGED <<blockTree, blocks, pageTree>>

\* spatial_index_update: remove, then insert a copy carrying the same id.
Update(id, g) ==
    /\ id \in LiveIds
    /\ Install(InsertObj(RemoveObj(Cur, id), Obj(id, ShapeOf[g])))
    /\ isBuilt' = FALSE
    /\ UNCHANGED <<nextObjectId, blockTree, blocks, pageTree>>

TotalObjects == MapThenSumSet(LAMBDA k : pages[k].count, DOMAIN pages)

\* spatial_index_build on an empty index: only is_built is set.
BuildEmpty ==
    /\ TotalObjects = 0
    /\ isBuilt' = TRUE
    /\ UNCHANGED <<pages, tracks, nextPageId, nextTrackId, nextObjectId, bounds,
                   dmBounds, blockTree, blocks, pageTree>>

\* The block tree entries spatial_index_build collects from pgs: each
\* object's centroid and id, with data = &page->objects[j].
BlockEntries(pgs) ==
    UNION {{[pt |-> pgs[k].slots[j].shape.c, id |-> pgs[k].slots[j].id,
             page |-> pgs[k].id, slot |-> j] : j \in LiveSlots(pgs[k])} : k \in DOMAIN pgs}

\* The points spatial_index_build hands to kdtree_bulk_load: each
\* object's centroid and id, pages in pool order, objects in slot order.
BlockPoints(pgs) ==
    Seqs!FoldLeft(LAMBDA acc, pg : acc \o [j \in LiveSlots(pg) |->
                      [pt |-> pg.slots[j].shape.c, id |-> pg.slots[j].id]],
                  <<>>, pgs)

\* The partitions kdtree_partition reports, with block_size as the bound,
\* for the tree bulk-loaded from the objects of pgs.
Partitions(pgs) == KdBlocks(KdBulkLoad(BlockPoints(pgs)), BlockSize)

BlockCount(pgs) == Len(Partitions(pgs))

\* The blocks spatial_index_build makes, create_block per partition in
\* order: the partition's bounds, and the track disk_manager_create_track
\* makes for it, numbered on from tid.
Blocks(pgs, tid) ==
    LET ps == Partitions(pgs)
    IN  [i \in DOMAIN ps |-> [bounds |-> KdBounds(ps[i]), track |-> tid + i - 1]]

\* build_page_quadtree: a quadtree rooted at idx->bounds receives the
\* non-empty pages in pool order; qtnode_insert rejects an item whose
\* extent misses the root.  Node splitting is left to the Quadtree module:
\* here the tree is the sequence of items it accepted.
PageTreeOf(pgs, root) ==
    LET acc == SelectSeq(pgs, LAMBDA pg : pg.count > 0 /\ MbrIntersects(root, pg.extent))
    IN  [present |-> TRUE, root |-> root,
         items |-> [i \in DOMAIN acc |-> [id |-> acc[i].id, bounds |-> acc[i].extent]]]

\* spatial_index_build (also spatial_index_optimize, urbis_optimize, which
\* only call it) with objects present: bulk-load the block tree,
\* one block and one new track per partition, rebuild the page quadtree.
Build ==
    LET nb == BlockCount(pages) IN
    /\ TotalObjects > 0
    /\ Len(tracks) + nb <= MaxTracks
    /\ blockTree' = BlockEntries(pages)
    /\ blocks' = Blocks(pages, nextTrackId)
    /\ tracks' = tracks \o [i \in 1..nb |-> NewTrack(nextTrackId + i - 1)]
    /\ nextTrackId' = nextTrackId + nb
    /\ pageTree' = IF BuildQuadtree THEN PageTreeOf(pages, bounds) ELSE pageTree
    /\ isBuilt' = TRUE
    /\ UNCHANGED <<pages, nextPageId, nextObjectId, bounds, dmBounds>>

\* spatial_index_find_adjacent_pages when idx->page_tree is NULL (never
\* built, or built when the pool was empty): build_page_quadtree builds it
\* over the pool as it is now.  With build_quadtree off or no pages the
\* tree stays NULL and the call returns SI_ERR_NOT_BUILT; with a tree the
\* call is a query and changes nothing.
FindAdjacentPages ==
    /\ ~pageTree.present
    /\ BuildQuadtree /\ Len(pages) > 0
    /\ pageTree' = PageTreeOf(pages, bounds)
    /\ UNCHANGED <<pages, tracks, nextPageId, nextTrackId, nextObjectId, bounds,
                   dmBounds, isBuilt, blockTree, blocks>>

Next ==
    \/ \E g \in Geoms : UrbisInsert(g)
    \/ \E gs \in BulkInputs : BulkInsert(gs)
    \/ \E d \in GeojsonDocs : LoadGeojsonString(d)
    \/ \E d \in WktDocs : LoadWkt(d)
    \/ \E id \in LiveIds : Remove(id)
    \/ \E id \in LiveIds, g \in Geoms : Update(id, g)
    \/ BuildEmpty
    \/ Build
    \/ FindAdjacentPages

Spec == Init /\ [][Next]_siVars

(***************************************************************************)
(* Queries (no state change).                                              *)
(***************************************************************************)
\* Mutant of spatial_index_query_range: every object of a matching page
\* is returned, without the per-object MBR test.
QueryRangeNoObjectFilter(r) ==
    Seqs!FoldLeft(LAMBDA acc, pg :
                IF MbrIntersects(pg.extent, r)
                THEN acc \o [j \in LiveSlots(pg) |-> pg.slots[j]]
                ELSE acc,
             <<>>, pages)

\* page_pool_query_region: the pages whose extent meets r, in pool order
\* (the counting pass and the collecting pass apply the same test).
PoolQueryRegion(pgs, r) == SelectSeq(pgs, LAMBDA pg : MbrIntersects(pg.extent, r))

\* spatial_index_query_range: the pages page_pool_query_region returns,
\* then their objects whose MBR meets r, in slot order.
QueryRange(r) ==
    Seqs!FoldLeft(LAMBDA acc, pg :
                acc \o SelectSeq([j \in LiveSlots(pg) |-> pg.slots[j]],
                                 LAMBDA o : MbrIntersects(o.shape.mbr, r)),
             <<>>, PoolQueryRegion(pages, r))

\* mbr_adjacent_or_intersects: the closed rectangles meet, within 1e-9.
\* Coordinates are integers, so the tolerance never separates two values.
AdjacentOrIntersects(a, b) ==
    ~(a.maxx < b.minx \/ a.minx > b.maxx \/ a.maxy < b.miny \/ a.miny > b.maxy)

\* The ids of the pages spatial_index_find_adjacent_pages returns for r
\* once the page tree exists.  quadtree_find_adjacent_to_region queries
\* the tree with r grown by 1% of its size (at least 1e-6 a side), then
\* keeps the items adjacent to r.  The growth is below 1 for the
\* coordinates used here, so on integers the query meets exactly what r
\* meets; the tree never splits (capacity 8, at most MaxPages items), so
\* the query prunes only at the root.
AdjacentItems(r) ==
    IF ~MbrIntersects(pageTree.root, r) THEN <<>>
    ELSE SelectSeq(pageTree.items,
                   LAMBDA it : MbrIntersects(it.bounds, r) /\ AdjacentOrIntersects(it.bounds, r))

AdjacentPages(r) == {it.id : it \in Seqs!ToSet(AdjacentItems(r))}

\* The estimated_seeks loop of urbis_find_adjacent_pages: a transition is
\* counted when the track id changes and the previous one is not 0.
EstimatedSeeks(tids) ==
    Seqs!FoldLeft(LAMBDA a, t : [last |-> t, n |-> IF t # a.last /\ a.last # 0 THEN a.n + 1 ELSE a.n],
                  [last |-> 0, n |-> 0], tids).n

\* urbis_find_adjacent_pages(r) once the page tree exists: the page ids in
\* the tree's order, the track id each page's header carries now (the
\* items hold Page pointers), and the seek estimate over them.
FindAdjacent(r) ==
    LET its  == AdjacentItems(r)
        tids == [i \in DOMAIN its |-> pages[PageIndex(pages, its[i].id)].track]
    IN  [pageIds |-> [i \in DOMAIN its |-> its[i].id], trackIds |-> tids,
         seeks |-> EstimatedSeeks(tids)]

\* urbis_query_adjacent(r): the objects of the adjacent pages, read from
\* the pages as they are now, whose MBR meets r, page by page in slot order.
QueryAdjacent(r) ==
    Seqs!FoldLeft(LAMBDA acc, it :
                    LET pg == pages[PageIndex(pages, it.id)]
                    IN  acc \o SelectSeq([j \in LiveSlots(pg) |-> pg.slots[j]],
                                         LAMBDA o : MbrIntersects(o.shape.mbr, r)),
                  <<>>, AdjacentItems(r))

\* spatial_index_query_point: a range query over the point's own MBR.
QueryPoint(p) == QueryRange(MbrCreate(p.x, p.y, p.x, p.y))

\* spatial_index_get_block: the position of the first block whose bounds
\* contain p, or 0 for NULL.
GetBlock(p) ==
    LET hits == {i \in DOMAIN blocks : MbrContainsPoint(blocks[i].bounds, p)}
    IN  IF hits = {} THEN 0 ELSE Min(hits)

\* The object a block-tree entry's data pointer designates now.
EntryObj(e) == pages[PageIndex(pages, e.page)].slots[e.slot]

\* spatial_index_query_knn, k > 0: NOT_FOUND on an empty tree; otherwise
\* the entries kdtree_k_nearest may select (qsort's order among equal
\* coordinates is unspecified, so ties may go either way), dereferenced.
KnnResults(q, k) ==
    LET n == Min({k, Cardinality(blockTree)})
    IN  IF blockTree = {} THEN {}
        ELSE {[e \in E |-> EntryObj(e)] :
              E \in {E \in kSubset(n, blockTree) :
                       \A e \in E, f \in blockTree \ E :
                           ~RatLess(DistSq(q, f.pt), DistSq(q, e.pt))}}

(***************************************************************************)
(* Properties.                                                             *)
(***************************************************************************)
DerivedShapes == Seqs!Range(ShapeOf)
                 \cup {o.shape : o \in UNION {Seqs!ToSet(GeojsonObjects[d]) : d \in GeojsonDocs}}
                 \cup {o.shape : o \in UNION {Seqs!ToSet(WktObjects[d]) : d \in WktDocs}}

ObjT == [id : Nat, shape : DerivedShapes \cup {ZeroObj.shape}]
ChecksumTerms == ({"u32", "u64"} \X Nat) \cup ({"pt"} \X {s.c : s \in DerivedShapes})
Mbr == [minx : Int, miny : Int, maxx : Int, maxy : Int]

\* Types of the pool, tracks and facade fields; a track's page_ids is an
\* array of PAGES_PER_TRACK entries.
TypeOK ==
    /\ pages \in Seq([id : Nat \ {0}, track : Nat \ {0}, count : 0..PageCapacity,
                      slots : [1..PageCapacity -> ObjT], extent : Mbr,
                      cen : [x : Int, y : Int, d : Nat \ {0}],
                      dirty : BOOLEAN, full : BOOLEAN, sum : SUBSET ChecksumTerms])
    /\ tracks \in Seq([id : Nat \ {0}, pages : Seq(Nat \ {0}), extent : Mbr, full : BOOLEAN])
    /\ \A i \in DOMAIN tracks : Len(tracks[i].pages) <= PagesPerTrack
    /\ nextObjectId \in Nat \ {0} /\ isBuilt \in BOOLEAN
    /\ blockTree \subseteq [pt : [x : Int, y : Int, d : {1}], id : Nat, page : Nat, slot : 1..PageCapacity]

\* The live objects, as records [id, shape].
Objects == UNION {{pages[k].slots[j] : j \in LiveSlots(pages[k])} : k \in DOMAIN pages}

\* Refinement mapping: the stored object with each live id.
\* spatial_index_get: the first live slot holding id in the first page,
\* in pool order, that holds it (page_find_object).
Get(id) ==
    LET pg == pages[PageHolding(pages, id)]
    IN  pg.slots[CHOOSE j \in LiveSlots(pg) :
                   pg.slots[j].id = id /\ \A i \in 1..(j - 1) : pg.slots[i].id # id]

\* Refinement mapping: the object spatial_index_get returns for each live id.
AbsObjects == [id \in LiveIds |-> Get(id).shape]

OS == INSTANCE ObjectStore WITH objects <- AbsObjects, nextId <- nextObjectId,
                                Shapes <- DerivedShapes, Docs <- GeojsonDocs \cup WktDocs,
                                Batches <- {[i \in DOMAIN gs |-> ShapeOf[gs[i]]] : gs \in BulkInputs}

\* insert, remove, update and build, as the page pool carries them out,
\* behave as the id -> shape map of spec 3 (dense fresh ids, remove and
\* update touch exactly the named object, build changes no object).
ObjectStoreSpec == OS!Spec

\* Every stored id is held by exactly one live slot of one page and was
\* handed out by insert (spec invariants 2 and 3): update's remove-then-
\* insert and the page memmove never leave two copies or a zero id.
ObjectsStoredOnce ==
    \A id \in LiveIds :
        /\ 0 < id /\ id < nextObjectId
        /\ Cardinality(UNION {{<<k, j>> : j \in {j \in LiveSlots(pages[k]) : pages[k].slots[j].id = id}} :
                              k \in DOMAIN pages}) = 1

\* Each page's extent is the union of its objects' MBRs, its centroid their
\* mean when it has objects, and its full flag says count = capacity
\* (spec invariants 1 and 4), after any sequence of add, remove, shift.
PagesWellFormed ==
    \A k \in DOMAIN pages :
        LET pg == pages[k] IN
        /\ MbrNorm(pg.extent) =
             MbrNorm(MbrUnionOver([j \in LiveSlots(pg) |-> pg.slots[j].shape.mbr], LiveSlots(pg)))
        /\ pg.count > 0 =>
             SamePoint(pg.cen, [x |-> MapThenSumSet(LAMBDA j : pg.slots[j].shape.c.x, LiveSlots(pg)),
                                y |-> MapThenSumSet(LAMBDA j : pg.slots[j].shape.c.y, LiveSlots(pg)),
                                d |-> pg.count])
        /\ pg.full <=> pg.count = PageCapacity

\* Every page is listed by the track its track_id names and by no other
\* track, and every listed id is a page of the pool (spec invariant 2).
PageTrackAgreement ==
    /\ \A k \in DOMAIN pages : \A i \in DOMAIN tracks :
          (pages[k].id \in Seqs!ToSet(tracks[i].pages)) <=> tracks[i].id = pages[k].track
    /\ \A i \in DOMAIN tracks : \A p \in Seqs!ToSet(tracks[i].pages) :
          \E k \in DOMAIN pages : pages[k].id = p

\* query_range(R) returns each live object whose MBR meets R exactly once
\* and nothing else (spec L1, I6), whatever the pages' history; and
\* query_point(q) returns exactly the objects whose MBR contains q.
RangeQueryExact ==
    /\ \A r \in Ranges :
          LET res == QueryRange(r) IN
          /\ Seqs!ToSet(res) = {o \in Objects : MbrIntersects(o.shape.mbr, r)}
          /\ Len(res) = Cardinality(Seqs!ToSet(res))
    /\ \A q \in QueryPoints :
          Seqs!ToSet(QueryPoint(q)) =
            {o \in Objects : /\ o.shape.mbr.minx <= q.x /\ q.x <= o.shape.mbr.maxx
                              /\ o.shape.mbr.miny <= q.y /\ q.y <= o.shape.mbr.maxy}

\* While the index is built (no insert, remove or update since build),
\* urbis_find_adjacent_pages(R) lists every page holding an object that
\* meets or touches R, each once, with seeks <= count - 1 (spec test 3),
\* and urbis_query_adjacent(R) returns each object meeting R exactly once.
\* Build roots the page quadtree at idx->bounds, which only insert grows
\* and remove never shrinks: a page outside it would be dropped.
AdjacentWhenBuilt ==
    isBuilt =>
      \A r \in Ranges :
        LET fa  == FindAdjacent(r)
            res == QueryAdjacent(r)
        IN  /\ Seqs!IsInjective(fa.pageIds)
            /\ {pages[k].id : k \in {k \in DOMAIN pages :
                                     pages[k].count > 0 /\ AdjacentOrIntersects(pages[k].extent, r)}}
                 \subseteq Seqs!Range(fa.pageIds)
            /\ fa.seeks <= Len(fa.pageIds) - 1 \/ fa.seeks = 0
            /\ Seqs!ToSet(res) = {o \in Objects : MbrIntersects(o.shape.mbr, r)}
            /\ Len(res) = Cardinality(Seqs!ToSet(res))

\* The sets of objects a correct kNN of q over the current objects may be.
KnnReference(q, k) ==
    LET n == Min({k, Cardinality(Objects)})
    IN  {E \in kSubset(n, Objects) :
           \A e \in E, f \in Objects \ E :
              ~RatLess(DistSq(q, f.shape.c), DistSq(q, e.shape.c))}

\* A kNN answer: n distinct objects forming a reference answer.
KnnAnswerOk(q, k, R) ==
    /\ Cardinality(Seqs!Range(R)) = Cardinality(DOMAIN R)
    /\ Seqs!Range(R) \in KnnReference(q, k)

\* After build (is_built), query_knn answers from the current objects
\* (spec invariant 5, L2): a built block tree reflects the object set.
KnnWhenBuilt ==
    isBuilt => \A q \in QueryPoints, k \in Ks : \A R \in KnnResults(q, k) : KnnAnswerOk(q, k, R)

\* Whenever query_knn succeeds, its answer is the k nearest current
\* objects (spec 4.7: kNN requires built, else not_built).
KnnAnswersCurrent ==
    \A q \in QueryPoints, k \in Ks : \A R \in KnnResults(q, k) : KnnAnswerOk(q, k, R)

\* Every track lists each of its pages once and its extent is the union of
\* its pages' extents (spec I2), however inserts open and fill tracks.
TracksWellFormed ==
    \A i \in DOMAIN tracks :
        /\ Seqs!IsInjective(tracks[i].pages)
        /\ MbrNorm(tracks[i].extent) =
             MbrNorm(MbrUnionOver([j \in DOMAIN tracks[i].pages |->
                                     pages[PageIndex(pages, tracks[i].pages[j])].extent],
                                  DOMAIN tracks[i].pages))

\* find_adjacent_pages(r) reports the non-empty pages whose extent meets or
\* touches r as they are now: the spec's shared-resource policy rebuilds
\* the page quadtree on build or on the first adjacency query after a
\* mutation, while spatial_index_find_adjacent_pages rebuilds it only when
\* idx->page_tree is NULL and insert, remove and update never drop it.
AdjacentPagesCurrent ==
    pageTree.present =>
        \A r \in Ranges :
            AdjacentPages(r) =
              {pages[k].id : k \in {k \in DOMAIN pages :
                                      pages[k].count > 0 /\ AdjacentOrIntersects(pages[k].extent, r)}}

\* Once built, the blocks partition the object set (spec: "a build-time
\* partition of the object set by centroid clustering"): every object's
\* centroid lies in the bounds of a block, so spatial_index_get_block
\* finds one for it.  collect_leaf_bounds emits no bounds for the node it
\* recurses past, whose point is the median of its subtree.
BlocksPartitionObjects ==
    isBuilt => \A o \in Objects : GetBlock(o.shape.c) # 0

\* idx->bounds is the union of the stored objects' MBRs (spec invariant 6).
BoundsIsUnion ==
    MbrNorm(bounds) = MbrNorm(MbrUnionOver([o \in Objects |-> o.shape.mbr], Objects))

=============================================================================
