-------------------------- MODULE SpatialIndexClear --------------------------
(***************************************************************************)
(* spatial_index_clear (src/src/spatial_index.c) added to SpatialIndex.    *)
(*                                                                         *)
(* SpatialIndex keeps the disk manager's allocation tree implicit: every   *)
(* insert and remove ends with disk_manager_rebuild_allocation_tree, so    *)
(* the tree is AllocTree(pages).  clear frees every page without that      *)
(* rebuild, so here the tree is the variable allocTree, whose entries'     *)
(* data pointers may designate freed pages.                                *)
(***************************************************************************)
EXTENDS SpatialIndex

VARIABLE allocTree   \* dm->allocation_tree: {centroid -> page id, Page *}

clearVars == <<siVars, allocTree>>

ClearInit == Init /\ allocTree = KdNil

\* The allocation tree matches the pool, as every insert and remove leaves it.
AllocCurrent == allocTree = AllocTree(pages)

\* spatial_index_clear: free and re-init the block tree, quadtree_clear
\* the page tree (same root, no items), page_free every page, drop every
\* track, zero block_count, reset bounds and is_built.  next_object_id,
\* the pool's id counters, the disk header and allocation_tree are left.
Clear ==
    /\ pages' = <<>> /\ tracks' = <<>>
    /\ blockTree' = {} /\ blocks' = <<>>
    /\ pageTree' = IF pageTree.present THEN [pageTree EXCEPT !.items = <<>>] ELSE pageTree
    /\ bounds' = MbrEmpty /\ isBuilt' = FALSE
    /\ UNCHANGED <<nextPageId, nextTrackId, nextObjectId, dmBounds, allocTree>>

\* spatial_index_insert while allocTree still holds freed pages (the pool
\* is empty then).  get_page_for_insert takes the nearest entry's Page *
\* and reads page_is_full on freed memory: a read as full allocates a new
\* page as Insert does; a read as not full has page_add_object write the
\* object into the freed page's object array, and insert returns SI_OK.
\* Either way the trailing rebuild makes allocTree match the pool again.
InsertAfterClear(g) ==
    /\ ~AllocCurrent
    /\ nextObjectId <= MaxObjectId
    /\ \/ Insert(g)
       \/ /\ bounds' = MbrExpandMbr(bounds, ShapeOf[g].mbr)
          /\ nextObjectId' = nextObjectId + 1
          /\ isBuilt' = FALSE
          /\ UNCHANGED <<pages, tracks, nextPageId, nextTrackId, dmBounds,
                         blockTree, blocks, pageTree>>
    /\ allocTree' = AllocTree(pages')

\* The other operations: with the tree current, any step of SpatialIndex,
\* after which it is current again; with it stale, the steps that do not
\* consult it (build and the adjacency query).
ClearNext ==
    \/ Clear
    \/ \E g \in Geoms : InsertAfterClear(g)
    \/ AllocCurrent /\ Next /\ allocTree' = AllocTree(pages')
    \/ ~AllocCurrent /\ (BuildEmpty \/ Build \/ FindAdjacentPages) /\ UNCHANGED allocTree

ClearSpec == ClearInit /\ [][ClearNext]_clearVars

=============================================================================
