----------------------------- MODULE Persistence -----------------------------
(***************************************************************************)
(* The data file of src/src/disk_manager.c under spatial_index_save and   *)
(* spatial_index_load, added to the SpatialIndex model.                    *)
(*                                                                         *)
(* The file is one path: a header (page_count and bounds, the fields open *)
(* reads back) and a fixed-stride record per page id, written at offset    *)
(* data_offset + (page_id - 1) * page_size.  A record never written, or    *)
(* past the end of the file, reads back as the all-zero buffer.  A process *)
(* ends through spatial_index_destroy and a new one starts from            *)
(* spatial_index_init; the file outlives it.                               *)
(***************************************************************************)
EXTENDS SpatialIndex

CONSTANTS MaxSaves,     \* bound: spatial_index_save calls in a behaviour
          MaxRestarts,  \* bound: process restarts in a behaviour
          LoadIntoUsed  \* callers may load into an index that holds pages

VARIABLES fileExists, \* the path exists
          fileHdr,    \* header on disk: [pageCount, bounds]
          fileRecs,   \* page record on disk at each page id
          isOpen,     \* dm->is_open
          saved,      \* the id -> shape map as of the last sync into the file
          loaded,     \* the last step: "fresh" load into an empty pool, "used" load, or "none"
          saves, restarts

pVars == <<fileExists, fileHdr, fileRecs, isOpen, saved, loaded, saves, restarts>>
allVars == <<siVars, pVars>>

\* page_deserialize of an all-zero buffer: page_id 0, no objects, the
\* extent {0, 0, 0, 0} (a point, not mbr_empty()).
ZeroRecord == [NewPage(0, 0) EXCEPT !.extent = MbrCreate(0, 0, 0, 0)]

\* Mutant of page_serialize: the per-object loop is missing.
SerializeHeaderOnly(pg) == [pg EXCEPT !.slots = [j \in 1..PageCapacity |-> ZeroObj]]

\* page_serialize: the header as it is (flags included), then id, centroid
\* and MBR of the first object_count objects.  Read back into a fresh
\* page, the other slots are page_create's zeroed ones.
Serialize(pg) ==
    [pg EXCEPT !.slots = [j \in 1..PageCapacity |-> IF j <= pg.count THEN pg.slots[j] ELSE ZeroObj]]

\* Mutant of the disk_manager_sync loop: pages without objects are skipped.
WriteDirtySkipEmpty(pgs, recs) ==
    Seqs!FoldLeft(LAMBDA r, pg : IF pg.dirty /\ pg.count > 0 THEN [r EXCEPT ![pg.id] = Serialize(pg)] ELSE r,
                  recs, pgs)

\* The loop of disk_manager_sync: each DIRTY page is written at its id,
\* in pool order; then the flags are cleared.
WriteDirty(pgs, recs) ==
    Seqs!FoldLeft(LAMBDA r, pg : IF pg.dirty THEN [r EXCEPT ![pg.id] = Serialize(pg)] ELSE r,
                  recs, pgs)

ClearDirty(pgs) == [k \in DOMAIN pgs |-> [pgs[k] EXCEPT !.dirty = FALSE]]

\* The header disk_manager_sync writes: page_count from the pool, bounds
\* as dm->header holds them.
SyncHeader(pgs, hb) == [pageCount |-> Len(pgs), bounds |-> hb]

EmptyFile == [i \in 1..MaxPages |-> ZeroRecord]

Init_ ==
    /\ Init
    /\ fileExists = FALSE
    /\ fileHdr = SyncHeader(<<>>, MbrEmpty)
    /\ fileRecs = EmptyFile
    /\ isOpen = FALSE
    /\ saved = AbsObjects
    /\ loaded = "none"
    /\ saves = 0 /\ restarts = 0

\* A facade operation of SpatialIndex; the file is untouched.
IndexStep ==
    /\ Next
    /\ loaded' = "none"
    /\ UNCHANGED <<fileExists, fileHdr, fileRecs, isOpen, saved, saves, restarts>>

\* spatial_index_save: disk_manager_create closes an open file first (its
\* sync writes the dirty pages and clears their flags), truncates the file
\* and writes a fresh header with bounds = mbr_empty(); then
\* disk_manager_sync writes the pages still DIRTY and the header.
Save ==
    LET p1 == IF isOpen THEN ClearDirty(pages) ELSE pages IN
    /\ saves < MaxSaves
    /\ fileRecs' = WriteDirty(p1, EmptyFile)
    /\ fileHdr' = SyncHeader(pages, MbrEmpty)
    /\ fileExists' = TRUE
    /\ pages' = ClearDirty(pages)
    /\ dmBounds' = MbrEmpty
    /\ isOpen' = TRUE
    /\ saved' = AbsObjects
    /\ loaded' = "none"
    /\ saves' = saves + 1
    /\ UNCHANGED <<tracks, nextPageId, nextTrackId, nextObjectId, bounds, isBuilt,
                   blockTree, blocks, pageTree, restarts>>

\* spatial_index_destroy (disk_manager_close syncs an open file), then
\* spatial_index_init in a new process.
Restart ==
    /\ restarts < MaxRestarts
    /\ fileRecs' = IF isOpen THEN WriteDirty(pages, fileRecs) ELSE fileRecs
    /\ fileHdr' = IF isOpen THEN SyncHeader(pages, dmBounds) ELSE fileHdr
    /\ saved' = IF isOpen THEN AbsObjects ELSE saved
    /\ pages' = <<>> /\ tracks' = <<>>
    /\ nextPageId' = 1 /\ nextTrackId' = 1 /\ nextObjectId' = 1
    /\ bounds' = MbrEmpty /\ dmBounds' = MbrCreate(0, 0, 0, 0)
    /\ isBuilt' = FALSE /\ blockTree' = {} /\ blocks' = <<>> /\ pageTree' = NoTree
    /\ isOpen' = FALSE
    /\ loaded' = "none"
    /\ restarts' = restarts + 1
    /\ UNCHANGED <<fileExists, saves>>

\* spatial_index_load: disk_manager_open closes an open file first (a
\* sync into the same file), reads the header, appends one page per record
\* 1..page_count to the pool (page_pool_alloc with track 0, then
\* page_deserialize over the whole header); idx->bounds is taken from the
\* header; then spatial_index_build.
Load ==
    LET recs == IF isOpen THEN WriteDirty(pages, fileRecs) ELSE fileRecs
        hdr  == IF isOpen THEN SyncHeader(pages, dmBounds) ELSE fileHdr
        p0   == IF isOpen THEN ClearDirty(pages) ELSE pages
        p1   == p0 \o [i \in 1..hdr.pageCount |-> recs[i]]
        tot  == MapThenSumSet(LAMBDA k : p1[k].count, DOMAIN p1)
        nb   == BlockCount(p1)
    IN
    /\ fileExists
    /\ LoadIntoUsed \/ pages = <<>>
    /\ Len(p1) <= MaxPages
    /\ Len(tracks) + nb <= MaxTracks
    /\ fileRecs' = recs
    /\ fileHdr' = hdr
    /\ pages' = p1
    /\ nextPageId' = nextPageId + hdr.pageCount
    /\ bounds' = hdr.bounds
    /\ dmBounds' = hdr.bounds
    /\ isOpen' = TRUE
    /\ saved' = IF isOpen THEN AbsObjects ELSE saved
    /\ loaded' = IF pages = <<>> THEN "fresh" ELSE "used"
    \* spatial_index_build over the loaded pool
    /\ isBuilt' = TRUE
    /\ IF tot = 0
       THEN UNCHANGED <<blockTree, blocks, tracks, nextTrackId, pageTree>>
       ELSE /\ blockTree' = BlockEntries(p1)
            /\ blocks' = Blocks(p1, nextTrackId)
            /\ tracks' = tracks \o [i \in 1..nb |-> NewTrack(nextTrackId + i - 1)]
            /\ nextTrackId' = nextTrackId + nb
            /\ pageTree' = IF BuildQuadtree THEN PageTreeOf(p1, hdr.bounds) ELSE pageTree
    /\ UNCHANGED <<nextObjectId, fileExists, saves, restarts>>

\* urbis_sync (disk_manager_sync) with the file open: each DIRTY page is
\* written at its id and its flag cleared, then the header.  On a closed
\* file it returns DM_ERR_NOT_OPEN and changes nothing.
Sync ==
    /\ isOpen
    /\ fileRecs' = WriteDirty(pages, fileRecs)
    /\ fileHdr' = SyncHeader(pages, dmBounds)
    /\ pages' = ClearDirty(pages)
    /\ saved' = AbsObjects
    /\ loaded' = "none"
    /\ UNCHANGED <<tracks, nextPageId, nextTrackId, nextObjectId, bounds, dmBounds, isBuilt,
                   blockTree, blocks, pageTree, fileExists, isOpen, saves, restarts>>

\* disk_manager_validate on an open manager: magic and version are as
\* disk_manager_create wrote them or read_header accepted them, so the
\* result is page_verify of every page in the pool, in pool order.
Validate(pgs) == \A k \in DOMAIN pgs : PageVerify(pgs[k])

PNext == IndexStep \/ Save \/ Sync \/ Restart \/ Load

PSpec == Init_ /\ [][PNext]_allVars


(***************************************************************************)
(* Properties.                                                             *)
(***************************************************************************)
\* The objects the file was last synced from (by save, or by the close in
\* destroy or in load) with their shapes are all in the index right after
\* a load.
SavedPresent == \A id \in DOMAIN saved : \E o \in Objects : o.id = id /\ o.shape = saved[id]

\* Spec L5 as a process restart exercises it: right after
\* spatial_index_load into a new index (empty pool), every object the file
\* was last synced from is back with its shape.
SavedObjectsSurviveLoad == loaded = "fresh" => SavedPresent

\* A page without PAGE_STATUS_DIRTY ("no unsaved modifications", page.h)
\* has, while the file is open, its current contents in the file record at
\* its id (flags aside: the record keeps the flags the page had when written).
Unflagged(pg) == [pg EXCEPT !.dirty = FALSE]
FileMirrorsCleanPages ==
    isOpen => \A k \in DOMAIN pages :
                 ~pages[k].dirty => Unflagged(fileRecs[pages[k].id]) = Unflagged(Serialize(pages[k]))

\* disk_manager_validate returns DM_OK whenever the file is open: the
\* checksum in every page header matches the page's contents, also for
\* pages disk_manager_open read back, whose whole header (checksum
\* included) is the one the last sync of that record wrote.
ValidateOk == isOpen => Validate(pages)

\* Right after spatial_index_load, idx->bounds is the union of the loaded
\* objects' MBRs (spec L5: bounds unchanged by the round trip).
LoadKeepsBounds ==
    loaded = "fresh" => MbrNorm(bounds) = MbrNorm(MbrUnionOver([o \in Objects |-> o.shape.mbr], Objects))

=============================================================================
