# Urbis — TLA+ verification project

This directory holds TLA+ models of the Urbis spatial index (`src/src/*.c`),
the TLC configurations that check them, and `PROJECT.json`. `PROJECT.json`
maps every model definition to the C lines it translates, and lists the runs,
mutants, findings and hazards.

## 1. Inventory

Urbis is a single-threaded, in-process library. Parts interact through direct
function calls and shared memory owned by the page pool:

* the page pool owns the pages and tracks;
* the allocation k-d tree, the block k-d tree, the page quadtree and the LRU
  cache hold `Page*` pointers, `&page->objects[j]` pointers, or page ids into
  that pool.

Nothing runs concurrently (spec §5). The difficulty is therefore not thread
interleaving but *long sequences of legal calls*. Derived state (track
extents, the allocation tree, the block tree, the page quadtree, the file
header) is refreshed by some operations and not by others, and is read later
while stale.

| Component | Source | State it keeps | Operations that change state | What must hold |
|---|---|---|---|---|
| C1 geometry / MBR | `geometry.c` | none (value math) | — (pure) | the empty-MBR sentinel is the identity of union; centroid and MBR agree with the geometry |
| C2 k-d tree | `kdtree.c` | nodes {point, id, data, split_dim, bounds, size} | `kdtree_insert`, `kdtree_bulk_load`, `kdtree_free/init` | `nearest` returns a point of minimum distance; `partition` covers every point once |
| C3 quadtree | `quadtree.c` | nodes {bounds, depth, items, children} | `quadtree_insert`, `qtnode_split`, `quadtree_remove`, `quadtree_update`, `quadtree_clear` | every inserted item stays reachable; `query_range` is exact |
| C4 page & track store | `page.c` (pages, tracks, pool) | pool pages[], tracks[], next ids; per page objects[], count, flags, extent, centroid | `page_add_object`, `page_remove_object`, `page_update_derived`, `track_add_page`, `page_pool_alloc` | page extent, centroid and full flag agree with its objects; a page is in exactly one track, once |
| C5 LRU page cache | `page.c` (cache) | hash table of refs, MRU list, count | `page_cache_get`, `page_cache_evict`, `pin`/`unpin` | at most one ref per page; `count <= capacity`; `get` returns |
| C6 allocator | `disk_manager.c` | allocation k-d tree over page centroids, header bounds | `disk_manager_alloc_page`, `disk_manager_rebuild_allocation_tree`, `disk_manager_create_track` | a new page lands in a track with room; the allocation tree indexes the pool's non-empty pages |
| C7 façade | `spatial_index.c`, `urbis.c` | bounds, next_object_id, is_built, block tree, blocks, page quadtree | insert, remove, update, build, clear, load of a GeoJSON or WKT text | the pages hold exactly the inserted-and-not-removed objects, ids unique; range queries exact; kNN answers from the current objects |
| C8 adjacency | `spatial_index.c` (`find_adjacent_pages`) | lazily built page quadtree | `build_page_quadtree` | adjacency reflects the current page extents |
| C9 persistence | `disk_manager.c` (create/open/close/sync) | open file, header, on-disk page records, dirty flags | `disk_manager_create`, `_open`, `_close`, `_sync` | save-then-load restores every object; ids stay unique after load |
| C10 parsers | `parser.c` | none (text to objects) | — (pure) | the objects a text holds, with id 0; malformed text fails |
| demos | `examples/*.c` | — | — | programs using the API; not modelled |

## 2. Modules and how they correspond to the code

| Module | Models | State (VARIABLES) | Actions / operators |
|---|---|---|---|
| `Geometry` | C1, `geometry.c` | — | MBR create/empty/union/intersects/contains on integers (`Big` stands for `DBL_MAX`). `point_distance`, `linestring_centroid`, `ring_signed_area`, `ring_centroid`/`polygon_centroid`, the MBRs, `spatial_object_init_*` and `spatial_object_update_derived` work on exact rationals |
| `KdTree` | C2, `kdtree.c` | — | `KdInsert`, `KdNearest`, `KdBulkLoad` (median `count / 2`), `KdBounds` (kdnode_update_bounds), `KdBlocks` (collect_leaf_bounds) |
| `Parser` | C10, `parser.c` | — | `GeojsonParseString` and `WktParse`, through the JSON reader (`ParseValue`, `ParseArray`, `ParseObject`, `ParseString`, `ParseNumber`, `Strtod`) and `ParseGeojsonFeature` / `ParseGeojsonGeometry` |
| `Export` | C10, `parser.c` writers | — | `GeojsonExport`, `WktExport` as the texts of their snprintf calls; `WriterCalls` runs the coordinate loop against a buffer size; `GeojsonParseGeometry` reads a geometry back |
| `ObjectStore` | spec §3, §4.7, C10 | `objects`, `nextId` | the abstract façade: insert, bulk insert, remove, update, load of a document, clear, over an id → shape map |
| `SpatialIndex` | C4, C6, C7, C8 | `pages`, `tracks`, `nextPageId`, `nextTrackId`, `nextObjectId`, `bounds`, `dmBounds`, `isBuilt`, `blockTree`, `blocks`, `pageTree` | `UrbisInsert` (urbis_insert_point/_linestring/_polygon over `Insert`), `BulkInsert`, `LoadGeojsonString`, `LoadWkt`, `Remove`, `Update`, `BuildEmpty`, `Build` (also optimize), `FindAdjacentPages`; `QueryRange`, `QueryPoint`, `KnnResults`, `GetBlock`, `AdjacentItems`/`AdjacentPages`, `Get`, and the `urbis.c` wrappers `FindAdjacent` (with `EstimatedSeeks`) and `QueryAdjacent` are queries |
| `SpatialIndexClear` | `spatial_index_clear` | the above + `allocTree` | `Clear`, `InsertAfterClear` |
| `MC_SpatialIndex`, `MC_SpatialIndexClear` | — | — | shapes, documents, ranges and query points for TLC |
| `MC_Persistence` | — | — | the file bounds, and `MC_ExportGeoms` with `ASSUME ExportRoundTrip`, which TLC checks before every Persistence run |
| `Persistence` | C9, `disk_manager.c` file I/O | the `SpatialIndex` variables + `fileExists`, `fileHdr`, `fileRecs`, `isOpen`, `saved`, `loaded`, counters | `Save` (create + sync), `Sync` (urbis_sync on the open file: dirty pages and header rewritten, dirty flags cleared), `Restart` (destroy, then init in a new process), `Load` (open + read + build) |
| `RegionStore` | spec §4.2 | `items` | the abstract quadtree: a map id → bounds |
| `Quadtree`, `MC_Quadtree` | C3, `quadtree.c` | `tree` (path → node), `totalItems` | `Insert`, `Remove`, `Update`, `Clear`; `QtInsertAt`, `Split`, `QtQuery`, `QtQueryPoint`, `QtRemove` are recursive operators |
| `PageCache`, `MC_PageCache` | C5, `page.c` cache | ref slots with `pid`, `nxt`, `prv`, `pinned`, `live`; `head`, `tail`, `bucket`, `count`, `pc` | `GetHit`, `GetMiss`, `EvictSkipPinned`, `EvictTail`, `AddRef`, `AddRefNoMemory`, `Pin`, `Unpin`, `FreePage` |

The page pool's own functions are operators that the actions call:
`CreateTrack` (`page_pool_create_track`), `PagePoolAlloc` (`page_pool_alloc`),
`PoolQueryRegion` (`page_pool_query_region`), `PageChecksum` / `PageVerify`
(`page_checksum` / `page_verify`); `Persistence!Validate` is
`disk_manager_validate`.

An action models one whole C function, including the helpers it calls. For
example, `Insert` is `spatial_index_insert` through
`spatial_object_update_derived`, `get_page_for_insert`,
`disk_manager_alloc_page`, `page_add_object`, `page_update_derived` and the
allocation-tree rebuild. `PROJECT.json` → `map` names the lines each
definition translates.

**Loading text.** `LoadGeojsonString(d)` and `LoadWkt(d)` are
`urbis_load_geojson_string` and `urbis_load_wkt`. Each is one atomic step:

* parse the document with the `Parser` operators;
* give each parsed object the shape `spatial_object_update_derived` derives;
* insert the objects in order with `InsertObj` (`LoadObjects` folds
  `InsertParsed`).

As in `spatial_index_insert`, an object keeps a nonzero id and is given
`next_object_id` only when its id is 0. A document is a TLA+ string. The
parser reads it character by character, the way `parser.c` walks its input:

* positions are 1-based;
* `Ch(s, p)` is `""` past the end, as `peek` returns `'\0'`;
* numbers are read exactly as rationals, the way `strtod` reads decimal
  numerals.

Each step of a C loop is an operator, and the step before hands it its
result as a parameter (`ArrayOpen` gets `expect`'s result, and so on). This
keeps every intermediate result computed once. Each parse is a constant
(`ParsedGeojson`, `ParsedWkt`), so TLC evaluates it once per run.

Steps inside a call are separate actions only where something can happen
between them. In `PageCache`, `page_cache_get` is split at its miss: the
eviction loop and the calloc are steps of their own, so the loop's
non-termination is visible as a behaviour.

**`SpatialIndexClear`.** `SpatialIndex` keeps the allocation tree implicit, as
`AllocTree(pages)`, because every insert and remove ends with
`disk_manager_rebuild_allocation_tree`. `spatial_index_clear` frees the pages
without that rebuild, so `SpatialIndexClear` makes the tree a variable:

* `Clear` leaves `allocTree` holding the freed pages;
* `InsertAfterClear` is the insert that then dereferences one.

Reading `page_is_full` on freed memory is undefined. It is modelled as the
two outcomes the build can produce: the page reads as full, and a new page
is allocated as `Insert` does; or it reads as not full, and the object is
written into the freed page.

The refinements are checked as PROPERTYs:

* `SpatialIndex` implements `ObjectStore` (`OS == INSTANCE ObjectStore WITH
  objects <- AbsObjects, nextId <- nextObjectId, ...`). `ObjectStore`'s
  `Load` inserts the shapes `DocShapes[d]` that spec C10 says document `d`
  holds, each with a fresh id. So the refinement also checks the parser's
  output against the spec for the documents of the model.
* `Quadtree` is checked against `RegionStore`. It does not refine it; see
  run `qt_split_drops`.

## 3. Runs (what is checked, what it shows)

Passing runs. Each property also has a mutant in `PROJECT.json` that TLC must
catch.

* **si_core** (`SpatialIndex.cfg`, 26k states, about 25 s). Every sequence of
  the following keeps the properties below true: inserts of a point, a bulk
  insert of two points, loads of a GeoJSON FeatureCollection and of a WKT
  line, removes, updates, builds and lazy page-tree builds.
  * Each object is in exactly one page slot (`ObjectsStoredOnce`).
  * Page count, extent, centroid and full flag agree with the objects
    (`PagesWellFormed`).
  * Every page is in the track its header names (`PageTrackAgreement`).
  * `query_range` returns exactly the objects meeting the range, and
    `query_point` exactly those whose MBR holds the point
    (`RangeQueryExact`).
  * Once built, `urbis_find_adjacent_pages` names each adjacent or
    intersecting non-empty page once, its seek estimate is at most one less
    than the pages it names, and `urbis_query_adjacent` returns the objects
    meeting the range once each (`AdjacentWhenBuilt`). This holds because
    every insert grows `idx->bounds` by the object's MBR, the root bounds
    the page quadtree is built with.
  * The façade implements `ObjectStore`, with the documents holding the
    shapes the spec gives them (`ObjectStoreSpec`).

  The FeatureCollection exercises several parser paths: escapes,
  `properties`, the exponent and fraction forms `2e0` and `2.00`, and a
  Polygon with a hole at 0.5. The WKT text is in lower case with no spaces.
* **p_roundtrip** (`Persistence.cfg`). One save, then any number of
  `urbis_sync` calls on the open file, with loads into a fresh index:
  * every object the file was last synced from is back after a restart and
    load (`SavedObjectsSurviveLoad`);
  * while the file is open, every clean page is mirrored in its record
    (`FileMirrorsCleanPages`);
  * while the file is open, `disk_manager_validate` returns DM_OK: every
    page header's checksum matches its contents (`ValidateOk`). This holds
    because the last step of every change to a page is `page_update_derived`,
    which recomputes the checksum. `page_add_object` and `page_remove_object`
    do not recompute it themselves.

  `PageChecksum` models `page_checksum` by which terms it hashes, not by the
  bits of the hash. Its inputs are the page id, track id and object count,
  and each live object's id and centroid. Fields are XORed together, so
  equal terms cancel. The checksum is therefore the set of terms that occur
  an odd number of times, and the checksum 0 of a new page is `{}`.

  `MC_Persistence` also asserts `ExportRoundTrip` on three geometries (a
  point at -1/2, a linestring through 1/3, a square with a hole): each
  GeoJSON export, written into a buffer one byte longer than its text,
  returns the text's length and reads back through `geojson_parse_geometry`
  to within half a millionth; the WKT export of the point and line reads
  back through `wkt_parse`. TLC evaluates the assumption before the run.
* **qt_core** (`Quadtree.cfg`). Every sequence of operations keeps these true:
  * the tree stays a region quadtree (`TreeShape`);
  * items sit where insert and split put them (`ItemPlacement`);
  * `query_range` and `query_point` equal the filter of the stored items,
    for the centre point on every split line too (`QueryExact`).
* **pc_core** (`PageCache.cfg`). Gets, pins, unpins and page frees keep these
  true:
  * the LRU list is a well-formed doubly linked list of `count` ≤ capacity
    refs;
  * no bucket points at a freed ref.

Violation runs. Each checks one property the spec states, and TLC finds it
broken by what the code does (see `findings`):

| Run | Property | Trace | Code |
|---|---|---|---|
| si_clear_dangling | `ObjectStoreSpec` | insert, clear, insert | `spatial_index.c:647`: clear frees the pages but not the allocation tree's pointers to them; the next insert writes into a freed page and returns SI_OK |
| si_knn_when_built | `KnnWhenBuilt` | insert, build, remove, build | `spatial_index.c:283` leaves the old block tree, which points at zeroed slots |
| si_adjacent_stale | `AdjacentPagesCurrent` | insert, build, insert | `spatial_index.c:422` rebuilds the page quadtree only when it is NULL |
| p_save_twice | `SavedObjectsSurviveLoad` | insert, save, save, restart, load | `disk_manager.c:231`: create's close clears the DIRTY flags before the truncate, so nothing is rewritten |
| p_ids_after_load | `ObjectsStoredOnce` | insert, save, restart, load, insert | `spatial_index.c:620`: `next_object_id` is not restored, so id 1 is reused |
| qt_split_drops | `RegionStoreSpec` | two inserts | `quadtree.c:92`: split drops an item that straddles the centre |
| pc_duplicates | `NoDuplicateRefs` | get 1, get 5, get 1, get 1 | `page.c:698`: the hash chain is threaded through the LRU list, the lookup misses, and a second ref is made |
| pc_evict_spins | `GetCompletes` | full cache, pinned tail, miss | `page.c:764`: evict re-reads the tail forever |

A control check supports `si_clear_dangling`. With only the "reads as full"
outcome of `InsertAfterClear`, `ObjectStoreSpec` holds over all 408k states.
So the violation comes from the dangling pointer alone.

**Checked, but without a run.** The project keeps twelve runs, and each
violation run above shows a different finding. The following properties are
stated and were checked by TLC, but no run in `PROJECT.json` keeps them:

* `TracksWellFormed`. Every track lists each of its pages once, and its
  extent is the union of its pages' extents (spec I2). `SI_TracksWellFormed.cfg`
  finds it violated by the first insert, for two reasons:
  * `disk_manager_alloc_page` adds the page to its track a second time
    (`disk_manager.c:402`);
  * the track extent is computed only when an empty page joins
    (`page.c:339`).
* The parser, checked directly by TLC on sample texts:
  * `wkt_parse` of a one-ring `POLYGON ((0 0, 2 0, 2 2, 0 2))` returns a
    polygon with no points. It skips `((`, then searches for another `(`
    (`parser.c:766`), so a polygon is read only from its second ring.
  * An unknown GeoJSON `type` returns `PARSE_OK` with no objects, not
    *unsupported*.
  * A feature's numeric `id` is kept (`parser.c:458`), where spec C10 says
    parsed objects carry id 0. `spatial_index_insert` keeps nonzero ids, so
    a document with `"id": 1` loaded after an insert stores id 1 twice. That
    breaks `ObjectsStoredOnce`; see `hazards`.

* `ExportInBuffer`. No snprintf of `geojson_export` or `wkt_export` is
  made past the end of the caller's buffer. It is false for every buffer
  size from 1 to 64 on the geometries above: the coordinate loop stops only
  when `written >= buffer_size`, the last iteration can end past the
  buffer, and the closing `snprintf(buffer + written, buffer_size -
  written, ...)` then gets a wrapped `size_t` and writes outside the buffer
  (`parser.c:673`, `:691`, `:821`). `geojson_export_collection` reaches it
  with its 4096-byte `geom_buf` for a geometry of about 170 points.
* `AdjacentWhenBuilt` under the Persistence spec: after insert, save,
  restart and load, the loaded index's `bounds` are the header's, which
  `disk_manager_close` wrote from centroids only. The page quadtree is
  built inside them, pages whose extent reaches outside are not indexed
  for the parts outside, and `find_adjacent_pages` misses them.

* `BlocksPartitionObjects`. Once built, every object's centroid lies in a
  block, so `spatial_index_get_block` finds one for it (the spec calls
  blocks a partition of the object set). `SI_BlocksPartition.cfg` finds it
  violated by insert, insert, build: `collect_leaf_bounds`
  (`kdtree.c:193`) recurses past an inner node without emitting it, so the
  median object of each split subtree lies in no block.

## 4. Bounds and fairness

Bounds are named constants, each set to the smallest value at which the
interesting case happens:

* 2 page slots and 2 pages give page overflow, a second page, and a best-fit
  choice between pages.
* 3 object ids allow remove-then-insert, and an update that moves an object
  across pages. A load of the FeatureCollection takes two ids at once.
* `BlockSize = 1` gives the block k-d tree an inner node.
* `MaxTracks = 2` in si_core admits one build after the first track.
* In si_core, `Geoms` is the single point (2, 2). The documents bring a
  second point, a segment and a square, so shapes still differ across
  pages. With two insertable shapes plus the documents the run takes 2.5
  minutes, which is too slow for the check.
* The documents are short. TLC evaluates the parser by recursion, one level
  per character skipped, and long runs of white space overflow its stack.
* Capacity 1 at depth 2 makes the quadtree split twice.
  The quadtree's query points are the centre, on every split line, a
  corner cell, and the root's corner.
* `BulkInputs` is one array of two copies of the point: one bulk call
  fills a page.
* Page ids 1 and 5 on 4 buckets collide in the cache's hash.
* `MC_ExportGeoms` has a negative value that rounds to half, a third that
  `%.6f` must round, and a polygon with a hole that the writers drop: each
  is a different path through the formatting and the read back.
* `MaxSaves` and `MaxRestarts` are 1–2, the length of a save/restart/load
  story.

The façade is a synchronous library (spec §5), so no caller is obliged to make
any call. The façade and file specs therefore have no fairness and state
safety only.

Liveness is stated for one thing only: that a call, once entered, returns
(`GetCompletes`). For this the cache spec assumes weak fairness of the steps
inside `page_cache_get` (eviction and the calloc). The calling thread runs
those steps without waiting on anyone, so this fairness holds.

The PageCache cfgs set `CHECK_DEADLOCK FALSE`. Once every pool page is freed,
every call returns NOT_FOUND and changes nothing, so the system really may
stop.

## 5. Not modelled

* Parser:
  * `geojson_parse_file` and `geojson_parse_stream` (file and callback I/O);
  * `geojson_export_collection` (it wraps `geojson_export` in a fixed
    4096-byte buffer, see `ExportInBuffer`) and the exporters' `%.6f` for
    values beyond the model's rationals;
  * the `feature_collection_*` memory helpers;
  * `strtod`'s hexadecimal, infinity and NaN forms, and `'\v'` in `isspace`;
  * stack depth (`PARSER_MAX_DEPTH` is never checked; see `hazards`).
* Loads while the allocation tree is stale after a clear. `SpatialIndexClear`
  lets only `Insert` meet the stale tree.
* `query_blocks`, `get_all_blocks`, `stats`: copies of state.
* `urbis_insert` of a caller's object: a copy, then `spatial_index_insert`.
  Ids written back into a caller's array by `bulk_insert` are not state.
* The `urbis.c` wrappers other than the loads, adjacency and seeks: they
  copy and count.
* `query_radius`, the kdtree range and radius queries, `quadtree_find_adjacent`
  by id, `quadtree_stats`/`get_all`, and `is_balanced`.
* Allocation failure anywhere. Every insert of a load succeeds, so the
  partial load after a failed insert is a hazard without a property.
* `disk_manager_free_page` outside the cache. Neither the façade nor
  `spatial_index.c` calls it. Freeing a page leaves a gap in the page ids,
  which `disk_manager_open` does not expect, and leaves a dangling ref in the
  cache. Both are listed in `hazards`.
* A crash inside `sync`: the spec makes crash-safe durability a non-goal.
* Track-strategy variants that the façade never selects.
* `mark_dirty` and `flush` in the cache.

Every part is listed in `PROJECT.json` → `components` with its status.
