CONSTANTS
    Big = 100
    Geoms <- MC_OnePoint
    GeojsonDocs <- MC_GeojsonDocs
    WktDocs <- MC_WktDocs
    DocShapes <- MC_DocShapes
    PageCapacity = 2
    PagesPerTrack = 3
    BlockSize = 1
    BuildQuadtree = TRUE
    MaxObjectId = 3
    MaxPages = 2
    MaxTracks = 2
    Ranges <- MC_Ranges
    QueryPoints <- MC_QueryPoints
    Ks <- MC_Ks
    BulkInputs <- MC_BulkInputs

SPECIFICATION Spec

INVARIANTS
    TypeOK
    ObjectsStoredOnce
    PagesWellFormed
    PageTrackAgreement
    RangeQueryExact
    AdjacentWhenBuilt
PROPERTIES
    ObjectStoreSpec
