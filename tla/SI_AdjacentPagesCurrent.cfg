CONSTANTS
    Big = 100
    Geoms <- MC_Geoms
    GeojsonDocs = {}
    WktDocs = {}
    DocShapes <- MC_NoDocShapes
    PageCapacity = 2
    PagesPerTrack = 3
    BlockSize = 1
    BuildQuadtree = TRUE
    MaxObjectId = 3
    MaxPages = 2
    MaxTracks = 3
    Ranges <- MC_Ranges
    QueryPoints <- MC_QueryPoints
    Ks <- MC_Ks
    BulkInputs = {}

SPECIFICATION Spec

INVARIANT
    AdjacentPagesCurrent
