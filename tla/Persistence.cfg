CONSTANTS
    Big = 100
    Geoms <- MC_OneGeom
    GeojsonDocs = {}
    WktDocs = {}
    DocShapes <- MC_NoDocShapes
    PageCapacity = 2
    PagesPerTrack = 3
    BlockSize = 1
    BuildQuadtree = TRUE
    MaxObjectId = 2
    MaxPages = 2
    MaxTracks = 3
    Ranges <- MC_Ranges
    QueryPoints <- MC_QueryPoints
    Ks <- MC_Ks
    BulkInputs = {}
    MaxSaves = 1
    MaxRestarts = 2
    LoadIntoUsed = FALSE
    ExportGeoms <- MC_ExportGeoms

SPECIFICATION PSpec

INVARIANTS
    SavedObjectsSurviveLoad
    FileMirrorsCleanPages
    ValidateOk
