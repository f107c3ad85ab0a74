CONSTANTS
    Big = 100
    RootBounds <- MC_Root
    Capacity = 1
    MaxDepth = 2
    Ids = {1, 2, 3}
    Boxes <- MC_Boxes
    MaxTotal = 4
    Ranges <- MC_Ranges
    QueryPoints <- MC_QueryPoints

SPECIFICATION QtSpec

PROPERTY
    RegionStoreSpec
