CONSTANTS
    PageIds = {1, 2, 5}
    Capacity = 2
    Refs = {1, 2, 3}

SPECIFICATION CacheSpec

INVARIANT
    NoDuplicateRefs

CHECK_DEADLOCK FALSE
