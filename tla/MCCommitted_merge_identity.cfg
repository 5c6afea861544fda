SPECIFICATION Spec
CONSTANTS
    Request <- AlikeRequest
    MergeKeys = {1, 2}
    LastKey = 2
    CompareKeys = {1, 2}
    Tombstone = 0
    BreakKeys = {2}
PROPERTIES
    MergeKeepsPromise
