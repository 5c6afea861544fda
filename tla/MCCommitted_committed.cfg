SPECIFICATION Spec
CONSTANTS
    Request <- MCRequest
    MergeKeys = {1, 2, 3}
    LastKey = 3
    CompareKeys = {1, 2}
    Tombstone = 0
    BreakKeys = {2}
INVARIANTS
    TypeOK
    RangesApart
    SummaryCounts
    DiffTells
    CompareForetells
PROPERTIES
    MergeKeepsPromise
