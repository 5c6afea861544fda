SPECIFICATION FairSpec
CONSTANTS
    Goroutines = {g1, g2, g3}
    NoOne = NoOne
    Namespaces = {n1}
    Names = {f1}
    LockKeys = {f1}
    Paths <- OnePath
    Jobs <- SharedJobs
    Unreliable <- OnePath
    MaxRestarts = 2
    g1 = g1
    g2 = g2
    g3 = g3
    n1 = n1
    f1 = f1
INVARIANTS TypeOK OpensFind DiskIsAccounted
PROPERTIES JobsEnd RefusedFilesGo
CHECK_DEADLOCK FALSE
