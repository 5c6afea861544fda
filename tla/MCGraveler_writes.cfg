SPECIFICATION Spec
CONSTANTS
    Requests = {p1, p2, p3}
    Keys = {k1, k2}
    Origin = Origin
    NoOne = NoOne
    Servers = {s1}
    WakeupCapacity = 1
    MaxFetch = 5
    Initial = {k2}
    MaxWriteTries = 2
    MaxUpdateTries = 2
    Mortal = {}
    Unsure = {}
    Tasks <- WriteHeadTasks
    FirstKey = k1
    p1 = p1
    p2 = p2
SYMMETRY Symmetry
INVARIANTS AckedWritesKept ExactUntilSealed
PROPERTIES HeadsDescend
