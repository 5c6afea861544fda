SPECIFICATION FairSpec
CONSTANTS
    Requests = {p1, p2, p3}
    Keys = {k1}
    Origin = Origin
    NoOne = NoOne
    Servers = {s1}
    WakeupCapacity = 1
    MaxFetch = 5
    Initial = {}
    MaxWriteTries = 2
    MaxUpdateTries = 2
    Mortal = {}
    Unsure = {p1, p2, p3}
    Tasks <- LiveTasks
    FirstKey = k1
    p1 = p1
    p2 = p2
PROPERTIES Terminates CleanupDrains
