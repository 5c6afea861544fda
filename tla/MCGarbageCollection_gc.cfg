SPECIFICATION Spec
CHECK_DEADLOCK FALSE
CONSTANTS
    CommitIDs = {1, 2, 3, 4}
    NoCommit = NoCommit
    Branches = {1, 2}
    Dangling = Dangling
    Rules <- MCRules
    Today = 2
    MetaRanges <- MCMetaRanges
    Paths = {1}
    Addresses = {a1, a2, a3}
    a1 = a1
    a2 = a2
    a3 = a3
    Nothing = Nothing
    Deleted = Deleted
    Identity <- Contents
    Clients = {r1}
    MinAge = 2
    LinkAddressTime = 2
    CloneGracePeriod = 1
    Worlds <- MCWorlds
    MaxClock = 3
    MaxChanges = 3
    MaxPages = 1
INVARIANTS TypeOK NothingMissed NothingOverstays RecentKept
