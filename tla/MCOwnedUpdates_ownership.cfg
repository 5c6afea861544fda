SPECIFICATION FairSpec
CONSTANTS
    Callers = {g1, g2, g3}
    NoOwner = NoOwner
    Refresh = 4
    MaxTrouble = 1
    AcquireInterval = 1
INVARIANTS TypeOK OneOwner OwnersWin FreeKeyIsTaken
PROPERTIES UpdatesEnd
CHECK_DEADLOCK FALSE
