CONSTANTS
    Ids <- MCIds
    InitialStore <- MCInitialStore
    Request <- MCRequest
    After <- MCAfter
    KeyValues <- MCKeyValues
    Nobody = Nobody
    revoke = revoke
    late = late
    early = early
    read = read
    unlock = unlock
    add = add
    cross = cross
    key = key
    Requests = {revoke, late, early, read, unlock, add, cross}
    NumWorkers = 3
SPECIFICATION FairSpec
INVARIANTS TypeOK RunsUnderPermission LocksReleased RecordsConverge
PROPERTIES OnlyCirclesBlock LeftLockedUnchanged
CHECK_DEADLOCK FALSE
