CONSTANTS
    Ids <- MCIds
    InitialStore <- MCInitialStore
    Request <- MCRequest
    After <- MCAfter
    KeyValues <- MCKeyValues
    Nobody = Nobody
    revoke = revoke
    late = late
    early = early
    read = read
    unlock = unlock
    add = add
    cross = cross
    key = key
    Requests = {revoke, read, unlock}
    NumWorkers = 2
SPECIFICATION Spec
INVARIANT ReleasedAtTheEnd
CHECK_DEADLOCK FALSE
