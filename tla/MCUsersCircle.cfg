CONSTANTS
    Ids <- MCIds
    InitialStore <- MCInitialStore
    Request <- MCRequest
    After <- MCAfter
    KeyValues <- MCKeyValues
    Nobody = Nobody
    revoke = revoke
    late = late
    early = early
    read = read
    unlock = unlock
    add = add
    cross = cross
    key = key
    Requests = {late, cross}
    NumWorkers = 2
SPECIFICATION Spec
INVARIANT NoCircularWait
CHECK_DEADLOCK FALSE
