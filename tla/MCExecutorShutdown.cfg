SPECIFICATION FairExecutorSpec
CONSTANTS
    open = open
    again = again
    close = close
    buffer = buffer
    message = message
    enc = enc
    read = read
    sub = sub
    tx = tx
    revoke = revoke
    channel = channel
    k1 = k1
    k2 = k2
    key = key
    Nobody = Nobody
    Handlers = {open, buffer, message}
    Call <- MCCall
    Refed <- MCRefed
    Channels <- MCChannels
    NumExecutors = 2
    MayStop = TRUE
    Ids <- MCIds
    InitialStore <- MCInitialStore
    KeyValues <- MCKeyValues
    NumWorkers = 4
    Requests <- UserRequests
    Request <- UserRequest
    After <- Follows
PROPERTIES ShutdownCompletes
CHECK_DEADLOCK FALSE
