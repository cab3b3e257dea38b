SPECIFICATION FairSpec
CONSTANTS
    open = open
    refused = refused
    message = message
    signedAnew = signedAnew
    unverified = unverified
    rotate = rotate
    close = close
    stray = stray
    channel = channel
    own = own
    other = other
    id = id
    key = key
    temporary = temporary
    nonce = nonce
    key1 = key1
    key2 = key2
    newKey2 = newKey2
    Failed = Failed
    Nobody = Nobody
    OwnKey = own
    Channels <- MCChannels
    Transactions = {open, refused, message, signedAnew, unverified, rotate, close, stray}
    Verified <- MCVerified
    Sent <- MCSent
    Content <- MCContent
    InitialSignKeys <- MCSignKeys
INVARIANTS Authentic ReadIfMeant
PROPERTIES EveryOperationSettles MessagesArrive
CHECK_DEADLOCK FALSE
