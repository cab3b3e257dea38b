SPECIFICATION FairSpec
CONSTANTS
    OpenRequests <- TestOpens
    CloseRequests <- TestCloses
    MessageRequests <- TestMessages
    SubscribeRequests <- TestListeners
    Verifiable <- TestVerifiable
    MayStop = TRUE
INVARIANTS
    TypeOK
    ClosureIsEarliest
    MessagesMatchDuration
    ListenersAuthorized
    NothingStranded
    ReaderAgrees
PROPERTIES
    OnlyDecryptorKeepsLock
    EarlyMessagesAdded
    ClosureOnlyImproves
    KeepsLifecycle
CHECK_DEADLOCK FALSE
