SPECIFICATION ServersSpec
CONSTANTS
    u1 = u1
    u2 = u2
    u3 = u3
    u4 = u4
    u5 = u5
    l1 = l1
    l2 = l2
    Updates = {u1, u2, u3, u4, u5}
    Listeners = {l1, l2}
    Code <- TestCode
    Nothing = Nothing
INVARIANTS
    TypeOK
    SendsNeverBlock
    RegisteredAreOpen
    ToldInOrder
    NothingMissed
    ReadersSeeTheEnd
PROPERTIES
    FinalUpdateDelivered
CHECK_DEADLOCK FALSE
