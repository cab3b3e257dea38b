--------------------------- MODULE ChannelsProofs ---------------------------
(***************************************************************************)
(* Proofs about Channels, for any sets of requests.                        *)
(***************************************************************************)
EXTENDS Channels, TLAPS, FiniteSetTheorems, SequenceTheorems

\* The operations on a channel record give channel records.
LEMMA RecordsClosed ==
  ASSUME NEW rec \in ChannelRecords
  PROVE  /\ \A o \in OpenRequests : tryOpen(rec, o) \in ChannelRecords
         /\ \A c \in CloseRequests : tryClose(rec, c) \in ChannelRecords
         /\ applyCloseAttempts(rec) \subseteq ChannelRecords
         /\ \A m \in MessageRequests : addMessage(rec, m) \in ChannelRecords
<1>1. \A o \in OpenRequests : tryOpen(rec, o) \in ChannelRecords
  BY OpenAssumption DEF ChannelRecords, tryOpen, States
<1>2. ASSUME NEW c \in CloseRequests PROVE tryClose(rec, c) \in ChannelRecords
  <2>1. Remaining(rec, c) \subseteq MessageRequests
    BY DEF Remaining, ChannelRecords
  <2> QED
    BY <2>1 DEF ChannelRecords, tryClose, States
<1>3. applyCloseAttempts(rec) \subseteq ChannelRecords
  <2>1. FirstAttempts(rec) \subseteq CloseRequests
    BY DEF FirstAttempts, ChannelRecords
  <2>2. [rec EXCEPT !.attempts = {}] \in ChannelRecords
    BY DEF ChannelRecords
  <2> QED
    BY <1>2, <2>1, <2>2 DEF applyCloseAttempts
<1>4. \A m \in MessageRequests : addMessage(rec, m) \in ChannelRecords
  BY DEF ChannelRecords, addMessage
<1> QED
  BY <1>1, <1>2, <1>3, <1>4

\* The initial state has the types.
LEMMA InitType == Init => TypeOK
<1>1. emptyChannelRecord \in ChannelRecords
  BY DEF emptyChannelRecord, ChannelRecords, States
<1> QED
  BY <1>1 DEF Init, TypeOK

\* Every step keeps the types.
LEMMA NextType == TypeOK /\ [Next]_vars => TypeOK'
<1> SUFFICES ASSUME TypeOK, [Next]_vars PROVE TypeOK'
  OBVIOUS
<1> USE RecordsClosed DEF TypeOK
<1>1. ASSUME NEW o \in OpenRequests, OpenChannel(o) PROVE TypeOK'
  BY <1>1 DEF OpenChannel, operationsToFeed, historyVars
<1>2. ASSUME NEW c \in CloseRequests, CloseChannel(c) PROVE TypeOK'
  BY <1>2 DEF CloseChannel, publish, waitVars
<1>3. ASSUME NEW m \in MessageRequests, AddMessage(m) PROVE TypeOK'
  BY <1>3 DEF AddMessage, publish, waitVars
<1>4. ASSUME NEW m \in MessageRequests, BufferOperation(m) PROVE TypeOK'
  BY <1>4 DEF BufferOperation, racesWithOpen, operationQueuer
<1>5. ASSUME NEW s \in SubscribeRequests, Subscribe(s) PROVE TypeOK'
  BY <1>5 DEF Subscribe, getOrMakeListenersRecord, waitVars, historyVars
<1>6. ASSUME NEW s \in SubscribeRequests, Unsubscribe(s) PROVE TypeOK'
  BY <1>6 DEF Unsubscribe, waitVars, historyVars
<1>7. CASE Feed
  BY <1>7 DEF Feed, operationQueuer, historyVars
<1>8. CASE Answer
  BY <1>8 DEF Answer, lockAfterAnswer, historyVars
<1>9. CASE BufferError
  BY <1>9 DEF BufferError
<1>10. CASE FinishOpen
  BY <1>10 DEF FinishOpen, getOrMakeListenersRecord, unsubscribeUnauthorized,
         historyVars
<1>11. CASE DecryptorStops
  BY <1>11 DEF DecryptorStops, historyVars
<1>12. CASE UNCHANGED vars
  BY <1>12 DEF vars
<1> QED
  BY <1>1, <1>2, <1>3, <1>4, <1>5, <1>6, <1>7, <1>8, <1>9, <1>10, <1>11,
     <1>12 DEF Next

\* The type invariant of the channel servers (every handler of channels,
\* messages and listeners, and the waits for the decryptor).
THEOREM TypeCorrect == Spec => []TypeOK
<1> QED
  BY InitType, NextType, PTL DEF Spec
-----------------------------------------------------------------------------
\* A set of naturals that is not empty has a least element.
LEMMA LeastNatural ==
  ASSUME NEW T \in SUBSET Nat, T # {}
  PROVE  \E x \in T : \A y \in T : x <= y
<1> DEFINE below(n) == 0 .. (n - 1)
           Below    == {below(n) : n \in T}
<1>1. Below \subseteq FiniteSubsetsOf(Nat) /\ Below # {}
  <2>1. ASSUME NEW n \in Nat
        PROVE  below(n) \subseteq Nat /\ IsFiniteSet(below(n))
    BY FS_Interval
  <2> QED
    BY <2>1 DEF FiniteSubsetsOf
<1>2. PICK b \in Below :
         \A a \in Below : <<a, b>> \notin StrictSubsetOrdering(Nat)
  <2> HIDE DEF Below
  <2> QED
    BY <1>1, FS_StrictSubsetOrderingWellFounded, WFMin
<1>3. PICK x \in T : b = below(x)
  OBVIOUS
<1>4. ASSUME NEW y \in T, y < x PROVE FALSE
  <2>1. below(y) \subseteq below(x) /\ y \in below(x) /\ y \notin below(y)
    BY <1>4
  <2>2. below(y) \in Below /\ below(y) \subseteq Nat /\ below(x) \subseteq Nat
    OBVIOUS
  <2> QED
    BY <1>2, <1>3, <2>1, <2>2 DEF StrictSubsetOrdering
<1> QED
  BY <1>4

\* If an attempt can close the channel, there are first ones among those.
LEMMA FirstAttemptExists ==
  ASSUME NEW rec \in ChannelRecords, NEW a \in rec.attempts, canClose(rec, a)
  PROVE  FirstAttempts(rec) # {}
<1> DEFINE accepted == {b \in rec.attempts : canClose(rec, b)}
           times    == {b.timestamp : b \in accepted}
<1>1. \A b \in accepted : b.timestamp \in Nat
  BY CloseAssumption DEF ChannelRecords
<1>2. times \in SUBSET Nat /\ times # {}
  BY <1>1
<1>3. PICK t \in times : \A u \in times : t <= u
  BY <1>2, LeastNatural
<1>4. PICK b \in accepted : b.timestamp = t
  BY <1>3
<1> QED
  BY <1>3, <1>4 DEF FirstAttempts

-----------------------------------------------------------------------------
(***************************************************************************)
(* The inductive invariant.  Its parts say what the handlers rely on       *)
(* between two steps.                                                      *)
(***************************************************************************)

\* Before the opening, nothing but early closures and messages is kept.
BufferedInv ==
    chan.state = "buffered" =>
       /\ lock = "free" /\ ~openFailed
       /\ chan.messages = {} /\ offered = {}

\* While the open handler waits, no other handler has run since tryOpen.
OpeningInv ==
    lock = "open" =>
       /\ chan.state = "open" /\ ~openFailed
       /\ chan.messages = {} /\ offered = {}

\* No early closure is lost before applyCloseAttempts has seen it.
AttemptsInv ==
    chan.state = "buffered" \/ lock = "open" =>
       chan.attempts = {c \in closes : c.timestamp # 0}

\* A channel that was opened has an opening time and permissions.
TermsInv ==
    chan.state # "buffered" =>
       chan.opened # 0 /\ DOMAIN chan.permissions # {}

\* The open handler leaves a listeners record behind.
RegisteredInv ==
    chan.state # "buffered" /\ lock # "open" /\ ~openFailed => registered

Inv ==
    /\ TypeOK
    /\ BufferedInv
    /\ OpeningInv
    /\ AttemptsInv
    /\ TermsInv
    /\ RegisteredInv
    /\ ClosureIsEarliest
    /\ MessagesMatchDuration
    /\ ListenersAuthorized
    /\ NothingStranded
    /\ CrashOnlyAfterFailedOpen

\* The invariant holds before any request.
LEMMA InitInv == Init => Inv
<1> SUFFICES ASSUME Init PROVE Inv
  OBVIOUS
<1>1. TypeOK
  BY InitType
<1> QED
  BY <1>1 DEF Inv, Init, emptyChannelRecord, BufferedInv, OpeningInv,
     AttemptsInv, TermsInv, RegisteredInv, ClosureIsEarliest,
     MessagesMatchDuration, ListenersAuthorized, NothingStranded,
     CrashOnlyAfterFailedOpen

\* Opening a buffered channel: there are no messages yet, and what the rest of
\* the handler owes is owed while it holds the lock.
LEMMA OpenChannelInv ==
  ASSUME Inv, TypeOK', NEW o \in OpenRequests, OpenChannel(o) PROVE Inv'
<1>1. /\ chan'.state = "open"
      /\ chan'.opened = o.timestamp
      /\ chan'.permissions = o.permissions
      /\ chan'.attempts = chan.attempts
      /\ chan'.messages = chan.messages
  BY DEF OpenChannel, tryOpen, Inv, TypeOK, ChannelRecords
<1>2. /\ chan.state = "buffered" /\ o.timestamp # 0
      /\ DOMAIN o.permissions # {}
      /\ lock' = "open" /\ ~crashed
      /\ UNCHANGED <<crashed, openFailed, closes, offered>>
  BY DEF OpenChannel, canOpen, Idle, historyVars
<1>3. BufferedInv' /\ OpeningInv' /\ AttemptsInv' /\ TermsInv'
  BY <1>1, <1>2 DEF Inv, BufferedInv, OpeningInv, AttemptsInv, TermsInv
<1>4. RegisteredInv' /\ ClosureIsEarliest' /\ ListenersAuthorized'
        /\ NothingStranded' /\ CrashOnlyAfterFailedOpen'
  BY <1>2 DEF RegisteredInv, ClosureIsEarliest, ListenersAuthorized,
              NothingStranded, CrashOnlyAfterFailedOpen
<1>5. MessagesMatchDuration'
  BY <1>1, <1>2 DEF Inv, BufferedInv, MessagesMatchDuration
<1> QED
  BY <1>3, <1>4, <1>5 DEF Inv

\* The rest of the open handler empties the buffer, removes the listeners who
\* may not read and applies the earliest admissible early closure.
LEMMA FinishOpenInv ==
  ASSUME Inv, TypeOK', FinishOpen PROVE Inv'
<1>1. /\ lock = "open" /\ lock' = "free" /\ ~openFailed /\ ~crashed
      /\ buffer' = {} /\ registered' /\ chan.state = "open"
      /\ chan.messages = {} /\ offered = {}
      /\ UNCHANGED <<crashed, openFailed, closes, offered>>
      /\ \A s \in listeners' : Allows(chan.permissions, s.certifier, "read")
      /\ chan' \in applyCloseAttempts(chan)
  BY DEF FinishOpen, getOrMakeListenersRecord, unsubscribeUnauthorized,
         historyVars, Inv, OpeningInv, TypeOK
<1>2. /\ chan.attempts = {c \in closes : c.timestamp # 0}
      /\ chan.opened \in Nat /\ chan.opened # 0
      /\ chan \in ChannelRecords
  BY <1>1 DEF Inv, AttemptsInv, TermsInv, TypeOK, ChannelRecords
\* Every admissible closure is an attempt tryClose accepts.
<1>3. ASSUME NEW c \in Contenders
      PROVE  c \in chan.attempts /\ canClose(chan, c) /\ c.timestamp \in Nat
  <2>1. c \in closes /\ Eligible(chan, c) /\ c.timestamp \in Nat
    BY CloseAssumption DEF Contenders, Inv, TypeOK
  <2> QED
    BY <1>1, <1>2, <2>1 DEF Eligible, canClose
<1>4. CASE FirstAttempts(chan) = {}
  <2>1. chan' = [chan EXCEPT !.attempts = {}]
    BY <1>1, <1>4 DEF applyCloseAttempts
  <2>2. /\ chan'.state = "open" /\ chan'.opened = chan.opened
        /\ chan'.permissions = chan.permissions
        /\ chan'.messages = {}
    BY <1>1, <1>2, <2>1 DEF ChannelRecords
  <2>3. Contenders = {}
    BY <1>2, <1>3, <1>4, FirstAttemptExists
  <2>4. Contenders' = Contenders
    BY <1>1, <2>2 DEF Contenders, Eligible
  <2>5. BufferedInv' /\ OpeningInv' /\ AttemptsInv' /\ TermsInv'
    BY <1>1, <2>2 DEF Inv, BufferedInv, OpeningInv, AttemptsInv, TermsInv
  <2>6. ClosureIsEarliest' /\ MessagesMatchDuration'
    BY <1>1, <2>2, <2>3, <2>4 DEF ClosureIsEarliest, MessagesMatchDuration
  <2>7. ListenersAuthorized'
    BY <1>1, <2>2 DEF ListenersAuthorized
  <2> QED
    BY <1>1, <2>5, <2>6, <2>7
    DEF Inv, RegisteredInv, NothingStranded, CrashOnlyAfterFailedOpen
<1>5. CASE FirstAttempts(chan) # {}
  <2>1. PICK a \in FirstAttempts(chan) : chan' = tryClose(chan, a)
    BY <1>1, <1>5 DEF applyCloseAttempts
  <2>2. /\ a \in closes /\ canClose(chan, a)
        /\ \A b \in chan.attempts : canClose(chan, b) =>
                                       a.timestamp <= b.timestamp
    BY <1>2, <2>1 DEF FirstAttempts
  <2>3. /\ chan'.state = "closed" /\ chan'.opened = chan.opened
        /\ chan'.permissions = chan.permissions
        /\ chan'.closure = a
        /\ chan'.messages = {}
    BY <1>1, <1>2, <2>1 DEF ChannelRecords, tryClose, Remaining
  <2>4. Contenders' = Contenders
    BY <1>1, <2>3 DEF Contenders, Eligible
  <2>5. a \in Contenders
    BY <1>1, <2>2 DEF Contenders, canClose
  <2>6. BufferedInv' /\ OpeningInv' /\ AttemptsInv' /\ TermsInv'
    BY <1>1, <2>3 DEF Inv, BufferedInv, OpeningInv, AttemptsInv, TermsInv
  <2>7. ClosureIsEarliest'
    BY <1>1, <1>3, <2>2, <2>3, <2>4, <2>5 DEF ClosureIsEarliest
  <2>8. MessagesMatchDuration'
    BY <1>1, <2>3 DEF MessagesMatchDuration
  <2>9. ListenersAuthorized'
    BY <1>1, <2>3 DEF ListenersAuthorized
  <2> QED
    BY <1>1, <2>6, <2>7, <2>8, <2>9
    DEF Inv, RegisteredInv, NothingStranded, CrashOnlyAfterFailedOpen
<1> QED
  BY <1>4, <1>5

\* A closure is kept for later, closes the channel, replaces a later closure or
\* is refused; in each case the earliest admissible one is the channel's.
LEMMA CloseChannelInv ==
  ASSUME Inv, TypeOK', NEW c \in CloseRequests, CloseChannel(c) PROVE Inv'
<1>1. /\ lock = "free" /\ ~crashed /\ closes' = closes \cup {c}
      /\ UNCHANGED <<buffer, listeners, registered, lock, openFailed, offered>>
      /\ crashed' => chan'.state = "closed" /\ ~registered
  BY DEF CloseChannel, Idle, waitVars, publish
<1>2. /\ chan \in ChannelRecords /\ chan.opened \in Nat
      /\ c.timestamp \in Nat
  BY CloseAssumption DEF Inv, TypeOK, ChannelRecords
<1>3. CASE ~canClose(chan, c)
  <2>1. UNCHANGED <<chan, crashed>>
    BY <1>3 DEF CloseChannel
  <2>2. BufferedInv' /\ OpeningInv' /\ TermsInv' /\ RegisteredInv'
          /\ MessagesMatchDuration' /\ ListenersAuthorized'
          /\ NothingStranded' /\ CrashOnlyAfterFailedOpen'
    BY <1>1, <2>1 DEF Inv, BufferedInv, OpeningInv, TermsInv, RegisteredInv,
       MessagesMatchDuration, ListenersAuthorized, NothingStranded,
       CrashOnlyAfterFailedOpen
  <2>3. AttemptsInv'
    BY <1>1, <1>3, <2>1 DEF Inv, AttemptsInv, canClose
  <2>4. ASSUME chan.state # "buffered", Eligible(chan, c)
        PROVE  chan.state = "closed" /\ chan.closure.timestamp <= c.timestamp
    <3>1. c.timestamp # 0
      BY <1>2, <2>4 DEF Inv, TermsInv, Eligible
    <3>2. chan.state = "closed" /\ ~Precedes(c, chan.closure)
      BY <1>3, <2>4, <3>1 DEF canClose, Inv, TypeOK, ChannelRecords, States
    <3>3. chan.closure.timestamp \in Nat
      BY CloseAssumption DEF Inv, TypeOK, ChannelRecords, NoAction
    <3> QED
      BY <1>2, <3>2, <3>3 DEF Precedes
  <2>5. ClosureIsEarliest'
    BY <1>1, <2>1, <2>4 DEF Inv, ClosureIsEarliest, Contenders
  <2> QED
    BY <2>2, <2>3, <2>5 DEF Inv
<1>4. CASE canClose(chan, c) /\ chan.state = "buffered"
  <2>1. /\ chan' = [chan EXCEPT !.attempts = @ \cup {c}]
        /\ c.timestamp # 0
    BY <1>4 DEF CloseChannel, tryClose, canClose
  <2>2. /\ chan'.state = "buffered" /\ chan'.messages = chan.messages
        /\ chan'.attempts = chan.attempts \cup {c}
    BY <1>2, <1>4, <2>1 DEF ChannelRecords
  <2>3. AttemptsInv'
    BY <1>1, <1>4, <2>1, <2>2 DEF Inv, AttemptsInv
  <2>4. BufferedInv' /\ OpeningInv' /\ TermsInv' /\ RegisteredInv'
          /\ MessagesMatchDuration' /\ ListenersAuthorized'
          /\ NothingStranded' /\ CrashOnlyAfterFailedOpen'
          /\ ClosureIsEarliest'
    BY <1>1, <1>4, <2>2 DEF Inv, BufferedInv, OpeningInv, TermsInv,
       RegisteredInv, MessagesMatchDuration, ListenersAuthorized,
       NothingStranded, CrashOnlyAfterFailedOpen, ClosureIsEarliest
  <2> QED
    BY <2>3, <2>4 DEF Inv
<1>5. CASE canClose(chan, c) /\ chan.state # "buffered"
  <2>1. /\ Eligible(chan, c)
        /\ chan.state = "closed" => Precedes(c, chan.closure)
    BY <1>5 DEF canClose
  <2>2. chan' = [chan EXCEPT !.state = "closed", !.closure = c,
                             !.attempts = {}, !.messages = Remaining(chan, c)]
    BY <1>5 DEF CloseChannel, tryClose
  <2>3. /\ chan'.state = "closed" /\ chan'.opened = chan.opened
        /\ chan'.permissions = chan.permissions /\ chan'.closure = c
        /\ chan'.messages = Remaining(chan, c)
    BY <1>2, <2>2 DEF ChannelRecords
  <2>4. Contenders' = Contenders \cup {c}
    BY <1>1, <2>1, <2>3 DEF Contenders, Eligible
  <2>5. chan.state = "closed" =>
          chan.closure.timestamp \in Nat /\ c.timestamp <= chan.closure.timestamp
    <3>1. chan.closure.timestamp \in Nat
      BY CloseAssumption DEF Inv, TypeOK, ChannelRecords, NoAction
    <3> QED
      BY <1>2, <2>1, <3>1 DEF Precedes
  <2>6. ASSUME NEW d \in Contenders, ~openFailed
        PROVE  c.timestamp <= d.timestamp
    <3>1. d.timestamp \in Nat
      BY CloseAssumption DEF Contenders, Inv, TypeOK
    <3>2. chan.state = "closed" /\ chan.closure.timestamp <= d.timestamp
      BY <1>1, <1>5, <2>6
      DEF Inv, ClosureIsEarliest, TypeOK, ChannelRecords, States
    <3> QED
      BY <1>2, <2>5, <3>1, <3>2
  <2>7. ClosureIsEarliest'
    BY <1>1, <1>2, <2>3, <2>4, <2>6 DEF ClosureIsEarliest
  <2>8. MessagesMatchDuration'
    <3>1. \A m \in offered : m.timestamp \in Nat
      BY MessageAssumption DEF Inv, TypeOK
    <3>2. \A m \in offered : Writable(chan, m)' <=> Writable(chan, m)
      BY <2>3 DEF Writable
    <3>3. CASE chan.state = "open"
      <4>1. chan.messages = {m \in offered : Writable(chan, m)}
        BY <3>3 DEF Inv, MessagesMatchDuration
      <4> QED
        BY <1>1, <1>2, <2>3, <3>1, <3>2, <4>1
        DEF MessagesMatchDuration, Remaining
    <3>4. CASE chan.state = "closed"
      <4>1. /\ \A m \in offered :
                  Writable(chan, m) /\ m.timestamp < chan.closure.timestamp
                     => m \in chan.messages
            /\ \A m \in chan.messages : m \in offered /\ Writable(chan, m)
        BY <3>4 DEF Inv, MessagesMatchDuration
      <4> QED
        BY <1>1, <1>2, <2>3, <2>5, <3>1, <3>2, <3>4, <4>1
        DEF MessagesMatchDuration, Remaining
    <3> QED
      BY <1>5, <3>3, <3>4 DEF Inv, TypeOK, ChannelRecords, States
  <2>9. ListenersAuthorized' /\ NothingStranded'
    BY <1>1, <1>5, <2>3 DEF Inv, ListenersAuthorized, NothingStranded
  <2>10. RegisteredInv' /\ CrashOnlyAfterFailedOpen'
    BY <1>1, <1>5, <2>3 DEF Inv, RegisteredInv, CrashOnlyAfterFailedOpen
  <2>11. BufferedInv' /\ OpeningInv' /\ AttemptsInv' /\ TermsInv'
    BY <1>1, <1>5, <2>3 DEF Inv, BufferedInv, OpeningInv, AttemptsInv, TermsInv
  <2> QED
    BY <2>7, <2>8, <2>9, <2>10, <2>11 DEF Inv
<1> QED
  BY <1>3, <1>4, <1>5

\* A message is added exactly when the channel's terms and duration admit it.
LEMMA AddMessageInv ==
  ASSUME Inv, TypeOK', NEW m \in MessageRequests, AddMessage(m) PROVE Inv'
<1>1. /\ lock = "free" /\ ~crashed
      /\ UNCHANGED <<buffer, listeners, registered, lock, openFailed, closes>>
      /\ crashed' => chan.state # "buffered" /\ ~registered
  BY DEF AddMessage, Idle, waitVars, publish, canAddMessage
<1>2. /\ chan'.state = chan.state /\ chan'.opened = chan.opened
      /\ chan'.permissions = chan.permissions
      /\ chan'.closure = chan.closure /\ chan'.attempts = chan.attempts
      /\ chan'.messages = IF canAddMessage(chan, m)
                            THEN chan.messages \cup {m} ELSE chan.messages
  BY DEF AddMessage, addMessage, Inv, TypeOK, ChannelRecords
<1>3. offered' = IF chan.state = "buffered" THEN offered
                                            ELSE offered \cup {m}
  BY DEF AddMessage
<1>4. Contenders' = Contenders
  BY <1>1, <1>2 DEF Contenders, Eligible
<1>5. BufferedInv' /\ OpeningInv' /\ AttemptsInv' /\ TermsInv'
        /\ RegisteredInv' /\ CrashOnlyAfterFailedOpen'
  BY <1>1, <1>2, <1>3 DEF Inv, BufferedInv, OpeningInv, AttemptsInv, TermsInv,
     RegisteredInv, CrashOnlyAfterFailedOpen, canAddMessage
<1>6. ClosureIsEarliest' /\ ListenersAuthorized' /\ NothingStranded'
  BY <1>1, <1>2, <1>4
  DEF Inv, ClosureIsEarliest, ListenersAuthorized, NothingStranded
<1>7. MessagesMatchDuration'
  <2>1. \A x : Writable(chan', x) <=> Writable(chan, x)
    BY <1>2 DEF Writable
  <2>2. m.timestamp \in Nat /\ chan.closure.timestamp \in Nat
    BY CloseAssumption, MessageAssumption
    DEF Inv, TypeOK, ChannelRecords, NoAction
  <2>4. CASE chan.state = "buffered"
    BY <1>2, <2>4 DEF Inv, MessagesMatchDuration, canAddMessage
  <2>5. CASE chan.state = "open"
    BY <1>2, <1>3, <2>1, <2>5 DEF Inv, MessagesMatchDuration, canAddMessage
  <2>6. CASE chan.state = "closed"
    BY <1>2, <1>3, <2>1, <2>2, <2>6
    DEF Inv, MessagesMatchDuration, canAddMessage
  <2> QED
    BY <2>4, <2>5, <2>6 DEF Inv, TypeOK, ChannelRecords, States
<1> QED
  BY <1>5, <1>6, <1>7 DEF Inv

\* The steps that leave the record, the closures and the messages alone.
LEMMA OtherStepsInv ==
  ASSUME Inv, TypeOK', [Next]_vars, UNCHANGED <<chan, closes, offered>>,
         ~ \E o \in OpenRequests : OpenChannel(o),
         ~ \E c \in CloseRequests : CloseChannel(c),
         ~ \E m \in MessageRequests : AddMessage(m),
         ~ FinishOpen
  PROVE  Inv'
<1> USE DEF Inv, BufferedInv, OpeningInv, AttemptsInv, TermsInv, RegisteredInv,
     ClosureIsEarliest, Contenders, MessagesMatchDuration, ListenersAuthorized,
     NothingStranded, CrashOnlyAfterFailedOpen
<1>1. ASSUME NEW m \in MessageRequests, BufferOperation(m) PROVE Inv'
  BY <1>1 DEF BufferOperation, racesWithOpen, Idle
<1>2. ASSUME NEW s \in SubscribeRequests, Subscribe(s) PROVE Inv'
  <2>1. chan.state # "buffered" =>
          Allows(chan.permissions, s.certifier, "read")
    BY <1>2 DEF Subscribe, NoPermissions
  <2> QED
    BY <1>2, <2>1 DEF Subscribe, getOrMakeListenersRecord, Idle, waitVars, historyVars
<1>3. ASSUME NEW s \in SubscribeRequests, Unsubscribe(s) PROVE Inv'
  BY <1>3 DEF Unsubscribe, Idle, waitVars, historyVars
<1>4. CASE Feed
  BY <1>4 DEF Feed, historyVars
<1>5. CASE Answer
  BY <1>5 DEF Answer, lockAfterAnswer, historyVars, TypeOK
<1>6. CASE BufferError
  BY <1>6 DEF BufferError, TypeOK
<1>7. CASE DecryptorStops
  BY <1>7 DEF DecryptorStops, historyVars
<1>8. CASE UNCHANGED vars
  BY <1>8 DEF vars
<1> QED
  BY <1>1, <1>2, <1>3, <1>4, <1>5, <1>6, <1>7, <1>8 DEF Next

\* Every step keeps the invariant.
LEMMA NextInv == Inv /\ [Next]_vars => Inv'
<1> SUFFICES ASSUME Inv, [Next]_vars PROVE Inv'
  OBVIOUS
<1>1. TypeOK'
  BY NextType DEF Inv
<1>2. CASE \E o \in OpenRequests : OpenChannel(o)
  BY <1>1, <1>2, OpenChannelInv
<1>3. CASE \E c \in CloseRequests : CloseChannel(c)
  BY <1>1, <1>3, CloseChannelInv
<1>4. CASE \E m \in MessageRequests : AddMessage(m)
  BY <1>1, <1>4, AddMessageInv
<1>5. CASE FinishOpen
  BY <1>1, <1>5, FinishOpenInv
<1>6. ASSUME ~ \E o \in OpenRequests : OpenChannel(o),
             ~ \E c \in CloseRequests : CloseChannel(c),
             ~ \E m \in MessageRequests : AddMessage(m),
             ~ FinishOpen
      PROVE  Inv'
  <2>1. UNCHANGED <<chan, closes, offered>>
    BY <1>6 DEF Next, BufferOperation, Subscribe, Unsubscribe, Feed, Answer,
                BufferError, DecryptorStops, historyVars, vars
  <2> QED
    BY <1>1, <1>6, <2>1, OtherStepsInv
<1> QED
  BY <1>2, <1>3, <1>4, <1>5, <1>6

\* The inductive invariant of the channel servers.
THEOREM Invariance == Spec => []Inv
<1> QED
  BY InitInv, NextInv, PTL DEF Spec

\* The closure of a channel is the earliest admissible one, in whatever order
\* openings and closures arrive (tryClose, applyCloseAttempts).
THEOREM EarliestClosure == Spec => []ClosureIsEarliest
<1>1. Inv => ClosureIsEarliest
  BY DEF Inv
<1> QED
  BY Invariance, <1>1, PTL

\* A channel holds what was offered to it within its duration (addMessage and
\* the filter of tryClose).
THEOREM MessagesWithinDuration == Spec => []MessagesMatchDuration
<1>1. Inv => MessagesMatchDuration
  BY DEF Inv
<1> QED
  BY Invariance, <1>1, PTL

\* Nobody without the right to read stays subscribed to an open channel (the
\* subscribe handler and unsubscribeUnauthorized).
THEOREM ListenersMayRead == Spec => []ListenersAuthorized
<1>1. Inv => ListenersAuthorized
  BY DEF Inv
<1> QED
  BY Invariance, <1>1, PTL

\* No operation is left in the buffer of an open channel, and no event is
\* published without a listeners record, unless an opening was cut short
\* (the open handler, BufferOperation and publish).
THEOREM BufferAndCrash == Spec => [](NothingStranded /\ CrashOnlyAfterFailedOpen)
<1>1. Inv => NothingStranded /\ CrashOnlyAfterFailedOpen
  BY DEF Inv
<1> QED
  BY Invariance, <1>1, PTL

-----------------------------------------------------------------------------
(***************************************************************************)
(* The servers implement ChannelLifecycle.                                 *)
(***************************************************************************)

\* Accepting a closure on a channel that was opened is a Close step.
LEMMA CloseStep ==
  ASSUME chan \in ChannelRecords, NEW c \in CloseRequests,
         chan.state # "buffered", canClose(chan, c), chan' = tryClose(chan, c)
  PROVE  Lifecycle!Close
<1>1. /\ chan'.state = "closed" /\ chan'.opened = chan.opened
      /\ chan'.permissions = chan.permissions /\ chan'.closure = c
      /\ chan'.messages = {m \in chan.messages : m.timestamp < c.timestamp}
  BY DEF tryClose, ChannelRecords, Remaining
<1>2. /\ chan.opened <= c.timestamp
      /\ Allows(chan.permissions, c.certifier, "close")
      /\ chan.state = "closed" => Precedes(c, chan.closure)
  BY DEF canClose, Eligible
<1> QED
  BY <1>1, <1>2
  DEF Lifecycle!Close, Lifecycle!May, Lifecycle!Wins, Allows, Precedes

\* Every step is a step of the lifecycle or leaves it as it is.
LEMMA LifecycleStep ==
  Inv /\ [Next]_vars => [Lifecycle!Next]_(Lifecycle!vars)
<1> SUFFICES ASSUME Inv, [Next]_vars
             PROVE  [Lifecycle!Next]_(Lifecycle!vars)
  OBVIOUS
<1>0. chan \in ChannelRecords
  BY DEF Inv, TypeOK
<1>1. CASE UNCHANGED chan
  BY <1>1 DEF Lifecycle!vars
<1>2. ASSUME NEW o \in OpenRequests, OpenChannel(o) PROVE Lifecycle!Open
  <2>1. /\ chan'.state = "open" /\ chan'.opened = o.timestamp
        /\ chan'.permissions = o.permissions
        /\ chan'.closure = chan.closure /\ chan'.messages = chan.messages
        /\ chan.state = "buffered" /\ o.timestamp # 0
    BY <1>0, <1>2 DEF OpenChannel, tryOpen, canOpen, ChannelRecords
  <2> QED
    BY <2>1 DEF Lifecycle!Open
<1>3. ASSUME NEW c \in CloseRequests, CloseChannel(c), chan' # chan
      PROVE  [Lifecycle!Next]_(Lifecycle!vars)
  <2>1. canClose(chan, c) /\ chan' = tryClose(chan, c)
    BY <1>3 DEF CloseChannel
  <2>2. CASE chan.state = "buffered"
    <3>1. /\ chan'.state = chan.state /\ chan'.opened = chan.opened
          /\ chan'.permissions = chan.permissions
          /\ chan'.closure = chan.closure /\ chan'.messages = chan.messages
      BY <1>0, <2>1, <2>2 DEF tryClose, ChannelRecords
    <3> QED
      BY <3>1 DEF Lifecycle!vars
  <2>3. CASE chan.state # "buffered"
    BY <1>0, <2>1, <2>3, CloseStep DEF Lifecycle!Next
  <2> QED
    BY <2>2, <2>3
<1>4. ASSUME NEW m \in MessageRequests, AddMessage(m), chan' # chan
      PROVE  Lifecycle!Post
  <2>1. canAddMessage(chan, m) /\ chan' = addMessage(chan, m)
    BY <1>4 DEF AddMessage
  <2>2. /\ chan'.state = chan.state /\ chan'.opened = chan.opened
        /\ chan'.permissions = chan.permissions
        /\ chan'.closure = chan.closure
        /\ chan'.messages = chan.messages \cup {m}
    BY <1>0, <2>1 DEF addMessage, ChannelRecords
  <2> QED
    BY <2>1, <2>2
    DEF canAddMessage, Writable, Allows, Lifecycle!Post, Lifecycle!May
<1>5. CASE FinishOpen
  <2>1. chan' \in applyCloseAttempts(chan) /\ chan.state # "buffered"
    BY <1>5 DEF FinishOpen, Inv, OpeningInv
  <2>2. CASE FirstAttempts(chan) = {}
    <3>1. chan' = [chan EXCEPT !.attempts = {}]
      BY <2>1, <2>2 DEF applyCloseAttempts
    <3> QED
      BY <1>0, <3>1 DEF ChannelRecords, Lifecycle!vars
  <2>3. CASE FirstAttempts(chan) # {}
    <3>1. PICK a \in FirstAttempts(chan) : chan' = tryClose(chan, a)
      BY <2>1, <2>3 DEF applyCloseAttempts
    <3>2. a \in CloseRequests /\ canClose(chan, a)
      BY <1>0, <3>1 DEF FirstAttempts, ChannelRecords
    <3> QED
      BY <1>0, <2>1, <3>1, <3>2, CloseStep DEF Lifecycle!Next
  <2> QED
    BY <2>2, <2>3
<1>6. \/ UNCHANGED chan
      \/ \E o \in OpenRequests : OpenChannel(o)
      \/ \E c \in CloseRequests : CloseChannel(c)
      \/ \E m \in MessageRequests : AddMessage(m)
      \/ FinishOpen
  BY DEF Next, BufferOperation, Subscribe, Unsubscribe, Feed, Answer,
         BufferError, DecryptorStops, vars
<1> QED
  BY <1>1, <1>2, <1>3, <1>4, <1>5, <1>6 DEF Lifecycle!Next

\* Every behaviour of the servers is one that ChannelLifecycle allows: with
\* early requests, the buffer and the waits, they only ever open, close and
\* post as promised (tryOpen, tryClose, applyCloseAttempts, addMessage and
\* the handlers that call them).
THEOREM ImplementsLifecycle == Spec => KeepsLifecycle
<1>1. Init => Lifecycle!Init
  BY DEF Init, emptyChannelRecord, Lifecycle!Init
<1> QED
  BY <1>1, Invariance, LifecycleStep, PTL
  DEF Spec, KeepsLifecycle, Lifecycle!Spec

\* A closure is only replaced by one that wins over it, and an opened channel
\* keeps its terms (tryOpen, tryClose).
THEOREM ClosuresImprove == Spec => ClosureOnlyImproves
<1> DEFINE Improves ==
      /\ chan.state # "buffered" =>
            /\ chan'.state # "buffered"
            /\ chan'.opened = chan.opened
            /\ chan'.permissions = chan.permissions
      /\ chan.state = "closed" =>
            /\ chan'.state = "closed"
            /\ \/ chan'.closure = chan.closure
               \/ Precedes(chan'.closure, chan.closure)
<1>1. Inv /\ [Next]_vars => [Improves]_vars
  <2>1. ASSUME Lifecycle!Next PROVE Improves
    BY <2>1 DEF Lifecycle!Next, Lifecycle!Open, Lifecycle!Close,
       Lifecycle!Post, Lifecycle!Wins, Precedes
  <2>2. ASSUME UNCHANGED Lifecycle!vars PROVE Improves
    BY <2>2 DEF Lifecycle!vars
  <2> QED
    BY <2>1, <2>2, LifecycleStep
<1> QED
  BY <1>1, Invariance, PTL DEF Spec, ClosureOnlyImproves

-----------------------------------------------------------------------------
(***************************************************************************)
(* What a reader of the events has.                                        *)
(***************************************************************************)
\* Without a handler that waits nothing is under way, and only the handler of
\* an opening has more to hand back.
IdleInv ==
    /\ lock = "free" => unfed = {} /\ reply = "none"
    /\ reply = "none" => feeding = {}
    /\ lock = "buffer" => unfed = {}

\* A message is in the channel, or still on its way to it.
OnceInv ==
    /\ chan.messages \subseteq arrived
    /\ chan.state = "buffered" => requeued = {}
    /\ ~openFailed => chan.messages \cap (requeued \cup feeding) = {}

\* All the messages of a set, each once, in the order of their timestamps.
Lists(s, messages) ==
    /\ s \in Seq(MessageRequests)
    /\ {s[i] : i \in 1..Len(s)} = messages
    /\ \A i, j \in 1..Len(s) : s[i] = s[j] => i = j
    /\ \A i, j \in 1..Len(s) : i < j => s[i].timestamp <= s[j].timestamp

ReaderInv ==
    /\ IdleInv
    /\ OnceInv
    /\ ~crashed /\ ~openFailed => Lists(view, chan.messages)

\* Indices that come without gaps from the first one on are counted by the
\* last one.
LEMMA InitialSegment ==
  ASSUME NEW n \in Nat, NEW S \in SUBSET (1..n),
         \A i \in S : \A j \in 1..n : j <= i => j \in S
  PROVE  /\ IsFiniteSet(S) /\ Cardinality(S) \in 0..n
         /\ S = 1..Cardinality(S)
<1> DEFINE bounds == {k \in Nat : \A i \in S : i <= k}
<1>1. n \in bounds
  OBVIOUS
<1>2. PICK k \in bounds : \A l \in bounds : k <= l
  BY <1>1, LeastNatural
<1>3. S = 1..k
  <2>1. CASE k = 0
    BY <2>1
  <2>2. CASE k # 0
    <3>1. k - 1 \in Nat /\ k - 1 \notin bounds
      BY <1>2, <2>2
    <3>2. PICK i \in S : ~(i <= k - 1)
      BY <3>1
    <3>3. i = k /\ k \in S /\ k \in 1..n
      BY <1>2, <3>2
    <3>4. \A j \in 1..k : j \in S
      BY <1>2, <3>3
    <3>5. \A j \in S : j \in 1..k
      BY <1>2
    <3> QED
      BY <3>4, <3>5
  <2> QED
    BY <2>1, <2>2
<1>4. IsFiniteSet(S) /\ Cardinality(S) = k
  BY <1>2, <1>3, FS_Interval
<1> QED
  BY <1>1, <1>2, <1>3, <1>4

\* A list is as long as its set is large.
LEMMA ListLength ==
  ASSUME NEW s, NEW messages, Lists(s, messages)
  PROVE  Len(s) = Cardinality(messages)
<1> DEFINE f == [i \in 1..Len(s) |-> s[i]]
<1>1. Len(s) \in Nat
  BY LenProperties DEF Lists
<1>2. f \in Bijection(1..Len(s), messages)
  <2>1. f \in [1..Len(s) -> messages]
    BY DEF Lists
  <2>2. \A m \in messages : \E i \in 1..Len(s) : f[i] = m
    BY DEF Lists
  <2>3. \A i, j \in 1..Len(s) : f[i] = f[j] => i = j
    BY DEF Lists
  <2> QED
    BY <2>1, <2>2, <2>3 DEF Bijection, Injection, Surjection, IsInjective
<1>3. IsFiniteSet(1..Len(s)) /\ Cardinality(1..Len(s)) = Len(s)
  BY <1>1, FS_Interval
<1> QED
  BY <1>2, <1>3, FS_Bijection DEF ExistsBijection

\* The earlier messages of a list are its first ones.
LEMMA EarlierFirst ==
  ASSUME NEW s, NEW messages, Lists(s, messages), NEW time \in Nat, NEW k,
         k = Cardinality({m \in messages : m.timestamp < time})
  PROVE  /\ Len(s) \in Nat /\ k \in 0..Len(s)
         /\ \A i \in 1..Len(s) : s[i].timestamp < time <=> i <= k
<1> DEFINE S == {i \in 1..Len(s) : s[i].timestamp < time}
           earlier == {m \in messages : m.timestamp < time}
           f == [i \in S |-> s[i]]
<1>1. Len(s) \in Nat /\ \A i \in 1..Len(s) : s[i] \in MessageRequests
  BY LenProperties, ElementOfSeq DEF Lists
<1>2. \A i \in 1..Len(s) : s[i].timestamp \in Nat
  BY <1>1, MessageAssumption
<1>3. ASSUME NEW i \in S, NEW j \in 1..Len(s), j <= i PROVE j \in S
  <2>1. s[j].timestamp <= s[i].timestamp
    BY <1>1, <1>2, <1>3 DEF Lists
  <2> QED
    BY <1>2, <1>3, <2>1
<1>4. /\ IsFiniteSet(S) /\ Cardinality(S) \in 0..Len(s)
      /\ S = 1..Cardinality(S)
  BY <1>1, <1>3, InitialSegment
<1>5. f \in Bijection(S, earlier)
  <2>1. f \in [S -> earlier]
    BY DEF Lists
  <2>2. \A m \in earlier : \E i \in S : f[i] = m
    BY DEF Lists
  <2>3. \A i, j \in S : f[i] = f[j] => i = j
    BY DEF Lists
  <2> QED
    BY <2>1, <2>2, <2>3 DEF Bijection, Injection, Surjection, IsInjective
<1>6. Cardinality(S) = k
  BY <1>4, <1>5, FS_Bijection DEF ExistsBijection
<1>7. \A i \in 1..Len(s) : s[i].timestamp < time <=> i \in S
  OBVIOUS
<1> HIDE DEF S
<1>8. S = 1..k
  BY <1>4, <1>6
<1> QED
  BY <1>1, <1>4, <1>6, <1>7, <1>8

\* A prefix that holds the earlier messages lists them.
LEMMA TruncatedLists ==
  ASSUME NEW s, NEW messages, Lists(s, messages), NEW time \in Nat
  PROVE  LET earlier == {m \in messages : m.timestamp < time}
         IN  Lists(Prefix(s, Cardinality(earlier)), earlier)
<1> DEFINE earlier == {m \in messages : m.timestamp < time}
<1>1. PICK k : k = Cardinality(earlier)
  OBVIOUS
<1>2. /\ Len(s) \in Nat /\ k \in 0..Len(s)
      /\ \A i \in 1..Len(s) : s[i].timestamp < time <=> i <= k
  BY <1>1, EarlierFirst
<1>3. \A i \in 1..Len(s) : s[i] \in MessageRequests
  BY <1>2, ElementOfSeq DEF Lists
<1>4. PICK t : t = Prefix(s, k)
  OBVIOUS
<1>5. t = SubSeq(s, 1, k)
  BY <1>2, <1>4 DEF Prefix
<1>6. /\ t \in Seq(MessageRequests) /\ Len(t) = k
      /\ \A i \in 1..k : t[i] = s[i]
  BY <1>2, <1>3, <1>5, SubSeqProperties
<1>7. {t[i] : i \in 1..k} = earlier
  <2>1. ASSUME NEW i \in 1..k PROVE t[i] \in earlier
    BY <1>2, <1>6 DEF Lists
  <2>2. ASSUME NEW m \in earlier PROVE \E i \in 1..k : t[i] = m
    <3>1. PICK i \in 1..Len(s) : s[i] = m
      BY DEF Lists
    <3>2. i \in 1..k
      BY <1>2, <3>1
    <3> QED
      BY <1>6, <3>1, <3>2
  <2> QED
    BY <2>1, <2>2
<1>8. /\ \A i, j \in 1..k : t[i] = t[j] => i = j
      /\ \A i, j \in 1..k : i < j => t[i].timestamp <= t[j].timestamp
  BY <1>2, <1>6 DEF Lists
<1>9. Lists(t, earlier)
  BY <1>6, <1>7, <1>8 DEF Lists
<1> QED
  BY <1>1, <1>4, <1>9

\* A message inserted after the earlier ones gives the list with it.
LEMMA InsertedLists ==
  ASSUME NEW s, NEW messages, Lists(s, messages),
         NEW message \in MessageRequests, message \notin messages
  PROVE  LET k == Cardinality({m \in messages : m.timestamp < message.timestamp})
         IN  Lists(Prefix(s, k) \o <<message>> \o SubSeq(s, k + 1, Len(s)),
                   messages \cup {message})
<1>1. message.timestamp \in Nat
  BY MessageAssumption
<1>2. PICK k : k = Cardinality({m \in messages : m.timestamp < message.timestamp})
  OBVIOUS
<1>3. /\ Len(s) \in Nat /\ k \in 0..Len(s)
      /\ \A i \in 1..Len(s) : s[i].timestamp < message.timestamp <=> i <= k
  BY <1>2, <1>1, EarlierFirst
<1>4. \A i \in 1..Len(s) : s[i] \in MessageRequests /\ s[i].timestamp \in Nat
  BY <1>3, ElementOfSeq, MessageAssumption DEF Lists
<1>5. PICK before : before = Prefix(s, k)
  OBVIOUS
<1>6. PICK after : after = SubSeq(s, k + 1, Len(s))
  OBVIOUS
<1>7. /\ before \in Seq(MessageRequests) /\ Len(before) = k
      /\ \A i \in 1..k : before[i] = s[i]
  <2>1. before = SubSeq(s, 1, k)
    BY <1>3, <1>5 DEF Prefix
  <2>2. \A i \in 1..k : s[i] \in MessageRequests
    BY <1>3, <1>4
  <2>3. /\ before \in Seq(MessageRequests)
        /\ Len(before) = IF 1 <= k THEN k - 1 + 1 ELSE 0
        /\ \A i \in 1..k - 1 + 1 : before[i] = s[1 + i - 1]
    BY <1>3, <2>1, <2>2, SubSeqProperties
  <2> QED
    BY <1>3, <2>3
<1>8. /\ after \in Seq(MessageRequests) /\ Len(after) = Len(s) - k
      /\ \A i \in 1..Len(s) - k : after[i] = s[k + i]
  <2>1. \A i \in k + 1..Len(s) : s[i] \in MessageRequests
    BY <1>3, <1>4
  <2>2. /\ after \in Seq(MessageRequests)
        /\ Len(after) = IF k + 1 <= Len(s) THEN Len(s) - (k + 1) + 1 ELSE 0
        /\ \A i \in 1..Len(s) - (k + 1) + 1 : after[i] = s[k + 1 + i - 1]
    BY <1>3, <1>6, <2>1, SubSeqProperties
  <2> QED
    BY <1>3, <2>2
<1> DEFINE t == before \o <<message>> \o after
<1>9. /\ t \in Seq(MessageRequests) /\ Len(t) = Len(s) + 1
      /\ \A i \in 1..k : t[i] = s[i]
      /\ t[k + 1] = message
      /\ \A i \in k + 1..Len(s) : t[i + 1] = s[i]
  <2>1. PICK left : left = before \o <<message>>
    OBVIOUS
  <2>2. /\ <<message>> \in Seq(MessageRequests) /\ Len(<<message>>) = 1
        /\ <<message>>[1] = message
    OBVIOUS
  <2>3. /\ left \in Seq(MessageRequests) /\ Len(left) = k + 1
        /\ \A i \in 1..k : left[i] = s[i]
        /\ left[k + 1] = message
    BY <1>3, <1>7, <2>1, <2>2, ConcatProperties
  <2>4. t = left \o after
    BY <2>1
  <2> HIDE DEF t
  <2>5. /\ t \in Seq(MessageRequests) /\ Len(t) = Len(left) + Len(after)
        /\ \A i \in 1..Len(left) + Len(after) :
              t[i] = IF i <= Len(left) THEN left[i] ELSE after[i - Len(left)]
    BY <1>8, <2>3, <2>4, ConcatProperties
  <2>6. ASSUME NEW i \in k + 1..Len(s) PROVE t[i + 1] = s[i]
    <3>1. i - k \in 1..Len(s) - k /\ (i + 1) - (k + 1) = i - k /\ k + (i - k) = i
      BY <1>3
    <3>2. i + 1 \in 1..Len(left) + Len(after) /\ ~(i + 1 <= Len(left))
      BY <1>3, <1>8, <2>3
    <3>3. t[i + 1] = after[(i + 1) - (k + 1)]
      BY <2>3, <2>5, <3>2
    <3> QED
      BY <1>8, <3>1, <3>3
  <2>7. Len(t) = Len(s) + 1
    BY <1>3, <1>8, <2>3, <2>5
  <2>8. \A i \in 1..k + 1 : t[i] = left[i]
    BY <1>3, <1>8, <2>3, <2>5
  <2>9. /\ \A i \in 1..k : t[i] = s[i]
        /\ t[k + 1] = message
    BY <1>3, <2>3, <2>8
  <2> QED
    BY <2>5, <2>6, <2>7, <2>9
<1> HIDE DEF t
\* Where the element of t at i comes from.
<1> DEFINE At(i) == IF i <= k THEN i ELSE i - 1
<1>10. ASSUME NEW i \in 1..Len(s) + 1
      PROVE  i = k + 1 \/ (At(i) \in 1..Len(s) /\ t[i] = s[At(i)])
  <2>1. CASE i <= k
    BY <1>3, <1>9, <2>1
  <2>2. CASE i > k + 1
    <3>1. i - 1 \in k + 1..Len(s) /\ (i - 1) + 1 = i
      BY <1>3, <2>2
    <3> QED
      BY <1>3, <1>9, <2>2, <3>1
  <2> QED
    BY <1>3, <2>1, <2>2
<1>11. {t[i] : i \in 1..Len(s) + 1} = messages \cup {message}
  <2>1. ASSUME NEW i \in 1..Len(s) + 1 PROVE t[i] \in messages \cup {message}
    BY <1>9, <1>10 DEF Lists
  <2>2. ASSUME NEW m \in messages PROVE \E i \in 1..Len(s) + 1 : t[i] = m
    <3>1. PICK i \in 1..Len(s) : s[i] = m
      BY DEF Lists
    <3>2. CASE i <= k
      BY <1>3, <1>9, <3>1, <3>2
    <3>3. CASE i > k
      <4>1. i \in k + 1..Len(s) /\ i + 1 \in 1..Len(s) + 1
        BY <1>3, <3>3
      <4> QED
        BY <1>9, <3>1, <4>1
    <3> QED
      BY <1>3, <3>2, <3>3
  <2>3. k + 1 \in 1..Len(s) + 1
    BY <1>3
  <2> QED
    BY <1>9, <2>1, <2>2, <2>3
<1>12. ASSUME NEW i \in 1..Len(s) + 1, NEW j \in 1..Len(s) + 1, t[i] = t[j]
       PROVE  i = j
  <2>1. \A l \in 1..Len(s) : s[l] # message
    BY DEF Lists
  <2>2. CASE i = k + 1 \/ j = k + 1
    BY <1>9, <1>10, <1>12, <2>1, <2>2
  <2>3. CASE i # k + 1 /\ j # k + 1
    <3>1. At(i) = At(j)
      BY <1>10, <1>12, <2>3 DEF Lists
    <3> QED
      BY <1>3, <2>3, <3>1
  <2> QED
    BY <2>2, <2>3
<1>13. ASSUME NEW i \in 1..Len(s) + 1, NEW j \in 1..Len(s) + 1, i < j
       PROVE  t[i].timestamp <= t[j].timestamp
  <2>1. CASE i = k + 1
    <3>1. At(j) \in 1..Len(s) /\ t[j] = s[At(j)] /\ ~(At(j) <= k)
      BY <1>3, <1>10, <1>13, <2>1
    <3> QED
      BY <1>1, <1>3, <1>4, <1>9, <2>1, <3>1
  <2>2. CASE j = k + 1
    <3>1. At(i) \in 1..Len(s) /\ t[i] = s[At(i)] /\ At(i) <= k
      BY <1>3, <1>10, <1>13, <2>2
    <3> QED
      BY <1>1, <1>3, <1>4, <1>9, <2>2, <3>1
  <2>3. CASE i # k + 1 /\ j # k + 1
    <3>1. /\ At(i) \in 1..Len(s) /\ t[i] = s[At(i)]
          /\ At(j) \in 1..Len(s) /\ t[j] = s[At(j)]
          /\ At(i) < At(j)
      BY <1>3, <1>10, <1>13, <2>3
    <3> QED
      BY <3>1 DEF Lists
  <2> QED
    BY <2>1, <2>2, <2>3
<1>14. Lists(t, messages \cup {message})
  BY <1>9, <1>11, <1>12, <1>13 DEF Lists
<1> QED
  BY <1>2, <1>5, <1>6, <1>14 DEF t

\* The channel has nothing in it and no reader before it opens.
LEMMA InitReader == Init => ReaderInv
<1> SUFFICES ASSUME Init PROVE ReaderInv
  OBVIOUS
<1>1. Lists(<< >>, {})
  BY DEF Lists
<1> QED
  BY <1>1 DEF Init, ReaderInv, IdleInv, OnceInv, emptyChannelRecord

\* What a handler leaves alone stays as it was for the reader.
LEMMA ReaderFrame ==
  ASSUME ReaderInv, UNCHANGED <<chan, view>>,
         crashed => crashed', openFailed => openFailed'
  PROVE  ~crashed' /\ ~openFailed' => Lists(view', chan'.messages)
  BY DEF ReaderInv

\* Every step keeps what the reader has, and where messages are.
LEMMA NextReader == Inv /\ ReaderInv /\ [Next]_vars => ReaderInv'
<1> SUFFICES ASSUME Inv, ReaderInv, [Next]_vars PROVE ReaderInv'
  OBVIOUS
<1>1. /\ TypeOK /\ BufferedInv /\ OpeningInv /\ RegisteredInv /\ NothingStranded
      /\ IdleInv /\ OnceInv
      /\ ~crashed /\ ~openFailed => Lists(view, chan.messages)
  BY DEF Inv, ReaderInv
<1>2. chan \in ChannelRecords
  BY <1>1 DEF TypeOK
<1>3. ASSUME NEW o \in OpenRequests, OpenChannel(o) PROVE ReaderInv'
  <2>1. /\ Idle /\ chan.state = "buffered" /\ chan.messages = {}
        /\ lock' = "open" /\ chan'.messages = {} /\ chan'.state = "open"
        /\ UNCHANGED <<feeding, reply, requeued, crashed, openFailed, arrived, view>>
    BY <1>1, <1>2, <1>3 DEF OpenChannel, canOpen, tryOpen, ChannelRecords, historyVars,
                            BufferedInv
  <2>2. IdleInv' /\ OnceInv'
    BY <1>1, <2>1 DEF IdleInv, OnceInv
  <2>3. ~crashed' /\ ~openFailed' => Lists(view', chan'.messages)
    BY <1>1, <2>1
  <2> QED
    BY <2>2, <2>3 DEF ReaderInv
<1>4. ASSUME NEW c \in CloseRequests, CloseChannel(c) PROVE ReaderInv'
  <2>1. /\ ~crashed
        /\ UNCHANGED <<lock, unfed, feeding, reply, requeued, openFailed, arrived>>
    BY <1>4 DEF CloseChannel, Idle, waitVars
  <2>2. CASE UNCHANGED <<chan, crashed, view>>
    <3>1. IdleInv' /\ OnceInv'
      BY <1>1, <2>1, <2>2 DEF IdleInv, OnceInv
    <3> QED
      BY <2>1, <2>2, <3>1, ReaderFrame DEF ReaderInv
  <2>3. CASE canClose(chan, c) /\ chan.state = "buffered"
    <3>1. /\ chan' = tryClose(chan, c) /\ chan'.state = "buffered"
          /\ chan'.messages = chan.messages
      BY <1>2, <1>4, <2>3 DEF CloseChannel, tryClose, ChannelRecords
    <3>2. UNCHANGED <<crashed, view>>
      BY <1>4, <2>3, <3>1 DEF CloseChannel
    <3>3. IdleInv' /\ OnceInv'
      BY <1>1, <2>1, <2>3, <3>1 DEF IdleInv, OnceInv
    <3> QED
      BY <1>1, <2>1, <3>1, <3>2, <3>3 DEF ReaderInv
  <2>4. CASE canClose(chan, c) /\ chan.state # "buffered"
    <3>1. /\ chan' = tryClose(chan, c) /\ chan'.state = "closed"
          /\ chan'.messages = Remaining(chan, c)
      BY <1>2, <1>4, <2>4 DEF CloseChannel, tryClose, ChannelRecords
    <3>2. publish(closeEvent(Cardinality(chan'.messages)))
      BY <1>4, <2>4, <3>1 DEF CloseChannel
    <3>3. Remaining(chan, c) = {m \in chan.messages : m.timestamp < c.timestamp}
      BY DEF Remaining
    <3>4. IdleInv' /\ OnceInv'
      BY <1>1, <2>1, <3>1, <3>3 DEF IdleInv, OnceInv
    <3>5. ASSUME ~crashed', ~openFailed' PROVE Lists(view', chan'.messages)
      <4>1. view' = Read(view, closeEvent(Cardinality(chan'.messages)))
        BY <3>2, <3>5 DEF publish
      <4>2. view' = Prefix(view, Cardinality(chan'.messages))
        BY <4>1 DEF Read, closeEvent
      <4>3. Lists(view, chan.messages) /\ c.timestamp \in Nat
        BY <1>1, <2>1, <3>5, CloseAssumption
      <4>4. PICK earlier : earlier = {m \in chan.messages : m.timestamp < c.timestamp}
        OBVIOUS
      <4>5. Lists(Prefix(view, Cardinality(earlier)), earlier)
        BY <4>3, <4>4, TruncatedLists
      <4>6. chan'.messages = earlier
        BY <3>1, <3>3, <4>4
      <4>7. view' = Prefix(view, Cardinality(earlier))
        BY <4>2, <4>6
      <4> QED
        BY <4>5, <4>6, <4>7
    <3> QED
      BY <3>4, <3>5 DEF ReaderInv
  <2> QED
    BY <1>4, <2>2, <2>3, <2>4 DEF CloseChannel
<1>5. ASSUME NEW m \in MessageRequests, AddMessage(m) PROVE ReaderInv'
  <2>1. /\ ~crashed /\ lock = "free" /\ (m \notin arrived \/ m \in requeued)
        /\ arrived' = arrived \cup {m} /\ requeued' = requeued \ {m}
        /\ UNCHANGED <<lock, unfed, feeding, reply, openFailed>>
    BY <1>5 DEF AddMessage, Idle, waitVars
  <2>2. feeding = {}
    BY <1>1, <2>1 DEF IdleInv
  <2>3. IdleInv'
    BY <1>1, <2>1 DEF IdleInv
  <2>4. CASE UNCHANGED <<chan, crashed, view>>
    <3>1. OnceInv'
      BY <1>1, <2>1, <2>2, <2>4 DEF OnceInv
    <3> QED
      BY <2>1, <2>3, <2>4, <3>1, ReaderFrame DEF ReaderInv
  <2>5. CASE canAddMessage(chan, m)
    <3>1. /\ chan' = addMessage(chan, m)
          /\ publish(messageEvent(m, messagePosition(chan, m)))
      BY <1>5, <2>5 DEF AddMessage
    <3>2. /\ chan'.messages = chan.messages \cup {m}
          /\ chan'.state = chan.state /\ chan.state # "buffered"
      BY <1>2, <2>5, <3>1 DEF addMessage, ChannelRecords, canAddMessage
    <3>3. OnceInv'
      BY <1>1, <2>1, <2>2, <3>2 DEF OnceInv
    <3>4. ASSUME ~crashed', ~openFailed' PROVE Lists(view', chan'.messages)
      <4> DEFINE k == Cardinality({n \in chan.messages : n.timestamp < m.timestamp})
      <4>1. view' = Read(view, messageEvent(m, k))
        BY <3>1, <3>4 DEF publish, messagePosition
      <4>2. view' = Prefix(view, k) \o <<m>> \o SubSeq(view, k + 1, Len(view))
        BY <4>1 DEF Read, messageEvent
      <4>3. Lists(view, chan.messages) /\ m \notin chan.messages
        BY <1>1, <2>1, <3>4 DEF OnceInv
      <4> QED
        BY <3>2, <4>2, <4>3, InsertedLists
    <3> QED
      BY <2>3, <3>3, <3>4 DEF ReaderInv
  <2> QED
    BY <1>5, <2>4, <2>5 DEF AddMessage
<1>6. ASSUME NEW m \in MessageRequests, BufferOperation(m) PROVE ReaderInv'
  <2>1. /\ lock = "free" /\ m \notin arrived /\ arrived' = arrived \cup {m}
        /\ UNCHANGED <<chan, unfed, requeued, crashed, openFailed, view>>
    BY <1>6 DEF BufferOperation, Idle
  <2>2. \/ feeding' = {m} /\ lock' = "buffer" /\ reply' # "none"
        \/ UNCHANGED <<lock, feeding, reply>>
    BY <1>6 DEF BufferOperation, operationQueuer
  <2>3. IdleInv' /\ OnceInv'
    BY <1>1, <2>1, <2>2 DEF IdleInv, OnceInv
  <2> QED
    BY <2>1, <2>3, ReaderFrame DEF ReaderInv
<1>7. ASSUME NEW s \in SubscribeRequests, Subscribe(s) \/ Unsubscribe(s)
      PROVE  ReaderInv'
  <2>1. UNCHANGED <<chan, lock, unfed, feeding, reply, requeued, crashed, openFailed,
                    arrived, view>>
    BY <1>7 DEF Subscribe, Unsubscribe, waitVars, historyVars
  <2>2. IdleInv' /\ OnceInv'
    BY <1>1, <2>1 DEF IdleInv, OnceInv
  <2> QED
    BY <2>1, <2>2, ReaderFrame DEF ReaderInv
<1>8. CASE Feed
  <2>1. /\ lock = "open" /\ lock' = lock /\ reply' # "none"
        /\ UNCHANGED <<chan, requeued, crashed, openFailed, arrived, view>>
    BY <1>8 DEF Feed, operationQueuer, historyVars
  <2>2. IdleInv' /\ OnceInv'
    BY <1>1, <2>1 DEF IdleInv, OnceInv, OpeningInv
  <2> QED
    BY <2>1, <2>2, ReaderFrame DEF ReaderInv
<1>9. CASE Answer
  <2>1. /\ reply = "pending"
        /\ requeued' \subseteq requeued \cup feeding
        /\ feeding' = {} /\ reply' = "none"
        /\ lock' = IF lock = "buffer" THEN "free" ELSE lock
        /\ UNCHANGED <<chan, unfed, crashed, openFailed, arrived, view>>
    BY <1>9 DEF Answer, lockAfterAnswer, historyVars
  <2>2. lock # "free" /\ chan.state # "buffered"
    BY <1>1, <2>1 DEF IdleInv, BufferedInv
  <2>3. IdleInv' /\ OnceInv'
    BY <1>1, <2>1, <2>2 DEF IdleInv, OnceInv
  <2> QED
    BY <2>1, <2>3, ReaderFrame DEF ReaderInv
<1>10. CASE BufferError
  <2>1. /\ lock' = "free" /\ unfed' = {} /\ feeding' = {} /\ reply' = "none"
        /\ openFailed => openFailed'
        /\ UNCHANGED <<chan, requeued, crashed, arrived, view>>
    BY <1>10 DEF BufferError
  <2>2. IdleInv' /\ OnceInv'
    BY <1>1, <2>1 DEF IdleInv, OnceInv
  <2> QED
    BY <2>1, <2>2, ReaderFrame DEF ReaderInv
<1>11. CASE FinishOpen
  <2>1. /\ lock = "open" /\ unfed = {} /\ reply = "none" /\ lock' = "free"
        /\ chan' \in applyCloseAttempts(chan)
        /\ view' = IF chan'.state = "closed"
                     THEN Read(Read(view, openEvent), closeEvent(0))
                     ELSE Read(view, openEvent)
        /\ UNCHANGED <<unfed, feeding, reply, requeued, crashed, openFailed, arrived>>
    BY <1>11 DEF FinishOpen, historyVars
  <2>2. chan.state = "open" /\ chan.messages = {}
    BY <1>1, <2>1 DEF OpeningInv
  <2>3. chan'.messages = {} /\ chan'.state # "buffered"
    <3>1. CASE chan' = [chan EXCEPT !.attempts = {}]
      BY <1>2, <2>2, <3>1 DEF ChannelRecords
    <3>2. CASE \E a \in FirstAttempts(chan) : chan' = tryClose(chan, a)
      <4>1. PICK a \in FirstAttempts(chan) : chan' = tryClose(chan, a)
        BY <3>2
      <4>2. Remaining(chan, a) = {}
        BY <2>2 DEF Remaining
      <4> QED
        BY <1>2, <2>2, <4>1, <4>2 DEF tryClose, ChannelRecords
    <3> QED
      BY <2>1, <3>1, <3>2 DEF applyCloseAttempts
  <2>4. view' = << >>
    <3>1. Read(view, openEvent) = << >>
      BY DEF Read, openEvent
    <3>2. Read(<< >>, closeEvent(0)) = << >>
      BY DEF Read, closeEvent, Prefix
    <3> QED
      BY <2>1, <3>1, <3>2
  <2>5. Lists(view', chan'.messages)
    BY <2>3, <2>4 DEF Lists
  <2>6. IdleInv' /\ OnceInv'
    BY <1>1, <2>1, <2>2, <2>3 DEF IdleInv, OnceInv
  <2> QED
    BY <2>5, <2>6 DEF ReaderInv
<1>12. CASE DecryptorStops
  <2>1. /\ reply' = "none" <=> reply = "none"
        /\ UNCHANGED <<chan, lock, unfed, feeding, requeued, crashed, openFailed,
                       arrived, view>>
    BY <1>12 DEF DecryptorStops, historyVars
  <2>2. IdleInv' /\ OnceInv'
    BY <1>1, <2>1 DEF IdleInv, OnceInv
  <2> QED
    BY <2>1, <2>2, ReaderFrame DEF ReaderInv
<1>13. CASE UNCHANGED vars
  <2>1. UNCHANGED <<chan, lock, unfed, feeding, reply, requeued, crashed, openFailed,
                    arrived, view>>
    BY <1>13 DEF vars
  <2>2. IdleInv' /\ OnceInv'
    BY <1>1, <2>1 DEF IdleInv, OnceInv
  <2> QED
    BY <2>1, <2>2, ReaderFrame DEF ReaderInv
<1> QED
  BY <1>3, <1>4, <1>5, <1>6, <1>7, <1>8, <1>9, <1>10, <1>11, <1>12, <1>13 DEF Next

\* A reader that applies the events of a channel in order holds its messages,
\* each once and in the order of their timestamps: the positions that
\* messagePosition gives out and the counts that tryClose leaves fit what was
\* published before.
THEOREM ReaderHoldsMessages == Spec => []ReaderAgrees
<1>1. ReaderInv => ReaderAgrees
  <2> SUFFICES ASSUME ReaderInv, ~crashed, ~openFailed
               PROVE  /\ {view[i] : i \in 1..Len(view)} = chan.messages
                      /\ Len(view) = Cardinality(chan.messages)
                      /\ \A i \in 1..(Len(view) - 1) :
                            view[i].timestamp <= view[i + 1].timestamp
    BY DEF ReaderAgrees
  <2>1. Lists(view, chan.messages)
    BY DEF ReaderInv
  <2>2. Len(view) \in Nat
    BY <2>1, LenProperties DEF Lists
  <2> QED
    BY <2>1, <2>2, ListLength DEF Lists
<1> QED
  BY <1>1, InitReader, NextReader, Invariance, PTL DEF Spec
=============================================================================
