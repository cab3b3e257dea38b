------------------------------ MODULE Channels ------------------------------
(***************************************************************************)
(* The channels, messages and listeners servers of src/channels, on one    *)
(* channel id.  Requests on distinct ids touch distinct records, and every *)
(* handler of one id runs under the lock of its channel record from start  *)
(* to finish, so a handler is one action, with one exception: opening a    *)
(* channel, and buffering an operation on a channel that has left the      *)
(* buffered state, hand operations to the decryptor and wait for its       *)
(* answer while they hold the lock.  Those waits are steps of their own.   *)
(*                                                                         *)
(* The decryptor and the executor are outside: a message reaches the       *)
(* channel either decrypted (AddMessage) or not (BufferOperation), and one *)
(* handed back to the decryptor is either accepted, and then comes back as *)
(* an AddMessage from the executor, or dropped for good.                   *)
(***************************************************************************)
EXTENDS ChannelRecord, Sequences

CONSTANTS
    OpenRequests,       \* [timestamp, permissions]
    CloseRequests,      \* [issuer, certifier, timestamp]
    MessageRequests,    \* [id, certifier, timestamp], each sent once
    SubscribeRequests,  \* [id, certifier]; the request names its subscriber
    Verifiable,         \* the messages the decryptor accepts when re-fed
    MayStop             \* whether the decryptor may shut down

ASSUME OpenAssumption ==
    \A o \in OpenRequests :
       /\ o.timestamp \in Nat
       /\ o.permissions \in [DOMAIN o.permissions -> SUBSET Rights]

ASSUME CloseAssumption ==
    \A c \in CloseRequests : c.timestamp \in Nat /\ c.issuer \in Nat

ASSUME MessageAssumption ==
    \A m \in MessageRequests : m.timestamp \in Nat

ASSUME MayStopAssumption == MayStop \in BOOLEAN

VARIABLES
    chan,        \* the channel record
    buffer,      \* channelBufferRecord.operations
    listeners,   \* the subscribers in listenersRecord.listenerCertifier
    registered,  \* whether listenersStore holds a record for the channel
    lock,        \* the waiting handler that holds the lock, or "free"
    unfed,       \* what the open handler's loop over the buffer has left
    feeding,     \* the operation whose answer the handler waits for, if any
    reply,       \* the state of respChannel
    decryptor,   \* "up" or "down"
    requeued,    \* accepted by the decryptor, not yet back as an AddMessage
    crashed,     \* publish asserted the type of a record that is not there
    openFailed,  \* history: an open ended in BufferError
    arrived,     \* history: the messages that reached the channel once
    closes,      \* history: the closures passed to tryClose
    offered,     \* history: the messages passed to addMessage after opening
    view         \* history: what a reader of all the events has put together

vars == <<chan, buffer, listeners, registered, lock, unfed, feeding, reply,
          decryptor, requeued, crashed, openFailed, arrived, closes, offered,
          view>>

waitVars    == <<lock, unfed, feeding, reply>>
historyVars == <<openFailed, arrived, closes, offered>>

Init ==
    /\ chan = emptyChannelRecord
    /\ buffer = {}
    /\ listeners = {}
    /\ registered = FALSE
    /\ lock = "free"
    /\ unfed = {}
    /\ feeding = {}
    /\ reply = "none"
    /\ decryptor = "up"
    /\ requeued = {}
    /\ crashed = FALSE
    /\ openFailed = FALSE
    /\ arrived = {}
    /\ closes = {}
    /\ offered = {}
    /\ view = << >>

-----------------------------------------------------------------------------
(***************************************************************************)
(* Events.  A reader keeps the messages in order: it inserts a message at  *)
(* the position its event carries, and a closure keeps that many of them.  *)
(***************************************************************************)
openEvent                  == [type |-> "channel_open"]
messageEvent(message, pos) == [type |-> "new_message", position |-> pos,
                               message |-> message]
closeEvent(validMessages)  == [type |-> "channel_close",
                               position |-> validMessages]

Prefix(s, n) == SubSeq(s, 1, IF n < Len(s) THEN n ELSE Len(s))

Read(v, event) ==
    CASE event.type = "channel_open"  -> << >>
      [] event.type = "new_message"   ->
            Prefix(v, event.position) \o <<event.message>>
               \o SubSeq(v, event.position + 1, Len(v))
      [] event.type = "channel_close" -> Prefix(v, event.position)

\* The type assertion panics, which ends the program, on a channel without a
\* listeners record.
publish(event) ==
    IF registered
      THEN view' = Read(view, event) /\ UNCHANGED crashed
      ELSE crashed' = TRUE /\ UNCHANGED view

Idle == ~crashed /\ lock = "free"

-----------------------------------------------------------------------------
(***************************************************************************)
(* Waiting for the decryptor: operationQueuer, then <-respChannel.  A      *)
(* decryptor that no longer runs refuses the request; the error is         *)
(* ignored and the channel received from is nil, which never answers.      *)
(***************************************************************************)
operationQueuer(message) ==
    /\ feeding' = {message}
    /\ reply' = IF decryptor = "up" THEN "pending" ELSE "nil"

Feed ==
    /\ ~crashed
    /\ lock = "open" /\ reply = "none"
    /\ \E m \in unfed :
          /\ operationQueuer(m)
          /\ unfed' = unfed \ {m}
    /\ UNCHANGED <<chan, buffer, listeners, registered, lock, decryptor,
                   requeued, crashed, historyVars, view>>

\* Mutant: buffering keeps the lock of the channel after the answer.
lockAfterAnswerKept == lock

\* The deferred unlock of BufferOperation; an open handler goes on.
lockAfterAnswer == IF lock = "buffer" THEN "free" ELSE lock

\* The decryptor answers: the operation is queued for the executor, or it is
\* dropped, which the waiting handler does not tell apart.
Answer ==
    /\ ~crashed
    /\ reply = "pending"
    /\ requeued' = requeued \cup (feeding \cap Verifiable)
    /\ feeding' = {}
    /\ reply' = "none"
    /\ lock' = lockAfterAnswer
    /\ UNCHANGED <<chan, buffer, listeners, registered, unfed, decryptor,
                   crashed, historyVars, view>>

\* The decryptor shuts down and closes the channel of a request it holds.
DecryptorStops ==
    /\ ~crashed
    /\ MayStop /\ decryptor = "up"
    /\ decryptor' = "down"
    /\ reply' = IF reply = "pending" THEN "closed" ELSE reply
    /\ UNCHANGED <<chan, buffer, listeners, registered, lock, unfed, feeding,
                   requeued, crashed, historyVars, view>>

\* !ok: the handler answers BufferError or MessagesBufferError and unlocks.
\* An open handler leaves at once: the channel stays open and nothing that
\* follows the loop is done.
BufferError ==
    /\ ~crashed
    /\ reply = "closed"
    /\ lock' = "free"
    /\ unfed' = {}
    /\ feeding' = {}
    /\ reply' = "none"
    /\ openFailed' = (openFailed \/ lock = "open")
    /\ UNCHANGED <<chan, buffer, listeners, registered, decryptor, requeued,
                   crashed, arrived, closes, offered, view>>

-----------------------------------------------------------------------------
(***************************************************************************)
(* Channels server.                                                        *)
(***************************************************************************)
\* Mutant: the loop over the buffer leaves one operation out.
operationsToFeedButOne ==
    {m \in buffer : m # CHOOSE n \in buffer : TRUE}

operationsToFeed == buffer

OpenChannel(opening) ==
    /\ Idle
    /\ canOpen(chan, opening)
    /\ chan' = tryOpen(chan, opening)
    /\ lock' = "open"
    /\ unfed' = operationsToFeed
    /\ UNCHANGED <<buffer, listeners, registered, feeding, reply, decryptor,
                   requeued, crashed, historyVars, view>>

getOrMakeListenersRecord == registered' = TRUE

\* Mutant: any user the permissions name keeps its subscription.
unsubscribeUnauthorizedUnknown ==
    {s \in listeners : s.certifier \in DOMAIN chan.permissions}

\* The subscribers that stay when the channel opens.
unsubscribeUnauthorized ==
    {s \in listeners : Allows(chan.permissions, s.certifier, "read")}

\* The rest of the open handler, once the whole buffer was fed.
FinishOpen ==
    /\ ~crashed
    /\ lock = "open" /\ unfed = {} /\ reply = "none"
    /\ buffer' = {}
    /\ getOrMakeListenersRecord
    /\ listeners' = unsubscribeUnauthorized
    /\ chan' \in applyCloseAttempts(chan)
    /\ view' = IF chan'.state = "closed"
                 THEN Read(Read(view, openEvent), closeEvent(0))
                 ELSE Read(view, openEvent)
    /\ lock' = "free"
    /\ UNCHANGED <<unfed, feeding, reply, decryptor, requeued, crashed,
                   historyVars>>

CloseChannel(closure) ==
    /\ Idle
    /\ closes' = closes \cup {closure}
    /\ IF canClose(chan, closure)
         THEN /\ chan' = tryClose(chan, closure)
              /\ IF chan'.state = "closed"
                   THEN publish(closeEvent(Cardinality(chan'.messages)))
                   ELSE UNCHANGED <<crashed, view>>
         ELSE UNCHANGED <<chan, crashed, view>>
    /\ UNCHANGED <<buffer, listeners, registered, waitVars, decryptor,
                   requeued, openFailed, arrived, offered>>

-----------------------------------------------------------------------------
(***************************************************************************)
(* Messages server.                                                        *)
(***************************************************************************)
AddMessage(message) ==
    /\ Idle
    /\ \/ message \notin arrived
       \/ message \in requeued
    /\ arrived' = arrived \cup {message}
    /\ requeued' = requeued \ {message}
    /\ offered' = IF chan.state = "buffered"
                    THEN offered ELSE offered \cup {message}
    /\ IF canAddMessage(chan, message)
         THEN /\ chan' = addMessage(chan, message)
              /\ publish(messageEvent(message,
                                      messagePosition(chan, message)))
         ELSE UNCHANGED <<chan, crashed, view>>
    /\ UNCHANGED <<buffer, listeners, registered, waitVars, decryptor,
                   openFailed, closes>>

\* Mutant: the race with the opening is not considered.
racesWithOpenNever == FALSE

racesWithOpen == chan.state # "buffered"

BufferOperation(message) ==
    /\ Idle
    /\ message \notin arrived
    /\ arrived' = arrived \cup {message}
    /\ IF racesWithOpen
         THEN /\ operationQueuer(message)
              /\ lock' = "buffer"
              /\ UNCHANGED buffer
         ELSE /\ buffer' = buffer \cup {message}
              /\ UNCHANGED <<lock, feeding, reply>>
    /\ UNCHANGED <<chan, listeners, registered, unfed, decryptor, requeued,
                   crashed, openFailed, closes, offered, view>>

-----------------------------------------------------------------------------
(***************************************************************************)
(* Listeners server.  A refused subscription changes nothing.              *)
(***************************************************************************)
Subscribe(subscriber) ==
    /\ Idle
    /\ \/ chan.permissions = NoPermissions
       \/ Allows(chan.permissions, subscriber.certifier, "read")
    /\ listeners' = listeners \cup {subscriber}
    /\ getOrMakeListenersRecord
    /\ UNCHANGED <<chan, buffer, waitVars, decryptor, requeued, crashed,
                   historyVars, view>>

Unsubscribe(subscriber) ==
    /\ Idle
    /\ registered
    /\ listeners' = listeners \ {subscriber}
    /\ UNCHANGED <<chan, buffer, registered, waitVars, decryptor, requeued,
                   crashed, historyVars, view>>

-----------------------------------------------------------------------------
Next ==
    \/ \E o \in OpenRequests : OpenChannel(o)
    \/ \E c \in CloseRequests : CloseChannel(c)
    \/ \E m \in MessageRequests : AddMessage(m) \/ BufferOperation(m)
    \/ \E s \in SubscribeRequests : Subscribe(s) \/ Unsubscribe(s)
    \/ Feed
    \/ Answer
    \/ BufferError
    \/ FinishOpen
    \/ DecryptorStops

\* A worker goes on with the handler it runs.  Nothing is assumed of the
\* decryptor, which may wait for a user's record that the caller of these
\* servers keeps locked, nor of the executor.
Fairness ==
    /\ WF_vars(Feed)
    /\ WF_vars(BufferError)
    /\ WF_vars(FinishOpen)

Spec == Init /\ [][Next]_vars

FairSpec == Spec /\ Fairness
-----------------------------------------------------------------------------
(***************************************************************************)
(* Properties.                                                             *)
(***************************************************************************)
ChannelRecords ==
    [state       : States,
     opened      : Nat,
     permissions : {o.permissions : o \in OpenRequests} \cup {NoPermissions},
     closure     : CloseRequests \cup {NoAction},
     attempts    : SUBSET CloseRequests,
     messages    : SUBSET MessageRequests]

TypeOK ==
    /\ chan \in ChannelRecords
    /\ buffer \subseteq MessageRequests
    /\ listeners \subseteq SubscribeRequests
    /\ registered \in BOOLEAN
    /\ lock \in {"free", "open", "buffer"}
    /\ unfed \subseteq MessageRequests
    /\ feeding \subseteq MessageRequests
    /\ reply \in {"none", "pending", "closed", "nil"}
    /\ decryptor \in {"up", "down"}
    /\ requeued \subseteq MessageRequests
    /\ crashed \in BOOLEAN
    /\ openFailed \in BOOLEAN
    /\ arrived \subseteq MessageRequests
    /\ closes \subseteq CloseRequests
    /\ offered \subseteq MessageRequests

\* The closures that reached the channel, before or after its opening, and
\* that its terms admit.
Contenders == {c \in closes : Eligible(chan, c)}

\* Whatever the order of openings and closures, and whether a closure came
\* early or late, an open channel has no admissible closure against it and a
\* closed one was closed by an admissible closure that none precedes in time
\* (tryClose, applyCloseAttempts and the open handler that calls it).
ClosureIsEarliest ==
    lock # "open" /\ ~openFailed =>
       /\ chan.state = "open" => Contenders = {}
       /\ chan.state = "closed" =>
             /\ chan.closure \in Contenders
             /\ \A c \in Contenders : chan.closure.timestamp <= c.timestamp

\* A channel holds every admissible message offered to it from strictly
\* before its closure, whenever the closures came and moved, and no message
\* that is inadmissible or later than the closure (addMessage against the
\* filter of tryClose).
MessagesMatchDuration ==
    LET admissible == {m \in offered : Writable(chan, m)}
        closed     == chan.closure.timestamp
    IN  CASE chan.state = "buffered" -> chan.messages = {}
          [] chan.state = "open"     -> chan.messages = admissible
          [] chan.state = "closed"   ->
                /\ {m \in admissible : m.timestamp < closed} \subseteq
                      chan.messages
                /\ chan.messages \subseteq
                      {m \in admissible : m.timestamp <= closed}

\* Once an opening is complete, nobody who may not read the channel is
\* subscribed to it, though anybody could subscribe before (the check of the
\* subscribe handler together with unsubscribeUnauthorized).
ListenersAuthorized ==
    chan.state # "buffered" /\ lock # "open" /\ ~openFailed =>
       \A s \in listeners : Allows(chan.permissions, s.certifier, "read")

\* An operation that races with the opening is not left in the buffer of a
\* channel that will never feed it again ("In case of a race condition
\* between open and buffer", messages_daemon.go).
NothingStranded ==
    chan.state # "buffered" /\ lock # "open" /\ ~openFailed => buffer = {}

\* publish finds a listeners record whenever it runs, unless an opening was
\* cut short by the decryptor's shutdown.
CrashOnlyAfterFailedOpen == crashed => openFailed

\* A reader that applies the events in order, inserting each message at its
\* position and truncating at each closure, holds exactly the messages of
\* the channel in the order of their timestamps (messagePosition and the
\* remaining count of tryClose, published in channels_daemon.go and
\* messages_daemon.go).
ReaderAgrees ==
    ~crashed /\ ~openFailed =>
       /\ {view[i] : i \in 1..Len(view)} = chan.messages
       /\ Len(view) = Cardinality(chan.messages)
       /\ \A i \in 1..(Len(view) - 1) :
             view[i].timestamp <= view[i + 1].timestamp

\* What is open or closed stays so under the same terms; a closure is only
\* replaced by one that wins over it (earlier, or at the same time from a
\* lesser issuer), so its time never moves later.
ClosureOnlyImproves ==
    [][ /\ chan.state # "buffered" =>
              /\ chan'.state # "buffered"
              /\ chan'.opened = chan.opened
              /\ chan'.permissions = chan.permissions
        /\ chan.state = "closed" =>
              /\ chan'.state = "closed"
              /\ \/ chan'.closure = chan.closure
                 \/ Precedes(chan'.closure, chan.closure) ]_vars

\* The servers, with early requests, the buffer and the waits for the
\* decryptor, keep the channel's promise to its members: each of their steps
\* opens, closes or posts as ChannelLifecycle allows, or changes nothing a
\* member is told.
Lifecycle ==
    INSTANCE ChannelLifecycle WITH
        phase <- chan.state, opened <- chan.opened,
        permissions <- chan.permissions, closure <- chan.closure,
        messages <- chan.messages

KeepsLifecycle == Lifecycle!Spec

\* Nothing but the decryptor keeps the lock of the channel: a handler gives it
\* back, also when the decryptor is shut down with what it was handed, unless
\* it waits for good for an answer that is never made or on the nil channel
\* of a decryptor that has refused (channels_daemon.go:161).
OnlyDecryptorKeepsLock ==
    lock # "free" ~> lock = "free" \/ [](reply \in {"pending", "nil"})

\* What the decryptor and the executor owe for that: no answer is outstanding
\* for good, and what was accepted is added.
OthersServe(message) ==
    []<>(reply # "pending") /\ []<>(message \notin requeued)

\* An operation buffered before the opening, or racing with it, reaches the
\* channel as a message once the channel is open, if the decryptor accepts it
\* and does not stop, and if the two servers outside answer, which the code
\* does not guarantee (messages_daemon.go:155).
EarlyMessagesAdded ==
    \A m \in Verifiable :
       OthersServe(m) =>
          (m \in buffer \cup feeding /\ chan.state # "buffered"
              ~> m \in offered \/ decryptor = "down")
=============================================================================
