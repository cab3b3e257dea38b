--------------------------- MODULE ExecutorProofs ---------------------------
(***************************************************************************)
(* Proofs about Executor, for any requests of clients, any channels, users *)
(* and numbers of workers.  The users server is the one of Users, so what  *)
(* UsersLocksProofs proves of its steps holds here; a handler touches none *)
(* of its variables.                                                       *)
(***************************************************************************)
EXTENDS Executor, UsersLocksProofs

(***************************************************************************)
(* The inductive invariant.                                                *)
(***************************************************************************)
\* The stages of each kind of request, besides those before and after it.
StagesOf(h) ==
    {"unsent", "queued", "dropped", "done"} \cup
    IF Call[h].type \in asksUsers /\ Call[h].certifier = Nobody
      THEN {}
      ELSE CASE Call[h].type = "UsersRequest" -> {"users", "asking"}
             [] Call[h].type = "TransactionEncrypt" ->
                   {"users", "asking", "encrypt", "release", "releasing",
                    "blocked"}
             [] Call[h].type = "ReadChannel" ->
                   {"lock", "users", "asking", "act", "called", "release",
                    "releasing", "blocked", "unlock"}
             [] Call[h].type = "AddChannel" ->
                   {"lock", "wait", "users", "asking", "key", "act", "called",
                    "feeding", "handed", "verifying", "release", "releasing", "blocked",
                    "unlock"}
             [] Call[h].type = "AddMessage" ->
                   {"lock", "wait", "act", "called", "unlock"} \cup
                   IF Call[h].failed
                     THEN {"feeding", "handed", "verifying", "blocked"} ELSE {}
             [] Call[h].type = "CloseChannel" ->
                   {"lock", "wait", "act", "called", "unlock"}
             [] Call[h].type = "SubscribeChannel" ->
                   {"lock", "act", "called", "unlock"}
             [] Call[h].type = "ChannelEncrypt" ->
                   {"lock", "act", "called", "encrypt", "unlock"}

\* With the lock of its channel, if it takes one.
HasLock(h) ==
    /\ Call[h].type \notin usersOnly
    /\ stage[h] \notin {"unsent", "queued", "lock", "wait", "dropped", "done"}

ChannelReaders(c) ==
    {h \in Handlers : Call[h].channel = c /\ HasLock(h) /\ LockType(h) = "read"}

ChannelWriters(c) ==
    {h \in Handlers : Call[h].channel = c /\ HasLock(h) /\ LockType(h) = "write"}

Waiting(c) == {h \in Handlers : Call[h].channel = c /\ stage[h] = "wait"}

\* Each lock of a channel has its holders.
ChannelLockInv(c) ==
    /\ IsFiniteSet(ChannelReaders(c))
    /\ rlocks[c] = Cardinality(ChannelReaders(c))
    /\ \A h \in ChannelWriters(c) : wlock[c] = h /\ rlocks[c] = 0
    /\ \A h \in Waiting(c) : wlock[c] = h
    /\ wlock[c] # Nobody => wlock[c] \in ChannelWriters(c) \cup Waiting(c)

\* A handler that feeds waits for one message at a time.
FeedInv(h) ==
    /\ fed[h] # Nobody => stage[h] \in {"handed", "verifying", "blocked"}
    /\ stage[h] \in {"handed", "verifying"} => fed[h] # Nobody
    /\ unfed[h] # {} =>
          stage[h] \in {"feeding", "handed", "verifying", "blocked"}
    /\ fed[h] \notin unfed[h]

Reported(h) ==
    \/ stage[h] \in {"release", "releasing", "unlock", "done"}
    \/ stage[h] = "blocked" /\ fed[h] = Nobody

OutcomeInv(h) == Len(outcome[h]) = IF Reported(h) THEN 1 ELSE 0

Pending(h) == {m \in Handlers : m \in unfed[h] \/ m = fed[h]}

Unseen(m) == stage[Refed[m]] = "unsent" /\ \A h \in Handlers : m \notin Pending(h)

\* A message that could not be verified is in one place until it has been
\* verified or dropped, and comes back to the executor only from there.
MessageInv(m) ==
    /\ stage[m] \in {"queued", "lock", "wait", "act", "called"} =>
          Unseen(m) /\ \A c \in Channels : m \notin buffers[c]
    /\ \A c \in Channels :
          m \in buffers[c] /\ RecordOf(c).state = "buffered" => Unseen(m)
    /\ \A h \in Handlers : m \in Pending(h) =>
          /\ stage[Refed[m]] = "unsent"
          /\ \A g \in Handlers : m \in Pending(g) => g = h

\* What is waited for was asked, and what is not waited for is answered.
InProgress(q) ==
    \/ q[2] \in {"read", "update"} /\ stage[q[1]] = "asking"
    \/ q[2] = "release" /\ stage[q[1]] = "releasing"
    \/ q[2] = "peek" /\ \E h \in Handlers : stage[h] = "verifying" /\ fed[h] = q[1]

RequestInv(q) ==
    /\ q \notin issued => pc[q] = "queued"
    /\ q \in issued => Answered(q) \/ InProgress(q)

\* A handler that goes on with the records it read holds them until it asks
\* for their release.
KeepInv(h) ==
    LET kept == <<h, "read">>  undo == <<h, "release">>
    IN  /\ stage[h] \in {"unsent", "queued", "lock", "wait", "users", "dropped"} =>
              kept \notin issued
        /\ undo \in issued => stage[h] \in {"releasing", "unlock", "done"}
        /\ stage[h] \in {"key", "act", "called", "feeding", "handed", "verifying",
                         "encrypt", "release"} => Succeeded(kept)
        /\ stage[h] \in {"unlock", "done"} /\ Succeeded(kept) =>
              undo \in issued /\ Answered(undo)

IsRecord(rec) ==
    /\ rec = [state |-> rec.state, opened |-> rec.opened,
              permissions |-> rec.permissions, closure |-> rec.closure,
              attempts |-> rec.attempts, messages |-> rec.messages]
    /\ rec.state \in States

KeyInv(h) ==
    LET c == Call[h].channel
    IN  /\ stage[h] \in {"act", "called"} /\ Call[h].type = "AddChannel" =>
              Call[h].keyId \in keys
        /\ stage[h] \in {"feeding", "handed", "verifying"}
             /\ Call[h].type = "AddChannel" =>
              c \in KnownChannels /\ chans[c].state # "buffered"
        /\ stage[h] = "encrypt" /\ Call[h].type = "ChannelEncrypt" =>
              c \in KnownChannels

Asks(h) == Call[h].type \in asksUsers /\ Call[h].certifier # Nobody

\* A release finds what it is to release, and is not refused.
ReleaseInv(q) ==
    q[2] = "release" /\ Request[q].skipPermissions /\ pc[q] \in {"unlocking", "done"} =>
        q \in ran

ExecutorInv ==
    /\ ExecutorTypeOK
    /\ UsersInv
    /\ \A h \in Handlers :
          /\ stage[h] \in StagesOf(h)
          /\ FeedInv(h) /\ OutcomeInv(h) /\ KeyInv(h)
          /\ Pending(h) \subseteq Unverified
    /\ \A c \in Channels :
          /\ ChannelLockInv(c)
          /\ \A m \in buffers[c] : m \in Unverified /\ Call[m].channel = c
    /\ \A c \in KnownChannels : IsRecord(chans[c])
    /\ \A m \in Unverified : MessageInv(m)
    /\ \A q \in UserRequests : RequestInv(q) /\ ReleaseInv(q)
    /\ \A h \in Handlers : Asks(h) => KeepInv(h)
    /\ OpenChannelHasKey
    /\ dropped # {} => stopping # 0
    /\ ActsUnderPermission
-----------------------------------------------------------------------------
(***************************************************************************)
(* What the handlers ask of the users server.                              *)
(***************************************************************************)
\* The requests a handler makes are requests of the users server.
LEMMA RequestsMade ==
  ASSUME NEW h \in Handlers
  PROVE  /\ Asks(h) => <<h, "read">> \in Requests /\ <<h, "release">> \in Requests
         /\ Call[h].type = "UsersRequest" => <<h, "update">> \in Requests
         /\ Call[h].type = "AddMessage" => <<h, "peek">> \in Requests
<1>1. ASSUME Asks(h), NEW use \in {"read", "release"} PROVE <<h, use>> \in Requests
  BY <1>1, ServesHandlers DEF Asks, UserRequests
<1>2. ASSUME Call[h].type = "UsersRequest" PROVE <<h, "update">> \in Requests
  BY <1>2, ServesHandlers DEF UserRequests
<1>3. ASSUME Call[h].type = "AddMessage" PROVE <<h, "peek">> \in Requests
  BY <1>3, ServesHandlers DEF UserRequests
<1> QED
  BY <1>1, <1>2, <1>3

\* And there are no others.
LEMMA RequestKinds ==
  ASSUME NEW q \in Requests
  PROVE  /\ q = <<q[1], q[2]>> /\ q[1] \in Handlers
         /\ \/ q[2] \in {"read", "release"} /\ Asks(q[1])
            \/ q[2] = "update" /\ Call[q[1]].type = "UsersRequest"
            \/ q[2] = "peek" /\ Call[q[1]].type = "AddMessage"
  BY ServesHandlers DEF UserRequests, Asks

\* A release asks for what the read before it left locked, in the same name.
LEMMA ReadAndRelease ==
  ASSUME NEW h \in Handlers, Asks(h)
  PROVE  LET kept == Request[<<h, "read">>]
             undo == Request[<<h, "release">>]
         IN  /\ kept.type = "read" /\ kept.readLock /\ ~kept.readUnlock
             /\ undo.type = "read" /\ ~undo.readLock /\ undo.readUnlock
             /\ undo.subjects = kept.subjects
             /\ undo.skipPermissions = kept.skipPermissions
             /\ undo.issuer = kept.issuer /\ undo.certifier = kept.certifier
             /\ Call[h].type # "TransactionEncrypt" =>
                   kept.skipPermissions /\ kept.subjects = {Call[h].certifier}
<1>1. <<h, "read">> \in UserRequests /\ <<h, "release">> \in UserRequests
  BY RequestsMade, ServesHandlers
<1>2. CASE Call[h].type = "TransactionEncrypt"
  BY <1>1, <1>2, ServesHandlers DEF UserRequest, leaveLocked
<1>3. CASE Call[h].type # "TransactionEncrypt"
  BY <1>1, <1>3, ServesHandlers DEF UserRequest, leaveLocked
<1> QED
  BY <1>2, <1>3

\* What else is asked leaves nothing locked.
LEMMA OtherRequests ==
  ASSUME NEW h \in Handlers
  PROVE  /\ Call[h].type = "UsersRequest" =>
              Request[<<h, "update">>] = Call[h].request
         /\ Call[h].type = "AddMessage" =>
              /\ Request[<<h, "peek">>].type = "read"
              /\ Request[<<h, "peek">>].readLock
              /\ Request[<<h, "peek">>].readUnlock
<1>1. ASSUME Call[h].type = "UsersRequest"
      PROVE  Request[<<h, "update">>] = Call[h].request
  BY <1>1, RequestsMade, ServesHandlers DEF UserRequest
<1>2. ASSUME Call[h].type = "AddMessage"
      PROVE  /\ Request[<<h, "peek">>].type = "read"
             /\ Request[<<h, "peek">>].readLock
             /\ Request[<<h, "peek">>].readUnlock
  <2>1. <<h, "peek">> \in UserRequests
    BY <1>2, RequestsMade, ServesHandlers
  <2> QED
    BY <2>1, <1>2, ServesHandlers DEF UserRequest
<1> QED
  BY <1>1, <1>2

\* Only a release follows another request.
LEMMA AfterIs ==
  ASSUME NEW q \in Requests
  PROVE  After[q] = IF q[2] = "release" THEN <<q[1], "read">> ELSE Nobody
  BY ServesHandlers DEF Follows

\* The handlers use the users server as its proofs ask.
LEMMA HandlersPairReleases == ReleasesPaired
<1>1. After \in [Requests -> Requests \cup {Nobody}]
  <2>1. \A q \in Requests : Follows[q] \in Requests \cup {Nobody}
    BY AfterIs, RequestKinds, RequestsMade, ServesHandlers
  <2> QED
    BY <2>1, ServesHandlers DEF Follows
<1>2. ASSUME NEW q \in Requests
      PROVE  LET rq   == Request[q]
                 kept == Request[After[q]]
             IN  IF rq.type = "read" /\ ~rq.readLock
                   THEN /\ After[q] # Nobody /\ rq.readUnlock
                        /\ leavesLocked(kept)
                        /\ kept.subjects = rq.subjects
                        /\ signerNeeds(kept) = signerNeeds(rq)
                   ELSE After[q] = Nobody
  <2>1. q = <<q[1], q[2]>> /\ q[1] \in Handlers
    BY RequestKinds
  <2>2. CASE q[2] = "release"
    <3>1. Asks(q[1]) /\ After[q] = <<q[1], "read">>
      BY <2>2, RequestKinds, AfterIs
    <3>2. After[q] # Nobody
      BY <3>1, <2>1, RequestsMade, NobodyAssumption
    <3>3. /\ Request[q].type = "read" /\ ~Request[q].readLock /\ Request[q].readUnlock
          /\ leavesLocked(Request[After[q]])
          /\ Request[q].subjects = Request[After[q]].subjects
      BY <2>1, <2>2, <3>1, ReadAndRelease DEF leavesLocked
    <3>4. signerNeeds(Request[After[q]]) = signerNeeds(Request[q])
      BY <2>1, <2>2, <3>1, ReadAndRelease DEF signerNeeds
    <3> QED
      BY <3>2, <3>3, <3>4
  <2>3. CASE q[2] = "read"
    BY <2>1, <2>3, RequestKinds, ReadAndRelease, AfterIs
  <2>4. CASE q[2] = "update"
    <3>1. Call[q[1]].type = "UsersRequest" /\ q = <<q[1], "update">>
      BY <2>1, <2>4, RequestKinds
    <3>2. Request[q] = Call[q[1]].request
      BY <2>1, <3>1, OtherRequests
    <3> QED
      BY <2>1, <2>4, <3>1, <3>2, AfterIs, UpdatesAssumption
  <2>5. CASE q[2] = "peek"
    <3>1. Request[q].readLock
      BY <2>1, <2>5, RequestKinds, OtherRequests
    <3> QED
      BY <2>5, <3>1, AfterIs
  <2> QED
    BY <2>2, <2>3, <2>4, <2>5, RequestKinds
<1>3. ASSUME NEW q \in Requests, NEW r \in Requests, q # r, After[q] # Nobody
      PROVE  After[q] # After[r]
  <2>1. q[2] = "release" /\ After[q] = <<q[1], "read">>
    BY <1>3, AfterIs
  <2>2. CASE r[2] = "release"
    <3>1. After[r] = <<r[1], "read">> /\ r = <<r[1], "release">>
      BY <2>2, AfterIs, RequestKinds
    <3>2. q = <<q[1], "release">>
      BY <2>1, RequestKinds
    <3> QED
      BY <1>3, <2>1, <3>1, <3>2
  <2>3. CASE r[2] # "release"
    BY <1>3, <2>3, AfterIs
  <2> QED
    BY <2>2, <2>3
<1>4. ASSUME NEW q \in Requests, NEW r \in Requests, q # r,
             Request[q].type = "create", Request[r].type = "create"
      PROVE  Request[q].subject # Request[r].subject
  <2>1. ASSUME NEW p \in Requests, Request[p].type = "create"
        PROVE  /\ p[1] \in Handlers /\ p = <<p[1], "update">>
               /\ Call[p[1]].type = "UsersRequest"
               /\ Request[p] = Call[p[1]].request
    <3>1. p = <<p[1], p[2]>> /\ p[1] \in Handlers
      BY RequestKinds
    <3>2. p[2] # "read" /\ p[2] # "release"
      BY <2>1, <3>1, RequestKinds, ReadAndRelease
    <3>3. p[2] # "peek"
      BY <2>1, <3>1, RequestKinds, OtherRequests
    <3>4. p[2] = "update" /\ Call[p[1]].type = "UsersRequest"
      BY <3>2, <3>3, RequestKinds
    <3> QED
      BY <3>1, <3>4, OtherRequests
  <2>2. q[1] # r[1]
    BY <1>4, <2>1
  <2> QED
    BY <1>4, <2>1, <2>2, UpdatesAssumption
<1> QED
  BY <1>1, <1>2, <1>3, <1>4 DEF ReleasesPaired

-----------------------------------------------------------------------------
(***************************************************************************)
(* The steps of the users server.                                          *)
(***************************************************************************)
handlerVars ==
    <<stage, outcome, lockerVars, keys, channelVars, feedVars, stopping,
      requestVars, panicked>>

\* The server works on what was asked, and takes back no answer.
LEMMA ServeStep ==
  ASSUME ExecutorInv, NEW q \in UserRequests, Serve(q)
  PROVE  /\ UsersInv' /\ UNCHANGED handlerVars
         /\ q \in Requests /\ Work(q) /\ OnlyBy(q)
         /\ q \in issued /\ ~Answered(q)
         /\ \A r \in Requests : Answered(r) =>
               Answered(r)' /\ (Succeeded(r)' <=> Succeeded(r))
<1>1. q \in Requests /\ Work(q) /\ UNCHANGED handlerVars /\ q \in issued \ dropped
  BY ServesHandlers DEF Serve, handlerVars
<1>2. UsersInv'
  BY <1>1, HandlersPairReleases, WorkUsers DEF ExecutorInv
<1>3. OnlyBy(q) /\ pc[q] # "done"
  BY <1>1
  DEF Work, Begin, Check, Run, Return, RLock, AwaitReaders, Lock, RUnlock,
      Unlock, locks, unlocks, OnlyBy, ExecutorInv, UsersInv, TypeOK
<1>4. ~Answered(q)
  BY <1>1, <1>3 DEF Answered, Finished
<1>5. ASSUME NEW r \in Requests, Answered(r)
      PROVE  Answered(r)' /\ (Succeeded(r)' <=> Succeeded(r))
  BY <1>1, <1>3, <1>4, <1>5
  DEF OnlyBy, Answered, Succeeded, Finished, handlerVars, requestVars
<1> QED
  BY <1>1, <1>2, <1>3, <1>4, <1>5

\* Every other step leaves the users server alone.
LEMMA UsersFrame ==
  ASSUME ExecutorInv, UNCHANGED <<userVars, fatal>>
  PROVE  UsersInv'
<1>1. [Next]_vars
  BY DEF userVars, vars
<1> QED
  BY <1>1, HandlersPairReleases, NextUsers DEF ExecutorInv
-----------------------------------------------------------------------------
(***************************************************************************)
(* The steps of the handlers.                                              *)
(***************************************************************************)
\* The message that is being verified.
LEMMA FedMessage ==
  ASSUME ExecutorInv, NEW h \in Handlers, fed[h] # Nobody
  PROVE  /\ fed[h] \in Unverified /\ fed[h] \in Handlers
         /\ Call[fed[h]].type = "AddMessage"
         /\ Refed[fed[h]] \in Handlers \ Unverified
         /\ stage[Refed[fed[h]]] = "unsent"
<1>1. fed[h] \in Handlers /\ fed[h] \in Pending(h)
  BY DEF ExecutorInv, ExecutorTypeOK, Pending
<1>2. fed[h] \in Unverified
  BY <1>1 DEF ExecutorInv
<1>3. MessageInv(fed[h])
  BY <1>2 DEF ExecutorInv
<1> QED
  BY <1>1, <1>2, <1>3, RefedAssumption DEF MessageInv, Unverified

Woken(g) == stage[g] = "unsent" /\ stage'[g] = "queued"

\* A handler has its own stage, outcome and messages, and touches those of no
\* other one: it only sends a message that has been verified on its way.
LEMMA HandleFrame ==
  ASSUME ExecutorInv, NEW h \in Handlers, Handle(h)
  PROVE  /\ UNCHANGED <<userVars, dropped, stopping, panicked>>
         /\ \A g \in Handlers \ {h} :
               \/ stage'[g] = stage[g]
               \/ Woken(g) /\ FedAnswered(h) /\ g = Refed[fed[h]]
         /\ \A g \in Handlers \ {h} :
               outcome'[g] = outcome[g] /\ unfed'[g] = unfed[g] /\ fed'[g] = fed[g]
<1> /\ stage \in [Handlers -> Stages]
    /\ outcome \in [Handlers -> Seq({"success", "failed", "rejected"})]
    /\ unfed \in [Handlers -> SUBSET Handlers]
    /\ fed \in [Handlers -> Handlers \cup {Nobody}]
  BY DEF ExecutorInv, ExecutorTypeOK
<1> USE DEF Report, Goto, feedVars, channelVars, requestVars, lockerVars
<1>1. CASE Start(h)
  BY <1>1 DEF Start
<1>2. CASE TakeLock(h)
  BY <1>2 DEF TakeLock, RLockChannel, AwaitChannelReaders, LockChannel, locked
<1>3. CASE Ask(h)
  BY <1>3 DEF Ask, AskUsers, UsersRequestAnswered, UsersRead
<1>4. CASE Act(h)
  <2>1. CASE AddKey(h) \/ MakeRequest(h) \/ Encrypt(h)
    BY <2>1 DEF AddKey, MakeRequest, Encrypt
  <2>2. CASE ReadChannel(h) \/ SubscribeChannel(h) \/ ReadToEncrypt(h)
    BY <2>2 DEF ReadChannel, SubscribeChannel, ReadToEncrypt, acts
  <2>3. CASE AddChannel(h) \/ CloseChannel(h)
    BY <2>3 DEF AddChannel, CloseChannel, acts
  <2>4. CASE AddMessage(h) \/ BufferOperation(h)
    BY <2>4 DEF AddMessage, BufferOperation, acts
  <2> QED
    BY <1>4, <2>1, <2>2, <2>3, <2>4 DEF Act
<1>5. CASE FeedBuffer(h)
  <2>1. CASE Feed(h) \/ VerifyFed(h)
    BY <2>1 DEF Feed, VerifyFed
  <2>2. CASE BufferError(h) \/ FinishFeeding(h)
    BY <2>2 DEF BufferError, FinishFeeding
  <2>3. CASE FedAnswered(h)
    <3>1. fed[h] # Nobody
      BY <2>3 DEF FedAnswered, ExecutorInv, FeedInv
    <3>2. stage[Refed[fed[h]]] = "unsent"
      BY <3>1, FedMessage
    <3> QED
      BY <2>3, <3>2 DEF FedAnswered, Woken
  <2> QED
    BY <1>5, <2>1, <2>2, <2>3 DEF FeedBuffer
<1>6. CASE GiveBack(h)
  BY <1>6 DEF GiveBack, ReleaseUsers, UsersReleased, UnlockChannel
<1> QED
  BY <1>1, <1>2, <1>3, <1>4, <1>5, <1>6 DEF Handle

-----------------------------------------------------------------------------
(***************************************************************************)
(* The locks of the channels.                                              *)
(***************************************************************************)
\* The handlers with a lock, or in line for it, stay the same.
QuietStages ==
    \A g \in Handlers : /\ HasLock(g)' <=> HasLock(g)
                        /\ stage'[g] = "wait" <=> stage[g] = "wait"

\* A lock nobody takes or gives back keeps its holders.
LEMMA ChannelFrame ==
  ASSUME NEW c \in Channels, ChannelLockInv(c),
         rlocks'[c] = rlocks[c], wlock'[c] = wlock[c],
         \A g \in Handlers : Call[g].channel = c =>
            /\ HasLock(g)' <=> HasLock(g)
            /\ stage'[g] = "wait" <=> stage[g] = "wait"
  PROVE  ChannelLockInv(c)'
<1>1. /\ ChannelReaders(c)' = ChannelReaders(c)
      /\ ChannelWriters(c)' = ChannelWriters(c)
      /\ Waiting(c)' = Waiting(c)
  BY DEF ChannelReaders, ChannelWriters, Waiting, LockType
<1> QED
  BY <1>1 DEF ChannelLockInv

Locking(h) == TakeLock(h) \/ UnlockChannel(h)

\* Neither the calls nor their answers touch the lock of the channel.
LEMMA CallsAreQuiet ==
  ASSUME ExecutorInv, NEW h \in Handlers, Handle(h), ~Locking(h)
  PROVE  UNCHANGED lockerVars /\ QuietStages /\ fatal' = fatal
<1> stage \in [Handlers -> Stages] /\ Call[h].type \in CallTypes
  BY CallAssumption DEF ExecutorInv, ExecutorTypeOK
<1> stage[h] \in StagesOf(h)
  BY DEF ExecutorInv
<1>0. ASSUME NEW g \in Handlers \ {h}
      PROVE  /\ HasLock(g)' <=> HasLock(g)
             /\ stage'[g] = "wait" <=> stage[g] = "wait"
  BY HandleFrame DEF HasLock, Woken
<1> SUFFICES UNCHANGED lockerVars /\ fatal' = fatal
               /\ (HasLock(h)' <=> HasLock(h))
               /\ (stage'[h] = "wait" <=> stage[h] = "wait")
  BY <1>0 DEF QuietStages
<1> USE DEF HasLock, Report, Goto, deferred, unlocking, usersOnly, asksUsers
<1>1. CASE Start(h)
  BY <1>1 DEF Start
<1>2. CASE Ask(h)
  BY <1>2 DEF Ask, AskUsers, UsersRequestAnswered, UsersRead, StagesOf
<1>3. CASE Act(h)
  BY <1>3 DEF Act, AddKey, MakeRequest, ReadChannel, AddChannel,
     CloseChannel, AddMessage, BufferOperation, SubscribeChannel,
     ReadToEncrypt, Encrypt, acts
<1>4. CASE FeedBuffer(h)
  <2>1. CASE Feed(h) \/ VerifyFed(h) \/ BufferError(h) \/ FinishFeeding(h)
    BY <2>1 DEF Feed, VerifyFed, BufferError, FinishFeeding
  <2>2. CASE FedAnswered(h)
    <3>1. fed[h] # Nobody
      BY <2>2 DEF FedAnswered, ExecutorInv, FeedInv
    <3>2. stage[h] = "verifying" /\ Refed[fed[h]] # h
      BY <2>2, <3>1, FedMessage DEF FedAnswered
    <3>3. stage'[h] = "feeding"
      BY <2>2, <3>2 DEF FedAnswered
    <3> QED
      BY <2>2, <3>2, <3>3 DEF FedAnswered
  <2> QED
    BY <1>4, <2>1, <2>2 DEF FeedBuffer
<1>5. CASE ReleaseUsers(h) \/ UsersReleased(h)
  BY <1>5 DEF ReleaseUsers, UsersReleased, StagesOf
<1> QED
  BY <1>1, <1>2, <1>3, <1>4, <1>5 DEF Handle, Locking, GiveBack


\* A handler that takes its lock, or gives it back, changes the holders of
\* that lock by itself and those of no other lock.
LEMMA OtherChannels ==
  ASSUME ExecutorInv, NEW h \in Handlers, Handle(h), Locking(h)
  PROVE  /\ \A g \in Handlers \ {h} : stage'[g] = stage[g]
         /\ \A c \in Channels \ {Call[h].channel} : ChannelLockInv(c)'
         /\ Call[h].channel \in Channels /\ ChannelLockInv(Call[h].channel)
<1>1. Call[h].channel \in Channels
  BY CallAssumption
<1>2. \A g \in Handlers \ {h} : stage'[g] = stage[g]
  BY DEF Locking, TakeLock, RLockChannel, AwaitChannelReaders, LockChannel,
     UnlockChannel, locked, Goto, ExecutorInv, ExecutorTypeOK
<1>3. ASSUME NEW c \in Channels \ {Call[h].channel} PROVE ChannelLockInv(c)'
  <2>1. rlocks'[c] = rlocks[c] /\ wlock'[c] = wlock[c]
    BY <1>1
    DEF Locking, TakeLock, RLockChannel, AwaitChannelReaders, LockChannel,
        UnlockChannel, locked, lockerVars, ExecutorInv, ExecutorTypeOK
  <2> QED
    BY <1>2, <2>1, ChannelFrame DEF ExecutorInv, HasLock
<1> QED
  BY <1>1, <1>2, <1>3 DEF ExecutorInv

\* One more reader.
LEMMA RLockChannelStep ==
  ASSUME ExecutorInv, NEW h \in Handlers, Handle(h), RLockChannel(h)
  PROVE  (\A c \in Channels : ChannelLockInv(c)') /\ fatal' = fatal
<1> DEFINE c == Call[h].channel
<1>1. /\ \A g \in Handlers \ {h} : stage'[g] = stage[g]
      /\ \A d \in Channels \ {c} : ChannelLockInv(d)'
      /\ c \in Channels /\ ChannelLockInv(c)
  BY OtherChannels DEF Locking, TakeLock
<1>2. /\ stage[h] = "lock" /\ LockType(h) = "read" /\ wlock[c] = Nobody
      /\ stage'[h] \in {"users", "act"}
      /\ rlocks'[c] = rlocks[c] + 1 /\ wlock' = wlock /\ fatal' = fatal
  BY <1>1
  DEF RLockChannel, locked, Goto, ExecutorInv, ExecutorTypeOK
<1>3. Call[h].type \notin usersOnly
  BY <1>2 DEF ExecutorInv, StagesOf, usersOnly
<1>4. HasLock(h)' /\ ~HasLock(h)
  BY <1>2, <1>3 DEF HasLock
<1>5. \A g \in Handlers \ {h} : HasLock(g)' <=> HasLock(g)
  BY <1>1 DEF HasLock
<1>6. /\ ChannelReaders(c)' = ChannelReaders(c) \cup {h}
      /\ h \notin ChannelReaders(c)
      /\ ChannelWriters(c)' = ChannelWriters(c) /\ Waiting(c)' = Waiting(c)
  BY <1>1, <1>2, <1>4, <1>5
  DEF ChannelReaders, ChannelWriters, Waiting, LockType
<1>7. ChannelWriters(c) = {} /\ Waiting(c) = {}
  BY <1>1, <1>2, TicketAssumption DEF ChannelLockInv, ChannelWriters, Waiting
<1>8. /\ IsFiniteSet(ChannelReaders(c)')
      /\ Cardinality(ChannelReaders(c)') = Cardinality(ChannelReaders(c)) + 1
  BY <1>1, <1>6, FS_AddElement DEF ChannelLockInv
<1>9. ChannelLockInv(c)'
  BY <1>1, <1>2, <1>6, <1>7, <1>8 DEF ChannelLockInv
<1> QED
  BY <1>1, <1>2, <1>9

\* A writer that gets its turn waits alone.
LEMMA AwaitChannelReadersStep ==
  ASSUME ExecutorInv, NEW h \in Handlers, Handle(h), AwaitChannelReaders(h)
  PROVE  (\A c \in Channels : ChannelLockInv(c)') /\ fatal' = fatal
<1> DEFINE c == Call[h].channel
<1>1. /\ \A g \in Handlers \ {h} : stage'[g] = stage[g]
      /\ \A d \in Channels \ {c} : ChannelLockInv(d)'
      /\ c \in Channels /\ ChannelLockInv(c)
  BY OtherChannels DEF Locking, TakeLock
<1>2. /\ stage[h] = "lock" /\ wlock[c] = Nobody /\ stage'[h] = "wait"
      /\ wlock'[c] = h /\ rlocks' = rlocks /\ fatal' = fatal
  BY <1>1
  DEF AwaitChannelReaders, Goto, ExecutorInv, ExecutorTypeOK
<1>3. \A g \in Handlers : HasLock(g)' <=> HasLock(g)
  BY <1>1, <1>2 DEF HasLock
<1>4. /\ ChannelReaders(c)' = ChannelReaders(c)
      /\ ChannelWriters(c)' = ChannelWriters(c)
      /\ Waiting(c)' = Waiting(c) \cup {h}
  BY <1>1, <1>2, <1>3 DEF ChannelReaders, ChannelWriters, Waiting, LockType
<1>5. ChannelWriters(c) = {} /\ Waiting(c) = {}
  BY <1>1, <1>2, TicketAssumption DEF ChannelLockInv, ChannelWriters, Waiting
<1>6. ChannelLockInv(c)'
  BY <1>1, <1>2, <1>4, <1>5 DEF ChannelLockInv
<1> QED
  BY <1>1, <1>2, <1>6

\* The writer that waited has the lock.
LEMMA LockChannelStep ==
  ASSUME ExecutorInv, NEW h \in Handlers, Handle(h), LockChannel(h)
  PROVE  (\A c \in Channels : ChannelLockInv(c)') /\ fatal' = fatal
<1> DEFINE c == Call[h].channel
<1>1. /\ \A g \in Handlers \ {h} : stage'[g] = stage[g]
      /\ \A d \in Channels \ {c} : ChannelLockInv(d)'
      /\ c \in Channels /\ ChannelLockInv(c)
  BY OtherChannels DEF Locking, TakeLock
<1>2. /\ stage[h] = "wait" /\ rlocks[c] = 0 /\ stage'[h] \in {"users", "act"}
      /\ UNCHANGED lockerVars /\ fatal' = fatal
  BY DEF LockChannel, locked, Goto, ExecutorInv, ExecutorTypeOK
<1>3. LockType(h) = "write" /\ Call[h].type \notin usersOnly
  BY <1>2, CallAssumption
  DEF ExecutorInv, StagesOf, LockType, usersOnly, CallTypes, asksUsers
<1>4. HasLock(h)' /\ wlock[c] = h
  BY <1>1, <1>2, <1>3 DEF HasLock, ChannelLockInv, Waiting
<1>5. \A g \in Handlers \ {h} : HasLock(g)' <=> HasLock(g)
  BY <1>1 DEF HasLock
<1>6. ~HasLock(h)
  BY <1>2 DEF HasLock
<1>7. /\ ChannelReaders(c)' = ChannelReaders(c)
      /\ ChannelWriters(c)' = ChannelWriters(c) \cup {h}
      /\ Waiting(c)' \subseteq Waiting(c)
  BY <1>1, <1>2, <1>3, <1>4, <1>5, <1>6
  DEF ChannelReaders, ChannelWriters, Waiting, LockType
<1>8. ChannelLockInv(c)'
  BY <1>1, <1>2, <1>4, <1>7 DEF ChannelLockInv, lockerVars
<1> QED
  BY <1>1, <1>2, <1>8

\* What is unlocked is held: the step is not fatal.
LEMMA UnlockChannelStep ==
  ASSUME ExecutorInv, NEW h \in Handlers, Handle(h), UnlockChannel(h)
  PROVE  (\A c \in Channels : ChannelLockInv(c)') /\ fatal' = FALSE
<1> DEFINE c == Call[h].channel
<1>1. /\ \A g \in Handlers \ {h} : stage'[g] = stage[g]
      /\ \A d \in Channels \ {c} : ChannelLockInv(d)'
      /\ c \in Channels /\ ChannelLockInv(c)
  BY OtherChannels DEF Locking
<1>2. stage[h] = "unlock" /\ stage'[h] = "done"
  BY DEF UnlockChannel, Goto, ExecutorInv, ExecutorTypeOK
<1>3. Call[h].type \notin usersOnly
  BY <1>2 DEF ExecutorInv, StagesOf, usersOnly, asksUsers
<1>4. HasLock(h) /\ ~HasLock(h)'
  BY <1>2, <1>3 DEF HasLock
<1>5. \A g \in Handlers \ {h} : HasLock(g)' <=> HasLock(g)
  BY <1>1 DEF HasLock
<1>6. Waiting(c)' = Waiting(c)
  BY <1>1, <1>2 DEF Waiting
<1>7. CASE LockType(h) = "read"
  <2>1. /\ ChannelReaders(c)' = ChannelReaders(c) \ {h}
        /\ h \in ChannelReaders(c)
        /\ ChannelWriters(c)' = ChannelWriters(c)
    BY <1>1, <1>4, <1>5, <1>7 DEF ChannelReaders, ChannelWriters, LockType
  <2>2. /\ IsFiniteSet(ChannelReaders(c)')
        /\ Cardinality(ChannelReaders(c)') = Cardinality(ChannelReaders(c)) - 1
        /\ Cardinality(ChannelReaders(c)) # 0
    BY <1>1, <2>1, FS_RemoveElement, FS_EmptySet, FS_CardinalityType
    DEF ChannelLockInv
  <2>3. /\ fatal' = FALSE /\ rlocks'[c] = rlocks[c] - 1 /\ wlock' = wlock
    <3>1. rlocks \in [Channels -> Nat] /\ rlocks[c] # 0
      BY <1>1, <2>2 DEF ChannelLockInv, ExecutorInv, ExecutorTypeOK
    <3>2. /\ fatal' = (rlocks[c] = 0) /\ wlock' = wlock
          /\ rlocks' = [rlocks EXCEPT ![c] = IF @ = 0 THEN 0 ELSE @ - 1]
      BY <1>7 DEF UnlockChannel
    <3> QED
      BY <1>1, <3>1, <3>2
  <2>4. ChannelWriters(c) = {}
    BY <1>1, <2>2 DEF ChannelLockInv
  <2>5. ChannelLockInv(c)'
    BY <1>1, <1>6, <2>1, <2>2, <2>3, <2>4 DEF ChannelLockInv
  <2> QED
    BY <1>1, <2>3, <2>5
<1>8. CASE LockType(h) # "read"
  <2>1. LockType(h) = "write"
    BY <1>8 DEF LockType
  <2>2. /\ ChannelReaders(c)' = ChannelReaders(c)
        /\ ChannelWriters(c)' = ChannelWriters(c) \ {h}
        /\ h \in ChannelWriters(c)
    BY <1>1, <1>4, <1>5, <2>1 DEF ChannelReaders, ChannelWriters, LockType
  <2>3. wlock[c] = h
    BY <1>1, <2>2 DEF ChannelLockInv
  <2>4. fatal' = FALSE /\ wlock'[c] = Nobody /\ rlocks' = rlocks
    BY <1>1, <2>1, <2>3, TicketAssumption
    DEF UnlockChannel, ExecutorInv, ExecutorTypeOK
  <2>5. ChannelWriters(c)' = {} /\ Waiting(c)' = {}
    <3>1. h \notin Waiting(c)
      BY <1>2 DEF Waiting
    <3> QED
      BY <1>1, <1>6, <2>2, <2>3, <3>1 DEF ChannelLockInv
  <2>6. ChannelLockInv(c)'
    BY <1>1, <2>2, <2>4, <2>5 DEF ChannelLockInv
  <2> QED
    BY <1>1, <2>4, <2>6
<1> QED
  BY <1>7, <1>8

\* No step of a handler is fatal: each lock it gives back it has.
LEMMA HandleLocks ==
  ASSUME ExecutorInv, NEW h \in Handlers, Handle(h)
  PROVE  (\A c \in Channels : ChannelLockInv(c)') /\ fatal' = fatal
<1>1. CASE ~Locking(h)
  <2>1. UNCHANGED lockerVars /\ QuietStages /\ fatal' = fatal
    BY <1>1, CallsAreQuiet
  <2> QED
    BY <2>1, ChannelFrame DEF ExecutorInv, lockerVars, QuietStages
<1>2. CASE UnlockChannel(h)
  <2>1. fatal = FALSE
    BY DEF ExecutorInv, NoFatalUnlock, UsersInv, TypeOK
  <2> QED
    BY <1>2, <2>1, UnlockChannelStep
<1>3. CASE TakeLock(h)
  BY <1>3, RLockChannelStep, AwaitChannelReadersStep, LockChannelStep
  DEF TakeLock
<1> QED
  BY <1>1, <1>2, <1>3 DEF Locking
-----------------------------------------------------------------------------
(***************************************************************************)
(* The way of one handler.                                                 *)
(***************************************************************************)
\* Each kind of request has its stages.
LEMMA HandleStages ==
  ASSUME ExecutorInv, NEW h \in Handlers, Handle(h)
  PROVE  /\ stage' \in [Handlers -> Stages]
         /\ \A g \in Handlers : stage'[g] \in StagesOf(g)
<1> stage \in [Handlers -> Stages] /\ Call[h].type \in CallTypes
  BY CallAssumption DEF ExecutorInv, ExecutorTypeOK
<1> \A g \in Handlers : stage[g] \in StagesOf(g)
  BY DEF ExecutorInv
<1> DEFINE Goal == stage' = [stage EXCEPT ![h] = stage'[h]]
                     /\ stage'[h] \in StagesOf(h) \cap Stages
<1> USE DEF Report, Goto
<1>1. CASE FedAnswered(h)
  <2>1. fed[h] # Nobody
    BY <1>1 DEF FedAnswered, ExecutorInv, FeedInv
  <2>2. stage[h] = "verifying" /\ stage[Refed[fed[h]]] = "unsent"
    BY <1>1, <2>1, FedMessage DEF FedAnswered
  <2>3. stage' \in [Handlers -> Stages]
    BY <1>1, <2>2 DEF FedAnswered, Stages
  <2>4. stage'[h] = "feeding"
    BY <1>1, <2>2 DEF FedAnswered
  <2>5. stage'[h] \in StagesOf(h)
    <3>1. stage[h] \in StagesOf(h)
      OBVIOUS
    <3> QED
      BY <2>2, <2>4, <3>1 DEF StagesOf, CallTypes, usersOnly, asksUsers
  <2>6. \A g \in Handlers \ {h} : stage'[g] \in StagesOf(g)
    BY HandleFrame DEF Woken, StagesOf
  <2> QED
    BY <2>3, <2>5, <2>6
<1>2. ASSUME Goal
      PROVE  /\ stage' \in [Handlers -> Stages]
             /\ \A g \in Handlers : stage'[g] \in StagesOf(g)
  BY <1>2
<1> SUFFICES ASSUME ~FedAnswered(h) PROVE Goal
  BY <1>1, <1>2
<1>3. CASE Start(h)
  BY <1>3, CallAssumption
  DEF Start, StagesOf, Stages, needsSigners, usersOnly, asksUsers, CallTypes
<1>4. CASE TakeLock(h)
  BY <1>4
  DEF TakeLock, RLockChannel, AwaitChannelReaders, LockChannel, locked,
      StagesOf, Stages, asksUsers, CallTypes, usersOnly, LockType
<1>5. CASE Ask(h)
  BY <1>5
  DEF Ask, AskUsers, UsersRequestAnswered, UsersRead, unlocking, deferred,
      StagesOf, Stages, asksUsers, CallTypes, usersOnly
<1>6. CASE Act(h)
  <2>1. CASE AddKey(h) \/ MakeRequest(h) \/ Encrypt(h)
    BY <2>1
    DEF AddKey, MakeRequest, Encrypt, deferred, StagesOf, Stages,
        asksUsers, CallTypes, usersOnly
  <2>2. CASE ReadChannel(h) \/ SubscribeChannel(h) \/ ReadToEncrypt(h)
    BY <2>2
    DEF ReadChannel, SubscribeChannel, ReadToEncrypt, acts, deferred,
        StagesOf, Stages, asksUsers
  <2>3. CASE AddChannel(h) \/ CloseChannel(h)
    BY <2>3 DEF AddChannel, CloseChannel, acts, deferred, StagesOf, Stages, asksUsers
  <2>4. CASE AddMessage(h) \/ BufferOperation(h)
    BY <2>4
    DEF AddMessage, BufferOperation, acts, deferred, StagesOf, Stages, asksUsers
  <2> QED
    BY <1>6, <2>1, <2>2, <2>3, <2>4 DEF Act
<1>7. CASE FeedBuffer(h)
  BY <1>7
  DEF FeedBuffer, Feed, VerifyFed, BufferError, FinishFeeding, deferred,
      StagesOf, Stages, asksUsers, CallTypes, usersOnly
<1>8. CASE GiveBack(h)
  BY <1>8
  DEF GiveBack, ReleaseUsers, UsersReleased, UnlockChannel, unlocking,
      StagesOf, Stages, asksUsers, CallTypes, usersOnly
<1> QED
  BY <1>3, <1>4, <1>5, <1>6, <1>7, <1>8 DEF Handle

\* The one final status is reported when the handler turns to its deferred
\* calls, or returns.
LEMMA HandleOutcome ==
  ASSUME ExecutorInv, NEW h \in Handlers, Handle(h)
  PROVE  /\ outcome' \in [Handlers -> Seq({"success", "failed", "rejected"})]
         /\ \A g \in Handlers : OutcomeInv(g)'
<1> DEFINE Statuses == {"success", "failed", "rejected"}
<1> /\ stage \in [Handlers -> Stages] /\ Call[h].type \in CallTypes
    /\ outcome \in [Handlers -> Seq(Statuses)]
  BY CallAssumption DEF ExecutorInv, ExecutorTypeOK
<1> /\ stage[h] \in StagesOf(h) /\ FeedInv(h) /\ OutcomeInv(h)
  BY DEF ExecutorInv
<1>1. ASSUME NEW g \in Handlers \ {h} PROVE OutcomeInv(g)'
  <2>1. /\ outcome'[g] = outcome[g] /\ fed'[g] = fed[g]
        /\ stage'[g] = stage[g] \/ Woken(g)
    BY HandleFrame
  <2>2. OutcomeInv(g)
    BY DEF ExecutorInv
  <2> QED
    BY <2>1, <2>2 DEF OutcomeInv, Reported, Woken
<1> DEFINE Stay == outcome' = outcome /\ (Reported(h)' <=> Reported(h))
           End  == \E s \in Statuses :
                      /\ outcome' = [outcome EXCEPT ![h] = Append(@, s)]
                      /\ ~Reported(h) /\ Reported(h)'
<1>2. ASSUME Stay
      PROVE  outcome' \in [Handlers -> Seq(Statuses)] /\ OutcomeInv(h)'
  BY <1>2 DEF OutcomeInv
<1>3. ASSUME End
      PROVE  outcome' \in [Handlers -> Seq(Statuses)] /\ OutcomeInv(h)'
  <2>1. PICK s \in Statuses : outcome' = [outcome EXCEPT ![h] = Append(@, s)]
    BY <1>3
  <2>2. outcome[h] \in Seq(Statuses) /\ Len(outcome[h]) = 0
    BY <1>3 DEF OutcomeInv
  <2>3. Append(outcome[h], s) \in Seq(Statuses) /\ Len(Append(outcome[h], s)) = 1
    BY <2>2
  <2> QED
    BY <1>3, <2>1, <2>3 DEF OutcomeInv
<1> SUFFICES Stay \/ End
  BY <1>1, <1>2, <1>3
<1> USE DEF Report, Goto, Reported
<1>4. CASE Start(h)
  BY <1>4 DEF Start
<1>5. CASE TakeLock(h)
  BY <1>5
  DEF TakeLock, RLockChannel, AwaitChannelReaders, LockChannel, locked
<1>6. CASE Ask(h)
  BY <1>6
  DEF Ask, AskUsers, UsersRequestAnswered, UsersRead, unlocking, deferred
<1>7. CASE Act(h)
  <2>1. CASE AddKey(h) \/ MakeRequest(h) \/ Encrypt(h)
    BY <2>1 DEF AddKey, MakeRequest, Encrypt, deferred
  <2>2. CASE ReadChannel(h) \/ SubscribeChannel(h) \/ ReadToEncrypt(h)
    BY <2>2 DEF ReadChannel, SubscribeChannel, ReadToEncrypt, acts, deferred
  <2>3. CASE AddChannel(h) \/ CloseChannel(h)
    BY <2>3 DEF AddChannel, CloseChannel, acts, deferred
  <2>4. CASE AddMessage(h) \/ BufferOperation(h)
    BY <2>4 DEF AddMessage, BufferOperation, acts, deferred
  <2> QED
    BY <1>7, <2>1, <2>2, <2>3, <2>4 DEF Act
<1>8. CASE FeedBuffer(h)
  <2>1. CASE Feed(h) \/ VerifyFed(h)
    <3>1. fed \in [Handlers -> Handlers \cup {Nobody}] /\ unfed[h] \subseteq Handlers
      BY DEF ExecutorInv, ExecutorTypeOK
    <3> QED
      BY <2>1, <3>1, TicketAssumption DEF Feed, VerifyFed, FeedInv, feedVars
  <2>2. CASE FedAnswered(h)
    BY <2>2 DEF FedAnswered
  <2>3. CASE BufferError(h) \/ FinishFeeding(h)
    BY <2>3 DEF BufferError, FinishFeeding, deferred
  <2> QED
    BY <1>8, <2>1, <2>2, <2>3 DEF FeedBuffer
<1>9. CASE GiveBack(h)
  BY <1>9
  DEF GiveBack, ReleaseUsers, UsersReleased, UnlockChannel, unlocking, FeedInv,
      feedVars
<1> QED
  BY <1>4, <1>5, <1>6, <1>7, <1>8, <1>9 DEF Handle
-----------------------------------------------------------------------------
(***************************************************************************)
(* The records of the channels.                                            *)
(***************************************************************************)
\* What the operations make of a record.
LEMMA Operations ==
  ASSUME NEW rec, IsRecord(rec)
  PROVE  /\ \A opening : /\ IsRecord(tryOpen(rec, opening))
                         /\ tryOpen(rec, opening).state = "open"
         /\ \A action : /\ IsRecord(tryClose(rec, action))
                        /\ tryClose(rec, action).state =
                              IF rec.state = "buffered" THEN "buffered" ELSE "closed"
         /\ \A message : /\ IsRecord(addMessage(rec, message))
                         /\ addMessage(rec, message).state = rec.state
         /\ \A next \in applyCloseAttempts(rec) :
               /\ IsRecord(next)
               /\ next.state = "buffered" => rec.state = "buffered"
<1>1. rec.state \in States
      /\ rec = [state |-> rec.state, opened |-> rec.opened,
                permissions |-> rec.permissions, closure |-> rec.closure,
                attempts |-> rec.attempts, messages |-> rec.messages]
  BY DEF IsRecord
<1>2. ASSUME NEW opening
      PROVE  /\ IsRecord(tryOpen(rec, opening))
             /\ tryOpen(rec, opening).state = "open"
  <2>1. ASSUME NEW at, NEW granted, NEW next,
               next = [rec EXCEPT !.state = "open", !.opened = at,
                                  !.permissions = granted]
        PROVE  IsRecord(next) /\ next.state = "open"
    BY <1>1, <2>1 DEF IsRecord, States
  <2> QED
    BY <2>1 DEF tryOpen
<1>3. ASSUME NEW action
      PROVE  /\ IsRecord(tryClose(rec, action))
             /\ tryClose(rec, action).state =
                   IF rec.state = "buffered" THEN "buffered" ELSE "closed"
  BY <1>1 DEF tryClose, IsRecord, States
<1>4. ASSUME NEW message
      PROVE  /\ IsRecord(addMessage(rec, message))
             /\ addMessage(rec, message).state = rec.state
  BY <1>1 DEF addMessage, IsRecord
<1>5. ASSUME NEW next \in applyCloseAttempts(rec)
      PROVE  IsRecord(next) /\ (next.state = "buffered" => rec.state = "buffered")
  <2>1. CASE FirstAttempts(rec) = {}
    BY <1>1, <1>5, <2>1 DEF applyCloseAttempts, IsRecord
  <2>2. CASE FirstAttempts(rec) # {}
    BY <1>3, <1>5, <2>2 DEF applyCloseAttempts
  <2> QED
    BY <2>1, <2>2
<1> QED
  BY <1>2, <1>3, <1>4, <1>5

\* A channel without a record has the empty one.
LEMMA KnownRecord ==
  ASSUME ExecutorInv, NEW c \in Channels
  PROVE  IsRecord(RecordOf(c))
<1>1. IsRecord(emptyChannelRecord)
  BY DEF IsRecord, emptyChannelRecord, States
<1> QED
  BY <1>1 DEF ExecutorInv, RecordOf

\* The keys are only ever added to.  A channel stays open, and it is opened
\* with a key that is there.
RecordsKept(c) ==
    /\ KnownChannels \subseteq KnownChannels'
    /\ KnownChannels' \subseteq KnownChannels \cup {c}
    /\ \A d \in KnownChannels' : IsRecord(chans'[d])
    /\ \A d \in Channels \ {c} : RecordOf(d)' = RecordOf(d) /\ keyOf'[d] = keyOf[d]
    /\ RecordOf(c)'.state = "buffered" => RecordOf(c).state = "buffered"
    /\ keyOf' \in [Channels -> {Call[h].keyId : h \in Handlers} \cup {Nobody}]

\* Storing a record that is not less open than the one before.
LEMMA SetRecordKeeps ==
  ASSUME ExecutorInv, NEW c \in Channels, NEW rec, SetRecord(c, rec),
         IsRecord(rec), rec.state = "buffered" => RecordOf(c).state = "buffered",
         keyOf' \in [Channels -> {Call[h].keyId : h \in Handlers} \cup {Nobody}],
         \A d \in Channels \ {c} : keyOf'[d] = keyOf[d]
  PROVE  RecordsKept(c) /\ c \in KnownChannels' /\ RecordOf(c)' = rec
<1>1. KnownChannels' = KnownChannels \cup {c}
      /\ \A d \in KnownChannels' :
            chans'[d] = IF d = c THEN rec ELSE chans[d]
  BY DEF SetRecord, KnownChannels
<1>2. RecordOf(c)' = rec /\ \A d \in Channels \ {c} : RecordOf(d)' = RecordOf(d)
  BY <1>1 DEF RecordOf
<1>3. \A d \in KnownChannels' : IsRecord(chans'[d])
  BY <1>1 DEF ExecutorInv
<1> QED
  BY <1>1, <1>2, <1>3 DEF RecordsKept

\* Whatever a handler does to its channel.
LEMMA HandleRecords ==
  ASSUME ExecutorInv, NEW h \in Handlers, Handle(h)
  PROVE  /\ RecordsKept(Call[h].channel)
         /\ keys \subseteq keys'
         /\ keys' \subseteq {Call[g].keyId : g \in Handlers}
         /\ OpenChannelHasKey'
<1> DEFINE c == Call[h].channel
           Goal == /\ RecordsKept(c) /\ keys \subseteq keys'
                   /\ keys' \subseteq {Call[g].keyId : g \in Handlers}
                   /\ RecordOf(c)'.state # "buffered" => keyOf'[c] \in keys'
<1> DEFINE Ids1 == {Call[g].keyId : g \in Handlers}
<1> /\ c \in Channels /\ keys \subseteq Ids1 /\ KnownChannels \subseteq Channels
    /\ keyOf \in [Channels -> Ids1 \cup {Nobody}] /\ Call[h].keyId \in Ids1
  BY CallAssumption DEF ExecutorInv, ExecutorTypeOK
<1> IsRecord(RecordOf(c))
  BY KnownRecord
<1>1. RecordOf(c).state # "buffered" => keyOf[c] \in keys
  BY DEF ExecutorInv, OpenChannelHasKey, RecordOf, emptyChannelRecord
<1>2. ASSUME UNCHANGED channelVars, keys \subseteq keys', keys' \subseteq Ids1
      PROVE  Goal
  BY <1>1, <1>2 DEF channelVars, RecordsKept, RecordOf, KnownChannels, ExecutorInv
<1>3. ASSUME UNCHANGED <<keys, keyOf>>, NEW rec, SetRecord(c, rec), IsRecord(rec),
             rec.state = "buffered" <=> RecordOf(c).state = "buffered"
      PROVE  Goal
  BY <1>1, <1>3, SetRecordKeeps
<1>4. ASSUME Goal PROVE OpenChannelHasKey'
  <2> SUFFICES ASSUME NEW d \in KnownChannels', chans'[d].state # "buffered"
               PROVE  keyOf'[d] \in keys'
    BY DEF OpenChannelHasKey
  <2>1. RecordOf(d)' = chans'[d] /\ d \in Channels
    BY <1>4 DEF RecordOf, RecordsKept
  <2>2. CASE d = c
    BY <1>4, <2>1, <2>2
  <2>3. CASE d # c
    BY <1>4, <2>1, <2>3
    DEF RecordsKept, RecordOf, OpenChannelHasKey, ExecutorInv, emptyChannelRecord
  <2> QED
    BY <2>2, <2>3
<1> SUFFICES Goal
  BY <1>4
<1> HIDE DEF Goal
<1>5. CASE Start(h) \/ TakeLock(h) \/ Ask(h) \/ GiveBack(h)
  <2>1. UNCHANGED <<channelVars, keys>>
    BY <1>5
    DEF Start, TakeLock, RLockChannel, AwaitChannelReaders, LockChannel, locked,
        Ask, AskUsers, UsersRequestAnswered, UsersRead, GiveBack, ReleaseUsers,
        UsersReleased, UnlockChannel
  <2> QED
    BY <1>2, <2>1
<1>6. CASE AddKey(h)
  <2>1. UNCHANGED channelVars /\ (keys' = keys \/ keys' = keys \cup {Call[h].keyId})
    BY <1>6 DEF AddKey
  <2> QED
    BY <1>2, <2>1
<1>7. CASE MakeRequest(h) \/ Encrypt(h) \/ ReadChannel(h) \/ ReadToEncrypt(h)
  <2>1. UNCHANGED <<channelVars, keys>>
    BY <1>7 DEF MakeRequest, Encrypt, ReadChannel, ReadToEncrypt, acts
  <2> QED
    BY <1>2, <2>1
<1>8. CASE AddChannel(h)
  <2>1. CASE canOpen(RecordOf(c), Call[h].opening)
    <3> DEFINE rec == tryOpen(RecordOf(c), Call[h].opening)
    <3>1. /\ SetRecord(c, rec) /\ keyOf' = [keyOf EXCEPT ![c] = Call[h].keyId]
          /\ keys' = keys /\ stage[h] = "called" /\ Call[h].type = "AddChannel"
      BY <1>8, <2>1 DEF AddChannel, acts
    <3>2. IsRecord(rec) /\ rec.state = "open"
      BY Operations
    <3>3. Call[h].keyId \in keys
      BY <3>1 DEF ExecutorInv, KeyInv
    <3> HIDE DEF rec
    <3>4. RecordsKept(c) /\ RecordOf(c)' = rec
      BY <3>1, <3>2, SetRecordKeeps
    <3> QED
      BY <3>1, <3>2, <3>3, <3>4 DEF Goal
  <2>2. CASE ~canOpen(RecordOf(c), Call[h].opening)
    <3>1. SetRecord(c, RecordOf(c)) /\ UNCHANGED <<keys, keyOf>>
      BY <1>8, <2>2 DEF AddChannel, acts
    <3> QED
      BY <1>3, <3>1
  <2> QED
    BY <2>1, <2>2
<1>9. CASE CloseChannel(h)
  <2> DEFINE closed == tryClose(RecordOf(c), Call[h].closure)
  <2>1. UNCHANGED <<keys, keyOf>>
        /\ (SetRecord(c, closed) \/ SetRecord(c, RecordOf(c)))
    BY <1>9 DEF CloseChannel, acts
  <2>2. IsRecord(closed)
        /\ (closed.state = "buffered" <=> RecordOf(c).state = "buffered")
    BY Operations
  <2> QED
    BY <1>3, <2>1, <2>2
<1>10. CASE AddMessage(h)
  <2> DEFINE added == addMessage(RecordOf(c), Call[h].message)
  <2>1. UNCHANGED <<keys, keyOf>>
        /\ \/ UNCHANGED channelVars
           \/ SetRecord(c, added) \/ SetRecord(c, RecordOf(c))
    BY <1>10 DEF AddMessage, acts, channelVars
  <2>2. IsRecord(added)
        /\ (added.state = "buffered" <=> RecordOf(c).state = "buffered")
    BY Operations
  <2> QED
    BY <1>2, <1>3, <2>1, <2>2
<1>11. CASE BufferOperation(h) \/ SubscribeChannel(h)
  <2>1. SetRecord(c, RecordOf(c)) /\ UNCHANGED <<keys, keyOf>>
    BY <1>11 DEF BufferOperation, SubscribeChannel, acts
  <2> QED
    BY <1>3, <2>1
<1>12. CASE Feed(h) \/ VerifyFed(h) \/ FedAnswered(h) \/ BufferError(h)
  <2>1. UNCHANGED <<channelVars, keys>>
    BY <1>12 DEF Feed, VerifyFed, FedAnswered, BufferError
  <2> QED
    BY <1>2, <2>1
<1>13. CASE FinishFeeding(h)
  <2>1. CASE Call[h].type = "AddChannel"
    <3>1. /\ stage[h] = "feeding" /\ UNCHANGED <<keys, keyOf>>
          /\ \E rec \in applyCloseAttempts(chans[c]) : SetRecord(c, rec)
      BY <1>13, <2>1 DEF FinishFeeding
    <3>2. c \in KnownChannels /\ chans[c].state # "buffered"
      BY <2>1, <3>1 DEF ExecutorInv, KeyInv
    <3>3. chans[c] = RecordOf(c)
      BY <3>2 DEF RecordOf
    <3>4. PICK rec \in applyCloseAttempts(RecordOf(c)) : SetRecord(c, rec)
      BY <3>1, <3>3
    <3>5. IsRecord(rec) /\ rec.state # "buffered"
      BY <3>2, <3>3, <3>4, Operations
    <3> QED
      BY <1>3, <3>1, <3>2, <3>3, <3>4, <3>5
  <2>2. CASE Call[h].type # "AddChannel"
    <3>1. UNCHANGED <<channelVars, keys>>
      BY <1>13, <2>2 DEF FinishFeeding, channelVars
    <3> QED
      BY <1>2, <3>1
  <2> QED
    BY <2>1, <2>2
<1> QED
  BY <1>5, <1>6, <1>7, <1>8, <1>9, <1>10, <1>11, <1>12, <1>13
  DEF Handle, Act, FeedBuffer
-----------------------------------------------------------------------------
(***************************************************************************)
(* Where the messages are that could not be verified.                      *)
(***************************************************************************)
Opens(h) ==
    /\ stage[h] = "called" /\ Call[h].type = "AddChannel"
    /\ RecordOf(Call[h].channel).state = "buffered"
    /\ RecordOf(Call[h].channel)'.state # "buffered"
    /\ Pending(h)' = buffers[Call[h].channel]

TakesItself(h) ==
    /\ stage[h] = "called" /\ h \in Unverified
    /\ stage'[h] = "feeding" /\ Pending(h)' = {h}

BuffersItself(h) ==
    /\ stage[h] = "called" /\ h \in Unverified /\ stage'[h] = "unlock"
    /\ buffers' = [buffers EXCEPT ![Call[h].channel] = @ \cup {h}]

\* How a step of a handler moves them.
MessagesMove(h) ==
    /\ unfed' \in [Handlers -> SUBSET Handlers]
    /\ fed' \in [Handlers -> Handlers \cup {Nobody}]
    /\ FeedInv(h)'
    /\ \/ Pending(h)' \subseteq Pending(h)
       \/ Opens(h) /\ ~FedAnswered(h)
       \/ TakesItself(h) /\ ~FedAnswered(h)
    /\ FedAnswered(h) => fed[h] \notin Pending(h)'
    /\ \/ buffers' = buffers
       \/ buffers' = [buffers EXCEPT ![Call[h].channel] = {}]
       \/ BuffersItself(h) /\ Pending(h)' = Pending(h)

\* Each step moves a message by one place at most.
LEMMA HandleMessages ==
  ASSUME ExecutorInv, NEW h \in Handlers, Handle(h)
  PROVE  MessagesMove(h)
<1> /\ unfed \in [Handlers -> SUBSET Handlers]
    /\ fed \in [Handlers -> Handlers \cup {Nobody}]
    /\ buffers \in [Channels -> SUBSET Handlers]
    /\ stage \in [Handlers -> Stages]
  BY DEF ExecutorInv, ExecutorTypeOK
<1> FeedInv(h) /\ stage[h] \in StagesOf(h) /\ Call[h].channel \in Channels
  BY CallAssumption DEF ExecutorInv
<1> USE TicketAssumption DEF Report, Goto
<1>1. ASSUME UNCHANGED <<feedVars, buffers>>, ~FedAnswered(h),
             stage'[h] \notin {"feeding", "handed", "verifying", "blocked"} =>
                unfed[h] = {} /\ fed[h] = Nobody,
             stage'[h] \in {"handed", "verifying"} => fed[h] # Nobody,
             fed[h] # Nobody => stage'[h] # "feeding"
      PROVE  MessagesMove(h)
  BY <1>1 DEF MessagesMove, FeedInv, Pending, feedVars
<1>2. CASE Start(h) \/ TakeLock(h) \/ Ask(h) \/ GiveBack(h)
  <2>1. stage[h] \in {"queued", "lock", "wait", "users", "asking", "release",
                      "releasing", "unlock"}
    BY <1>2
    DEF Start, TakeLock, RLockChannel, AwaitChannelReaders, LockChannel, Ask,
        AskUsers, UsersRequestAnswered, UsersRead, GiveBack, ReleaseUsers,
        UsersReleased, UnlockChannel
  <2>2. unfed[h] = {} /\ fed[h] = Nobody
    BY <2>1 DEF FeedInv
  <2>3. UNCHANGED <<feedVars, buffers>>
    BY <1>2
    DEF Start, TakeLock, RLockChannel, AwaitChannelReaders, LockChannel, locked,
        Ask, AskUsers, UsersRequestAnswered, UsersRead, GiveBack, ReleaseUsers,
        UsersReleased, UnlockChannel, channelVars
  <2>4. stage'[h] \in {"done", "users", "lock", "act", "wait", "asking", "key",
                       "encrypt", "release", "unlock", "releasing", "blocked"}
    BY <1>2
    DEF Start, TakeLock, RLockChannel, AwaitChannelReaders, LockChannel, locked,
        Ask, AskUsers, UsersRequestAnswered, UsersRead, GiveBack, ReleaseUsers,
        UsersReleased, UnlockChannel, deferred, unlocking
  <2>5. ~FedAnswered(h)
    BY <2>1 DEF FedAnswered
  <2> QED
    BY <1>1, <2>2, <2>3, <2>4, <2>5
<1>3. CASE AddKey(h) \/ MakeRequest(h) \/ Encrypt(h) \/ ReadChannel(h)
             \/ ReadToEncrypt(h) \/ CloseChannel(h) \/ AddMessage(h)
             \/ SubscribeChannel(h)
  <2>1. stage[h] \in {"key", "act", "called", "encrypt"}
    BY <1>3
    DEF AddKey, MakeRequest, Encrypt, ReadChannel, ReadToEncrypt,
        CloseChannel, AddMessage, SubscribeChannel, acts
  <2>2. unfed[h] = {} /\ fed[h] = Nobody
    BY <2>1 DEF FeedInv
  <2>3. UNCHANGED <<feedVars, buffers>>
    BY <1>3
    DEF AddKey, MakeRequest, Encrypt, ReadChannel, ReadToEncrypt,
        CloseChannel, AddMessage, SubscribeChannel, acts, channelVars, feedVars
  <2>4. stage'[h] \in {"act", "called", "encrypt", "release", "unlock"}
    BY <1>3
    DEF AddKey, MakeRequest, Encrypt, ReadChannel, ReadToEncrypt,
        CloseChannel, AddMessage, SubscribeChannel, acts, deferred
  <2>5. ~FedAnswered(h)
    BY <2>1 DEF FedAnswered
  <2> QED
    BY <1>1, <2>2, <2>3, <2>4, <2>5
<1>4. CASE AddChannel(h)
  <2>1. /\ stage[h] = "called" /\ Call[h].type = "AddChannel" /\ fed' = fed
        /\ buffers' = buffers /\ ~FedAnswered(h)
    BY <1>4 DEF AddChannel, acts, FedAnswered
  <2>2. unfed[h] = {} /\ fed[h] = Nobody
    BY <2>1 DEF FeedInv
  <2>3. CASE canOpen(RecordOf(Call[h].channel), Call[h].opening)
    <3>1. /\ stage'[h] = "feeding"
          /\ unfed' = [unfed EXCEPT ![h] = buffers[Call[h].channel]]
      BY <1>4, <2>3 DEF AddChannel
    <3>2. RecordOf(Call[h].channel)' =
             tryOpen(RecordOf(Call[h].channel), Call[h].opening)
      BY <1>4, <2>3 DEF AddChannel, SetRecord, RecordOf, KnownChannels
    <3>3. RecordOf(Call[h].channel)'.state = "open"
      BY <3>2, KnownRecord, Operations
    <3>4. Opens(h)
      BY <2>1, <2>2, <2>3, <3>1, <3>3 DEF Opens, Pending, canOpen
    <3>5. FeedInv(h)'
      BY <2>1, <2>2, <3>1 DEF FeedInv
    <3> QED
      BY <2>1, <3>1, <3>4, <3>5 DEF MessagesMove
  <2>4. CASE ~canOpen(RecordOf(Call[h].channel), Call[h].opening)
    <3>1. stage'[h] = "release" /\ unfed' = unfed
      BY <1>4, <2>1, <2>4 DEF AddChannel, deferred, asksUsers
    <3> QED
      BY <1>1, <2>1, <2>2, <3>1 DEF feedVars
  <2> QED
    BY <2>3, <2>4
<1>5. CASE BufferOperation(h)
  <2>1. /\ stage[h] = "called" /\ h \in Unverified /\ fed' = fed /\ ~FedAnswered(h)
        /\ Call[h].type = "AddMessage"
    BY <1>5 DEF BufferOperation, acts, FedAnswered, Unverified
  <2>2. unfed[h] = {} /\ fed[h] = Nobody
    BY <2>1 DEF FeedInv
  <2>3. CASE RecordOf(Call[h].channel).state # "buffered"
    <3>1. /\ stage'[h] = "feeding" /\ buffers' = buffers
          /\ unfed' = [unfed EXCEPT ![h] = {h}]
      BY <1>5, <2>3 DEF BufferOperation
    <3>2. TakesItself(h)
      BY <2>1, <2>2, <3>1 DEF TakesItself, Pending
    <3>3. FeedInv(h)'
      BY <2>1, <2>2, <3>1 DEF FeedInv
    <3> QED
      BY <2>1, <3>1, <3>2, <3>3 DEF MessagesMove
  <2>4. CASE RecordOf(Call[h].channel).state = "buffered"
    <3>1. /\ stage'[h] = "unlock" /\ unfed' = unfed
          /\ buffers' = [buffers EXCEPT ![Call[h].channel] = @ \cup {h}]
      BY <1>5, <2>1, <2>4 DEF BufferOperation, deferred, asksUsers
    <3>2. BuffersItself(h) /\ Pending(h)' = Pending(h)
      BY <2>1, <3>1 DEF BuffersItself, Pending
    <3>3. FeedInv(h)'
      BY <2>1, <2>2, <3>1 DEF FeedInv
    <3> QED
      BY <2>1, <3>1, <3>2, <3>3 DEF MessagesMove
  <2> QED
    BY <2>3, <2>4
<1>6. CASE Feed(h)
  <2>1. stage[h] = "feeding" /\ fed[h] = Nobody /\ ~FedAnswered(h)
        /\ stage'[h] \in {"handed", "blocked"} /\ buffers' = buffers
    BY <1>6 DEF Feed, FeedInv, FedAnswered, channelVars
  <2>2. PICK m \in unfed[h] : /\ unfed' = [unfed EXCEPT ![h] = @ \ {m}]
                              /\ fed' = [fed EXCEPT ![h] = m]
    BY <1>6 DEF Feed
  <2>3. m \in Handlers /\ Pending(h)' \subseteq Pending(h)
    BY <2>1, <2>2 DEF Pending
  <2>4. FeedInv(h)'
    BY <2>1, <2>2, <2>3 DEF FeedInv
  <2> QED
    BY <2>1, <2>2, <2>3, <2>4 DEF MessagesMove
<1>7. CASE VerifyFed(h)
  <2>1. /\ stage[h] = "handed" /\ stage'[h] = "verifying" /\ ~FedAnswered(h)
        /\ UNCHANGED <<feedVars, buffers>>
    BY <1>7 DEF VerifyFed, FedAnswered, channelVars
  <2> QED
    BY <1>1, <2>1 DEF FeedInv
<1>8. CASE FedAnswered(h)
  <2>1. stage[h] = "verifying" /\ fed[h] # Nobody
    BY <1>8 DEF FedAnswered, FeedInv
  <2>2. Refed[fed[h]] # h
    BY <2>1, FedMessage
  <2>3. /\ stage'[h] = "feeding" /\ unfed' = unfed /\ buffers' = buffers
        /\ fed' = [fed EXCEPT ![h] = Nobody]
    BY <1>8, <2>2 DEF FedAnswered, channelVars
  <2>4. Pending(h)' \subseteq Pending(h) /\ fed[h] \notin Pending(h)'
    BY <2>1, <2>3 DEF Pending, FeedInv
  <2>5. FeedInv(h)'
    BY <2>3 DEF FeedInv
  <2> QED
    BY <2>3, <2>4, <2>5 DEF MessagesMove
<1>9. CASE BufferError(h)
  <2>1. /\ stage[h] = "handed" /\ ~FedAnswered(h) /\ buffers' = buffers
        /\ unfed' = [unfed EXCEPT ![h] = {}] /\ fed' = [fed EXCEPT ![h] = Nobody]
        /\ stage'[h] \in {"release", "unlock"}
    BY <1>9 DEF BufferError, FedAnswered, deferred, channelVars
  <2>2. Pending(h)' \subseteq Pending(h)
    BY <2>1 DEF Pending
  <2>3. FeedInv(h)'
    BY <2>1 DEF FeedInv
  <2> QED
    BY <2>1, <2>2, <2>3 DEF MessagesMove
<1>10. CASE FinishFeeding(h)
  <2>1. /\ stage[h] = "feeding" /\ ~FedAnswered(h) /\ unfed[h] = {}
        /\ UNCHANGED <<unfed, fed>> /\ stage'[h] \in {"release", "unlock"}
        /\ \/ buffers' = buffers
           \/ buffers' = [buffers EXCEPT ![Call[h].channel] = {}]
    BY <1>10 DEF FinishFeeding, FedAnswered, deferred, feedVars
  <2>2. FeedInv(h)' /\ Pending(h)' = Pending(h)
    BY <2>1 DEF FeedInv, Pending
  <2> QED
    BY <2>1, <2>2 DEF MessagesMove
<1> QED
  BY <1>2, <1>3, <1>4, <1>5, <1>6, <1>7, <1>8, <1>9, <1>10
  DEF Handle, Act, FeedBuffer

Early == {"queued", "lock", "wait", "act", "called"}

\* No message comes back to its handler, and none is sent twice.
LEMMA MessageSteps ==
  ASSUME ExecutorInv, NEW h \in Handlers, Handle(h), NEW m \in Unverified
  PROVE  /\ stage'[m] \in Early => stage[m] \in Early
         /\ stage[Refed[m]] = "unsent" /\ m \notin Pending(h) =>
               stage'[Refed[m]] = "unsent"
         /\ stage[Refed[m]] = "unsent" /\ m \in Pending(h)' =>
               stage'[Refed[m]] = "unsent"
<1>1. stage[h] # "unsent"
  BY DEF Handle, Start, TakeLock, RLockChannel, AwaitChannelReaders, LockChannel,
     Ask, AskUsers, UsersRequestAnswered, UsersRead, Act, AddKey,
     MakeRequest, ReadChannel, AddChannel, CloseChannel, AddMessage,
     BufferOperation, SubscribeChannel, ReadToEncrypt, Encrypt, acts, FeedBuffer,
     Feed, VerifyFed, FedAnswered, BufferError, FinishFeeding, GiveBack,
     ReleaseUsers, UsersReleased, UnlockChannel
<1>2. m \in Handlers /\ Refed[m] \in Handlers \ Unverified
  BY RefedAssumption DEF Unverified
<1>3. ASSUME stage'[m] \in Early PROVE stage[m] \in Early
  <2>1. CASE m # h
    <3>1. ASSUME FedAnswered(h) PROVE Refed[fed[h]] # m
      <4>1. fed[h] # Nobody
        BY <3>1 DEF FedAnswered, ExecutorInv, FeedInv
      <4> QED
        BY <4>1, FedMessage
    <3> QED
      BY <1>2, <1>3, <2>1, <3>1, HandleFrame
  <2>2. CASE m = h
    <3>1. Call[h].type = "AddMessage" /\ stage[h] \in StagesOf(h)
      BY <2>2 DEF Unverified, ExecutorInv
    <3>2. stage[h] \notin {"users", "asking", "key", "release", "releasing",
                           "encrypt"}
      BY <3>1 DEF StagesOf, asksUsers
    <3>3. stage \in [Handlers -> Stages]
      BY DEF ExecutorInv, ExecutorTypeOK
    <3>4. CASE Start(h) \/ TakeLock(h)
      BY <3>4, <2>2
      DEF Start, TakeLock, RLockChannel, AwaitChannelReaders, LockChannel, Early
    <3>5. CASE Act(h)
      BY <3>5, <3>2, <2>2, <1>3, <3>3
      DEF Act, AddKey, MakeRequest, ReadChannel, AddChannel, CloseChannel,
          AddMessage, BufferOperation, SubscribeChannel, ReadToEncrypt, Encrypt,
          acts, Early
    <3>6. CASE Feed(h) \/ VerifyFed(h) \/ BufferError(h) \/ FinishFeeding(h)
      BY <3>6, <2>2, <1>3, <3>3
      DEF Feed, VerifyFed, BufferError, FinishFeeding, Early, Goto, Report,
          deferred
    <3>7. CASE FedAnswered(h)
      <4>1. fed[h] # Nobody
        BY <3>7 DEF FedAnswered, ExecutorInv, FeedInv
      <4>2. Refed[fed[h]] # h
        BY <4>1, <2>2, FedMessage
      <4> QED
        BY <3>7, <4>2, <2>2, <1>3 DEF FedAnswered, Early
    <3>8. CASE Ask(h) \/ GiveBack(h)
      BY <3>8, <3>2, <3>3, <2>2, <1>3
      DEF Ask, AskUsers, UsersRequestAnswered, UsersRead, GiveBack, ReleaseUsers,
          UsersReleased, UnlockChannel, Early, Goto
    <3> QED
      BY <3>4, <3>5, <3>6, <3>7, <3>8 DEF Handle, FeedBuffer
  <2> QED
    BY <2>1, <2>2
<1>4. ASSUME stage[Refed[m]] = "unsent", stage'[Refed[m]] # "unsent"
      PROVE  m \in Pending(h) /\ m \notin Pending(h)'
  <2>1. FedAnswered(h) /\ Refed[m] = Refed[fed[h]]
    BY <1>1, <1>2, <1>4, HandleFrame
  <2>2. fed[h] # Nobody
    BY <2>1 DEF FedAnswered, ExecutorInv, FeedInv
  <2>3. fed[h] \in Unverified /\ fed[h] \in Handlers
    BY <2>2, FedMessage
  <2>4. fed[h] = m
    BY <2>1, <2>3, RefedAssumption
  <2>5. m \notin Pending(h)'
    BY <2>1, <2>4, HandleMessages DEF MessagesMove
  <2> QED
    BY <2>3, <2>4, <2>5 DEF Pending
<1> QED
  BY <1>3, <1>4

\* No step brings a message to a second place.
LEMMA HandleMessageInv ==
  ASSUME ExecutorInv, NEW h \in Handlers, Handle(h)
  PROVE  /\ \A g \in Handlers : FeedInv(g)' /\ Pending(g)' \subseteq Unverified
         /\ buffers' \in [Channels -> SUBSET Handlers]
         /\ \A c \in Channels :
               \A m \in buffers'[c] : m \in Unverified /\ Call[m].channel = c
         /\ \A m \in Unverified : MessageInv(m)'
<1> DEFINE own == Call[h].channel
<1>1. MessagesMove(h) /\ own \in Channels
  BY HandleMessages, CallAssumption
<1>2. buffers \in [Channels -> SUBSET Handlers]
      /\ \A c \in Channels :
            \A m \in buffers[c] : m \in Unverified /\ Call[m].channel = c
  BY DEF ExecutorInv, ExecutorTypeOK
<1>3. \A g \in Handlers \ {h} : Pending(g)' = Pending(g)
  BY HandleFrame DEF Pending
<1>4. ASSUME NEW g \in Handlers \ {h} PROVE FeedInv(g)'
  <2>1. /\ fed'[g] = fed[g] /\ unfed'[g] = unfed[g]
        /\ stage'[g] = stage[g] \/ Woken(g)
    BY HandleFrame
  <2>2. FeedInv(g)
    BY DEF ExecutorInv
  <2> QED
    BY <2>1, <2>2 DEF FeedInv, Woken
<1>5. \A g \in Handlers : Pending(g) \subseteq Unverified
  BY DEF ExecutorInv
<1>6. \A g \in Handlers : Pending(g)' \subseteq Unverified
  BY <1>1, <1>2, <1>3, <1>5 DEF MessagesMove, Opens, TakesItself
<1>7. buffers' \in [Channels -> SUBSET Handlers]
      /\ \A c \in Channels :
            \A m \in buffers'[c] : m \in Unverified /\ Call[m].channel = c
  <2>1. CASE BuffersItself(h)
    BY <2>1, <1>1, <1>2 DEF BuffersItself
  <2>2. CASE ~BuffersItself(h)
    BY <2>2, <1>1, <1>2 DEF MessagesMove
  <2> QED
    BY <2>1, <2>2
<1>8. ASSUME NEW m \in Unverified PROVE MessageInv(m)'
  <2> m \in Handlers
    BY DEF Unverified
  <2>1. MessageInv(m)
    BY DEF ExecutorInv
  <2>2. /\ stage'[m] \in Early => stage[m] \in Early
        /\ stage[Refed[m]] = "unsent" /\ m \notin Pending(h) =>
              stage'[Refed[m]] = "unsent"
        /\ stage[Refed[m]] = "unsent" /\ m \in Pending(h)' =>
              stage'[Refed[m]] = "unsent"
    BY MessageSteps
  <2>3. ASSUME stage'[m] \in Early
        PROVE  Unseen(m)' /\ \A c \in Channels : m \notin buffers'[c]
    <3>1. Unseen(m) /\ \A c \in Channels : m \notin buffers[c]
      BY <2>1, <2>2, <2>3 DEF MessageInv, Early
    <3>2. stage'[Refed[m]] = "unsent"
      BY <2>2, <3>1 DEF Unseen
    <3>3. TakesItself(h) \/ BuffersItself(h) => m # h
      BY <2>3 DEF TakesItself, BuffersItself, Early
    <3>4. \A g \in Handlers : m \notin Pending(g)'
      BY <1>1, <1>3, <3>1, <3>3 DEF MessagesMove, Opens, TakesItself, Unseen
    <3>5. \A c \in Channels : m \notin buffers'[c]
      BY <1>1, <1>2, <3>1, <3>3 DEF MessagesMove, BuffersItself
    <3> QED
      BY <3>2, <3>4, <3>5 DEF Unseen
  <2>4. ASSUME NEW c \in Channels, m \in buffers'[c], RecordOf(c)'.state = "buffered"
        PROVE  Unseen(m)'
    <3>1. RecordOf(c).state = "buffered"
      BY <2>4, HandleRecords DEF RecordsKept
    <3>2. CASE m \in buffers[c]
      <4>1. Unseen(m) /\ stage[m] \notin Early
        BY <2>1, <3>1, <3>2 DEF MessageInv, Early
      <4>2. stage'[Refed[m]] = "unsent"
        BY <2>2, <4>1 DEF Unseen
      <4>3. ~(Opens(h) /\ m \in buffers[own])
        BY <1>1, <1>2, <2>4, <3>2 DEF Opens
      <4>4. TakesItself(h) => m # h
        BY <4>1 DEF TakesItself, Early
      <4>5. \A g \in Handlers : m \notin Pending(g)'
        BY <1>1, <1>3, <4>1, <4>3, <4>4
        DEF MessagesMove, Opens, TakesItself, Unseen
      <4> QED
        BY <4>2, <4>5 DEF Unseen
    <3>3. CASE m \notin buffers[c]
      <4>1. BuffersItself(h) /\ m = h /\ Pending(h)' = Pending(h)
        BY <1>1, <1>2, <2>4, <3>3 DEF MessagesMove, BuffersItself
      <4>2. Unseen(m)
        BY <2>1, <4>1 DEF BuffersItself, MessageInv
      <4>3. stage'[Refed[m]] = "unsent"
        BY <2>2, <4>2 DEF Unseen
      <4> QED
        BY <1>3, <4>1, <4>2, <4>3 DEF Unseen
    <3> QED
      BY <3>2, <3>3
  <2>5. ASSUME NEW g \in Handlers, m \in Pending(g)'
        PROVE  /\ stage'[Refed[m]] = "unsent"
               /\ \A k \in Handlers : m \in Pending(k)' => k = g
    <3>1. CASE m \in Pending(h)' /\ m \notin Pending(h)
      <4>1. Opens(h) \/ (TakesItself(h) /\ m = h)
        BY <1>1, <3>1 DEF MessagesMove, TakesItself
      <4>2. Unseen(m)
        BY <1>1, <2>1, <3>1, <4>1 DEF Opens, TakesItself, MessageInv
      <4> QED
        BY <1>3, <2>2, <2>5, <3>1, <4>2 DEF Unseen
    <3>2. CASE m \in Pending(h)' => m \in Pending(h)
      <4>1. \A k \in Handlers : m \in Pending(k)' => m \in Pending(k)
        BY <1>3, <3>2
      <4>2. /\ stage[Refed[m]] = "unsent"
            /\ \A k \in Handlers : m \in Pending(k) => k = g
        BY <2>1, <2>5, <4>1 DEF MessageInv
      <4>3. stage'[Refed[m]] = "unsent"
        BY <2>2, <2>5, <4>2
      <4> QED
        BY <4>1, <4>2, <4>3
    <3> QED
      BY <3>1, <3>2
  <2> QED
    BY <2>3, <2>4, <2>5 DEF MessageInv, Early
<1> QED
  BY <1>1, <1>4, <1>6, <1>7, <1>8 DEF MessagesMove
-----------------------------------------------------------------------------
(***************************************************************************)
(* The requests the handlers wait for.                                     *)
(***************************************************************************)
\* A handler waits for one answer at a time, and goes on only with it.
AsksOne(h) ==
    /\ \/ issued' = issued
       \/ /\ stage[h] = "users" /\ stage'[h] = "asking"
          /\ issued' = issued \cup {question(h)}
       \/ /\ stage[h] = "handed" /\ stage'[h] = "verifying" /\ fed'[h] = fed[h]
          /\ issued' = issued \cup {<<fed[h], "peek">>}
       \/ /\ stage[h] = "release" /\ stage'[h] = "releasing"
          /\ issued' = issued \cup {<<h, "release">>}
    /\ stage[h] = "asking" => Answered(question(h))
    /\ stage[h] = "releasing" => Answered(<<h, "release">>)
    /\ stage[h] = "verifying" => Answered(<<fed[h], "peek">>)

\* No handler goes on without the answer.
LEMMA HandleAsksOne ==
  ASSUME ExecutorInv, NEW h \in Handlers, Handle(h)
  PROVE  AsksOne(h)
<1> stage \in [Handlers -> Stages]
  BY DEF ExecutorInv, ExecutorTypeOK
<1> USE DEF AsksOne, Goto, requestVars
<1>1. CASE Start(h) \/ TakeLock(h)
  BY <1>1
  DEF Start, TakeLock, RLockChannel, AwaitChannelReaders, LockChannel, locked
<1>2. CASE AskUsers(h)
  BY <1>2 DEF AskUsers
<1>3. CASE UsersRequestAnswered(h) \/ UsersRead(h)
  BY <1>3 DEF UsersRequestAnswered, UsersRead
<1>4. CASE Act(h)
  BY <1>4
  DEF Act, AddKey, MakeRequest, ReadChannel, AddChannel, CloseChannel,
      AddMessage, BufferOperation, SubscribeChannel, ReadToEncrypt, Encrypt, acts
<1>5. CASE VerifyFed(h)
  BY <1>5 DEF VerifyFed, feedVars
<1>6. CASE Feed(h) \/ FedAnswered(h) \/ BufferError(h) \/ FinishFeeding(h)
  BY <1>6 DEF Feed, FedAnswered, BufferError, FinishFeeding
<1>7. CASE GiveBack(h)
  BY <1>7 DEF GiveBack, ReleaseUsers, UsersReleased, UnlockChannel
<1> QED
  BY <1>1, <1>2, <1>3, <1>4, <1>5, <1>6, <1>7 DEF Handle, Ask, FeedBuffer

\* What a handler asks is the one request it has to ask.
LEMMA QuestionIs ==
  ASSUME ExecutorInv, NEW h \in Handlers, stage[h] \in {"users", "asking"}
  PROVE  /\ question(h) \in UserRequests
         /\ \A q \in UserRequests :
               q[1] = h /\ q[2] \in {"read", "update"} => q = question(h)
         /\ Asks(h) => question(h) = <<h, "read">>
<1>1. /\ Call[h].type \in usersOnly \cup asksUsers
      /\ Call[h].type # "UsersRequest" => Asks(h)
  BY CallAssumption
  DEF ExecutorInv, StagesOf, CallTypes, usersOnly, asksUsers, Asks
<1>2. Asks(h) => Call[h].type # "UsersRequest"
  BY DEF Asks, asksUsers
<1>3. question(h) \in UserRequests
  BY <1>1, RequestsMade, ServesHandlers DEF question
<1>4. ASSUME NEW q \in UserRequests, q[1] = h, q[2] \in {"read", "update"}
      PROVE  q = question(h)
  BY <1>1, <1>2, <1>4, RequestKinds, ServesHandlers DEF question
<1> QED
  BY <1>2, <1>3, <1>4 DEF question

\* What was asked is answered or still waited for.
LEMMA HandleRequests ==
  ASSUME ExecutorInv, NEW h \in Handlers, Handle(h)
  PROVE  /\ issued \subseteq issued' /\ issued' \subseteq UserRequests
         /\ \A q \in UserRequests : RequestInv(q)'
<1> issued \subseteq UserRequests
  BY DEF ExecutorInv, ExecutorTypeOK
<1>1. AsksOne(h) /\ pc' = pc /\ dropped' = dropped
  BY HandleAsksOne, HandleFrame DEF userVars
<1>2. /\ fed[h] # Nobody => fed[h] \in Handlers /\ <<fed[h], "peek">> \in UserRequests
      /\ stage[h] \in {"handed", "verifying"} => fed[h] # Nobody
  BY FedMessage, RequestsMade, ServesHandlers DEF ExecutorInv, FeedInv
<1>3. stage[h] = "release" => <<h, "release">> \in UserRequests
  <2>1. stage[h] = "release" => Asks(h)
    BY CallAssumption DEF ExecutorInv, StagesOf, Asks, asksUsers, CallTypes, usersOnly
  <2> QED
    BY <2>1, RequestsMade, ServesHandlers
<1>4. issued \subseteq issued' /\ issued' \subseteq UserRequests
  BY <1>1, <1>2, <1>3, QuestionIs DEF AsksOne
<1>5. ASSUME NEW g \in Handlers \ {h}, stage[g] \in {"asking", "releasing", "verifying"}
      PROVE  stage'[g] = stage[g] /\ fed'[g] = fed[g]
  BY <1>5, HandleFrame DEF Woken
<1>6. ASSUME NEW q \in UserRequests PROVE RequestInv(q)'
  <2>1. RequestInv(q) /\ (Answered(q)' <=> Answered(q))
    BY <1>1 DEF ExecutorInv, Answered, Finished
  <2>2. q = <<q[1], q[2]>> /\ q[1] \in Handlers
    BY RequestKinds, ServesHandlers
  <2>3. ASSUME q \in issued', q \notin issued PROVE InProgress(q)'
    <3>1. CASE stage[h] = "users" /\ stage'[h] = "asking" /\ q = question(h)
      BY <3>1 DEF InProgress, question
    <3>2. CASE /\ stage[h] = "handed" /\ stage'[h] = "verifying"
               /\ fed'[h] = fed[h] /\ q = <<fed[h], "peek">>
      BY <3>2 DEF InProgress
    <3>3. CASE stage'[h] = "releasing" /\ q = <<h, "release">>
      BY <3>3 DEF InProgress
    <3> QED
      BY <1>1, <2>3, <3>1, <3>2, <3>3 DEF AsksOne
  <2>4. ASSUME InProgress(q) PROVE Answered(q) \/ InProgress(q)'
    <3>1. CASE q[2] \in {"read", "update"} /\ stage[q[1]] = "asking"
      <4>1. CASE q[1] = h
        BY <1>1, <3>1, <4>1, QuestionIs DEF AsksOne
      <4>2. CASE q[1] # h
        BY <1>5, <2>2, <3>1, <4>2 DEF InProgress
      <4> QED
        BY <4>1, <4>2
    <3>2. CASE q[2] = "release" /\ stage[q[1]] = "releasing"
      <4>1. CASE q[1] = h
        BY <1>1, <2>2, <3>2, <4>1 DEF AsksOne
      <4>2. CASE q[1] # h
        BY <1>5, <2>2, <3>2, <4>2 DEF InProgress
      <4> QED
        BY <4>1, <4>2
    <3>3. CASE q[2] = "peek"
      <4>1. PICK g \in Handlers : stage[g] = "verifying" /\ fed[g] = q[1]
        BY <2>4, <3>3 DEF InProgress
      <4>2. CASE g = h
        BY <1>1, <2>2, <3>3, <4>1, <4>2 DEF AsksOne
      <4>3. CASE g # h
        BY <1>5, <3>3, <4>1, <4>3 DEF InProgress
      <4> QED
        BY <4>2, <4>3
    <3> QED
      BY <2>4, <3>1, <3>2, <3>3 DEF InProgress
  <2> QED
    BY <1>1, <1>4, <2>1, <2>3, <2>4 DEF RequestInv
<1> QED
  BY <1>4, <1>6
-----------------------------------------------------------------------------
(***************************************************************************)
(* What a handler keeps until it has it released.                          *)
(***************************************************************************)
Before == {"unsent", "queued", "lock", "wait", "users", "dropped"}

With ==
    {"key", "act", "called", "feeding", "handed", "verifying", "encrypt",
     "release"}

\* The way of a handler that asks for users: it comes to where it needs them
\* only with a good answer, and leaves only after the release.
WayOf(h) ==
    /\ stage'[h] \in Before => stage[h] \in Before
    /\ stage'[h] \in With =>
          \/ stage[h] \in With
          \/ stage[h] = "asking" /\ Succeeded(question(h))
    /\ stage[h] \in {"releasing", "unlock", "done"} => stage'[h] \in {"unlock", "done"}
    /\ stage'[h] \in {"unlock", "done"} =>
          \/ stage[h] \in {"queued", "users", "releasing", "unlock"}
          \/ stage[h] = "asking" /\ ~Succeeded(question(h))

\* No return takes another way.
LEMMA HandleWay ==
  ASSUME ExecutorInv, NEW h \in Handlers, Handle(h), Asks(h)
  PROVE  WayOf(h)
<1> stage \in [Handlers -> Stages]
  BY DEF ExecutorInv, ExecutorTypeOK
<1> USE DEF WayOf, Before, With, Goto, Report
<1>1. CASE Start(h)
  BY <1>1 DEF Start, Asks, asksUsers, usersOnly
<1>2. CASE TakeLock(h)
  BY <1>2
  DEF TakeLock, RLockChannel, AwaitChannelReaders, LockChannel, locked, Asks
<1>3. CASE Ask(h)
  BY <1>3
  DEF Ask, AskUsers, UsersRequestAnswered, UsersRead, unlocking, deferred, Asks,
      asksUsers
<1>4. CASE Act(h)
  <2>1. CASE AddKey(h) \/ MakeRequest(h) \/ Encrypt(h)
    BY <2>1 DEF AddKey, MakeRequest, Encrypt, deferred, Asks
  <2>2. CASE ReadChannel(h) \/ AddChannel(h)
    BY <2>2 DEF ReadChannel, AddChannel, acts, deferred, Asks
  <2>3. CASE CloseChannel(h) \/ AddMessage(h) \/ BufferOperation(h)
               \/ SubscribeChannel(h) \/ ReadToEncrypt(h)
    BY <2>3
    DEF CloseChannel, AddMessage, BufferOperation, SubscribeChannel,
        ReadToEncrypt, acts, Asks, asksUsers
  <2> QED
    BY <1>4, <2>1, <2>2, <2>3 DEF Act
<1>5. CASE FeedBuffer(h)
  <2>1. CASE Feed(h) \/ VerifyFed(h) \/ BufferError(h) \/ FinishFeeding(h)
    BY <2>1 DEF Feed, VerifyFed, BufferError, FinishFeeding, deferred, Asks
  <2>2. CASE FedAnswered(h)
    <3>1. fed[h] # Nobody
      BY <2>2 DEF FedAnswered, ExecutorInv, FeedInv
    <3>2. stage[h] = "verifying" /\ Refed[fed[h]] # h
      BY <2>2, <3>1, FedMessage DEF FedAnswered
    <3>3. stage'[h] = "feeding"
      BY <2>2, <3>2 DEF FedAnswered
    <3> QED
      BY <3>2, <3>3
  <2> QED
    BY <1>5, <2>1, <2>2 DEF FeedBuffer
<1>6. CASE GiveBack(h)
  BY <1>6 DEF GiveBack, ReleaseUsers, UsersReleased, UnlockChannel, unlocking
<1> QED
  BY <1>1, <1>2, <1>3, <1>4, <1>5, <1>6 DEF Handle

\* What a handler keeps it has released when it returns.
LEMMA HandleKeeps ==
  ASSUME ExecutorInv, NEW h \in Handlers, Handle(h), NEW g \in Handlers, Asks(g)
  PROVE  KeepInv(g)'
<1> DEFINE kept == <<g, "read">>
           undo == <<g, "release">>
<1>1. /\ kept \in UserRequests /\ undo \in UserRequests
      /\ KeepInv(g) /\ RequestInv(kept) /\ RequestInv(undo)
  BY RequestsMade, ServesHandlers DEF ExecutorInv
<1>2. AsksOne(h) /\ pc' = pc /\ dropped' = dropped /\ result' = result
  BY HandleAsksOne, HandleFrame DEF userVars
<1>3. \A q : (Answered(q)' <=> Answered(q)) /\ (Succeeded(q)' <=> Succeeded(q))
  BY <1>2 DEF Answered, Succeeded, Finished
<1>4. dropped \subseteq issued
  BY DEF ExecutorInv, ExecutorTypeOK
<1>5. kept \notin issued => ~Succeeded(kept)
  BY <1>1 DEF RequestInv, Succeeded, Finished
<1>6. Answered(undo) => undo \in issued
  BY <1>1, <1>4 DEF RequestInv, Answered, Finished
<1>7. CASE g # h
  <2>1. \/ stage'[g] = stage[g]
        \/ stage[g] = "unsent" /\ stage'[g] = "queued"
    BY <1>7, HandleFrame DEF Woken
  <2>2. kept \in issued' <=> kept \in issued
    BY <1>2, <1>7 DEF AsksOne, question
  <2>3. undo \in issued' <=> undo \in issued
    BY <1>2, <1>7 DEF AsksOne, question
  <2> QED
    BY <1>1, <1>3, <2>1, <2>2, <2>3 DEF KeepInv
<1>8. CASE g = h
  <2>1. WayOf(h)
    BY <1>8, HandleWay
  <2>2. stage[h] \in {"users", "asking"} => question(h) = kept
    BY <1>8, QuestionIs
  <2>3. kept \in issued' => kept \in issued \/ stage'[h] = "asking"
    BY <1>2, <1>8 DEF AsksOne
  <2>4. undo \in issued' => undo \in issued \/ stage'[h] = "releasing"
    BY <1>2, <1>8, <2>2 DEF AsksOne
  <2>5. issued \subseteq issued'
    BY HandleRequests
  <2>6. ASSUME stage'[h] \in Before PROVE kept \notin issued'
    BY <1>1, <1>8, <2>1, <2>3, <2>6 DEF WayOf, KeepInv, Before
  <2>7. ASSUME undo \in issued' PROVE stage'[h] \in {"releasing", "unlock", "done"}
    BY <1>1, <1>8, <2>1, <2>4, <2>7 DEF WayOf, KeepInv
  <2>8. ASSUME stage'[h] \in With PROVE Succeeded(kept)'
    <3>1. Succeeded(kept)
      BY <1>1, <1>8, <2>1, <2>2, <2>8 DEF WayOf, KeepInv, With
    <3> QED
      BY <1>3, <3>1
  <2>9. ASSUME stage'[h] \in {"unlock", "done"}, Succeeded(kept)'
        PROVE  undo \in issued' /\ Answered(undo)'
    <3>1. Succeeded(kept) /\ kept \in issued
      BY <1>3, <1>5, <2>9
    <3>2. stage[h] \in {"releasing", "unlock"}
      BY <1>1, <1>8, <2>1, <2>2, <2>9, <3>1 DEF WayOf, KeepInv
    <3>3. Answered(undo)
      BY <1>1, <1>2, <1>8, <3>1, <3>2 DEF AsksOne, KeepInv
    <3> QED
      BY <1>3, <1>6, <2>5, <3>3
  <2> QED
    BY <1>8, <2>6, <2>7, <2>8, <2>9 DEF KeepInv, Before, With
<1> QED
  BY <1>7, <1>8

Opening == {"feeding", "handed", "verifying"}

\* A handler comes to the opened channel through AddChannel and to the
\* encryption through ReadToEncrypt, and with the permission of its certifier.
LEMMA HandleGuards ==
  ASSUME ExecutorInv, NEW h \in Handlers, Handle(h)
  PROVE  /\ Call[h].type = "AddChannel" =>
              /\ stage'[h] \in {"act", "called"} =>
                   stage[h] \in {"act", "called"} \/ Call[h].keyId \in keys'
              /\ stage'[h] \in Opening =>
                   \/ stage[h] \in Opening
                   \/ Opens(h) /\ Call[h].channel \in KnownChannels'
              /\ stage'[h] \in {"key", "act", "called"} \cup Opening =>
                   \/ stage[h] \in {"key", "act", "called"} \cup Opening
                   \/ permitted(h)
         /\ Call[h].type = "ChannelEncrypt" /\ stage'[h] = "encrypt" =>
              \/ stage[h] = "encrypt"
              \/ Call[h].channel \in KnownChannels'
<1> stage \in [Handlers -> Stages]
  BY DEF ExecutorInv, ExecutorTypeOK
<1> stage[h] \in StagesOf(h)
  BY DEF ExecutorInv
<1> USE DEF Opening, Goto, Report
<1>1. CASE Start(h) \/ TakeLock(h)
  BY <1>1
  DEF Start, TakeLock, RLockChannel, AwaitChannelReaders, LockChannel, locked,
      asksUsers
<1>2. CASE Ask(h)
  BY <1>2
  DEF Ask, AskUsers, UsersRequestAnswered, UsersRead, unlocking, deferred,
      asksUsers
<1>3. CASE AddKey(h) \/ MakeRequest(h) \/ Encrypt(h)
  BY <1>3 DEF AddKey, MakeRequest, Encrypt, deferred
<1>4. CASE ReadChannel(h) \/ SubscribeChannel(h) \/ CloseChannel(h)
             \/ AddMessage(h) \/ BufferOperation(h)
  BY <1>4
  DEF ReadChannel, SubscribeChannel, CloseChannel, AddMessage, BufferOperation,
      acts, deferred
<1>5. CASE ReadToEncrypt(h)
  <2>1. KnownChannels' = KnownChannels
    BY <1>5 DEF ReadToEncrypt, channelVars, KnownChannels
  <2> QED
    BY <1>5, <2>1 DEF ReadToEncrypt, mayEncrypt, deferred, acts
<1>6. CASE AddChannel(h)
  <2>1. stage[h] = "called" /\ Call[h].type = "AddChannel"
    BY <1>6 DEF AddChannel, acts
  <2>2. ASSUME stage'[h] \in Opening
        PROVE  Opens(h) /\ Call[h].channel \in KnownChannels'
    <3>1. canOpen(RecordOf(Call[h].channel), Call[h].opening)
      BY <1>6, <2>2 DEF AddChannel, deferred
    <3>2. SetRecord(Call[h].channel,
                    tryOpen(RecordOf(Call[h].channel), Call[h].opening))
      BY <1>6, <3>1 DEF AddChannel
    <3>3. /\ RecordOf(Call[h].channel)' =
               tryOpen(RecordOf(Call[h].channel), Call[h].opening)
          /\ Call[h].channel \in KnownChannels'
      BY <3>2 DEF SetRecord, RecordOf, KnownChannels
    <3>4. RecordOf(Call[h].channel)'.state = "open"
      BY <3>3, KnownRecord, CallAssumption, Operations
    <3>5. unfed[h] = {} /\ fed[h] = Nobody /\ fed' = fed
          /\ unfed' = [unfed EXCEPT ![h] = buffers[Call[h].channel]]
      BY <1>6, <2>1, <3>1 DEF AddChannel, acts, ExecutorInv, FeedInv
    <3>6. buffers[Call[h].channel] \subseteq Handlers
          /\ unfed \in [Handlers -> SUBSET Handlers]
      BY CallAssumption DEF ExecutorInv, ExecutorTypeOK
    <3>7. Pending(h)' = buffers[Call[h].channel]
      BY <3>5, <3>6, TicketAssumption DEF Pending
    <3> QED
      BY <2>1, <3>1, <3>3, <3>4, <3>7 DEF Opens, canOpen
  <2> QED
    BY <2>1, <2>2
<1>7. CASE FeedBuffer(h)
  <2>1. stage[h] \in Opening
    BY <1>7
    DEF FeedBuffer, Feed, VerifyFed, FedAnswered, BufferError, FinishFeeding
  <2>2. stage'[h] \notin {"act", "called"} /\ (Call[h].type = "ChannelEncrypt" => FALSE)
    <3>1. CASE Feed(h) \/ VerifyFed(h) \/ BufferError(h) \/ FinishFeeding(h)
      BY <3>1, <2>1
      DEF Feed, VerifyFed, BufferError, FinishFeeding, deferred, StagesOf,
          asksUsers
    <3>2. CASE FedAnswered(h)
      <4>1. fed[h] # Nobody
        BY <3>2 DEF FedAnswered, ExecutorInv, FeedInv
      <4>2. Refed[fed[h]] # h
        BY <2>1, <4>1, FedMessage
      <4> QED
        BY <3>2, <2>1, <4>2 DEF FedAnswered, StagesOf, asksUsers
    <3> QED
      BY <1>7, <3>1, <3>2 DEF FeedBuffer
  <2> QED
    BY <2>1, <2>2
<1>8. CASE GiveBack(h)
  BY <1>8 DEF GiveBack, ReleaseUsers, UsersReleased, UnlockChannel, unlocking
<1> QED
  BY <1>1, <1>2, <1>3, <1>4, <1>5, <1>6, <1>7, <1>8 DEF Handle, Act

\* A channel is opened with a key that was stored before it.
LEMMA HandleKeys ==
  ASSUME ExecutorInv, NEW h \in Handlers, Handle(h)
  PROVE  (\A g \in Handlers : KeyInv(g)') /\ ActsUnderPermission'
<1>1. /\ RecordsKept(Call[h].channel) /\ keys \subseteq keys'
      /\ store' = store /\ Call[h].channel \in Channels
  BY HandleRecords, HandleFrame, CallAssumption DEF userVars
<1>2. ASSUME NEW c \in KnownChannels, chans[c].state # "buffered", c \in Channels
      PROVE  c \in KnownChannels' /\ chans'[c].state # "buffered"
  <2>1. c \in KnownChannels' /\ RecordOf(c).state # "buffered"
    BY <1>1, <1>2 DEF RecordsKept, RecordOf
  <2>2. RecordOf(c)'.state # "buffered"
    BY <1>1, <1>2, <2>1 DEF RecordsKept
  <2> QED
    BY <2>1, <2>2 DEF RecordOf
<1>3. ASSUME NEW g \in Handlers PROVE KeyInv(g)'
  <2> DEFINE c == Call[g].channel
  <2>1. KeyInv(g) /\ c \in Channels
    BY CallAssumption DEF ExecutorInv
  <2>2. CASE g # h
    <3>1. stage'[g] = stage[g] \/ stage'[g] = "queued"
      BY <2>2, HandleFrame DEF Woken
    <3> QED
      BY <1>1, <1>2, <2>1, <3>1 DEF KeyInv, RecordsKept
  <2>3. CASE g = h
    <3>1. ASSUME stage'[g] \in {"act", "called"}, Call[g].type = "AddChannel"
          PROVE  Call[g].keyId \in keys'
      BY <1>1, <2>1, <2>3, <3>1, HandleGuards DEF KeyInv
    <3>2. ASSUME stage'[g] \in Opening, Call[g].type = "AddChannel"
          PROVE  c \in KnownChannels' /\ chans'[c].state # "buffered"
      <4>1. CASE stage[g] \in Opening
        BY <1>2, <2>1, <3>2, <4>1 DEF KeyInv, Opening
      <4>2. CASE Opens(g) /\ c \in KnownChannels'
        <5>1. RecordOf(c)'.state # "buffered"
          BY <4>2 DEF Opens
        <5> QED
          BY <4>2, <5>1 DEF RecordOf
      <4> QED
        BY <2>3, <3>2, <4>1, <4>2, HandleGuards
    <3>3. ASSUME stage'[g] = "encrypt", Call[g].type = "ChannelEncrypt"
          PROVE  c \in KnownChannels'
      BY <1>1, <2>1, <2>3, <3>3, HandleGuards DEF KeyInv, RecordsKept
    <3> QED
      BY <3>1, <3>2, <3>3 DEF KeyInv, Opening
  <2> QED
    BY <2>2, <2>3
<1>4. ASSUME NEW g \in Handlers, Call[g].type = "AddChannel",
             stage'[g] \in {"key", "act", "called"} \cup Opening
      PROVE  Has(store'[Call[g].certifier], "permissions.channel.add")
  <2>1. CASE stage[g] \in {"key", "act", "called"} \cup Opening
    BY <1>1, <1>4, <2>1 DEF ExecutorInv, ActsUnderPermission, Opening
  <2>2. CASE stage[g] \notin {"key", "act", "called"} \cup Opening
    <3>1. g = h
      BY <1>4, <2>2, HandleFrame DEF Woken, Opening
    <3>2. permitted(g)
      BY <1>4, <2>2, <3>1, HandleGuards
    <3> QED
      BY <1>1, <1>4, <3>2 DEF permitted
  <2> QED
    BY <2>1, <2>2
<1> QED
  BY <1>3, <1>4 DEF ActsUnderPermission, Opening

-----------------------------------------------------------------------------
(***************************************************************************)
(* Every step keeps the invariant.                                         *)
(***************************************************************************)
\* The locks keep their types.
LEMMA HandleLockTypes ==
  ASSUME ExecutorInv, NEW h \in Handlers, Handle(h)
  PROVE  /\ rlocks' \in [Channels -> Nat]
         /\ wlock' \in [Channels -> Handlers \cup {Nobody}]
<1> DEFINE c == Call[h].channel
<1> /\ rlocks \in [Channels -> Nat] /\ c \in Channels
    /\ wlock \in [Channels -> Handlers \cup {Nobody}]
  BY CallAssumption DEF ExecutorInv, ExecutorTypeOK
<1>1. CASE ~Locking(h)
  BY <1>1, CallsAreQuiet DEF lockerVars
<1>2. CASE TakeLock(h)
  BY <1>2
  DEF TakeLock, RLockChannel, AwaitChannelReaders, LockChannel, locked, lockerVars
<1>3. CASE UnlockChannel(h)
  <2>1. CASE LockType(h) = "read"
    <3>1. /\ wlock' = wlock
          /\ rlocks' = [rlocks EXCEPT ![c] = IF @ = 0 THEN 0 ELSE @ - 1]
      BY <1>3, <2>1 DEF UnlockChannel
    <3>2. (IF rlocks[c] = 0 THEN 0 ELSE rlocks[c] - 1) \in Nat
      OBVIOUS
    <3> QED
      BY <3>1, <3>2
  <2>2. CASE LockType(h) # "read"
    BY <1>3, <2>2 DEF UnlockChannel
  <2> QED
    BY <2>1, <2>2
<1> QED
  BY <1>1, <1>2, <1>3 DEF Locking

\* A step of a handler.
LEMMA HandleInv ==
  ASSUME ExecutorInv, NEW h \in Handlers, Handle(h)
  PROVE  ExecutorInv'
<1>1. UNCHANGED <<userVars, fatal, dropped, stopping, panicked>>
  BY HandleFrame, HandleLocks
<1>2. UsersInv'
  BY <1>1, UsersFrame
<1>3. RecordsKept(Call[h].channel) /\ Call[h].channel \in Channels
  BY HandleRecords, CallAssumption
<1>4. /\ KnownChannels' \subseteq Channels
      /\ \A c \in KnownChannels' : IsRecord(chans'[c]) /\ chans'[c].state \in States
  BY <1>3 DEF RecordsKept, IsRecord, ExecutorInv, ExecutorTypeOK
<1>5. ExecutorTypeOK'
  <2>1. /\ stopping' \in 0..(Len(Servers) + 1) /\ dropped' \subseteq issued'
        /\ issued' \subseteq UserRequests /\ panicked' \in BOOLEAN
    BY <1>1, HandleRequests DEF ExecutorInv, ExecutorTypeOK
  <2>2. /\ unfed' \in [Handlers -> SUBSET Handlers]
        /\ fed' \in [Handlers -> Handlers \cup {Nobody}]
    BY HandleMessages DEF MessagesMove
  <2>3. keyOf' \in [Channels -> {Call[g].keyId : g \in Handlers} \cup {Nobody}]
    BY <1>3 DEF RecordsKept
  <2>4. TypeOK'
    BY <1>2 DEF UsersInv
  <2> QED
    BY <1>4, <2>1, <2>2, <2>3, <2>4, HandleStages, HandleOutcome, HandleRecords,
       HandleMessageInv, HandleLockTypes
    DEF ExecutorTypeOK
<1>6. \A q \in UserRequests : ReleaseInv(q)'
  BY <1>1 DEF ExecutorInv, ReleaseInv, userVars
<1>7. dropped' # {} => stopping' # 0
  BY <1>1 DEF ExecutorInv
<1>8. \A g \in Handlers : Asks(g) => KeepInv(g)'
  BY HandleKeeps
<1>9. \A g \in Handlers : stage'[g] \in StagesOf(g) /\ OutcomeInv(g)'
  BY HandleStages, HandleOutcome
<1>10. (\A g \in Handlers : KeyInv(g)') /\ ActsUnderPermission' /\ OpenChannelHasKey'
  BY HandleKeys, HandleRecords
<1>11. \A c \in Channels : ChannelLockInv(c)'
  BY HandleLocks
<1>12. \A q \in UserRequests : RequestInv(q)'
  BY HandleRequests
<1> QED
  BY <1>2, <1>4, <1>5, <1>6, <1>7, <1>8, <1>9, <1>10, <1>11, <1>12, HandleMessageInv
  DEF ExecutorInv, StagesOf, Asks

LEMMA ServersLength == Len(Servers) = 7
  BY DEF Servers

\* A server that is told to stop, and what it drops.
LEMMA StopFrame ==
  ASSUME ExecutorInv, Stop
  PROVE  /\ UNCHANGED <<outcome, lockerVars, keys, channelVars, feedVars, issued,
                        userVars, fatal>>
         /\ \A g \in Handlers : \/ stage'[g] = stage[g]
                                \/ stage[g] = "queued" /\ stage'[g] = "dropped"
         /\ stage' \in [Handlers -> Stages]
         /\ stopping' \in 0..(Len(Servers) + 1)
         /\ dropped \subseteq dropped' /\ dropped' \subseteq issued
         /\ dropped' # {} => stopping' # 0
         /\ panicked' \in BOOLEAN
<1> /\ stage \in [Handlers -> Stages] /\ stopping \in 0..8 /\ Len(Servers) = 7
    /\ dropped \subseteq issued /\ (dropped # {} => stopping # 0)
    /\ panicked \in BOOLEAN
  BY ServersLength DEF ExecutorInv, ExecutorTypeOK
<1>1. ASSUME ShutdownNext
      PROVE  /\ UNCHANGED <<stage, outcome, lockerVars, keys, channelVars, feedVars,
                            issued, userVars, fatal, dropped>>
             /\ stopping' \in 0..(Len(Servers) + 1) /\ stopping' # 0
  BY <1>1 DEF ShutdownNext, requestVars
<1>2. ASSUME NEW q \in UserRequests, DropUserRequest(q)
      PROVE  /\ UNCHANGED <<stage, outcome, lockerVars, keys, channelVars, feedVars,
                            issued, userVars, fatal, stopping, panicked>>
             /\ dropped \subseteq dropped' /\ dropped' \subseteq issued
             /\ stopping # 0
  <2>1. stopping # 0
    BY <1>2 DEF DropUserRequest, Up
  <2> QED
    BY <1>2, <2>1 DEF DropUserRequest
<1>3. ASSUME NEW h \in Handlers, DropHandler(h)
      PROVE  /\ UNCHANGED <<outcome, lockerVars, keys, channelVars, feedVars,
                            issued, userVars, fatal, dropped, stopping, panicked>>
             /\ stage[h] = "queued" /\ stage' = [stage EXCEPT ![h] = "dropped"]
  BY <1>3 DEF DropHandler, Goto, requestVars
<1>4. ASSUME NEW h \in Handlers, DropCall(h)
      PROVE  /\ UNCHANGED <<stage, outcome, lockerVars, keys, channelVars, feedVars,
                            issued, userVars, fatal, dropped, stopping>>
  BY <1>4 DEF DropCall, requestVars
<1>5. panicked' \in BOOLEAN
  <2>1. ASSUME ShutdownNext PROVE panicked' = panicked
    BY <2>1 DEF ShutdownNext
  <2>2. ASSUME NEW h \in Handlers, DropCall(h) PROVE panicked' = TRUE
    BY <2>2 DEF DropCall
  <2> QED
    BY <1>2, <1>3, <2>1, <2>2, Zenon DEF Stop
<1>6. CASE ShutdownNext
  BY <1>1, <1>5, <1>6
<1>7. CASE \E q \in UserRequests : DropUserRequest(q)
  BY <1>2, <1>5, <1>7
<1>8. CASE \E h \in Handlers : DropHandler(h)
  BY <1>3, <1>5, <1>8 DEF Stages
<1>9. CASE \E h \in Handlers : DropCall(h)
  BY <1>4, <1>5, <1>9
<1> QED
  BY <1>6, <1>7, <1>8, <1>9 DEF Stop

\* A step of the termination.
LEMMA StopInv ==
  ASSUME ExecutorInv, Stop
  PROVE  ExecutorInv'
<1>1. /\ UNCHANGED <<outcome, lockerVars, keys, channelVars, feedVars, issued,
                     userVars, fatal>>
      /\ \A g \in Handlers : \/ stage'[g] = stage[g]
                             \/ stage[g] = "queued" /\ stage'[g] = "dropped"
      /\ stage' \in [Handlers -> Stages]
      /\ stopping' \in 0..(Len(Servers) + 1)
      /\ dropped \subseteq dropped' /\ dropped' \subseteq issued
      /\ dropped' # {} => stopping' # 0
      /\ panicked' \in BOOLEAN
  BY StopFrame
<1>2. UsersInv'
  BY <1>1, UsersFrame
<1>3. ExecutorTypeOK'
  <2>1. TypeOK'
    BY <1>2 DEF UsersInv
  <2> QED
    BY <1>1, <2>1
    DEF ExecutorInv, ExecutorTypeOK, lockerVars, channelVars, feedVars, KnownChannels
<1>4. ASSUME NEW g \in Handlers
      PROVE  /\ stage'[g] \in StagesOf(g) /\ FeedInv(g)' /\ OutcomeInv(g)'
             /\ KeyInv(g)' /\ Pending(g)' \subseteq Unverified
  <2>1. /\ stage[g] \in StagesOf(g) /\ FeedInv(g) /\ OutcomeInv(g) /\ KeyInv(g)
        /\ Pending(g) \subseteq Unverified
    BY DEF ExecutorInv
  <2>2. stage'[g] \in StagesOf(g)
    BY <1>1, <2>1 DEF StagesOf
  <2>3. FeedInv(g)' /\ OutcomeInv(g)'
    BY <1>1, <2>1 DEF FeedInv, OutcomeInv, Reported, feedVars
  <2>4. KeyInv(g)' /\ Pending(g)' \subseteq Unverified
    BY <1>1, <2>1 DEF KeyInv, Pending, feedVars, channelVars, KnownChannels
  <2> QED
    BY <2>2, <2>3, <2>4
<1>5. ASSUME NEW c \in Channels
      PROVE  /\ ChannelLockInv(c)'
             /\ \A m \in buffers'[c] : m \in Unverified /\ Call[m].channel = c
  <2>1. \A g \in Handlers : /\ HasLock(g)' <=> HasLock(g)
                            /\ stage'[g] = "wait" <=> stage[g] = "wait"
    BY <1>1 DEF HasLock
  <2>2. ChannelLockInv(c)'
    BY <1>1, <2>1, ChannelFrame DEF ExecutorInv, lockerVars
  <2> QED
    BY <1>1, <2>2 DEF ExecutorInv, channelVars
<1>6. (\A c \in KnownChannels' : IsRecord(chans'[c])) /\ OpenChannelHasKey'
  BY <1>1 DEF ExecutorInv, channelVars, KnownChannels, OpenChannelHasKey
<1>7. ASSUME NEW m \in Unverified PROVE MessageInv(m)'
  <2>1. m \in Handlers /\ Refed[m] \in Handlers /\ MessageInv(m)
    BY RefedAssumption DEF Unverified, ExecutorInv
  <2>2. \A h \in Handlers : Pending(h)' = Pending(h)
    BY <1>1 DEF Pending, feedVars
  <2>3. stage[Refed[m]] = "unsent" => stage'[Refed[m]] = "unsent"
    BY <1>1, <2>1
  <2>4. Unseen(m) => Unseen(m)'
    BY <2>2, <2>3 DEF Unseen
  <2>5. stage'[m] \in Early => stage[m] \in Early
    BY <1>1, <2>1 DEF Early
  <2>6. buffers' = buffers /\ \A c \in Channels : RecordOf(c)' = RecordOf(c)
    BY <1>1 DEF channelVars, RecordOf, KnownChannels
  <2> QED
    BY <2>1, <2>2, <2>3, <2>4, <2>5, <2>6 DEF MessageInv, Early
<1>8. \A q : /\ Answered(q) => Answered(q)'
             /\ Succeeded(q)' <=> Succeeded(q)
  BY <1>1 DEF Answered, Succeeded, Finished, userVars
<1>9. ASSUME NEW q \in UserRequests PROVE RequestInv(q)' /\ ReleaseInv(q)'
  <2>1. RequestInv(q) /\ ReleaseInv(q) /\ q[1] \in Handlers
    BY RequestKinds, ServesHandlers DEF ExecutorInv
  <2>2. InProgress(q) => InProgress(q)'
    BY <1>1, <2>1 DEF InProgress, feedVars
  <2> QED
    BY <1>1, <1>8, <2>1, <2>2 DEF RequestInv, ReleaseInv, userVars
<1>10. ASSUME NEW g \in Handlers, Asks(g) PROVE KeepInv(g)'
  <2>1. KeepInv(g)
    BY <1>10 DEF ExecutorInv
  <2> QED
    BY <1>1, <1>8, <2>1 DEF KeepInv
<1>11. ActsUnderPermission'
  BY <1>1 DEF ExecutorInv, ActsUnderPermission, userVars
<1> QED
  BY <1>1, <1>2, <1>3, <1>4, <1>5, <1>6, <1>7, <1>9, <1>10, <1>11
  DEF ExecutorInv, StagesOf, Asks

\* The release of what a handler keeps is not refused where it asks in no
\* one's name.
LEMMA ServeReleases ==
  ASSUME ExecutorInv, NEW q \in UserRequests, Serve(q)
  PROVE  ReleaseInv(q)'
<1> SUFFICES ASSUME q[2] = "release", Request[q].skipPermissions,
                    pc'[q] \in {"unlocking", "done"}
             PROVE  q \in ran'
  BY DEF ReleaseInv
<1> DEFINE rq == Request[q]
<1>1. /\ q \in Requests /\ Work(q) /\ PhaseInv(q) /\ After[q] = <<q[1], "read">>
      /\ q = <<q[1], "release">> /\ q[1] \in Handlers /\ Asks(q[1])
  BY ServeStep, RequestKinds, AfterIs DEF ExecutorInv, UsersInv
<1>2. /\ rq.type = "read" /\ ~rq.readLock
      /\ leavesLocked(Request[After[q]])
      /\ Request[After[q]].subjects = rq.subjects
      /\ After[q] \in Requests /\ After[q] # Nobody
  <2> DEFINE h == q[1]
             kept == Request[<<h, "read">>]
             undo == Request[<<h, "release">>]
  <2>1. /\ kept.type = "read" /\ kept.readLock /\ ~kept.readUnlock
        /\ undo.type = "read" /\ ~undo.readLock
        /\ undo.subjects = kept.subjects
    BY <1>1, ReadAndRelease
  <2>2. After[q] \in Requests /\ After[q] # Nobody
    BY <1>1, RequestsMade, NobodyAssumption
  <2> QED
    BY <1>1, <2>1, <2>2 DEF leavesLocked
<1>3. pc \in [Requests -> {"queued", "locking", "running", "unlocking", "done"}]
      /\ PhaseInv(After[q])
  BY <1>2 DEF ExecutorInv, UsersInv, TypeOK
<1>4. lockNeeds(rq) = {}
  BY <1>2 DEF lockNeeds, signerNeeds
<1>5. CASE Begin(q)
  BY <1>1, <1>3, <1>4, <1>5 DEF Begin
<1>6. CASE Check(q)
  <2>1. pc[q] = "locking" /\ After[q] \in ran
    BY <1>1, <1>2, <1>6 DEF Check, PhaseInv
  <2>2. rq.subjects \subseteq Known
    <3>1. \A n \in lockNeeds(Request[After[q]]) : n.id \in Known
      BY <1>3, <2>1 DEF PhaseInv
    <3>2. \A i \in rq.subjects : LockNeed("read", i) \in lockNeeds(Request[After[q]])
      BY <1>2 DEF lockNeeds, subjectReads, leavesLocked
    <3> QED
      BY <3>1, <3>2 DEF LockNeed
  <2>3. pc' = [pc EXCEPT ![q] = "running"]
    BY <1>6, <2>2 DEF Check
  <2> QED
    BY <1>1, <1>3, <2>3
<1>7. CASE Run(q)
  BY <1>7 DEF Run
<1>8. CASE Return(q)
  BY <1>1, <1>8 DEF Return, ExecutorInv, ReleaseInv
<1>9. ASSUME NEW i \in Ids, RLock(q, i) \/ AwaitReaders(q, i) \/ Lock(q, i)
                            \/ RUnlock(q, i) \/ Unlock(q, i)
      PROVE  q \in ran'
  BY <1>1, <1>9
  DEF RLock, AwaitReaders, Lock, RUnlock, Unlock, locks, unlocks, ExecutorInv,
      ReleaseInv
<1> QED
  BY <1>1, <1>5, <1>6, <1>7, <1>8, <1>9 DEF Work

\* The records a handler keeps do not change while it goes on with them.
LEMMA CertifierKept ==
  ASSUME ExecutorInv, NEW q \in UserRequests, Serve(q), NEW h \in Handlers,
         Call[h].type = "AddChannel", stage[h] \in With
  PROVE  store'[Call[h].certifier] = store[Call[h].certifier]
<1> DEFINE kept == <<h, "read">>
           undo == <<h, "release">>
<1>1. Asks(h)
  BY CallAssumption DEF ExecutorInv, StagesOf, Asks, asksUsers, With
<1>2. /\ kept \in Requests /\ undo \in Requests /\ kept \in UserRequests
      /\ KeepInv(h) /\ RequestInv(undo) /\ PhaseInv(kept) /\ PhaseInv(undo)
  BY <1>1, RequestsMade, ServesHandlers DEF ExecutorInv, UsersInv
<1>3. /\ leavesLocked(Request[kept]) /\ Request[kept].skipPermissions
      /\ Request[kept].subjects = {Call[h].certifier}
  BY <1>1, ReadAndRelease DEF leavesLocked
<1>4. kept \in ran /\ undo \notin ran
  BY <1>2 DEF KeepInv, RequestInv, PhaseInv, Succeeded, With
<1>5. ASSUME NEW r \in Requests, After[r] = kept PROVE r = undo
  <2>1. kept # Nobody
    BY <1>2, NobodyAssumption
  <2>2. r[2] = "release" /\ r = <<r[1], "release">> /\ After[r] = <<r[1], "read">>
    BY <1>5, <2>1, AfterIs, RequestKinds
  <2> QED
    BY <1>5, <2>2
<1>6. kept \in LeftLocked
  BY <1>2, <1>3, <1>4, <1>5 DEF LeftLocked
<1>7. Call[h].certifier \in staysLocked(Request[kept])
  BY <1>3 DEF staysLocked, signerNeeds
<1> QED
  BY <1>6, <1>7, HandlersPairReleases, LeftLockedKept, ServeStep DEF ExecutorInv

\* While only the users server takes a step, or none, the handlers rest.
LEMMA HandlersRest ==
  ASSUME ExecutorInv, UsersInv', UNCHANGED handlerVars, ActsUnderPermission',
         \A r \in UserRequests : RequestInv(r)' /\ ReleaseInv(r)',
         \A g \in Handlers : Asks(g) => KeepInv(g)'
  PROVE  ExecutorInv'
<1>1. UNCHANGED <<stage, outcome, rlocks, wlock, keys, chans, keyOf, buffers,
                  unfed, fed, stopping, issued, dropped, panicked>>
  BY DEF handlerVars, lockerVars, channelVars, feedVars, requestVars
<1>2. ExecutorTypeOK'
  <2>1. TypeOK'
    BY DEF UsersInv
  <2> QED
    BY <1>1, <2>1 DEF ExecutorInv, ExecutorTypeOK, KnownChannels
<1>3. ASSUME NEW g \in Handlers
      PROVE  /\ stage'[g] \in StagesOf(g) /\ FeedInv(g)' /\ OutcomeInv(g)'
             /\ KeyInv(g)' /\ Pending(g)' \subseteq Unverified
  <2>1. /\ stage[g] \in StagesOf(g) /\ FeedInv(g) /\ OutcomeInv(g) /\ KeyInv(g)
        /\ Pending(g) \subseteq Unverified
    BY DEF ExecutorInv
  <2> QED
    BY <1>1, <2>1
    DEF FeedInv, OutcomeInv, Reported, KeyInv, Pending, KnownChannels
<1>4. ASSUME NEW c \in Channels
      PROVE  /\ ChannelLockInv(c)'
             /\ \A m \in buffers'[c] : m \in Unverified /\ Call[m].channel = c
  <2>1. ChannelLockInv(c)'
    BY <1>1, ChannelFrame DEF ExecutorInv, HasLock
  <2> QED
    BY <1>1, <2>1 DEF ExecutorInv
<1>5. (\A c \in KnownChannels' : IsRecord(chans'[c])) /\ OpenChannelHasKey'
      /\ (dropped' # {} => stopping' # 0)
  BY <1>1 DEF ExecutorInv, KnownChannels, OpenChannelHasKey
<1>6. ASSUME NEW m \in Unverified PROVE MessageInv(m)'
  <2>1. MessageInv(m)
    BY DEF ExecutorInv
  <2> QED
    BY <1>1, <2>1 DEF MessageInv, Unseen, Pending, RecordOf, KnownChannels
<1> QED
  BY <1>2, <1>3, <1>4, <1>5, <1>6 DEF ExecutorInv, StagesOf, Asks

\* A step of the users server.
LEMMA ServeInv ==
  ASSUME ExecutorInv, NEW q \in UserRequests, Serve(q)
  PROVE  ExecutorInv'
<1>1. /\ UsersInv' /\ UNCHANGED handlerVars
      /\ q \in Requests /\ OnlyBy(q) /\ q \in issued /\ ~Answered(q)
      /\ \A r \in Requests : Answered(r) =>
            Answered(r)' /\ (Succeeded(r)' <=> Succeeded(r))
  BY ServeStep
<1>2. UNCHANGED <<stage, outcome, rlocks, wlock, keys, chans, keyOf, buffers,
                  unfed, fed, stopping, issued, dropped, panicked>>
  BY <1>1 DEF handlerVars, lockerVars, channelVars, feedVars, requestVars
<1>3. ASSUME NEW r \in UserRequests PROVE RequestInv(r)' /\ ReleaseInv(r)'
  <2>1. RequestInv(r) /\ ReleaseInv(r) /\ r \in Requests
    BY ServesHandlers DEF ExecutorInv
  <2>2. InProgress(r)' <=> InProgress(r)
    BY <1>2 DEF InProgress
  <2>3. RequestInv(r)'
    <3>1. CASE r = q
      BY <1>1, <1>2, <2>1, <2>2, <3>1 DEF RequestInv
    <3>2. CASE r # q
      BY <1>1, <1>2, <2>1, <2>2, <3>2 DEF RequestInv, OnlyBy
    <3> QED
      BY <3>1, <3>2
  <2>4. ReleaseInv(r)'
    <3>1. CASE r = q
      BY <3>1, ServeReleases
    <3>2. CASE r # q
      <4>1. pc'[r] = pc[r]
        BY <1>1, <2>1, <3>2 DEF OnlyBy
      <4>2. ran \subseteq ran'
        BY ServeStep
        DEF Work, Begin, Check, Run, Return, RLock, AwaitReaders, Lock, RUnlock,
            Unlock
      <4> QED
        BY <2>1, <4>1, <4>2 DEF ReleaseInv
    <3> QED
      BY <3>1, <3>2
  <2> QED
    BY <2>3, <2>4
<1>4. ASSUME NEW g \in Handlers, Asks(g) PROVE KeepInv(g)'
  <2> DEFINE kept == <<g, "read">>
             undo == <<g, "release">>
  <2>1. /\ KeepInv(g) /\ kept \in Requests /\ undo \in Requests
        /\ RequestInv(kept) /\ kept \in UserRequests
    BY <1>4, RequestsMade, ServesHandlers DEF ExecutorInv
  <2>2. Succeeded(kept) => Answered(kept) /\ Succeeded(kept)'
    BY <1>1, <2>1 DEF Succeeded, Answered
  <2>3. ASSUME stage[g] \in {"unlock", "done"}, Succeeded(kept)' PROVE Succeeded(kept)
    <3>1. CASE kept \in issued
      <4>1. ~InProgress(kept)
        BY <2>3 DEF InProgress
      <4>2. Answered(kept)
        BY <2>1, <3>1, <4>1 DEF RequestInv
      <4> QED
        BY <1>1, <2>1, <2>3, <4>2
    <3>2. CASE kept \notin issued
      BY <1>1, <1>3, <2>1, <2>3, <3>2, <1>2 DEF RequestInv, Succeeded, Finished
    <3> QED
      BY <3>1, <3>2
  <2>4. Answered(undo) => Answered(undo)'
    BY <1>1, <2>1
  <2> QED
    BY <1>2, <2>1, <2>2, <2>3, <2>4 DEF KeepInv
<1>5. ActsUnderPermission'
  BY <1>2, CertifierKept DEF ExecutorInv, ActsUnderPermission, With
<1> QED
  BY <1>1, <1>3, <1>4, <1>5, HandlersRest

\* Any step, and none.
LEMMA NextExecutor == ExecutorInv /\ [ExecutorNext]_executorVars => ExecutorInv'
<1> SUFFICES ASSUME ExecutorInv, [ExecutorNext]_executorVars PROVE ExecutorInv'
  OBVIOUS
<1>1. CASE UNCHANGED executorVars
  <2>1. UsersInv' /\ UNCHANGED handlerVars
    BY <1>1, UsersFrame DEF executorVars, handlerVars
  <2>2. /\ UNCHANGED <<stage, fed, issued, dropped, pc, result, ran, store>>
        /\ ActsUnderPermission'
    BY <1>1
    DEF executorVars, feedVars, requestVars, userVars, ExecutorInv,
        ActsUnderPermission
  <2>3. ASSUME NEW r \in UserRequests PROVE RequestInv(r)' /\ ReleaseInv(r)'
    <3>1. RequestInv(r) /\ ReleaseInv(r)
      BY DEF ExecutorInv
    <3> QED
      BY <2>2, <3>1 DEF RequestInv, ReleaseInv, InProgress, Answered, Finished
  <2>4. ASSUME NEW g \in Handlers, Asks(g) PROVE KeepInv(g)'
    <3>1. KeepInv(g)
      BY <2>4 DEF ExecutorInv
    <3> QED
      BY <2>2, <3>1 DEF KeepInv, Succeeded, Answered, Finished
  <2> QED
    BY <2>1, <2>2, <2>3, <2>4, HandlersRest
<1>2. CASE ExecutorNext
  BY <1>2, HandleInv, ServeInv, StopInv DEF ExecutorNext
<1> QED
  BY <1>1, <1>2

\* At the start everything is empty.
LEMMA InitExecutor == ExecutorInit => ExecutorInv
<1> SUFFICES ASSUME ExecutorInit PROVE ExecutorInv
  OBVIOUS
<1>1. UsersInv /\ \A q \in Requests : pc[q] = "queued"
  BY InitUsers DEF ExecutorInit, Init
<1>2. /\ \A h \in Handlers : stage[h] \in {"unsent", "queued"}
      /\ \A h \in Handlers : outcome[h] = << >> /\ unfed[h] = {} /\ fed[h] = Nobody
      /\ \A c \in Channels : rlocks[c] = 0 /\ wlock[c] = Nobody /\ buffers[c] = {}
      /\ KnownChannels = {} /\ issued = {} /\ dropped = {}
  BY DEF ExecutorInit, KnownChannels
<1>3. ExecutorTypeOK
  <2>1. TypeOK
    BY <1>1 DEF UsersInv
  <2>2. << >> \in Seq({"success", "failed", "rejected"}) /\ Len(Servers) = 7
    BY ServersLength
  <2>3. stage \in [Handlers -> Stages]
    BY DEF ExecutorInit, Stages
  <2>4. panicked \in BOOLEAN
    BY Zenon DEF ExecutorInit
  <2> QED
    BY <1>2, <2>1, <2>2, <2>3, <2>4 DEF ExecutorInit, ExecutorTypeOK
<1>4. ASSUME NEW h \in Handlers
      PROVE  /\ stage[h] \in StagesOf(h) /\ FeedInv(h) /\ OutcomeInv(h) /\ KeyInv(h)
             /\ Pending(h) = {} /\ KeepInv(h)
  <2>1. stage[h] \in StagesOf(h) /\ FeedInv(h) /\ KeyInv(h) /\ KeepInv(h)
    BY <1>2 DEF StagesOf, FeedInv, KeyInv, KeepInv
  <2>2. OutcomeInv(h)
    BY <1>2 DEF OutcomeInv, Reported
  <2>3. Pending(h) = {}
    BY <1>2, TicketAssumption DEF Pending
  <2> QED
    BY <2>1, <2>2, <2>3
<1>5. ASSUME NEW c \in Channels PROVE ChannelLockInv(c)
  <2>1. ChannelReaders(c) = {} /\ ChannelWriters(c) = {} /\ Waiting(c) = {}
    BY <1>2 DEF ChannelReaders, ChannelWriters, Waiting, HasLock
  <2> QED
    BY <1>2, <2>1, FS_EmptySet DEF ChannelLockInv
<1>6. ASSUME NEW m \in Unverified PROVE MessageInv(m)
  <2>1. m \in DOMAIN Refed /\ Refed[m] \in Handlers
    BY RefedAssumption
  <2>2. stage[Refed[m]] = "unsent"
    BY <2>1 DEF ExecutorInit
  <2> QED
    BY <1>2, <1>4, <2>2 DEF MessageInv, Unseen
<1>7. ASSUME NEW q \in UserRequests PROVE RequestInv(q) /\ ReleaseInv(q)
  BY <1>1, <1>2, ServesHandlers DEF RequestInv, ReleaseInv
<1>8. OpenChannelHasKey /\ ActsUnderPermission
  BY <1>2 DEF OpenChannelHasKey, ActsUnderPermission
<1> QED
  BY <1>1, <1>2, <1>3, <1>4, <1>5, <1>6, <1>7, <1>8 DEF ExecutorInv

\* The invariant holds throughout.
LEMMA ExecutorInvariant == ExecutorSpec => []ExecutorInv
  BY InitExecutor, NextExecutor, PTL DEF ExecutorSpec

-----------------------------------------------------------------------------
(***************************************************************************)
(* The theorems.                                                           *)
(***************************************************************************)
\* Every variable of the executor and of its servers has its type.
THEOREM ExecutorTypeCorrect == ExecutorSpec => []ExecutorTypeOK
<1>1. ExecutorInv => ExecutorTypeOK
  BY DEF ExecutorInv
<1> QED
  BY <1>1, ExecutorInvariant, PTL

\* A request has exactly one final status once its handler is through, and
\* never a second one (executor/daemon.go:56).
THEOREM OneFinalStatus == ExecutorSpec => []OneOutcome
<1>1. ASSUME ExecutorInv, NEW h \in Handlers
      PROVE  Len(outcome[h]) <= 1 /\ (Done(h) => Len(outcome[h]) = 1)
  <2>1. OutcomeInv(h)
    BY <1>1 DEF ExecutorInv
  <2> QED
    BY <2>1 DEF OutcomeInv, Reported, Done
<1>2. ExecutorInv => OneOutcome
  BY <1>1 DEF OneOutcome
<1> QED
  BY <1>2, ExecutorInvariant, PTL

\* A channel that is open was opened with a key that is in the store, whatever
\* server was stopped meanwhile (executor/channel_requests.go:239).
THEOREM OpenedWithKey == ExecutorSpec => []OpenChannelHasKey
<1>1. ExecutorInv => OpenChannelHasKey
  BY DEF ExecutorInv
<1> QED
  BY <1>1, ExecutorInvariant, PTL

\* The certifier of an opening keeps its permission until the opening is
\* through (executor/channel_requests.go:206): the lock its read left on the
\* record keeps every update of it out.
THEOREM OpensUnderPermission == ExecutorSpec => []ActsUnderPermission
<1>1. ExecutorInv => ActsUnderPermission
  BY DEF ExecutorInv
<1> QED
  BY <1>1, ExecutorInvariant, PTL

\* No handler and no request of one releases a lock that is not held
\* (executor/channel_requests.go:227).
THEOREM NoHandlerIsFatal == ExecutorSpec => []NoFatal
<1>1. ExecutorInv => NoFatal
  BY DEF ExecutorInv, UsersInv, NoFatalUnlock, NoFatal
<1> QED
  BY <1>1, ExecutorInvariant, PTL

\* The handlers use the users server as a server of its own
\* (executor/user_requests.go:84): whatever they do and whichever servers are
\* stopped, it behaves as Users says, so that what is proved of Users holds
\* of it.
THEOREM ServesAsUsers == ExecutorSpec => Spec
<1>1. ExecutorInit => Init
  BY DEF ExecutorInit
<1>2. ExecutorInv /\ [ExecutorNext]_executorVars => [Next]_vars
  <2> SUFFICES ASSUME ExecutorInv, [ExecutorNext]_executorVars PROVE [Next]_vars
    OBVIOUS
  <2>1. CASE UNCHANGED <<userVars, fatal>>
    BY <2>1 DEF userVars, vars
  <2>2. CASE UNCHANGED executorVars
    BY <2>1, <2>2 DEF executorVars
  <2>3. ASSUME NEW h \in Handlers, Handle(h) PROVE [Next]_vars
    BY <2>1, <2>3, HandleFrame, HandleLocks
  <2>4. ASSUME NEW q \in UserRequests, Serve(q) PROVE [Next]_vars
    BY <2>4, ServeStep DEF Next
  <2>5. CASE Stop
    BY <2>1, <2>5, StopFrame
  <2> QED
    BY <2>2, <2>3, <2>4, <2>5 DEF ExecutorNext
<1> QED
  BY <1>1, <1>2, ExecutorInvariant, PTL DEF ExecutorSpec, Spec

\* A request that runs in the name of a certifier runs with its permission,
\* also while the handlers keep records locked (users/daemon.go:235).
COROLLARY RequestsRunUnderPermission == ExecutorSpec => []RunsUnderPermission
  BY ServesAsUsers, HandlersPairReleases, PermissionsHold, PTL

\* What is encrypted goes to the channel whose permissions were read
\* (executor/channel_requests.go:402): the read lock on it keeps out every
\* handler that would change it.
THEOREM EncryptsWhatItRead == ExecutorSpec => EncryptSnapshot
<1>1. ASSUME ExecutorInv, [ExecutorNext]_executorVars, NEW h \in Handlers,
             stage[h] = "encrypt", Call[h].type = "ChannelEncrypt"
      PROVE  chans'[Call[h].channel] = chans[Call[h].channel]
  <2> DEFINE c == Call[h].channel
  <2>1. c \in Channels /\ c \in KnownChannels /\ KeyInv(h) /\ ChannelLockInv(c)
    BY <1>1, CallAssumption DEF ExecutorInv, KeyInv
  <2>2. h \in ChannelReaders(c)
    BY <1>1 DEF ChannelReaders, HasLock, LockType, usersOnly
  <2>3. ChannelWriters(c) = {}
    BY <2>1, <2>2, FS_EmptySet, FS_CardinalityType DEF ChannelLockInv
  <2>4. ASSUME UNCHANGED channelVars PROVE chans'[c] = chans[c]
    BY <2>4 DEF channelVars
  <2>5. ASSUME NEW g \in Handlers, Handle(g) PROVE chans'[c] = chans[c]
    <3>1. CASE Call[g].channel # c
      BY <1>1, <2>1, <2>5, <3>1, HandleRecords DEF RecordsKept, RecordOf
    <3>2. CASE Call[g].channel = c /\ stage[g] \notin {"called", "feeding"}
      BY <2>4, <2>5, <3>2
      DEF Handle, Start, TakeLock, RLockChannel, AwaitChannelReaders, LockChannel,
          locked, Ask, AskUsers, UsersRequestAnswered, UsersRead, Act, AddKey,
          MakeRequest, ReadChannel, AddChannel, CloseChannel, AddMessage,
          BufferOperation, SubscribeChannel, ReadToEncrypt, Encrypt, acts,
          FeedBuffer, Feed, VerifyFed, FedAnswered, BufferError, FinishFeeding,
          GiveBack, ReleaseUsers, UsersReleased, UnlockChannel
    <3>3. CASE Call[g].channel = c /\ stage[g] \in {"called", "feeding"}
      <4>1. Call[g].type \notin usersOnly
        BY <1>1, <3>3 DEF ExecutorInv, StagesOf, usersOnly, asksUsers
      <4>2. LockType(g) # "write"
        BY <2>3, <3>3, <4>1 DEF ChannelWriters, HasLock
      <4>3. Call[g].type \notin {"AddChannel", "CloseChannel", "AddMessage"}
        BY <4>2 DEF LockType
      <4>4. CASE SubscribeChannel(g)
        BY <2>1, <3>3, <4>4 DEF SubscribeChannel, SetRecord, RecordOf, KnownChannels
      <4>5. CASE ~SubscribeChannel(g)
        <5>1. UNCHANGED chans
          BY <2>5, <3>3, <4>3, <4>5
          DEF Handle, Start, TakeLock, RLockChannel, AwaitChannelReaders,
              LockChannel, Ask, AskUsers, UsersRequestAnswered, UsersRead, Act,
              AddKey, MakeRequest, ReadChannel, AddChannel, CloseChannel,
              AddMessage, BufferOperation, ReadToEncrypt, Encrypt, acts,
              FeedBuffer, Feed, VerifyFed, FedAnswered, BufferError,
              FinishFeeding, GiveBack, ReleaseUsers, UsersReleased,
              UnlockChannel, channelVars
        <5> QED
          BY <5>1
      <4> QED
        BY <4>4, <4>5
    <3> QED
      BY <3>1, <3>2, <3>3
  <2>6. CASE UNCHANGED executorVars
    BY <2>4, <2>6 DEF executorVars
  <2>7. CASE \E q \in UserRequests : Serve(q)
    BY <2>4, <2>7 DEF Serve
  <2>8. CASE Stop
    BY <1>1, <2>4, <2>8, StopFrame
  <2> QED
    BY <1>1, <2>5, <2>6, <2>7, <2>8 DEF ExecutorNext
<1>2. ExecutorInv /\ [ExecutorNext]_executorVars =>
         [\A h \in Handlers :
             stage[h] = "encrypt" /\ Call[h].type = "ChannelEncrypt" =>
                chans'[Call[h].channel] = chans[Call[h].channel]]_executorVars
  BY <1>1
<1> QED
  BY <1>2, ExecutorInvariant, PTL DEF ExecutorSpec, EncryptSnapshot

\* A release that the users server refused.
ReleaseRefused ==
    \E q \in Requests : q[2] = "release" /\ Finished(q) /\ q \notin ran

AllReturned == stopping = 0 /\ \A h \in Handlers : ~Running(h)

ChannelsUnlocked == \A c \in Channels : rlocks[c] = 0 /\ wlock[c] = Nobody

UsersUnlocked == \A i \in Ids : readers[i] = 0 /\ writer[i] = Nobody

LEMMA AllUnlocked ==
    ASSUME ExecutorInv, AllReturned
    PROVE  ChannelsUnlocked /\ (~ReleaseRefused => UsersUnlocked)
<1>1. ExecutorInv /\ stopping = 0 /\ \A h \in Handlers : ~Running(h)
  BY DEF AllReturned
<1>2. ChannelsUnlocked
  <2>1. ASSUME NEW c \in Channels PROVE rlocks[c] = 0 /\ wlock[c] = Nobody
    <3>1. ChannelReaders(c) = {} /\ ChannelWriters(c) = {} /\ Waiting(c) = {}
      BY <1>1 DEF ChannelReaders, ChannelWriters, Waiting, HasLock, Running
    <3> QED
      BY <1>1, <3>1, FS_EmptySet DEF ExecutorInv, ChannelLockInv
  <2> QED
    BY <2>1 DEF ChannelsUnlocked
<1>3. ASSUME ~ReleaseRefused PROVE UsersUnlocked
  <2>0. ~ReleaseRefused
    BY <1>3
  <2>2. ASSUME NEW q \in Requests PROVE pc[q] \in {"queued", "done"}
    <3>1. RequestInv(q) /\ q[1] \in Handlers /\ dropped = {}
      BY <1>1, RequestKinds, ServesHandlers DEF ExecutorInv
    <3>2. ~InProgress(q)
      BY <1>1, <3>1 DEF InProgress, Running
    <3> QED
      BY <3>1, <3>2 DEF RequestInv, Answered, Finished
  <2>3. LeftLocked = {}
    <3> SUFFICES ASSUME NEW r \in LeftLocked PROVE FALSE
      OBVIOUS
    <3> DEFINE h == r[1]
               undo == <<h, "release">>
    <3>1. /\ r \in Requests /\ leavesLocked(Request[r]) /\ r \in ran
          /\ r = <<h, r[2]>> /\ h \in Handlers
      BY RequestKinds DEF LeftLocked
    <3>2. r = <<h, "read">> /\ Asks(h)
      <4>1. \/ r[2] \in {"read", "release"} /\ Asks(h)
            \/ r[2] = "update" /\ Call[h].type = "UsersRequest"
            \/ r[2] = "peek" /\ Call[h].type = "AddMessage"
        BY <3>1, RequestKinds
      <4>2. CASE r[2] \in {"read", "release"} /\ Asks(h)
        BY <3>1, <4>2, ReadAndRelease DEF leavesLocked
      <4>3. CASE r[2] = "update" /\ Call[h].type = "UsersRequest"
        <5>1. Request[r] = Call[h].request
          BY <3>1, <4>3, OtherRequests
        <5> QED
          BY <3>1, <4>3, <5>1, UpdatesAssumption DEF leavesLocked
      <4>4. CASE r[2] = "peek" /\ Call[h].type = "AddMessage"
        <5>1. Request[r].readUnlock
          BY <3>1, <4>4, OtherRequests
        <5> QED
          BY <3>1, <5>1 DEF leavesLocked
      <4> QED
        BY <4>1, <4>2, <4>3, <4>4
    <3>3. PhaseInv(r) /\ RequestInv(r) /\ KeepInv(h)
      BY <1>1, <3>1, <3>2, ServesHandlers DEF ExecutorInv, UsersInv
    <3>4. Succeeded(<<h, "read">>) /\ <<h, "read">> \in issued
      BY <2>2, <3>1, <3>2, <3>3 DEF PhaseInv, RequestInv, Succeeded, Finished
    <3>5. stage[h] = "done"
      BY <1>1, <3>1, <3>3, <3>4 DEF KeepInv, Running
    <3>6. undo \in issued /\ Answered(undo) /\ undo \in Requests
      BY <3>1, <3>2, <3>3, <3>4, <3>5, RequestsMade DEF KeepInv
    <3>7. Finished(undo)
      BY <1>1, <3>6 DEF ExecutorInv, Answered
    <3>8. undo \in ran
      BY <2>0, <3>6, <3>7 DEF ReleaseRefused
    <3>9. After[undo] = r
      BY <3>2, <3>6, AfterIs
    <3> QED
      BY <3>6, <3>8, <3>9 DEF LeftLocked
  <2>4. LocksReleased /\ \A q \in Requests : ~Busy(q)
    BY <1>1, <2>2, NothingElseLocked DEF ExecutorInv, Busy
  <2> QED
    BY <2>3, <2>4, FS_EmptySet DEF LocksReleased, UsersUnlocked
<1> QED
  BY <1>2, <1>3

\* When no handler is running, no channel is locked, whatever return the
\* handlers took (executor/channel_requests.go:200), and a user is locked only
\* if the users server refused a release (executor/user_requests.go:85), as
\* long as no server was stopped.
THEOREM LockedOnlyWhenRefused ==
    ExecutorSpec =>
        [](AllReturned => ChannelsUnlocked /\ (~ReleaseRefused => UsersUnlocked))
<1>1. ExecutorInv =>
         (AllReturned => ChannelsUnlocked /\ (~ReleaseRefused => UsersUnlocked))
  BY AllUnlocked
<1> QED
  BY <1>1, ExecutorInvariant, PTL

\* The handlers whose release is made in no one's name, so that it is not
\* refused: a release of recipients is, when the certifier has lost its
\* permission meanwhile (users/daemon.go:235).
ReleasesUnchecked == \A h \in Handlers : Call[h].type # "TransactionEncrypt"

\* Where no release can be refused, every lock is given back
\* (executor/channel_requests.go:200): when no handler is running, no channel
\* and no user is locked, as long as no server was stopped.
THEOREM LocksComeBack == ReleasesUnchecked => (ExecutorSpec => []LocksReturned)
<1> SUFFICES ASSUME ReleasesUnchecked PROVE ExecutorSpec => []LocksReturned
  OBVIOUS
<1>1. ExecutorInv => ~ReleaseRefused
  <2> SUFFICES ASSUME ExecutorInv,
                      NEW q \in Requests, q[2] = "release", Finished(q)
               PROVE  q \in ran
    BY DEF ReleaseRefused
  <2>1. q = <<q[1], "release">> /\ q[1] \in Handlers /\ Asks(q[1])
    BY RequestKinds
  <2>2. Request[q].skipPermissions
    BY <2>1, ReadAndRelease DEF ReleasesUnchecked
  <2> QED
    BY <2>1, <2>2, ServesHandlers DEF ExecutorInv, ReleaseInv, Finished
<1>2. ExecutorInv => NoFatal
  BY DEF ExecutorInv, UsersInv, NoFatalUnlock, NoFatal
<1>3. ExecutorInv => LocksReturned
  BY <1>1, <1>2, AllUnlocked
  DEF LocksReturned, AllReturned, ChannelsUnlocked, UsersUnlocked
<1> QED
  BY <1>3, ExecutorInvariant, PTL
=============================================================================
