------------------------------ MODULE Executor ------------------------------
(***************************************************************************)
(* The executor's handlers (src/executor) with the servers they call: the  *)
(* locker, the users server, the keys, the channels and, while a channel   *)
(* opens, the decryptor.  A handler holds the lock of its channel, and     *)
(* that of the users it asked about, across several calls; every call that *)
(* may wait is a step of its own.  The users server is the whole of        *)
(* Users.tla, which gets the requests the handlers make and no others; a   *)
(* channel record and what is done to it is ChannelRecord.  The program    *)
(* may also stop the servers one after the other (src/daemon).             *)
(***************************************************************************)
EXTENDS Users, ChannelRecord, Sequences

CONSTANTS
    Handlers,      \* the requests of the executor, by their tickets
    Call,          \* what each asks for
    Refed,         \* the request a buffered message comes back as
    Channels,      \* the channel ids
    NumExecutors,  \* the workers of the executor
    MayStop        \* whether the program may be told to terminate

ASSUME ExecutorsAssumption == NumExecutors \in Nat \ {0}

usersOnly == {"UsersRequest", "TransactionEncrypt"}

asksUsers == {"ReadChannel", "AddChannel", "TransactionEncrypt"}

CallTypes ==
    usersOnly \cup asksUsers
      \cup {"CloseChannel", "AddMessage", "SubscribeChannel", "ChannelEncrypt"}

\* Where a handler dereferences the signers it does not check (ReadChannel,
\* ChannelEncrypt) they are there, and so they are where the users server
\* asks for them (TransactionEncrypt).
ASSUME CallAssumption ==
    \A h \in Handlers :
       /\ Call[h].type \in CallTypes
       /\ Call[h].channel \in Channels
       /\ Call[h].type \in {"ReadChannel", "ChannelEncrypt",
                            "TransactionEncrypt"} => Call[h].certifier # Nobody

Unverified == {h \in Handlers : Call[h].type = "AddMessage" /\ Call[h].failed}

\* A message that could not be verified comes back as a request of its own,
\* and as one that is verified: what fails twice is dropped.
ASSUME RefedAssumption ==
    /\ Refed \in [Unverified -> Handlers \ Unverified]
    /\ \A m, n \in Unverified : Refed[m] = Refed[n] => m = n

VARIABLES
    stage,     \* where each handler is
    outcome,   \* the final statuses it reported
    rlocks,    \* the read locks on each channel (locker)
    wlock,     \* who has or waits for its write lock
    keys,      \* the ids of the keys in the store
    chans,     \* the records of the channels that have one
    keyOf,     \* the key id of an open channel
    buffers,   \* the messages buffered for each channel
    unfed,     \* what a handler still has to hand to the decryptor
    fed,       \* what it waits for
    stopping,  \* how many of the servers were told to stop
    issued,    \* the requests made to the users server
    dropped,   \* those it closed unanswered when it stopped
    panicked   \* an answer of the channels servers was not there

userVars    == <<store, readers, writer, pc, todo, result, ran>>
lockerVars  == <<rlocks, wlock>>
channelVars == <<chans, keyOf, buffers>>
feedVars    == <<unfed, fed>>
requestVars == <<issued, dropped>>

executorVars ==
    <<stage, outcome, lockerVars, keys, channelVars, feedVars, stopping,
      requestVars, userVars, fatal, panicked>>

-----------------------------------------------------------------------------
(***************************************************************************)
(* The requests to the users server.                                       *)
(***************************************************************************)
\* Mutant: the certifier is not left locked.
leaveLockedNot == [readLock |-> TRUE, readUnlock |-> TRUE]

leaveLocked == [readLock |-> TRUE, readUnlock |-> FALSE]

\* Without a certifier nothing is asked.
UserRequests ==
    {<<h, use>> : h \in {g \in Handlers : /\ Call[g].type \in asksUsers
                                          /\ Call[g].certifier # Nobody},
                  use \in {"read", "release"}}
      \cup {<<h, "update">> : h \in {g \in Handlers :
                                        Call[g].type = "UsersRequest"}}
      \cup {<<h, "peek">> : h \in {g \in Handlers :
                                      Call[g].type = "AddMessage"}}

\* Recipients are read in the name of the signers, a certifier and the
\* signers of a buffered message without a check.
UserRequest ==
    [q \in UserRequests |->
        LET call == Call[q[1]]
            reading(unchecked, subjects, locking) ==
               [type |-> "read", skipPermissions |-> unchecked,
                issuer |-> call.issuer, certifier |-> call.certifier,
                subjects |-> subjects, readLock |-> locking.readLock,
                readUnlock |-> locking.readUnlock]
            locking == CASE q[2] = "read" -> leaveLocked
                         [] q[2] = "release" -> [readLock |-> FALSE,
                                                 readUnlock |-> TRUE]
                         [] OTHER -> [readLock |-> TRUE, readUnlock |-> TRUE]
        IN  CASE q[2] = "update" -> call.request
              [] q[2] = "peek" -> reading(TRUE, call.signers, locking)
              [] call.type = "TransactionEncrypt" ->
                    reading(FALSE, call.recipients, locking)
              [] OTHER -> reading(TRUE, {call.certifier}, locking)]

\* A release follows the read it undoes.
Follows == [q \in UserRequests |-> IF q[2] = "release" THEN <<q[1], "read">>
                                                       ELSE Nobody]

ASSUME ServesHandlers ==
    Requests = UserRequests /\ Request = UserRequest /\ After = Follows

ASSUME TicketAssumption == Nobody \notin Handlers

\* What a client reads is locked and unlocked again
\* (executor/user_requests.go:24); each creation is of a user of its own.
ASSUME UpdatesAssumption ==
    \A h \in Handlers : Call[h].type = "UsersRequest" =>
       /\ Call[h].request.type = "read" =>
             Call[h].request.readLock /\ Call[h].request.readUnlock
       /\ \A g \in Handlers :
             /\ g # h /\ Call[g].type = "UsersRequest"
             /\ Call[g].request.type = "create"
             /\ Call[h].request.type = "create"
             => Call[g].request.subject # Call[h].request.subject

\* The servers in the order in which they are stopped, without those whose
\* stop no handler notices (the pipeline before, the status and the locker
\* after them).
Servers == <<"decryptor", "keys", "users", "listeners", "messages", "channels",
             "executor">>

\* The one of the three channels servers a handler calls.
serverOf(h) ==
    CASE Call[h].type = "SubscribeChannel" -> "listeners"
      [] Call[h].type = "AddMessage"       -> "messages"
      [] OTHER                             -> "channels"

Up(server) == \A i \in 1..stopping : Servers[i] # server

Answered(q) == Finished(q) \/ q \in dropped

Succeeded(q) == Finished(q) /\ result[q] = "success"

Serve(q) ==
    /\ ~panicked
    /\ q \in issued \ dropped
    /\ Work(q)
    /\ UNCHANGED <<stage, outcome, lockerVars, keys, channelVars, feedVars,
                   stopping, requestVars, panicked>>

-----------------------------------------------------------------------------
ExecutorInit ==
    /\ Init
    /\ stage = [h \in Handlers |->
                   IF \E m \in DOMAIN Refed : Refed[m] = h THEN "unsent"
                                                           ELSE "queued"]
    /\ outcome = [h \in Handlers |-> << >>]
    /\ rlocks = [c \in Channels |-> 0]
    /\ wlock = [c \in Channels |-> Nobody]
    /\ keys = {}
    /\ chans = << >>
    /\ keyOf = [c \in Channels |-> Nobody]
    /\ buffers = [c \in Channels |-> {}]
    /\ unfed = [h \in Handlers |-> {}]
    /\ fed = [h \in Handlers |-> Nobody]
    /\ stopping = 0
    /\ issued = {}
    /\ dropped = {}
    /\ panicked = FALSE

Running(h) == stage[h] \notin {"unsent", "queued", "dropped", "done"}

Done(h) == stage[h] = "done"

Goto(h, next) == stage' = [stage EXCEPT ![h] = next]

Report(h, status, next) ==
    /\ outcome' = [outcome EXCEPT ![h] = Append(@, status)]
    /\ Goto(h, next)

\* Mutant: a refused request returns without its deferred calls.
deferredNot(h) == "done"

\* What a handler that holds its locks still does when it returns.
deferred(h) ==
    IF Call[h].type \in asksUsers THEN "release" ELSE "unlock"

\* A handler without the lock of a channel just returns.
unlocking(h) ==
    IF Call[h].type \in usersOnly THEN "done" ELSE "unlock"

-----------------------------------------------------------------------------
(***************************************************************************)
(* From the queue to the locks.                                            *)
(***************************************************************************)
needsSigners == {"AddChannel", "CloseChannel", "SubscribeChannel"}

\* What these two carry is not decoded by their handlers.
parsed == CallTypes \ {"AddMessage", "SubscribeChannel"}

Start(h) ==
    /\ stage[h] = "queued"
    /\ Cardinality({g \in Handlers : Running(g)}) < NumExecutors
    /\ IF \/ Call[h].type \in parsed /\ ~Call[h].wellFormed
          \/ Call[h].type \in needsSigners /\ Call[h].certifier = Nobody
         THEN Report(h, "rejected", "done")
         ELSE /\ Goto(h, IF Call[h].type \in usersOnly THEN "users"
                                                       ELSE "lock")
              /\ UNCHANGED outcome
    /\ UNCHANGED <<lockerVars, keys, channelVars, feedVars, stopping,
                   requestVars, userVars, fatal, panicked>>

\* Mutant: a channel is closed under a read lock.
LockTypeShared(h) ==
    IF Call[h].type \in {"AddChannel", "AddMessage"} THEN "write" ELSE "read"

LockType(h) ==
    IF Call[h].type \in {"AddChannel", "CloseChannel", "AddMessage"}
      THEN "write" ELSE "read"

locked(h) ==
    /\ Goto(h, IF Call[h].type \in asksUsers THEN "users" ELSE "act")
    /\ UNCHANGED <<outcome, keys, channelVars, feedVars, stopping,
                   requestVars, userVars, fatal, panicked>>

RLockChannel(h) ==
    LET c == Call[h].channel
    IN  /\ stage[h] = "lock" /\ LockType(h) = "read"
        /\ wlock[c] = Nobody
        /\ rlocks' = [rlocks EXCEPT ![c] = @ + 1]
        /\ UNCHANGED wlock
        /\ locked(h)

\* A writer keeps new readers out from when it starts to wait.
AwaitChannelReaders(h) ==
    LET c == Call[h].channel
    IN  /\ stage[h] = "lock" /\ LockType(h) = "write"
        /\ wlock[c] = Nobody
        /\ wlock' = [wlock EXCEPT ![c] = h]
        /\ Goto(h, "wait")
        /\ UNCHANGED <<outcome, rlocks, keys, channelVars, feedVars, stopping,
                       requestVars, userVars, fatal, panicked>>

LockChannel(h) ==
    /\ stage[h] = "wait"
    /\ rlocks[Call[h].channel] = 0
    /\ UNCHANGED lockerVars
    /\ locked(h)

-----------------------------------------------------------------------------
(***************************************************************************)
(* Asking the users server, which refuses requests once it is stopped.     *)
(***************************************************************************)
question(h) == IF Call[h].type = "UsersRequest" THEN <<h, "update">>
                                                ELSE <<h, "read">>

AskUsers(h) ==
    /\ stage[h] = "users"
    /\ IF Up("users")
         THEN /\ issued' = issued \cup {question(h)}
              /\ Goto(h, "asking")
              /\ UNCHANGED outcome
         ELSE /\ Report(h, "rejected", unlocking(h))
              /\ UNCHANGED issued
    /\ UNCHANGED <<lockerVars, keys, channelVars, feedVars, stopping, dropped,
                   userVars, fatal, panicked>>

UsersRequestAnswered(h) ==
    /\ stage[h] = "asking" /\ Call[h].type = "UsersRequest"
    /\ Answered(question(h))
    /\ Report(h, CASE question(h) \in dropped   -> "rejected"
                   [] Succeeded(question(h))    -> "success"
                   [] OTHER                     -> "failed", "done")
    /\ UNCHANGED <<lockerVars, keys, channelVars, feedVars, stopping,
                   requestVars, userVars, fatal, panicked>>

\* The permission of the certifier a handler checks itself.
permitted(h) ==
    LET mayCertify(p) == Has(store[Call[h].certifier], p)
    IN  CASE Call[h].type = "AddChannel" ->
                mayCertify("permissions.channel.add")
          [] Call[h].type = "ReadChannel" ->
                mayCertify("permissions.channel.read")
          [] Call[h].type = "TransactionEncrypt" -> TRUE

\* Mutant: a certifier that may not is reported, and the handler goes on.
UsersReadGoesOn(h) ==
    /\ stage[h] = "asking" /\ Call[h].type \in asksUsers
    /\ Answered(question(h))
    /\ IF Succeeded(question(h))
         THEN /\ Goto(h, CASE Call[h].type = "AddChannel" -> "key"
                           [] Call[h].type = "ReadChannel" -> "act"
                           [] OTHER -> "encrypt")
              /\ outcome' = IF permitted(h) THEN outcome
                              ELSE [outcome EXCEPT ![h] = Append(@, "rejected")]
         ELSE Report(h, "rejected", unlocking(h))
    /\ UNCHANGED <<lockerVars, keys, channelVars, feedVars, stopping,
                   requestVars, userVars, fatal, panicked>>

\* The user objects the answer carries are copies, taken while the records
\* are locked; the records stay locked, so the copies are the records.
UsersRead(h) ==
    /\ stage[h] = "asking" /\ Call[h].type \in asksUsers
    /\ Answered(question(h))
    /\ IF ~Succeeded(question(h))
         THEN Report(h, "rejected", unlocking(h))
         ELSE IF ~permitted(h)
           THEN Report(h, "rejected", deferred(h))
           ELSE /\ Goto(h, CASE Call[h].type = "AddChannel" -> "key"
                             [] Call[h].type = "ReadChannel" -> "act"
                             [] OTHER -> "encrypt")
                /\ UNCHANGED outcome
    /\ UNCHANGED <<lockerVars, keys, channelVars, feedVars, stopping,
                   requestVars, userVars, fatal, panicked>>

-----------------------------------------------------------------------------
(***************************************************************************)
(* With the locks.                                                         *)
(***************************************************************************)
\* Mutant: the error of the keys server is not looked at.
AddKeyUnchecked(h) ==
    /\ stage[h] = "key"
    /\ keys' = IF Up("keys") THEN keys \cup {Call[h].keyId} ELSE keys
    /\ Goto(h, "act")
    /\ UNCHANGED <<outcome, lockerVars, channelVars, feedVars, stopping,
                   requestVars, userVars, fatal, panicked>>

AddKey(h) ==
    /\ stage[h] = "key"
    /\ IF Up("keys")
         THEN /\ keys' = keys \cup {Call[h].keyId}
              /\ Goto(h, "act")
              /\ UNCHANGED outcome
         ELSE /\ Report(h, "rejected", deferred(h))
              /\ UNCHANGED keys
    /\ UNCHANGED <<lockerVars, channelVars, feedVars, stopping, requestVars,
                   userVars, fatal, panicked>>

KnownChannels == DOMAIN chans

RecordOf(c) == IF c \in KnownChannels THEN chans[c] ELSE emptyChannelRecord

SetRecord(c, rec) ==
    chans' = [d \in KnownChannels \cup {c} |-> IF d = c THEN rec ELSE chans[d]]

\* What the servers check before they queue a request, as far as the handler
\* has not checked it.
sanitizeAndValidate(h) ==
    /\ Call[h].type = "AddChannel" => DOMAIN Call[h].opening.permissions # {}
    /\ Call[h].type = "AddMessage" /\ ~Call[h].failed =>
          Call[h].wellFormed /\ Call[h].certifier # Nobody

\* A request is queued, or refused at once, for what it is or since its server
\* is stopped.
MakeRequest(h) ==
    /\ stage[h] = "act"
    /\ IF sanitizeAndValidate(h) /\ Up(serverOf(h))
         THEN Goto(h, "called") /\ UNCHANGED outcome
         ELSE Report(h, "rejected", deferred(h))
    /\ UNCHANGED <<lockerVars, keys, channelVars, feedVars, stopping,
                   requestVars, userVars, fatal, panicked>>

\* A worker of the server takes the request.
acts(h, type) ==
    /\ stage[h] = "called" /\ Call[h].type = type
    /\ UNCHANGED <<lockerVars, keys, fed, stopping, requestVars, userVars,
                   fatal, panicked>>

ReadChannel(h) ==
    /\ acts(h, "ReadChannel")
    /\ Report(h, IF Call[h].channel \in KnownChannels THEN "success"
                                                      ELSE "rejected",
              deferred(h))
    /\ UNCHANGED <<channelVars, unfed>>

\* An opening goes on with what is buffered for the channel.
AddChannel(h) ==
    LET c == Call[h].channel
    IN  /\ acts(h, "AddChannel")
        /\ IF canOpen(RecordOf(c), Call[h].opening)
             THEN /\ SetRecord(c, tryOpen(RecordOf(c), Call[h].opening))
                  /\ keyOf' = [keyOf EXCEPT ![c] = Call[h].keyId]
                  /\ unfed' = [unfed EXCEPT ![h] = buffers[c]]
                  /\ Goto(h, "feeding")
                  /\ UNCHANGED outcome
             ELSE /\ SetRecord(c, RecordOf(c))
                  /\ Report(h, "rejected", deferred(h))
                  /\ UNCHANGED <<keyOf, unfed>>
        /\ UNCHANGED buffers

CloseChannel(h) ==
    LET c == Call[h].channel
    IN  /\ acts(h, "CloseChannel")
        /\ IF canClose(RecordOf(c), Call[h].closure)
             THEN /\ SetRecord(c, tryClose(RecordOf(c), Call[h].closure))
                  /\ Report(h, "success", deferred(h))
             ELSE /\ SetRecord(c, RecordOf(c))
                  /\ Report(h, "rejected", deferred(h))
        /\ UNCHANGED <<keyOf, buffers, unfed>>

AddMessage(h) ==
    LET c == Call[h].channel
    IN  /\ acts(h, "AddMessage") /\ ~Call[h].failed
        /\ IF canAddMessage(RecordOf(c), Call[h].message)
             THEN /\ SetRecord(c, addMessage(RecordOf(c), Call[h].message))
                  /\ Report(h, "success", deferred(h))
             ELSE /\ SetRecord(c, RecordOf(c))
                  /\ Report(h, "failed", deferred(h))
        /\ UNCHANGED <<keyOf, buffers, unfed>>

\* A message that failed goes back to the decryptor if the channel has been
\* opened meanwhile.
BufferOperation(h) ==
    LET c == Call[h].channel
    IN  /\ acts(h, "AddMessage") /\ Call[h].failed
        /\ SetRecord(c, RecordOf(c))
        /\ IF RecordOf(c).state # "buffered"
             THEN /\ unfed' = [unfed EXCEPT ![h] = {h}]
                  /\ Goto(h, "feeding")
                  /\ UNCHANGED <<outcome, buffers>>
             ELSE /\ buffers' = [buffers EXCEPT ![c] = @ \cup {h}]
                  /\ Report(h, "success", deferred(h))
                  /\ UNCHANGED unfed
        /\ UNCHANGED keyOf

\* A refused subscription is reported as a success that carries no channel.
SubscribeChannel(h) ==
    /\ acts(h, "SubscribeChannel")
    /\ SetRecord(Call[h].channel, RecordOf(Call[h].channel))
    /\ Report(h, "success", deferred(h))
    /\ UNCHANGED <<keyOf, buffers, unfed>>

mayEncrypt(h) ==
    LET c == Call[h].channel
    IN  /\ c \in KnownChannels /\ chans[c].state # "buffered"
        /\ Allows(chans[c].permissions, Call[h].certifier, "write")

ReadToEncrypt(h) ==
    /\ acts(h, "ChannelEncrypt")
    /\ IF mayEncrypt(h)
         THEN Goto(h, "encrypt") /\ UNCHANGED outcome
         ELSE Report(h, "rejected", deferred(h))
    /\ UNCHANGED <<channelVars, unfed>>

\* With the key of the channel, or with those of the recipients.
Encrypt(h) ==
    /\ stage[h] = "encrypt"
    /\ Report(h, IF \/ Call[h].type = "TransactionEncrypt"
                    \/ Up("keys") /\ keyOf[Call[h].channel] \in keys
                   THEN "success" ELSE "rejected", deferred(h))
    /\ UNCHANGED <<lockerVars, keys, channelVars, feedVars, stopping,
                   requestVars, userVars, fatal, panicked>>

-----------------------------------------------------------------------------
(***************************************************************************)
(* Feeding messages to the decryptor, under the lock of the channel.       *)
(***************************************************************************)
\* The error of a decryptor that is stopped is ignored, and its nil channel
\* never answers.
Feed(h) ==
    /\ stage[h] = "feeding"
    /\ \E m \in unfed[h] :
          /\ unfed' = [unfed EXCEPT ![h] = @ \ {m}]
          /\ fed' = [fed EXCEPT ![h] = m]
    /\ Goto(h, IF Up("decryptor") THEN "handed" ELSE "blocked")
    /\ UNCHANGED <<outcome, lockerVars, keys, channelVars, stopping,
                   requestVars, userVars, fatal, panicked>>

\* A worker of the decryptor looks up the signing keys of the message.
VerifyFed(h) ==
    /\ stage[h] = "handed"
    /\ issued' = issued \cup {<<fed[h], "peek">>}
    /\ Goto(h, "verifying")
    /\ UNCHANGED <<outcome, lockerVars, keys, channelVars, feedVars, stopping,
                   dropped, userVars, fatal, panicked>>

\* What verifies comes back to the executor; the rest is dropped.
FedAnswered(h) ==
    LET m == fed[h]
        accepted == Succeeded(<<m, "peek">>) /\ Call[m].verifies
    IN  /\ stage[h] = "verifying"
        /\ Answered(<<m, "peek">>)
        /\ stage' = [g \in Handlers |->
                        CASE g = h -> "feeding"
                          [] g = Refed[m] /\ accepted -> "queued"
                          [] OTHER -> stage[g]]
        /\ fed' = [fed EXCEPT ![h] = Nobody]
        /\ UNCHANGED <<outcome, lockerVars, keys, channelVars, unfed, stopping,
                       requestVars, userVars, fatal, panicked>>

\* !ok: a decryptor that stops closes the channels of what it has queued.
BufferError(h) ==
    /\ stage[h] = "handed"
    /\ ~Up("decryptor")
    /\ Report(h, IF Call[h].type = "AddChannel" THEN "rejected" ELSE "failed",
              deferred(h))
    /\ unfed' = [unfed EXCEPT ![h] = {}]
    /\ fed' = [fed EXCEPT ![h] = Nobody]
    /\ UNCHANGED <<lockerVars, keys, channelVars, stopping, requestVars,
                   userVars, fatal, panicked>>

FinishFeeding(h) ==
    LET c == Call[h].channel
    IN  /\ stage[h] = "feeding" /\ unfed[h] = {}
        /\ IF Call[h].type = "AddChannel"
             THEN /\ buffers' = [buffers EXCEPT ![c] = {}]
                  /\ \E rec \in applyCloseAttempts(chans[c]) :
                        SetRecord(c, rec)
             ELSE UNCHANGED <<buffers, chans>>
        /\ Report(h, "success", deferred(h))
        /\ UNCHANGED <<lockerVars, keys, keyOf, feedVars, stopping,
                       requestVars, userVars, fatal, panicked>>

-----------------------------------------------------------------------------
(***************************************************************************)
(* The deferred calls.                                                     *)
(***************************************************************************)
\* The error of a users server that is stopped is ignored as well.
ReleaseUsers(h) ==
    /\ stage[h] = "release"
    /\ IF Up("users")
         THEN /\ issued' = issued \cup {<<h, "release">>}
              /\ Goto(h, "releasing")
         ELSE Goto(h, "blocked") /\ UNCHANGED issued
    /\ UNCHANGED <<outcome, lockerVars, keys, channelVars, feedVars, stopping,
                   dropped, userVars, fatal, panicked>>

UsersReleased(h) ==
    /\ stage[h] = "releasing"
    /\ Answered(<<h, "release">>)
    /\ Goto(h, unlocking(h))
    /\ UNCHANGED <<outcome, lockerVars, keys, channelVars, feedVars, stopping,
                   requestVars, userVars, fatal, panicked>>

UnlockChannel(h) ==
    LET c == Call[h].channel
    IN  /\ stage[h] = "unlock"
        /\ IF LockType(h) = "read"
             THEN /\ fatal' = (rlocks[c] = 0)
                  /\ rlocks' = [rlocks EXCEPT ![c] = IF @ = 0 THEN 0 ELSE @ - 1]
                  /\ UNCHANGED wlock
             ELSE /\ fatal' = (wlock[c] = Nobody)
                  /\ wlock' = [wlock EXCEPT ![c] = Nobody]
                  /\ UNCHANGED rlocks
        /\ Goto(h, "done")
        /\ UNCHANGED <<outcome, keys, channelVars, feedVars, stopping,
                       requestVars, userVars, panicked>>

-----------------------------------------------------------------------------
(***************************************************************************)
(* Termination: a server that is told to stop refuses requests at once,    *)
(* ends or closes those it has, and only then the next one is told.        *)
(***************************************************************************)
AtServer(h) ==
    \/ stage[h] \in {"called", "feeding", "handed", "verifying"}
    \/ stage[h] = "blocked" /\ fed[h] # Nobody

Idle(server) ==
    CASE server = "decryptor" ->
            \A h \in Handlers : stage[h] \notin {"handed", "verifying"}
      [] server = "keys"      -> TRUE
      [] server = "users"     -> \A q \in issued : Answered(q)
      [] server \in {"listeners", "messages", "channels"} ->
            \A h \in Handlers : serverOf(h) = server => ~AtServer(h)
      [] server = "executor"  -> \A h \in Handlers :
                                    stage[h] # "queued" /\ ~Running(h)

ShutdownNext ==
    /\ MayStop
    /\ stopping <= Len(Servers)
    /\ stopping # 0 => Idle(Servers[stopping])
    /\ stopping' = stopping + 1
    /\ UNCHANGED <<stage, outcome, lockerVars, keys, channelVars, feedVars,
                   requestVars, userVars, fatal, panicked>>

DropUserRequest(q) ==
    /\ ~Up("users")
    /\ q \in issued \ dropped /\ pc[q] = "queued"
    /\ dropped' = dropped \cup {q}
    /\ UNCHANGED <<stage, outcome, lockerVars, keys, channelVars, feedVars,
                   stopping, issued, userVars, fatal, panicked>>

\* The channels servers close the channel of a request they have queued as
\* well, but what passes their answers on does not expect it: it dereferences
\* the answer that is not there, which ends the program.
DropCall(h) ==
    /\ stage[h] = "called"
    /\ ~Up(serverOf(h))
    /\ panicked' = TRUE
    /\ UNCHANGED <<stage, outcome, lockerVars, keys, channelVars, feedVars,
                   stopping, requestVars, userVars, fatal>>

DropHandler(h) ==
    /\ ~Up("executor")
    /\ stage[h] = "queued"
    /\ Goto(h, "dropped")
    /\ UNCHANGED <<outcome, lockerVars, keys, channelVars, feedVars, stopping,
                   requestVars, userVars, fatal, panicked>>

-----------------------------------------------------------------------------
TakeLock(h) == RLockChannel(h) \/ AwaitChannelReaders(h) \/ LockChannel(h)

Ask(h) == AskUsers(h) \/ UsersRequestAnswered(h) \/ UsersRead(h)

Act(h) ==
    \/ AddKey(h) \/ MakeRequest(h) \/ ReadChannel(h) \/ AddChannel(h)
    \/ CloseChannel(h) \/ AddMessage(h) \/ BufferOperation(h)
    \/ SubscribeChannel(h) \/ ReadToEncrypt(h) \/ Encrypt(h)

FeedBuffer(h) ==
    \/ Feed(h) \/ VerifyFed(h) \/ FedAnswered(h) \/ BufferError(h)
    \/ FinishFeeding(h)

GiveBack(h) == ReleaseUsers(h) \/ UsersReleased(h) \/ UnlockChannel(h)

Handle(h) ==
    /\ ~fatal /\ ~panicked
    /\ \/ Start(h) \/ TakeLock(h) \/ Ask(h) \/ Act(h)
       \/ FeedBuffer(h) \/ GiveBack(h)

Stop ==
    /\ ~fatal /\ ~panicked
    /\ \/ ShutdownNext
       \/ \E q \in UserRequests : DropUserRequest(q)
       \/ \E h \in Handlers : DropHandler(h) \/ DropCall(h)

ExecutorNext ==
    \/ \E h \in Handlers : Handle(h)
    \/ \E q \in UserRequests : Serve(q)
    \/ Stop

ExecutorSpec == ExecutorInit /\ [][ExecutorNext]_executorVars

\* The workers go on as long as one of them can, and so do the servers that
\* are told to stop.  Every step brings a request nearer to its end, so none
\* is passed over for good and nothing stronger is needed.
Fairness ==
    /\ WF_executorVars(\E h \in Handlers : Handle(h))
    /\ WF_executorVars(\E q \in UserRequests : Serve(q))
    /\ WF_executorVars(stopping # 0 /\ Stop)

FairExecutorSpec == ExecutorSpec /\ Fairness

-----------------------------------------------------------------------------
(***************************************************************************)
(* Properties.                                                             *)
(***************************************************************************)
Stages == {"unsent", "queued", "lock", "wait", "users", "asking", "key", "act",
           "called", "feeding", "handed", "verifying", "encrypt", "release",
           "releasing", "blocked", "unlock", "dropped", "done"}

\* Every variable has its type.
ExecutorTypeOK ==
    /\ TypeOK
    /\ stage \in [Handlers -> Stages]
    /\ outcome \in [Handlers -> Seq({"success", "failed", "rejected"})]
    /\ rlocks \in [Channels -> Nat]
    /\ wlock \in [Channels -> Handlers \cup {Nobody}]
    /\ keys \subseteq {Call[h].keyId : h \in Handlers}
    /\ KnownChannels \subseteq Channels
    /\ \A c \in KnownChannels : chans[c].state \in States
    /\ keyOf \in [Channels -> {Call[h].keyId : h \in Handlers} \cup {Nobody}]
    /\ buffers \in [Channels -> SUBSET Handlers]
    /\ unfed \in [Handlers -> SUBSET Handlers]
    /\ fed \in [Handlers -> Handlers \cup {Nobody}]
    /\ stopping \in 0..(Len(Servers) + 1)
    /\ issued \subseteq UserRequests
    /\ dropped \subseteq issued
    /\ panicked \in BOOLEAN

\* A request has exactly one final status once its handler is through, and
\* never a second one (executor/daemon.go:56): no path reports a rejection
\* and goes on to report what became of it.
OneOutcome ==
    \A h \in Handlers :
        /\ Len(outcome[h]) <= 1
        /\ Done(h) => Len(outcome[h]) = 1

\* From the check of the certifier's permission to the end of the opening,
\* the certifier has the permission (executor/channel_requests.go:206): no
\* revocation comes between.
ActsUnderPermission ==
    \A h \in Handlers :
        Call[h].type = "AddChannel"
          /\ stage[h] \in {"key", "act", "called", "feeding", "handed",
                              "verifying"} =>
            Has(store[Call[h].certifier], "permissions.channel.add")

\* The key of a channel that is open is in the store, whatever server was
\* stopped while it opened (executor/channel_requests.go:239).
OpenChannelHasKey ==
    \A c \in KnownChannels : chans[c].state # "buffered" => keyOf[c] \in keys

\* No handler releases a lock of a channel or of a user that is not held
\* (executor/channel_requests.go:227): Go ends the program when that happens.
NoFatal == ~fatal

\* Every lock is given back exactly once: none that is not held, and, unless
\* servers were stopped, no channel and no user is locked when no handler is
\* running (executor/channel_requests.go:200), whatever return it took.
LocksReturned ==
    /\ NoFatal
    /\ (stopping = 0 /\ \A h \in Handlers : ~Running(h)) =>
          /\ \A c \in Channels : rlocks[c] = 0 /\ wlock[c] = Nobody
          /\ \A i \in Ids : readers[i] = 0 /\ writer[i] = Nobody

\* The channel an operation is encrypted for is the one whose permissions
\* were read (executor/channel_requests.go:402): it changes neither its state
\* nor its permissions in between.
EncryptSnapshot ==
    [][\A h \in Handlers :
          stage[h] = "encrypt" /\ Call[h].type = "ChannelEncrypt" =>
             chans'[Call[h].channel] = chans[Call[h].channel]]_executorVars

\* An opening waits for itself: it keeps the record of its certifier read
\* locked, a writer waits for that record, and the message the opening has
\* handed to the decryptor is verified with a key of that record.
WaitsForItself(h) ==
    /\ stage[h] = "verifying"
    /\ Call[h].certifier \in Call[fed[h]].signers
    /\ writer[Call[h].certifier] # Nobody

\* Every handler ends as long as no server is stopped: none waits for good
\* for a lock, a worker or an answer (executor/daemon.go:43, core/sync.go:2).
HandlersReturn ==
    \A h \in Handlers : Running(h) ~> Done(h) \/ stopping # 0

\* Nothing but an opening that waits for itself keeps the handlers from
\* coming to rest (executor/channel_requests.go:213), as long as no update
\* waits for what a read left locked (see OnlyCirclesBlock of Users).
OnlyOpeningsBlock ==
    (\E h \in Handlers : Running(h)) ~>
        \/ \A h \in Handlers : ~Running(h)
        \/ stopping # 0
        \/ \E h \in Handlers : WaitsForItself(h)

\* Once the program is told to terminate it ends: all the servers are shut
\* down (daemon/shutdown.go:98), or it panics.
ShutdownCompletes ==
    stopping # 0 ~> stopping > Len(Servers) \/ panicked

\* The release of what a handler has read was dropped, and an update waits
\* for it.
LostRelease(h) ==
    /\ <<h, "release">> \in dropped
    /\ \E i \in staysLocked(Request[<<h, "read">>]) : writer[i] # Nobody

\* What keeps a server from being shut down: a handler that reads from the
\* nil channel of a server that is stopped, one whose release was dropped, or
\* an opening that waits for itself.
Stranded(h) == stage[h] = "blocked" \/ LostRelease(h) \/ WaitsForItself(h)

\* Once it is told to terminate the program ends, whatever calls of its
\* handlers are refused or dropped, unless one of those three lasts for good:
\* no handler that returns early because a server is stopped leaves a lock
\* behind for which another one waits (executor/channel_requests.go:200).
OnlyStrandedBlockShutdown ==
    stopping # 0 ~>
        \/ stopping > Len(Servers) \/ panicked
        \/ [](\E h \in Handlers : Stranded(h))
=============================================================================
