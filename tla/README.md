# A verification project for DMPC

DMPC is a daemon for end-to-end encrypted channels between users.  This
directory holds TLA+ models of its servers, configurations that check them on
small instances with TLC, and proofs, checked by TLAPS, of what matters most
about them for every instance.  Paths below are relative to `src/`.

- [1. The system](#1-the-system): inventory, interactions, what is hard
- [2. Modules](#2-modules): what models what
- [3. Runs](#3-runs): what is checked, bounds, fairness, disagreements found
- [4. Proofs](#4-proofs)
- [5. What is not modelled, and the plan](#5-what-is-not-modelled-and-the-plan)

## 1. The system

### 1.1 Components

Every server is a `gofarm` server: requests enter a queue, `NumWorkers` workers
take them and run `Work` to its end, and the answer comes on a channel of the
request.  A server that is shut down refuses new requests and closes the
channels of the requests it has not answered.

| component | state | operations |
|---|---|---|
| **channels** (`channels/`): three servers | per channel id: a record (state `buffered`, `open`, `closed` or `inconsistent`, opening, permissions, closure, early closures, messages in time order), a buffer of operations, the listeners with their event channels | open, close, read; add a message, buffer an operation that cannot be decrypted yet; subscribe, unsubscribe |
| **status** (`status/`): two servers | per ticket: a record (status, reason, payload, errors), the update channels of its listeners | new ticket, update the status, add a listener |
| **users** (`users/`) | per user: a record whose attributes (keys, permissions, active) each carry the time of their last update, and a read/write lock | create, update, read; a read may lock without unlocking, or unlock without locking |
| **record locking** (`core/sync.go`) | none | lock needs made unique per record, sorted, locked one by one |
| **locker** (`locker/`) | locks by resource type and id, held across requests | lock, unlock |
| **executor** (`executor/`) | none of its own | one handler per request type: lock, check permissions, pass to the other servers, report the status, unlock by `defer` |
| **decryptor** (`decryptor/`) | keys of the daemon | decrypt a transaction, decrypt and verify its operation, then queue it for the executor, buffer it or drop it |
| **keys** (`keys/`) | symmetric keys by id | add, encrypt, decrypt |
| **operations and transactions** (`core/crypto.go`, `core/operation.go`) | none | sign, encrypt, decrypt, verify; decide whether a failed operation is dropped |
| **pipeline** (`pipeline/`) | per websocket: a conversation with its transactions, their quit and done channels | pass a transaction to the decryptor, write the updates and the result of its ticket |
| **daemon** (`daemon/`) | none | start from the installed files, stop the servers in order |
| **cli** (`cli/`) | the files of one directory | install; commands that build transactions and talk to the pipeline |

### 1.2 How they interact

    pipeline --transaction--> decryptor --operation--> executor --> users, keys
       ^                        ^    |  \                  |   \--> locker
       |                        |    |   `-BufferOperation-+-> channels
       |                        `----+---- operations re-fed at the opening
       `------ update channels ----- status <---- status reports

- The executor answers nothing itself: it reports to **status**, and the
  pipeline reads the update channel it asked for with the ticket.  What is
  sent on it is the pointer to the one stored record.
- A message that arrives before its channel's opening cannot be decrypted.  It
  is buffered; the opening hands the buffer back to the **decryptor**, which
  queues the operations for the **executor**, which adds them as messages.  The
  opening waits for the decryptor while it holds the channel's lock.
- The **decryptor** reads the signers' keys from **users** while the executor
  may have left user records locked there.

### 1.3 What is hard, and what makes each part correct

- **channels**: openings, closures and messages may arrive in any order.  The
  closure that counts must be an admissible one that none precedes in time; the
  channel must hold the admissible messages of its duration; nothing buffered
  may be stranded; nobody may listen who may not read; the positions in the
  events must let a reader rebuild the channel; a handler that waits for the
  decryptor must give its lock back.
- **status**: the updates of one ticket run on several workers in any order,
  while listeners join, and with a send on a bounded channel under a write lock.
  No send may block, no channel may be closed twice, no listener may miss the
  end, a reader that looks at the shared record without its lock must see a
  final one.
- **users, record locking**: permissions must still hold when the request runs;
  locks must be given back exactly once though two requests share them; no
  request may wait for itself or in a circle; attributes must converge whatever
  the order of updates.
- **executor, locker**: locks of two servers at once, `defer`red unlocks that
  are requests themselves, handlers of one pool waiting for each other.
- **decryptor, keys**: whether an early message is ever lost for good between
  the key's arrival, the opening and the re-feeding.
- **operations and transactions**: what came unverified, or was signed with a
  key that has changed, must not take effect; one bad challenge must not hide
  the good one.
- **pipeline**: a conversation told to quit while its result is being drained; a
  connection closed by one transaction under another; a send on a full channel
  under the lock of the conversation.
- **daemon**: servers stopped in an order in which a handler may wait for one
  that is gone.
- **cli, daemon**: an installation that is cut short, or installed over another
  one that could not be removed, must not be served as if it were whole.

`PROJECT.json` lists these hazards one by one with their lines and the
properties about them.

## 2. Modules

| module | what it is |
|---|---|
| `ChannelRecord` | the operations on one channel record (`channels/channel_record.go`), as operators |
| `Channels` | the channels, messages and listeners servers on one channel, with the decryptor they wait for |
| `ChannelLifecycle` | what a channel promises: opened once, closed by better and better closures, posted to within its duration |
| `ChannelsProofs` | theorems about `Channels`, the refinement of `ChannelLifecycle` among them |
| `MCChannels` | instances of `Channels` |
| `Status` | the status and listeners servers on one ticket, with the readers of the update channels |
| `StatusProofs` | theorems about `Status` |
| `MCStatus` | instances of `Status` |
| `LockNeeds` | sanitised lock needs (`core/sync.go`) |
| `UserRecord` | a user's record: last-writer-wins updates, authorisation (`users/record.go`) |
| `Users` | the users server: workers, record locks, requests (`users/daemon.go`, `users/sync.go`) |
| `UsersProofs` | theorems about the records of `Users` |
| `UsersLocksProofs` | theorems about the locks and permissions of `Users` |
| `MCUsers` | instances of `Users` |
| `Executor` | the handlers of the executor with all the locks they hold, composed with `Users` (which it extends), the locker, `ChannelRecord`, and the shutdown of the servers |
| `ExecutorProofs` | theorems about `Executor`, that it implements `Users` among them |
| `MCExecutor` | instances of `Executor` |
| `Operations` | operations and transactions symbolically: sealed, signed, challenged (`core/crypto.go`) |
| `Delivery` | the way of a transaction through decryptor, executor, users, keys and channels |
| `DeliveryProofs` | theorems about `Delivery` |
| `MCDelivery` | an instance of `Delivery` |
| `Conversation` | one conversation of the pipeline |
| `ConversationProofs` | theorems about `Conversation` |
| `MCConversation` | an instance of `Conversation` |
| `Install` | installing, and starting the daemon from what was installed |
| `InstallProofs` | theorems about `Install` |
| `MCInstall` | an instance of `Install` |

### 2.1 Channels

Requests on distinct channel ids touch distinct records, so one id is modelled.
A handler holds the lock of its channel record from start to end, so it is one
action; the handlers that wait for the decryptor (`OpenChannelRequest`, and
`BufferOperationRequest` on a channel that is no longer `buffered`) are several,
with `lock` saying which of them waits:

| code | actions |
|---|---|
| open: up to the loop over the buffer; one turn of it; the rest | `OpenChannel`; `Feed`, then `Answer` or `BufferError`; `FinishOpen` |
| close | `CloseChannel` |
| add a message | `AddMessage` |
| buffer an operation | `BufferOperation`, then `Answer` or `BufferError` if it races with the opening |
| subscribe, unsubscribe | `Subscribe`, `Unsubscribe` |
| the decryptor answers, or shuts down | `Answer`, `DecryptorStops` |

`reply` is the channel the handler receives from: `pending` while the decryptor
has the request, `closed` when it was shut down with it, `nil` when it refused
it.  From a nil channel nothing is ever received: no action is enabled for
`reply = "nil"`.  `operationQueuer` names the function the servers were given;
its model is the decryptor's side of it.  `requeued` holds what the decryptor
has given to the executor; it comes back as an `AddMessage`.

The messages of the record are a set: the code keeps their timestamps in the order
of arrival, and only compares and counts them.  The position an event carries counts
the messages that are earlier than the new one; `ReaderAgrees` looks at times only.
The times are naturals with 0 for
Go's zero time.  `sort.Slice` is not stable and compares timestamps alone, so
`FirstAttempts` is the set of all the closures that may come first.

### 2.2 Status

One ticket.  An update holds the record's lock for writing from its check to
its end; between, it writes the status (`WriteStatus`) and then the payload
(`WritePayload`), sends to one listener after another (`SendUpdate`) and closes
the channels if the status is final (`FinishUpdate`).  A listener is added
(`AddListener`) in one step, under the record's read lock.  The readers use no
lock: `Look` is the test for a final status in `pipeline/io.go` and
`GetResponse` takes the record as it is then, which may be between two writes of
an update.  The first request for a ticket, of either kind, creates the record;
an update that does becomes the record itself (`createOrGet`), and then finds
that it is not newer than itself.

### 2.3 Users

A worker takes a request and looks its records up (`Begin`), locks them one by
one in the order of `LockNeeds` (`RLock`, `AwaitReaders`, `Lock`), checks the
certifier (`Check`), runs (`Run`), unlocks in the reverse order (`RUnlock`,
`Unlock`) and answers (`Return`).  Go's `RWMutex` is modelled by its contract: a
writer that waits keeps new readers out (`AwaitReaders` is the beginning of that
wait), locks have no owners, and releasing a lock nobody holds ends the program
(`fatal`).  A request that leaves its subjects locked is followed by one that
releases them (`After`), as the executor does around its handlers; the executor
sends it only after the first one succeeded.  `ReleasesPaired` states this use of
the server: a release names the users of the one read it follows, in the same
name, every other request gives back what it takes, and no two requests create
one user.  It is a definition that theorems about `Users` have as a hypothesis,
and is proved of the requests of `Executor`.

The store is a function from the ids to the records.  Users are never removed,
so the look-up before locking and the one before unlocking find the same
records.  What `memstore` does with a second record of one id is not modelled:
the instances create unknown ids only.

### 2.4 Executor

A handler is a sequence of stages, one per call that may wait; between two calls
it changes nothing that others see.  `Start` takes a request off the queue when a
worker is free and rejects what cannot be decoded (`parsed`: what an added message
carries is decoded by the messages server, and a subscription carries nothing);
then come the lock of the channel (`RLockChannel`, or `AwaitChannelReaders` and `LockChannel`), the users
server (`AskUsers`, `UsersRead`), the keys (`AddKey`), the channel itself, the
re-feeding of a buffer (`Feed`, `VerifyFed`, `FedAnswered`, `BufferError`,
`FinishFeeding`), and what was deferred, in the reverse order (`ReleaseUsers`,
`UsersReleased`, `UnlockChannel`).  The call to the channels, messages or listeners
server (`serverOf`) is two steps: `MakeRequest` validates the request and queues it,
or is refused (stage `called`), and then a worker of that server runs it, one action
per request type, with the operators of `ChannelRecord`.  These servers are taken to
have a worker for every handler that calls them, so a request waits there for the
records only, which the lock of the channel keeps free.  The locker is two variables, `rlocks` and
`wlock`, with the contract of `RWMutex`: a request of the executor locks one
resource, so nothing is left of the locker's own lock needs.

The users server is not simplified: `Executor` extends `Users`, and its
assumption `ServesHandlers` says that the requests of that server are those the
handlers make (`UserRequests`, `UserRequest`), with each release after the read
it undoes (`Follows`).  What the two modules would both call `Init`, `Next` or
`Spec` is `ExecutorInit`, `ExecutorNext`, `ExecutorSpec` here.  A request takes
part once it is in `issued`; until then it stays queued.  A message
that was buffered comes back as a request of its own (`Refed`), which its first
handler only lets into the queue.

The servers stop one after the other (`ShutdownNext`), the three channels servers
one by one as well, each only when its workers are done and its queue is closed; a
server that was told refuses requests (`Up`) and closes the channels of those it has
queued (`DropUserRequest`, `DropHandler`, `DropCall`).  The callers of the users
server expect that.  What passes on the answers of the channels servers does not: it
dereferences the answer that is not there, and the program panics (`panicked`, after
which nothing happens).  A nil channel is the stage `blocked`, from which nothing
leads.

### 2.5 Operations and Delivery

`Operations` is symbolic: what `Seal` returns opens with its key and its nonce
only, and a signature verifies with the key and the payload it was made with
only.  Base64, PEM and hashes are left out; what does not decode is `Damaged` or
`NoSignature`; `IsOperation` is what decodes and has a payload (the decryptor refuses
an empty one like one that does not decode, `decryptor/daemon.go:169`).  A transaction has challenges for its recipients; one for us that comes
out right gives the key.

`Delivery` follows each transaction: `Decrypt` (the decryptor's `Work` up to the
verification), `VerifyPayload`, then what the executor's handler for its
operation does.  Each handler holds the lock of its channel, which `Executor`
checks, so it is one action here (`AddKey` and `OpenChannel` are two, since
messages may be decrypted between them), but for the re-feeding.  What an
operation says (the permissions of an opening, the time of a closure) is
`Content` of its plaintext.  `SentAssumption` says what may arrive: anything, but
that what decodes is an operation, and that the intact challenges of one
transaction name one key, since its sender makes one (`core/crypto.go:211`).  How
often a challenge is repeated, damaged or missing, who signed and with what, is
left open.  A key of a user that was replaced stays in `held`,
which is there for the properties only.

### 2.6 Conversation

The reader and the dispatcher of a conversation, and for each transaction its
writer and its drainer, with the lock they share.  What runs under the lock is
one action; were a send under the lock to find its channel full, the lock would
stay taken (`lock = "stuck"`).  The decryptor and the status servers answer from
outside: with an error, a ticket, a final status that carries a subscription or
does not.  The stages of a writer are those of the function `writer`; writing an
update is once or not at all, since another one changes nothing here (`Status` has
the update channels in detail).  A write fails after the close message, and may
fail once the client is gone.

### 2.7 Install

The disk is a function from the files to the number of the installation that
wrote them, `Absent` or `Partial`.  Every write of the installation is an action
that succeeds (`Save`), fails (`SaveFails`, then `MakeBadStateFile`, which may fail
as well), or is cut short in the middle (`Cut`).  `RemoveFile` removes one file at
a time and `Cleaned` may come before all are gone, since nobody looks at the
error of `os.RemoveAll`.  The daemon is another process: it checks for the
configuration and for the mark of a failure, and reads one file after the other.

## 3. Runs

Every run checks all reachable states of its instance, and most check safety and
liveness in one.  Deadlock checking is off but for `install`: the other instances
have finitely many requests and stop when they are done.

| run | shows | instance |
|---|---|---|
| `channels` | the channel's closure, messages, listeners, buffer and events are as promised in any order of requests, a handler keeps the lock for good only for an answer the decryptor never gives, early messages reach the open channel where the decryptor and the executor answer, and the servers implement `ChannelLifecycle` | three openings (one refused, two with different terms), five closures around and before them (two at one time, one inadmissible), three messages (before, at and after a closure; one that the decryptor drops; one by a user who may not write), two subscribers, the decryptor stopping at any time |
| `status` | sends find room, channels are closed once, updates come in order, no listener misses anything, whoever was told of the end finds a final record, fair readers get a result | updates up to a failure after a success, two listeners |
| `users` | locks are given back once, permissions hold when used, what is left locked does not change, attributes converge, every request ends but for those in or behind a circle | seven requests on three workers: a certifier that is revoked while its requests run, two updates of one attribute, two updates each certified by the subject of the other, a locking read whose certifier is one of its subjects and its release, a creation |
| `users_circle` | *violation*: two updates wait for each other | two updates, each certified by the other's subject |
| `users_left` | *violation*: a refused release leaves records locked | a locking read, its release, a revocation |
| `executor` | one outcome per request, permissions hold from the check to the act, all locks come back exactly once, an encryption sees the channel it was allowed for | nine requests of every kind on one channel, two workers |
| `executor_stops` | an open channel has its key, and nothing blocks but what is named: an opening that waits for itself and, at the shutdown, a handler on a nil channel or updates behind a release that was dropped | an opening, a message that was buffered and its return, a revocation, an encryption for recipients; the servers stopping at any time |
| `executor_waits` | *violation*: an opening waits for itself | an opening, a buffered message of its certifier, a revocation of the certifier |
| `executor_shutdown` | *violation*: the shutdown never ends | an opening and a buffered message; the servers stop |
| `delivery` | only what both signers signed takes effect; transactions are readable exactly by whom they were meant for; every operation comes to rest; firmly signed messages arrive | eight transactions in every order: an opening, one that is refused, a message with a challenge that cannot be met, one signed with a key its signer gets later, one that comes unverified, a change of key, a closure, one that is not for us |
| `conversation` | no goroutine stays behind, no subscription is left when the client goes, results are written before the connection closes, and it closes when it should | a request and a subscription with four combinations of options; client and program may leave at any time |
| `install` | a daemon that starts serves one installation, and starts after one that succeeded | three installations with crashes, failing writes and failing removals |

### 3.1 Why the bounds are enough to see what matters

Times matter by their order and by equality, so the instances have times before,
between and after the openings and closures, and two equal ones of each kind
that is compared.  Permissions matter by whether a user has the one that is
asked for: there are users who have all, one or none.  The update channels have
three slots, and there are four updates with four ranks: as many as the sender
could fill a channel with.  Two listeners suffice for one to be served while
another waits.  In `users` three workers let a writer wait for one reader while a
third request overtakes both.  They also let a release find no worker, when updates
wait for what it is to release, and two updates wait for each other while the rest
goes on.

In `executor` two workers suffice for any two handlers to meet; three are needed
in `executor_waits`, where an opening, a revocation and a second message do.  In
`delivery` there is one channel, since channels share nothing but the keys, whose
ids are a constant.  `MaxEvents` of `Conversation` bounds what is published to a
subscriber: one event stands for all, since each is written alike.  `MaxInstalls`
is three: a whole installation, one cut short over it, and one over both.

### 3.2 Fairness

`Channels`: a worker goes on with the handler it runs (`Feed`, `BufferError`,
`FinishOpen`), and nothing else.  That the decryptor answers what it has accepted is
not assumed: its worker may wait for a record that the opening itself keeps locked,
as `executor_waits` shows.  So `OnlyDecryptorKeepsLock` says that a handler gives the
lock back unless it waits for good for such an answer or on the nil channel of a
decryptor that refused it, and `EarlyMessagesAdded` has the two debts of the servers
outside as its premise (`OthersServe`): the decryptor leaves no answer outstanding,
and the executor adds what it has accepted.  `Status`: the workers run every update and every request for a
listener; the readers are assumed fair only as the premise of
`FinalUpdateDelivered`, since a conversation stops reading when its socket fails.
`Users`: weak fairness of the workers together: every step brings a request nearer to its end, so
none is passed over for good, and who gets a lock is left open.  `Executor`:
weak fairness of all handlers together, of the users server, and of the shutdown
once it has begun: every step brings some request nearer to its end, so there are
no infinite behaviours in which one is passed over, and nothing is assumed about
who gets a lock.  `Delivery`: weak fairness of all workers together, for the same
reason; that no operation goes round for ever is what `EveryOperationSettles`
shows.  `Conversation`: the goroutines run and their requests are answered; the
client, publishers and whoever stops the program owe nothing.  `Install` has no
liveness.

### 3.3 Disagreements between the code and what is said of it

Four are violation runs; `PROJECT.json` quotes both sides.

1. `users_circle`: sorting the needs by type before id takes all read locks
   before all write locks, which does not exclude circular waits.
2. `users_left`: the release of the recipients is refused when the certifier
   lost its permission in between, and the refusal is ignored.
3. `executor_waits`: an opening keeps its certifier read-locked while it waits
   for the decryptor, which reads the keys of the signers of the messages it is
   fed.  With a writer waiting in between, none of the three goes on.
4. `executor_shutdown`: the keys and the users server are stopped before the
   executor.  An opening that has just read its certifier is refused by the keys,
   and its deferred release by the users server; it ignores the error and receives
   from a nil channel: the executor, and with it the program, never ends.  There is
   a second such place, where an opening feeds its buffer to the decryptor that was
   stopped first (`channels/channels_daemon.go:162`): it keeps the channels server
   from ending.

Others can be read off the definitions and have no run:

- `tryClose` documents a tie-break by issuer that does not decide between early
  closures, which are sorted by time alone (`FirstAttempts`).
- Readers of an update channel look at a record that is written field by field
  (`WriteStatus`, `WritePayload`): one that still has an earlier update to look
  at may see the success before its payload, and drop the result.
- A signer who is among the subjects of a read that leaves its subjects locked is
  unlocked with the signers (`staysLocked`), so of all recipients it is the one
  whose record may change before the release.
- As many updates waiting for left-locked records as the users server has workers
  leave none for the release.  And whatever the number of workers, the release
  read-locks its certifier first: when an update of the certifier waits there for a
  request that itself waits for the release, all three wait for ever.  Both are
  circles in the sense of `OnlyCirclesBlock`: the property says that nothing else
  blocks a request (not one that names a user twice, not what another one left
  behind), and not that there are none, though `core/sync.go:2` speaks of
  "utilities to prevent deadlocks".
- A request that one of the channels servers has queued when it is stopped ends the
  program in a panic, since the answer that is not there is dereferenced
  (`channels/channels_daemon.go:85`, `listeners_daemon.go:81`,
  `messages_daemon.go:72`; `DropCall`), though the executor looks whether its channel
  was closed.  Nothing after it is stopped in order.
- An operation that fails a second time, when it is re-fed, is dropped for good
  (`ShouldDrop`), even if its signer becomes known later; the stored message is lost
  without a trace but its status.
- A message at exactly the time of a closure is kept after the closure and
  dropped before it (`Writable` against `Remaining`), and `applyUpdateRequest` lets
  an older update of another attribute move a record's `UpdatedAt` back.  Both are
  at odds with "state is eventually consistent regardless of the order operations
  come in" (`README.md`).
- An opening that is refused leaves its key in the store (`AddKey` before
  `OpenChannel`); messages that are decrypted before a later opening are then
  dropped (`decryptedTooEarly`).
- A subscription that is refused is reported as a success (`SubscribeChannel`), and
  giving it up fails, after which the connection is not closed (`DoUnsubscribe`).
- That `user.json` is no JSON is ignored (`Get`).

## 4. Proofs

Every safety invariant and every action property of the passing runs is a
theorem.  The proofs assume of the constants what the named assumptions of the
modules say, which TLC evaluates for each instance: times and issuers are
naturals, permissions are functions to sets of rights, requests name users by
their ids, a handler that dereferences its signers has them, a message that comes
back is a request of its own, and so on.  The sets of requests, users, channels,
listeners, transactions, workers and installations may be of any size.

Each inductive invariant was checked by TLC on the instances of section 3 before
it was proved: on all their states, but for that of `Executor`, which was checked
on all states of `executor_stops` and `executor_waits` and on the first 50 thousand
of `executor`.

**Channels.**  `Inv` is inductive: the type invariant, the properties of the
`channels` run, and what they rest on between two steps.  `AttemptsInv` says
that no early closure is lost before the opening applies it; `OpeningInv` that
no other handler ran since `tryOpen` when the opening waits for the decryptor,
which is what makes the final step of the opening see the closures and messages
it expects; `RegisteredInv` that a complete opening leaves a listeners record,
on which `publish` relies.  `ClosureIsEarliest` alone is not inductive: a
closure that comes late is compared with the present one only, so one needs that
the present one beats all earlier contenders, and for early closures that the
sort gives a least one that `tryClose` accepts (`LeastNatural`,
`FirstAttemptExists`).  From `Inv` follow `EarliestClosure`,
`MessagesWithinDuration`, `ListenersMayRead`, `BufferAndCrash`,
`ClosuresImprove`, and `ImplementsLifecycle`: every step maps to a step of
`ChannelLifecycle` or to none.

**Status.**  `Inv` says, besides types: an update holds the lock exactly while it
is between its check and its end (`LockInv`); what was sent to a listener rises,
and is never longer than the rank of its last status (`ToldInv`); a listener not
yet served in the present update stands strictly below it (`StandingInv`).
Together they give the argument that the buffer is large enough: a listener
still to be served was sent at most two statuses, since its last one is below a
status that is at most 4 and not final.  Theorems: `StatusTypeCorrect`,
`NoBlockedSend`, `ChannelsClosedOnce`, `UpdatesInOrder`, `NoUpdateMissed`, and
`ReadersEnd`: who was told of the end has a pointer left to receive or has seen
that the record is final.

**The reader of a channel.**  `ReaderHoldsMessages` has an invariant of its own,
`ReaderInv`, on top of `Inv`: the list that a reader rebuilds from the events has the
messages of the channel, each once, in the order of their times (`Lists`), and no
message that is still on its way is in the channel already (`OnceInv`), so that none
is inserted twice.  The work is in two lemmas about sequences: inserting a message
after those that are earlier keeps the order (`InsertedLists`), and cutting the list
at the position a closure carries leaves exactly the earlier messages
(`TruncatedLists`).  A position is a number of messages of the channel, and the list
is what the reader has: that the two agree is what the induction carries
(`EarlierFirst`).

**Users.**  `UsersTypeCorrect` is inductive as it stands.  `AttributesConverge`
needs besides that users known at the start stay known: only `Run` writes
records (`ConvergesNext`), and for each attribute it keeps the later of what it
finds and what the update brings (`UpdateKeepsLater`), so the value stays at
least as late as every update that ran and is one of theirs (`RunConverges`).
No use is made of the locks: a run is one step, since it holds the write lock
of its record, and it is the locks that justify that step.

**Locks of users.**  `LocksReleased` speaks of states in which no worker is busy,
so it is not inductive.  `UsersInv` says for every state what each request holds
(`Holding`: the needs it has locked, or still has to unlock) and what a finished
read has left locked (`Kept`), and that a record's read count is the number of
requests that hold it so, its write lock the one that does (`LockInv`).
`PhaseInv` ties the two ends of a shared lock together: a release that is at work
follows a read that ran and has kept its subjects.  From it follow
`NoUnlockIsFatal`, `EveryLockIsReleased`, `PermissionsHold` (an update of the
certifier would have to hold a write lock beside the request's read lock) and
`LeftLockedStay`.  All four have `ReleasesPaired` as a hypothesis: with a release
of what nobody left locked the server would end the program, and it is the
executor that never sends one (`executor/user_requests.go:70`-`86`,
`executor/channel_requests.go:133`-`148`, `213`-`228`).  `HandlersPairReleases`
proves it of the executor's requests; that two creations are of two users is the
one part that rests on an assumption about the clients (`UpdatesAssumption`).

**Executor.**  `ServesAsUsers` is a refinement: every behaviour of the executor
with all its handlers and its shutdown is a behaviour of `Users`.  A handler
touches none of that server's variables but `fatal`, which is never set, so
`UsersInv` and the theorems above hold of the whole (`RequestsRunUnderPermission`).
`ExecutorInv` adds the stages that each kind of request goes through
(`StagesOf`), the holders of each channel's lock (`ChannelLockInv`), how many
statuses were reported by each stage (`OutcomeInv`), where a message that could
not be verified is (`MessageInv`: in one buffer, in one hand, or nowhere), which
requests to the users server are unanswered (`RequestInv`), and that a handler
that goes on with the records it read has them locked (`KeepInv`), from which
`ActsUnderPermission` follows by what is proved of the users server.  Proved from it
are `OneFinalStatus`, `OpenedWithKey`, `OpensUnderPermission`, `NoHandlerIsFatal`,
`EncryptsWhatItRead` and, about the locks:

- `LockedOnlyWhenRefused`: when all handlers have returned and no server was
  stopped, no channel is locked, and a user only if a release was refused;
- `LocksComeBack`: `LocksReturned` holds if no handler encrypts for recipients
  (`ReleasesUnchecked`).  Without this hypothesis it is false, as the run
  `users_left` shows: the release of the recipients is made in the name of a
  certifier who may have lost the permission.  All other releases skip the check.

**Delivery.**  `OnlyTheSignedTakesEffect` holds because what was verified is not
looked at again: `DeliveryInv` says that a verified operation is with the executor,
at its channel or done, never back with the decryptor, which would replace it; that
what waits at a channel is there once; and that keys, once held, stay in `held`, so
that a signature stays good when its signer's key is replaced.
`ReadExactlyIfMeant` follows a transaction that was refused or accepted back to its
challenges (`RefusalInv`): one that passes is an intact one, since a sealed text opens
with its own key and nonce only, and then all intact ones open the payload.

**Conversation.**  `LockIsReleased` is a count: each quit channel has one slot, the
conversation's is sent to when it begins to close, those of the transactions when
the dispatcher ends, both once.  `ResultIsShown` says through which stages a writer
must have gone before it may close.

**Install.**  `Consistent` says that whatever a configuration names was written with
it or is gone.  It is broken only when the removal of an older installation left
something behind; `Succeeded` and `EndInv` say what is on the disk when an
installation ends, and the rest follows the daemon from file to file.
`OneInstallation` and `SuccessStarts` need that no installation begins while the
daemon starts (`clear`), which is part of both properties.

**Only model-checked**: the liveness properties (`OnlyDecryptorKeepsLock`,
`EarlyMessagesAdded`, `FinalUpdateDelivered`, `OnlyCirclesBlock`, `OnlyOpeningsBlock`,
`OnlyStrandedBlockShutdown`, `EveryOperationSettles`, `MessagesArrive`,
`EndsWithClient`, `ClosesWhenDone`), since neither fairness nor `ENABLED` is in reach
of the prover; and `LocksReturned` with encryptions for recipients.  **Only proved**,
as theorems or as parts of theorems whose other part the runs check:
`CrashOnlyAfterFailedOpen`, `NoListenerLeftBehind`, `ResultIsFinal`, `NoFatalUnlock`
by itself (it is part of `LocksReleased`), `NoFatal` by itself (part of
`LocksReturned`), `LockedOnlyWhenRefused`, and the type invariants of
`Executor`, `Delivery`, `Conversation` and `Install`.

## 5. What is not modelled, and the plan

JSON, base64 and key encodings, hashes, the contents of read answers, what a request
must have to be well formed (whether it is, is an input of `Executor`), the log, signals and the
commands that build operations from standard input are left out: they are
sequential and stateless, or I/O.  The cryptography is symbolic.  Reading a
channel, which changes nothing, is left out of `Channels`.

What is left to prove:

1. That `Delivery`, which takes a handler as one action, is implemented by the
   handlers of `Executor` with their locks: so far this is an argument (a handler
   holds its channel's lock, `ChannelLockInv`), not a refinement.
2. That the channel record of `Executor` goes through `ChannelLifecycle`, as that
   of `Channels` is proved to.
3. Safety parts of the liveness properties: that only an opening, or a message that
   is buffered, is ever blocked on a nil channel, and only at a shutdown.
