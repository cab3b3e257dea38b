------------------------------- MODULE Users -------------------------------
(***************************************************************************)
(* The users server of src/users: workers that lock the records a request  *)
(* needs, check the certifier's permissions, run the request and unlock.   *)
(* A reader may leave the records it read locked and have them unlocked by *)
(* a request of its own, as the executor does around its handlers.         *)
(*                                                                         *)
(* The locks are Go's RWMutex: a writer that waits keeps new readers out,  *)
(* a lock has no owner, and releasing one that is not held ends the        *)
(* program.                                                                *)
(***************************************************************************)
EXTENDS LockNeeds, UserRecord, FiniteSets

CONSTANTS
    Ids,           \* the user ids
    InitialStore,  \* the users known at the start and their records
    Requests,      \* the ids of the requests
    Request,       \* the UserRequest of each
    After,         \* the request an unlocking request follows, or Nobody
    NumWorkers,    \* the workers of the server
    KeyValues,     \* the public keys
    Nobody         \* no request

ASSUME IdsAssumption == Ids \subseteq Nat

ASSUME WorkersAssumption == NumWorkers \in Nat \ {0}

ASSUME NobodyAssumption == Nobody \notin Requests

Record == [attributes : [Attributes -> [value : BOOLEAN \cup KeyValues,
                                        at    : Nat]],
           updatedAt  : [Parts -> Nat]]

ASSUME StoreAssumption ==
    /\ DOMAIN InitialStore \subseteq Ids
    /\ \A i \in DOMAIN InitialStore : InitialStore[i] \in Record

\* A request names users by their ids; what it creates is new.
WellTyped(rq) ==
    /\ rq.type \in {"create", "update", "read"}
    /\ ~rq.skipPermissions => {rq.issuer, rq.certifier} \subseteq Ids
    /\ rq.subjects \subseteq Ids /\ IsFiniteSet(rq.subjects)
    /\ rq.type # "read" =>
          /\ rq.subject \in Ids
          /\ rq.timestamp \in Nat
          /\ rq.data \in [Attributes -> BOOLEAN \cup KeyValues]
    /\ rq.type = "create" => rq.subject \notin DOMAIN InitialStore

ASSUME RequestAssumption == \A r \in Requests : WellTyped(Request[r])

VARIABLES
    store,    \* the user records, by id
    readers,  \* how many read locks each record has
    writer,   \* the request that has or waits for each write lock, or Nobody
    fatal,    \* a lock was released that was not held
    pc,       \* where each request is
    todo,     \* the needs each request still has to lock or to unlock
    result,   \* the result of each request, once it is known
    ran       \* history: the requests that were run

vars == <<store, readers, writer, fatal, pc, todo, result, ran>>

lockVars == <<readers, writer, fatal>>

Init ==
    /\ store = InitialStore
    /\ readers = [i \in Ids |-> 0]
    /\ writer = [i \in Ids |-> Nobody]
    /\ fatal = FALSE
    /\ pc = [r \in Requests |-> "queued"]
    /\ todo = [r \in Requests |-> {}]
    /\ result = [r \in Requests |-> "none"]
    /\ ran = {}

Known == DOMAIN store

-----------------------------------------------------------------------------
(***************************************************************************)
(* What a request locks and unlocks.                                       *)
(***************************************************************************)
\* Mutant: the certifier is not locked.
signerNeedsIssuerOnly(rq) ==
    IF rq.skipPermissions THEN {} ELSE {LockNeed("read", rq.issuer)}

signerNeeds(rq) ==
    IF rq.skipPermissions
      THEN {}
      ELSE {LockNeed("read", rq.issuer), LockNeed("read", rq.certifier)}

subjectReads(rq) == {LockNeed("read", i) : i \in rq.subjects}

\* Mutant: the subjects of a locking read are not locked.
lockNeedsWithoutSubjects(rq) ==
    signerNeeds(rq)
      \cup (IF rq.type = "update" THEN {LockNeed("write", rq.subject)} ELSE {})

lockNeeds(rq) ==
    signerNeeds(rq)
      \cup (IF rq.type = "update" THEN {LockNeed("write", rq.subject)} ELSE {})
      \cup (IF rq.type = "read" /\ rq.readLock THEN subjectReads(rq) ELSE {})

unlockNeeds(rq) ==
    CASE rq.type = "read" /\ ~rq.readLock /\ rq.readUnlock ->
            lockNeeds(rq) \cup subjectReads(rq)
      [] rq.type = "read" /\ rq.readLock /\ ~rq.readUnlock -> signerNeeds(rq)
      [] OTHER -> lockNeeds(rq)

\* Mutant: a refused request keeps its locks.
unlockNeedsWhenRefusedNone(rq) == {}

unlockNeedsWhenRefused(rq) == lockNeeds(rq)

\* The failure of a request whose users are not all known.
unknownError(rq) ==
    CASE ~rq.skipPermissions /\ rq.issuer \notin Known    -> "issuerUnknown"
      [] ~rq.skipPermissions /\ rq.certifier \notin Known -> "certifierUnknown"
      [] OTHER                                            -> "subjectUnknown"

leavesLocked(rq) == rq.type = "read" /\ rq.readLock /\ ~rq.readUnlock

\* A signer among the subjects is unlocked with the signers.
staysLocked(rq) == {i \in rq.subjects : LockNeed("read", i) \notin signerNeeds(rq)}

\* How the program uses the server: a read that does not lock comes after one
\* that did not unlock, for the same users and with the same signers, and no
\* other one does (executor/user_requests.go:84); each creation is of a user
\* of its own.
ReleasesPaired ==
    /\ After \in [Requests -> Requests \cup {Nobody}]
    /\ \A q \in Requests :
          LET rq == Request[q]
          IN  IF rq.type = "read" /\ ~rq.readLock
                THEN LET kept == Request[After[q]]
                     IN  /\ After[q] # Nobody /\ rq.readUnlock
                         /\ leavesLocked(kept)
                         /\ kept.subjects = rq.subjects
                         /\ signerNeeds(kept) = signerNeeds(rq)
                ELSE After[q] = Nobody
    /\ \A q, r \in Requests : q # r =>
          /\ After[q] # Nobody => After[q] # After[r]
          /\ Request[q].type = "create" /\ Request[r].type = "create" =>
                Request[q].subject # Request[r].subject

Busy(r) == pc[r] \in {"locking", "running", "unlocking"}

Finished(r) == pc[r] = "done"

-----------------------------------------------------------------------------
(***************************************************************************)
(* The steps of a worker.                                                  *)
(***************************************************************************)
\* A worker takes the request and reads the records it has to lock.
Begin(r) ==
    /\ ~fatal
    /\ pc[r] = "queued"
    /\ Cardinality({q \in Requests : Busy(q)}) < NumWorkers
    /\ After[r] # Nobody => result[After[r]] = "success" /\ Finished(After[r])
    /\ IF \A n \in lockNeeds(Request[r]) : n.id \in Known
         THEN /\ pc' = [pc EXCEPT ![r] = "locking"]
              /\ todo' = [todo EXCEPT ![r] =
                             sanitizeLockNeeds(lockNeeds(Request[r]))]
              /\ UNCHANGED result
         ELSE /\ pc' = [pc EXCEPT ![r] = "done"]
              /\ result' = [result EXCEPT ![r] = unknownError(Request[r])]
              /\ UNCHANGED todo
    /\ UNCHANGED <<store, lockVars, ran>>

locks(r, need) ==
    /\ ~fatal
    /\ pc[r] = "locking"
    /\ todo[r] # {}
    /\ need = First(todo[r])

RLock(r, i) ==
    /\ locks(r, LockNeed("read", i))
    /\ writer[i] = Nobody
    /\ readers' = [readers EXCEPT ![i] = @ + 1]
    /\ todo' = [todo EXCEPT ![r] = @ \ {First(@)}]
    /\ UNCHANGED <<store, writer, fatal, pc, result, ran>>

\* A writer keeps new readers out from when it starts to wait.
AwaitReaders(r, i) ==
    /\ locks(r, LockNeed("write", i))
    /\ writer[i] = Nobody
    /\ writer' = [writer EXCEPT ![i] = r]
    /\ UNCHANGED <<store, readers, fatal, pc, todo, result, ran>>

Lock(r, i) ==
    /\ locks(r, LockNeed("write", i))
    /\ writer[i] = r
    /\ readers[i] = 0
    /\ todo' = [todo EXCEPT ![r] = @ \ {First(@)}]
    /\ UNCHANGED <<store, lockVars, pc, result, ran>>

\* With its locks, the request finds the records it does not lock and checks
\* the certifier's permissions.
Check(r) ==
    LET rq == Request[r]
    IN  /\ ~fatal
        /\ pc[r] = "locking"
        /\ todo[r] = {}
        /\ IF rq.type = "read" /\ ~rq.readLock /\ ~(rq.subjects \subseteq Known)
             THEN /\ pc' = [pc EXCEPT ![r] = "done"]
                  /\ result' = [result EXCEPT ![r] = unknownError(rq)]
                  /\ UNCHANGED todo
             ELSE IF rq.skipPermissions
                       \/ isAuthorized(store[rq.certifier], rq.certifier, rq)
               THEN /\ pc' = [pc EXCEPT ![r] = "running"]
                    /\ UNCHANGED <<todo, result>>
               ELSE /\ pc' = [pc EXCEPT ![r] = "unlocking"]
                    /\ todo' = [todo EXCEPT ![r] =
                                  sanitizeLockNeeds(unlockNeedsWhenRefused(rq))]
                    /\ result' = [result EXCEPT ![r] = "certifierPermissions"]
        /\ UNCHANGED <<store, lockVars, ran>>

Run(r) ==
    LET rq == Request[r]
    IN  /\ ~fatal
        /\ pc[r] = "running"
        /\ store' = CASE rq.type = "update" ->
                           [store EXCEPT ![rq.subject] =
                                             applyUpdateRequest(@, rq)]
                      [] rq.type = "create" ->
                           [i \in Known \cup {rq.subject} |->
                               IF i = rq.subject THEN create(rq)
                                                 ELSE store[i]]
                      [] rq.type = "read" -> store
        /\ ran' = ran \cup {r}
        /\ result' = [result EXCEPT ![r] = "success"]
        /\ todo' = [todo EXCEPT ![r] = sanitizeLockNeeds(unlockNeeds(rq))]
        /\ pc' = [pc EXCEPT ![r] = "unlocking"]
        /\ UNCHANGED lockVars

unlocks(r, need) ==
    /\ ~fatal
    /\ pc[r] = "unlocking"
    /\ todo[r] # {}
    /\ need = Last(todo[r])

RUnlock(r, i) ==
    /\ unlocks(r, LockNeed("read", i))
    /\ fatal' = (readers[i] = 0)
    /\ readers' = [readers EXCEPT ![i] = IF @ = 0 THEN 0 ELSE @ - 1]
    /\ todo' = [todo EXCEPT ![r] = @ \ {Last(@)}]
    /\ UNCHANGED <<store, writer, pc, result, ran>>

Unlock(r, i) ==
    /\ unlocks(r, LockNeed("write", i))
    /\ fatal' = (writer[i] = Nobody)
    /\ writer' = [writer EXCEPT ![i] = Nobody]
    /\ todo' = [todo EXCEPT ![r] = @ \ {Last(@)}]
    /\ UNCHANGED <<store, readers, pc, result, ran>>

Return(r) ==
    /\ ~fatal
    /\ pc[r] = "unlocking"
    /\ todo[r] = {}
    /\ pc' = [pc EXCEPT ![r] = "done"]
    /\ UNCHANGED <<store, lockVars, todo, result, ran>>

-----------------------------------------------------------------------------
Work(r) ==
    \/ Begin(r) \/ Check(r) \/ Run(r) \/ Return(r)
    \/ \E i \in Ids :
          \/ RLock(r, i) \/ AwaitReaders(r, i) \/ Lock(r, i)
          \/ RUnlock(r, i) \/ Unlock(r, i)

Next == \E r \in Requests : Work(r)

Spec == Init /\ [][Next]_vars

\* The workers go on as long as one of them can.  Every step brings a
\* request nearer to its end, so none is passed over for good.
FairSpec == Spec /\ WF_vars(Next)

-----------------------------------------------------------------------------
(***************************************************************************)
(* Properties.                                                             *)
(***************************************************************************)
Results == {"none", "success", "issuerUnknown", "certifierUnknown",
            "subjectUnknown", "certifierPermissions"}

\* Every variable has its type.
TypeOK ==
    /\ DOMAIN store \subseteq Ids
    /\ \A i \in Known : store[i] \in Record
    /\ readers \in [Ids -> Nat]
    /\ writer \in [Ids -> Requests \cup {Nobody}]
    /\ fatal \in BOOLEAN
    /\ pc \in [Requests -> {"queued", "locking", "running", "unlocking", "done"}]
    /\ todo \in [Requests -> SUBSET LockNeedsOn(Ids)]
    /\ result \in [Requests -> Results]
    /\ ran \subseteq Requests

\* No lock is released that is not held (users/daemon.go:338), not even by
\* the request that releases what another one left locked: Go ends the
\* program when that happens.
NoFatalUnlock == ~fatal

\* A request runs only while the certifier's record, as it is at that very
\* moment, allows it (users/daemon.go:235): no update of the certifier comes
\* between the check of its permissions and the use of them.
RunsUnderPermission ==
    \A r \in Requests :
        pc[r] = "running" /\ ~Request[r].skipPermissions =>
            isAuthorized(store[Request[r].certifier], Request[r].certifier,
                         Request[r])

\* The reads that left their subjects locked and whose unlocking request
\* has not succeeded.
LeftLocked ==
    {r \in Requests :
        /\ leavesLocked(Request[r])
        /\ r \in ran
        /\ ~\E q \in Requests : After[q] = r /\ q \in ran}

\* Every lock is given back exactly once: none that is not held, and when no
\* worker is busy the only locks held are those of the subjects whose
\* unlocking is still to come (users/daemon.go:326), since refused requests
\* and requests that ran give back everything else.
LocksReleased ==
    /\ NoFatalUnlock
    /\ (\A r \in Requests : ~Busy(r)) =>
          \A i \in Ids :
              /\ writer[i] = Nobody
              /\ readers[i] =
                   Cardinality({r \in LeftLocked : i \in staysLocked(Request[r])})

\* The records a read left locked stay as they were read until they are
\* unlocked (users/daemon.go:334): the executor encrypts for the recipients
\* with the keys it was given.
LeftLockedUnchanged ==
    [][\A r \in LeftLocked : \A i \in staysLocked(Request[r]) :
          store'[i] = store[i]]_vars

UpdatesRun(i, a) ==
    {r \in ran : Request[r].type = "update" /\ Request[r].subject = i
                   /\ a \in Request[r].fields}

\* Whatever the order of the updates, each attribute ends up with the value
\* of the latest of them (users/record.go:128): it is at least as late as
\* every update that ran, and it is the value of one of its time.
RecordsConverge ==
    \A i \in Known \cap DOMAIN InitialStore : \A a \in Attributes :
        LET now == store[i].attributes[a]
        IN  /\ \A r \in UpdatesRun(i, a) : Request[r].timestamp <= now.at
            /\ \/ now = InitialStore[i].attributes[a]
               \/ \E r \in UpdatesRun(i, a) :
                     now = [value |-> Request[r].data[a],
                            at |-> Request[r].timestamp]

\* The needs a request that is locking or running has locked.
Held(q) ==
    IF pc[q] \in {"locking", "running"}
      THEN sanitizeLockNeeds(lockNeeds(Request[q])) \ todo[q] ELSE {}

WaitsFor(r, q) ==
    /\ pc[r] = "locking" /\ todo[r] # {}
    /\ \E n \in Held(q) :
          /\ n.id = First(todo[r]).id
          /\ "write" \in {n.lockType, First(todo[r]).lockType}

\* No two requests each wait for a record the other has locked.
NoCircularWait ==
    \A r, q \in Requests : ~(WaitsFor(r, q) /\ WaitsFor(q, r))

\* A read that locks its subjects is undone by the request that releases
\* them once that has ended (executor/user_requests.go:84).
ReleasedAtTheEnd ==
    \A q \in Requests : Finished(q) => After[q] \notin LeftLocked

\* A request waits for another one that has the record it needs next, or
\* waits for it as a writer, or is to release what a read left locked there;
\* and a request that finds no worker waits for those that have one.
StuckBehind(r, q) ==
    LET next == First(todo[r])
    IN  /\ q # r
        /\ \/ WaitsFor(r, q)
           \/ /\ pc[r] = "locking" /\ todo[r] # {}
              /\ \/ writer[next.id] = q
                 \/ /\ next.lockType = "write"
                    /\ After[q] \in LeftLocked /\ ~Finished(q)
                    /\ next.id \in staysLocked(Request[After[q]])
           \/ /\ pc[r] = "queued" /\ Busy(q)
              /\ Cardinality({p \in Requests : Busy(p)}) = NumWorkers

\* A request waits to write what a refused release has not released.
StuckOnRefused(r) ==
    /\ pc[r] = "locking" /\ todo[r] # {}
    /\ First(todo[r]).lockType = "write"
    /\ \E q \in Requests :
          /\ Finished(q) /\ After[q] \in LeftLocked
          /\ First(todo[r]).id \in staysLocked(Request[After[q]])

\* A request is one of several that all wait for another one of them, or for
\* what a refused release has not released.
Deadlocked(r) ==
    LET waiting == {p \in Requests :
                      StuckOnRefused(p) \/ \E q \in Requests : StuckBehind(p, q)}
    IN  \E group \in SUBSET waiting :
           /\ r \in group
           /\ \A p \in group :
                 StuckOnRefused(p) \/ \E q \in group : StuckBehind(p, q)

\* Every request that is begun ends, but for those in or behind a circle of
\* two or more that wait for each other, or for a release that was refused:
\* none waits for a lock it holds itself, whatever it names twice
\* (core/sync.go:60), nor for one of a request that is gone
\* (users/daemon.go:326).
OnlyCirclesBlock == <>[](\A r \in Requests : Busy(r) => Deadlocked(r))
=============================================================================
