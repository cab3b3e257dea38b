---------------------------- MODULE UsersProofs ----------------------------
(***************************************************************************)
(* Proofs about Users, for any requests, users and number of workers.      *)
(***************************************************************************)
EXTENDS Users, TLAPS

\* Applying an update or a creation gives a record.
LEMMA RecordsClosed ==
  ASSUME NEW r \in Requests, Request[r].type # "read"
  PROVE  /\ \A rec \in Record : applyUpdateRequest(rec, Request[r]) \in Record
         /\ create(Request[r]) \in Record
<1> DEFINE rq == Request[r]
<1>1. /\ rq.timestamp \in Nat
      /\ \A a \in Attributes : rq.data[a] \in BOOLEAN \cup KeyValues
  BY RequestAssumption DEF WellTyped
<1>2. \A rec \in Record : applyUpdateRequest(rec, rq) \in Record
  BY <1>1 DEF Record, applyUpdateRequest
<1>3. create(rq) \in Record
  <2>1. zeroAttribute \in [value : BOOLEAN \cup KeyValues, at : Nat]
    BY DEF zeroAttribute
  <2> QED
    BY <1>1, <2>1 DEF Record, create
<1> QED
  BY <1>2, <1>3

\* What a request has to lock or unlock are needs on users.
LEMMA NeedsOnIds ==
  ASSUME NEW r \in Requests
  PROVE  /\ sanitizeLockNeeds(lockNeeds(Request[r])) \subseteq LockNeedsOn(Ids)
         /\ sanitizeLockNeeds(unlockNeeds(Request[r])) \subseteq LockNeedsOn(Ids)
         /\ sanitizeLockNeeds(unlockNeedsWhenRefused(Request[r]))
               \subseteq LockNeedsOn(Ids)
<1>1. \A i \in Ids : /\ LockNeed("read", i) \in LockNeedsOn(Ids)
                     /\ LockNeed("write", i) \in LockNeedsOn(Ids)
  BY DEF LockNeed, LockNeedsOn, LockTypes
<1>2. /\ signerNeeds(Request[r]) \subseteq LockNeedsOn(Ids)
      /\ subjectReads(Request[r]) \subseteq LockNeedsOn(Ids)
  BY <1>1, RequestAssumption DEF WellTyped, signerNeeds, subjectReads
<1>3. lockNeeds(Request[r]) \subseteq LockNeedsOn(Ids)
  BY <1>1, <1>2, RequestAssumption DEF WellTyped, lockNeeds
<1>4. unlockNeeds(Request[r]) \subseteq LockNeedsOn(Ids)
  BY <1>2, <1>3 DEF unlockNeeds
<1> QED
  BY <1>3, <1>4 DEF sanitizeLockNeeds, unlockNeedsWhenRefused

\* The records after a request has run.
LEMMA RunStore ==
  ASSUME TypeOK, NEW r \in Requests, Run(r)
  PROVE  /\ DOMAIN store \subseteq DOMAIN store' /\ DOMAIN store' \subseteq Ids
         /\ \A i \in DOMAIN store' : store'[i] \in Record
         /\ \A i \in DOMAIN InitialStore \cap Known :
               store'[i] = IF Request[r].type = "update"
                                /\ Request[r].subject = i
                             THEN applyUpdateRequest(store[i], Request[r])
                             ELSE store[i]
<1>1. CASE Request[r].type = "update"
  <2>1. store' = [store EXCEPT ![Request[r].subject] =
                                  applyUpdateRequest(@, Request[r])]
    BY <1>1 DEF Run
  <2> QED
    BY <1>1, <2>1, RecordsClosed DEF TypeOK, Known
<1>2. CASE Request[r].type = "create"
  <2>1. store' = [i \in Known \cup {Request[r].subject} |->
                    IF i = Request[r].subject THEN create(Request[r])
                                              ELSE store[i]]
    BY <1>2 DEF Run
  <2>2. /\ Request[r].subject \in Ids
        /\ Request[r].subject \notin DOMAIN InitialStore
    BY <1>2, RequestAssumption DEF WellTyped
  <2> QED
    BY <1>2, <2>1, <2>2, RecordsClosed DEF TypeOK, Known
<1>3. CASE Request[r].type = "read"
  BY <1>3 DEF Run, TypeOK, Known
<1> QED
  BY <1>1, <1>2, <1>3, RequestAssumption DEF WellTyped

\* The initial state has the types.
LEMMA InitType == Init => TypeOK
<1> SUFFICES ASSUME Init PROVE TypeOK
  OBVIOUS
<1>1. DOMAIN store \subseteq Ids /\ \A i \in Known : store[i] \in Record
  BY StoreAssumption DEF Init, Known
<1>2. /\ readers \in [Ids -> Nat]
      /\ writer \in [Ids -> Requests \cup {Nobody}]
      /\ fatal \in BOOLEAN
  BY DEF Init
<1>3. /\ pc \in [Requests -> {"queued", "locking", "running", "unlocking",
                              "done"}]
      /\ todo \in [Requests -> SUBSET LockNeedsOn(Ids)]
  BY DEF Init
<1>4. result \in [Requests -> Results] /\ ran \subseteq Requests
  BY DEF Init, Results
<1> QED
  BY <1>1, <1>2, <1>3, <1>4 DEF TypeOK

\* Every step keeps the types.
LEMMA NextType == TypeOK /\ [Next]_vars => TypeOK'
<1> SUFFICES ASSUME TypeOK, [Next]_vars PROVE TypeOK'
  OBVIOUS
<1> USE DEF TypeOK, Known
<1>1. ASSUME NEW r \in Requests, Begin(r) PROVE TypeOK'
  <2>1. unknownError(Request[r]) \in Results
    BY DEF unknownError, Results
  <2>2. /\ store' = store /\ readers' = readers /\ writer' = writer
        /\ fatal' = fatal /\ ran' = ran
    BY <1>1 DEF Begin, lockVars
  <2>3. \/ /\ pc' = [pc EXCEPT ![r] = "locking"]
           /\ todo' = [todo EXCEPT ![r] =
                          sanitizeLockNeeds(lockNeeds(Request[r]))]
           /\ result' = result
        \/ /\ pc' = [pc EXCEPT ![r] = "done"]
           /\ result' = [result EXCEPT ![r] = unknownError(Request[r])]
           /\ todo' = todo
    BY <1>1 DEF Begin
  <2>4. pc' \in [Requests -> {"queued", "locking", "running", "unlocking",
                              "done"}]
    BY <2>3
  <2>5. todo' \in [Requests -> SUBSET LockNeedsOn(Ids)]
    BY <2>3, NeedsOnIds
  <2>6. result' \in [Requests -> Results]
    BY <2>1, <2>3
  <2> QED
    <3>1. DOMAIN store' \subseteq Ids /\ \A i \in Known' : store'[i] \in Record
      BY <2>2
    <3> QED
      BY <2>2, <2>4, <2>5, <2>6, <3>1
<1>2. ASSUME NEW r \in Requests, Check(r) PROVE TypeOK'
  <2>1. /\ unknownError(Request[r]) \in Results
        /\ "certifierPermissions" \in Results
    BY DEF unknownError, Results
  <2>2. /\ store' = store /\ readers' = readers /\ writer' = writer
        /\ fatal' = fatal /\ ran' = ran
    BY <1>2 DEF Check, lockVars
  <2>3. \/ /\ pc' = [pc EXCEPT ![r] = "done"]
           /\ result' = [result EXCEPT ![r] = unknownError(Request[r])]
           /\ todo' = todo
        \/ /\ pc' = [pc EXCEPT ![r] = "running"]
           /\ UNCHANGED <<todo, result>>
        \/ /\ pc' = [pc EXCEPT ![r] = "unlocking"]
           /\ todo' = [todo EXCEPT ![r] =
                 sanitizeLockNeeds(unlockNeedsWhenRefused(Request[r]))]
           /\ result' = [result EXCEPT ![r] = "certifierPermissions"]
    BY <1>2 DEF Check
  <2>4. pc' \in [Requests -> {"queued", "locking", "running", "unlocking",
                              "done"}]
    BY <2>3
  <2>5. todo' \in [Requests -> SUBSET LockNeedsOn(Ids)]
    BY <2>3, NeedsOnIds
  <2>6. result' \in [Requests -> Results]
    BY <2>1, <2>3
  <2> QED
    <3>1. DOMAIN store' \subseteq Ids /\ \A i \in Known' : store'[i] \in Record
      BY <2>2
    <3> QED
      BY <2>2, <2>4, <2>5, <2>6, <3>1
<1>3. ASSUME NEW r \in Requests, Run(r) PROVE TypeOK'
  <2>1. /\ DOMAIN store' \subseteq Ids
        /\ \A i \in DOMAIN store' : store'[i] \in Record
    BY <1>3, RunStore
  <2>2. UNCHANGED lockVars /\ ran' \subseteq Requests
        /\ pc' = [pc EXCEPT ![r] = "unlocking"]
        /\ result' = [result EXCEPT ![r] = "success"]
        /\ todo' = [todo EXCEPT ![r] =
                       sanitizeLockNeeds(unlockNeeds(Request[r]))]
    BY <1>3 DEF Run
  <2>3. "success" \in Results
    BY DEF Results
  <2> QED
    BY <2>1, <2>2, <2>3, NeedsOnIds DEF lockVars
<1>4. ASSUME NEW r \in Requests, Return(r) PROVE TypeOK'
  BY <1>4 DEF Return, lockVars
<1>5. ASSUME NEW r \in Requests, NEW i \in Ids, RLock(r, i) PROVE TypeOK'
  BY <1>5 DEF RLock
<1>6. ASSUME NEW r \in Requests, NEW i \in Ids, AwaitReaders(r, i)
      PROVE  TypeOK'
  BY <1>6 DEF AwaitReaders
<1>7. ASSUME NEW r \in Requests, NEW i \in Ids, Lock(r, i) PROVE TypeOK'
  BY <1>7 DEF Lock, lockVars
<1>8. ASSUME NEW r \in Requests, NEW i \in Ids, RUnlock(r, i) PROVE TypeOK'
  <2>1. (IF readers[i] = 0 THEN 0 ELSE readers[i] - 1) \in Nat
    OBVIOUS
  <2> QED
    BY <1>8, <2>1 DEF RUnlock
<1>9. ASSUME NEW r \in Requests, NEW i \in Ids, Unlock(r, i) PROVE TypeOK'
  BY <1>9 DEF Unlock
<1>10. CASE UNCHANGED vars
  BY <1>10 DEF vars
<1> QED
  BY <1>1, <1>2, <1>3, <1>4, <1>5, <1>6, <1>7, <1>8, <1>9, <1>10
  DEF Next, Work

\* The type invariant of the users server.
THEOREM UsersTypeCorrect == Spec => []TypeOK
<1> QED
  BY InitType, NextType, PTL DEF Spec
-----------------------------------------------------------------------------
(***************************************************************************)
(* Convergence.  Only Run writes records; for each attribute it keeps the  *)
(* later of what it finds and what the update brings.                      *)
(***************************************************************************)
InitialKnown == DOMAIN InitialStore \subseteq Known

\* An update leaves an attribute with the later of the two values.
LEMMA UpdateKeepsLater ==
  ASSUME NEW rec \in Record, NEW r \in Requests, NEW a \in Attributes
  PROVE  LET rq  == Request[r]
             now == applyUpdateRequest(rec, rq).attributes[a]
         IN  IF a \in rq.fields /\ rq.timestamp > rec.attributes[a].at
               THEN now = [value |-> rq.data[a], at |-> rq.timestamp]
               ELSE now = rec.attributes[a]
  BY DEF applyUpdateRequest, isLater

\* Running a request keeps what was known at the start convergent.
LEMMA RunConverges ==
  ASSUME TypeOK, InitialKnown, RecordsConverge, NEW r \in Requests, Run(r)
  PROVE  RecordsConverge'
<1> SUFFICES ASSUME NEW i \in DOMAIN InitialStore, NEW a \in Attributes
             PROVE
               LET now == store'[i].attributes[a]
               IN  /\ \A q \in UpdatesRun(i, a)' : Request[q].timestamp <= now.at
                   /\ \/ now = InitialStore[i].attributes[a]
                      \/ \E q \in UpdatesRun(i, a)' :
                            now = [value |-> Request[q].data[a],
                                   at |-> Request[q].timestamp]
  BY DEF RecordsConverge, Known
<1> DEFINE before == store[i].attributes[a]
           now    == store'[i].attributes[a]
           rq     == Request[r]
<1>1. i \in Known /\ store[i] \in Record /\ before.at \in Nat
  BY DEF InitialKnown, TypeOK, Record
<1>2. /\ \A q \in UpdatesRun(i, a) : Request[q].timestamp <= before.at
      /\ \/ before = InitialStore[i].attributes[a]
         \/ \E q \in UpdatesRun(i, a) :
               before = [value |-> Request[q].data[a],
                         at |-> Request[q].timestamp]
  BY <1>1 DEF RecordsConverge
<1>3. ran' = ran \cup {r}
  BY DEF Run
<1>4. \A q \in UpdatesRun(i, a) \cup UpdatesRun(i, a)' :
         Request[q].timestamp \in Nat
  BY <1>3, RequestAssumption DEF WellTyped, UpdatesRun, TypeOK
<1>5. CASE rq.type = "update" /\ rq.subject = i /\ a \in rq.fields
  <2>1. UpdatesRun(i, a)' = UpdatesRun(i, a) \cup {r}
    BY <1>3, <1>5 DEF UpdatesRun
  <2>2. store'[i] = applyUpdateRequest(store[i], rq)
    BY <1>1, <1>5, RunStore
  <2>3. CASE rq.timestamp > before.at
    <3>1. now = [value |-> rq.data[a], at |-> rq.timestamp]
      BY <1>1, <1>5, <2>2, <2>3, UpdateKeepsLater
    <3> QED
      BY <1>1, <1>2, <1>4, <2>1, <2>3, <3>1
  <2>4. CASE ~(rq.timestamp > before.at)
    <3>1. now = before
      BY <1>1, <2>2, <2>4, UpdateKeepsLater
    <3> QED
      BY <1>1, <1>2, <1>4, <2>1, <2>4, <3>1
  <2> QED
    BY <2>3, <2>4
<1>6. CASE ~(rq.type = "update" /\ rq.subject = i /\ a \in rq.fields)
  <2>1. UpdatesRun(i, a)' = UpdatesRun(i, a)
    BY <1>3, <1>6 DEF UpdatesRun
  <2>2. now = before
    <3>1. CASE rq.type = "update" /\ rq.subject = i
      <4>1. a \notin rq.fields /\ store'[i] = applyUpdateRequest(store[i], rq)
        BY <1>1, <1>6, <3>1, RunStore
      <4> QED
        BY <1>1, <4>1, UpdateKeepsLater
    <3>2. CASE ~(rq.type = "update" /\ rq.subject = i)
      BY <1>1, <3>2, RunStore
    <3> QED
      BY <3>1, <3>2
  <2> QED
    BY <1>2, <2>1, <2>2
<1> QED
  BY <1>5, <1>6

\* The users known at the start stay known, and nothing but Run touches the
\* records and the updates that ran.
LEMMA ConvergesNext ==
  TypeOK /\ InitialKnown /\ RecordsConverge /\ [Next]_vars
    => InitialKnown' /\ RecordsConverge'
<1> SUFFICES ASSUME TypeOK, InitialKnown, RecordsConverge, [Next]_vars
             PROVE  InitialKnown' /\ RecordsConverge'
  OBVIOUS
<1>1. ASSUME NEW r \in Requests, Run(r)
      PROVE  InitialKnown' /\ RecordsConverge'
  BY <1>1, RunStore, RunConverges DEF InitialKnown, Known
<1>2. ASSUME ~ \E r \in Requests : Run(r) PROVE UNCHANGED <<store, ran>>
  BY <1>2
  DEF Next, Work, Begin, Check, Return, RLock, AwaitReaders, Lock, RUnlock,
      Unlock, vars
<1>3. CASE UNCHANGED <<store, ran>>
  BY <1>3 DEF InitialKnown, Known, RecordsConverge, UpdatesRun
<1> QED
  BY <1>1, <1>2, <1>3

\* Whatever the order in which workers run the updates of a user, each of
\* its attributes ends with the value of the latest (booleanRecord.update,
\* keyRecord.update).
THEOREM AttributesConverge == Spec => []RecordsConverge
<1>1. Init => InitialKnown /\ RecordsConverge
  BY DEF Init, InitialKnown, Known, RecordsConverge, UpdatesRun
<1> QED
  BY <1>1, UsersTypeCorrect, ConvergesNext, PTL DEF Spec
=============================================================================
