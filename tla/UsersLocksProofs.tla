-------------------------- MODULE UsersLocksProofs --------------------------
(***************************************************************************)
(* Proofs about the locks of Users, for any users, any number of workers   *)
(* and any requests of which the releases follow what they release         *)
(* (ReleasesPaired), and of what they protect.                             *)
(***************************************************************************)
EXTENDS UsersProofs, FiniteSetTheorems, WellFoundedInduction

(***************************************************************************)
(* The inductive invariant.  A lock has no owner in the code; here each of *)
(* them has its holders.  A request holds the needs it is through with     *)
(* while it locks and those it has still to do while it unlocks; a read    *)
(* that left its subjects locked holds them until its release runs, which  *)
(* takes them over.                                                        *)
(***************************************************************************)
Needs(r) == sanitizeLockNeeds(lockNeeds(Request[r]))

Holding(r) ==
    CASE pc[r] = "locking"   -> Needs(r) \ todo[r]
      [] pc[r] = "running"   -> Needs(r)
      [] pc[r] = "unlocking" -> todo[r]
      [] OTHER               -> {}

Kept(r) ==
    {n \in subjectReads(Request[r]) :
        r \in LeftLocked /\ n \notin signerNeeds(Request[r])}

ReadHolders(i) ==
    {r \in Requests : LockNeed("read", i) \in Holding(r) \cup Kept(r)}

WriteHolders(i) == {r \in Requests : LockNeed("write", i) \in Holding(r)}

\* A writer that has its turn at the lock and waits for the readers.
Awaits(r, i) ==
    pc[r] = "locking" /\ todo[r] # {} /\ First(todo[r]) = LockNeed("write", i)

LockInv(i) ==
    /\ IsFiniteSet(ReadHolders(i))
    /\ readers[i] = Cardinality(ReadHolders(i))
    /\ \A r \in WriteHolders(i) : writer[i] = r /\ readers[i] = 0
    /\ writer[i] # Nobody =>
          writer[i] \in WriteHolders(i) \/ Awaits(writer[i], i)

PhaseInv(r) ==
    /\ IsFiniteSet(todo[r])
    /\ pc[r] = "locking" => todo[r] \subseteq Needs(r)
    /\ pc[r] \in {"locking", "running"} \/ r \in ran =>
          \A n \in lockNeeds(Request[r]) : n.id \in Known
    /\ r \in ran => pc[r] \in {"unlocking", "done"}
    /\ result[r] = "success" <=> r \in ran
    /\ r \in ran /\ leavesLocked(Request[r]) /\ pc[r] = "unlocking" =>
          todo[r] \subseteq signerNeeds(Request[r])
    /\ After[r] # Nobody /\ pc[r] # "queued" =>
          After[r] \in ran /\ pc[After[r]] = "done"

\* A user that was not there at the start was created.
CreatedInv ==
    \A i \in Known \ DOMAIN InitialStore :
        \E r \in ran : Request[r].type = "create" /\ Request[r].subject = i

UsersInv ==
    /\ TypeOK
    /\ NoFatalUnlock
    /\ \A i \in Ids : LockInv(i)
    /\ \A r \in Requests : PhaseInv(r)
    /\ CreatedInv

-----------------------------------------------------------------------------
(***************************************************************************)
(* The order of the needs.                                                 *)
(***************************************************************************)
\* A finite set that is not empty has a least element in any total order.
LEMMA LeastElement ==
  ASSUME NEW S, IsFiniteSet(S), S # {}, NEW R,
         \A x, y \in S : x # y => <<x, y>> \in R \/ <<y, x>> \in R,
         \A x \in S : <<x, x>> \notin R,
         \A x, y, z \in S : <<x, y>> \in R /\ <<y, z>> \in R => <<x, z>> \in R
  PROVE  \E x \in S : \A y \in S \ {x} : <<x, y>> \in R
<1> DEFINE below(x) == {y \in S : <<y, x>> \in R}
           Below    == {below(x) : x \in S}
<1>1. Below \subseteq FiniteSubsetsOf(S) /\ Below # {}
  <2>1. \A x \in S : below(x) \in SUBSET S /\ IsFiniteSet(below(x))
    BY FS_Subset
  <2>2. \A x \in S : below(x) \in FiniteSubsetsOf(S)
    BY <2>1 DEF FiniteSubsetsOf
  <2> HIDE DEF below
  <2> QED
    BY <2>2
<1>2. PICK b \in Below :
         \A a \in Below : <<a, b>> \notin StrictSubsetOrdering(S)
  <2> HIDE DEF Below
  <2> QED
    BY <1>1, FS_StrictSubsetOrderingWellFounded, WFMin
<1>3. PICK x \in S : b = below(x)
  OBVIOUS
<1>4. ASSUME NEW y \in S, <<y, x>> \in R PROVE FALSE
  <2>1. below(y) \subseteq below(x) /\ y \in below(x) /\ y \notin below(y)
    BY <1>4
  <2>2. below(y) \in Below /\ below(y) \subseteq S /\ below(x) \subseteq S
    OBVIOUS
  <2> QED
    BY <1>2, <1>3, <2>1, <2>2 DEF StrictSubsetOrdering
<1> QED
  BY <1>4

LEMMA LessIsTotal ==
  ASSUME NEW n \in LockNeedsOn(Ids), NEW m \in LockNeedsOn(Ids)
  PROVE  /\ n # m => Less(n, m) \/ Less(m, n)
         /\ ~Less(n, n)
         /\ \A l \in LockNeedsOn(Ids) : Less(n, m) /\ Less(m, l) => Less(n, l)
<1>1. \A l \in LockNeedsOn(Ids) :
         /\ l.id \in Nat /\ l.lockType \in {"read", "write"}
         /\ l = [lockType |-> l.lockType, id |-> l.id]
  <2>1. ASSUME NEW l \in LockNeedsOn(Ids)
        PROVE  /\ l.id \in Nat /\ l.lockType \in {"read", "write"}
               /\ l = [lockType |-> l.lockType, id |-> l.id]
    BY <2>1, IdsAssumption DEF LockNeedsOn, LockTypes
  <2> QED
    BY <2>1
<1>2. n # m => Less(n, m) \/ Less(m, n)
  BY <1>1 DEF Less
<1>3. ~Less(n, n)
  BY <1>1 DEF Less
<1>4. \A l \in LockNeedsOn(Ids) : Less(n, m) /\ Less(m, l) => Less(n, l)
  BY <1>1 DEF Less
<1> QED
  BY <1>2, <1>3, <1>4

\* What doLocking takes next is among what is still to come.
LEMMA FirstAndLast ==
  ASSUME NEW S \in SUBSET LockNeedsOn(Ids), IsFiniteSet(S), S # {}
  PROVE  First(S) \in S /\ Last(S) \in S
<1>1. First(S) \in S
  <2> DEFINE R == {p \in S \X S : Less(p[1], p[2])}
  <2>1. \A x, y \in S : <<x, y>> \in R <=> Less(x, y)
    OBVIOUS
  <2>2. \E x \in S : \A y \in S \ {x} : <<x, y>> \in R
    <3> HIDE DEF R
    <3>1. \A x, y \in S : x # y => <<x, y>> \in R \/ <<y, x>> \in R
      BY <2>1, LessIsTotal
    <3>2. \A x \in S : <<x, x>> \notin R
      BY <2>1, LessIsTotal
    <3>3. \A x, y, z \in S :
             <<x, y>> \in R /\ <<y, z>> \in R => <<x, z>> \in R
      BY <2>1, LessIsTotal
    <3> QED
      BY <3>1, <3>2, <3>3, LeastElement
  <2> QED
    BY <2>1, <2>2 DEF First
<1>2. Last(S) \in S
  <2> DEFINE R == {p \in S \X S : Less(p[2], p[1])}
  <2>1. \A x, y \in S : <<x, y>> \in R <=> Less(y, x)
    OBVIOUS
  <2>2. \E x \in S : \A y \in S \ {x} : <<x, y>> \in R
    <3> HIDE DEF R
    <3>1. \A x, y \in S : x # y => <<x, y>> \in R \/ <<y, x>> \in R
      BY <2>1, LessIsTotal
    <3>2. \A x \in S : <<x, x>> \notin R
      BY <2>1, LessIsTotal
    <3>3. \A x, y, z \in S :
             <<x, y>> \in R /\ <<y, z>> \in R => <<x, z>> \in R
      BY <2>1, LessIsTotal
    <3> QED
      BY <3>1, <3>2, <3>3, LeastElement
  <2> QED
    BY <2>1, <2>2 DEF Last
<1> QED
  BY <1>1, <1>2

-----------------------------------------------------------------------------
(***************************************************************************)
(* The needs of the requests.                                              *)
(***************************************************************************)
LEMMA NeedIsItsFields ==
  \A t, u, i, j : LockNeed(t, i) = LockNeed(u, j) <=> t = u /\ i = j
BY DEF LockNeed

\* A request locks finitely many records, each of them once.
LEMMA NeedsFinite ==
  ASSUME NEW r \in Requests
  PROVE  /\ IsFiniteSet(Needs(r))
         /\ IsFiniteSet(sanitizeLockNeeds(unlockNeeds(Request[r])))
<1> DEFINE rq == Request[r]
<1>1. IsFiniteSet(signerNeeds(rq))
  <2>1. \A n, m : IsFiniteSet({n} \cup {m})
    BY FS_Singleton, FS_AddElement
  <2>2. \A n, m : IsFiniteSet({n, m})
    <3>1. \A n, m : {n, m} = {n} \cup {m}
      OBVIOUS
    <3> QED
      BY <2>1, <3>1
  <2> QED
    BY <2>2, FS_EmptySet DEF signerNeeds
<1>2. IsFiniteSet(subjectReads(rq))
  <2> DEFINE f == [i \in rq.subjects |-> LockNeed("read", i)]
  <2>1. f \in Surjection(rq.subjects, subjectReads(rq))
    BY DEF Surjection, subjectReads
  <2>2. IsFiniteSet(rq.subjects)
    BY RequestAssumption DEF WellTyped
  <2> HIDE DEF f
  <2> QED
    BY <2>1, <2>2, FS_Surjection
<1>3. IsFiniteSet(lockNeeds(rq))
  <2>1. \A n, S : IsFiniteSet(S) => IsFiniteSet(S \cup {n})
    BY FS_AddElement
  <2> DEFINE written == IF rq.type = "update"
                          THEN {LockNeed("write", rq.subject)} ELSE {}
             read    == IF rq.type = "read" /\ rq.readLock
                          THEN subjectReads(rq) ELSE {}
  <2>2. IsFiniteSet(written) /\ IsFiniteSet(read)
    BY <1>2, FS_EmptySet, FS_Singleton
  <2>3. lockNeeds(rq) = signerNeeds(rq) \cup written \cup read
    BY DEF lockNeeds
  <2> HIDE DEF written, read
  <2>4. IsFiniteSet(signerNeeds(rq) \cup written)
    BY <1>1, <2>2, FS_Union
  <2> QED
    BY <2>2, <2>3, <2>4, FS_Union
<1>4. IsFiniteSet(unlockNeeds(rq))
  <2>1. IsFiniteSet(lockNeeds(rq) \cup subjectReads(rq))
    BY <1>2, <1>3, FS_Union
  <2> QED
    BY <1>1, <1>3, <2>1 DEF unlockNeeds
<1>5. \A S : IsFiniteSet(S) => IsFiniteSet(sanitizeLockNeeds(S))
  <2>1. \A S : sanitizeLockNeeds(S) \in SUBSET S
    BY DEF sanitizeLockNeeds
  <2> QED
    BY <2>1, FS_Subset
<1> QED
  BY <1>3, <1>4, <1>5 DEF Needs

\* What a request is authorised with stays a need when the needs are
\* sanitised, for reading or for writing.
LEMMA SignersAreLocked ==
  ASSUME NEW r \in Requests, ~Request[r].skipPermissions
  PROVE  /\ Request[r].certifier \in Ids
         /\ LockNeed("read", Request[r].certifier) \in lockNeeds(Request[r])
         /\ \E t \in LockTypes : LockNeed(t, Request[r].certifier) \in Needs(r)
<1> DEFINE rq == Request[r]
<1>1. /\ rq.certifier \in Ids
      /\ LockNeed("read", rq.certifier) \in lockNeeds(rq)
  BY RequestAssumption DEF WellTyped, lockNeeds, signerNeeds
<1>2. CASE LockNeed("write", rq.certifier) \in lockNeeds(rq)
  <2>1. LockNeed("write", rq.certifier) \in Needs(r)
    BY <1>2 DEF Needs, sanitizeLockNeeds, LockNeed
  <2> QED
    BY <1>1, <2>1 DEF LockTypes
<1>3. CASE LockNeed("write", rq.certifier) \notin lockNeeds(rq)
  <2>1. \A n \in lockNeeds(rq) :
           n.lockType = "write" => n = LockNeed("write", n.id)
    BY DEF lockNeeds, signerNeeds, subjectReads, LockNeed
  <2> QED
    BY <1>1, <1>3, <2>1 DEF Needs, sanitizeLockNeeds, LockNeed, LockTypes
<1> QED
  BY <1>1, <1>2, <1>3

\* What a read locks, leaves locked and releases.
LEMMA ReadNeeds ==
  ASSUME NEW r \in Requests, Request[r].type = "read"
  PROVE  /\ Needs(r) = lockNeeds(Request[r])
         /\ sanitizeLockNeeds(unlockNeeds(Request[r])) = unlockNeeds(Request[r])
         /\ lockNeeds(Request[r]) =
               signerNeeds(Request[r]) \cup
                 (IF Request[r].readLock THEN subjectReads(Request[r]) ELSE {})
<1> DEFINE rq == Request[r]
<1>1. \A n \in signerNeeds(rq) \cup subjectReads(rq) : n.lockType = "read"
  BY DEF signerNeeds, subjectReads, LockNeed
<1>2. lockNeeds(rq) = signerNeeds(rq) \cup
                        (IF rq.readLock THEN subjectReads(rq) ELSE {})
  BY DEF lockNeeds
<1>3. unlockNeeds(rq) \subseteq signerNeeds(rq) \cup subjectReads(rq)
  BY <1>2 DEF unlockNeeds
<1>4. \A S : S \subseteq signerNeeds(rq) \cup subjectReads(rq)
                => sanitizeLockNeeds(S) = S
  BY <1>1 DEF sanitizeLockNeeds
<1>5. lockNeeds(rq) \subseteq signerNeeds(rq) \cup subjectReads(rq)
  BY <1>2
<1> QED
  BY <1>2, <1>3, <1>4, <1>5 DEF Needs

-----------------------------------------------------------------------------
(***************************************************************************)
(* A step of a request changes what that request holds only.               *)
(***************************************************************************)
OnlyBy(r) ==
    \A q \in Requests \ {r} : /\ pc'[q] = pc[q] /\ todo'[q] = todo[q]
                              /\ result'[q] = result[q]

LEMMA HoldersFrame ==
  ASSUME NEW r \in Requests, OnlyBy(r), ran' = ran, NEW i
  PROVE  /\ \A q \in Requests \ {r} :
               /\ Awaits(q, i)' = Awaits(q, i)
               /\ q \in ReadHolders(i)' <=> q \in ReadHolders(i)
               /\ q \in WriteHolders(i)' <=> q \in WriteHolders(i)
         /\ Kept(r)' = Kept(r)
         /\ r \in ReadHolders(i)' <=> LockNeed("read", i) \in Holding(r)' \cup Kept(r)
         /\ r \in WriteHolders(i)' <=> LockNeed("write", i) \in Holding(r)'
<1>1. \A q \in Requests \ {r} :
         Holding(q)' = Holding(q) /\ Awaits(q, i)' = Awaits(q, i)
  BY DEF OnlyBy, Holding, Awaits
<1>2. \A q \in Requests : Kept(q)' = Kept(q)
  BY DEF Kept, LeftLocked
<1> QED
  BY <1>1, <1>2 DEF ReadHolders, WriteHolders

\* Where it holds what it did, and does not wait for the readers, nothing
\* changes.
LEMMA LockFrame ==
  ASSUME NEW r \in Requests, OnlyBy(r), ran' = ran, NEW i \in Ids, TypeOK,
         LockInv(i), readers'[i] = readers[i], writer'[i] = writer[i],
         r \in ReadHolders(i)' <=> r \in ReadHolders(i),
         r \in WriteHolders(i)' <=> r \in WriteHolders(i),
         ~Awaits(r, i)
  PROVE  LockInv(i)'
<1>1. ReadHolders(i)' = ReadHolders(i) /\ WriteHolders(i)' = WriteHolders(i)
  <2>1. ReadHolders(i) \subseteq Requests /\ ReadHolders(i)' \subseteq Requests
    BY DEF ReadHolders
  <2>2. WriteHolders(i) \subseteq Requests /\ WriteHolders(i)' \subseteq Requests
    BY DEF WriteHolders
  <2>3. \A q \in Requests : /\ q \in ReadHolders(i)' <=> q \in ReadHolders(i)
                            /\ q \in WriteHolders(i)' <=> q \in WriteHolders(i)
    BY HoldersFrame
  <2> QED
    BY <2>1, <2>2, <2>3
<1>2. \A q \in Requests : Awaits(q, i) => Awaits(q, i)'
  BY HoldersFrame
<1>3. writer[i] \in Requests \cup {Nobody}
  BY DEF TypeOK
<1> QED
  BY <1>1, <1>2, <1>3 DEF LockInv

Locks == TypeOK /\ NoFatalUnlock /\ \A i \in Ids : LockInv(i)

\* The steps that neither take nor release a lock.
LEMMA QuietLocks ==
  ASSUME NEW r \in Requests, Locks, OnlyBy(r), UNCHANGED <<ran, lockVars>>,
         Holding(r)' = Holding(r), pc[r] = "locking" => todo[r] = {}
  PROVE  \A i \in Ids : LockInv(i)'
<1> SUFFICES ASSUME NEW i \in Ids PROVE LockInv(i)'
  OBVIOUS
<1>1. /\ r \in ReadHolders(i)' <=> r \in ReadHolders(i)
      /\ r \in WriteHolders(i)' <=> r \in WriteHolders(i)
  BY HoldersFrame DEF ReadHolders, WriteHolders
<1>2. ~Awaits(r, i)
  BY DEF Awaits
<1> QED
  BY <1>1, <1>2, LockFrame DEF Locks, lockVars

LEMMA HoldersAreRequests ==
  \A i : /\ ReadHolders(i) \subseteq Requests /\ ReadHolders(i)' \subseteq Requests
        /\ WriteHolders(i) \subseteq Requests /\ WriteHolders(i)' \subseteq Requests
BY DEF ReadHolders, WriteHolders

\* No reader holds a record that has a writer.
LEMMA ReadersExclude ==
  ASSUME NEW i \in Ids, LockInv(i), NEW q \in ReadHolders(i)
  PROVE  readers[i] # 0 /\ WriteHolders(i) = {}
BY FS_EmptySet, FS_CardinalityType DEF LockInv

LEMMA RLockLocks ==
  ASSUME NEW r \in Requests, NEW i \in Ids, Locks, PhaseInv(r), RLock(r, i)
  PROVE  \A j \in Ids : LockInv(j)'
<1> DEFINE need == LockNeed("read", i)
<1>1. OnlyBy(r) /\ ran' = ran /\ UNCHANGED <<writer, pc>>
  BY DEF RLock, OnlyBy, Locks, TypeOK
<1>2. /\ pc[r] = "locking" /\ need = First(todo[r]) /\ todo[r] # {}
      /\ todo[r] \subseteq Needs(r) /\ todo'[r] = todo[r] \ {need}
  BY DEF RLock, locks, PhaseInv, Locks, TypeOK
<1>3. need \in todo[r]
  BY <1>2, FirstAndLast DEF Locks, TypeOK, PhaseInv
<1>4. Holding(r)' = Holding(r) \cup {need} /\ need \notin Holding(r)
  BY <1>1, <1>2, <1>3 DEF Holding
<1>5. \A j \in Ids : ~Awaits(r, j)
  BY <1>2, NeedIsItsFields DEF Awaits
<1>6. ASSUME NEW j \in Ids, j # i PROVE LockInv(j)'
  <2>1. /\ r \in ReadHolders(j)' <=> r \in ReadHolders(j)
        /\ r \in WriteHolders(j)' <=> r \in WriteHolders(j)
    BY <1>1, <1>4, <1>6, HoldersFrame, NeedIsItsFields
    DEF ReadHolders, WriteHolders
  <2>2. readers'[j] = readers[j] /\ writer'[j] = writer[j]
    BY <1>6, <1>1 DEF RLock, Locks, TypeOK
  <2> QED
    BY <1>1, <1>5, <2>1, <2>2, LockFrame DEF Locks
<1>7. LockInv(i)'
  <2>1. need \notin Kept(r) /\ r \notin ReadHolders(i)
    BY <1>2, <1>4 DEF PhaseInv, Kept, LeftLocked, ReadHolders
  <2>2. ReadHolders(i)' = ReadHolders(i) \cup {r}
    <3>1. r \in ReadHolders(i)'
      BY <1>1, <1>4, HoldersFrame
    <3> QED
      BY <1>1, <3>1, HoldersFrame, HoldersAreRequests
  <2>3. IsFiniteSet(ReadHolders(i)) /\ readers[i] = Cardinality(ReadHolders(i))
    BY DEF Locks, LockInv
  <2>4. /\ IsFiniteSet(ReadHolders(i)')
        /\ Cardinality(ReadHolders(i)') = readers[i] + 1
    BY <2>1, <2>2, <2>3, FS_AddElement
  <2>5. readers'[i] = readers[i] + 1 /\ writer[i] = Nobody
    BY DEF RLock, Locks, TypeOK
  <2>6. WriteHolders(i)' = {}
    <3>1. WriteHolders(i) = {}
      BY <2>5, NobodyAssumption, HoldersAreRequests DEF Locks, LockInv
    <3>2. r \notin WriteHolders(i)'
      BY <1>1, <1>4, <3>1, HoldersFrame, NeedIsItsFields DEF WriteHolders
    <3> QED
      BY <1>1, <3>1, <3>2, HoldersFrame, HoldersAreRequests
  <2> QED
    BY <1>1, <2>4, <2>5, <2>6 DEF LockInv
<1> QED
  BY <1>6, <1>7

LEMMA AwaitReadersLocks ==
  ASSUME NEW r \in Requests, NEW i \in Ids, Locks, AwaitReaders(r, i)
  PROVE  \A j \in Ids : LockInv(j)'
<1>1. /\ OnlyBy(r) /\ ran' = ran /\ UNCHANGED <<pc, todo, readers>>
      /\ writer' = [writer EXCEPT ![i] = r] /\ writer[i] = Nobody
      /\ Awaits(r, i)
  BY DEF AwaitReaders, locks, OnlyBy, Awaits
<1>2. Awaits(r, i)' /\ \A j \in Ids \ {i} : ~Awaits(r, j)
  BY <1>1, NeedIsItsFields DEF Awaits
<1>3. \A j \in Ids : /\ ReadHolders(j)' = ReadHolders(j)
                    /\ WriteHolders(j)' = WriteHolders(j)
  BY <1>1 DEF ReadHolders, WriteHolders, Holding, Kept, LeftLocked
<1>4. ASSUME NEW j \in Ids \ {i} PROVE LockInv(j)'
  <2>1. writer'[j] = writer[j]
    BY <1>1 DEF Locks, TypeOK
  <2> QED
    BY <1>1, <1>2, <1>3, <2>1, LockFrame DEF Locks
<1>5. LockInv(i)'
  <2>1. WriteHolders(i) = {}
    BY <1>1, NobodyAssumption, HoldersAreRequests DEF Locks, LockInv
  <2>2. writer'[i] = r
    BY <1>1 DEF Locks, TypeOK
  <2> QED
    BY <1>1, <1>2, <1>3, <2>1, <2>2 DEF Locks, LockInv
<1> QED
  BY <1>4, <1>5

LEMMA LockLocks ==
  ASSUME NEW r \in Requests, NEW i \in Ids, Locks, PhaseInv(r), Lock(r, i)
  PROVE  \A j \in Ids : LockInv(j)'
<1> DEFINE need == LockNeed("write", i)
<1>1. OnlyBy(r) /\ ran' = ran /\ UNCHANGED <<readers, writer, pc>>
  BY DEF Lock, OnlyBy, Locks, TypeOK, lockVars
<1>2. /\ pc[r] = "locking" /\ need = First(todo[r]) /\ todo[r] # {}
      /\ todo[r] \subseteq Needs(r) /\ todo'[r] = todo[r] \ {need}
      /\ writer[i] = r /\ readers[i] = 0
  BY DEF Lock, locks, PhaseInv, Locks, TypeOK
<1>3. need \in todo[r]
  BY <1>2, FirstAndLast DEF Locks, TypeOK, PhaseInv
<1>4. Holding(r)' = Holding(r) \cup {need}
  BY <1>1, <1>2, <1>3 DEF Holding
<1>5. \A j \in Ids \ {i} : ~Awaits(r, j)
  BY <1>2, NeedIsItsFields DEF Awaits
<1>6. \A j \in Ids : r \in ReadHolders(j)' <=> r \in ReadHolders(j)
  BY <1>1, <1>4, HoldersFrame, NeedIsItsFields DEF ReadHolders
<1>7. ASSUME NEW j \in Ids \ {i} PROVE LockInv(j)'
  <2>1. r \in WriteHolders(j)' <=> r \in WriteHolders(j)
    BY <1>1, <1>4, <1>7, HoldersFrame, NeedIsItsFields DEF WriteHolders
  <2> QED
    BY <1>1, <1>5, <1>6, <2>1, LockFrame DEF Locks
<1>8. LockInv(i)'
  <2>1. ReadHolders(i)' = ReadHolders(i)
    <3>1. i \in Ids /\ \A q \in Requests : q \in ReadHolders(i)' <=> q \in ReadHolders(i)
      BY <1>1, <1>6, HoldersFrame
    <3> QED
      BY <3>1, HoldersAreRequests
  <2>2. WriteHolders(i)' = WriteHolders(i) \cup {r}
    <3>1. r \in WriteHolders(i)'
      BY <1>1, <1>4, HoldersFrame
    <3> QED
      BY <1>1, <3>1, HoldersFrame, HoldersAreRequests
  <2> QED
    BY <1>1, <1>2, <2>1, <2>2 DEF Locks, LockInv
<1> QED
  BY <1>7, <1>8

\* What a request has still to unlock, it holds.
LEMMA RUnlockLocks ==
  ASSUME NEW r \in Requests, NEW i \in Ids, Locks, PhaseInv(r), RUnlock(r, i)
  PROVE  ~fatal' /\ \A j \in Ids : LockInv(j)'
<1> DEFINE need == LockNeed("read", i)
<1>1. OnlyBy(r) /\ ran' = ran /\ UNCHANGED <<writer, pc>>
  BY DEF RUnlock, OnlyBy, Locks, TypeOK
<1>2. /\ pc[r] = "unlocking" /\ need = Last(todo[r]) /\ todo[r] # {}
      /\ todo'[r] = todo[r] \ {need}
  BY DEF RUnlock, unlocks, Locks, TypeOK
<1>3. need \in todo[r]
  BY <1>2, FirstAndLast DEF Locks, TypeOK, PhaseInv
<1>4. Holding(r) = todo[r] /\ Holding(r)' = Holding(r) \ {need}
  BY <1>1, <1>2 DEF Holding
<1>5. \A j \in Ids : ~Awaits(r, j)
  BY <1>2 DEF Awaits
<1>6. need \notin Kept(r) /\ r \in ReadHolders(i)
  BY <1>2, <1>3, <1>4 DEF PhaseInv, Kept, LeftLocked, ReadHolders
<1>7. readers[i] # 0 /\ WriteHolders(i) = {}
  BY <1>6, ReadersExclude DEF Locks
<1>8. fatal' = FALSE /\ readers' = [readers EXCEPT ![i] = @ - 1]
  BY <1>7 DEF RUnlock
<1>9. ASSUME NEW j \in Ids, j # i PROVE LockInv(j)'
  <2>1. /\ r \in ReadHolders(j)' <=> r \in ReadHolders(j)
        /\ r \in WriteHolders(j)' <=> r \in WriteHolders(j)
    BY <1>1, <1>4, <1>9, HoldersFrame, NeedIsItsFields
    DEF ReadHolders, WriteHolders
  <2>2. readers'[j] = readers[j] /\ writer'[j] = writer[j]
    BY <1>1, <1>8, <1>9 DEF Locks, TypeOK
  <2> QED
    BY <1>1, <1>5, <2>1, <2>2, LockFrame DEF Locks
<1>10. LockInv(i)'
  <2>1. ReadHolders(i)' = ReadHolders(i) \ {r}
    <3>1. r \notin ReadHolders(i)'
      BY <1>1, <1>4, <1>6, HoldersFrame
    <3> QED
      BY <1>1, <3>1, HoldersFrame, HoldersAreRequests
  <2>2. IsFiniteSet(ReadHolders(i)) /\ readers[i] = Cardinality(ReadHolders(i))
    BY DEF Locks, LockInv
  <2>3. /\ IsFiniteSet(ReadHolders(i)')
        /\ Cardinality(ReadHolders(i)') = readers[i] - 1
    BY <1>6, <2>1, <2>2, FS_RemoveElement
  <2>4. readers'[i] = readers[i] - 1
    BY <1>8 DEF Locks, TypeOK
  <2>5. WriteHolders(i)' = {}
    <3>1. r \notin WriteHolders(i)'
      BY <1>1, <1>4, <1>7, HoldersFrame, NeedIsItsFields DEF WriteHolders
    <3> QED
      BY <1>1, <1>7, <3>1, HoldersFrame, HoldersAreRequests
  <2>6. ASSUME writer[i] # Nobody PROVE Awaits(writer[i], i)'
    <3>1. Awaits(writer[i], i) /\ writer[i] \in Requests
      BY <1>7, <2>6 DEF Locks, LockInv, TypeOK
    <3> QED
      BY <1>1, <1>5, <3>1, HoldersFrame
  <2> QED
    BY <1>1, <2>3, <2>4, <2>5, <2>6 DEF LockInv
<1> QED
  BY <1>8, <1>9, <1>10

LEMMA UnlockLocks ==
  ASSUME NEW r \in Requests, NEW i \in Ids, Locks, PhaseInv(r), Unlock(r, i)
  PROVE  ~fatal' /\ \A j \in Ids : LockInv(j)'
<1> DEFINE need == LockNeed("write", i)
<1>1. OnlyBy(r) /\ ran' = ran /\ UNCHANGED <<readers, pc>>
  BY DEF Unlock, OnlyBy, Locks, TypeOK
<1>2. /\ pc[r] = "unlocking" /\ need = Last(todo[r]) /\ todo[r] # {}
      /\ todo'[r] = todo[r] \ {need}
      /\ writer' = [writer EXCEPT ![i] = Nobody]
  BY DEF Unlock, unlocks, Locks, TypeOK
<1>3. need \in todo[r]
  BY <1>2, FirstAndLast DEF Locks, TypeOK, PhaseInv
<1>4. Holding(r) = todo[r] /\ Holding(r)' = Holding(r) \ {need}
  BY <1>1, <1>2 DEF Holding
<1>5. \A j \in Ids : ~Awaits(r, j)
  BY <1>2 DEF Awaits
<1>6. r \in WriteHolders(i)
  BY <1>3, <1>4 DEF WriteHolders
<1>7. writer[i] = r /\ \A q \in WriteHolders(i) : q = r
  BY <1>6 DEF Locks, LockInv
<1>8. ~fatal'
  BY <1>7, NobodyAssumption DEF Unlock
<1>9. \A j \in Ids : r \in ReadHolders(j)' <=> r \in ReadHolders(j)
  BY <1>1, <1>4, HoldersFrame, NeedIsItsFields DEF ReadHolders
<1>10. ASSUME NEW j \in Ids, j # i PROVE LockInv(j)'
  <2>1. r \in WriteHolders(j)' <=> r \in WriteHolders(j)
    BY <1>1, <1>4, <1>10, HoldersFrame, NeedIsItsFields DEF WriteHolders
  <2>2. writer'[j] = writer[j]
    BY <1>2, <1>10 DEF Locks, TypeOK
  <2> QED
    BY <1>1, <1>5, <1>9, <2>1, <2>2, LockFrame DEF Locks
<1>11. LockInv(i)'
  <2>1. ReadHolders(i)' = ReadHolders(i)
    <3>1. i \in Ids /\ \A q \in Requests : q \in ReadHolders(i)' <=> q \in ReadHolders(i)
      BY <1>1, <1>9, HoldersFrame
    <3> QED
      BY <3>1, HoldersAreRequests
  <2>2. WriteHolders(i)' = {}
    <3>1. r \notin WriteHolders(i)'
      BY <1>1, <1>4, HoldersFrame
    <3> QED
      BY <1>1, <1>7, <3>1, HoldersFrame, HoldersAreRequests
  <2>3. writer'[i] = Nobody
    BY <1>2 DEF Locks, TypeOK
  <2> QED
    BY <1>1, <2>1, <2>2, <2>3 DEF Locks, LockInv
<1> QED
  BY <1>8, <1>10, <1>11

\* The early return of a read that does not lock, whose users are not all
\* known, leaves its signers locked: it does not happen to a release.
LEMMA CheckLocks ==
  ASSUME ReleasesPaired, NEW r \in Requests, Locks,
         \A q \in Requests : PhaseInv(q), Check(r)
  PROVE  \A j \in Ids : LockInv(j)'
<1>1. pc[r] = "locking" /\ todo[r] = {} /\ UNCHANGED <<ran, lockVars>> /\ OnlyBy(r)
  BY DEF Check, OnlyBy, Locks, TypeOK
<1>2. ~(Request[r].type = "read" /\ ~Request[r].readLock
           /\ ~(Request[r].subjects \subseteq Known))
  <2> SUFFICES ASSUME Request[r].type = "read", ~Request[r].readLock
               PROVE  Request[r].subjects \subseteq Known
    OBVIOUS
  <2> DEFINE q == After[r]
  <2>1. /\ q \in Requests /\ q # Nobody /\ leavesLocked(Request[q])
        /\ Request[q].subjects = Request[r].subjects
    BY DEF ReleasesPaired
  <2>2. \A n \in lockNeeds(Request[q]) : n.id \in Known
    BY <1>1, <2>1 DEF PhaseInv
  <2>3. \A i \in Request[q].subjects : LockNeed("read", i) \in lockNeeds(Request[q])
    BY <2>1, ReadNeeds DEF leavesLocked, subjectReads
  <2>4. \A i : LockNeed("read", i).id = i
    BY DEF LockNeed
  <2>5. \A i \in Request[q].subjects : i \in Known
    BY <2>2, <2>3, <2>4
  <2> QED
    BY <2>1, <2>5
<1>3. Holding(r)' = Holding(r)
  <2>1. \/ pc'[r] = "running" /\ todo'[r] = todo[r]
        \/ pc'[r] = "unlocking" /\ todo'[r] = Needs(r)
    BY <1>2 DEF Check, Locks, TypeOK, Needs, unlockNeedsWhenRefused
  <2> QED
    BY <1>1, <2>1 DEF Holding
<1> QED
  BY <1>1, <1>3, QuietLocks

(***************************************************************************)
(* Running a request: a read may leave its subjects locked, and a release  *)
(* takes over what was left to it.                                         *)
(***************************************************************************)
LEMMA RunHolders ==
  ASSUME ReleasesPaired, NEW r \in Requests, Locks,
         \A q \in Requests : PhaseInv(q), Run(r)
  PROVE  \A i : /\ WriteHolders(i)' = WriteHolders(i)
               /\ \/ ReadHolders(i)' = ReadHolders(i)
                  \/ \E p \in ReadHolders(i) :
                        /\ r \notin ReadHolders(i)
                        /\ ReadHolders(i)' = (ReadHolders(i) \ {p}) \cup {r}
<1> DEFINE rq == Request[r]
<1>1. /\ pc[r] = "running" /\ pc'[r] = "unlocking" /\ OnlyBy(r)
      /\ todo'[r] = sanitizeLockNeeds(unlockNeeds(rq))
      /\ ran' = ran \cup {r} /\ r \notin ran
  BY DEF Run, OnlyBy, Locks, TypeOK, PhaseInv
<1>2. \A q \in Requests \ {r} : Holding(q)' = Holding(q)
  BY <1>1 DEF OnlyBy, Holding
<1>3. /\ Holding(r) = Needs(r) /\ Kept(r) = {}
      /\ Holding(r)' = sanitizeLockNeeds(unlockNeeds(rq))
  BY <1>1 DEF Holding, Kept, LeftLocked
<1>4. \A q \in Requests \ {r} :
         Kept(q)' = IF After[r] = q THEN {} ELSE Kept(q)
  BY <1>1 DEF Kept, LeftLocked
<1>5. CASE leavesLocked(rq)
  <2>1. After[r] = Nobody /\ rq.type = "read" /\ rq.readLock /\ ~rq.readUnlock
    BY <1>5 DEF leavesLocked, ReleasesPaired
  <2>2. /\ Needs(r) = signerNeeds(rq) \cup subjectReads(rq)
        /\ Holding(r)' = signerNeeds(rq)
    BY <1>3, <2>1, ReadNeeds DEF unlockNeeds
  <2>3. Kept(r)' = subjectReads(rq) \ signerNeeds(rq)
    <3>1. r \in LeftLocked'
      <4>1. ASSUME NEW q \in Requests, After[q] = r, q \in ran' PROVE FALSE
        <5>1. After[q] # Nobody /\ pc[q] # "queued"
          BY <1>1, <2>1, <4>1, NobodyAssumption DEF PhaseInv
        <5> QED
          BY <1>1, <4>1, <5>1 DEF PhaseInv
      <4> QED
        BY <1>1, <1>5, <4>1 DEF LeftLocked
    <3> QED
      BY <3>1 DEF Kept
  <2>4. Holding(r)' \cup Kept(r)' = Holding(r) \cup Kept(r)
    BY <1>3, <2>2, <2>3
  <2>5. \A q \in Requests \ {r} : Kept(q)' = Kept(q)
    BY <1>4, <2>1, NobodyAssumption
  <2>6. \A i : ReadHolders(i)' = ReadHolders(i)
    BY <1>2, <2>4, <2>5 DEF ReadHolders
  <2>7. \A i : WriteHolders(i)' = WriteHolders(i)
    <3>1. \A n \in signerNeeds(rq) \cup subjectReads(rq) : n.lockType = "read"
      BY DEF signerNeeds, subjectReads, LockNeed
    <3>2. \A i : LockNeed("write", i) \notin Holding(r) \cup Holding(r)'
      BY <1>3, <2>2, <3>1 DEF LockNeed
    <3> QED
      BY <1>2, <3>2 DEF WriteHolders
  <2> QED
    BY <2>6, <2>7
<1>6. CASE rq.type = "read" /\ ~rq.readLock
  <2> DEFINE p    == After[r]
             reads == subjectReads(rq)
             signs == signerNeeds(rq)
  <2>1. /\ p \in Requests /\ p # Nobody /\ rq.readUnlock /\ p # r
        /\ leavesLocked(Request[p]) /\ ~leavesLocked(rq)
        /\ subjectReads(Request[p]) = reads
        /\ signerNeeds(Request[p]) = signs
    BY <1>6 DEF ReleasesPaired, leavesLocked, subjectReads
  <2>2. Holding(r) = signs /\ Holding(r)' = signs \cup reads
    BY <1>3, <1>6, <2>1, ReadNeeds DEF unlockNeeds
  <2>3. p \in ran /\ pc[p] = "done" /\ Holding(p) = {}
    BY <1>1, <2>1 DEF PhaseInv, Holding
  <2>4. Kept(p) = reads \ signs
    <3>1. p \in LeftLocked
      BY <1>1, <2>1, <2>3 DEF LeftLocked, ReleasesPaired
    <3> QED
      BY <2>1, <3>1 DEF Kept
  <2>5. Kept(p)' = {} /\ Holding(p)' = {}
    BY <1>2, <1>4, <2>1, <2>3
  <2>6. Kept(r)' = {}
    BY <2>1 DEF Kept, LeftLocked
  <2>7. \A q \in Requests \ {r, p} :
           Holding(q)' = Holding(q) /\ Kept(q)' = Kept(q)
    BY <1>2, <1>4
  <2> HIDE DEF p, reads, signs
  <2>8. ASSUME NEW i, LockNeed("read", i) \in reads \ signs
        PROVE  /\ p \in ReadHolders(i) /\ r \notin ReadHolders(i)
               /\ ReadHolders(i)' = (ReadHolders(i) \ {p}) \cup {r}
    BY <1>3, <2>1, <2>2, <2>4, <2>5, <2>7, <2>8 DEF ReadHolders
  <2>9. ASSUME NEW i, LockNeed("read", i) \notin reads \ signs
        PROVE  ReadHolders(i)' = ReadHolders(i)
    BY <1>3, <2>1, <2>2, <2>3, <2>4, <2>5, <2>6, <2>7, <2>9 DEF ReadHolders
  <2>10. \A i : WriteHolders(i)' = WriteHolders(i)
    <3>1. \A n \in signs \cup reads : n.lockType = "read"
      BY DEF signs, reads, signerNeeds, subjectReads, LockNeed
    <3>2. \A i : LockNeed("write", i) \notin Holding(r) \cup Holding(r)'
      BY <2>2, <3>1 DEF LockNeed
    <3> QED
      BY <1>2, <3>2 DEF WriteHolders
  <2> QED
    BY <2>8, <2>9, <2>10
<1>7. CASE ~leavesLocked(rq) /\ ~(rq.type = "read" /\ ~rq.readLock)
  <2>1. After[r] = Nobody
    BY <1>7 DEF ReleasesPaired
  <2>2. Holding(r)' = Holding(r)
    BY <1>3, <1>7 DEF unlockNeeds, leavesLocked, Needs
  <2>3. Kept(r)' = {}
    BY <1>7 DEF Kept, LeftLocked
  <2>4. \A q \in Requests : Holding(q)' = Holding(q) /\ Kept(q)' = Kept(q)
    BY <1>2, <1>3, <1>4, <2>1, <2>2, <2>3, NobodyAssumption
  <2> QED
    BY <2>4 DEF ReadHolders, WriteHolders
<1> QED
  BY <1>5, <1>6, <1>7

LEMMA RunLocks ==
  ASSUME ReleasesPaired, NEW r \in Requests, Locks,
         \A q \in Requests : PhaseInv(q), Run(r)
  PROVE  \A j \in Ids : LockInv(j)'
<1> SUFFICES ASSUME NEW i \in Ids PROVE LockInv(i)'
  OBVIOUS
<1>1. UNCHANGED <<readers, writer>> /\ OnlyBy(r) /\ pc[r] = "running"
  BY DEF Run, OnlyBy, Locks, TypeOK, lockVars
<1>2. LockInv(i)
  BY DEF Locks
<1>3. IsFiniteSet(ReadHolders(i)') /\ Cardinality(ReadHolders(i)') = readers[i]
  <2>1. CASE ReadHolders(i)' = ReadHolders(i)
    BY <1>2, <2>1 DEF LockInv
  <2>2. ASSUME NEW p \in ReadHolders(i), r \notin ReadHolders(i),
               ReadHolders(i)' = (ReadHolders(i) \ {p}) \cup {r}
        PROVE  /\ IsFiniteSet(ReadHolders(i)')
               /\ Cardinality(ReadHolders(i)') = readers[i]
    <3>1. /\ IsFiniteSet(ReadHolders(i) \ {p})
          /\ Cardinality(ReadHolders(i) \ {p}) = readers[i] - 1
      BY <1>2, FS_RemoveElement DEF LockInv
    <3>2. r \notin ReadHolders(i) \ {p} /\ readers[i] \in Nat
      BY <2>2 DEF Locks, TypeOK
    <3> DEFINE others == ReadHolders(i) \ {p}
    <3> HIDE DEF others
    <3>3. /\ IsFiniteSet(others \cup {r})
          /\ Cardinality(others \cup {r}) = Cardinality(others) + 1
      <4>1. IsFiniteSet(others) /\ r \notin others
        BY <3>1, <3>2 DEF others
      <4> QED
        BY <4>1, FS_AddElement
    <3>4. Cardinality(others \cup {r}) = readers[i]
      BY <3>1, <3>2, <3>3 DEF others
    <3> QED
      BY <2>2, <3>3, <3>4 DEF others
  <2> QED
    BY <2>1, <2>2, RunHolders
<1>4. WriteHolders(i)' = WriteHolders(i)
  BY RunHolders
<1>5. \A q \in Requests : Awaits(q, i) => Awaits(q, i)'
  BY <1>1 DEF OnlyBy, Awaits
<1>6. writer[i] \in Requests \cup {Nobody}
  BY DEF Locks, TypeOK
<1> QED
  BY <1>1, <1>2, <1>3, <1>4, <1>5, <1>6 DEF LockInv

-----------------------------------------------------------------------------
(***************************************************************************)
(* Where the requests are.                                                 *)
(***************************************************************************)
LEMMA PhaseFrame ==
  ASSUME TypeOK, NEW r \in Requests, OnlyBy(r), pc[r] # "done",
         ran \subseteq ran', ran' \subseteq ran \cup {r}, Known \subseteq Known',
         \A q \in Requests : PhaseInv(q)
  PROVE  \A q \in Requests \ {r} : PhaseInv(q)'
<1> SUFFICES ASSUME NEW q \in Requests \ {r} PROVE PhaseInv(q)'
  OBVIOUS
<1>1. /\ pc'[q] = pc[q] /\ todo'[q] = todo[q] /\ result'[q] = result[q]
      /\ q \in ran' <=> q \in ran
  BY DEF OnlyBy
<1>2. After[q] # Nobody /\ pc[q] # "queued" =>
         After[q] \in ran' /\ pc'[After[q]] = "done"
  BY DEF TypeOK, OnlyBy, PhaseInv
<1> QED
  BY <1>1, <1>2 DEF PhaseInv

LEMMA NextPhase ==
  ASSUME ReleasesPaired, TypeOK, \A q \in Requests : PhaseInv(q),
         NEW r \in Requests, Work(r)
  PROVE  \A q \in Requests : PhaseInv(q)'
<1> USE DEF TypeOK
<1> PhaseInv(r)
  OBVIOUS
<1>1. /\ OnlyBy(r) /\ pc[r] # "done"
      /\ ran \subseteq ran' /\ ran' \subseteq ran \cup {r}
  BY DEF Work, Begin, Check, Run, Return, RLock, AwaitReaders, Lock, RUnlock,
         Unlock, locks, unlocks, OnlyBy
<1>2. Known \subseteq Known'
  <2>1. CASE Run(r)
    BY <2>1, RunStore DEF Known
  <2>2. CASE ~Run(r)
    BY <2>2
    DEF Work, Begin, Check, Return, RLock, AwaitReaders, Lock, RUnlock,
        Unlock, Known
  <2> QED
    BY <2>1, <2>2
<1>3. \A S, n : IsFiniteSet(S) => IsFiniteSet(S \ {n})
  BY FS_RemoveElement
<1>4. PhaseInv(r)'
  <2>1. CASE Begin(r)
    <3>1. pc[r] = "queued" /\ r \notin ran /\ UNCHANGED <<ran, store>>
      BY <2>1 DEF Begin, PhaseInv, lockVars
    <3>2. ASSUME After[r] # Nobody
          PROVE  After[r] \in ran' /\ pc'[After[r]] = "done"
      <4>1. After[r] \in Requests
        BY <3>2 DEF ReleasesPaired
      <4>2. result[After[r]] = "success" /\ pc[After[r]] = "done"
        BY <2>1, <3>2 DEF Begin, Finished
      <4> QED
        BY <1>1, <3>1, <4>1, <4>2 DEF PhaseInv, OnlyBy
    <3>3. CASE /\ pc'[r] = "locking" /\ todo'[r] = Needs(r) /\ result'[r] = result[r]
               /\ \A n \in lockNeeds(Request[r]) : n.id \in Known
      BY <3>1, <3>2, <3>3, NeedsFinite DEF PhaseInv, Known
    <3>4. CASE /\ pc'[r] = "done" /\ todo'[r] = todo[r]
               /\ result'[r] = unknownError(Request[r])
      BY <3>1, <3>2, <3>4 DEF PhaseInv, unknownError
    <3> QED
      BY <2>1, <3>3, <3>4 DEF Begin, Needs
  <2>2. CASE Check(r)
    <3>1. pc[r] = "locking" /\ r \notin ran /\ UNCHANGED <<ran, store>>
      BY <2>2 DEF Check, PhaseInv
    <3>2. pc'[After[r]] = pc[After[r]] \/ After[r] \notin Requests \/ After[r] = r
      BY <1>1 DEF OnlyBy
    <3>3. CASE /\ pc'[r] = "done" /\ todo'[r] = todo[r]
               /\ result'[r] = unknownError(Request[r])
      BY <3>1, <3>2, <3>3 DEF PhaseInv, unknownError
    <3>4. CASE /\ pc'[r] = "running" /\ todo'[r] = todo[r]
               /\ result'[r] = result[r]
      BY <3>1, <3>2, <3>4 DEF PhaseInv, Known
    <3>5. CASE /\ pc'[r] = "unlocking" /\ todo'[r] = Needs(r)
               /\ result'[r] = "certifierPermissions"
      BY <3>1, <3>2, <3>5, NeedsFinite DEF PhaseInv
    <3> QED
      BY <2>2, <3>3, <3>4, <3>5 DEF Check, Needs, unlockNeedsWhenRefused
  <2>3. CASE Run(r)
    <3>1. /\ pc[r] = "running" /\ r \in ran' /\ pc'[r] = "unlocking"
          /\ todo'[r] = sanitizeLockNeeds(unlockNeeds(Request[r]))
          /\ result'[r] = "success"
      BY <2>3 DEF Run
    <3>2. pc'[After[r]] = pc[After[r]] \/ After[r] \notin Requests \/ After[r] = r
      BY <1>1 DEF OnlyBy
    <3>3. leavesLocked(Request[r]) => todo'[r] \subseteq signerNeeds(Request[r])
      BY <3>1 DEF leavesLocked, unlockNeeds, sanitizeLockNeeds
    <3>4. IsFiniteSet(todo'[r])
      BY <3>1, NeedsFinite
    <3> QED
      BY <1>1, <1>2, <3>1, <3>2, <3>3, <3>4 DEF PhaseInv
  <2>4. CASE \/ Return(r)
             \/ \E i \in Ids : \/ RLock(r, i) \/ AwaitReaders(r, i) \/ Lock(r, i)
                              \/ RUnlock(r, i) \/ Unlock(r, i)
    <3> DEFINE quiet ==
                 /\ UNCHANGED <<ran, store, result>>
                 /\ pc'[r] = pc[r] \/ (pc[r] = "unlocking" /\ pc'[r] = "done")
                 /\ pc[r] # "queued"
                 /\ \/ todo'[r] = todo[r]
                    \/ todo'[r] = todo[r] \ {First(todo[r])}
                    \/ todo'[r] = todo[r] \ {Last(todo[r])}
    <3>1. quiet
      <4>1. CASE Return(r)
        BY <4>1 DEF Return
      <4>2. ASSUME NEW i \in Ids, RLock(r, i) \/ AwaitReaders(r, i) \/ Lock(r, i)
            PROVE  quiet
        BY <4>2 DEF RLock, AwaitReaders, Lock, locks, lockVars
      <4>3. ASSUME NEW i \in Ids, RUnlock(r, i) \/ Unlock(r, i)
            PROVE  quiet
        BY <4>3 DEF RUnlock, Unlock, unlocks
      <4> QED
        BY <2>4, <4>1, <4>2, <4>3
    <3>2. pc'[After[r]] = pc[After[r]] \/ After[r] \notin Requests \/ After[r] = r
      BY <1>1 DEF OnlyBy
    <3>3. IsFiniteSet(todo'[r]) /\ todo'[r] \subseteq todo[r]
      <4>1. IsFiniteSet(todo[r])
        BY DEF PhaseInv
      <4>2. IsFiniteSet(todo[r] \ {First(todo[r])})
        BY <1>3, <4>1
      <4>3. IsFiniteSet(todo[r] \ {Last(todo[r])})
        BY <1>3, <4>1
      <4> QED
        BY <3>1, <4>1, <4>2, <4>3
    <3> QED
      BY <1>1, <3>1, <3>2, <3>3 DEF PhaseInv, Known
  <2> QED
    BY <2>1, <2>2, <2>3, <2>4 DEF Work
<1> QED
  BY <1>1, <1>2, <1>4, PhaseFrame

-----------------------------------------------------------------------------
LEMMA InitUsers == Init => UsersInv
<1> SUFFICES ASSUME Init PROVE UsersInv
  OBVIOUS
<1>1. \A r \in Requests : Holding(r) = {} /\ Kept(r) = {} /\ PhaseInv(r)
  BY FS_EmptySet DEF Init, Holding, Kept, LeftLocked, PhaseInv
<1>2. \A i \in Ids : LockInv(i)
  <2>1. \A i : ReadHolders(i) = {} /\ WriteHolders(i) = {}
    BY <1>1 DEF ReadHolders, WriteHolders
  <2> QED
    BY <2>1, FS_EmptySet DEF Init, LockInv
<1>3. CreatedInv /\ NoFatalUnlock
  BY DEF Init, CreatedInv, Known, NoFatalUnlock
<1> QED
  BY <1>1, <1>2, <1>3, InitType DEF UsersInv

LEMMA WorkUsers ==
  ASSUME ReleasesPaired, UsersInv, NEW r \in Requests, Work(r)
  PROVE  UsersInv'
<1> DEFINE Goal == NoFatalUnlock' /\ \A i \in Ids : LockInv(i)'
<1> Locks /\ \A q \in Requests : PhaseInv(q)
  BY DEF UsersInv, Locks
<1>1. ASSUME Begin(r) \/ Return(r) PROVE Goal
  <2>1. /\ OnlyBy(r) /\ UNCHANGED <<ran, lockVars>> /\ pc[r] # "locking"
        /\ Holding(r) = {}
    BY <1>1 DEF Begin, Return, OnlyBy, Locks, TypeOK, Holding, lockVars
  <2>2. Holding(r)' = {}
    BY <1>1 DEF Begin, Return, Locks, TypeOK, Holding, Needs
  <2>3. Goal
    BY <2>1, <2>2, QuietLocks DEF Locks, NoFatalUnlock, lockVars
  <2> QED
    BY <2>3
<1>2. ASSUME Check(r) \/ Run(r) PROVE Goal
  <2>1. UNCHANGED fatal
    BY <1>2 DEF Check, Run, lockVars
  <2>2. \A i \in Ids : LockInv(i)'
    BY <1>2, CheckLocks, RunLocks
  <2> QED
    BY <2>1, <2>2 DEF Locks, NoFatalUnlock
<1>3. ASSUME NEW i \in Ids, \/ RLock(r, i) \/ AwaitReaders(r, i) \/ Lock(r, i)
                            \/ RUnlock(r, i) \/ Unlock(r, i)
      PROVE  Goal
  BY <1>3, RLockLocks, AwaitReadersLocks, LockLocks, RUnlockLocks, UnlockLocks
  DEF RLock, AwaitReaders, Lock, lockVars, Locks, NoFatalUnlock
<1>4. Goal
  BY <1>1, <1>2, <1>3 DEF Work
<1>5. CreatedInv'
  <2>1. CASE Run(r)
    <3>1. DOMAIN store' \subseteq Known
              \cup {i \in {Request[r].subject} : Request[r].type = "create"}
      BY <2>1, RequestAssumption DEF WellTyped, Run, Known
    <3>2. ran' = ran \cup {r}
      BY <2>1 DEF Run
    <3> QED
      BY <3>1, <3>2 DEF UsersInv, CreatedInv, Known
  <2>2. CASE ~Run(r)
    <3>1. UNCHANGED <<store, ran>>
      BY <2>2 DEF Work, Begin, Check, Return, RLock, AwaitReaders, Lock,
                  RUnlock, Unlock
    <3> QED
      BY <3>1 DEF UsersInv, CreatedInv, Known
  <2> QED
    BY <2>1, <2>2
<1>6. TypeOK'
  BY NextType DEF Next, Locks
<1>7. \A q \in Requests : PhaseInv(q)'
  BY NextPhase DEF Locks
<1> QED
  BY <1>4, <1>5, <1>6, <1>7 DEF UsersInv

LEMMA NextUsers == ReleasesPaired /\ UsersInv /\ [Next]_vars => UsersInv'
<1> SUFFICES ASSUME ReleasesPaired, UsersInv, [Next]_vars PROVE UsersInv'
  OBVIOUS
<1>1. CASE Next
  BY <1>1, WorkUsers DEF Next
<1>2. CASE UNCHANGED vars
  <2>1. \A r \in Requests : Holding(r)' = Holding(r) /\ Kept(r)' = Kept(r)
    BY <1>2 DEF vars, Holding, Kept, LeftLocked
  <2>2. \A i : ReadHolders(i)' = ReadHolders(i) /\ WriteHolders(i)' = WriteHolders(i)
    BY <2>1 DEF ReadHolders, WriteHolders
  <2>3. \A i \in Ids : LockInv(i)'
    BY <1>2, <2>2 DEF vars, UsersInv, LockInv, Awaits
  <2>4. (\A r \in Requests : PhaseInv(r)') /\ CreatedInv' /\ NoFatalUnlock'
    BY <1>2 DEF vars, UsersInv, PhaseInv, CreatedInv, NoFatalUnlock, Known
  <2> QED
    BY <2>3, <2>4, NextType DEF UsersInv
<1> QED
  BY <1>1, <1>2

LEMMA UsersInvariant == ReleasesPaired => (Spec => []UsersInv)
<1> SUFFICES ASSUME ReleasesPaired PROVE Spec => []UsersInv
  OBVIOUS
<1>1. UsersInv /\ [Next]_vars => UsersInv'
  BY NextUsers
<1> QED
  BY <1>1, InitUsers, PTL DEF Spec

\* No lock is released that is not held (users/daemon.go:338): each has the
\* holders the count says, and only they release it.
THEOREM NoUnlockIsFatal == ReleasesPaired => (Spec => []NoFatalUnlock)
<1>1. UsersInv => NoFatalUnlock
  BY DEF UsersInv
<1> QED
  BY <1>1, UsersInvariant, PTL

LEMMA NothingElseLocked == UsersInv => LocksReleased
<1>1. ASSUME UsersInv, \A r \in Requests : ~Busy(r), NEW i \in Ids
      PROVE  /\ writer[i] = Nobody
             /\ readers[i] =
                   Cardinality({r \in LeftLocked : i \in staysLocked(Request[r])})
  <2>1. \A r \in Requests : Holding(r) = {} /\ ~Awaits(r, i)
    BY <1>1 DEF Busy, Holding, Awaits
  <2>2. writer[i] = Nobody
    BY <1>1, <2>1 DEF UsersInv, TypeOK, LockInv, WriteHolders
  <2>3. ReadHolders(i) = {r \in LeftLocked : i \in staysLocked(Request[r])}
    <3>1. \A r \in Requests : LockNeed("read", i) \in subjectReads(Request[r])
                                <=> i \in Request[r].subjects
      BY NeedIsItsFields DEF subjectReads
    <3>2. \A r \in Requests :
             LockNeed("read", i) \in Kept(r) <=>
                r \in LeftLocked /\ i \in staysLocked(Request[r])
      BY <3>1 DEF Kept, staysLocked
    <3> QED
      BY <2>1, <3>2 DEF ReadHolders, LeftLocked
  <2> QED
    BY <1>1, <2>2, <2>3 DEF UsersInv, LockInv
<1> QED
  BY <1>1 DEF UsersInv, LocksReleased

\* When no worker is busy, all that is locked is what a read left to its
\* release (users/daemon.go:326): each request gave back what it took,
\* whether it was refused or ran.
THEOREM EveryLockIsReleased == ReleasesPaired => (Spec => []LocksReleased)
<1> QED
  BY NothingElseLocked, UsersInvariant, PTL
-----------------------------------------------------------------------------
(***************************************************************************)
(* What the locks protect.                                                 *)
(***************************************************************************)
\* A record somebody holds is written by nobody else.
LEMMA HeldUnchanged ==
  ASSUME ReleasesPaired, UsersInv, NEW i \in Known, NEW q \in Requests,
         q \in ReadHolders(i) \/ q \in WriteHolders(i),
         NEW r \in Requests, r # q, Work(r)
  PROVE  store'[i] = store[i]
<1> DEFINE rq == Request[r]
<1>1. i \in Ids
  BY DEF UsersInv, TypeOK, Known
<1>2. CASE Run(r)
  <2>1. r \notin ran /\ Holding(r) = Needs(r)
    BY <1>2 DEF Run, UsersInv, PhaseInv, Holding
  <2>2. CASE rq.type = "update"
    <3>1. ASSUME rq.subject = i PROVE FALSE
      <4>1. LockNeed("write", i) \in Needs(r)
        BY <2>2, <3>1 DEF Needs, lockNeeds, sanitizeLockNeeds, LockNeed
      <4>2. r \in WriteHolders(i)
        BY <2>1, <4>1 DEF WriteHolders
      <4> QED
        BY <1>1, <4>2, ReadersExclude DEF UsersInv, LockInv
    <3> QED
      BY <1>2, <2>2, <3>1 DEF Run, Known
  <2>3. CASE rq.type = "create"
    <3>1. rq.subject # i
      BY <2>1, <2>3, RequestAssumption
      DEF WellTyped, UsersInv, TypeOK, CreatedInv, ReleasesPaired
    <3> QED
      BY <1>2, <2>3, <3>1 DEF Run, Known
  <2>4. CASE rq.type = "read"
    BY <1>2, <2>4 DEF Run
  <2> QED
    BY <2>2, <2>3, <2>4, RequestAssumption DEF WellTyped
<1>3. CASE ~Run(r)
  BY <1>3 DEF Work, Begin, Check, Return, RLock, AwaitReaders, Lock, RUnlock,
              Unlock
<1> QED
  BY <1>2, <1>3

LEMMA NextPermission ==
  ReleasesPaired /\ UsersInv /\ RunsUnderPermission /\ [Next]_vars
     => RunsUnderPermission'
<1> SUFFICES ASSUME ReleasesPaired, UsersInv, RunsUnderPermission, [Next]_vars,
                    NEW q \in Requests, pc'[q] = "running",
                    ~Request[q].skipPermissions
             PROVE  LET c == Request[q].certifier
                    IN  isAuthorized(store'[c], c, Request[q])
  BY DEF RunsUnderPermission
<1> DEFINE c == Request[q].certifier
<1>1. CASE pc[q] = "running"
  <2>1. isAuthorized(store[c], c, Request[q])
    BY <1>1 DEF RunsUnderPermission
  <2>2. c \in Known /\ (q \in ReadHolders(c) \/ q \in WriteHolders(c))
    <3>1. Holding(q) = Needs(q)
      BY <1>1 DEF Holding
    <3>2. \E t \in LockTypes : LockNeed(t, c) \in Holding(q)
      BY <3>1, SignersAreLocked
    <3>3. LockNeed("read", c).id \in Known
      BY <1>1, SignersAreLocked DEF UsersInv, PhaseInv
    <3> QED
      BY <3>2, <3>3 DEF LockTypes, ReadHolders, WriteHolders, LockNeed
  <2>3. store'[c] = store[c]
    <3>1. CASE UNCHANGED vars
      BY <3>1 DEF vars
    <3>2. ASSUME NEW r \in Requests, Work(r) PROVE store'[c] = store[c]
      <4>1. CASE r = q
        BY <1>1, <3>2, <4>1
        DEF Work, Begin, Check, Run, Return, RLock, AwaitReaders, Lock,
            RUnlock, Unlock, locks, unlocks, UsersInv, TypeOK
      <4>2. CASE r # q
        BY <2>2, <3>2, <4>2, HeldUnchanged
      <4> QED
        BY <4>1, <4>2
    <3> QED
      BY <3>1, <3>2 DEF Next
  <2> QED
    BY <2>1, <2>3
<1>2. CASE pc[q] # "running"
  <2>1. PICK r \in Requests : Work(r)
    BY <1>2 DEF Next, vars
  <2>2. r = q /\ Check(r)
    BY <1>2, <2>1
    DEF Work, Begin, Check, Run, Return, RLock, AwaitReaders, Lock, RUnlock,
        Unlock, UsersInv, TypeOK
  <2> QED
    BY <1>2, <2>2 DEF Check, UsersInv, TypeOK
<1> QED
  BY <1>1, <1>2

\* Nobody takes a permission away between its check and its use
\* (users/daemon.go:235), whatever the other workers do.
THEOREM PermissionsHold == ReleasesPaired => (Spec => []RunsUnderPermission)
<1> SUFFICES ASSUME ReleasesPaired PROVE Spec => []RunsUnderPermission
  OBVIOUS
<1>1. Init => RunsUnderPermission
  BY DEF Init, RunsUnderPermission
<1>2. UsersInv /\ RunsUnderPermission /\ [Next]_vars => RunsUnderPermission'
  BY NextPermission
<1> QED
  BY <1>1, <1>2, UsersInvariant, PTL DEF Spec

\* What a read left locked is held, so no other request writes it.
LEMMA LeftLockedKept ==
  ASSUME ReleasesPaired, UsersInv, NEW q \in Requests, Work(q),
         NEW r \in LeftLocked, NEW i \in staysLocked(Request[r])
  PROVE  i \in Known /\ store'[i] = store[i]
<1>1. /\ r \in Requests /\ r \in ran /\ leavesLocked(Request[r])
      /\ LockNeed("read", i) \in Kept(r)
  BY DEF LeftLocked, Kept, staysLocked, subjectReads
<1>2. r \in ReadHolders(i)
  BY <1>1 DEF ReadHolders
<1>3. LockNeed("read", i) \in lockNeeds(Request[r])
  BY <1>1, ReadNeeds DEF leavesLocked, Kept
<1>4. i \in Known
  BY <1>1, <1>3 DEF UsersInv, PhaseInv, LockNeed
<1>5. CASE q = r
  BY <1>1, <1>4, <1>5
  DEF Work, Begin, Check, Run, Return, RLock, AwaitReaders, Lock, RUnlock,
      Unlock, UsersInv, PhaseInv
<1>6. CASE q # r
  BY <1>1, <1>2, <1>4, <1>6, HeldUnchanged
<1> QED
  BY <1>5, <1>6

\* The records of the recipients do not change between the read that locks
\* them and the end of its release (users/daemon.go:334).
THEOREM LeftLockedStay == ReleasesPaired => (Spec => LeftLockedUnchanged)
<1> SUFFICES ASSUME ReleasesPaired PROVE Spec => LeftLockedUnchanged
  OBVIOUS
<1>1. ASSUME UsersInv, [Next]_vars
      PROVE  [\A r \in LeftLocked : \A i \in staysLocked(Request[r]) :
                 store'[i] = store[i]]_vars
  BY <1>1, LeftLockedKept DEF Next
<1> QED
  BY <1>1, UsersInvariant, PTL DEF Spec, LeftLockedUnchanged
=============================================================================
