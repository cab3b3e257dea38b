---------------------------- MODULE StatusProofs ----------------------------
(***************************************************************************)
(* Proofs about Status, for any set of update requests, any code each of   *)
(* them reports, and any set of listeners.                                 *)
(***************************************************************************)
EXTENDS Status, TLAPS

\* The initial state has the types.
LEMMA InitType == Init => TypeOK
<1>1. emptyRecord \in Records
  BY DEF emptyRecord, Records, Payloads, StatusCodes, NoStatus, FailedStatus
<1>2. << >> \in Seq(StatusCodes) /\ NoStatus \in StatusCodes
  BY DEF StatusCodes, NoStatus, FailedStatus
<1> SUFFICES ASSUME Init PROVE TypeOK
  OBVIOUS
<1>3. told \in [Listeners -> Seq(StatusCodes)]
  BY <1>2 DEF Init
<1>4. joined \in [Listeners -> StatusCodes]
  BY <1>2 DEF Init
<1>5. queued \in [Listeners -> Nat]
  BY DEF Init
<1> QED
  BY <1>1, <1>3, <1>4, <1>5 DEF Init, TypeOK

\* What send leaves in the channels and in the history.
LEMMA SendType ==
  ASSUME TypeOK, NEW ls \in SUBSET Listeners, send(ls)
  PROVE  /\ queued' \in [Listeners -> Nat]
         /\ told' \in [Listeners -> Seq(StatusCodes)]
<1>1. \A l \in Listeners :
         /\ queued[l] \in Nat
         /\ told[l] \in Seq(StatusCodes)
         /\ Append(told[l], record.status) \in Seq(StatusCodes)
  BY DEF TypeOK, Records
<1> QED
  BY <1>1 DEF send

\* Every step keeps the types.
LEMMA NextType == TypeOK /\ [Next]_vars => TypeOK'
<1> SUFFICES ASSUME TypeOK, [Next]_vars PROVE TypeOK'
  OBVIOUS
<1>1. ASSUME NEW u \in Updates, Update(u) PROVE TypeOK'
  <2>1. CASE GetRecord(u)
    <3>1. [status |-> Code[u], payload |-> u] \in Records
      BY CodeAssumption DEF Records, Payloads
    <3> QED
      BY <2>1, <3>1 DEF GetRecord, TypeOK, listenerVars, readerVars
  <2>2. CASE IgnoreStale(u)
    BY <2>2 DEF IgnoreStale, TypeOK, listenerVars, readerVars
  <2>3. CASE WriteStatus(u)
    <3>1. [record EXCEPT !.status = Code[u]] \in Records
      BY CodeAssumption DEF TypeOK, Records
    <3> QED
      BY <2>3, <3>1 DEF WriteStatus, TypeOK, listenerVars, readerVars
  <2>4. CASE WritePayload(u)
    <3>1. [record EXCEPT !.payload = u] \in Records
      BY DEF TypeOK, Records, Payloads
    <3> QED
      BY <2>4, <3>1
      DEF WritePayload, listenersToSend, TypeOK, listenerVars, readerVars
  <2>5. CASE SendUpdate(u)
    BY <2>5, SendType DEF SendUpdate, TypeOK, readerVars
  <2>6. CASE FinishUpdate(u)
    BY <2>6 DEF FinishUpdate, deleteListeners, TypeOK, readerVars
  <2> QED
    BY <1>1, <2>1, <2>2, <2>3, <2>4, <2>5, <2>6 DEF Update
<1>2. ASSUME NEW l \in Listeners, Listen(l) PROVE TypeOK'
  <2>1. CASE GetRecordToListen(l)
    BY <2>1 DEF GetRecordToListen, TypeOK, updateVars, readerVars
  <2>2. CASE AddListener(l)
    <3>1. record.status \in StatusCodes
      BY DEF TypeOK, Records
    <3>2. [joined EXCEPT ![l] = record.status] \in [Listeners -> StatusCodes]
      BY <3>1 DEF TypeOK
    <3>3. CASE needsOnlyLast
      <4>1. send({l})
        BY <2>2, <3>3 DEF AddListener
      <4> QED
        BY <2>2, <3>2, <3>3, <4>1, SendType
        DEF AddListener, TypeOK, updateVars, readerVars
    <3>4. CASE ~needsOnlyLast
      BY <2>2, <3>2, <3>4 DEF AddListener, TypeOK, updateVars, readerVars
    <3> QED
      BY <3>3, <3>4
  <2> QED
    BY <1>2, <2>1, <2>2 DEF Listen
<1>3. ASSUME NEW l \in Listeners, ReadUpdates(l) PROVE TypeOK'
  <2>1. CASE ReceiveUpdate(l)
    <3>1. [queued EXCEPT ![l] = @ - 1] \in [Listeners -> Nat]
      BY <2>1 DEF ReceiveUpdate, TypeOK
    <3> QED
      BY <2>1, <3>1 DEF ReceiveUpdate, TypeOK, updateVars
  <2>2. CASE Look(l)
    BY <2>2 DEF Look, TypeOK, updateVars, listenerVars
  <2>3. CASE GetResponse(l)
    BY <2>3 DEF GetResponse, TypeOK, updateVars, listenerVars
  <2> QED
    BY <1>3, <2>1, <2>2, <2>3 DEF ReadUpdates
<1>4. CASE UNCHANGED vars
  BY <1>4 DEF vars, TypeOK
<1> QED
  BY <1>1, <1>2, <1>3, <1>4 DEF Next

\* The type invariant of the status and listeners servers and of the readers
\* of their channels.
THEOREM StatusTypeCorrect == Spec => []TypeOK
<1> QED
  BY InitType, NextType, PTL DEF Spec
-----------------------------------------------------------------------------
(***************************************************************************)
(* The inductive invariant.  An update is between its check and its end    *)
(* exactly while it holds the lock; until its turn comes, a listener stands *)
(* at the status before the one being written.  Each status sent is above  *)
(* the one before, so there are never more of them than the rank of the    *)
(* last one, and a listener that still waits has been sent two at most.    *)
(***************************************************************************)
Standing(l) == IF told[l] = << >> THEN joined[l] ELSE LastOf(told[l])

Rising(s) == \A i \in 1..(Len(s) - 1) : s[i] < s[i + 1] /\ ~IsDone(s[i])

\* The listeners the present update has not sent to.
Waiting(l) == upc[writer] = "writing" \/ l \in unsent

FreshInv ==
    /\ ~stored => /\ record.status = NoStatus
                  /\ \A u \in Updates : upc[u] = "queued"
                  /\ \A l \in Listeners : lpc[l] = "queued"
    /\ \A l \in Listeners :
          lpc[l] # "done" => told[l] = << >> /\ l \notin channels \cup closed

LockInv ==
    /\ \A u \in Updates : upc[u] \in {"writing", "sending"} <=> writer = u
    /\ writer # Nothing => record.status = Code[writer]
    /\ unsent \subseteq channels
    /\ unsent # {} => writer # Nothing /\ upc[writer] = "sending"

DoneInv ==
    /\ channels \cap closed = {}
    /\ closed # {} => IsDone(record.status)
    /\ NoListenerLeftBehind
    /\ \A l \in Listeners :
          reader[l] \in {"draining", "done"} => IsDone(record.status)

ToldInv ==
    \A l \in Listeners :
       /\ Rising(told[l])
       /\ queued[l] <= Len(told[l])
       /\ told[l] # << >> => Len(told[l]) <= LastOf(told[l])
       /\ l \in closed => told[l] # << >> /\ IsDone(LastOf(told[l]))

StandingInv ==
    \A l \in channels :
       /\ writer = Nothing => Standing(l) = record.status
       /\ writer # Nothing =>
             IF Waiting(l)
               THEN Standing(l) < record.status /\ ~IsDone(Standing(l))
               ELSE told[l] # << >> /\ Standing(l) = record.status

Inv ==
    /\ TypeOK
    /\ FreshInv
    /\ LockInv
    /\ DoneInv
    /\ ToldInv
    /\ StandingInv
    /\ ResultIsFinal

\* The invariant holds before any request.
LEMMA InitInv == Init => Inv
<1> SUFFICES ASSUME Init PROVE Inv
  OBVIOUS
<1>1. TypeOK
  BY InitType
<1>2. FreshInv
  BY DEF Init, FreshInv, emptyRecord
<1>3. LockInv
  BY NothingAssumption DEF Init, LockInv
<1>4. DoneInv
  BY DEF Init, DoneInv, NoListenerLeftBehind
<1>5. ToldInv
  BY DEF Init, ToldInv, Rising
<1>6. StandingInv /\ ResultIsFinal
  BY DEF Init, StandingInv, ResultIsFinal
<1> QED
  BY <1>1, <1>2, <1>3, <1>4, <1>5, <1>6 DEF Inv

\* Sending a status above the last one keeps what was sent rising.
LEMMA SendRises ==
  ASSUME NEW s \in Seq(StatusCodes), NEW x \in StatusCodes,
         Rising(s),
         s = << >> => x > 0,
         s # << >> => /\ LastOf(s) < x /\ ~IsDone(LastOf(s))
                      /\ Len(s) <= LastOf(s)
  PROVE  /\ Rising(Append(s, x))
         /\ Append(s, x) # << >>
         /\ LastOf(Append(s, x)) = x
         /\ Len(Append(s, x)) = Len(s) + 1
         /\ Len(Append(s, x)) <= x
<1>1. /\ Len(s) \in Nat
      /\ Len(Append(s, x)) = Len(s) + 1
      /\ \A i \in 1..Len(s) : Append(s, x)[i] = s[i] /\ s[i] \in StatusCodes
      /\ Append(s, x)[Len(s) + 1] = x
  OBVIOUS
<1>2. x \in Nat /\ \A i \in 1..Len(s) : s[i] \in Nat
  BY <1>1 DEF StatusCodes, NoStatus, FailedStatus
<1>3. LastOf(Append(s, x)) = x
  BY <1>1 DEF LastOf
<1>4. Append(s, x) # << >>
  BY <1>1
<1>5. CASE s = << >>
  <2>1. Len(s) = 0
    BY <1>5
  <2>2. Len(Append(s, x)) <= x
    BY <1>1, <1>2, <1>5, <2>1
  <2>3. Rising(Append(s, x))
    BY <1>1, <2>1 DEF Rising
  <2> QED
    BY <1>1, <1>3, <1>4, <2>2, <2>3
<1>6. CASE s # << >>
  <2>1. Len(s) >= 1
    BY <1>1, <1>6
  <2>2. LastOf(s) \in Nat /\ LastOf(s) = s[Len(s)]
    BY <1>1, <1>2, <2>1 DEF LastOf
  <2>3. Len(Append(s, x)) <= x
    BY <1>1, <1>2, <1>6, <2>2
  <2>4. ASSUME NEW i \in 1..Len(s)
        PROVE  Append(s, x)[i] < Append(s, x)[i + 1] /\ ~IsDone(Append(s, x)[i])
    <3>1. CASE i = Len(s)
      BY <1>1, <1>6, <2>2, <2>4, <3>1
    <3>2. CASE i # Len(s)
      <4>1. i \in 1..(Len(s) - 1) /\ i + 1 \in 1..Len(s)
        BY <1>1, <3>2
      <4> QED
        BY <1>1, <4>1 DEF Rising
    <3> QED
      BY <3>1, <3>2
  <2>5. Rising(Append(s, x))
    BY <1>1, <2>4 DEF Rising
  <2> QED
    BY <1>1, <1>3, <1>4, <2>3, <2>5
<1> QED
  BY <1>5, <1>6

\* The statuses are naturals, and one that is not final is at most 2.
LEMMA StatusValues ==
  ASSUME TypeOK
  PROVE  /\ record.status \in Nat
         /\ \A u \in Updates : Code[u] \in Nat
         /\ \A l \in Listeners : Standing(l) \in StatusCodes
         /\ StatusCodes \subseteq Nat
         /\ \A s \in StatusCodes : ~IsDone(s) => s <= 2
<1>1. /\ StatusCodes \subseteq Nat
      /\ \A s \in StatusCodes : ~IsDone(s) => s <= 2
  BY DEF StatusCodes, IsDone, NoStatus, SuccessStatus, FailedStatus
<1>2. record.status \in StatusCodes /\ \A u \in Updates : Code[u] \in StatusCodes
  BY CodeAssumption DEF TypeOK, Records
<1>3. ASSUME NEW l \in Listeners PROVE Standing(l) \in StatusCodes
  <2>1. joined[l] \in StatusCodes /\ told[l] \in Seq(StatusCodes)
    BY DEF TypeOK
  <2>2. told[l] # << >> => told[l][Len(told[l])] \in StatusCodes
    BY <2>1
  <2> QED
    BY <2>1, <2>2 DEF Standing, LastOf
<1> QED
  BY <1>1, <1>2, <1>3
-----------------------------------------------------------------------------
(***************************************************************************)
(* The steps of an update.                                                 *)
(***************************************************************************)
\* Storing the first request as the record, or finding the record.
LEMMA GetRecordInv ==
  ASSUME Inv, TypeOK', NEW u \in Updates, GetRecord(u) PROVE Inv'
<1> USE DEF GetRecord, listenerVars, readerVars
<1>1. writer # u
  BY DEF Inv, LockInv
<1>2. CASE stored
  <2>1. record' = record
    BY <1>2
  <2>2. FreshInv'
    BY <2>1 DEF Inv, FreshInv
  <2>3. LockInv'
    BY <1>1, <2>1 DEF Inv, LockInv, TypeOK
  <2>4. DoneInv' /\ ToldInv' /\ ResultIsFinal'
    BY <2>1 DEF Inv, DoneInv, NoListenerLeftBehind, ToldInv, ResultIsFinal
  <2>5. StandingInv'
    <3>1. \A l : Standing(l)' = Standing(l)
      BY DEF Standing
    <3>2. writer # Nothing => upc'[writer] = upc[writer]
      BY <1>1 DEF TypeOK, Inv
    <3> QED
      BY <2>1, <3>1, <3>2 DEF Inv, StandingInv, Waiting
  <2> QED
    BY <2>2, <2>3, <2>4, <2>5 DEF Inv
<1>3. CASE ~stored
  <2>1. /\ channels = {} /\ closed = {}
        /\ writer = Nothing /\ unsent = {}
        /\ \A l \in Listeners : reader[l] \notin {"draining", "done"}
    <3>1. channels = {} /\ closed = {}
      BY <1>3 DEF Inv, TypeOK, FreshInv
    <3>2. writer = Nothing /\ unsent = {}
      BY <1>3, <3>1 DEF Inv, TypeOK, FreshInv, LockInv
    <3>3. ~IsDone(record.status)
      BY <1>3
      DEF Inv, FreshInv, IsDone, NoStatus, SuccessStatus, FailedStatus
    <3> QED
      BY <3>1, <3>2, <3>3 DEF Inv, DoneInv
  <2>2. FreshInv'
    BY <1>3, <2>1 DEF Inv, FreshInv
  <2>3. LockInv'
    BY <1>1, <2>1 DEF Inv, LockInv, TypeOK
  <2>4. DoneInv' /\ StandingInv'
    BY <2>1 DEF DoneInv, NoListenerLeftBehind, StandingInv
  <2>5. ToldInv' /\ ResultIsFinal'
    BY DEF Inv, ToldInv, ResultIsFinal
  <2> QED
    BY <2>2, <2>3, <2>4, <2>5 DEF Inv
<1> QED
  BY <1>2, <1>3

\* A stale update changes nothing.
LEMMA IgnoreStaleInv ==
  ASSUME Inv, TypeOK', NEW u \in Updates, IgnoreStale(u) PROVE Inv'
<1> USE DEF IgnoreStale, listenerVars, readerVars
<1>1. FreshInv'
  BY DEF Inv, FreshInv
<1>2. LockInv'
  BY DEF Inv, LockInv, TypeOK
<1>3. DoneInv' /\ ToldInv' /\ ResultIsFinal'
  BY DEF Inv, DoneInv, NoListenerLeftBehind, ToldInv, ResultIsFinal
<1>4. StandingInv'
  BY DEF Inv, StandingInv, Standing
<1> QED
  BY <1>1, <1>2, <1>3, <1>4 DEF Inv

\* The status only rises, so what was final stays final.
LEMMA WriteStatusInv ==
  ASSUME Inv, TypeOK', NEW u \in Updates, WriteStatus(u) PROVE Inv'
<1> USE DEF WriteStatus, listenerVars, readerVars
<1>1. /\ record'.status = Code[u]
      /\ record.status < Code[u]
      /\ u # Nothing
      /\ writer' = u /\ upc'[u] = "writing"
  BY StatusValues, NothingAssumption DEF Inv, TypeOK, Records, isStale
<1>2. IsDone(record.status) => IsDone(record'.status)
  <2>1. Code[u] \in StatusCodes /\ record.status \in StatusCodes
    BY CodeAssumption DEF Inv, TypeOK, Records
  <2> QED
    BY <1>1, <2>1
    DEF IsDone, StatusCodes, NoStatus, SuccessStatus, FailedStatus
<1>3. stored /\ stored'
  BY DEF Inv, FreshInv
<1>4. FreshInv'
  BY <1>3 DEF Inv, FreshInv
<1>5. LockInv'
  <2>1. unsent = {} /\ unsent' = {}
    BY DEF Inv, LockInv
  <2>2. \A v \in Updates : upc'[v] \in {"writing", "sending"} <=> writer' = v
    BY <1>1, NothingAssumption DEF Inv, LockInv, TypeOK
  <2> QED
    BY <1>1, <2>1, <2>2 DEF LockInv
<1>6. DoneInv'
  BY <1>1, <1>2 DEF Inv, DoneInv, NoListenerLeftBehind
<1>7. ToldInv' /\ ResultIsFinal'
  BY DEF Inv, ToldInv, ResultIsFinal
<1>8. StandingInv'
  <2> SUFFICES ASSUME NEW l \in channels
               PROVE  /\ Standing(l)' < record'.status
                      /\ ~IsDone(Standing(l)')
    BY <1>1 DEF StandingInv, Waiting
  <2>1. Standing(l)' = Standing(l) /\ Standing(l) = record.status
    BY DEF Inv, StandingInv, Standing
  <2>2. ~IsDone(record.status)
    BY DEF Inv, DoneInv, NoListenerLeftBehind
  <2> QED
    BY <1>1, <2>1, <2>2
<1> QED
  BY <1>4, <1>5, <1>6, <1>7, <1>8 DEF Inv

\* From here the update has every registered listener to send to.
LEMMA WritePayloadInv ==
  ASSUME Inv, TypeOK', NEW u \in Updates, WritePayload(u) PROVE Inv'
<1> USE DEF WritePayload, listenersToSend, listenerVars, readerVars
<1>1. /\ writer = u /\ u # Nothing
      /\ record'.status = record.status
      /\ upc[u] = "writing" /\ upc'[u] = "sending"
  BY NothingAssumption DEF Inv, LockInv, TypeOK, Records
<1>2. FreshInv'
  BY <1>1 DEF Inv, FreshInv
<1>3. LockInv'
  BY <1>1 DEF Inv, LockInv, TypeOK
<1>4. DoneInv' /\ ToldInv' /\ ResultIsFinal'
  BY <1>1 DEF Inv, DoneInv, NoListenerLeftBehind, ToldInv, ResultIsFinal
<1>5. StandingInv'
  BY <1>1 DEF Inv, StandingInv, Standing, Waiting
<1> QED
  BY <1>2, <1>3, <1>4, <1>5 DEF Inv

\* A waiting listener is sent a status above the one it stands at.
LEMMA SendUpdateInv ==
  ASSUME Inv, TypeOK', NEW u \in Updates, SendUpdate(u) PROVE Inv'
<1> USE DEF SendUpdate, readerVars
<1>1. PICK l \in unsent : /\ queued[l] < DefaultChannelBufferSize
                          /\ send({l})
                          /\ unsent' = unsent \ {l}
  OBVIOUS
<1>2. /\ l \in channels /\ l \in Listeners /\ l \notin closed
      /\ writer = u /\ u # Nothing /\ upc[u] = "sending"
  BY NothingAssumption DEF Inv, TypeOK, LockInv, DoneInv
<1>3. /\ told[l] \in Seq(StatusCodes) /\ record.status \in StatusCodes
      /\ queued[l] \in Nat
  BY <1>2 DEF Inv, TypeOK, Records
<1>4. Standing(l) < record.status /\ ~IsDone(Standing(l))
  BY <1>1, <1>2 DEF Inv, StandingInv, Waiting
<1>5. /\ told'[l] = Append(told[l], record.status)
      /\ queued'[l] = queued[l] + 1
      /\ \A k \in Listeners \ {l} : told'[k] = told[k] /\ queued'[k] = queued[k]
  BY <1>1, <1>2 DEF send
<1>6. /\ Rising(told'[l])
      /\ told'[l] # << >>
      /\ LastOf(told'[l]) = record.status
      /\ Len(told'[l]) = Len(told[l]) + 1
      /\ Len(told'[l]) <= record.status
  <2>1. Rising(told[l])
    BY <1>2 DEF Inv, ToldInv
  <2>2. told[l] = << >> => record.status > 0
    BY <1>2, <1>3, <1>4, StatusValues DEF Inv, Standing, TypeOK
  <2>3. told[l] # << >> => /\ LastOf(told[l]) < record.status
                          /\ ~IsDone(LastOf(told[l]))
                          /\ Len(told[l]) <= LastOf(told[l])
    BY <1>2, <1>4 DEF Inv, ToldInv, Standing
  <2> QED
    BY <1>3, <1>5, <2>1, <2>2, <2>3, SendRises
<1>7. FreshInv'
  <2>1. stored /\ lpc[l] = "done"
    BY <1>2 DEF Inv, FreshInv
  <2> QED
    BY <1>5, <2>1 DEF Inv, FreshInv
<1>8. LockInv'
  BY <1>1, <1>2 DEF Inv, LockInv
<1>9. DoneInv' /\ ResultIsFinal'
  BY DEF Inv, DoneInv, NoListenerLeftBehind, ResultIsFinal
<1>10. ToldInv'
  <2>1. queued'[l] <= Len(told'[l])
    <3>1. queued[l] <= Len(told[l]) /\ Len(told[l]) \in Nat
      BY <1>2, <1>3 DEF Inv, ToldInv
    <3> QED
      BY <1>3, <1>5, <1>6, <3>1
  <2> QED
    BY <1>2, <1>5, <1>6, <2>1 DEF Inv, ToldInv
<1>11. StandingInv'
  <2>1. Standing(l)' = record.status
    BY <1>6 DEF Standing
  <2>2. ASSUME NEW k \in channels, k # l PROVE Standing(k)' = Standing(k)
    BY <1>5, <2>2 DEF Inv, TypeOK, Standing
  <2>3. ASSUME NEW k \in channels, k # l
        PROVE  IF Waiting(k)'
                 THEN Standing(k)' < record.status /\ ~IsDone(Standing(k)')
                 ELSE told'[k] # << >> /\ Standing(k)' = record.status
    <3>1. Waiting(k)' <=> Waiting(k)
      BY <1>1, <2>3 DEF Waiting
    <3>2. told'[k] = told[k]
      BY <1>5, <2>3 DEF Inv, TypeOK
    <3> QED
      BY <1>2, <2>2, <2>3, <3>1, <3>2 DEF Inv, StandingInv
  <2>4. ~Waiting(l)'
    BY <1>1, <1>2 DEF Waiting
  <2> QED
    BY <1>2, <1>6, <2>1, <2>3, <2>4 DEF StandingInv
<1> QED
  BY <1>7, <1>8, <1>9, <1>10, <1>11 DEF Inv

\* Every listener has been sent the status when the update ends.
LEMMA FinishUpdateInv ==
  ASSUME Inv, TypeOK', NEW u \in Updates, FinishUpdate(u) PROVE Inv'
<1> USE DEF FinishUpdate, isFinal, deleteListeners, readerVars
<1>1. /\ writer = u /\ u # Nothing
      /\ upc'[u] = "done" /\ unsent' = {}
  BY NothingAssumption DEF Inv, TypeOK, LockInv
<1>2. \A l \in channels : told[l] # << >> /\ Standing(l) = record.status
  BY <1>1 DEF Inv, StandingInv, Waiting
<1>3. channels' \subseteq channels /\ closed' \subseteq closed \cup channels
  OBVIOUS
<1>4. FreshInv'
  <2>1. stored
    BY <1>1 DEF Inv, FreshInv
  <2> QED
    BY <1>3, <2>1 DEF Inv, FreshInv
<1>5. LockInv'
  BY <1>1, NothingAssumption DEF Inv, LockInv, TypeOK
<1>6. DoneInv' /\ ResultIsFinal'
  BY DEF Inv, DoneInv, NoListenerLeftBehind, ResultIsFinal
<1>7. ToldInv'
  BY <1>2 DEF Inv, ToldInv, Standing
<1>8. StandingInv'
  BY <1>2, <1>3 DEF StandingInv, Standing
<1> QED
  BY <1>4, <1>5, <1>6, <1>7, <1>8 DEF Inv
-----------------------------------------------------------------------------
(***************************************************************************)
(* The steps of a listener's request and of its reader.                    *)
(***************************************************************************)
\* A listener of a finished ticket is sent the one status there is; another
\* one stands at the status it was added at.
LEMMA AddListenerInv ==
  ASSUME Inv, TypeOK', NEW l \in Listeners, AddListener(l) PROVE Inv'
<1> USE DEF AddListener, updateVars, readerVars
<1>1. /\ told[l] = << >> /\ l \notin channels /\ l \notin closed /\ stored
      /\ writer = Nothing /\ unsent = {}
  BY DEF Inv, FreshInv, LockInv
<1>2. LockInv'
  BY <1>1 DEF Inv, LockInv
<1>3. \A k \in Listeners \ {l} : joined'[k] = joined[k]
  BY DEF Inv, TypeOK
<1>4. joined'[l] = record.status
  BY DEF Inv, TypeOK
<1>5. CASE needsOnlyLast
  <2>1. /\ send({l}) /\ closed' = closed \cup {l} /\ channels' = channels
        /\ IsDone(record.status)
    BY <1>5 DEF needsOnlyLast
  <2>2. /\ told'[l] = Append(told[l], record.status)
        /\ queued'[l] = queued[l] + 1
        /\ \A k \in Listeners \ {l} :
              told'[k] = told[k] /\ queued'[k] = queued[k]
    BY <2>1 DEF send
  <2>3. record.status \in StatusCodes /\ record.status > 0
    BY <2>1
    DEF Inv, TypeOK, Records, IsDone, SuccessStatus, FailedStatus
  <2>4. /\ Rising(told'[l])
        /\ told'[l] # << >>
        /\ LastOf(told'[l]) = record.status
        /\ Len(told'[l]) = Len(told[l]) + 1
        /\ Len(told'[l]) <= record.status
    <3>1. told[l] \in Seq(StatusCodes) /\ Rising(told[l])
      BY DEF Inv, TypeOK, ToldInv
    <3> QED
      BY <1>1, <2>2, <2>3, <3>1, SendRises
  <2>5. FreshInv'
    BY <1>1, <2>1, <2>2 DEF Inv, FreshInv, TypeOK
  <2>6. DoneInv' /\ ResultIsFinal'
    BY <1>1, <2>1 DEF Inv, DoneInv, NoListenerLeftBehind, ResultIsFinal
  <2>7. ToldInv'
    <3>1. queued'[l] <= Len(told'[l])
      <4>1. queued[l] \in Nat /\ queued[l] <= Len(told[l])
        BY DEF Inv, TypeOK, ToldInv
      <4> QED
        BY <1>1, <2>2, <2>4, <4>1
    <3> QED
      BY <2>1, <2>2, <2>4, <3>1 DEF Inv, ToldInv
  <2>8. StandingInv'
    <3>1. channels = {}
      BY <1>1, <2>1 DEF Inv, DoneInv, NoListenerLeftBehind
    <3> QED
      BY <2>1, <3>1 DEF StandingInv
  <2> QED
    BY <1>2, <2>5, <2>6, <2>7, <2>8 DEF Inv
<1>6. CASE ~needsOnlyLast
  <2>1. /\ channels' = channels \cup {l} /\ closed' = closed
        /\ told' = told /\ queued' = queued /\ ~IsDone(record.status)
    BY <1>6 DEF needsOnlyLast
  <2>2. FreshInv'
    BY <1>1, <2>1 DEF Inv, FreshInv, TypeOK
  <2>3. DoneInv' /\ ToldInv' /\ ResultIsFinal'
    BY <1>1, <2>1
    DEF Inv, DoneInv, NoListenerLeftBehind, ToldInv, ResultIsFinal
  <2>4. StandingInv'
    <3>1. Standing(l)' = record.status
      BY <1>1, <1>4, <2>1 DEF Standing
    <3>2. \A k \in channels : Standing(k)' = record.status
      BY <1>1, <1>3, <2>1 DEF Inv, TypeOK, StandingInv, Standing
    <3> QED
      BY <1>1, <2>1, <3>1, <3>2 DEF StandingInv
  <2> QED
    BY <1>2, <2>2, <2>3, <2>4 DEF Inv
<1> QED
  BY <1>5, <1>6

\* The other steps of a listener and of its reader change nothing that the
\* servers look at.
LEMMA ReaderInv ==
  ASSUME Inv, TypeOK', NEW l \in Listeners,
         GetRecordToListen(l) \/ ReadUpdates(l)
  PROVE  Inv'
<1>1. CASE GetRecordToListen(l)
  <2> USE <1>1 DEF GetRecordToListen, updateVars, readerVars
  <2>1. FreshInv'
    BY DEF Inv, FreshInv, TypeOK
  <2>2. LockInv' /\ DoneInv' /\ ToldInv' /\ ResultIsFinal'
    BY DEF Inv, LockInv, DoneInv, NoListenerLeftBehind, ToldInv, ResultIsFinal
  <2>3. StandingInv'
    BY DEF Inv, StandingInv, Standing, Waiting
  <2> QED
    BY <2>1, <2>2, <2>3 DEF Inv
<1>2. CASE ReadUpdates(l)
  <2>0. \A k \in Listeners : queued[k] \in Nat
    BY DEF Inv, TypeOK
  <2>1. /\ UNCHANGED <<stored, record, updateVars, channels, lpc, closed,
                       joined, told>>
        /\ \A k \in Listeners : queued'[k] <= queued[k]
    <3>1. CASE ReceiveUpdate(l)
      BY <2>0, <3>1 DEF ReceiveUpdate, Inv, TypeOK
    <3>2. CASE Look(l) \/ GetResponse(l)
      BY <2>0, <3>2 DEF Look, GetResponse, listenerVars
    <3> QED
      BY <1>2, <3>1, <3>2 DEF ReadUpdates
  <2>2. FreshInv' /\ LockInv'
    BY <2>1 DEF Inv, FreshInv, LockInv, updateVars
  <2>3. ToldInv'
    <3>1. \A k \in Listeners :
             /\ queued[k] \in Nat /\ queued'[k] \in Nat
             /\ Len(told[k]) \in Nat
      BY DEF Inv, TypeOK
    <3> QED
      BY <2>1, <3>1 DEF Inv, ToldInv
  <2>4. StandingInv'
    BY <2>1 DEF Inv, StandingInv, Standing, Waiting, updateVars
  <2>5. \A k \in Listeners :
           reader'[k] \in {"draining", "done"} => IsDone(record.status)
    <3>1. CASE ReceiveUpdate(l)
      BY <3>1 DEF ReceiveUpdate, Inv, TypeOK, DoneInv
    <3>2. CASE Look(l)
      BY <3>2 DEF Look, Inv, TypeOK, DoneInv
    <3>3. CASE GetResponse(l)
      BY <3>3 DEF GetResponse, Inv, TypeOK, DoneInv
    <3> QED
      BY <1>2, <3>1, <3>2, <3>3 DEF ReadUpdates
  <2>6. DoneInv'
    BY <2>1, <2>5 DEF Inv, DoneInv, NoListenerLeftBehind, updateVars
  <2>7. ResultIsFinal'
    <3>1. CASE GetResponse(l)
      BY <3>1 DEF GetResponse, Inv, TypeOK, DoneInv, ResultIsFinal
    <3>2. CASE ReceiveUpdate(l) \/ Look(l)
      BY <3>2
      DEF ReceiveUpdate, Look, Inv, ResultIsFinal
    <3> QED
      BY <1>2, <3>1, <3>2 DEF ReadUpdates
  <2> QED
    BY <2>1, <2>2, <2>3, <2>4, <2>6, <2>7 DEF Inv
<1> QED
  BY <1>1, <1>2
-----------------------------------------------------------------------------
\* Every step keeps the invariant.
LEMMA NextInv == Inv /\ [Next]_vars => Inv'
<1> SUFFICES ASSUME Inv, [Next]_vars PROVE Inv'
  OBVIOUS
<1>1. TypeOK'
  BY NextType DEF Inv
<1>2. ASSUME NEW u \in Updates, Update(u) PROVE Inv'
  BY <1>1, <1>2, GetRecordInv, IgnoreStaleInv, WriteStatusInv,
     WritePayloadInv, SendUpdateInv, FinishUpdateInv DEF Update
<1>3. ASSUME NEW l \in Listeners, Listen(l) \/ ReadUpdates(l) PROVE Inv'
  BY <1>1, <1>3, AddListenerInv, ReaderInv DEF Listen
<1>4. CASE UNCHANGED vars
  BY <1>4
  DEF vars, Inv, TypeOK, FreshInv, LockInv, DoneInv, NoListenerLeftBehind,
      ToldInv, StandingInv, Standing, Waiting, ResultIsFinal
<1> QED
  BY <1>2, <1>3, <1>4 DEF Next

\* The inductive invariant of the status and listeners servers.
THEOREM StatusInvariance == Spec => []Inv
<1> QED
  BY InitInv, NextInv, PTL DEF Spec

\* No worker blocks on a full update channel while it holds the lock of a
\* record, whether or not anybody reads (doStatusUpdate).
THEOREM NoBlockedSend == Spec => []SendsNeverBlock
<1>1. Inv => SendsNeverBlock
  <2> SUFFICES ASSUME Inv, writer # Nothing, NEW l \in unsent
               PROVE  queued[l] < DefaultChannelBufferSize
    BY DEF SendsNeverBlock
  <2>1. l \in channels /\ l \in Listeners
    BY DEF Inv, TypeOK, LockInv
  <2>2. Standing(l) \in Nat /\ Standing(l) <= 2
    BY <2>1, StatusValues DEF Inv, StandingInv, Waiting
  <2>3. queued[l] \in Nat /\ Len(told[l]) \in Nat /\ queued[l] <= Len(told[l])
    BY <2>1 DEF Inv, TypeOK, ToldInv
  <2>4. CASE told[l] = << >>
    BY <2>3, <2>4 DEF DefaultChannelBufferSize
  <2>5. CASE told[l] # << >>
    <3>1. Len(told[l]) <= Standing(l)
      BY <2>1, <2>5 DEF Inv, ToldInv, Standing
    <3> QED
      BY <2>2, <2>3, <3>1 DEF DefaultChannelBufferSize
  <2> QED
    BY <2>4, <2>5
<1> QED
  BY <1>1, StatusInvariance, PTL

\* No worker sends on a closed channel or closes one twice, and a finished
\* ticket has no listeners (doStatusUpdate, doListenerServerWork).
THEOREM ChannelsClosedOnce ==
  Spec => [](RegisteredAreOpen /\ NoListenerLeftBehind)
<1>1. Inv => RegisteredAreOpen /\ NoListenerLeftBehind
  BY DEF Inv, LockInv, DoneInv, RegisteredAreOpen
<1> QED
  BY <1>1, StatusInvariance, PTL

\* Each listener is told rising statuses and its channel ends with the first
\* final one, in whatever order updates and listeners run (update,
\* doStatusUpdate, doListenerServerWork).
THEOREM UpdatesInOrder == Spec => []ToldInOrder
<1>1. Inv => ToldInOrder
  BY DEF Inv, ToldInv, Rising, ToldInOrder
<1> QED
  BY <1>1, StatusInvariance, PTL

\* No registered listener misses an update, and what a reader takes for the
\* result is final (the locks of status_daemon.go and listeners_daemon.go).
THEOREM NoUpdateMissed == Spec => [](NothingMissed /\ ResultIsFinal)
<1>1. Inv => NothingMissed /\ ResultIsFinal
  BY DEF Inv, StandingInv, Standing, NothingMissed
<1> QED
  BY <1>1, StatusInvariance, PTL
-----------------------------------------------------------------------------
(***************************************************************************)
(* The end of a channel.  A listener that was told a final status still    *)
(* has a pointer to receive, or its reader has seen that the record is     *)
(* done.                                                                   *)
(***************************************************************************)
EndTold(l) == told[l] # << >> /\ IsDone(LastOf(told[l]))

DrainInv ==
    \A l \in Listeners :
       EndTold(l) => /\ IsDone(record.status)
                     /\ reader[l] = "waiting" => queued[l] > 0

\* What is sent is the status of the record.
LEMMA SendTellsStatus ==
  ASSUME TypeOK, NEW l \in Listeners, send({l})
  PROVE  /\ queued'[l] > 0
         /\ LastOf(told'[l]) = record.status
         /\ \A k \in Listeners \ {l} : told'[k] = told[k] /\ queued'[k] = queued[k]
<1>1. /\ told[l] \in Seq(StatusCodes) /\ record.status \in StatusCodes
      /\ queued[l] \in Nat
  BY DEF TypeOK, Records
<1>2. /\ told'[l] = Append(told[l], record.status)
      /\ queued'[l] = queued[l] + 1
      /\ \A k \in Listeners \ {l} : told'[k] = told[k] /\ queued'[k] = queued[k]
  BY DEF send
<1>3. LastOf(Append(told[l], record.status)) = record.status
  BY <1>1 DEF LastOf
<1> QED
  BY <1>1, <1>2, <1>3

\* Every step keeps it.
LEMMA DrainNext == Inv /\ DrainInv /\ [Next]_vars => DrainInv'
<1> SUFFICES ASSUME Inv, DrainInv, [Next]_vars PROVE DrainInv'
  OBVIOUS
<1> USE DEF DrainInv, EndTold
<1>1. ASSUME NEW u \in Updates, GetRecord(u) PROVE DrainInv'
  <2>1. CASE stored
    BY <1>1, <2>1 DEF GetRecord, listenerVars, readerVars
  <2>2. CASE ~stored
    BY <1>1, <2>2 DEF GetRecord, listenerVars, readerVars, Inv, FreshInv
  <2> QED
    BY <2>1, <2>2
<1>2. ASSUME NEW u \in Updates, WriteStatus(u) PROVE DrainInv'
  <2>1. /\ record'.status = Code[u]
        /\ record.status < Code[u]
    BY <1>2, StatusValues DEF WriteStatus, Inv, TypeOK, Records, isStale
  <2>2. Code[u] \in StatusCodes /\ record.status \in StatusCodes
    BY CodeAssumption DEF Inv, TypeOK, Records
  <2>3. IsDone(record.status) => IsDone(record'.status)
    BY <2>1, <2>2
    DEF IsDone, StatusCodes, NoStatus, SuccessStatus, FailedStatus
  <2> QED
    BY <1>2, <2>3 DEF WriteStatus, listenerVars, readerVars
<1>3. ASSUME NEW u \in Updates, WritePayload(u) PROVE DrainInv'
  <2>1. record'.status = record.status
    BY <1>3 DEF WritePayload, Inv, TypeOK, Records
  <2> QED
    BY <1>3, <2>1 DEF WritePayload, listenerVars, readerVars
<1>4. ASSUME NEW u \in Updates, SendUpdate(u) PROVE DrainInv'
  <2>1. PICK l \in unsent : send({l})
    BY <1>4 DEF SendUpdate
  <2>2. l \in Listeners
    BY DEF Inv, TypeOK
  <2> QED
    BY <1>4, <2>1, <2>2, SendTellsStatus DEF SendUpdate, readerVars, Inv
<1>5. ASSUME NEW u \in Updates, IgnoreStale(u) \/ FinishUpdate(u)
      PROVE  DrainInv'
  BY <1>5 DEF IgnoreStale, FinishUpdate, listenerVars, readerVars
<1>6. ASSUME NEW l \in Listeners, AddListener(l) PROVE DrainInv'
  <2>1. CASE needsOnlyLast
    BY <1>6, <2>1, SendTellsStatus DEF AddListener, readerVars, Inv
  <2>2. CASE ~needsOnlyLast
    BY <1>6, <2>2 DEF AddListener, readerVars
  <2> QED
    BY <2>1, <2>2
<1>7. ASSUME NEW l \in Listeners, GetRecordToListen(l) PROVE DrainInv'
  BY <1>7 DEF GetRecordToListen, readerVars
<1>8. ASSUME NEW l \in Listeners, ReadUpdates(l) PROVE DrainInv'
  <2>1. CASE ReceiveUpdate(l)
    BY <2>1 DEF ReceiveUpdate, Inv, TypeOK
  <2>2. CASE Look(l)
    BY <2>2 DEF Look, listenerVars, Inv, TypeOK
  <2>3. CASE GetResponse(l)
    BY <2>3 DEF GetResponse, listenerVars, Inv, TypeOK
  <2> QED
    BY <1>8, <2>1, <2>2, <2>3 DEF ReadUpdates
<1>9. CASE UNCHANGED vars
  BY <1>9 DEF vars
<1> QED
  BY <1>1, <1>2, <1>3, <1>4, <1>5, <1>6, <1>7, <1>8, <1>9
  DEF Next, Update, Listen

\* No reader reaches the end of its channel before it has seen a final record
\* (TransactionConversation.writer against doStatusUpdate and
\* doListenerServerWork).
THEOREM ReadersEnd == Spec => []ReadersSeeTheEnd
<1>1. Init => DrainInv
  BY DEF Init, DrainInv, EndTold
<1>2. Inv /\ DrainInv => ReadersSeeTheEnd
  BY DEF Inv, ToldInv, DrainInv, EndTold, ReadersSeeTheEnd
<1> QED
  BY <1>1, <1>2, DrainNext, StatusInvariance, PTL DEF Spec
=============================================================================
