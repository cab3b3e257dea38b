------------------------- MODULE ConversationProofs -------------------------
(***************************************************************************)
(* Proofs about Conversation, for any set of transactions, whatever each   *)
(* of them asks for and whatever is published to it.                       *)
(***************************************************************************)
EXTENDS Conversation, TLAPS

(***************************************************************************)
(* The inductive invariant.  The lock is never held for good because each  *)
(* of the two kinds of quit channels gets one token at most: that of the   *)
(* conversation when it starts to close, those of the transactions when    *)
(* the dispatcher ends.                                                    *)
(***************************************************************************)
LockInv ==
    /\ lock = "free"
    /\ quits # 0 => closing

ReadInv ==
    /\ reader # "offering" => offered = {}
    /\ unsent \cap offered = {}
    /\ reader = "ended" => client # "open"
    /\ dispatcher = "ended" => reader = "ended"
    /\ \A t \in Transactions : quit[t] # 0 => dispatcher = "ended"

\* From the stage "select" on, the ticket has its final status.
Draining == {"select", "unsubscribe", "close", "ended"}

Shown(t) == t \in shown \/ ~Pipeline[t].ReadResult \/ ~carries(t)

WriterInv(t) ==
    /\ t \in unsent \cup offered => writer[t] = "none"
    /\ drainer[t] # "none" => writer[t] \in Draining
    /\ done[t] # 0 => drainer[t] = "ended"
    /\ drainer[t] = "ended" => Shown(t)
    /\ writer[t] \in {"unsubscribe", "close"} => done[t] # 0 \/ client # "open"
    /\ t \in closedBy => writer[t] = "ended" /\ (Shown(t) \/ client # "open")

ConversationInv ==
    /\ TypeOK
    /\ LockInv
    /\ ReadInv
    /\ \A t \in Transactions : WriterInv(t)

-----------------------------------------------------------------------------
LEMMA InitConversation == Init => ConversationInv
<1> SUFFICES ASSUME Init PROVE ConversationInv
  OBVIOUS
<1>1. TypeOK
  <2>1. 0 \in 0..MaxEvents /\ 0 \in 0..1 /\ "none" \in Stages
    BY MaxEventsAssumption DEF Stages
  <2>2. writer \in [Transactions -> Stages]
    BY <2>1 DEF Init
  <2>3. /\ events \in [Transactions -> 0..MaxEvents]
        /\ quit \in [Transactions -> 0..1] /\ done \in [Transactions -> 0..1]
    BY <2>1 DEF Init
  <2>4. /\ result \in [Transactions -> {"none", "failed", "success",
                                        "subscribed", "unauthorized"}]
        /\ subscribed \in [Transactions -> BOOLEAN]
        /\ drainer \in [Transactions -> {"none", "draining", "ended"}]
    BY DEF Init
  <2>5. running \in BOOLEAN /\ closing \in BOOLEAN /\ quits \in 0..1
    BY <2>1 DEF Init
  <2>6. /\ unsent \subseteq Transactions /\ offered \subseteq Transactions
        /\ shown \subseteq Transactions /\ closedBy \subseteq Transactions
    BY DEF Init
  <2> QED
    BY <2>2, <2>3, <2>4, <2>5, <2>6 DEF Init, TypeOK
<1>2. LockInv /\ ReadInv
  BY DEF Init, LockInv, ReadInv
<1>3. \A t \in Transactions : WriterInv(t)
  BY DEF Init, WriterInv
<1> QED
  BY <1>1, <1>2, <1>3 DEF ConversationInv

LockType == closing \in BOOLEAN /\ quits \in 0..1

\* Closing the conversation sends one token at most.
LEMMA CloseKeepsLock ==
  ASSUME LockType, LockInv, doClose
  PROVE  LockType' /\ LockInv'
BY DEF LockType, LockInv, doClose, mayClose

\* So does a write, which closes the conversation when it fails.
LEMMA WriteKeepsLock ==
  ASSUME LockType, LockInv, NEW t \in Transactions,
         write(t) \/ UNCHANGED lockVars
  PROVE  LockType' /\ LockInv'
<1>1. CASE write(t)
  BY <1>1, CloseKeepsLock DEF write, lockVars, LockType, LockInv
<1>2. CASE UNCHANGED lockVars
  BY <1>2 DEF lockVars, LockType, LockInv
<1> QED
  BY <1>1, <1>2

\* Every step keeps the lock free, and its variables typed.
LEMMA NextLock ==
  ASSUME ConversationInv, [Next]_vars
  PROVE  LockType' /\ LockInv'
<1> LockType /\ LockInv
  BY DEF ConversationInv, TypeOK, LockType
<1>1. ASSUME UNCHANGED lockVars PROVE LockType' /\ LockInv'
  BY <1>1 DEF lockVars, LockType, LockInv
<1>2. ASSUME NEW t \in Transactions, Write(t) \/ TicketRefused(t)
      PROVE  LockType' /\ LockInv'
  BY <1>1, <1>2, CloseKeepsLock, WriteKeepsLock
  DEF Write, PassTransaction, refused, TicketRefused, Ticket,
      GetStatusUpdateChannel, WriteUpdate, StartDraining, Select,
      DoUnsubscribe, NormalClose
<1>3. ASSUME NEW t \in Transactions, DrainEvent(t) \/ Drained(t)
      PROVE  LockType' /\ LockInv'
  BY <1>3, WriteKeepsLock DEF DrainEvent, Drained, lockVars
<1>4. CASE InformQuit
  <2>1. \A t \in toInform : quit[t] = 0
    BY <1>4 DEF ConversationInv, ReadInv, InformQuit, toInform
  <2> QED
    BY <1>4, <2>1 DEF InformQuit, LockType, LockInv
<1>5. CASE ReadFails
  BY <1>5, CloseKeepsLock DEF ReadFails
<1>6. CASE UNCHANGED vars
  BY <1>1, <1>6 DEF vars
<1> QED
  BY <1>1, <1>2, <1>3, <1>4, <1>5, <1>6
  DEF Next, Converse, ClientLeaves, Read, SubscriptionRemoved, Dispatch,
      Shutdown

-----------------------------------------------------------------------------
\* What a step does not touch of a transaction stays as it was.
LEMMA WriterFrame ==
  ASSUME NEW t \in Transactions, WriterInv(t),
         writer'[t] = writer[t], result'[t] = result[t],
         drainer'[t] = drainer[t], done'[t] = done[t], Pipeline' = Pipeline,
         t \in unsent' \cup offered' => t \in unsent \cup offered,
         t \in closedBy' => t \in closedBy,
         shown \subseteq shown', client # "open" => client' # "open"
  PROVE  WriterInv(t)'
BY DEF WriterInv, Shown, carries

(***************************************************************************)
(* The types, and the other parts of the invariant.  What the lemma above  *)
(* says of the lock is a fact of each step here.                           *)
(***************************************************************************)
LEMMA NextConversation ==
  ConversationInv /\ [Next]_vars => ConversationInv'
<1> SUFFICES ASSUME ConversationInv, [Next]_vars PROVE ConversationInv'
  OBVIOUS
<1> LockType' /\ LockInv'
  BY NextLock
<1> TypeOK /\ ReadInv /\ \A t \in Transactions : WriterInv(t)
  BY DEF ConversationInv
<1> DEFINE Goal == TypeOK' /\ ReadInv' /\ \A t \in Transactions : WriterInv(t)'
<1>1. ASSUME NEW how \in {"closed", "garbled", "gone"}, ClientLeaves(how)
      PROVE  Goal
  <2>1. TypeOK' /\ ReadInv'
    BY <1>1 DEF ClientLeaves, readVars, lockVars, workVars, TypeOK, ReadInv
  <2>2. \A u \in Transactions : WriterInv(u)'
    BY <1>1, WriterFrame DEF ClientLeaves, readVars, workVars
  <2> QED
    BY <2>1, <2>2
<1>2. ASSUME NEW t \in Transactions, Read(t) PROVE Goal
  <2>1. TypeOK'
    BY <1>2 DEF Read, lockVars, workVars, TypeOK
  <2>2. ReadInv'
    BY <1>2 DEF Read, workVars, ReadInv
  <2> QED
    BY <1>2, <2>1, <2>2, WriterFrame DEF Read, workVars
<1>3. ASSUME NEW t \in Transactions, Dispatch(t) PROVE Goal
  <2>1. writer' \in [Transactions -> Stages]
    BY <1>3 DEF Dispatch, TypeOK, Stages
  <2>2. TypeOK'
    BY <1>3, <2>1 DEF Dispatch, socketVars, lockVars, TypeOK
  <2>3. ReadInv'
    BY <1>3 DEF Dispatch, socketVars, TypeOK, ReadInv
  <2>4. \A u \in Transactions : u # t => WriterInv(u)'
    BY <1>3, WriterFrame DEF Dispatch, socketVars, TypeOK
  <2>5. WriterInv(t)'
    <3>1. writer[t] = "none" /\ t \notin unsent
      BY <1>3 DEF Dispatch, ReadInv, WriterInv
    <3>2. writer'[t] = "request" /\ t \notin unsent' \cup offered'
      BY <1>3, <3>1 DEF Dispatch, socketVars, TypeOK
    <3>3. drainer[t] = "none" /\ done[t] = 0 /\ t \notin closedBy
      BY <3>1 DEF WriterInv, Draining, TypeOK
    <3> QED
      BY <1>3, <3>2, <3>3 DEF Dispatch, WriterInv
  <2> QED
    BY <2>2, <2>3, <2>4, <2>5
<1>4. ASSUME ReadFails PROVE Goal
  <2>1. TypeOK' /\ ReadInv'
    BY <1>4 DEF ReadFails, socketVars, workVars, LockType, LockInv, TypeOK,
                ReadInv
  <2>2. \A u \in Transactions : WriterInv(u)'
    BY <1>4, WriterFrame DEF ReadFails, socketVars, workVars
  <2> QED
    BY <2>1, <2>2
<1>5. ASSUME InformQuit PROVE Goal
  <2>1. quit' \in [Transactions -> 0..1] /\ dispatcher' \in {"receiving", "ended"}
    BY <1>5 DEF InformQuit, TypeOK
  <2>2. TypeOK'
    BY <1>5, <2>1 DEF InformQuit, socketVars, LockType, LockInv, TypeOK
  <2>3. ReadInv'
    BY <1>5 DEF InformQuit, socketVars, LockInv, TypeOK, ReadInv
  <2>4. \A u \in Transactions : WriterInv(u)'
    BY <1>5, WriterFrame DEF InformQuit, socketVars
  <2> QED
    BY <2>2, <2>3, <2>4
<1>6. ASSUME NEW t \in Transactions, Write(t) \/ TicketRefused(t) PROVE Goal
  <2>0. \E next \in Stages : goesOn(t, next)
    <3>1. CASE GetStatusUpdateChannel(t) \/ Select(t) \/ DoUnsubscribe(t)
      BY <3>1 DEF GetStatusUpdateChannel, Select, DoUnsubscribe, Stages
    <3>2. CASE PassTransaction(t) \/ TicketRefused(t) \/ Ticket(t)
      BY <3>2 DEF PassTransaction, refused, TicketRefused, Ticket, Stages
    <3>3. CASE WriteUpdate(t) \/ StartDraining(t) \/ NormalClose(t)
      BY <3>3 DEF WriteUpdate, StartDraining, NormalClose, Stages
    <3> QED
      BY <1>6, <3>1, <3>2, <3>3 DEF Write
  <2>1. PICK next \in Stages : goesOn(t, next)
    BY <2>0
  <2>2. /\ result' \in [Transactions -> {"none", "failed", "success",
                                         "subscribed", "unauthorized"}]
        /\ subscribed' \in [Transactions -> BOOLEAN]
        /\ drainer' \in [Transactions -> {"none", "draining", "ended"}]
        /\ closedBy' \subseteq Transactions
    <3>1. CASE Ticket(t)
      BY <3>1 DEF Ticket, outcomes, TypeOK
    <3>2. CASE DoUnsubscribe(t)
      BY <3>2 DEF DoUnsubscribe, TypeOK
    <3>3. CASE StartDraining(t) \/ NormalClose(t)
      BY <3>3 DEF StartDraining, NormalClose, TypeOK
    <3> QED
      BY <1>6, <3>1, <3>2, <3>3
      DEF Write, PassTransaction, refused, TicketRefused,
          GetStatusUpdateChannel, WriteUpdate, Select, TypeOK
  <2>3. TypeOK'
    BY <2>1, <2>2
    DEF goesOn, socketVars, readVars, LockType, LockInv, TypeOK
  <2>4. ReadInv'
    BY <2>1 DEF goesOn, socketVars, readVars, ReadInv
  <2>5. ASSUME NEW u \in Transactions, u # t PROVE WriterInv(u)'
    <3>1. /\ result'[u] = result[u]
          /\ drainer'[u] = drainer[u]
          /\ u \in closedBy' <=> u \in closedBy
      BY <1>6, <2>5
      DEF Write, PassTransaction, refused, TicketRefused, Ticket,
          GetStatusUpdateChannel, WriteUpdate, StartDraining, Select,
          DoUnsubscribe, NormalClose, TypeOK
    <3> QED
      BY <2>1, <2>5, <3>1
      DEF goesOn, socketVars, readVars, TypeOK, WriterInv, Shown, carries
  <2>6. WriterInv(t)'
    <3>0. /\ writer'[t] = next /\ writer[t] # "none"
          /\ UNCHANGED <<client, unsent, Pipeline, offered, quit, done, shown>>
      BY <1>6, <2>1
      DEF goesOn, socketVars, readVars, TypeOK, Write, PassTransaction,
          TicketRefused, Ticket, GetStatusUpdateChannel, WriteUpdate,
          StartDraining, Select, DoUnsubscribe, NormalClose
    <3>1. CASE writer[t] \in {"request", "waiting", "ticket", "updates"}
      BY <1>6, <3>0, <3>1
      DEF Write, PassTransaction, refused, TicketRefused, Ticket, goesOn,
          GetStatusUpdateChannel, WriteUpdate, StartDraining, Select,
          DoUnsubscribe, NormalClose, TypeOK, WriterInv, Shown, Draining
    <3>2. CASE StartDraining(t)
      BY <3>0, <3>2
      DEF StartDraining, goesOn, TypeOK, WriterInv, Shown, carries, Draining
    <3>3. CASE Select(t)
      BY <3>0, <3>3
      DEF Select, mayGoOn, goesOn, TypeOK, ReadInv, WriterInv, Shown, carries,
          Draining
    <3>4. CASE DoUnsubscribe(t)
      BY <3>0, <3>4
      DEF DoUnsubscribe, goesOn, TypeOK, WriterInv, Shown, carries, Draining
    <3>5. CASE NormalClose(t)
      BY <3>0, <3>5
      DEF NormalClose, goesOn, TypeOK, WriterInv, Shown, carries, Draining
    <3> QED
      BY <1>6, <3>1, <3>2, <3>3, <3>4, <3>5
      DEF Write, PassTransaction, TicketRefused, Ticket,
          GetStatusUpdateChannel, WriteUpdate
  <2> QED
    BY <2>3, <2>4, <2>5, <2>6
<1>7. ASSUME NEW t \in Transactions, DrainEvent(t) PROVE Goal
  <2>1. events' \in [Transactions -> 0..MaxEvents]
    BY <1>7, MaxEventsAssumption DEF DrainEvent, TypeOK
  <2>2. TypeOK' /\ ReadInv'
    BY <1>7, <2>1
    DEF DrainEvent, socketVars, readVars, LockType, LockInv, TypeOK, ReadInv
  <2>3. \A u \in Transactions : WriterInv(u)'
    BY <1>7, WriterFrame DEF DrainEvent, socketVars, readVars
  <2> QED
    BY <2>2, <2>3
<1>8. ASSUME NEW t \in Transactions, Drained(t) PROVE Goal
  <2>1. /\ shown' = shown \/ shown' = shown \cup {t}
        /\ t \in shown' \/ ~Pipeline[t].ReadResult \/ ~carries(t)
    BY <1>8 DEF Drained
  <2>2. TypeOK'
    BY <1>8, <2>1 DEF Drained, socketVars, readVars, LockType, LockInv, TypeOK
  <2>3. ReadInv'
    BY <1>8 DEF Drained, socketVars, readVars, ReadInv
  <2>4. \A u \in Transactions : u # t => WriterInv(u)'
    BY <1>8, <2>1, WriterFrame DEF Drained, socketVars, readVars, TypeOK
  <2>5. WriterInv(t)'
    <3>1. drainer'[t] = "ended" /\ done'[t] = 1 /\ writer[t] \in Draining
      BY <1>8 DEF Drained, TypeOK, WriterInv
    <3> QED
      BY <1>8, <2>1, <3>1
      DEF Drained, socketVars, readVars, WriterInv, Shown, carries
  <2> QED
    BY <2>2, <2>3, <2>4, <2>5
<1>9. ASSUME NEW t \in Transactions, SubscriptionRemoved(t) PROVE Goal
  <2>1. TypeOK' /\ ReadInv'
    BY <1>9
    DEF SubscriptionRemoved, socketVars, readVars, lockVars, TypeOK, ReadInv
  <2>2. \A u \in Transactions : WriterInv(u)'
    BY <1>9, WriterFrame DEF SubscriptionRemoved, socketVars, readVars
  <2> QED
    BY <2>1, <2>2
<1>10. ASSUME Shutdown PROVE Goal
  <2>1. TypeOK' /\ ReadInv'
    BY <1>10 DEF Shutdown, readVars, lockVars, workVars, TypeOK, ReadInv
  <2>2. \A u \in Transactions : WriterInv(u)'
    BY <1>10, WriterFrame DEF Shutdown, readVars, workVars
  <2> QED
    BY <2>1, <2>2
<1>11. ASSUME UNCHANGED vars PROVE Goal
  <2>1. TypeOK' /\ ReadInv'
    BY <1>11
    DEF vars, socketVars, readVars, lockVars, workVars, TypeOK, ReadInv
  <2>2. \A u \in Transactions : WriterInv(u)'
    BY <1>11, WriterFrame DEF vars, socketVars, readVars, workVars
  <2> QED
    BY <2>1, <2>2
<1> Goal
  BY <1>1, <1>2, <1>3, <1>4, <1>5, <1>6, <1>7, <1>8, <1>9, <1>10, <1>11
  DEF Next, Converse
<1> QED
  BY DEF ConversationInv

LEMMA ConversationInvariant == Spec => []ConversationInv
<1> QED
  BY InitConversation, NextConversation, PTL DEF Spec

\* The type invariant of the conversation.
THEOREM ConversationTypeCorrect == Spec => []TypeOK
<1>1. ConversationInv => TypeOK
  BY DEF ConversationInv
<1> QED
  BY <1>1, ConversationInvariant, PTL

\* No send under the lock of the conversation finds its channel full
\* (pipeline/io.go:72, pipeline/io.go:134), so nothing holds it for good.
THEOREM LockIsReleased == Spec => []NeverStuck
<1>1. ConversationInv => NeverStuck
  BY DEF ConversationInv, LockInv, NeverStuck
<1> QED
  BY <1>1, ConversationInvariant, PTL

\* A transaction that ends the conversation has shown its result before
\* (pipeline/io.go:214), whatever the others do meanwhile.
THEOREM ResultIsShown == Spec => []ResultBeforeClose
<1>1. ConversationInv => ResultBeforeClose
  BY DEF ConversationInv, TypeOK, WriterInv, Shown, ResultBeforeClose
<1> QED
  BY <1>1, ConversationInvariant, PTL
=============================================================================
