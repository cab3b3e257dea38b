------------------------------- MODULE Status -------------------------------
(***************************************************************************)
(* The status and listeners servers of src/status on one ticket, with the  *)
(* readers of the update channels (the transaction conversations of        *)
(* src/pipeline/io.go).  Several workers run the requests, so those of one *)
(* ticket run in any order and interleave up to the lock of the status     *)
(* record: an update holds it for writing from its check to its end, a     *)
(* listener is added in one step while it holds it for reading.            *)
(*                                                                         *)
(* What is sent on a channel is always the pointer to the one stored       *)
(* record: a channel is the number of pointers in it, and what its reader  *)
(* sees is the record when it looks, without the lock.  An update writes   *)
(* the status before the other fields, so the two are steps of their own.  *)
(* A status code is its rank in statusCodesOrder; FailReason, Payload and  *)
(* Errs are one value, the request they came from.                         *)
(***************************************************************************)
EXTENDS Naturals, Sequences

CONSTANTS
    Updates,    \* the ids of the update requests
    Code,       \* the status each of them reports
    Listeners,  \* the requests for an update channel, each with its reader
    Nothing     \* no payload, no result, no holder of the lock

NoStatus      == 0
QueuedStatus  == 1
RunningStatus == 2
SuccessStatus == 3
FailedStatus  == 4

StatusCodes == NoStatus..FailedStatus

ASSUME CodeAssumption == Code \in [Updates -> StatusCodes]

ASSUME NothingAssumption == Nothing \notin Updates

VARIABLES
    stored,      \* whether statusStore holds the record
    record,      \* the status record
    writer,      \* the update that holds the record's lock, or Nothing
    unsent,      \* the listeners that update still has to send to
    upc,         \* where each update is
    channels,    \* listenersRecord.channels
    lpc,         \* where each listener's request is
    queued,      \* how many pointers each update channel holds
    closed,      \* the update channels that are closed
    reader,      \* where the reader of each channel is
    result,      \* what each reader took for the result
    joined,      \* history: the status each listener was added at
    told         \* history: the statuses sent to each listener

vars == <<stored, record, writer, unsent, upc, channels, lpc, queued, closed,
          reader, result, joined, told>>

updateVars   == <<writer, unsent, upc>>
listenerVars == <<channels, lpc, queued, closed, joined, told>>
readerVars   == <<reader, result>>

\* Mutant: the status is left at Go's zero value.
emptyRecordBlank == [status |-> Nothing, payload |-> Nothing]

emptyRecord == [status |-> NoStatus, payload |-> Nothing]

Init ==
    /\ stored = FALSE
    /\ record = emptyRecord
    /\ writer = Nothing
    /\ unsent = {}
    /\ upc = [u \in Updates |-> "queued"]
    /\ channels = {}
    /\ lpc = [l \in Listeners |-> "queued"]
    /\ queued = [l \in Listeners |-> 0]
    /\ closed = {}
    /\ reader = [l \in Listeners |-> "waiting"]
    /\ result = [l \in Listeners |-> Nothing]
    /\ joined = [l \in Listeners |-> NoStatus]
    /\ told = [l \in Listeners |-> << >>]

-----------------------------------------------------------------------------
\* Mutant: one slot less.
DefaultChannelBufferSizeShort == 2

DefaultChannelBufferSize == 3

IsDone(status) == status \in {SuccessStatus, FailedStatus}

\* Mutant: an update is never stale.
isStaleNever(current, updated) == FALSE

isStale(current, updated) == current >= updated

send(ls) ==
    /\ queued' = [l \in Listeners |->
                     IF l \in ls THEN queued[l] + 1 ELSE queued[l]]
    /\ told' = [l \in Listeners |->
                   IF l \in ls THEN Append(told[l], record.status)
                               ELSE told[l]]

-----------------------------------------------------------------------------
(***************************************************************************)
(* Status server.                                                          *)
(***************************************************************************)
\* createOrGet stores the request itself as the record of a new ticket.
GetRecord(u) ==
    /\ upc[u] = "queued"
    /\ upc' = [upc EXCEPT ![u] = "locking"]
    /\ stored' = TRUE
    /\ record' = IF stored THEN record
                           ELSE [status |-> Code[u], payload |-> u]
    /\ UNCHANGED <<writer, unsent, listenerVars, readerVars>>

\* The update that became the record compares the record with itself.
IgnoreStale(u) ==
    /\ upc[u] = "locking"
    /\ writer = Nothing
    /\ isStale(record.status, Code[u])
    /\ upc' = [upc EXCEPT ![u] = "done"]
    /\ UNCHANGED <<stored, record, writer, unsent, listenerVars, readerVars>>

WriteStatus(u) ==
    /\ upc[u] = "locking"
    /\ writer = Nothing
    /\ ~isStale(record.status, Code[u])
    /\ writer' = u
    /\ record' = [record EXCEPT !.status = Code[u]]
    /\ upc' = [upc EXCEPT ![u] = "writing"]
    /\ UNCHANGED <<stored, unsent, listenerVars, readerVars>>

\* Mutant: the loop over the listeners leaves one out.
listenersToSendButOne ==
    {l \in channels : l # CHOOSE k \in channels : TRUE}

listenersToSend == channels

WritePayload(u) ==
    /\ upc[u] = "writing"
    /\ record' = [record EXCEPT !.payload = u]
    /\ unsent' = listenersToSend
    /\ upc' = [upc EXCEPT ![u] = "sending"]
    /\ UNCHANGED <<stored, writer, listenerVars, readerVars>>

\* A full channel blocks the worker.
SendUpdate(u) ==
    /\ upc[u] = "sending"
    /\ \E l \in unsent :
          /\ queued[l] < DefaultChannelBufferSize
          /\ send({l})
          /\ unsent' = unsent \ {l}
    /\ UNCHANGED <<stored, record, writer, upc, channels, lpc, closed, joined,
                   readerVars>>

\* Mutant: the listeners record outlives the final update.
deleteListenersNot == channels

\* The channels left after a final update, whose listeners record is deleted.
deleteListeners == {}

\* Mutant: the channels are closed after any update.
isFinalAlways == TRUE

isFinal == IsDone(record.status)

FinishUpdate(u) ==
    /\ upc[u] = "sending"
    /\ unsent = {}
    /\ IF isFinal
         THEN /\ closed' = closed \cup channels
              /\ channels' = deleteListeners
         ELSE UNCHANGED <<closed, channels>>
    /\ writer' = Nothing
    /\ upc' = [upc EXCEPT ![u] = "done"]
    /\ UNCHANGED <<stored, record, unsent, lpc, queued, joined, told,
                   readerVars>>

-----------------------------------------------------------------------------
(***************************************************************************)
(* Listeners server.                                                       *)
(***************************************************************************)
GetRecordToListen(l) ==
    /\ lpc[l] = "queued"
    /\ lpc' = [lpc EXCEPT ![l] = "locking"]
    /\ stored' = TRUE
    /\ UNCHANGED <<record, updateVars, channels, queued, closed, joined, told,
                   readerVars>>

\* Mutant: a listener is added to the record of a finished ticket.
needsOnlyLastNever == FALSE

\* "If status is done, we only need to put the last status."
needsOnlyLast == IsDone(record.status)

AddListener(l) ==
    /\ lpc[l] = "locking"
    /\ writer = Nothing
    /\ lpc' = [lpc EXCEPT ![l] = "done"]
    /\ joined' = [joined EXCEPT ![l] = record.status]
    /\ IF needsOnlyLast
         THEN /\ send({l})
              /\ closed' = closed \cup {l}
              /\ UNCHANGED channels
         ELSE /\ channels' = channels \cup {l}
              /\ UNCHANGED <<queued, closed, told>>
    /\ UNCHANGED <<stored, record, updateVars, readerVars>>

-----------------------------------------------------------------------------
(***************************************************************************)
(* The reader of an update channel: it ranges over the channel up to the   *)
(* first record that is done and takes the response of that record.  That  *)
(* the range does not end before, at the end of a closed channel, is       *)
(* ReadersSeeTheEnd below.                                                 *)
(***************************************************************************)
ReceiveUpdate(l) ==
    /\ reader[l] = "waiting"
    /\ queued[l] > 0
    /\ queued' = [queued EXCEPT ![l] = @ - 1]
    /\ reader' = [reader EXCEPT ![l] = "looking"]
    /\ UNCHANGED <<stored, record, updateVars, channels, lpc, closed, joined,
                   told, result>>

Look(l) ==
    /\ reader[l] = "looking"
    /\ reader' = [reader EXCEPT ![l] =
                     IF IsDone(record.status) THEN "draining" ELSE "waiting"]
    /\ UNCHANGED <<stored, record, updateVars, listenerVars, result>>

GetResponse(l) ==
    /\ reader[l] = "draining"
    /\ result' = [result EXCEPT ![l] = record]
    /\ reader' = [reader EXCEPT ![l] = "done"]
    /\ UNCHANGED <<stored, record, updateVars, listenerVars>>

-----------------------------------------------------------------------------
Update(u) ==
    \/ GetRecord(u) \/ IgnoreStale(u) \/ WriteStatus(u) \/ WritePayload(u)
    \/ SendUpdate(u) \/ FinishUpdate(u)

Listen(l) == GetRecordToListen(l) \/ AddListener(l)

ReadUpdates(l) ==
    ReceiveUpdate(l) \/ Look(l) \/ GetResponse(l)

Next ==
    \/ \E u \in Updates : Update(u)
    \/ \E l \in Listeners : Listen(l) \/ ReadUpdates(l)

Spec == Init /\ [][Next]_vars

\* The workers of the two servers run every request they are given.
ServersFairness ==
    /\ \A u \in Updates : WF_vars(Update(u))
    /\ \A l \in Listeners : WF_vars(Listen(l))

ReadersFairness == \A l \in Listeners : WF_vars(ReadUpdates(l))

\* The readers may stop reading at any time, as a conversation does whose
\* socket no longer accepts a frame.
ServersSpec == Spec /\ ServersFairness
-----------------------------------------------------------------------------
(***************************************************************************)
(* Properties.                                                             *)
(***************************************************************************)
Payloads == Updates \cup {Nothing}

Records == [status : StatusCodes, payload : Payloads]

TypeOK ==
    /\ stored \in BOOLEAN
    /\ record \in Records
    /\ writer \in Updates \cup {Nothing}
    /\ unsent \subseteq Listeners
    /\ upc \in [Updates -> {"queued", "locking", "writing", "sending", "done"}]
    /\ channels \subseteq Listeners
    /\ lpc \in [Listeners -> {"queued", "locking", "done"}]
    /\ queued \in [Listeners -> Nat]
    /\ closed \subseteq Listeners
    /\ reader \in [Listeners -> {"waiting", "looking", "draining", "done"}]
    /\ result \in [Listeners -> Records \cup {Nothing}]
    /\ joined \in [Listeners -> StatusCodes]
    /\ told \in [Listeners -> Seq(StatusCodes)]

\* A worker never sends on a channel whose buffer is full, even if nobody
\* reads it: it would keep the lock of the record (doStatusUpdate against
\* DefaultChannelBufferSize and the stale check of update).
SendsNeverBlock ==
    writer # Nothing =>
       \A l \in unsent : queued[l] < DefaultChannelBufferSize

\* No worker sends on a closed channel or closes one twice, which would end
\* the program: what is registered is open (doStatusUpdate,
\* doListenerServerWork).
RegisteredAreOpen == (channels \cup unsent) \cap closed = {}

\* "All listeners records should be deleted after final update"
\* (integration_test.go), whatever races with it.
NoListenerLeftBehind ==
    writer = Nothing /\ IsDone(record.status) => channels = {}

LastOf(s) == s[Len(s)]

\* What is sent to one listener rises, and its channel is closed with the
\* first final status, never before: no update comes twice, late or after
\* the end, in whatever order the requests run.
ToldInOrder ==
    \A l \in Listeners :
       /\ \A i \in 1..(Len(told[l]) - 1) :
             /\ told[l][i] < told[l][i + 1]
             /\ ~IsDone(told[l][i])
       /\ l \in closed => told[l] # << >> /\ IsDone(LastOf(told[l]))

\* A registered listener has missed nothing since it was added: it was added
\* at the present status or told of it (the read lock that AddListener takes
\* on the record an update holds).
NothingMissed ==
    writer = Nothing =>
       \A l \in channels :
          record.status = (IF told[l] = << >> THEN joined[l]
                                              ELSE LastOf(told[l]))

\* What a reader takes for the result is final, though it reads the record
\* without its lock.
ResultIsFinal ==
    \A l \in Listeners :
       result[l] # Nothing => IsDone(result[l].status)

\* A reader that still ranges over a closed channel has something left to
\* receive: the loop ends at a final record, never at the end of the channel,
\* which would leave it with an unfinished record or none to drain.
ReadersSeeTheEnd ==
    \A l \in Listeners :
       reader[l] = "waiting" /\ l \in closed => queued[l] > 0

\* "Final update should always be sent to listener channel"
\* (integration_test.go), and its channel closed: every reader gets a result
\* if the ticket ever ends and the readers go on reading.
FinalUpdateDelivered ==
    ReadersFairness /\ (\E u \in Updates : IsDone(Code[u])) =>
       \A l \in Listeners : <>(result[l] # Nothing)
=============================================================================
