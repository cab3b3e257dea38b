---------------------------- MODULE Conversation ----------------------------
(***************************************************************************)
(* One conversation of the pipeline (src/pipeline/io.go): a client on a    *)
(* socket, the reader and the dispatcher of the conversation, and for each *)
(* transaction a writer, which follows its ticket, and the goroutine that  *)
(* drains its result.  They share the lock of the conversation.  What runs *)
(* under the lock is one step; a send that finds its channel full would    *)
(* keep the lock for good, which is the value "stuck" of the lock.         *)
(*                                                                         *)
(* The decryptor, the status servers and the channels answer from outside. *)
(* They run as long as the pipeline does, which is stopped first.          *)
(***************************************************************************)
EXTENDS Naturals

CONSTANTS
    Transactions,
    Pipelines,     \* what they may ask for: functions that give the options
                   \* ReadStatusUpdates, ReadResult and KeepAlive of each
    Subscribes,    \* those that subscribe to a channel
    MaxEvents      \* bounds the events published to a subscriber

ASSUME SubscribesAssumption == Subscribes \subseteq Transactions

ASSUME MaxEventsAssumption == MaxEvents \in Nat

VARIABLES
    running,    \* serverSingleton.isRunning
    client,     \* "open", "closed" (said so), "garbled" or "gone"
    unsent,     \* what the client may still send
    Pipeline,   \* the options of each transaction
    reader,     \* "reading", "offering" or "ended"
    offered,    \* incomingQueue: the transactions the reader offers
    dispatcher, \* "receiving", "informing" or "ended"
    lock,       \* "free" or "stuck"
    closing,    \* the flag of the conversation
    quits,      \* the tokens in quitChannel of the conversation
    writer,     \* the stage of the writer of each transaction
    result,     \* what the final status of its ticket carries
    subscribed, \* whether a subscription of the transaction is alive
    quit,       \* the tokens in quitChannel of each transaction
    done,       \* the tokens in doneChannel; it is closed after the first
    drainer,    \* "none", "draining" or "ended"
    events,     \* the events published to each subscriber
    shown,      \* history: the transactions whose result was written
    closedBy    \* history: the writers whose end closed the conversation

socketVars == <<running, client, unsent, Pipeline>>
readVars   == <<reader, offered, dispatcher>>
lockVars   == <<lock, closing, quits>>
workVars   == <<writer, result, subscribed, quit, done, drainer, events>>

vars == <<socketVars, readVars, lockVars, workVars, shown, closedBy>>

Init ==
    /\ running = TRUE
    /\ client = "open"
    /\ unsent = Transactions
    /\ Pipeline \in Pipelines
    /\ reader = "reading"
    /\ offered = {}
    /\ dispatcher = "receiving"
    /\ lock = "free"
    /\ closing = FALSE
    /\ quits = 0
    /\ writer = [t \in Transactions |-> "none"]
    /\ result = [t \in Transactions |-> "none"]
    /\ subscribed = [t \in Transactions |-> FALSE]
    /\ quit = [t \in Transactions |-> 0]
    /\ done = [t \in Transactions |-> 0]
    /\ drainer = [t \in Transactions |-> "none"]
    /\ events = [t \in Transactions |-> 0]
    /\ shown = {}
    /\ closedBy = {}

-----------------------------------------------------------------------------
(***************************************************************************)
(* Under the lock of the conversation.                                     *)
(***************************************************************************)
\* Mutant: every close sends its token.
mayCloseAgain == TRUE

mayClose == ~closing

doClose ==
    /\ closing' = TRUE
    /\ IF mayClose
         THEN IF quits = 0 THEN quits' = 1 /\ UNCHANGED lock
                           ELSE lock' = "stuck" /\ UNCHANGED quits
         ELSE UNCHANGED <<lock, quits>>

\* A write fails once the close message was sent, and sooner or later when
\* the client is gone.
write(t) ==
    \E fails \in BOOLEAN :
       /\ closing => fails
       /\ fails => closing \/ client # "open"
       /\ IF fails THEN doClose ELSE UNCHANGED lockVars

-----------------------------------------------------------------------------
(***************************************************************************)
(* The client, the reader and the dispatcher.                              *)
(***************************************************************************)
ClientLeaves(how) ==
    /\ client = "open"
    /\ client' = how
    /\ UNCHANGED <<running, unsent, Pipeline, readVars, lockVars, workVars, shown,
                   closedBy>>

Read(t) ==
    /\ reader = "reading" /\ client = "open"
    /\ t \in unsent
    /\ unsent' = unsent \ {t}
    /\ offered' = {t}
    /\ reader' = "offering"
    /\ UNCHANGED <<running, client, Pipeline, dispatcher, lockVars, workVars, shown,
                   closedBy>>

\* The queue is closed: the reader was the only one to send on it.
ReadFails ==
    /\ reader = "reading" /\ client # "open"
    /\ lock = "free"
    /\ doClose
    /\ reader' = "ended"
    /\ UNCHANGED <<socketVars, offered, dispatcher, workVars, shown, closedBy>>

Dispatch(t) ==
    /\ dispatcher = "receiving" /\ lock = "free"
    /\ t \in offered
    /\ offered' = {}
    /\ reader' = "reading"
    /\ writer' = [writer EXCEPT ![t] = "request"]
    /\ UNCHANGED <<socketVars, dispatcher, lockVars, result, subscribed, quit,
                   done, drainer, events, shown, closedBy>>

\* Mutant: the transactions that are subscribed only are told.
toInformSubscribed == {t \in Transactions : subscribed[t]}

toInform == {t \in Transactions : writer[t] # "none"}

InformQuit ==
    /\ dispatcher = "receiving" /\ lock = "free"
    /\ reader = "ended"
    /\ IF \A t \in toInform : quit[t] = 0
         THEN /\ quit' = [t \in Transactions |->
                             IF t \in toInform THEN 1 ELSE quit[t]]
              /\ dispatcher' = "ended"
              /\ UNCHANGED lock
         ELSE /\ lock' = "stuck"
              /\ UNCHANGED <<quit, dispatcher>>
    /\ UNCHANGED <<socketVars, reader, offered, closing, quits, writer, result,
                   subscribed, done, drainer, events, shown, closedBy>>

-----------------------------------------------------------------------------
(***************************************************************************)
(* The writer of a transaction, up to the final status of its ticket.      *)
(***************************************************************************)
goesOn(t, next) ==
    /\ writer' = [writer EXCEPT ![t] = next]
    /\ UNCHANGED <<socketVars, readVars, quit, done, events, shown>>

refused(t) ==
    /\ lock = "free"
    /\ doClose
    /\ goesOn(t, "refused")
    /\ UNCHANGED <<result, subscribed, drainer, closedBy>>

PassTransaction(t) ==
    /\ writer[t] = "request"
    /\ IF running
         THEN /\ goesOn(t, "waiting")
              /\ UNCHANGED <<lockVars, result, subscribed, drainer, closedBy>>
         ELSE refused(t)

\* The decryptor may refuse the transaction, and closes the channel when it
\* stops.
TicketRefused(t) ==
    /\ writer[t] = "waiting"
    /\ refused(t)

outcomes(t) ==
    {"failed"} \cup IF t \in Subscribes THEN {"subscribed", "unauthorized"}
                                       ELSE {"success"}

\* A subscription is made when the request runs, before its status says so.
Ticket(t) ==
    /\ writer[t] = "waiting"
    /\ \E r \in outcomes(t) :
          /\ result' = [result EXCEPT ![t] = r]
          /\ subscribed' = [subscribed EXCEPT ![t] = (r = "subscribed")]
    /\ goesOn(t, "ticket")
    /\ UNCHANGED <<lockVars, drainer, closedBy>>

\* An error leaves the client without a word.
GetStatusUpdateChannel(t) ==
    /\ writer[t] = "ticket"
    /\ goesOn(t, IF running THEN "updates" ELSE "ended")
    /\ UNCHANGED <<lockVars, result, subscribed, drainer, closedBy>>

\* Those before the final one, if any; one of them stands for all.
WriteUpdate(t) ==
    /\ writer[t] = "updates"
    /\ \/ Pipeline[t].ReadStatusUpdates /\ lock = "free" /\ write(t)
       \/ UNCHANGED lockVars
    /\ goesOn(t, "lastUpdate")
    /\ UNCHANGED <<result, subscribed, drainer, closedBy>>

StartDraining(t) ==
    /\ writer[t] = "lastUpdate"
    /\ goesOn(t, "select")
    /\ drainer' = [drainer EXCEPT ![t] = "draining"]
    /\ UNCHANGED <<lockVars, result, subscribed, closedBy>>

-----------------------------------------------------------------------------
(***************************************************************************)
(* The result, the quit signal and what follows.                           *)
(***************************************************************************)
\* An unauthorized subscription carries nothing; the end of the events of a
\* subscriber is written too, as null.
carries(t) == result[t] # "unauthorized"

lastResponse(t) == result[t] # "subscribed" \/ ~subscribed[t]

DrainEvent(t) ==
    /\ drainer[t] = "draining"
    /\ ~lastResponse(t)
    /\ events[t] < MaxEvents
    /\ events' = [events EXCEPT ![t] = @ + 1]
    /\ IF Pipeline[t].ReadResult
         THEN lock = "free" /\ write(t)
         ELSE UNCHANGED lockVars
    /\ UNCHANGED <<socketVars, readVars, writer, result, subscribed, quit,
                   done, drainer, shown, closedBy>>

Drained(t) ==
    /\ drainer[t] = "draining"
    /\ lastResponse(t)
    /\ IF Pipeline[t].ReadResult /\ carries(t)
         THEN /\ lock = "free"
              /\ write(t)
              /\ shown' = shown \cup {t}
         ELSE UNCHANGED <<lockVars, shown>>
    /\ drainer' = [drainer EXCEPT ![t] = "ended"]
    /\ done' = [done EXCEPT ![t] = 1]
    /\ UNCHANGED <<socketVars, readVars, writer, result, subscribed, quit,
                   events, closedBy>>

\* Mutant: every transaction gives up a subscription.
hasSubscriberAlways(t) == TRUE

hasSubscriber(t) == result[t] \in {"subscribed", "unauthorized"}

\* Mutant: the writer does not wait for the result.
mayGoOnAtOnce(t) == TRUE

mayGoOn(t) == done[t] = 1 \/ quit[t] = 1

\* doneChannel is closed after its token, and is read from at most once.
Select(t) ==
    /\ writer[t] = "select"
    /\ mayGoOn(t)
    /\ goesOn(t, IF hasSubscriber(t) THEN "unsubscribe" ELSE "close")
    /\ UNCHANGED <<lockVars, result, subscribed, drainer, closedBy>>

\* Giving up a subscription that was refused, or that the opening of the
\* channel took away, fails, or not: the writer then returns.
DoUnsubscribe(t) ==
    /\ writer[t] = "unsubscribe"
    /\ \E succeeds \in BOOLEAN :
          /\ succeeds => running
          /\ (running /\ subscribed[t]) => succeeds
          /\ subscribed' = [subscribed EXCEPT ![t] = @ /\ ~succeeds]
          /\ goesOn(t, IF succeeds THEN "close" ELSE "ended")
    /\ UNCHANGED <<lockVars, result, drainer, closedBy>>

closes(t) == ~Pipeline[t].KeepAlive

NormalClose(t) ==
    /\ writer[t] = "close"
    /\ IF closes(t)
         THEN /\ lock = "free"
              /\ doClose
              /\ closedBy' = IF closing THEN closedBy ELSE closedBy \cup {t}
         ELSE UNCHANGED <<lockVars, closedBy>>
    /\ goesOn(t, "ended")
    /\ UNCHANGED <<result, subscribed, drainer>>

-----------------------------------------------------------------------------
(***************************************************************************)
(* The rest of the program.                                                *)
(***************************************************************************)
\* The opening of a channel removes a subscriber that may not read it.
SubscriptionRemoved(t) ==
    /\ subscribed[t]
    /\ subscribed' = [subscribed EXCEPT ![t] = FALSE]
    /\ UNCHANGED <<socketVars, readVars, lockVars, writer, result, quit, done,
                   drainer, events, shown, closedBy>>

Shutdown ==
    /\ running
    /\ running' = FALSE
    /\ UNCHANGED <<client, unsent, Pipeline, readVars, lockVars, workVars, shown,
                   closedBy>>

-----------------------------------------------------------------------------
Converse ==
    ReadFails \/ InformQuit \/ \E t \in Transactions : Dispatch(t)

Write(t) ==
    \/ PassTransaction(t) \/ Ticket(t) \/ GetStatusUpdateChannel(t)
    \/ WriteUpdate(t) \/ StartDraining(t) \/ Select(t) \/ DoUnsubscribe(t)
    \/ NormalClose(t)

Next ==
    \/ \E how \in {"closed", "garbled", "gone"} : ClientLeaves(how)
    \/ \E t \in Transactions :
          \/ Read(t) \/ Write(t) \/ TicketRefused(t)
          \/ DrainEvent(t) \/ Drained(t) \/ SubscriptionRemoved(t)
    \/ Converse
    \/ Shutdown

Spec == Init /\ [][Next]_vars

\* The goroutines of the conversation run, and their requests are answered.
\* The client, who publishes and who stops the program owe nothing.
Fairness ==
    /\ WF_vars(Converse)
    /\ \A t \in Transactions : WF_vars(Write(t)) /\ WF_vars(Drained(t))

FairSpec == Spec /\ Fairness

-----------------------------------------------------------------------------
(***************************************************************************)
(* Properties.                                                             *)
(***************************************************************************)
Stages == {"none", "request", "waiting", "ticket", "updates", "lastUpdate",
           "select", "unsubscribe", "close", "refused", "ended"}

\* Every variable has its type.
TypeOK ==
    /\ running \in BOOLEAN /\ closing \in BOOLEAN
    /\ client \in {"open", "closed", "garbled", "gone"}
    /\ unsent \subseteq Transactions /\ offered \subseteq Transactions
    /\ shown \subseteq Transactions /\ closedBy \subseteq Transactions
    /\ Pipeline \in Pipelines
    /\ reader \in {"reading", "offering", "ended"}
    /\ dispatcher \in {"receiving", "ended"}
    /\ lock \in {"free", "stuck"}
    /\ quits \in 0..1
    /\ writer \in [Transactions -> Stages]
    /\ result \in [Transactions -> {"none", "failed", "success", "subscribed",
                                    "unauthorized"}]
    /\ subscribed \in [Transactions -> BOOLEAN]
    /\ quit \in [Transactions -> 0..1] /\ done \in [Transactions -> 0..1]
    /\ drainer \in [Transactions -> {"none", "draining", "ended"}]
    /\ events \in [Transactions -> 0..MaxEvents]

\* No goroutine is left waiting to send while it holds the lock of the
\* conversation (pipeline/io.go:72, pipeline/io.go:134): nobody receives from
\* the quit channel of the conversation, and a writer may have returned.
NeverStuck == lock # "stuck"

\* A transaction that ends the conversation has shown its result first
\* (pipeline/io.go:214), if it was asked for and there is one, unless the
\* client has left.
ResultBeforeClose ==
    \A t \in closedBy :
        t \in shown \/ ~Pipeline[t].ReadResult \/ ~carries(t) \/ client # "open"

\* When the client leaves, all goroutines of the conversation end and no
\* subscription is left behind (pipeline/io.go:211), whatever the writers
\* are doing then, as long as the program is not stopped.
EndsWithClient ==
    client # "open" ~>
        \/ ~running
        \/ /\ reader = "ended" /\ dispatcher = "ended"
           /\ \A t \in Transactions :
                 /\ writer[t] \in {"none", "refused", "ended"}
                 /\ ~subscribed[t]
                 /\ drainer[t] # "draining"

\* Where a subscription cannot be given up, being refused or taken away.
unsubscribeFails(t) == t \in Subscribes /\ ~subscribed[t]

\* Once its result is drained a transaction that does not ask to keep the
\* connection closes it (pipeline/io.go:232).  A subscription that was refused
\* or taken away is excused: giving it up may fail, and the writer returns.
ClosesWhenDone ==
    \A t \in Transactions :
        drainer[t] = "ended" ~>
            closing \/ Pipeline[t].KeepAlive \/ ~running \/ unsubscribeFails(t)
=============================================================================
