------------------------------ MODULE Delivery ------------------------------
(***************************************************************************)
(* How what a transaction carries takes effect: the decryptor              *)
(* (src/decryptor) with the keys of the channels (src/keys), the signing   *)
(* keys of the users, and the requests it hands to the executor.  A        *)
(* message that cannot be decrypted or verified is kept with its channel   *)
(* and goes through the decryptor again when the channel opens.            *)
(*                                                                         *)
(* An operation is at one place at a time, which is the state of its       *)
(* transaction here.  The locks of channels and users, whose interplay is  *)
(* Executor.tla, appear as the one holder a channel has while it opens or  *)
(* hands an operation back; permissions of users are left out.             *)
(***************************************************************************)
EXTENDS ChannelRecord, Operations, Sequences, TLC

CONSTANTS
    Transactions,  \* the requests the decryptor gets
    Sent,          \* what each carries, as it arrives
    Verified,      \* those made through MakeTransactionRequest
    Content,       \* what the plaintexts say: openings, closures, keys
    OwnKey,        \* the key pair of the program
    Channels,
    InitialSignKeys

\* The challenges for us that are as they were written.
intactChallenges(ts) ==
    {c \in ts.challenges :
        /\ c.recipient = OwnKey
        /\ c.challenge = Seal(c.key, ts.nonce, CorrectChallenge)}

\* What is decoded is an operation.  A sender encrypts the payload and writes
\* the challenges with one key; what became of either on the way is left
\* open.
ASSUME SentAssumption ==
    \A t \in Transactions :
        /\ \A op \in DecryptTransaction(Sent[t], OwnKey) :
              op # Failed => IsOperation(op)
        /\ Sent[t].encrypted =>
              /\ \A c \in Sent[t].challenges :
                    c.challenge = Seal(c.challenge.key, c.challenge.nonce,
                                       c.challenge.plain)
              /\ \A c, d \in intactChallenges(Sent[t]) : c.key = d.key

ASSUME FailedAssumption == Failed # CorrectChallenge

VARIABLES
    stage,      \* where the operation of each transaction is
    operation,  \* the operation, once the transaction is decrypted
    verified,   \* whether it is to be verified
    plaintext,  \* the payload, if it could be decrypted
    signers,    \* whether the signatures were found good
    answer,     \* the decryptor's last answer
    outcome,    \* the final statuses of its tickets, as a set
    keys,       \* the key store: id to key
    signKeys,   \* the signing keys of the users and their timestamps
    held,       \* history: the signing keys each user ever had
    chans,      \* the records of the channels
    openedBy,   \* history: the transaction that opened each channel
    buffers,    \* the operations kept with each channel, in order
    holder,     \* who holds a channel across several steps
    unfed,      \* the operations that are still to be handed back
    awaited     \* the one whose answer is waited for

execVars  == <<keys, signKeys, held, chans, openedBy, buffers, holder, unfed,
               outcome>>
workVars  == <<operation, verified, plaintext, signers>>
vars == <<stage, answer, awaited, workVars, execVars>>

Init ==
    /\ stage = [t \in Transactions |-> "transaction"]
    /\ operation = [t \in Transactions |-> Failed]
    /\ verified = [t \in Transactions |-> t \in Verified]
    /\ plaintext = [t \in Transactions |-> Failed]
    /\ signers = [t \in Transactions |-> FALSE]
    /\ answer = [t \in Transactions |-> "none"]
    /\ outcome = [t \in Transactions |-> {}]
    /\ keys = << >>
    /\ signKeys = InitialSignKeys
    /\ held = [u \in DOMAIN InitialSignKeys |-> {InitialSignKeys[u].key}]
    /\ chans = [c \in Channels |-> emptyChannelRecord]
    /\ openedBy = [c \in Channels |-> Nobody]
    /\ buffers = [c \in Channels |-> << >>]
    /\ holder = [c \in Channels |-> Nobody]
    /\ unfed = [c \in Channels |-> << >>]
    /\ awaited = [c \in Channels |-> Nobody]

-----------------------------------------------------------------------------
(***************************************************************************)
(* The decryptor.  Its answer also ends the wait of a handler that handed  *)
(* the operation back.                                                     *)
(***************************************************************************)
Answer(t, result, next) ==
    /\ answer' = [answer EXCEPT ![t] = result]
    /\ stage' = [stage EXCEPT ![t] = next]
    /\ awaited' = [c \in Channels |->
                      IF awaited[c] = t THEN Nobody ELSE awaited[c]]
    /\ UNCHANGED execVars

isValidRequestType(op) == op.type # "unknown"

\* To the executor; what failed is marked for buffering.
makeRequest(t, op, failed) ==
    /\ operation' = [operation EXCEPT
                        ![t] = [op EXCEPT !.buffered = @ \/ failed]]
    /\ IF isValidRequestType(op)
         THEN Answer(t, "Success", "executor")
         ELSE Answer(t, "ExecutorError", "done")

\* An operation that is handed back has left its transaction already.  One
\* with an empty payload, which is refused here as well, counts as one that
\* does not decode: it is Failed.
decryptTransaction(t) ==
    IF stage[t] = "transaction" THEN DecryptTransaction(Sent[t], OwnKey)
                                ELSE {operation[t]}

decrypted(t, op, plain) ==
    /\ plaintext' = [plaintext EXCEPT ![t] = plain]
    /\ signers' = [signers EXCEPT ![t] = FALSE]
    /\ UNCHANGED verified
    /\ CASE plain = Failed /\ ShouldDrop(op) ->
               /\ Answer(t, "PermanentDecryptionError", "done")
               /\ operation' = [operation EXCEPT ![t] = op]
         [] plain = Failed /\ ~ShouldDrop(op) ->
               makeRequest(t, op, TRUE)
         [] plain # Failed /\ verified[t] ->
               /\ operation' = [operation EXCEPT ![t] = op]
               /\ stage' = [stage EXCEPT ![t] = "verify"]
               /\ UNCHANGED <<answer, awaited, execVars>>
         [] OTHER -> makeRequest(t, op, FALSE)

Decrypt(t) ==
    /\ stage[t] \in {"transaction", "operation"}
    /\ \E op \in decryptTransaction(t) :
          IF stage[t] = "transaction" /\ op = Failed
            THEN /\ Answer(t, "TransactionDecryptionError", "done")
                 /\ UNCHANGED workVars
            ELSE decrypted(t, op, DecryptOperation(op, keys))

\* The users server answers with pointers to the keys in its records: what
\* they hold when the signatures are looked at is what counts.
verifyPayload(t) ==
    LET op == operation[t]
    IN  /\ {op.issuer, op.certifier} \subseteq DOMAIN signKeys
        /\ Verify(op, signKeys[op.issuer].key, signKeys[op.certifier].key,
                  plaintext[t])

VerifyPayload(t) ==
    /\ stage[t] = "verify"
    /\ UNCHANGED verified
    /\ IF verifyPayload(t)
         THEN /\ signers' = [signers EXCEPT ![t] = TRUE]
              /\ UNCHANGED plaintext
              /\ makeRequest(t, operation[t], FALSE)
         ELSE /\ plaintext' = [plaintext EXCEPT ![t] = Failed]
              /\ UNCHANGED signers
              /\ IF ShouldDrop(operation[t])
                   THEN /\ Answer(t, "VerificationError", "done")
                        /\ UNCHANGED operation
                   ELSE makeRequest(t, operation[t], TRUE)

-----------------------------------------------------------------------------
(***************************************************************************)
(* The executor.  A request on a channel runs when nobody holds it.        *)
(***************************************************************************)
runs(t, type) ==
    /\ stage[t] = "executor"
    /\ operation[t].type = type
    /\ UNCHANGED <<workVars, answer>>

Report(t, status) == outcome' = [outcome EXCEPT ![t] = @ \cup {status}]

Ends(t, status) ==
    /\ Report(t, status)
    /\ stage' = [stage EXCEPT ![t] = "done"]

locked(t) == holder[operation[t].channel] = Nobody

\* Who is created is new; an update that is not later changes nothing.
UsersRequest(t) ==
    LET rq    == Content[plaintext[t]]
        known == rq.user \in DOMAIN signKeys
        later == known => rq.timestamp > signKeys[rq.user].at
    IN  /\ runs(t, "UsersRequest")
        /\ IF (rq.create \/ known) /\ later
             THEN /\ signKeys' = [u \in DOMAIN signKeys \cup {rq.user} |->
                        IF u = rq.user THEN [key |-> rq.key, at |-> rq.timestamp]
                                       ELSE signKeys[u]]
                  /\ held' = [u \in DOMAIN signKeys \cup {rq.user} |->
                        (IF u \in DOMAIN signKeys THEN held[u] ELSE {})
                           \cup IF u = rq.user THEN {rq.key} ELSE {}]
             ELSE UNCHANGED <<signKeys, held>>
        /\ Ends(t, IF rq.create \/ known THEN "success" ELSE "failed")
        /\ UNCHANGED <<keys, chans, openedBy, buffers, holder, unfed, awaited>>

\* Mutant: the key of the channel is forgotten.
storedKeyNot(id, key) == keys

\* The first key of an id stays.
storedKey(id, key) == keys @@ (id :> key)

\* The key is stored before the channels server sees the request.
AddKey(t) ==
    LET rq == Content[plaintext[t]]
        c  == operation[t].channel
    IN  /\ runs(t, "AddChannel")
        /\ locked(t)
        /\ IF signers[t] /\ rq.keyId # Nobody /\ rq.key # Failed
             THEN /\ keys' = storedKey(rq.keyId, rq.key)
                  /\ holder' = [holder EXCEPT ![c] = t]
                  /\ stage' = [stage EXCEPT ![t] = "opening"]
                  /\ UNCHANGED outcome
             ELSE /\ Ends(t, "rejected")
                  /\ UNCHANGED <<keys, holder>>
        /\ UNCHANGED <<signKeys, held, chans, openedBy, buffers, unfed, awaited>>

\* Refused openings leave the key.
OpenChannel(t) ==
    LET rq == Content[plaintext[t]]
        c  == operation[t].channel
    IN  /\ stage[t] = "opening"
        /\ IF canOpen(chans[c], rq)
             THEN /\ chans' = [chans EXCEPT ![c] = tryOpen(@, rq)]
                  /\ openedBy' = [openedBy EXCEPT ![c] = t]
                  /\ unfed' = [unfed EXCEPT ![c] = buffers[c]]
                  /\ stage' = [stage EXCEPT ![t] = "feeding"]
                  /\ UNCHANGED <<holder, outcome>>
             ELSE /\ Ends(t, "rejected")
                  /\ holder' = [holder EXCEPT ![c] = Nobody]
                  /\ UNCHANGED <<chans, openedBy, unfed>>
        /\ UNCHANGED <<workVars, answer, keys, signKeys, held, buffers, awaited>>

CloseChannel(t) ==
    LET op == operation[t]
        c  == op.channel
        closure == [issuer |-> op.issuer, certifier |-> op.certifier,
                    timestamp |-> Content[plaintext[t]].timestamp, by |-> t]
        closes == signers[t] /\ canClose(chans[c], closure)
    IN  /\ runs(t, "CloseChannel")
        /\ locked(t)
        /\ chans' = IF closes THEN [chans EXCEPT ![c] = tryClose(@, closure)]
                              ELSE chans
        /\ Ends(t, IF closes THEN "success" ELSE "rejected")
        /\ UNCHANGED <<keys, signKeys, held, openedBy, buffers, holder, unfed,
                       awaited>>

messageOf(t) ==
    [id |-> t, certifier |-> operation[t].certifier,
     timestamp |-> operation[t].timestamp]

AddMessage(t) ==
    LET c == operation[t].channel
        added == signers[t] /\ canAddMessage(chans[c], messageOf(t))
    IN  /\ runs(t, "AddMessage") /\ plaintext[t] # Failed
        /\ locked(t)
        /\ chans' = IF added THEN [chans EXCEPT ![c] = addMessage(@, messageOf(t))]
                             ELSE chans
        /\ Ends(t, CASE ~signers[t] -> "rejected"
                     [] added       -> "success"
                     [] OTHER       -> "failed")
        /\ UNCHANGED <<keys, signKeys, held, openedBy, buffers, holder, unfed,
                       awaited>>

racesWithOpen(c) == chans[c].state # "buffered"

\* What goes back to the decryptor is verified there.
handBack(c, t) ==
    /\ awaited' = [awaited EXCEPT ![c] = t]
    /\ verified' = [verified EXCEPT ![t] = TRUE]

BufferOperation(t) ==
    LET c == operation[t].channel
    IN  /\ stage[t] = "executor" /\ plaintext[t] = Failed
        /\ locked(t)
        /\ IF racesWithOpen(c)
             THEN /\ handBack(c, t)
                  /\ holder' = [holder EXCEPT ![c] = t]
                  /\ stage' = [stage EXCEPT ![t] = "operation"]
                  /\ UNCHANGED <<buffers, outcome>>
             ELSE /\ buffers' = [buffers EXCEPT ![c] = Append(@, t)]
                  /\ stage' = [stage EXCEPT ![t] = "buffered"]
                  /\ Report(t, "success")
                  /\ UNCHANGED <<holder, awaited, verified>>
        /\ UNCHANGED <<operation, plaintext, signers, answer, keys, signKeys,
                       held, chans, openedBy, unfed>>

Feed(c) ==
    /\ unfed[c] # << >> /\ awaited[c] = Nobody
    /\ handBack(c, Head(unfed[c]))
    /\ unfed' = [unfed EXCEPT ![c] = Tail(@)]
    /\ stage' = [stage EXCEPT ![Head(unfed[c])] = "operation"]
    /\ UNCHANGED <<operation, plaintext, signers, answer, outcome, keys,
                   signKeys, held, chans, openedBy, buffers, holder>>

FinishOpen(c) ==
    LET t == holder[c]
    IN  /\ t # Nobody /\ stage[t] = "feeding"
        /\ unfed[c] = << >> /\ awaited[c] = Nobody
        /\ buffers' = [buffers EXCEPT ![c] = << >>]
        /\ \E rec \in applyCloseAttempts(chans[c]) :
              chans' = [chans EXCEPT ![c] = rec]
        /\ holder' = [holder EXCEPT ![c] = Nobody]
        /\ Ends(t, "success")
        /\ UNCHANGED <<workVars, answer, keys, signKeys, held, openedBy, unfed,
                       awaited>>

\* The answer to an operation handed back on its own: the handler reports
\* success, whatever the answer was.
FinishBuffer(c) ==
    LET t == holder[c]
    IN  /\ t # Nobody /\ stage[t] \notin {"opening", "feeding"}
        /\ awaited[c] = Nobody
        /\ holder' = [holder EXCEPT ![c] = Nobody]
        /\ Report(t, "success")
        /\ UNCHANGED <<stage, answer, awaited, workVars, keys, signKeys, held,
                       chans, openedBy, buffers, unfed>>

-----------------------------------------------------------------------------
Execute(t) ==
    \/ UsersRequest(t) \/ AddKey(t) \/ OpenChannel(t) \/ CloseChannel(t)
    \/ AddMessage(t) \/ BufferOperation(t)

Next ==
    \/ \E t \in Transactions : Decrypt(t) \/ VerifyPayload(t) \/ Execute(t)
    \/ \E c \in Channels : Feed(c) \/ FinishOpen(c) \/ FinishBuffer(c)

Spec == Init /\ [][Next]_vars

\* The workers go on as long as there is something to do.  No operation is
\* handed back twice, so none keeps the others waiting for good.
FairSpec == Spec /\ WF_vars(Next)

-----------------------------------------------------------------------------
(***************************************************************************)
(* Properties.                                                             *)
(***************************************************************************)
Stages == {"transaction", "operation", "verify", "executor",
           "opening", "feeding", "buffered", "done"}

Answers == {"none", "Success", "TransactionDecryptionError",
            "PermanentDecryptionError", "VerificationError", "ExecutorError"}

\* Every variable has its type.
TypeOK ==
    /\ stage \in [Transactions -> Stages]
    /\ \A t \in Transactions :
          /\ stage[t] # "transaction" /\ answer[t] # "TransactionDecryptionError"
                => IsOperation(operation[t])
          /\ outcome[t] \subseteq {"success", "failed", "rejected"}
    /\ verified \in [Transactions -> BOOLEAN]
    /\ signers \in [Transactions -> BOOLEAN]
    /\ answer \in [Transactions -> Answers]
    /\ \A u \in DOMAIN signKeys : signKeys[u].key \in held[u]
    /\ \A c \in Channels :
          /\ chans[c].state \in States
          /\ openedBy[c] \in Transactions \cup {Nobody}
          /\ buffers[c] \in Seq(Transactions)
          /\ unfed[c] \in Seq(Transactions)
          /\ holder[c] \in Transactions \cup {Nobody}
          /\ awaited[c] \in Transactions \cup {Nobody}

\* Signed by its issuer and its certifier, with keys they had.
Signed(t) ==
    LET op == operation[t]
    IN  /\ op.issuerSignature.key \in held[op.issuer]
        /\ op.certifierSignature.key \in held[op.certifier]
        /\ {op.issuerSignature.of, op.certifierSignature.of} = {plaintext[t]}

\* Whatever took effect in a channel, a message, its opening, its closure or
\* one that waits for the opening, was signed by both its signers
\* (decryptor/daemon.go:221), also where it came unverified first and went
\* through the buffer.
Authentic ==
    \A c \in Channels :
        /\ \A m \in chans[c].messages : Signed(m.id)
        /\ openedBy[c] # Nobody => Signed(openedBy[c])
        /\ \A a \in chans[c].attempts \cup {chans[c].closure} :
              a # NoAction => Signed(a.by)

\* A transaction that can be decoded and is plain, or has a challenge for us
\* with the key of its payload.
Meant(t) ==
    LET ts == Sent[t]
    IN  /\ ts.payload # Failed
        /\ ts.encrypted =>
              /\ ts.nonce # Failed
              /\ \E c \in intactChallenges(ts) :
                    Unseal(c.key, ts.nonce, ts.payload) # Failed

\* A transaction is refused if and only if it was not encrypted for us, or
\* was damaged (core/crypto.go:270): a key that does not pass its challenge
\* never hides the one that does.
ReadIfMeant ==
    \A t \in Transactions :
        stage[t] # "transaction" =>
            (answer[t] = "TransactionDecryptionError" <=> ~Meant(t))

\* Every operation comes to rest (core/operation.go:53): none goes back and
\* forth between the decryptor and its channel.
EveryOperationSettles ==
    <>[](\A t \in Transactions : stage[t] \in {"done", "buffered"})

\* Encrypted for its channel and signed with the only key each of its
\* signers ever had.
FirmlySigned(t) ==
    LET op == operation[t]
    IN  /\ t \in Verified
        /\ op.type = "AddMessage" /\ op.encrypted
        /\ {op.issuer, op.certifier} \subseteq DOMAIN InitialSignKeys
        /\ held[op.issuer] = {op.issuerSignature.key}
        /\ held[op.certifier] = {op.certifierSignature.key}
        /\ {op.issuerSignature.of, op.certifierSignature.of}
              = {op.payload.plain}

\* Dropped because an opening that was refused had left the key of the
\* channel: the message could be decrypted before the channel was open.
decryptedTooEarly(t) ==
    /\ outcome[t] = {"failed"}
    /\ \E o \in Transactions :
          /\ signers[o] /\ operation[o].type = "AddChannel"
          /\ outcome[o] = {"rejected"}
          /\ Content[plaintext[o]].keyId = operation[t].keyId

\* A message that is firmly signed for a channel is in the channel in the
\* end, whether it came before, while or after the channel opened
\* (decryptor/daemon.go:237, channels/channels_daemon.go:161).  Excused are
\* those for which the channel has no place or no opening, and those that an
\* opening that was refused let be decrypted too early.
MessagesArrive ==
    <>[](\A t \in Transactions :
            operation[t] # Failed /\ FirmlySigned(t) =>
                LET op  == operation[t]
                    rec == chans[op.channel]
                IN  \/ messageOf(t) \in rec.messages
                    \/ rec.state # "buffered" /\ ~Writable(rec, messageOf(t))
                    \/ rec.state = "closed" /\ op.timestamp >= rec.closure.timestamp
                    \/ rec.state = "buffered" /\ stage[t] = "buffered"
                    \/ decryptedTooEarly(t))
=============================================================================
