--------------------------- MODULE DeliveryProofs ---------------------------
(***************************************************************************)
(* Proofs about Delivery, for any transactions that may arrive: whatever   *)
(* takes effect in a channel was signed by both its signers, and a         *)
(* transaction is refused if and only if it was not meant for us.          *)
(*                                                                         *)
(* The invariant says where a verified operation may be: it never goes     *)
(* through the decryptor again, which would look at it anew.  For this,    *)
(* what waits at a channel must be there once, and be handed back only     *)
(* when nothing more is added to the queue.                                *)
(***************************************************************************)
EXTENDS Delivery, TLAPS, SequenceTheorems

\* A channel's record has the fields of one.
RecordFields ==
    {"state", "opened", "permissions", "closure", "attempts", "messages"}

IsRecord(rec) == rec = [field \in RecordFields |-> rec[field]]

\* The variables that are not typed elsewhere are functions.
Shape ==
    /\ operation = [t \in Transactions |-> operation[t]]
    /\ plaintext = [t \in Transactions |-> plaintext[t]]
    /\ outcome = [t \in Transactions |-> outcome[t]]
    /\ chans = [c \in Channels |-> chans[c]]
    /\ openedBy = [c \in Channels |-> openedBy[c]]
    /\ buffers = [c \in Channels |-> buffers[c]]
    /\ unfed = [c \in Channels |-> unfed[c]]
    /\ holder = [c \in Channels |-> holder[c]]
    /\ awaited = [c \in Channels |-> awaited[c]]
    /\ DOMAIN held = DOMAIN signKeys
    /\ \A c \in Channels : IsRecord(chans[c])

\* Signed by users that are known.
SignedByKnown(t) ==
    /\ {operation[t].issuer, operation[t].certifier} \subseteq DOMAIN held
    /\ Signed(t)

\* What was verified was read, stays as it was signed, and does not go to the
\* decryptor again.
VerifiedInv(t) ==
    /\ stage[t] = "verify" => plaintext[t] # Failed
    /\ stage[t] = "opening" => signers[t]
    /\ signers[t] =>
          /\ stage[t] \in {"executor", "opening", "feeding", "done"}
          /\ plaintext[t] # Failed
          /\ SignedByKnown(t)

\* Only a transaction as it arrives can be refused, and that ends it.
RefusalInv(t) ==
    /\ stage[t] = "transaction" => answer[t] = "none"
    /\ answer[t] = "TransactionDecryptionError" => stage[t] = "done"
    /\ stage[t] # "transaction" =>
          (answer[t] = "TransactionDecryptionError" <=> ~Meant(t))

\* A verified transaction that has had its effect.
Settled(t) == t \in Transactions /\ signers[t] /\ stage[t] \in {"feeding", "done"}

\* Whatever is in the record of a channel comes from such a one.
EffectInv(c) ==
    /\ \A m \in chans[c].messages : Settled(m.id)
    /\ openedBy[c] # Nobody => Settled(openedBy[c])
    /\ \A a \in chans[c].attempts \cup {chans[c].closure} :
          a # NoAction => Settled(a.by)

\* What waits at a channel, each once.
Waiting(c, queue) ==
    /\ \A i \in DOMAIN queue :
          /\ stage[queue[i]] = "buffered"
          /\ operation[queue[i]].channel = c
    /\ \A i, j \in DOMAIN queue : queue[i] = queue[j] => i = j

\* Nothing is handed back before the channel opens, and nothing twice.
WaitingInv(c) ==
    /\ chans[c].state = "buffered" => unfed[c] = << >> /\ Waiting(c, buffers[c])
    /\ Waiting(c, unfed[c])

DeliveryInv ==
    /\ TypeOK
    /\ Shape
    /\ \A t \in Transactions : VerifiedInv(t) /\ RefusalInv(t)
    /\ \A c \in Channels : EffectInv(c) /\ WaitingInv(c)
-----------------------------------------------------------------------------
(***************************************************************************)
(* What the operators give.                                                *)
(***************************************************************************)
\* What is marked for buffering stays what it was otherwise.
LEMMA Marked ==
  ASSUME NEW op, IsOperation(op), NEW failed, NEW next,
         next = [op EXCEPT !.buffered = @ \/ failed]
  PROVE  /\ IsOperation(next)
         /\ next.type = op.type
         /\ next.channel = op.channel
         /\ next.issuer = op.issuer
         /\ next.issuerSignature = op.issuerSignature
         /\ next.certifier = op.certifier
         /\ next.certifierSignature = op.certifierSignature
<1>1. op = [field \in OperationFields |-> op[field]]
  BY DEF IsOperation
<1>2. DOMAIN op = OperationFields
  BY <1>1
<1>3. next = [field \in OperationFields |-> next[field]]
  BY <1>2
<1> QED
  BY <1>2, <1>3 DEF IsOperation, OperationFields

\* What comes out of a transaction is an operation if it was meant for us,
\* and nothing otherwise.
LEMMA ReadExactlyMeant ==
  ASSUME NEW t \in Transactions, NEW op \in DecryptTransaction(Sent[t], OwnKey)
  PROVE  /\ op = Failed <=> ~Meant(t)
         /\ op # Failed => IsOperation(op)
<1> DEFINE ts == Sent[t]
           passing == {c \in ts.challenges : passes(c, OwnKey, ts.nonce)}
<1>1. op # Failed => IsOperation(op)
  BY SentAssumption
<1>2. CASE ~ts.encrypted
  BY <1>1, <1>2 DEF DecryptTransaction, Meant
<1>3. CASE ts.encrypted
  <2>1. passing = intactChallenges(ts)
    <3>1. ASSUME NEW c \in ts.challenges
          PROVE  passes(c, OwnKey, ts.nonce)
                    <=> (/\ c.recipient = OwnKey
                         /\ c.challenge = Seal(c.key, ts.nonce, CorrectChallenge))
      <4>1. c.challenge = Seal(c.challenge.key, c.challenge.nonce,
                               c.challenge.plain)
        BY <1>3, SentAssumption
      <4>2. ASSUME c.challenge = Seal(c.key, ts.nonce, CorrectChallenge)
            PROVE  Unseal(c.key, ts.nonce, c.challenge) = CorrectChallenge
        BY <4>2 DEF Seal, Unseal
      <4>3. ASSUME Unseal(c.key, ts.nonce, c.challenge) = CorrectChallenge
            PROVE  c.challenge = Seal(c.key, ts.nonce, CorrectChallenge)
        <5>1. /\ c.challenge.key = c.key
              /\ c.challenge.nonce = ts.nonce
              /\ c.challenge.plain = CorrectChallenge
          BY <4>3, FailedAssumption DEF Unseal
        <5> QED
          BY <4>1, <5>1
      <4> QED
        BY <4>2, <4>3 DEF passes
    <3> QED
      BY <3>1 DEF intactChallenges
  <2>2. CASE ts.nonce = Failed \/ ts.payload = Failed \/ passing = {}
    <3>1. DecryptTransaction(ts, OwnKey) = {Failed}
      BY <1>3, <2>2 DEF DecryptTransaction
    <3> QED
      BY <1>1, <1>3, <2>1, <2>2, <3>1 DEF Meant
  <2>3. CASE ~(ts.nonce = Failed \/ ts.payload = Failed \/ passing = {})
    <3>1. DecryptTransaction(ts, OwnKey)
             = {Unseal(c.key, ts.nonce, ts.payload) : c \in passing}
      BY <1>3, <2>3 DEF DecryptTransaction
    <3>2. PICK c \in passing : op = Unseal(c.key, ts.nonce, ts.payload)
      BY <3>1
    <3>3. \A d \in intactChallenges(ts) : d.key = c.key
      BY <1>3, <2>1, <3>2, SentAssumption
    <3>4. Meant(t) <=> \E d \in intactChallenges(ts) :
                          Unseal(d.key, ts.nonce, ts.payload) # Failed
      BY <1>3, <2>3 DEF Meant
    <3> QED
      BY <1>1, <2>1, <3>2, <3>3, <3>4
  <2> QED
    BY <2>2, <2>3
<1> QED
  BY <1>2, <1>3

\* The operations on a channel's record keep its fields, and put nothing into
\* it but what they are given.
LEMMA RecordSteps ==
  ASSUME NEW rec, IsRecord(rec), rec.state \in States
  PROVE  /\ \A opening :
               LET next == tryOpen(rec, opening)
               IN  /\ IsRecord(next) /\ next.state = "open"
                   /\ next.messages = rec.messages
                   /\ next.attempts = rec.attempts
                   /\ next.closure = rec.closure
         /\ \A action :
               LET next == tryClose(rec, action)
               IN  /\ IsRecord(next) /\ next.state \in States
                   /\ next.state = "buffered" => rec.state = "buffered"
                   /\ next.messages \subseteq rec.messages
                   /\ next.attempts \cup {next.closure}
                         \subseteq rec.attempts \cup {rec.closure, action}
         /\ \A message :
               LET next == addMessage(rec, message)
               IN  /\ IsRecord(next) /\ next.state = rec.state
                   /\ next.messages = rec.messages \cup {message}
                   /\ next.attempts = rec.attempts
                   /\ next.closure = rec.closure
<1>1. DOMAIN rec = RecordFields
  BY DEF IsRecord
<1>2. ASSUME NEW opening, NEW next, next = tryOpen(rec, opening)
      PROVE  /\ IsRecord(next) /\ next.state = "open"
             /\ next.messages = rec.messages
             /\ next.attempts = rec.attempts
             /\ next.closure = rec.closure
  BY <1>1, <1>2 DEF IsRecord, tryOpen, RecordFields
<1>3. ASSUME NEW action, NEW next, next = tryClose(rec, action)
      PROVE  /\ IsRecord(next) /\ next.state \in States
             /\ next.state = "buffered" => rec.state = "buffered"
             /\ next.messages \subseteq rec.messages
             /\ next.attempts \cup {next.closure}
                   \subseteq rec.attempts \cup {rec.closure, action}
  <2>1. CASE rec.state = "buffered"
    <3>1. next = [rec EXCEPT !.attempts = @ \cup {action}]
      BY <1>3, <2>1 DEF tryClose
    <3> QED
      BY <1>1, <2>1, <3>1 DEF IsRecord, RecordFields, States
  <2>2. CASE rec.state # "buffered"
    <3>1. next = [rec EXCEPT !.state = "closed", !.closure = action,
                             !.attempts = {}, !.messages = Remaining(rec, action)]
      BY <1>3, <2>2 DEF tryClose
    <3>2. /\ IsRecord(next) /\ next.state = "closed"
          /\ next.closure = action /\ next.attempts = {}
          /\ next.messages = Remaining(rec, action)
      BY <1>1, <3>1 DEF IsRecord, RecordFields
    <3> QED
      BY <3>2 DEF Remaining, States
  <2> QED
    BY <2>1, <2>2
<1>4. ASSUME NEW message, NEW next, next = addMessage(rec, message)
      PROVE  /\ IsRecord(next) /\ next.state = rec.state
             /\ next.messages = rec.messages \cup {message}
             /\ next.attempts = rec.attempts
             /\ next.closure = rec.closure
  BY <1>1, <1>4 DEF IsRecord, addMessage, RecordFields
<1> QED
  BY <1>2, <1>3, <1>4

\* So does what is left of the attempts when a channel has opened.
LEMMA AttemptSteps ==
  ASSUME NEW rec, IsRecord(rec), rec.state \in States,
         NEW next \in applyCloseAttempts(rec)
  PROVE  /\ IsRecord(next) /\ next.state \in States
         /\ next.state = "buffered" => rec.state = "buffered"
         /\ next.messages \subseteq rec.messages
         /\ next.attempts \cup {next.closure} \subseteq rec.attempts \cup {rec.closure}
<1>1. CASE FirstAttempts(rec) = {}
  <2>1. next = [rec EXCEPT !.attempts = {}]
    BY <1>1 DEF applyCloseAttempts
  <2>2. DOMAIN rec = RecordFields
    BY DEF IsRecord
  <2> QED
    BY <2>1, <2>2 DEF IsRecord, RecordFields
<1>2. CASE FirstAttempts(rec) # {}
  <2>1. PICK a \in FirstAttempts(rec) : next = tryClose(rec, a)
    BY <1>2 DEF applyCloseAttempts
  <2>2. a \in rec.attempts
    BY DEF FirstAttempts
  <2> QED
    BY <2>1, <2>2, RecordSteps
<1> QED
  BY <1>1, <1>2

-----------------------------------------------------------------------------
(***************************************************************************)
(* The decryptor.                                                          *)
(***************************************************************************)
Refused == "TransactionDecryptionError"

\* What a step of the decryptor does to the operation it works on.
Worked(t) ==
    /\ UNCHANGED <<execVars, verified>>
    /\ stage' = [stage EXCEPT ![t] = stage'[t]]
    /\ answer' = [answer EXCEPT ![t] = answer'[t]]
    /\ operation' = [operation EXCEPT ![t] = operation'[t]]
    /\ plaintext' = [plaintext EXCEPT ![t] = plaintext'[t]]
    /\ signers' = [signers EXCEPT ![t] = signers'[t]]
    /\ awaited' = [c \in Channels |-> awaited'[c]]
    /\ \A c \in Channels : awaited'[c] \in Transactions \cup {Nobody}
    /\ stage[t] \in {"transaction", "operation", "verify"}
    /\ stage'[t] \in {"executor", "verify", "done"}
    /\ answer'[t] \in Answers
    /\ signers'[t] \in BOOLEAN
    /\ answer'[t] = Refused <=> ~Meant(t)
    /\ IF answer'[t] = Refused THEN stage'[t] = "done"
                               ELSE IsOperation(operation'[t])
    /\ stage'[t] = "verify" => plaintext'[t] # Failed
    /\ signers'[t] => plaintext'[t] # Failed /\ stage'[t] # "verify" /\ SignedByKnown(t)'

\* What an answer changes.
LEMMA AnswerStep ==
  ASSUME TypeOK, Shape, NEW t \in Transactions,
         NEW result \in Answers, NEW next \in Stages, Answer(t, result, next)
  PROVE  /\ UNCHANGED execVars
         /\ stage'[t] = next
         /\ stage' = [stage EXCEPT ![t] = stage'[t]]
         /\ answer'[t] = result
         /\ answer' = [answer EXCEPT ![t] = answer'[t]]
         /\ awaited' = [c \in Channels |-> awaited'[c]]
         /\ \A c \in Channels : awaited'[c] \in Transactions \cup {Nobody}
<1>1. /\ stage \in [Transactions -> Stages]
      /\ answer \in [Transactions -> Answers]
      /\ \A c \in Channels : awaited[c] \in Transactions \cup {Nobody}
  BY DEF TypeOK
<1>2. stage' = [stage EXCEPT ![t] = next] /\ answer' = [answer EXCEPT ![t] = result]
  BY DEF Answer
<1>3. awaited' = [c \in Channels |-> IF awaited[c] = t THEN Nobody ELSE awaited[c]]
  BY DEF Answer
<1>4. UNCHANGED execVars
  BY DEF Answer
<1>5. stage'[t] = next /\ answer'[t] = result
  BY <1>1, <1>2
<1> QED
  BY <1>1, <1>2, <1>3, <1>4, <1>5

\* A request to the executor answers, and keeps what was signed.
LEMMA MakeRequestStep ==
  ASSUME TypeOK, Shape, NEW t \in Transactions,
         NEW op, IsOperation(op), NEW failed, makeRequest(t, op, failed)
  PROVE  /\ UNCHANGED execVars
         /\ stage'[t] \in {"executor", "done"}
         /\ stage' = [stage EXCEPT ![t] = stage'[t]]
         /\ answer'[t] \in Answers \ {"none", Refused}
         /\ answer' = [answer EXCEPT ![t] = answer'[t]]
         /\ awaited' = [c \in Channels |-> awaited'[c]]
         /\ \A c \in Channels : awaited'[c] \in Transactions \cup {Nobody}
         /\ operation' = [operation EXCEPT ![t] = operation'[t]]
         /\ IsOperation(operation'[t])
         /\ operation'[t].issuer = op.issuer
         /\ operation'[t].issuerSignature = op.issuerSignature
         /\ operation'[t].certifier = op.certifier
         /\ operation'[t].certifierSignature = op.certifierSignature
<1>1. PICK next : /\ next = [op EXCEPT !.buffered = @ \/ failed]
                  /\ operation' = [operation EXCEPT ![t] = next]
  BY DEF makeRequest
<1>2. operation'[t] = next
  BY <1>1 DEF Shape
<1>3. PICK result \in {"Success", "ExecutorError"}, where \in {"executor", "done"} :
         Answer(t, result, where)
  BY DEF makeRequest
<1>4. result \in Answers \ {"none", Refused} /\ where \in Stages
  BY DEF Answers, Stages, Refused
<1>5. /\ UNCHANGED execVars
      /\ stage'[t] = where
      /\ stage' = [stage EXCEPT ![t] = stage'[t]]
      /\ answer'[t] = result
      /\ answer' = [answer EXCEPT ![t] = answer'[t]]
      /\ awaited' = [c \in Channels |-> awaited'[c]]
      /\ \A c \in Channels : awaited'[c] \in Transactions \cup {Nobody}
  BY <1>3, <1>4, AnswerStep
<1>6. /\ IsOperation(next)
      /\ next.issuer = op.issuer
      /\ next.issuerSignature = op.issuerSignature
      /\ next.certifier = op.certifier
      /\ next.certifierSignature = op.certifierSignature
  BY <1>1, Marked
<1> QED
  BY <1>1, <1>2, <1>3, <1>4, <1>5, <1>6

\* Decrypting a transaction, or an operation that was handed back.
LEMMA DecryptStep ==
  ASSUME DeliveryInv, NEW t \in Transactions, Decrypt(t)
  PROVE  Worked(t)
<1>1. TypeOK /\ Shape /\ VerifiedInv(t) /\ RefusalInv(t)
  BY DEF DeliveryInv
<1>2. /\ stage \in [Transactions -> Stages]
      /\ answer \in [Transactions -> Answers]
      /\ signers \in [Transactions -> BOOLEAN]
      /\ stage[t] # "transaction" /\ answer[t] # Refused => IsOperation(operation[t])
      /\ \A c \in Channels : awaited[c] \in Transactions \cup {Nobody}
  BY <1>1 DEF TypeOK, Refused
<1>3. /\ operation = [s \in Transactions |-> operation[s]]
      /\ plaintext = [s \in Transactions |-> plaintext[s]]
      /\ awaited = [c \in Channels |-> awaited[c]]
  BY <1>1 DEF Shape
<1>4. stage[t] \in {"transaction", "operation"} /\ ~signers[t]
  BY <1>1, <1>2 DEF Decrypt, VerifiedInv
<1>5. answer[t] # Refused
  BY <1>1, <1>4 DEF RefusalInv, Refused
<1>6. PICK op \in decryptTransaction(t) :
          IF stage[t] = "transaction" /\ op = Failed
            THEN /\ Answer(t, "TransactionDecryptionError", "done")
                 /\ UNCHANGED workVars
            ELSE decrypted(t, op, DecryptOperation(op, keys))
  BY DEF Decrypt
<1>7. CASE stage[t] = "transaction" /\ op = Failed
  <2>1. Answer(t, Refused, "done") /\ UNCHANGED workVars
    BY <1>6, <1>7 DEF Refused
  <2>2. Refused \in Answers /\ "done" \in Stages
    BY DEF Answers, Stages, Refused
  <2>3. ~Meant(t)
    BY <1>7, ReadExactlyMeant DEF decryptTransaction
  <2>4. /\ UNCHANGED <<operation, plaintext, signers, verified>>
    BY <2>1 DEF workVars
  <2>5. /\ operation' = [operation EXCEPT ![t] = operation'[t]]
        /\ plaintext' = [plaintext EXCEPT ![t] = plaintext'[t]]
        /\ signers' = [signers EXCEPT ![t] = signers'[t]]
        /\ signers'[t] \in BOOLEAN /\ ~signers'[t]
    BY <2>4, <1>2, <1>3, <1>4
  <2> QED
    BY <1>1, <1>4, <2>1, <2>2, <2>3, <2>4, <2>5, AnswerStep DEF Worked
<1>8. CASE ~(stage[t] = "transaction" /\ op = Failed)
  <2> DEFINE plain == DecryptOperation(op, keys)
  <2>1. decrypted(t, op, plain)
    BY <1>6, <1>8
  <2>2. IsOperation(op) /\ Meant(t)
    <3>1. CASE stage[t] = "transaction"
      BY <1>8, <3>1, ReadExactlyMeant DEF decryptTransaction
    <3>2. CASE stage[t] = "operation"
      BY <1>1, <1>2, <1>5, <3>2 DEF decryptTransaction, RefusalInv, Refused
    <3> QED
      BY <1>4, <3>1, <3>2
  <2> HIDE DEF plain
  <2>3. /\ plaintext' = [plaintext EXCEPT ![t] = plain]
        /\ signers' = [signers EXCEPT ![t] = FALSE]
        /\ verified' = verified
    BY <2>1 DEF decrypted
  <2>4. /\ plaintext'[t] = plain /\ ~signers'[t]
        /\ plaintext' = [plaintext EXCEPT ![t] = plaintext'[t]]
        /\ signers' = [signers EXCEPT ![t] = signers'[t]]
        /\ signers'[t] \in BOOLEAN
    BY <1>2, <1>3, <2>3
  <2>5. CASE plain = Failed /\ ShouldDrop(op)
    <3>1. /\ Answer(t, "PermanentDecryptionError", "done")
          /\ operation' = [operation EXCEPT ![t] = op]
      BY <2>1, <2>5 DEF decrypted
    <3>2. operation'[t] = op /\ operation' = [operation EXCEPT ![t] = operation'[t]]
      BY <1>3, <3>1
    <3>3. "PermanentDecryptionError" \in Answers \ {Refused} /\ "done" \in Stages
      BY DEF Answers, Stages, Refused
    <3>4. /\ UNCHANGED execVars
          /\ stage'[t] = "done"
          /\ stage' = [stage EXCEPT ![t] = stage'[t]]
          /\ answer'[t] \in Answers \ {Refused}
          /\ answer' = [answer EXCEPT ![t] = answer'[t]]
          /\ awaited' = [c \in Channels |-> awaited'[c]]
          /\ \A c \in Channels : awaited'[c] \in Transactions \cup {Nobody}
      BY <1>1, <3>1, <3>3, AnswerStep
    <3> QED
      BY <1>4, <2>2, <2>3, <2>4, <3>2, <3>4 DEF Worked
  <2>6. CASE \/ plain = Failed /\ ~ShouldDrop(op)
             \/ plain # Failed /\ ~verified[t]
    <3>1. PICK failed \in BOOLEAN : makeRequest(t, op, failed)
      BY <2>1, <2>6 DEF decrypted
    <3> QED
      BY <1>1, <1>4, <2>2, <2>3, <2>4, <3>1, MakeRequestStep DEF Worked
  <2>7. CASE plain # Failed /\ verified[t]
    <3>1. /\ operation' = [operation EXCEPT ![t] = op]
          /\ stage' = [stage EXCEPT ![t] = "verify"]
          /\ UNCHANGED <<answer, awaited, execVars>>
      BY <2>1, <2>7 DEF decrypted
    <3>2. /\ operation'[t] = op /\ operation' = [operation EXCEPT ![t] = operation'[t]]
          /\ stage'[t] = "verify" /\ stage' = [stage EXCEPT ![t] = stage'[t]]
          /\ answer'[t] = answer[t] /\ answer' = [answer EXCEPT ![t] = answer'[t]]
          /\ awaited' = [c \in Channels |-> awaited'[c]]
      BY <1>2, <1>3, <3>1
    <3> QED
      BY <1>2, <1>4, <1>5, <2>2, <2>3, <2>4, <2>7, <3>1, <3>2 DEF Worked
  <2> QED
    BY <2>5, <2>6, <2>7
<1> QED
  BY <1>7, <1>8

\* Verifying: what passes is signed with keys the signers have.
LEMMA VerifyPayloadStep ==
  ASSUME DeliveryInv, NEW t \in Transactions, VerifyPayload(t)
  PROVE  Worked(t)
<1>1. TypeOK /\ Shape /\ VerifiedInv(t) /\ RefusalInv(t)
  BY DEF DeliveryInv
<1>2. /\ stage[t] = "verify" /\ answer[t] # Refused /\ ~signers[t] /\ Meant(t)
      /\ plaintext[t] # Failed
  BY <1>1 DEF VerifyPayload, VerifiedInv, RefusalInv, Refused
<1>3. IsOperation(operation[t])
  BY <1>1, <1>2 DEF TypeOK, Refused
<1>4. /\ signers \in [Transactions -> BOOLEAN]
      /\ \A u \in DOMAIN signKeys : signKeys[u].key \in held[u]
      /\ answer \in [Transactions -> Answers]
  BY <1>1 DEF TypeOK
<1>5. /\ operation = [s \in Transactions |-> operation[s]]
      /\ plaintext = [s \in Transactions |-> plaintext[s]]
      /\ DOMAIN held = DOMAIN signKeys
  BY <1>1 DEF Shape
<1>6. CASE verifyPayload(t)
  <2>1. /\ signers' = [signers EXCEPT ![t] = TRUE]
        /\ UNCHANGED <<plaintext, verified>>
        /\ makeRequest(t, operation[t], FALSE)
    BY <1>6 DEF VerifyPayload
  <2>2. /\ operation'[t].issuer = operation[t].issuer
        /\ operation'[t].issuerSignature = operation[t].issuerSignature
        /\ operation'[t].certifier = operation[t].certifier
        /\ operation'[t].certifierSignature = operation[t].certifierSignature
        /\ UNCHANGED execVars
    BY <1>1, <1>3, <2>1, MakeRequestStep
  <2>3. /\ {operation[t].issuer, operation[t].certifier} \subseteq DOMAIN signKeys
        /\ operation[t].issuerSignature
              = [key |-> signKeys[operation[t].issuer].key, of |-> plaintext[t]]
        /\ operation[t].certifierSignature
              = [key |-> signKeys[operation[t].certifier].key, of |-> plaintext[t]]
    BY <1>6 DEF verifyPayload, Verify
  <2>4. held' = held
    BY <2>2 DEF execVars
  <2>5. SignedByKnown(t)'
    BY <1>4, <1>5, <2>1, <2>2, <2>3, <2>4 DEF SignedByKnown, Signed
  <2>6. /\ plaintext' = [plaintext EXCEPT ![t] = plaintext'[t]]
        /\ signers' = [signers EXCEPT ![t] = signers'[t]]
        /\ signers'[t] \in BOOLEAN
        /\ plaintext'[t] # Failed
    BY <1>2, <1>4, <1>5, <2>1
  <2> QED
    BY <1>1, <1>2, <1>3, <2>1, <2>5, <2>6, MakeRequestStep DEF Worked
<1>7. CASE ~verifyPayload(t)
  <2>1. /\ plaintext' = [plaintext EXCEPT ![t] = Failed]
        /\ UNCHANGED <<signers, verified>>
    BY <1>7 DEF VerifyPayload
  <2>2. /\ plaintext' = [plaintext EXCEPT ![t] = plaintext'[t]]
        /\ signers' = [signers EXCEPT ![t] = signers'[t]]
        /\ signers'[t] \in BOOLEAN /\ ~signers'[t]
    BY <1>2, <1>4, <1>5, <2>1
  <2>3. CASE ShouldDrop(operation[t])
    <3>1. Answer(t, "VerificationError", "done") /\ operation' = operation
      BY <1>7, <2>3 DEF VerifyPayload
    <3>2. /\ operation' = [operation EXCEPT ![t] = operation'[t]]
          /\ operation'[t] = operation[t]
      BY <1>5, <3>1
    <3>3. "VerificationError" \in Answers \ {Refused} /\ "done" \in Stages
      BY DEF Answers, Stages, Refused
    <3> QED
      BY <1>1, <1>2, <1>3, <2>1, <2>2, <3>1, <3>2, <3>3, AnswerStep DEF Worked
  <2>4. CASE ~ShouldDrop(operation[t])
    <3>1. makeRequest(t, operation[t], TRUE)
      BY <1>7, <2>4 DEF VerifyPayload
    <3> QED
      BY <1>1, <1>2, <1>3, <2>1, <2>2, <3>1, MakeRequestStep DEF Worked
  <2> QED
    BY <2>3, <2>4
<1> QED
  BY <1>6, <1>7

\* Such a step keeps the invariant: what works is not in a channel yet.
LEMMA WorkedInv ==
  ASSUME DeliveryInv, NEW t \in Transactions, Worked(t)
  PROVE  DeliveryInv'
<1>1. TypeOK /\ Shape
  BY DEF DeliveryInv
<1>2. /\ UNCHANGED <<keys, signKeys, held, chans, openedBy, buffers, holder, unfed,
                     outcome, verified>>
      /\ stage' = [stage EXCEPT ![t] = stage'[t]]
      /\ answer' = [answer EXCEPT ![t] = answer'[t]]
      /\ operation' = [operation EXCEPT ![t] = operation'[t]]
      /\ plaintext' = [plaintext EXCEPT ![t] = plaintext'[t]]
      /\ signers' = [signers EXCEPT ![t] = signers'[t]]
      /\ awaited' = [c \in Channels |-> awaited'[c]]
      /\ \A c \in Channels : awaited'[c] \in Transactions \cup {Nobody}
      /\ stage[t] \in {"transaction", "operation", "verify"}
      /\ stage'[t] \in {"executor", "verify", "done"}
      /\ answer'[t] \in Answers
      /\ signers'[t] \in BOOLEAN
  BY DEF Worked, execVars
<1>3. /\ stage \in [Transactions -> Stages]
      /\ answer \in [Transactions -> Answers]
      /\ signers \in [Transactions -> BOOLEAN]
      /\ operation = [s \in Transactions |-> operation[s]]
      /\ plaintext = [s \in Transactions |-> plaintext[s]]
  BY <1>1 DEF TypeOK, Shape
<1>4. \A s \in Transactions : s # t =>
         /\ stage'[s] = stage[s]
         /\ answer'[s] = answer[s]
         /\ operation'[s] = operation[s]
         /\ plaintext'[s] = plaintext[s]
         /\ signers'[s] = signers[s]
  BY <1>2, <1>3
<1>5. TypeOK'
  <2>1. /\ stage' \in [Transactions -> Stages]
        /\ answer' \in [Transactions -> Answers]
        /\ signers' \in [Transactions -> BOOLEAN]
    BY <1>2, <1>3 DEF Stages
  <2>2. ASSUME NEW s \in Transactions,
               stage'[s] # "transaction", answer'[s] # Refused
        PROVE  IsOperation(operation'[s])
    <3>1. CASE s = t
      BY <2>2, <3>1 DEF Worked
    <3>2. CASE s # t
      BY <1>1, <1>4, <2>2, <3>2 DEF TypeOK, Refused
    <3> QED
      BY <3>1, <3>2
  <2> QED
    BY <1>1, <1>2, <2>1, <2>2 DEF TypeOK, Refused
<1>6. Shape'
  BY <1>1, <1>2, <1>3 DEF Shape
<1>7. ASSUME NEW s \in Transactions PROVE VerifiedInv(s)' /\ RefusalInv(s)'
  <2>1. CASE s = t
    BY <1>2, <2>1 DEF Worked, VerifiedInv, RefusalInv, Refused, Meant
  <2>2. CASE s # t
    <3>1. VerifiedInv(s) /\ RefusalInv(s)
      BY DEF DeliveryInv
    <3>2. SignedByKnown(s) => SignedByKnown(s)'
      BY <1>2, <1>4, <2>2 DEF SignedByKnown, Signed
    <3>3. VerifiedInv(s)'
      BY <1>4, <2>2, <3>1, <3>2 DEF VerifiedInv
    <3> QED
      BY <1>4, <2>2, <3>1, <3>3 DEF RefusalInv, Meant
  <2> QED
    BY <2>1, <2>2
<1>8. \A x : Settled(x) => Settled(x)'
  BY <1>2, <1>4 DEF Settled
<1>9. \A s \in Transactions : stage[s] = "buffered" =>
         stage'[s] = "buffered" /\ operation'[s] = operation[s]
  BY <1>2, <1>4
<1>10. ASSUME NEW c \in Channels PROVE EffectInv(c)' /\ WaitingInv(c)'
  <2>1. EffectInv(c) /\ WaitingInv(c)
    BY DEF DeliveryInv
  <2>2. EffectInv(c)'
    BY <1>2, <1>8, <2>1 DEF EffectInv
  <2>3. ASSUME NEW queue \in Seq(Transactions), Waiting(c, queue)
        PROVE  Waiting(c, queue)'
    <3>1. \A i \in DOMAIN queue : queue[i] \in Transactions
      OBVIOUS
    <3> QED
      BY <1>9, <2>3, <3>1 DEF Waiting
  <2>4. buffers[c] \in Seq(Transactions) /\ unfed[c] \in Seq(Transactions)
    BY <1>1 DEF TypeOK
  <2>5. Waiting(c, unfed[c])' /\ (Waiting(c, buffers[c]) => Waiting(c, buffers[c])')
    BY <1>2, <2>1, <2>3, <2>4 DEF WaitingInv, Waiting
  <2> QED
    BY <1>2, <2>1, <2>2, <2>5 DEF WaitingInv
<1> QED
  BY <1>5, <1>6, <1>7, <1>10 DEF DeliveryInv

-----------------------------------------------------------------------------
(***************************************************************************)
(* The executor and the servers of the channels.                           *)
(***************************************************************************)
\* Where an operation may go in a step of theirs.
Move(t) ==
    \/ stage'[t] = stage[t]
    \/ stage[t] = "executor" /\ stage'[t] = "done"
    \/ stage[t] = "executor" /\ stage'[t] = "opening" /\ signers[t]
    \/ /\ stage[t] = "executor" /\ stage'[t] \in {"buffered", "operation"}
       /\ plaintext[t] = Failed
    \/ stage[t] = "opening" /\ stage'[t] \in {"feeding", "done"}
    \/ stage[t] = "feeding" /\ stage'[t] = "done"
    \/ stage[t] = "buffered" /\ stage'[t] = "operation"

Moved ==
    /\ UNCHANGED <<operation, plaintext, signers, answer>>
    /\ stage' = [t \in Transactions |-> stage'[t]]
    /\ \A t \in Transactions : Move(t)
    /\ \A u \in DOMAIN held : u \in DOMAIN held' /\ held[u] \subseteq held'[u]

\* The types of what they may change, beside the stage.
StoreTypes ==
    /\ outcome = [t \in Transactions |-> outcome[t]]
    /\ \A t \in Transactions : outcome[t] \subseteq {"success", "failed", "rejected"}
    /\ verified \in [Transactions -> BOOLEAN]
    /\ DOMAIN held = DOMAIN signKeys
    /\ \A u \in DOMAIN signKeys : signKeys[u].key \in held[u]

ChannelTypes ==
    /\ chans = [c \in Channels |-> chans[c]]
    /\ openedBy = [c \in Channels |-> openedBy[c]]
    /\ buffers = [c \in Channels |-> buffers[c]]
    /\ unfed = [c \in Channels |-> unfed[c]]
    /\ holder = [c \in Channels |-> holder[c]]
    /\ awaited = [c \in Channels |-> awaited[c]]
    /\ \A c \in Channels :
          /\ IsRecord(chans[c])
          /\ chans[c].state \in States
          /\ openedBy[c] \in Transactions \cup {Nobody}
          /\ buffers[c] \in Seq(Transactions)
          /\ unfed[c] \in Seq(Transactions)
          /\ holder[c] \in Transactions \cup {Nobody}
          /\ awaited[c] \in Transactions \cup {Nobody}

LEMMA Types == TypeOK /\ Shape => StoreTypes /\ ChannelTypes
  BY DEF TypeOK, Shape, StoreTypes, ChannelTypes

\* Wherever operations go, what was verified stays so.
LEMMA MovedKeeps ==
  ASSUME DeliveryInv, Moved
  PROVE  /\ \A t \in Transactions : VerifiedInv(t)' /\ RefusalInv(t)'
         /\ \A x : Settled(x) => Settled(x)'
         /\ \A s \in Transactions : stage'[s] \in Stages
         /\ \A s \in Transactions : stage'[s] # "transaction" => stage[s] # "transaction"
<1>1. /\ UNCHANGED <<operation, plaintext, signers, answer>>
      /\ \A u \in DOMAIN held : u \in DOMAIN held' /\ held[u] \subseteq held'[u]
  BY DEF Moved
<1>2. \A t \in Transactions : Move(t) /\ VerifiedInv(t) /\ RefusalInv(t)
  BY DEF Moved, DeliveryInv
<1>3. \A t \in Transactions : stage[t] \in Stages
  BY DEF DeliveryInv, TypeOK
<1>4. ASSUME NEW t \in Transactions PROVE VerifiedInv(t)'
  <2>1. SignedByKnown(t) => SignedByKnown(t)'
    BY <1>1 DEF SignedByKnown, Signed
  <2> QED
    BY <1>1, <1>2, <2>1 DEF VerifiedInv, Move
<1>5. ASSUME NEW t \in Transactions PROVE RefusalInv(t)'
  BY <1>1, <1>2 DEF RefusalInv, Move, Meant
<1>6. \A x : Settled(x) => Settled(x)'
  BY <1>1, <1>2 DEF Settled, Move
<1>7. \A s \in Transactions : stage'[s] \in Stages
  BY <1>2, <1>3 DEF Move, Stages
<1>8. \A s \in Transactions : stage'[s] # "transaction" => stage[s] # "transaction"
  BY <1>2 DEF Move
<1> QED
  BY <1>4, <1>5, <1>6, <1>7, <1>8

\* The invariant holds after such a step if the channels are as they should.
LEMMA MovedInv ==
  ASSUME DeliveryInv, Moved, StoreTypes', ChannelTypes',
         \A c \in Channels : EffectInv(c)' /\ WaitingInv(c)'
  PROVE  DeliveryInv'
<1>1. TypeOK /\ Shape
  BY DEF DeliveryInv
<1>2. UNCHANGED <<operation, plaintext, signers, answer>>
  BY DEF Moved
<1>3. stage' \in [Transactions -> Stages]
  BY MovedKeeps DEF Moved
<1>4. TypeOK'
  BY <1>1, <1>2, <1>3, MovedKeeps DEF TypeOK, StoreTypes, ChannelTypes
<1>5. Shape'
  BY <1>1, <1>2 DEF Shape, StoreTypes, ChannelTypes
<1> QED
  BY <1>4, <1>5, MovedKeeps DEF DeliveryInv

\* What is in a channel that does not change stays as it should.
LEMMA EffectFrame ==
  ASSUME DeliveryInv, Moved, NEW c \in Channels,
         chans'[c] = chans[c], openedBy'[c] = openedBy[c]
  PROVE  EffectInv(c)'
<1>1. EffectInv(c)
  BY DEF DeliveryInv
<1> QED
  BY <1>1, MovedKeeps DEF EffectInv

\* And what waits there, unless it is handed back.
LEMMA WaitingFrame ==
  ASSUME DeliveryInv, Moved, NEW c \in Channels,
         chans'[c].state = "buffered" => chans[c].state = "buffered",
         buffers'[c] = buffers[c], unfed'[c] = unfed[c],
         \A s \in Transactions :
            stage[s] = "buffered" /\ operation[s].channel = c => stage'[s] = "buffered"
  PROVE  WaitingInv(c)'
<1>1. WaitingInv(c) /\ TypeOK
  BY DEF DeliveryInv
<1>2. UNCHANGED operation
  BY DEF Moved
<1>3. ASSUME NEW queue \in Seq(Transactions), Waiting(c, queue)
      PROVE  /\ \A i \in DOMAIN queue :
                   /\ stage'[queue[i]] = "buffered"
                   /\ operation'[queue[i]].channel = c
             /\ \A i, j \in DOMAIN queue : queue[i] = queue[j] => i = j
  <2>1. \A i \in DOMAIN queue : queue[i] \in Transactions
    OBVIOUS
  <2> QED
    BY <1>2, <1>3, <2>1 DEF Waiting
<1>4. buffers[c] \in Seq(Transactions) /\ unfed[c] \in Seq(Transactions)
  BY <1>1 DEF TypeOK
<1>5. Waiting(c, unfed[c])'
  BY <1>1, <1>3, <1>4 DEF WaitingInv, Waiting
<1>6. Waiting(c, buffers[c]) => Waiting(c, buffers[c])'
  BY <1>3, <1>4 DEF Waiting
<1> QED
  BY <1>1, <1>5, <1>6 DEF WaitingInv

\* Users are created or updated: who had a key keeps having had it.
LEMMA UsersRequestInv ==
  ASSUME DeliveryInv, NEW t \in Transactions, UsersRequest(t)
  PROVE  DeliveryInv'
<1> DEFINE rq    == Content[plaintext[t]]
           known == rq.user \in DOMAIN signKeys
<1>1. TypeOK /\ Shape /\ StoreTypes /\ ChannelTypes
  BY Types DEF DeliveryInv
<1>2. stage \in [Transactions -> Stages]
  BY <1>1 DEF TypeOK
<1>3. /\ stage[t] = "executor" /\ stage' = [stage EXCEPT ![t] = "done"]
      /\ UNCHANGED <<operation, verified, plaintext, signers, answer>>
      /\ UNCHANGED <<keys, chans, openedBy, buffers, holder, unfed, awaited>>
  BY DEF UsersRequest, runs, Ends, workVars
<1>4. outcome' = [outcome EXCEPT ![t] = @ \cup {IF rq.create \/ known THEN "success"
                                                                      ELSE "failed"}]
  BY DEF UsersRequest, Ends, Report
<1>5. /\ \A u \in DOMAIN held : u \in DOMAIN held' /\ held[u] \subseteq held'[u]
      /\ DOMAIN held' = DOMAIN signKeys'
      /\ \A u \in DOMAIN signKeys' : signKeys'[u].key \in held'[u]
  <2>1. CASE UNCHANGED <<signKeys, held>>
    BY <1>1, <2>1 DEF StoreTypes
  <2>2. CASE /\ signKeys' = [u \in DOMAIN signKeys \cup {rq.user} |->
                   IF u = rq.user THEN [key |-> rq.key, at |-> rq.timestamp]
                                  ELSE signKeys[u]]
             /\ held' = [u \in DOMAIN signKeys \cup {rq.user} |->
                   (IF u \in DOMAIN signKeys THEN held[u] ELSE {})
                      \cup IF u = rq.user THEN {rq.key} ELSE {}]
    BY <1>1, <2>2 DEF StoreTypes
  <2> QED
    BY <2>1, <2>2 DEF UsersRequest
<1>6. Moved
  BY <1>2, <1>3, <1>5 DEF Moved, Move
<1>7. StoreTypes'
  BY <1>1, <1>3, <1>4, <1>5 DEF StoreTypes
<1>8. ChannelTypes'
  BY <1>1, <1>3 DEF ChannelTypes
<1>9. ASSUME NEW c \in Channels PROVE EffectInv(c)' /\ WaitingInv(c)'
  BY <1>2, <1>3, <1>6, EffectFrame, WaitingFrame
<1> QED
  BY <1>6, <1>7, <1>8, <1>9, MovedInv

\* The key of an opening is stored.
LEMMA AddKeyInv ==
  ASSUME DeliveryInv, NEW t \in Transactions, AddKey(t)
  PROVE  DeliveryInv'
<1>1. TypeOK /\ Shape /\ StoreTypes /\ ChannelTypes
  BY Types DEF DeliveryInv
<1>2. stage \in [Transactions -> Stages]
  BY <1>1 DEF TypeOK
<1>3. /\ stage[t] = "executor"
      /\ UNCHANGED <<operation, verified, plaintext, signers, answer>>
      /\ UNCHANGED <<signKeys, held, chans, openedBy, buffers, unfed, awaited>>
  BY DEF AddKey, runs, workVars
<1>4. \/ /\ signers[t] /\ stage' = [stage EXCEPT ![t] = "opening"]
         /\ holder' = [holder EXCEPT ![operation[t].channel] = t]
         /\ outcome' = outcome
      \/ /\ stage' = [stage EXCEPT ![t] = "done"]
         /\ outcome' = [outcome EXCEPT ![t] = @ \cup {"rejected"}]
         /\ holder' = holder
  BY DEF AddKey, Ends, Report
<1>5. Moved
  BY <1>2, <1>3, <1>4 DEF Moved, Move
<1>6. StoreTypes'
  BY <1>1, <1>3, <1>4 DEF StoreTypes
<1>7. ChannelTypes'
  BY <1>1, <1>3, <1>4 DEF ChannelTypes
<1>8. ASSUME NEW c \in Channels PROVE EffectInv(c)' /\ WaitingInv(c)'
  <2>1. \A s \in Transactions : stage[s] = "buffered" => stage'[s] = "buffered"
    BY <1>2, <1>3, <1>4
  <2> QED
    BY <1>3, <1>5, <2>1, EffectFrame, WaitingFrame
<1> QED
  BY <1>5, <1>6, <1>7, <1>8, MovedInv

\* A channel opens: all that waits for it is to be handed back.
LEMMA OpenChannelInv ==
  ASSUME DeliveryInv, NEW t \in Transactions, OpenChannel(t)
  PROVE  DeliveryInv'
<1> DEFINE c  == operation[t].channel
           rq == Content[plaintext[t]]
<1>1. TypeOK /\ Shape /\ StoreTypes /\ ChannelTypes
  BY Types DEF DeliveryInv
<1>2. stage \in [Transactions -> Stages]
  BY <1>1 DEF TypeOK
<1>3. /\ stage[t] = "opening"
      /\ UNCHANGED <<operation, verified, plaintext, signers, answer>>
      /\ UNCHANGED <<keys, signKeys, held, buffers, awaited>>
  BY DEF OpenChannel, workVars
<1>4. CASE canOpen(chans[c], rq)
  <2>1. /\ chans' = [chans EXCEPT ![c] = tryOpen(@, rq)]
        /\ openedBy' = [openedBy EXCEPT ![c] = t]
        /\ unfed' = [unfed EXCEPT ![c] = buffers[c]]
        /\ stage' = [stage EXCEPT ![t] = "feeding"]
        /\ UNCHANGED <<holder, outcome>>
    BY <1>4 DEF OpenChannel
  <2>2. Moved
    BY <1>2, <1>3, <2>1 DEF Moved, Move
  <2>3. StoreTypes'
    BY <1>1, <1>3, <2>1 DEF StoreTypes
  <2>4. \A d \in Channels : d # c =>
           chans'[d] = chans[d] /\ openedBy'[d] = openedBy[d] /\ unfed'[d] = unfed[d]
    BY <1>1, <2>1 DEF ChannelTypes
  <2>5. ASSUME c \in Channels
        PROVE  /\ IsRecord(chans'[c]) /\ chans'[c].state = "open"
               /\ chans'[c].messages = chans[c].messages
               /\ chans'[c].attempts = chans[c].attempts
               /\ chans'[c].closure = chans[c].closure
               /\ openedBy'[c] = t
               /\ unfed'[c] = buffers[c]
    <3>1. IsRecord(chans[c]) /\ chans[c].state \in States
      BY <1>1, <2>5 DEF ChannelTypes
    <3>2. chans'[c] = tryOpen(chans[c], rq) /\ openedBy'[c] = t /\ unfed'[c] = buffers[c]
      BY <1>1, <2>1, <2>5 DEF ChannelTypes
    <3> QED
      BY <3>1, <3>2, RecordSteps
  <2>6. ChannelTypes'
    <3>1. /\ chans' = [d \in Channels |-> chans'[d]]
          /\ openedBy' = [d \in Channels |-> openedBy'[d]]
          /\ unfed' = [d \in Channels |-> unfed'[d]]
      BY <1>1, <2>1 DEF ChannelTypes
    <3>2. ASSUME NEW d \in Channels
          PROVE  /\ IsRecord(chans'[d])
                 /\ chans'[d].state \in States
                 /\ openedBy'[d] \in Transactions \cup {Nobody}
                 /\ unfed'[d] \in Seq(Transactions)
      BY <1>1, <2>4, <2>5 DEF ChannelTypes, States
    <3> QED
      BY <1>1, <1>3, <2>1, <3>1, <3>2 DEF ChannelTypes, IsRecord
  <2>7. ASSUME NEW d \in Channels PROVE EffectInv(d)' /\ WaitingInv(d)'
    <3>1. \A s \in Transactions : stage[s] = "buffered" => stage'[s] = "buffered"
      BY <1>2, <1>3, <2>1
    <3>2. CASE d # c
      BY <1>3, <2>2, <2>4, <3>1, <3>2, EffectFrame, WaitingFrame
    <3>3. CASE d = c
      <4>1. EffectInv(d) /\ VerifiedInv(t) /\ WaitingInv(d)
        BY DEF DeliveryInv
      <4>2. Settled(t)'
        BY <1>2, <1>3, <2>1, <4>1 DEF Settled, VerifiedInv
      <4>3. /\ chans'[d].state = "open"
            /\ chans'[d].messages = chans[d].messages
            /\ chans'[d].attempts = chans[d].attempts
            /\ chans'[d].closure = chans[d].closure
            /\ openedBy'[d] = t
            /\ unfed'[d] = buffers[d]
        BY <2>5, <3>3
      <4>4. \A x : Settled(x) => Settled(x)'
        BY <2>2, MovedKeeps
      <4>5. EffectInv(d)'
        BY <4>1, <4>2, <4>3, <4>4 DEF EffectInv
      <4>6. Waiting(d, buffers[d])
        BY <1>4, <3>3, <4>1 DEF WaitingInv, canOpen
      <4>7. \A i \in DOMAIN buffers[d] : buffers[d][i] \in Transactions
        BY <1>1 DEF ChannelTypes
      <4>8. Waiting(d, unfed[d])'
        BY <1>3, <3>1, <4>3, <4>6, <4>7 DEF Waiting
      <4>9. WaitingInv(d)'
        BY <4>3, <4>8 DEF WaitingInv
      <4> QED
        BY <4>5, <4>9
    <3> QED
      BY <3>2, <3>3
  <2> QED
    BY <2>2, <2>3, <2>6, <2>7, MovedInv
<1>5. CASE ~canOpen(chans[c], rq)
  <2>1. /\ stage' = [stage EXCEPT ![t] = "done"]
        /\ outcome' = [outcome EXCEPT ![t] = @ \cup {"rejected"}]
        /\ holder' = [holder EXCEPT ![c] = Nobody]
        /\ UNCHANGED <<chans, openedBy, unfed>>
    BY <1>5 DEF OpenChannel, Ends, Report
  <2>2. Moved
    BY <1>2, <1>3, <2>1 DEF Moved, Move
  <2>3. StoreTypes' /\ ChannelTypes'
    BY <1>1, <1>3, <2>1 DEF StoreTypes, ChannelTypes
  <2>4. \A s \in Transactions : stage[s] = "buffered" => stage'[s] = "buffered"
    BY <1>2, <1>3, <2>1
  <2>5. \A d \in Channels : EffectInv(d)' /\ WaitingInv(d)'
    BY <1>3, <2>1, <2>2, <2>4, EffectFrame, WaitingFrame
  <2> QED
    BY <2>2, <2>3, <2>5, MovedInv
<1> QED
  BY <1>4, <1>5

\* What a request brings into the record of its channel is its own, and it
\* is done.
LEMMA RecordChange ==
  ASSUME DeliveryInv, Moved, NEW t \in Transactions, Settled(t)',
         NEW c \in Channels, NEW from, NEW next,
         from = chans[c], next = chans'[c],
         openedBy'[c] = openedBy[c], buffers'[c] = buffers[c], unfed'[c] = unfed[c],
         next.state = "buffered" => from.state = "buffered",
         \A m \in next.messages \ from.messages : m.id = t,
         \A a \in next.attempts \cup {next.closure} :
            a \in from.attempts \cup {from.closure} \/ a = NoAction \/ a.by = t,
         \A s \in Transactions :
            stage[s] = "buffered" /\ operation[s].channel = c => stage'[s] = "buffered"
  PROVE  EffectInv(c)' /\ WaitingInv(c)'
<1>1. EffectInv(c)
  BY DEF DeliveryInv
<1>2. \A x : Settled(x) => Settled(x)'
  BY MovedKeeps
<1>3. EffectInv(c)'
  <2>1. ASSUME NEW m \in next.messages PROVE Settled(m.id)'
    BY <1>1, <1>2 DEF EffectInv
  <2>2. ASSUME NEW a \in next.attempts \cup {next.closure}, a # NoAction
        PROVE  Settled(a.by)'
    BY <1>1, <1>2, <2>2 DEF EffectInv
  <2>3. (openedBy[c] # Nobody => Settled(openedBy[c]))'
    BY <1>1, <1>2 DEF EffectInv
  <2> QED
    BY <2>1, <2>2, <2>3 DEF EffectInv
<1>4. WaitingInv(c)'
  BY WaitingFrame
<1> QED
  BY <1>3, <1>4

\* A verified closure is attempted, or closes the channel.
LEMMA CloseChannelInv ==
  ASSUME DeliveryInv, NEW t \in Transactions, CloseChannel(t)
  PROVE  DeliveryInv'
<1> DEFINE op == operation[t]
           closure == [issuer |-> op.issuer, certifier |-> op.certifier,
                       timestamp |-> Content[plaintext[t]].timestamp, by |-> t]
           closes == signers[t] /\ canClose(chans[op.channel], closure)
<1>1. TypeOK /\ Shape /\ StoreTypes /\ ChannelTypes
  BY Types DEF DeliveryInv
<1>2. stage \in [Transactions -> Stages]
  BY <1>1 DEF TypeOK
<1>3. /\ stage[t] = "executor" /\ stage' = [stage EXCEPT ![t] = "done"]
      /\ UNCHANGED <<operation, verified, plaintext, signers, answer>>
      /\ UNCHANGED <<keys, signKeys, held, openedBy, buffers, holder, unfed, awaited>>
  BY DEF CloseChannel, runs, workVars, Ends
<1>4. outcome' = [outcome EXCEPT ![t] = @ \cup {IF closes THEN "success"
                                                         ELSE "rejected"}]
  BY DEF CloseChannel, Ends, Report
<1>5. PICK c, action :
         /\ c = op.channel /\ action.by = t
         /\ chans' = IF closes THEN [chans EXCEPT ![c] = tryClose(@, action)]
                               ELSE chans
  <2>1. chans' = IF closes THEN [chans EXCEPT ![op.channel] = tryClose(@, closure)]
                           ELSE chans
    BY DEF CloseChannel
  <2>2. closure.by = t
    OBVIOUS
  <2> QED
    BY <2>1, <2>2
<1> HIDE DEF closure, closes
<1>6. closes => signers[t]
  BY DEF closes
<1>7. Moved
  BY <1>2, <1>3 DEF Moved, Move
<1>8. StoreTypes'
  BY <1>1, <1>3, <1>4 DEF StoreTypes
<1>9. \A s \in Transactions : stage[s] = "buffered" => stage'[s] = "buffered"
  BY <1>2, <1>3
<1>10. CASE ~closes
  <2>1. chans' = chans
    BY <1>5, <1>10
  <2>2. ChannelTypes'
    BY <1>1, <1>3, <2>1 DEF ChannelTypes
  <2>3. \A d \in Channels : EffectInv(d)' /\ WaitingInv(d)'
    BY <1>3, <1>7, <1>9, <2>1, EffectFrame, WaitingFrame
  <2> QED
    BY <1>7, <1>8, <2>2, <2>3, MovedInv
<1>11. CASE closes
  <2>1. chans' = [chans EXCEPT ![c] = tryClose(@, action)]
    BY <1>5, <1>11
  <2>2. \A d \in Channels : d # c => chans'[d] = chans[d]
    BY <1>1, <2>1 DEF ChannelTypes
  <2>3. ASSUME c \in Channels
        PROVE  /\ chans'[c] = tryClose(chans[c], action)
               /\ IsRecord(chans'[c]) /\ chans'[c].state \in States
               /\ chans'[c].state = "buffered" => chans[c].state = "buffered"
               /\ chans'[c].messages \subseteq chans[c].messages
               /\ chans'[c].attempts \cup {chans'[c].closure}
                     \subseteq chans[c].attempts \cup {chans[c].closure, action}
    <3>1. chans'[c] = tryClose(chans[c], action)
      BY <1>1, <2>1, <2>3 DEF ChannelTypes
    <3>2. IsRecord(chans[c]) /\ chans[c].state \in States
      BY <1>1, <2>3 DEF ChannelTypes
    <3> QED
      BY <3>1, <3>2, RecordSteps
  <2>4. ChannelTypes'
    <3>1. chans' = [d \in Channels |-> chans'[d]]
      BY <1>1, <2>1 DEF ChannelTypes
    <3>2. \A d \in Channels : IsRecord(chans'[d]) /\ chans'[d].state \in States
      BY <1>1, <2>2, <2>3 DEF ChannelTypes
    <3> QED
      BY <1>1, <1>3, <3>1, <3>2 DEF ChannelTypes, IsRecord
  <2>5. ASSUME NEW d \in Channels PROVE EffectInv(d)' /\ WaitingInv(d)'
    <3>1. CASE d # c
      BY <1>3, <1>7, <1>9, <2>2, <3>1, EffectFrame, WaitingFrame
    <3>2. CASE d = c
      <4>1. Settled(t)'
        BY <1>2, <1>3, <1>6, <1>11 DEF Settled
      <4> QED
        BY <1>3, <1>5, <1>7, <1>9, <2>3, <3>2, <4>1, RecordChange
    <3> QED
      BY <3>1, <3>2
  <2> QED
    BY <1>7, <1>8, <2>4, <2>5, MovedInv
<1> QED
  BY <1>10, <1>11

\* A verified message is added, or dropped.
LEMMA AddMessageInv ==
  ASSUME DeliveryInv, NEW t \in Transactions, AddMessage(t)
  PROVE  DeliveryInv'
<1> DEFINE added == signers[t] /\ canAddMessage(chans[operation[t].channel], messageOf(t))
<1>1. TypeOK /\ Shape /\ StoreTypes /\ ChannelTypes
  BY Types DEF DeliveryInv
<1>2. stage \in [Transactions -> Stages]
  BY <1>1 DEF TypeOK
<1>3. /\ stage[t] = "executor" /\ stage' = [stage EXCEPT ![t] = "done"]
      /\ UNCHANGED <<operation, verified, plaintext, signers, answer>>
      /\ UNCHANGED <<keys, signKeys, held, openedBy, buffers, holder, unfed, awaited>>
  BY DEF AddMessage, runs, workVars, Ends
<1>4. PICK status \in {"rejected", "success", "failed"} :
         outcome' = [outcome EXCEPT ![t] = @ \cup {status}]
  <2>1. outcome' = [outcome EXCEPT ![t] = @ \cup
                      {CASE ~signers[t] -> "rejected"
                         [] added       -> "success"
                         [] OTHER       -> "failed"}]
    BY DEF AddMessage, Ends, Report
  <2> HIDE DEF added
  <2>2. (CASE ~signers[t] -> "rejected" [] added -> "success" [] OTHER -> "failed")
           \in {"rejected", "success", "failed"}
    OBVIOUS
  <2> QED
    BY <2>1, <2>2
<1>5. PICK c, message :
         /\ c = operation[t].channel /\ message.id = t
         /\ chans' = IF added THEN [chans EXCEPT ![c] = addMessage(@, message)]
                              ELSE chans
  <2>1. chans' = IF added
                   THEN [chans EXCEPT ![operation[t].channel] = addMessage(@, messageOf(t))]
                   ELSE chans
    BY DEF AddMessage
  <2>2. messageOf(t).id = t
    BY DEF messageOf
  <2> QED
    BY <2>1, <2>2
<1> HIDE DEF added
<1>6. added => signers[t]
  BY DEF added
<1>7. Moved
  BY <1>2, <1>3 DEF Moved, Move
<1>8. StoreTypes'
  BY <1>1, <1>3, <1>4 DEF StoreTypes
<1>9. \A s \in Transactions : stage[s] = "buffered" => stage'[s] = "buffered"
  BY <1>2, <1>3
<1>10. CASE ~added
  <2>1. chans' = chans
    BY <1>5, <1>10
  <2>2. ChannelTypes'
    BY <1>1, <1>3, <2>1 DEF ChannelTypes
  <2>3. \A d \in Channels : EffectInv(d)' /\ WaitingInv(d)'
    BY <1>3, <1>7, <1>9, <2>1, EffectFrame, WaitingFrame
  <2> QED
    BY <1>7, <1>8, <2>2, <2>3, MovedInv
<1>11. CASE added
  <2>1. chans' = [chans EXCEPT ![c] = addMessage(@, message)]
    BY <1>5, <1>11
  <2>2. \A d \in Channels : d # c => chans'[d] = chans[d]
    BY <1>1, <2>1 DEF ChannelTypes
  <2>3. ASSUME c \in Channels
        PROVE  /\ IsRecord(chans'[c]) /\ chans'[c].state = chans[c].state
               /\ chans'[c].messages = chans[c].messages \cup {message}
               /\ chans'[c].attempts = chans[c].attempts
               /\ chans'[c].closure = chans[c].closure
    <3>1. chans'[c] = addMessage(chans[c], message)
      BY <1>1, <2>1, <2>3 DEF ChannelTypes
    <3>2. IsRecord(chans[c]) /\ chans[c].state \in States
      BY <1>1, <2>3 DEF ChannelTypes
    <3> QED
      BY <3>1, <3>2, RecordSteps
  <2>4. ChannelTypes'
    <3>1. chans' = [d \in Channels |-> chans'[d]]
      BY <1>1, <2>1 DEF ChannelTypes
    <3>2. \A d \in Channels : IsRecord(chans'[d]) /\ chans'[d].state \in States
      BY <1>1, <2>2, <2>3 DEF ChannelTypes
    <3> QED
      BY <1>1, <1>3, <3>1, <3>2 DEF ChannelTypes, IsRecord
  <2>5. ASSUME NEW d \in Channels PROVE EffectInv(d)' /\ WaitingInv(d)'
    <3>1. CASE d # c
      BY <1>3, <1>7, <1>9, <2>2, <3>1, EffectFrame, WaitingFrame
    <3>2. CASE d = c
      <4>1. Settled(t)'
        BY <1>2, <1>3, <1>6, <1>11 DEF Settled
      <4> QED
        BY <1>3, <1>5, <1>7, <1>9, <2>3, <3>2, <4>1, RecordChange
    <3> QED
      BY <3>1, <3>2
  <2> QED
    BY <1>7, <1>8, <2>4, <2>5, MovedInv
<1> QED
  BY <1>10, <1>11

\* What cannot be decrypted waits at its channel, or goes back at once.
LEMMA BufferOperationInv ==
  ASSUME DeliveryInv, NEW t \in Transactions, BufferOperation(t)
  PROVE  DeliveryInv'
<1>1. TypeOK /\ Shape /\ StoreTypes /\ ChannelTypes
  BY Types DEF DeliveryInv
<1>2. stage \in [Transactions -> Stages]
  BY <1>1 DEF TypeOK
<1>3. PICK c : c = operation[t].channel
  OBVIOUS
<1>4. /\ stage[t] = "executor" /\ plaintext[t] = Failed
      /\ UNCHANGED <<operation, plaintext, signers, answer>>
      /\ UNCHANGED <<keys, signKeys, held, chans, openedBy, unfed>>
  BY DEF BufferOperation
<1>5. CASE racesWithOpen(c)
  <2>1. /\ awaited' = [awaited EXCEPT ![c] = t]
        /\ verified' = [verified EXCEPT ![t] = TRUE]
        /\ holder' = [holder EXCEPT ![c] = t]
        /\ stage' = [stage EXCEPT ![t] = "operation"]
        /\ UNCHANGED <<buffers, outcome>>
    BY <1>3, <1>5 DEF BufferOperation, handBack
  <2>2. Moved
    BY <1>2, <1>4, <2>1 DEF Moved, Move
  <2>3. StoreTypes'
    BY <1>1, <1>4, <2>1 DEF StoreTypes
  <2>4. ChannelTypes'
    BY <1>1, <1>4, <2>1 DEF ChannelTypes, IsRecord
  <2>5. \A s \in Transactions : stage[s] = "buffered" => stage'[s] = "buffered"
    BY <1>2, <1>4, <2>1
  <2>6. \A d \in Channels : EffectInv(d)' /\ WaitingInv(d)'
    BY <1>4, <2>1, <2>2, <2>5, EffectFrame, WaitingFrame
  <2> QED
    BY <2>2, <2>3, <2>4, <2>6, MovedInv
<1>6. CASE ~racesWithOpen(c)
  <2>1. /\ buffers' = [buffers EXCEPT ![c] = Append(@, t)]
        /\ stage' = [stage EXCEPT ![t] = "buffered"]
        /\ outcome' = [outcome EXCEPT ![t] = @ \cup {"success"}]
        /\ UNCHANGED <<holder, awaited, verified>>
    BY <1>3, <1>6 DEF BufferOperation, Report
  <2>2. Moved
    BY <1>2, <1>4, <2>1 DEF Moved, Move
  <2>3. StoreTypes'
    BY <1>1, <1>4, <2>1 DEF StoreTypes
  <2>4. \A d \in Channels : /\ buffers[d] \in Seq(Transactions)
                            /\ d # c => buffers'[d] = buffers[d]
                            /\ d = c => buffers'[d] = Append(buffers[d], t)
    BY <1>1, <2>1 DEF ChannelTypes
  <2>5. ChannelTypes'
    <3>1. buffers' = [d \in Channels |-> buffers'[d]]
      BY <1>1, <2>1 DEF ChannelTypes
    <3>2. \A d \in Channels : buffers'[d] \in Seq(Transactions)
      BY <2>4
    <3> QED
      BY <1>1, <1>4, <2>1, <3>1, <3>2 DEF ChannelTypes, IsRecord
  <2>6. \A s \in Transactions : stage[s] = "buffered" => stage'[s] = "buffered"
    BY <1>2, <1>4, <2>1
  <2>7. ASSUME NEW d \in Channels PROVE EffectInv(d)' /\ WaitingInv(d)'
    <3>1. EffectInv(d)'
      BY <1>4, <2>2, EffectFrame
    <3>2. CASE d # c
      BY <1>4, <2>2, <2>4, <2>6, <3>1, <3>2, WaitingFrame
    <3>3. CASE d = c
      <4>1. WaitingInv(d)
        BY DEF DeliveryInv
      <4>2. /\ unfed[d] = << >> /\ Waiting(d, buffers[d])
        BY <1>6, <3>3, <4>1 DEF racesWithOpen, WaitingInv
      <4> DEFINE queue == buffers[d]
                 longer == Append(buffers[d], t)
      <4>3. /\ queue \in Seq(Transactions)
            /\ longer \in Seq(Transactions)
            /\ Len(longer) = Len(queue) + 1
            /\ DOMAIN longer = 1..Len(queue) + 1
            /\ DOMAIN queue = 1..Len(queue)
            /\ Len(queue) \in Nat
            /\ \A i \in 1..Len(queue) : longer[i] = queue[i] /\ queue[i] \in Transactions
            /\ longer[Len(queue) + 1] = t
        BY <2>4, AppendProperties, ElementOfSeq, LenProperties
      <4>4. buffers'[d] = longer /\ unfed'[d] = << >>
        BY <1>4, <2>4, <3>3, <4>2
      <4> HIDE DEF queue, longer
      <4>5. /\ \A i \in 1..Len(queue) :
                  stage[queue[i]] = "buffered" /\ operation[queue[i]].channel = d
            /\ \A i, j \in 1..Len(queue) : queue[i] = queue[j] => i = j
        BY <4>2, <4>3 DEF Waiting, queue
      <4>6. \A i \in 1..Len(queue) : queue[i] # t
        BY <1>4, <4>5
      <4>7. ASSUME NEW i \in DOMAIN longer
            PROVE  stage'[longer[i]] = "buffered" /\ operation'[longer[i]].channel = d
        <5>1. CASE i = Len(queue) + 1
          BY <1>2, <1>3, <1>4, <2>1, <3>3, <4>3, <5>1
        <5>2. CASE i \in 1..Len(queue)
          BY <1>4, <2>6, <4>3, <4>5, <5>2
        <5> QED
          BY <4>3, <5>1, <5>2
      <4>8. ASSUME NEW i \in DOMAIN longer, NEW j \in DOMAIN longer,
                   longer[i] = longer[j]
            PROVE  i = j
        BY <4>3, <4>5, <4>6, <4>8
      <4>9. Waiting(d, buffers[d])'
        BY <4>4, <4>7, <4>8 DEF Waiting
      <4>10. Waiting(d, unfed[d])'
        BY <4>4 DEF Waiting
      <4>11. WaitingInv(d)'
        BY <4>4, <4>9, <4>10 DEF WaitingInv
      <4> QED
        BY <3>1, <4>11
    <3> QED
      BY <3>2, <3>3
  <2> QED
    BY <2>2, <2>3, <2>5, <2>7, MovedInv
<1> QED
  BY <1>3, <1>5, <1>6

\* The next of those that wait is handed back, and is in no queue any more.
LEMMA FeedInv ==
  ASSUME DeliveryInv, NEW c \in Channels, Feed(c)
  PROVE  DeliveryInv'
<1> DEFINE queue == unfed[c]
           t == Head(queue)
<1>1. TypeOK /\ Shape /\ StoreTypes /\ ChannelTypes
  BY Types DEF DeliveryInv
<1>2. stage \in [Transactions -> Stages]
  BY <1>1 DEF TypeOK
<1>3. /\ queue # << >>
      /\ awaited' = [awaited EXCEPT ![c] = t]
      /\ verified' = [verified EXCEPT ![t] = TRUE]
      /\ unfed' = [unfed EXCEPT ![c] = Tail(@)]
      /\ stage' = [stage EXCEPT ![t] = "operation"]
      /\ UNCHANGED <<operation, plaintext, signers, answer, outcome, keys, signKeys,
                     held, chans, openedBy, buffers, holder>>
  BY DEF Feed, handBack
<1>4. WaitingInv(c)
  BY DEF DeliveryInv
<1>5. PICK waiting, next, first :
         /\ waiting = queue /\ next = Tail(queue) /\ first = t
  OBVIOUS
<1>6. /\ waiting \in Seq(Transactions) /\ waiting # << >>
      /\ Waiting(c, waiting)
  BY <1>1, <1>3, <1>4, <1>5 DEF ChannelTypes, WaitingInv
<1>7. /\ first \in Transactions /\ first = waiting[1]
      /\ next \in Seq(Transactions)
      /\ Len(waiting) \in Nat \ {0}
      /\ DOMAIN waiting = 1..Len(waiting)
      /\ DOMAIN next = 1..Len(waiting) - 1
      /\ \A i \in 1..Len(waiting) - 1 : next[i] = waiting[i + 1]
      /\ \A i \in 1..Len(waiting) : waiting[i] \in Transactions
  BY <1>5, <1>6, HeadTailProperties, ElementOfSeq, EmptySeq, LenProperties
<1>8. /\ \A i \in 1..Len(waiting) :
            stage[waiting[i]] = "buffered" /\ operation[waiting[i]].channel = c
      /\ \A i, j \in 1..Len(waiting) : waiting[i] = waiting[j] => i = j
  BY <1>6, <1>7 DEF Waiting
<1>9. /\ stage[first] = "buffered" /\ operation[first].channel = c
      /\ \A i \in DOMAIN next : next[i] # first
  BY <1>7, <1>8
<1>10. /\ stage' = [stage EXCEPT ![first] = "operation"]
       /\ unfed'[c] = next
       /\ awaited' = [awaited EXCEPT ![c] = first]
       /\ verified' = [verified EXCEPT ![first] = TRUE]
       /\ unfed' = [unfed EXCEPT ![c] = next]
  BY <1>1, <1>3, <1>5 DEF ChannelTypes
<1> HIDE DEF queue, t
<1>11. Moved
  BY <1>2, <1>3, <1>9, <1>10 DEF Moved, Move
<1>12. StoreTypes'
  BY <1>1, <1>3, <1>10 DEF StoreTypes
<1>13. ChannelTypes'
  BY <1>1, <1>3, <1>7, <1>10 DEF ChannelTypes, IsRecord
<1>14. ASSUME NEW d \in Channels PROVE EffectInv(d)' /\ WaitingInv(d)'
  <2>1. EffectInv(d)'
    BY <1>3, <1>11, EffectFrame
  <2>2. CASE d # c
    <3>1. ASSUME NEW s \in Transactions, stage[s] = "buffered",
                 operation[s].channel = d
          PROVE  stage'[s] = "buffered"
      BY <1>2, <1>9, <1>10, <2>2, <3>1
    <3>2. unfed'[d] = unfed[d]
      BY <1>1, <1>10, <2>2 DEF ChannelTypes
    <3> QED
      BY <1>3, <1>11, <2>1, <3>1, <3>2, WaitingFrame
  <2>3. CASE d = c
    <3>1. chans'[d].state # "buffered"
      BY <1>3, <1>4, <1>5, <1>6, <2>3 DEF WaitingInv, queue
    <3>2. ASSUME NEW i \in DOMAIN next
          PROVE  stage'[next[i]] = "buffered" /\ operation'[next[i]].channel = d
      <4>1. /\ next[i] = waiting[i + 1] /\ i + 1 \in 1..Len(waiting)
            /\ next[i] # first
        BY <1>7, <1>9
      <4> QED
        BY <1>2, <1>3, <1>7, <1>8, <1>10, <2>3, <4>1
    <3>3. ASSUME NEW i \in DOMAIN next, NEW j \in DOMAIN next, next[i] = next[j]
          PROVE  i = j
      <4>1. /\ next[i] = waiting[i + 1] /\ i + 1 \in 1..Len(waiting)
            /\ next[j] = waiting[j + 1] /\ j + 1 \in 1..Len(waiting)
            /\ i \in Int /\ j \in Int
        BY <1>7
      <4>2. i + 1 = j + 1
        BY <1>8, <3>3, <4>1
      <4> QED
        BY <4>1, <4>2
    <3>4. Waiting(d, unfed[d])'
      BY <1>10, <2>3, <3>2, <3>3 DEF Waiting
    <3> QED
      BY <2>1, <3>1, <3>4 DEF WaitingInv
  <2> QED
    BY <2>2, <2>3
<1> QED
  BY <1>11, <1>12, <1>13, <1>14, MovedInv

\* When all was handed back, one of the attempted closures takes effect.
LEMMA FinishOpenInv ==
  ASSUME DeliveryInv, NEW c \in Channels, FinishOpen(c)
  PROVE  DeliveryInv'
<1>1. TypeOK /\ Shape /\ StoreTypes /\ ChannelTypes
  BY Types DEF DeliveryInv
<1>2. stage \in [Transactions -> Stages]
  BY <1>1 DEF TypeOK
<1>3. PICK t : t = holder[c]
  OBVIOUS
<1>4. /\ t # Nobody /\ stage[t] = "feeding" /\ unfed[c] = << >>
      /\ stage' = [stage EXCEPT ![t] = "done"]
      /\ outcome' = [outcome EXCEPT ![t] = @ \cup {"success"}]
      /\ buffers' = [buffers EXCEPT ![c] = << >>]
      /\ holder' = [holder EXCEPT ![c] = Nobody]
      /\ UNCHANGED <<operation, verified, plaintext, signers, answer, keys, signKeys,
                     held, openedBy, unfed, awaited>>
  BY <1>3 DEF FinishOpen, Ends, Report, workVars
<1>5. PICK rec \in applyCloseAttempts(chans[c]) : chans' = [chans EXCEPT ![c] = rec]
  BY DEF FinishOpen
<1>6. IsRecord(chans[c]) /\ chans[c].state \in States
  BY <1>1 DEF ChannelTypes
<1>7. /\ IsRecord(rec) /\ rec.state \in States
      /\ rec.messages \subseteq chans[c].messages
      /\ rec.attempts \cup {rec.closure} \subseteq chans[c].attempts \cup {chans[c].closure}
  BY <1>6, AttemptSteps
<1>8. /\ \A d \in Channels \ {c} : chans'[d] = chans[d] /\ buffers'[d] = buffers[d]
      /\ chans'[c] = rec /\ buffers'[c] = << >>
  BY <1>1, <1>4, <1>5 DEF ChannelTypes
<1>9. t \in Transactions
  BY <1>1, <1>3, <1>4 DEF ChannelTypes
<1>10. Moved
  BY <1>2, <1>4, <1>9 DEF Moved, Move
<1>11. StoreTypes'
  BY <1>1, <1>4 DEF StoreTypes
<1>12. ChannelTypes'
  <2>1. /\ chans' = [d \in Channels |-> chans'[d]]
        /\ buffers' = [d \in Channels |-> buffers'[d]]
    BY <1>1, <1>4, <1>5 DEF ChannelTypes
  <2>2. ASSUME NEW d \in Channels
        PROVE  /\ IsRecord(chans'[d]) /\ chans'[d].state \in States
               /\ buffers'[d] \in Seq(Transactions)
    <3>1. CASE d = c
      <4>1. chans'[d] = rec /\ buffers'[d] = << >>
        BY <1>8, <3>1
      <4> QED
        BY <1>7, <4>1 DEF IsRecord
    <3>2. CASE d # c
      BY <1>1, <1>8, <3>2 DEF ChannelTypes
    <3> QED
      BY <3>1, <3>2
  <2> QED
    BY <1>1, <1>4, <2>1, <2>2 DEF ChannelTypes, IsRecord
<1>13. \A s \in Transactions : stage[s] = "buffered" => stage'[s] = "buffered"
  BY <1>2, <1>4
<1>14. ASSUME NEW d \in Channels PROVE EffectInv(d)' /\ WaitingInv(d)'
  <2>1. CASE d # c
    BY <1>4, <1>8, <1>10, <1>13, <2>1, EffectFrame, WaitingFrame
  <2>2. CASE d = c
    <3>1. EffectInv(d)
      BY DEF DeliveryInv
    <3>2. \A x : Settled(x) => Settled(x)'
      BY <1>10, MovedKeeps
    <3>3. EffectInv(d)'
      BY <1>4, <1>7, <1>8, <2>2, <3>1, <3>2 DEF EffectInv
    <3>4. Waiting(d, buffers[d])' /\ Waiting(d, unfed[d])' /\ unfed'[d] = << >>
      BY <1>4, <1>8, <2>2 DEF Waiting
    <3> QED
      BY <3>3, <3>4 DEF WaitingInv
  <2> QED
    BY <2>1, <2>2
<1> QED
  BY <1>10, <1>11, <1>12, <1>14, MovedInv

\* The handler of an operation that was handed back on its own returns.
LEMMA FinishBufferInv ==
  ASSUME DeliveryInv, NEW c \in Channels, FinishBuffer(c)
  PROVE  DeliveryInv'
<1>1. TypeOK /\ Shape /\ StoreTypes /\ ChannelTypes
  BY Types DEF DeliveryInv
<1>2. stage \in [Transactions -> Stages]
  BY <1>1 DEF TypeOK
<1>3. /\ outcome' = [outcome EXCEPT ![holder[c]] = @ \cup {"success"}]
      /\ holder' = [holder EXCEPT ![c] = Nobody]
      /\ UNCHANGED <<stage, operation, verified, plaintext, signers, answer, awaited>>
      /\ UNCHANGED <<keys, signKeys, held, chans, openedBy, buffers, unfed>>
  BY DEF FinishBuffer, Report, workVars
<1>4. Moved
  BY <1>2, <1>3 DEF Moved, Move
<1>5. StoreTypes'
  BY <1>1, <1>3 DEF StoreTypes
<1>6. ChannelTypes'
  BY <1>1, <1>3 DEF ChannelTypes, IsRecord
<1>7. \A d \in Channels : EffectInv(d)' /\ WaitingInv(d)'
  BY <1>3, <1>4, EffectFrame, WaitingFrame
<1> QED
  BY <1>4, <1>5, <1>6, <1>7, MovedInv

-----------------------------------------------------------------------------
(***************************************************************************)
(* The theorems.                                                           *)
(***************************************************************************)
LEMMA InitDelivery == Init => DeliveryInv
<1> SUFFICES ASSUME Init PROVE DeliveryInv
  OBVIOUS
<1>1. TypeOK
  BY DEF Init, TypeOK, Stages, Answers, States, emptyChannelRecord
<1>2. IsRecord(emptyChannelRecord)
  BY DEF IsRecord, emptyChannelRecord, RecordFields
<1>3. Shape
  BY <1>2 DEF Init, Shape
<1>4. \A t \in Transactions : VerifiedInv(t) /\ RefusalInv(t)
  BY DEF Init, VerifiedInv, RefusalInv
<1>5. ASSUME NEW c \in Channels PROVE EffectInv(c) /\ WaitingInv(c)
  <2>1. /\ chans[c] = emptyChannelRecord /\ openedBy[c] = Nobody
        /\ buffers[c] = << >> /\ unfed[c] = << >>
    BY DEF Init
  <2>2. EffectInv(c)
    BY <2>1 DEF EffectInv, emptyChannelRecord
  <2>3. WaitingInv(c)
    BY <2>1 DEF WaitingInv, Waiting
  <2> QED
    BY <2>2, <2>3
<1> QED
  BY <1>1, <1>3, <1>4, <1>5 DEF DeliveryInv

\* Every step keeps the invariant.
LEMMA NextDelivery == DeliveryInv /\ [Next]_vars => DeliveryInv'
<1> SUFFICES ASSUME DeliveryInv, [Next]_vars PROVE DeliveryInv'
  OBVIOUS
<1>1. ASSUME NEW t \in Transactions, Decrypt(t) PROVE DeliveryInv'
  BY <1>1, DecryptStep, WorkedInv
<1>2. ASSUME NEW t \in Transactions, VerifyPayload(t) PROVE DeliveryInv'
  BY <1>2, VerifyPayloadStep, WorkedInv
<1>3. ASSUME NEW t \in Transactions, Execute(t) PROVE DeliveryInv'
  BY <1>3, UsersRequestInv, AddKeyInv, OpenChannelInv, CloseChannelInv,
     AddMessageInv, BufferOperationInv DEF Execute
<1>4. ASSUME NEW c \in Channels, Feed(c) \/ FinishOpen(c) \/ FinishBuffer(c)
      PROVE  DeliveryInv'
  BY <1>4, FeedInv, FinishOpenInv, FinishBufferInv
<1>5. ASSUME UNCHANGED vars PROVE DeliveryInv'
  <2>1. /\ UNCHANGED <<stage, operation, verified, plaintext, signers, answer, awaited>>
        /\ UNCHANGED <<keys, signKeys, held, chans, openedBy, buffers, holder, unfed,
                       outcome>>
    BY <1>5 DEF vars, workVars, execVars
  <2>2. TypeOK /\ Shape /\ StoreTypes /\ ChannelTypes
    BY Types DEF DeliveryInv
  <2>3. Moved
    BY <2>1, <2>2 DEF Moved, Move, TypeOK
  <2>4. StoreTypes' /\ ChannelTypes'
    BY <2>1, <2>2 DEF StoreTypes, ChannelTypes, IsRecord
  <2>5. \A c \in Channels : EffectInv(c)' /\ WaitingInv(c)'
    BY <2>1, <2>3, EffectFrame, WaitingFrame
  <2> QED
    BY <2>3, <2>4, <2>5, MovedInv
<1> QED
  BY <1>1, <1>2, <1>3, <1>4, <1>5 DEF Next

LEMMA DeliveryInvariant == Spec => []DeliveryInv
  BY InitDelivery, NextDelivery, PTL DEF Spec

\* Every variable of the decryptor, the keys and the channels has its type.
THEOREM DeliveryTypeCorrect == Spec => []TypeOK
<1>1. DeliveryInv => TypeOK
  BY DEF DeliveryInv
<1> QED
  BY <1>1, DeliveryInvariant, PTL

\* Whatever took effect in a channel was signed by both its signers
\* (decryptor/daemon.go:221), also where it came unverified first.
THEOREM OnlyTheSignedTakesEffect == Spec => []Authentic
<1>1. ASSUME DeliveryInv PROVE Authentic
  <2>1. ASSUME NEW t, Settled(t) PROVE Signed(t)
    BY <1>1, <2>1 DEF DeliveryInv, Settled, VerifiedInv, SignedByKnown
  <2>2. \A c \in Channels : EffectInv(c)
    BY <1>1 DEF DeliveryInv
  <2> QED
    BY <2>1, <2>2 DEF Authentic, EffectInv
<1> QED
  BY <1>1, DeliveryInvariant, PTL

\* A transaction is refused if and only if it was not encrypted for us, or
\* was damaged (core/crypto.go:270).
THEOREM ReadExactlyIfMeant == Spec => []ReadIfMeant
<1>1. DeliveryInv => ReadIfMeant
  BY DEF DeliveryInv, RefusalInv, ReadIfMeant
<1> QED
  BY <1>1, DeliveryInvariant, PTL
=============================================================================
