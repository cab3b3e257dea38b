----------------------------- MODULE Operations -----------------------------
(***************************************************************************)
(* Transactions and operations, and what is done to them with keys         *)
(* (src/core).  An operation carries a payload, which its issuer and its   *)
(* certifier sign before it is encrypted with the key of a channel; a      *)
(* transaction carries an operation, which may be encrypted for several    *)
(* recipients.                                                             *)
(*                                                                         *)
(* Data.  A key pair is one value; a ciphertext is the record of what was  *)
(* sealed with which key and nonce, and opens with these alone.  Failed is *)
(* the error of the Go functions, and whatever cannot be decoded: a nonce  *)
(* of the wrong length, text that is not base64.                           *)
(***************************************************************************)
CONSTANTS Failed, Nobody

Seal(key, nonce, plain) == [key |-> key, nonce |-> nonce, plain |-> plain]

Unseal(key, nonce, sealed) ==
    IF sealed.key = key /\ sealed.nonce = nonce THEN sealed.plain ELSE Failed

\* A ciphertext damaged on its way.
Damaged == Seal(Failed, Failed, Failed)

-----------------------------------------------------------------------------
(***************************************************************************)
(* Operations.                                                             *)
(***************************************************************************)
NoSignature == [key |-> Nobody, of |-> Failed]

GenerateOperation(type, channel, timestamp, payload) ==
    [type |-> type, channel |-> channel, timestamp |-> timestamp,
     buffered |-> FALSE, payload |-> payload,
     encrypted |-> FALSE, keyId |-> Nobody, nonce |-> Failed,
     issuer |-> Nobody, issuerSignature |-> NoSignature,
     certifier |-> Nobody, certifierSignature |-> NoSignature]

OperationFields ==
    {"type", "channel", "timestamp", "buffered", "payload", "encrypted", "keyId",
     "nonce", "issuer", "issuerSignature", "certifier", "certifierSignature"}

\* What decoding an operation gives, if it gives anything.
IsOperation(op) == op = [field \in OperationFields |-> op[field]]

\* Once it is encrypted an operation cannot be signed any more.
canSign(op, key) == ~op.encrypted /\ key # Nobody

Sign(op, key) == [key |-> key, of |-> op.payload]

IssuerSign(op, key, signer) ==
    IF canSign(op, key)
      THEN [op EXCEPT !.issuer = signer, !.issuerSignature = Sign(op, key)]
      ELSE op

CertifierSign(op, key, signer) ==
    IF canSign(op, key)
      THEN [op EXCEPT !.certifier = signer,
                      !.certifierSignature = Sign(op, key)]
      ELSE op

EncryptOperation(op, keyId, key, nonce) ==
    [op EXCEPT !.encrypted = TRUE, !.keyId = keyId, !.nonce = nonce,
               !.payload = Seal(key, nonce, op.payload)]

\* The plaintext, with the keys a store holds.
DecryptOperation(op, keys) ==
    CASE ~op.encrypted -> op.payload
      [] op.encrypted /\ (op.nonce = Failed \/ op.payload = Failed) -> Failed
      [] OTHER -> IF op.keyId \in DOMAIN keys
                    THEN Unseal(keys[op.keyId], op.nonce, op.payload)
                    ELSE Failed

\* Mutant: the signature of the certifier is not looked at.
VerifyIssuer(op, issuerKey, certifierKey, payload) ==
    op.issuerSignature = [key |-> issuerKey, of |-> payload]

Verify(op, issuerKey, certifierKey, payload) ==
    /\ op.issuerSignature = [key |-> issuerKey, of |-> payload]
    /\ op.certifierSignature = [key |-> certifierKey, of |-> payload]

\* Mutant: a message is kept however often it failed.
ShouldDropUnlessMessage(op) == op.type # "AddMessage"

\* Whether an operation that cannot be decrypted or verified is dropped.
ShouldDrop(op) == ~(op.type = "AddMessage" /\ ~op.buffered)

-----------------------------------------------------------------------------
(***************************************************************************)
(* Transactions.                                                           *)
(***************************************************************************)
CorrectChallenge == "the challenge"

GenerateTransaction(op) ==
    [encrypted |-> FALSE, nonce |-> Failed, challenges |-> {}, payload |-> op]

\* The key the payload is encrypted with, for one recipient, and a challenge
\* by which the recipient knows it.
Challenge(recipient, key, nonce) ==
    [recipient |-> recipient, key |-> key,
     challenge |-> Seal(key, nonce, CorrectChallenge)]

EncryptTransaction(ts, recipients, key, nonce) ==
    IF ts.encrypted \/ recipients = {} \/ Nobody \in recipients
      THEN Failed
      ELSE [encrypted |-> TRUE, nonce |-> nonce,
            challenges |-> {Challenge(r, key, nonce) : r \in recipients},
            payload |-> Seal(key, nonce, ts.payload)]

\* Mutant: any key for this recipient will do.
passesAny(c, globalKey, nonce) == c.recipient = globalKey

passes(c, globalKey, nonce) ==
    /\ c.recipient = globalKey
    /\ Unseal(c.key, nonce, c.challenge) = CorrectChallenge

\* What may come out: any of the keys that pass the challenge may be the
\* first one that is tried.
DecryptTransaction(ts, globalKey) ==
    LET passing == {c \in ts.challenges : passes(c, globalKey, ts.nonce)}
    IN  IF ~ts.encrypted THEN {ts.payload}
        ELSE IF ts.nonce = Failed \/ ts.payload = Failed \/ passing = {}
          THEN {Failed}
          ELSE {Unseal(c.key, ts.nonce, ts.payload) : c \in passing}
=============================================================================
