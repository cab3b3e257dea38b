----------------------------- MODULE MCDelivery -----------------------------
(***************************************************************************)
(* A small instance of the delivery.  User 1 opens and closes the channel, *)
(* user 2 writes; user 2 changes its signing key.                          *)
(***************************************************************************)
EXTENDS Delivery

CONSTANTS open, refused, message, signedAnew, unverified, rotate,
          close, stray, channel, own, other, id, key, temporary, nonce,
          key1, key2, newKey2

MCChannels == {channel}

MCVerified == Transactions \ {unverified, rotate}

MCSignKeys == 1 :> [key |-> key1, at |-> 1] @@ 2 :> [key |-> key2, at |-> 1]

Opening(permissions) ==
    [keyId |-> id, key |-> key, timestamp |-> 1, permissions |-> permissions]

MCContent ==
    [open    |-> Opening([u \in 1..2 |-> IF u = 1 THEN Rights ELSE {"write"}]),
     refused |-> Opening(NoPermissions),
     rotate  |-> [create |-> FALSE, user |-> 2, key |-> newKey2,
                  timestamp |-> 2],
     close   |-> [timestamp |-> 4]]

Signer(op, signer, signKey) ==
    CertifierSign(IssuerSign(op, signKey, signer), signKey, signer)

Channelled(op) == EncryptOperation(op, id, key, nonce)

Text(text) == GenerateOperation("AddMessage", channel, 3, text)

Encrypted(op, recipients) ==
    EncryptTransaction(GenerateTransaction(op), recipients, temporary, nonce)

\* A second challenge for us that cannot be met.
WithBadChallenge(ts) ==
    [ts EXCEPT !.challenges = @ \cup {[recipient |-> own, key |-> key,
                                       challenge |-> Damaged]}]

MCSent ==
    [t \in Transactions |->
        CASE t = open ->
                Encrypted(Signer(GenerateOperation("AddChannel", channel, 1, "open"),
                                 1, key1), {own, other})
          [] t = refused ->
                GenerateTransaction(
                   Signer(GenerateOperation("AddChannel", channel, 1, "refused"),
                          1, key1))
          [] t = message ->
                WithBadChallenge(
                   Encrypted(Channelled(Signer(Text("text"), 1, key1)), {own}))
          [] t = signedAnew ->
                GenerateTransaction(
                   Channelled(CertifierSign(IssuerSign(Text("anew"), key1, 1),
                                            newKey2, 2)))
          [] t = unverified ->
                GenerateTransaction(Channelled(Signer(Text("plain"), 1, key1)))
          [] t = rotate ->
                GenerateTransaction(
                   GenerateOperation("UsersRequest", channel, 2, "rotate"))
          [] t = close ->
                GenerateTransaction(
                   Signer(GenerateOperation("CloseChannel", channel, 4, "close"),
                          1, key1))
          [] t = stray -> Encrypted(Text("stray"), {other})]
=============================================================================
