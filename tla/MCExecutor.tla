----------------------------- MODULE MCExecutor -----------------------------
(***************************************************************************)
(* Small instances of the executor.  User 0 is the root, user 1 may add    *)
(* channels until revoke takes that from it, user 2 writes.                *)
(***************************************************************************)
EXTENDS Executor

CONSTANTS open, again, close, buffer, message, enc, read, sub, tx, revoke,
          channel, k1, k2, key

MCChannels == {channel}

MCIds == 0..2

MCKeyValues == {key}

Granted(i) ==
    CASE i = 0 -> Attributes
      [] i = 1 -> {"active", "permissions.channel.add", "permissions.user.read"}
      [] i = 2 -> {"active"}

Values(granted) ==
    [a \in Attributes |-> IF a \in Keys THEN key ELSE a \in granted]

MCInitialStore ==
    [i \in MCIds |->
        [attributes |-> [a \in Attributes |->
                            [value |-> Values(Granted(i))[a], at |-> 1]],
         updatedAt |-> [p \in Parts |-> 1]]]

Base(type, certifier) ==
    [type |-> type, channel |-> channel,
     issuer |-> certifier, certifier |-> certifier,
     wellFormed |-> TRUE, keyId |-> Nobody, signers |-> {}, recipients |-> {},
     failed |-> FALSE, verifies |-> TRUE,
     opening |-> [timestamp |-> 2,
                  permissions |-> [u \in 1..2 |-> IF u = 1 THEN Rights
                                                           ELSE {"write"}]],
     closure |-> [issuer |-> certifier, certifier |-> certifier,
                  timestamp |-> 4],
     message |-> [issuer |-> certifier, certifier |-> certifier,
                  timestamp |-> 3],
     request |->
        [type |-> "update", skipPermissions |-> FALSE, issuer |-> 0,
         certifier |-> 0, subject |-> 1, subjects |-> {},
         fields |-> {"permissions.channel.add"}, data |-> Values({}),
         timestamp |-> 5, readLock |-> TRUE, readUnlock |-> TRUE]]

MCCall ==
    [h \in Handlers |->
        CASE h = open    -> [Base("AddChannel", 1) EXCEPT !.keyId = k1]
          [] h = again   -> [Base("AddChannel", 0) EXCEPT
                               !.keyId = k2, !.opening.timestamp = 3]
          [] h = close   -> Base("CloseChannel", 1)
          [] h = buffer  -> [Base("AddMessage", Nobody) EXCEPT
                               !.failed = TRUE, !.signers = {1, 2}]
          [] h = message -> Base("AddMessage", 2)
          [] h = enc     -> Base("ChannelEncrypt", 2)
          [] h = read    -> Base("ReadChannel", 0)
          [] h = sub     -> Base("SubscribeChannel", 2)
          [] h = tx      -> [Base("TransactionEncrypt", 0) EXCEPT
                               !.issuer = 2, !.recipients = {1}]
          [] h = revoke  -> Base("UsersRequest", 0)]

\* A buffered message comes back as another request.
MCRefed == [m \in {buffer} \cap Handlers |-> message]
=============================================================================
