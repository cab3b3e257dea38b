------------------------------ MODULE MCUsers ------------------------------
(***************************************************************************)
(* Small instances of the users server.  User 1 is the root and may do     *)
(* everything, so may users 2 and 3 at first; user 4 is created.           *)
(***************************************************************************)
EXTENDS Users

CONSTANTS revoke, late, early, read, unlock, add, cross, key

MCIds == 1..4

MCKeyValues == {key}

\* The values of the attributes: the permissions given and the keys.
Values(granted) ==
    [a \in Attributes |-> IF a \in Keys THEN key ELSE a \in granted]

Full == [attributes |-> [a \in Attributes |->
                            [value |-> Values(Attributes)[a], at |-> 1]],
         updatedAt |-> [p \in Parts |-> 1]]

MCInitialStore == [i \in 1..3 |-> Full]

Base == [type |-> "read", skipPermissions |-> FALSE, issuer |-> 1,
         certifier |-> 1, subject |-> 0, subjects |-> {}, fields |-> {},
         data |-> Values({}), timestamp |-> 0, readLock |-> TRUE,
         readUnlock |-> TRUE]

Update(certifier, subject, fields, granted, timestamp) ==
    [Base EXCEPT !.type = "update", !.certifier = certifier,
                 !.issuer = certifier, !.subject = subject, !.fields = fields,
                 !.data = Values(granted), !.timestamp = timestamp]

Read(certifier, subjects, lock, release) ==
    [Base EXCEPT !.certifier = certifier, !.subjects = subjects,
                 !.readLock = lock, !.readUnlock = release]

\* revoke takes permissions from 2, who certifies late, read and unlock;
\* early and late write the same attribute of 3; cross is what late is with
\* the users exchanged; read reads 2 and 3 and leaves 3 locked for unlock to
\* release.
MCRequest ==
    [r \in Requests |->
        CASE r = revoke ->
                Update(1, 2, {"permissions.user.permissionsUpdate",
                              "permissions.user.read"}, {}, 5)
          [] r = late ->
                [Update(2, 3, {"permissions.channel.add"}, {}, 4)
                     EXCEPT !.issuer = 3]
          [] r = early ->
                Update(1, 3, {"permissions.channel.add", "active"},
                       {"permissions.channel.add"}, 3)
          [] r = read   -> Read(2, {2, 3}, TRUE, FALSE)
          [] r = unlock -> Read(2, {2, 3}, FALSE, TRUE)
          [] r = add ->
                [Base EXCEPT !.type = "create", !.subject = 4,
                             !.data = Values({"active"}), !.timestamp = 2]
          [] r = cross ->
                Update(3, 2, {"permissions.channel.add"}, {}, 4)]

\* The unlocking request follows the read.
MCAfter == [r \in Requests |-> IF r = unlock THEN read ELSE Nobody]

\* What the proofs ask of the requests.
ASSUME ReleasesPaired
=============================================================================
