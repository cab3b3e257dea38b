----------------------------- MODULE UserRecord -----------------------------
(***************************************************************************)
(* The record of one user (src/users/record.go).  Each attribute carries   *)
(* the time of the update it has from, and an update changes it only if it *)
(* is later; the groups of attributes carry a time of their own.  Times    *)
(* are naturals, 0 is Go's zero time.  A key is whatever stands for it in  *)
(* the request.                                                            *)
(***************************************************************************)
EXTENDS Naturals

Keys == {"encKey", "signKey"}

ChannelPermissions == {"permissions.channel.add", "permissions.channel.read"}

UserPermissions ==
    {"permissions.user.add", "permissions.user.read", "permissions.user.remove",
     "permissions.user.encKeyUpdate", "permissions.user.signKeyUpdate",
     "permissions.user.permissionsUpdate"}

Attributes == {"active"} \cup Keys \cup ChannelPermissions \cup UserPermissions

\* The parts of the record that have an UpdatedAt of their own.
Parts == {"user", "permissions", "permissions.channel", "permissions.user"}

PartsOf(attribute) ==
    CASE attribute \in ChannelPermissions ->
            {"user", "permissions", "permissions.channel"}
      [] attribute \in UserPermissions ->
            {"user", "permissions", "permissions.user"}
      [] OTHER -> {"user"}

Has(rec, attribute) == rec.attributes[attribute].value = TRUE

-----------------------------------------------------------------------------
\* Mutant: an update is applied whatever its time.
isLaterAlways(timestamp, updatedAt) == TRUE

isLater(timestamp, updatedAt) == timestamp > updatedAt

applyUpdateRequest(rec, rq) ==
    LET changed == {a \in rq.fields :
                       isLater(rq.timestamp, rec.attributes[a].at)}
    IN  [attributes |->
            [a \in Attributes |->
                IF a \in changed
                  THEN [value |-> rq.data[a], at |-> rq.timestamp]
                  ELSE rec.attributes[a]],
         updatedAt |->
            [p \in Parts |->
                IF \E a \in changed : p \in PartsOf(a)
                  THEN rq.timestamp ELSE rec.updatedAt[p]]]

zeroAttribute == [value |-> FALSE, at |-> 0]

\* Mutant: only the record itself is given the time of its creation.
createUserTimeOnly(rq) ==
    [attributes |->
        [a \in Attributes |-> [value |-> rq.data[a], at |-> rq.timestamp]],
     updatedAt |-> [p \in {"user"} |-> rq.timestamp]]

create(rq) ==
    [attributes |->
        [a \in Attributes |->
            IF isLater(rq.timestamp, 0)
              THEN [value |-> rq.data[a], at |-> rq.timestamp]
              ELSE zeroAttribute],
     updatedAt |-> [p \in Parts |-> rq.timestamp]]

\* The permission of the certifier an update of the attribute requires.
RequiredPermission(attribute) ==
    CASE attribute = "active"  -> "permissions.user.remove"
      [] attribute = "encKey"  -> "permissions.user.encKeyUpdate"
      [] attribute = "signKey" -> "permissions.user.signKeyUpdate"
      [] OTHER                 -> "permissions.user.permissionsUpdate"

\* Whether the user of id with this record may certify the request.
isAuthorized(rec, id, rq) ==
    CASE rq.type = "create" -> Has(rec, "permissions.user.add")
      [] rq.type = "read"   -> Has(rec, "permissions.user.read")
      [] rq.type = "update" ->
            \A a \in rq.fields :
               \/ Has(rec, RequiredPermission(a))
               \/ a \in Keys /\ id = rq.subject
=============================================================================
