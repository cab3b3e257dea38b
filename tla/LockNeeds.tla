----------------------------- MODULE LockNeeds -----------------------------
(***************************************************************************)
(* The lock needs of src/core/sync.go: what a request has to lock, made    *)
(* unique per record and taken in a fixed order.  doLocking walks the      *)
(* sanitised list from the front to lock and from the back to unlock; the  *)
(* list is the set of the needs still to come and First and Last of it.    *)
(* The ids are strings compared by <: here naturals.                       *)
(***************************************************************************)
EXTENDS Naturals

LockTypes == {"read", "write"}

LockNeed(type, id) == [lockType |-> type, id |-> id]

LockNeedsOn(ids) == [lockType : LockTypes, id : ids]

\* "Order: read low id < read high id < write low id < write high id"
Less(a, b) ==
    IF a.lockType # b.lockType THEN a.lockType = "read" ELSE a.id < b.id

\* Mutant: a record may be locked both for reading and for writing.
sanitizeLockNeedsNot(needs) == needs

\* "Remove duplicates and keep higher privilege lock"
sanitizeLockNeeds(needs) ==
    {n \in needs : \A m \in needs : m.id = n.id /\ m.lockType = "write" =>
                                       n.lockType = "write"}

First(needs) == CHOOSE n \in needs : \A m \in needs \ {n} : Less(n, m)

Last(needs) == CHOOSE n \in needs : \A m \in needs \ {n} : Less(m, n)
=============================================================================
