--------------------------- MODULE ChannelRecord ---------------------------
(***************************************************************************)
(* The record of one channel and the four operations on it                 *)
(* (src/channels/channel_record.go).  The operations are pure: each takes  *)
(* a record and a request and gives the next record; its guard is an       *)
(* operator of its own, false exactly where the code returns false.        *)
(*                                                                         *)
(* Data.  Timestamps are naturals and 0 is Go's zero time, which IsZero    *)
(* recognises.  User ids are compared as strings by the tie-break of       *)
(* tryClose, so they are elements of an ordered set, here naturals.  The   *)
(* list messageTimestamps is only ever counted and filtered by comparing   *)
(* timestamps, never read by index: it is the set of the messages whose    *)
(* timestamps it holds.  The list closureAttempts is sorted by timestamp   *)
(* with an unstable sort before it is read: it is the set of the attempts. *)
(* The key id and the textual id of the channel are left out: nothing in   *)
(* the record's logic depends on them once a request has been validated.   *)
(* The code declares a fourth state, channelInconsistentState, and never   *)
(* assigns it.                                                             *)
(***************************************************************************)
EXTENDS Naturals, FiniteSets

States == {"buffered", "open", "closed"}

Rights == {"read", "write", "close"}

\* A permissions record maps a user to the rights it has.  The empty map
\* stands for the nil permissions of a channel that was never opened:
\* tryOpen refuses an empty map, so the two are never confused.
NoPermissions == [u \in {} |-> {}]

Allows(permissions, user, right) ==
    /\ user \in DOMAIN permissions
    /\ right \in permissions[user]

\* The nil *channelActionRecord.
NoAction == [issuer |-> 0, certifier |-> 0, timestamp |-> 0]

emptyChannelRecord ==
    [state       |-> "buffered",
     opened      |-> 0,
     permissions |-> NoPermissions,
     closure     |-> NoAction,
     attempts    |-> {},
     messages    |-> {}]

-----------------------------------------------------------------------------
\* Mutant: the state is not checked, so a channel can be opened again.
canOpenAgain(rec, opening) ==
    /\ opening.timestamp # 0
    /\ DOMAIN opening.permissions # {}

canOpen(rec, opening) ==
    /\ rec.state = "buffered"
    /\ opening.timestamp # 0
    /\ DOMAIN opening.permissions # {}

tryOpen(rec, opening) ==
    [rec EXCEPT !.state = "open",
                !.opened = opening.timestamp,
                !.permissions = opening.permissions]

-----------------------------------------------------------------------------
\* A closure the channel's own terms admit: not before the opening, and
\* certified by a user who may close.
Eligible(rec, action) ==
    /\ rec.opened <= action.timestamp
    /\ Allows(rec.permissions, action.certifier, "close")

\* The order in which closures win: the earliest one, then the least issuer.
Precedes(a, b) ==
    \/ a.timestamp < b.timestamp
    \/ a.timestamp = b.timestamp /\ a.issuer < b.issuer

\* Mutant: earlier closures of a closed channel are not considered.
canCloseTwice(rec, action) ==
    /\ action.timestamp # 0
    /\ rec.state = "buffered" \/ Eligible(rec, action)

canClose(rec, action) ==
    /\ action.timestamp # 0
    /\ \/ rec.state = "buffered"
       \/ /\ Eligible(rec, action)
          /\ rec.state = "closed" => Precedes(action, rec.closure)

\* Mutant: late messages are not removed.
RemainingAll(rec, action) == rec.messages

\* The messages a closure leaves in the channel ("Remove late messages").
Remaining(rec, action) ==
    {m \in rec.messages : m.timestamp < action.timestamp}

\* Mutant: an early closure marks the channel inconsistent.
tryCloseInconsistent(rec, action) ==
    IF rec.state = "buffered"
      THEN [rec EXCEPT !.state = "inconsistent"]
      ELSE [rec EXCEPT !.state = "closed",
                       !.closure = action,
                       !.attempts = {},
                       !.messages = Remaining(rec, action)]

tryClose(rec, action) ==
    IF rec.state = "buffered"
      THEN [rec EXCEPT !.attempts = @ \cup {action}]
      ELSE [rec EXCEPT !.state = "closed",
                       !.closure = action,
                       !.attempts = {},
                       !.messages = Remaining(rec, action)]

\* Mutant: the attempts are not sorted.
FirstAttemptsUnsorted(rec) == {a \in rec.attempts : canClose(rec, a)}

\* The attempts that may come first among those tryClose accepts, once they
\* are sorted by timestamp: sort.Sort leaves equal timestamps in any order.
FirstAttempts(rec) ==
    LET accepted == {a \in rec.attempts : canClose(rec, a)}
    IN  {a \in accepted : \A b \in accepted : a.timestamp <= b.timestamp}

\* The records applyCloseAttempts may leave behind on an open channel.
applyCloseAttempts(rec) ==
    IF FirstAttempts(rec) = {}
      THEN {[rec EXCEPT !.attempts = {}]}
      ELSE {tryClose(rec, a) : a \in FirstAttempts(rec)}

-----------------------------------------------------------------------------
\* A message the channel's own terms admit.
Writable(rec, message) ==
    /\ rec.opened <= message.timestamp
    /\ message.timestamp # 0
    /\ Allows(rec.permissions, message.certifier, "write")

canAddMessage(rec, message) ==
    /\ rec.state # "buffered"
    /\ Writable(rec, message)
    /\ rec.state = "closed" => message.timestamp <= rec.closure.timestamp

\* Mutant: the position is the number of messages.
messagePositionLast(rec, message) == Cardinality(rec.messages)

messagePosition(rec, message) ==
    Cardinality({m \in rec.messages : m.timestamp < message.timestamp})

addMessage(rec, message) == [rec EXCEPT !.messages = @ \cup {message}]
=============================================================================
