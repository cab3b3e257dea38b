-------------------------- MODULE ChannelLifecycle --------------------------
(***************************************************************************)
(* What a channel promises to its members, with nothing of how the servers *)
(* get there: no early requests, no buffer, no locks, no decryptor.  A     *)
(* channel is opened once and its terms stand from then on.  A closure its *)
(* terms admit replaces only a closure that it wins over, and takes with   *)
(* it the messages it comes before or at.  A message is posted only inside *)
(* the channel's duration, by a member who may write.                      *)
(***************************************************************************)
EXTENDS Naturals

CONSTANTS OpenRequests, CloseRequests, MessageRequests, NoAction, NoPermissions

VARIABLES phase, opened, permissions, closure, messages

vars == <<phase, opened, permissions, closure, messages>>

May(user, right) ==
    user \in DOMAIN permissions /\ right \in permissions[user]

Init ==
    /\ phase = "buffered"
    /\ opened = 0
    /\ permissions = NoPermissions
    /\ closure = NoAction
    /\ messages = {}

Open ==
    /\ phase = "buffered"
    /\ phase' = "open"
    /\ \E o \in OpenRequests :
          /\ o.timestamp # 0
          /\ opened' = o.timestamp
          /\ permissions' = o.permissions
    /\ UNCHANGED <<closure, messages>>

Wins(c) ==
    \/ c.timestamp < closure.timestamp
    \/ c.timestamp = closure.timestamp /\ c.issuer < closure.issuer

Close ==
    /\ phase # "buffered"
    /\ phase' = "closed"
    /\ \E c \in CloseRequests :
          /\ opened <= c.timestamp
          /\ May(c.certifier, "close")
          /\ phase = "closed" => Wins(c)
          /\ closure' = c
          /\ messages' = {m \in messages : m.timestamp < c.timestamp}
    /\ UNCHANGED <<opened, permissions>>

Post ==
    /\ phase # "buffered"
    /\ \E m \in MessageRequests :
          /\ opened <= m.timestamp
          /\ phase = "closed" => m.timestamp <= closure.timestamp
          /\ May(m.certifier, "write")
          /\ messages' = messages \cup {m}
    /\ UNCHANGED <<phase, opened, permissions, closure>>

Next == Open \/ Close \/ Post

Spec == Init /\ [][Next]_vars
=============================================================================
