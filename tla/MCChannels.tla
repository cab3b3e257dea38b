----------------------------- MODULE MCChannels -----------------------------
(***************************************************************************)
(* Small instances of Channels.  Timestamps: an opening at 2; closures on  *)
(* both sides of it, two at the same time by different issuers; messages   *)
(* between the two, at the time of a closure and after one.                *)
(* User 1 may do everything, user 2 may only close, user 3 may do nothing. *)
(***************************************************************************)
EXTENDS Channels

Message(i, c, t) == [id |-> i, certifier |-> c, timestamp |-> t]
Closure(i, c, t) == [issuer |-> i, certifier |-> c, timestamp |-> t]
Listener(i, c)   == [id |-> i, certifier |-> c]

\* The second opening is refused for its zero timestamp, the third one has
\* other terms and may come first.
TestOpens ==
    LET terms == [u \in {1, 2} |-> IF u = 1 THEN Rights ELSE {"close"}]
    IN  {[timestamp |-> 2, permissions |-> terms],
         [timestamp |-> 0, permissions |-> terms],
         [timestamp |-> 3, permissions |-> [u \in {3} |-> {"read", "write"}]]}

TestCloses ==
    {Closure(1, 1, 1), Closure(1, 2, 4), Closure(2, 1, 4), Closure(1, 1, 5),
     Closure(1, 3, 3)}

TestMessages ==
    {Message(1, 1, 5), Message(2, 1, 4), Message(3, 2, 3)}

TestListeners == {Listener(1, 1), Listener(2, 2)}

TestVerifiable == {m \in TestMessages : m.id # 3}
=============================================================================
