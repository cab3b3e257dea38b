------------------------------ MODULE MCStatus ------------------------------
(***************************************************************************)
(* A small instance of Status: what the executor reports of one ticket, in *)
(* any order.  A ticket whose channel cannot be unlocked is reported       *)
(* failed after its success, and one status may be reported twice.         *)
(***************************************************************************)
EXTENDS Status, TLC

CONSTANTS u1, u2, u3, u4, u5, l1, l2

TestCode ==
    (u1 :> QueuedStatus) @@ (u2 :> RunningStatus) @@ (u3 :> SuccessStatus)
       @@ (u4 :> FailedStatus) @@ (u5 :> QueuedStatus)
=============================================================================
