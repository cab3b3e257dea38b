----------------------------- MODULE MCInstall -----------------------------
(***************************************************************************)
(* Three installations in turn, with a daemon that may be started at any   *)
(* moment.                                                                 *)
(***************************************************************************)
EXTENDS Install
=============================================================================
