---------------------------- MODULE MCDaemonize -----------------------------
(***************************************************************************)
(* Instances of Daemonize for TLC.                                         *)
(***************************************************************************)
EXTENDS Daemonize, TLC

CONSTANTS u1, u2

OneUser == {u1}
TwoUsers == {u1, u2}

=============================================================================
