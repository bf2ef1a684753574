------------------------------ MODULE MCSyschk ------------------------------
(***************************************************************************)
(* The instance of Syschk for TLC.  Limits on both sides of the system's,  *)
(* a table longer than an offset reaches, and other commands on keys that  *)
(* meet the table's, its guard's, and neither.                             *)
(***************************************************************************)
EXTENDS Syschk, TLC

Host == [NOFILE |-> 6, NPROC |-> 3, AS |-> 3]
Users == {[NOFILE |-> 5, NPROC |-> 2, AS |-> 2], [NOFILE |-> 7, NPROC |-> 4, AS |-> 4]}

=============================================================================
