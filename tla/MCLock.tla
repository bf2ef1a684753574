------------------------------- MODULE MCLock -------------------------------
(***************************************************************************)
(* Instances of Lock for TLC.                                              *)
(***************************************************************************)
EXTENDS Lock, TLC

CONSTANTS p1, p2, p3

TwoProcs == {p1, p2}

NoWait == {-1}
Blocking == {0}

Symmetry == Permutations(Procs)

=============================================================================
