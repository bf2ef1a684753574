--------------------------- MODULE MCSharedMemory ---------------------------
(***************************************************************************)
(* Instances of SharedMemory for TLC.                                      *)
(***************************************************************************)
EXTENDS SharedMemory, TLC

CONSTANTS p1, p2, p3

TwoProcs == {p1, p2}

Symmetry == Permutations(Procs)

=============================================================================
