---------------------------- MODULE MCSemaphore -----------------------------
(***************************************************************************)
(* Instances of Semaphore for TLC.                                         *)
(***************************************************************************)
EXTENDS Semaphore, TLC

CONSTANTS p1, p2

TwoProcs == {p1, p2}

\* no wait, blocking, one poll
SomeTimeouts == {-1, 0, 1}
\* and a value below LOCK_NONBLOCK, and two polls
AllTimeouts == {-2, -1, 0, 2}

=============================================================================
