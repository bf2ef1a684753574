---------------------------- MODULE ResourcePool ----------------------------
(***************************************************************************)
(* What the Semaphore class promises to callers that bracket their work    *)
(* with lock and unlock: a pool of `capacity' units of which every caller  *)
(* holds at most one.  A unit is granted only while one is free, and comes *)
(* back when its holder releases it or dies.  Closing the pool (IPC_RMID)  *)
(* revokes every grant at once.                                            *)
(***************************************************************************)
EXTENDS Integers, FiniteSets

CONSTANTS
  Clients,    \* the processes that use the pool
  Capacities, \* the sizes a pool may be opened with
  Closed      \* the capacity of a pool that is not open

VARIABLES
  capacity,   \* units in the pool, or Closed
  holders     \* the clients that hold a unit

poolVars == <<capacity, holders>>

Init ==
  /\ capacity = Closed
  /\ holders = {}

Open(n) ==
  /\ capacity = Closed
  /\ capacity' = n
  /\ UNCHANGED holders

Acquire(c) ==
  /\ capacity # Closed
  /\ c \notin holders
  /\ Cardinality(holders) < capacity
  /\ holders' = holders \cup {c}
  /\ UNCHANGED capacity

Release(c) ==
  /\ c \in holders
  /\ holders' = holders \ {c}
  /\ UNCHANGED capacity

Close ==
  /\ capacity' = Closed
  /\ holders' = {}

Next ==
  \/ \E n \in Capacities : Open(n)
  \/ \E c \in Clients : Acquire(c) \/ Release(c)
  \/ Close

Spec == Init /\ [][Next]_poolVars

=============================================================================
