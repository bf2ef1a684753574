-------------------------------- MODULE Keys --------------------------------
(***************************************************************************)
(* How the commands of one host share the kernel's name space: the keys of *)
(* src/common.h, the guard of a segment (src/SharedMemory.c), and which    *)
(* objects a command owns.                                                 *)
(***************************************************************************)
EXTENDS Integers, TLAPS

\* ftok(path, id) uses the low eight bits of id (external: ftok(3)).
ftok(path, id) == <<path, id % 256>>

\* A segment, a semaphore set, and the set that guards a segment.
SHMKEY(key) == ftok("/dev/zero", key)
SEMKEY(key) == ftok("/dev/null", key)

GuardKey(key) == SEMKEY(key + 128)

\* What `lock <key>' makes and removes; daemonize, ia32emu and syschk have a
\* guarded segment and no set of their own.
segment(key) == {SHMKEY(key), GuardKey(key)}
objects(key) == segment(key) \cup {SEMKEY(key)}

\* lock's usage: "<key> must be in the range 0..127".  In that range two
\* keys never meet in the kernel; outside it lock 169 is the guard of lock 41.
THEOREM KeysApart ==
  \A j, k \in 0..127 : j # k => objects(j) \cap objects(k) = {}
<1> SUFFICES ASSUME NEW j \in 0..127, NEW k \in 0..127, j # k
             PROVE  objects(j) \cap objects(k) = {}
  OBVIOUS
<1>1. /\ j % 256 = j /\ k % 256 = k
      /\ (j + 128) % 256 = j + 128 /\ (k + 128) % 256 = k + 128
  OBVIOUS
<1>2. /\ j + 128 # k + 128
      /\ j # k + 128 /\ k # j + 128
  OBVIOUS
<1>3. "/dev/zero" # "/dev/null"
  OBVIOUS
<1> QED
  BY <1>1, <1>2, <1>3 DEF objects, segment, SHMKEY, SEMKEY, GuardKey, ftok

=============================================================================
