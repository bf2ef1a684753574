---------------------------- MODULE SharedMemory ----------------------------
(***************************************************************************)
(* The SharedMemory class (src/SharedMemory.c): one System V segment under *)
(* one key and the mutex that guards it, a Semaphore set under key + 128.  *)
(* The guard is an instance of Semaphore; every method here is a sequence  *)
(* of shm system calls, steps of Semaphore methods and memory accesses,    *)
(* and processes interleave between any two of them.                       *)
(*                                                                         *)
(* A segment holds a text, written and read by the string methods in two   *)
(* halves.  The four uint methods differ in the one aligned load or store  *)
(* they make, which no interleaving can tear: they are one operation here, *)
(* "uint", and their words are kept by the modules of their callers.       *)
(***************************************************************************)
EXTENDS Integers, FiniteSets

CONSTANTS
  Procs,     \* processes that use the class
  Values,    \* what they write
  MaxSets,   \* bound: guards created in one behaviour
  MaxSegs    \* bound: segments created in one behaviour

ASSUME ShmAssumption ==
  /\ IsFiniteSet(Procs)
  /\ Values \subseteq Nat \ {0}
  /\ MaxSets \in Nat
  /\ MaxSegs \in Nat

VARIABLES
  sem, made, adj, this, pc, left, ret, held,  \* the guard, see Semaphore
  shmid,    \* the segment the key is bound to, or 0
  segs,     \* segments created so far
  mem,      \* contents of every segment
  map,      \* segment of each process's object, or 0 for no object
  sized,    \* the object's size member is set (attach leaves it alone)
  at,       \* where each process is inside a method
  op,       \* which method that is
  arg,      \* its argument, or the text read so far
  spoiled,  \* segments a guard no longer answered for (history)
  bare      \* a constructor left the segment without a guard (history)

guardVars == <<sem, made, adj, this, pc, left, ret, held>>
objVars == <<map, sized>>
segVars == <<shmid, segs, mem>>
vars == <<guardVars, segVars, objVars, at, op, arg, spoiled, bare>>

\* The guard as the methods below use it: sets of one unit, blocking locks,
\* SEM_UNDO.  What it takes to use it well is not assumed here.
G == INSTANCE Semaphore WITH
  Sizes <- {1}, Timeouts <- {0}, Persist <- FALSE, Disciplined <- FALSE,
  SEMVMX <- 32767

Ops == {"none", "new", "renew", "attach", "delete", "write", "read",
        "uint"}
Places == {"idle", "reget", "shmat", "semget", "guard", "memset", "rmid",
           "locking", "half", "done", "unlocking"}
Blank == <<0, 0>>

TypeOK ==
  /\ G!TypeOK
  /\ shmid \in 0..segs
  /\ segs \in 0..MaxSegs
  /\ mem \in [1..MaxSegs -> (Values \cup {0}) \X (Values \cup {0})]
  /\ map \in [Procs -> 0..segs]
  /\ sized \in [Procs -> BOOLEAN]
  /\ at \in [Procs -> Places]
  /\ op \in [Procs -> Ops]
  /\ arg \in [Procs -> (Values \cup {0}) \X (Values \cup {0})]
  /\ spoiled \subseteq 1..segs
  /\ bare \in BOOLEAN

Init ==
  /\ G!Init
  /\ shmid = 0
  /\ segs = 0
  /\ mem = [i \in 1..MaxSegs |-> Blank]
  /\ map = [p \in Procs |-> 0]
  /\ sized = [p \in Procs |-> FALSE]
  /\ at = [p \in Procs |-> "idle"]
  /\ op = [p \in Procs |-> "none"]
  /\ arg = [p \in Procs |-> <<0, 0>>]
  /\ spoiled = {} /\ bare = FALSE

go(p, place) == at' = [at EXCEPT ![p] = place]

\* A method is called.
Begin(p, o, place, x) ==
  /\ at[p] = "idle"
  /\ op' = [op EXCEPT ![p] = o]
  /\ arg' = [arg EXCEPT ![p] = x]
  /\ go(p, place)

\* A method returns, without a value.
End(p) ==
  /\ go(p, "idle")
  /\ op' = [op EXCEPT ![p] = "none"]
  /\ arg' = [arg EXCEPT ![p] = <<0, 0>>]

\* The object is freed (or was never made).
forget(p) ==
  /\ map' = [map EXCEPT ![p] = 0]
  /\ sized' = [sized EXCEPT ![p] = FALSE]
  /\ End(p)

\* Semaphore$delete of the guard, if the object has one.
free(p, remove) ==
  \/ this[p] # G!NULL /\ G!delete(p, remove)
  \/ this[p] = G!NULL /\ UNCHANGED guardVars

-----------------------------------------------------------------------------
(* SharedMemory$new and SharedMemory$attach.                               *)

\* shmget(IPC_CREAT|IPC_EXCL); "renew" is new with attach = 1.  NULL if the
\* segment exists and is not wanted, and whenever malloc or shmget fails.
new(p, attaching) ==
  /\ map[p] = 0
  /\ \/ /\ shmid = 0 /\ segs < MaxSegs
        /\ segs' = segs + 1
        /\ shmid' = segs + 1
        /\ map' = [map EXCEPT ![p] = segs + 1]
        /\ sized' = [sized EXCEPT ![p] = TRUE]
        /\ Begin(p, IF attaching THEN "renew" ELSE "new", "shmat", <<0, 0>>)
     \/ /\ shmid # 0 /\ attaching
        /\ Begin(p, "renew", "reget", <<0, 0>>)
        /\ UNCHANGED <<shmid, segs, objVars>>
     \/ /\ at[p] = "idle" /\ End(p)
        /\ UNCHANGED <<shmid, segs, objVars>>
  /\ UNCHANGED <<guardVars, mem, spoiled, bare>>

\* The second shmget of new, after EEXIST.
reget(p) ==
  /\ at[p] = "reget"
  /\ \/ /\ shmid # 0
        /\ map' = [map EXCEPT ![p] = shmid]
        /\ sized' = [sized EXCEPT ![p] = TRUE]
        /\ go(p, "shmat")
        /\ UNCHANGED <<op, arg>>
     \/ /\ shmid = 0
        /\ forget(p)
  /\ UNCHANGED <<guardVars, segVars, spoiled, bare>>

\* Mutant: the id is not checked.
attach_mutant(p) ==
  /\ map[p] = 0
  /\ map' = [map EXCEPT ![p] = IF shmid # 0 THEN shmid ELSE -1]
  /\ Begin(p, "attach", "shmat", <<0, 0>>)
  /\ UNCHANGED <<guardVars, segVars, sized, spoiled, bare>>

\* attach: shmget without IPC_CREAT; NULL when there is no segment.
attach(p) ==
  /\ map[p] = 0
  /\ \/ /\ shmid # 0
        /\ map' = [map EXCEPT ![p] = shmid]
        /\ Begin(p, "attach", "shmat", <<0, 0>>)
     \/ /\ shmid = 0
        /\ at[p] = "idle" /\ End(p)
        /\ UNCHANGED map
  /\ UNCHANGED <<guardVars, segVars, sized, spoiled, bare>>

\* A constructor gives up: its object is freed, the segment stays, perhaps
\* without a guard.
give_up(p) ==
  /\ forget(p)
  /\ bare' = (bare \/ (map[p] = shmid /\ sem.id = 0))

\* shmat fails once the segment is removed, and may fail before that (ENOMEM,
\* or the memory lock of mlockall): new gives up, attach returns an object
\* without address or guard, which its caller cannot use.
shmat(p) ==
  /\ at[p] = "shmat"
  /\ \/ /\ map[p] = shmid
        /\ go(p, "semget")
        /\ UNCHANGED <<objVars, op, arg, bare>>
     \/ /\ op[p] = "attach"
        /\ forget(p)
        /\ UNCHANGED bare
     \/ /\ op[p] # "attach"
        /\ give_up(p)
  /\ UNCHANGED <<guardVars, segVars, spoiled>>

\* Mutants: a guard of two units; a reattached guard of none.
semget_two_mutant(p) ==
  /\ at[p] = "semget"
  /\ \/ op[p] \in {"new", "renew"} /\ G!new(p, 2, op[p] = "renew")
     \/ op[p] = "attach" /\ G!attach(p)
  /\ go(p, "guard")
  /\ UNCHANGED <<segVars, objVars, op, arg, spoiled, bare>>
semget_none_mutant(p) ==
  /\ at[p] = "semget"
  /\ \/ op[p] = "new" /\ G!new(p, 1, FALSE)
     \/ op[p] = "renew" /\ G!new(p, 0, TRUE)
     \/ op[p] = "attach" /\ G!attach(p)
  /\ go(p, "guard")
  /\ UNCHANGED <<segVars, objVars, op, arg, spoiled, bare>>

\* Semaphore$new or Semaphore$attach of the guard, either of which may fail.
semget(p) ==
  /\ at[p] = "semget"
  /\ \/ op[p] = "new" /\ G!new(p, 1, FALSE)
     \/ op[p] = "renew" /\ G!new(p, 1, TRUE)
     \/ op[p] = "attach" /\ G!attach(p)
  /\ go(p, "guard")
  /\ UNCHANGED <<segVars, objVars, op, arg, spoiled, bare>>

\* Mutant: giving up removes the guard from the kernel too.
guarded_mutant(p) ==
  /\ at[p] = "guard" /\ pc[p] = "idle"
  /\ \/ /\ this[p] # G!NULL \/ op[p] = "attach"
        /\ End(p)
        /\ UNCHANGED <<guardVars, objVars, bare>>
     \/ /\ op[p] # "attach"
        /\ free(p, TRUE)
        /\ give_up(p)
  /\ UNCHANGED <<segVars, spoiled>>

\* The guard is there, or is not.  new then needs mlockall or mlock; without
\* a guard or when these fail it frees both objects and leaves the segment
\* and the guard behind.  attach returns what it has, a NULL guard included.
guarded(p) ==
  /\ at[p] = "guard" /\ pc[p] = "idle"
  /\ \/ /\ this[p] # G!NULL \/ op[p] = "attach"
        /\ End(p)
        /\ UNCHANGED <<guardVars, objVars, bare>>
     \/ /\ op[p] # "attach"
        /\ free(p, FALSE)
        /\ give_up(p)
  /\ UNCHANGED <<segVars, spoiled>>

-----------------------------------------------------------------------------
(* SharedMemory$delete.                                                    *)

\* The guard goes first, with the set when the segment is to be removed too.
delete(p, remove) ==
  /\ map[p] # 0
  /\ free(p, remove)
  /\ \/ /\ remove
        /\ Begin(p, "delete", "memset", <<0, 0>>)
        /\ spoiled' = IF sem' # sem THEN 1..segs ELSE spoiled
        /\ UNCHANGED objVars
     \/ /\ ~remove
        /\ at[p] = "idle"
        /\ forget(p)
        /\ UNCHANGED spoiled
  /\ UNCHANGED <<segVars, bare>>

\* memset(addr, 0, size), unguarded.  After attach the size is whatever was
\* in the heap: nothing, a part or all of the segment is cleared.
memset(p) ==
  /\ at[p] = "memset"
  /\ \E t \in {Blank, <<0, mem[map[p]][2]>>, mem[map[p]]} :
       /\ sized[p] => t = Blank
       /\ mem' = [mem EXCEPT ![map[p]] = t]
  /\ spoiled' = spoiled \cup {map[p]}
  /\ go(p, "rmid")
  /\ UNCHANGED <<guardVars, shmid, segs, objVars, op, arg, bare>>

\* shmdt and shmctl(IPC_RMID): the key is free, other mappings stay.
rmid(p) ==
  /\ at[p] = "rmid"
  /\ shmid' = IF shmid = map[p] THEN 0 ELSE shmid
  /\ bare' = (bare /\ shmid # map[p])
  /\ forget(p)
  /\ UNCHANGED <<guardVars, segs, mem, spoiled>>

-----------------------------------------------------------------------------
(* write, read, write_uint, read_uint, write_uint32 and read_uint32.        *)

Accesses == {"write", "read", "uint"}

\* Semaphore$lock(shsem, 0, 0, 0).  The string methods need the size.
access(p, o, v) ==
  /\ map[p] # 0 /\ this[p] # G!NULL
  /\ o \in {"write", "read"} => sized[p]
  /\ Begin(p, o, "locking", IF o = "write" THEN <<v, v>> ELSE <<0, 0>>)
  /\ G!lock(p, G!LOCK_BLOCKING)
  /\ UNCHANGED <<segVars, objVars, spoiled, bare>>

\* p copies half h of its text out, or in.
copy(p, h) ==
  /\ mem' = IF op[p] = "write" THEN [mem EXCEPT ![map[p]][h] = arg[p][h]] ELSE mem
  /\ arg' = IF op[p] = "read" THEN [arg EXCEPT ![p][h] = mem[map[p]][h]] ELSE arg
  /\ UNCHANGED <<guardVars, shmid, segs, objVars, op, spoiled, bare>>

\* Mutant: read copies before it has the lock.
body_mutant(p) ==
  /\ at[p] = "locking" /\ (op[p] = "read" \/ (pc[p] = "idle" /\ ret[p] = 0))
  /\ go(p, IF op[p] = "uint" THEN "done" ELSE "half")
  /\ copy(p, 1)

\* assert(e == 0) after lock, then the body of the method.  read_uint takes
\* nothing but the address here.
body(p) ==
  /\ at[p] = "locking" /\ pc[p] = "idle" /\ ret[p] = 0
  /\ go(p, IF op[p] = "uint" THEN "done" ELSE "half")
  /\ copy(p, 1)

rest(p) ==
  /\ at[p] = "half"
  /\ go(p, "done")
  /\ copy(p, 2)

\* Mutant: an early return forgets the unlock.
leave_mutant(p) ==
  /\ at[p] = "done"
  /\ \/ op[p] # "uint" /\ G!unlock(p)
     \/ op[p] = "uint" /\ UNCHANGED guardVars
  /\ go(p, "unlocking")
  /\ UNCHANGED <<segVars, objVars, op, arg, spoiled, bare>>

\* Semaphore$unlock(shsem, 0, 0)
leave(p) ==
  /\ at[p] = "done"
  /\ G!unlock(p)
  /\ go(p, "unlocking")
  /\ UNCHANGED <<segVars, objVars, op, arg, spoiled, bare>>

\* Mutant: built with NDEBUG, without the assert.
returned_mutant(p) ==
  /\ at[p] = "unlocking" /\ pc[p] = "idle"
  /\ End(p)
  /\ UNCHANGED <<guardVars, segVars, objVars, spoiled, bare>>

\* assert(e == 0) after unlock.  read_uint loads its word only now, and the
\* value goes to the caller.
returned(p) ==
  /\ at[p] = "unlocking" /\ pc[p] = "idle" /\ ret[p] = 0
  /\ End(p)
  /\ UNCHANGED <<guardVars, segVars, objVars, spoiled, bare>>

-----------------------------------------------------------------------------
\* Inside a constructor, a destructor or a text: what p leaves is half done.
midway(p) ==
  \/ at[p] \in {"shmat", "semget", "guard"} /\ op[p] \in {"new", "renew"}
  \/ at[p] \in {"memset", "rmid"}
  \/ at[p] = "half" /\ op[p] = "write"

\* A process ends: the kernel detaches it and settles its guard.
die(p) ==
  /\ \/ G!exit(p)
     \/ this[p] = G!NULL /\ held[p] = 0 /\ UNCHANGED guardVars
  /\ forget(p)
  /\ spoiled' = IF midway(p) THEN spoiled \cup {map[p]} ELSE spoiled
  /\ UNCHANGED <<segVars, bare>>

crash(p) == map[p] # 0 /\ die(p)

\* A failed assert.
abort(p) ==
  /\ at[p] \in {"locking", "unlocking"} /\ pc[p] = "idle" /\ ret[p] # 0
  /\ die(p)

\* The steps of a method that has been called.
Step(p) ==
  \/ /\ G!Run(p)
     /\ UNCHANGED <<segVars, objVars, at, op, arg, spoiled, bare>>
  \/ reget(p)
  \/ shmat(p)
  \/ semget(p)
  \/ guarded(p)
  \/ memset(p)
  \/ rmid(p)
  \/ body(p)
  \/ rest(p)
  \/ leave(p)
  \/ returned(p)
  \/ abort(p)

Call(p) ==
  \/ \E a \in BOOLEAN : new(p, a)
  \/ attach(p)
  \/ \E r \in BOOLEAN : delete(p, r)
  \/ \E o \in Accesses, v \in Values : access(p, o, v)

\* EINTR while the process waits for the guard.
interrupted(p) ==
  /\ G!interrupted(p)
  /\ UNCHANGED <<segVars, objVars, at, op, arg, spoiled, bare>>

Next == \E p \in Procs : Step(p) \/ Call(p) \/ interrupted(p) \/ crash(p)

Spec == Init /\ [][Next]_vars

\* A process that is inside a method runs on, and the kernel hands the guard
\* to a waiter; nothing obliges anybody to call a method or to live.
Fairness ==
  \A p \in Procs :
    /\ WF_vars(Step(p))
    /\ SF_vars(G!acquire(p) /\ UNCHANGED <<segVars, objVars, at, op, arg, spoiled, bare>>)

FairSpec == Spec /\ Fairness

-----------------------------------------------------------------------------
(* Correctness.                                                            *)

Inside(p) ==
  at[p] \in {"half", "done"} \/ (at[p] = "locking" /\ pc[p] = "idle" /\ ret[p] = 0)

\* Two processes are between lock and unlock at once only if one of them was
\* let in by EIDRM and will fail its assert: with guards that still exist the
\* critical sections of SharedMemory$write and its like exclude each other.
GuardedAccess ==
  \A p, q \in Procs :
    Inside(p) /\ Inside(q) /\ G!live(p) /\ G!live(q) => p = q

\* SharedMemory$read returns a text that somebody wrote as a whole, as long
\* as no writer died in the middle of it and nobody removed the segment or
\* its guard (SharedMemory$delete works unguarded).
ReadsAreWhole ==
  \A p \in Procs :
    at[p] = "unlocking" /\ op[p] = "read" /\ pc[p] = "idle" /\ ret[p] = 0
      => arg[p][1] = arg[p][2] \/ map[p] \in spoiled

\* assert(e == 0) after Semaphore$unlock fails only if the guard was removed.
NoFalseAbort ==
  \A p \in Procs :
    at[p] = "unlocking" /\ pc[p] = "idle" /\ ret[p] # 0 => ~G!live(p)

\* Until something is removed or a process dies in the middle of a method,
\* the segment under the key has a guard that can be locked, or somebody is
\* still in SharedMemory$new and about to provide it.  The one exception is a
\* constructor that gave up (shmat, semget or mlock failed): it may leave the
\* segment without a guard, which the next new with attach = 1 makes, but
\* never with one that nobody will initialise.
SegmentHasGuard ==
  spoiled = {} /\ shmid # 0 =>
    \/ G!initialised
    \/ \E p \in Procs : midway(p)
    \/ bare /\ sem.id = 0

\* The methods use the guard the way Semaphore's theorems ask for: unlock
\* what was locked, never lock twice, never drop an object while holding.
D == INSTANCE Semaphore WITH
  Sizes <- {1}, Timeouts <- {0}, Persist <- FALSE, Disciplined <- TRUE,
  SEMVMX <- 32767
GuardIsDisciplined == D!Spec

\* A method that waits for an initialised guard comes back, whoever dies
\* while holding it (SEM_UNDO): no access wedges the segment.
AccessReturns ==
  \A p \in Procs : at[p] = "locking" /\ G!initialised ~> at[p] = "idle"

=============================================================================
