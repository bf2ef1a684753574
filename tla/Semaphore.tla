----------------------------- MODULE Semaphore ------------------------------
(***************************************************************************)
(* The Semaphore class (src/Semaphore.c): one System V semaphore set under *)
(* one key, used by any number of processes.  Every caller in the package  *)
(* asks for sets of one semaphore (SHSEM_COUNT, SharedMemory$new), so the  *)
(* set is its single value.  A step is one system call of a method; two    *)
(* processes interleave between the calls of the same method.              *)
(*                                                                         *)
(* Kernel side (external, semget(2), semop(2), semctl(2)): a new set       *)
(* starts at 0, ids are never reused, removal makes every id-holder stale, *)
(* SEM_UNDO is settled when a process dies.                                *)
(***************************************************************************)
EXTENDS Integers, FiniteSets

CONSTANTS
  Procs,        \* processes that use the class
  Sizes,        \* sizes callers create sets with
  Timeouts,     \* timeouts callers pass to lock
  Persist,      \* the `persist' argument: TRUE for lock.c, FALSE for the
                \* guard of a SharedMemory
  Disciplined,  \* callers unlock only the unit they locked
  SEMVMX,       \* largest value a semaphore can have (32767 on Linux)
  MaxSets       \* bound: sets created in one behaviour

ASSUME ConstantsAssumption ==
  /\ IsFiniteSet(Procs)
  /\ Sizes \subseteq Nat
  /\ Timeouts \subseteq Int
  /\ Persist \in BOOLEAN
  /\ Disciplined \in BOOLEAN
  /\ SEMVMX \in Nat
  /\ MaxSets \in Nat

VARIABLES
  sem,   \* the set the key is bound to: its id, its value and the size it
         \* was initialised with (a history value: the kernel keeps none)
  made,  \* sets created so far; the next id is made + 1
  adj,   \* semadj of each process on the current set
  this,  \* each process's Semaphore object, or NULL
  pc,    \* where each process is inside a method
  left,  \* lock: 0 blocking, -1 non-blocking, n > 0 polls still allowed
  ret,   \* what the last method returned; -1 also stands for NULL
  held   \* id of the set a unit of which the process was told it locked

vars == <<sem, made, adj, this, pc, left, ret, held>>

LOCK_NONBLOCK == -1
LOCK_BLOCKING == 0

Uninitialised == -1
NoSet == [id |-> 0, val |-> 0, size |-> Uninitialised]
NULL == [id |-> 0, size |-> 0]

Steps == {"idle", "setall", "reattach", "semop", "sleep", "post"}

TypeOK ==
  /\ sem \in [id : Nat, val : Int, size : Nat \cup {Uninitialised}]
  /\ made \in Nat
  /\ adj \in [Procs -> Int]
  /\ this \in [Procs -> [id : Nat, size : Nat]]
  /\ pc \in [Procs -> Steps]
  /\ left \in [Procs -> Int]
  /\ ret \in [Procs -> Int]
  /\ held \in [Procs -> Nat]

Init ==
  /\ sem = NoSet
  /\ made = 0
  /\ adj = [p \in Procs |-> 0]
  /\ this = [p \in Procs |-> NULL]
  /\ pc = [p \in Procs |-> "idle"]
  /\ left = [p \in Procs |-> 0]
  /\ ret = [p \in Procs |-> 0]
  /\ held = [p \in Procs |-> 0]

-----------------------------------------------------------------------------
(* Helpers.                                                                *)

\* The id in p's object still names the set: semop and semctl find it.
live(p) == this[p].id # 0 /\ this[p].id = sem.id

\* semctl(GETVAL); -1 once the set is gone.
getval(p) == IF live(p) THEN sem.val ELSE -1

\* Mutant: off by one.
used_mutant(p) == this[p].size - getval(p) - 1

\* Semaphore$used
used(p) == this[p].size - getval(p)

Return(p, e) ==
  /\ pc' = [pc EXCEPT ![p] = "idle"]
  /\ left' = [left EXCEPT ![p] = 0]
  /\ ret' = [ret EXCEPT ![p] = e]

\* semop looks the id up as it is entered: a removed set is EINVAL.
EnterSemop(p, n) ==
  \/ /\ live(p)
     /\ pc' = [pc EXCEPT ![p] = "semop"]
     /\ left' = [left EXCEPT ![p] = n]
     /\ UNCHANGED ret
  \/ /\ ~live(p)
     /\ Return(p, -1)

\* Mutants: SEM_UNDO forgotten in lock, and in unlock.
Undo_lock_mutant(p, n) == IF Persist \/ n = -1 THEN adj ELSE [adj EXCEPT ![p] = @ - n]
Undo_unlock_mutant(p, n) == IF Persist \/ n = 1 THEN adj ELSE [adj EXCEPT ![p] = @ - n]

\* What SEM_UNDO adds to the adjustment for an operation that adds n.
Undo(p, n) == IF Persist THEN adj ELSE [adj EXCEPT ![p] = @ - n]

-----------------------------------------------------------------------------
(* Constructors and destructor.                                            *)

\* Semaphore$new: semget(IPC_CREAT|IPC_EXCL).  It returns NULL when the set
\* exists and the caller does not want that one, and whenever malloc or semget
\* fails for want of room (ENOMEM, ENOSPC).
new(p, size, attaching) ==
  /\ pc[p] = "idle" /\ this[p] = NULL
  /\ \/ /\ sem.id = 0 /\ made < MaxSets
        /\ made' = made + 1
        /\ sem' = [id |-> made + 1, val |-> 0, size |-> Uninitialised]
        /\ this' = [this EXCEPT ![p] = [id |-> made + 1, size |-> size]]
        /\ pc' = [pc EXCEPT ![p] = "setall"]
        /\ UNCHANGED <<left, ret>>
     \/ /\ sem.id # 0 /\ attaching
        /\ this' = [this EXCEPT ![p].size = size]
        /\ pc' = [pc EXCEPT ![p] = "reattach"]
        /\ UNCHANGED <<sem, made, left, ret>>
     \/ /\ Return(p, -1)
        /\ UNCHANGED <<sem, made, this>>
  /\ UNCHANGED <<adj, held>>

\* Semaphore$init: semctl(SETALL), ERANGE above SEMVMX.  On failure new
\* frees the object and leaves the set behind.
setall(p) ==
  /\ pc[p] = "setall"
  /\ \/ /\ live(p) /\ this[p].size <= SEMVMX
        /\ sem' = [id |-> sem.id, val |-> this[p].size, size |-> this[p].size]
        /\ adj' = [q \in Procs |-> 0]
        /\ Return(p, 0)
        /\ UNCHANGED this
     \/ /\ ~live(p) \/ this[p].size > SEMVMX
        /\ this' = [this EXCEPT ![p] = NULL]
        /\ Return(p, -1)
        /\ UNCHANGED <<sem, adj>>
  /\ UNCHANGED <<made, held>>

\* Mutant: init is run for an existing set as well.
reattach_mutant(p) ==
  /\ pc[p] = "reattach" /\ sem.id # 0
  /\ this' = [this EXCEPT ![p].id = sem.id]
  /\ sem' = [sem EXCEPT !.val = this[p].size]
  /\ Return(p, 0)
  /\ UNCHANGED <<made, adj, held>>

\* Semaphore$new, second semget after EEXIST: the set may be gone by now.
reattach(p) ==
  /\ pc[p] = "reattach"
  /\ \/ /\ sem.id # 0
        /\ this' = [this EXCEPT ![p].id = sem.id]
        /\ Return(p, 0)
     \/ /\ sem.id = 0
        /\ this' = [this EXCEPT ![p] = NULL]
        /\ Return(p, -1)
  /\ UNCHANGED <<sem, made, adj, held>>

\* Semaphore$attach: the object starts out as a mutex, whatever the set is.
attach(p) ==
  /\ pc[p] = "idle" /\ this[p] = NULL
  /\ \/ /\ sem.id # 0
        /\ this' = [this EXCEPT ![p] = [id |-> sem.id, size |-> 1]]
        /\ Return(p, 0)
     \/ /\ sem.id = 0
        /\ Return(p, -1)
        /\ UNCHANGED this
  /\ UNCHANGED <<sem, made, adj, held>>

\* Semaphore$set_size
set_size(p, n) ==
  /\ pc[p] = "idle" /\ this[p] # NULL
  /\ this' = [this EXCEPT ![p].size = n]
  /\ UNCHANGED <<sem, made, adj, pc, left, ret, held>>

\* Semaphore$delete, with IPC_RMID when asked; the object is freed anyway.
delete(p, remove) ==
  /\ pc[p] = "idle" /\ this[p] # NULL
  /\ Disciplined /\ ~Persist => held[p] # this[p].id
  /\ \/ /\ remove /\ live(p)
        /\ sem' = NoSet
        /\ adj' = [q \in Procs |-> 0]
     \/ /\ ~remove \/ ~live(p)
        /\ UNCHANGED <<sem, adj>>
  /\ this' = [this EXCEPT ![p] = NULL]
  /\ UNCHANGED <<made, pc, left, ret, held>>

-----------------------------------------------------------------------------
(* Semaphore$lock.                                                         *)

\* Call: below LOCK_NONBLOCK the polling loop has no iteration at all.
lock(p, timeout) ==
  /\ pc[p] = "idle" /\ this[p] # NULL
  /\ Disciplined => held[p] # this[p].id
  /\ IF timeout < LOCK_NONBLOCK THEN Return(p, 1) ELSE EnterSemop(p, timeout)
  /\ UNCHANGED <<sem, made, adj, this, held>>

\* semop(-1) goes through, at once or after waiting for the value.
acquire(p) ==
  /\ pc[p] = "semop" /\ live(p) /\ sem.val > 0
  /\ sem' = [sem EXCEPT !.val = @ - 1]
  /\ adj' = Undo(p, -1)
  /\ held' = [held EXCEPT ![p] = this[p].id]
  /\ Return(p, 0)
  /\ UNCHANGED <<made, this>>

\* Mutants: EAGAIN taken for success; a poll that is not counted.
again_success_mutant(p) ==
  /\ pc[p] = "semop" /\ live(p) /\ sem.val = 0 /\ left[p] # LOCK_BLOCKING
  /\ held' = [held EXCEPT ![p] = this[p].id]
  /\ Return(p, 0)
  /\ UNCHANGED <<sem, made, adj, this>>
again_forever_mutant(p) ==
  /\ pc[p] = "semop" /\ live(p) /\ sem.val = 0 /\ left[p] > 0
  /\ pc' = [pc EXCEPT ![p] = "sleep"]
  /\ UNCHANGED <<sem, made, adj, this, left, ret, held>>

\* EAGAIN under IPC_NOWAIT: a polling caller sleeps and tries again.
again(p) ==
  /\ pc[p] = "semop" /\ live(p) /\ sem.val = 0
  /\ \/ /\ left[p] = LOCK_NONBLOCK
        /\ Return(p, 1)
     \/ /\ left[p] > 0
        /\ pc' = [pc EXCEPT ![p] = "sleep"]
        /\ left' = [left EXCEPT ![p] = @ - 1]
        /\ UNCHANGED ret
  /\ UNCHANGED <<sem, made, adj, this, held>>

\* EIDRM, the set went while semop was in the kernel.  The blocking and the
\* non-blocking branch keep e = 0; the polling loop goes round again and
\* meets EINVAL, or runs out of iterations.
removed(p) ==
  /\ pc[p] = "semop" /\ ~live(p)
  /\ \/ /\ left[p] \in {LOCK_BLOCKING, LOCK_NONBLOCK}
        /\ held' = [held EXCEPT ![p] = this[p].id]
        /\ Return(p, 0)
     \/ /\ left[p] > 0
        /\ Return(p, IF left[p] = 1 THEN 1 ELSE -1)
        /\ UNCHANGED held
  /\ UNCHANGED <<sem, made, adj, this>>

\* EINTR: a caught signal, or a stop and a continue, ends a blocking wait.
interrupted(p) ==
  /\ pc[p] = "semop" /\ left[p] = LOCK_BLOCKING /\ live(p) /\ sem.val = 0
  /\ Return(p, -1)
  /\ UNCHANGED <<sem, made, adj, this, held>>

\* sleep(1) is over: next iteration, or e = 1 after the last one.
wake(p) ==
  /\ pc[p] = "sleep"
  /\ IF left[p] = 0 THEN Return(p, 1) ELSE EnterSemop(p, left[p])
  /\ UNCHANGED <<sem, made, adj, this, held>>

-----------------------------------------------------------------------------
(* Semaphore$unlock.                                                       *)

\* Mutant: the check is off by one.
unlock_mutant(p) ==
  /\ pc[p] = "idle" /\ this[p] # NULL
  /\ Disciplined => held[p] = this[p].id
  /\ \/ /\ used(p) > 1
        /\ pc' = [pc EXCEPT ![p] = "post"]
        /\ UNCHANGED <<left, ret>>
     \/ /\ used(p) <= 1
        /\ Return(p, -1)
  /\ UNCHANGED <<sem, made, adj, this, held>>

\* The check: is anything in use?
unlock(p) ==
  /\ pc[p] = "idle" /\ this[p] # NULL
  /\ Disciplined => held[p] = this[p].id
  /\ \/ /\ used(p) > 0
        /\ pc' = [pc EXCEPT ![p] = "post"]
        /\ UNCHANGED <<left, ret>>
     \/ /\ used(p) <= 0
        /\ Return(p, -1)
  /\ UNCHANGED <<sem, made, adj, this, held>>

\* The act: semop(+1), a system call later.
post(p) ==
  /\ pc[p] = "post"
  /\ \/ /\ live(p) /\ sem.val < SEMVMX
        /\ sem' = [sem EXCEPT !.val = @ + 1]
        /\ adj' = Undo(p, 1)
        /\ held' = [held EXCEPT ![p] = IF @ = this[p].id THEN 0 ELSE @]
        /\ Return(p, 0)
     \/ /\ ~live(p) \/ sem.val >= SEMVMX
        /\ Return(p, -1)
        /\ UNCHANGED <<sem, adj, held>>
  /\ UNCHANGED <<made, this>>

-----------------------------------------------------------------------------
\* The kernel's part of a process's end (normal or not): exit_sem applies
\* the adjustment, clipped to the range of a semaphore.
settle(p) ==
  LET v == sem.val + adj[p]
  IN  [sem EXCEPT !.val = IF v < 0 THEN 0 ELSE IF v > SEMVMX THEN SEMVMX ELSE v]

\* A process ends anywhere, and another takes its place.
exit(p) ==
  /\ this[p] # NULL \/ held[p] # 0
  /\ sem' = settle(p)
  /\ adj' = [adj EXCEPT ![p] = 0]
  /\ this' = [this EXCEPT ![p] = NULL]
  /\ Return(p, 0)
  /\ held' = [held EXCEPT ![p] = 0]
  /\ UNCHANGED made

\* The steps of a method that has been called: the process runs on.
Run(p) ==
  \/ setall(p)
  \/ reattach(p)
  \/ acquire(p)
  \/ again(p)
  \/ removed(p)
  \/ wake(p)
  \/ post(p)

Call(p) ==
  \/ \E n \in Sizes, a \in BOOLEAN : new(p, n, a)
  \/ attach(p)
  \/ \E n \in Sizes : set_size(p, n)
  \/ \E r \in BOOLEAN : delete(p, r)
  \/ \E t \in Timeouts : lock(p, t)
  \/ unlock(p)

Next == \E p \in Procs : Run(p) \/ Call(p) \/ interrupted(p) \/ exit(p)

Spec == Init /\ [][Next]_vars

\* A runnable process runs; callers that bracket their work get to their
\* unlock; the kernel hands a released unit to the longest blocked waiter.
Fairness ==
  \A p \in Procs :
    /\ WF_vars(Run(p))
    /\ SF_vars(left[p] = LOCK_BLOCKING /\ acquire(p))
    /\ WF_vars(Disciplined /\ unlock(p))

FairSpec == Spec /\ Fairness

-----------------------------------------------------------------------------
(* Correctness.                                                            *)

\* The processes that were told they locked a unit of the set as it is now.
Owners == {p \in Procs : held[p] # 0 /\ held[p] = sem.id}

initialised == sem.size # Uninitialised

\* The units handed out by lock and the units still in the kernel's value
\* never exceed the size the set was initialised with (Semaphore$init), over
\* crashes, removals, re-creations and handles with a wrong size.
MutualExclusion ==
  /\ ~initialised => Owners = {}
  /\ initialised => sem.val + Cardinality(Owners) <= sem.size

\* With SEM_UNDO (persist = 0) no unit is ever lost: whatever is not held is
\* available, even after a process died between lock and unlock.
NoLostUnit ==
  ~Persist /\ initialised => sem.val + Cardinality(Owners) = sem.size

\* Semaphore$unlock never refuses a process that holds a unit, provided its
\* object carries the size of the set: neither by the used() check nor by
\* ERANGE of the semop that follows it.
HolderCanUnlock ==
  \A p \in Procs :
    p \in Owners /\ live(p) /\ this[p].size = sem.size
      => used(p) > 0 /\ sem.val < SEMVMX

\* The inductive invariant behind the three, by parts.
IdsInv ==
  /\ sem.id \in {0, made}
  /\ sem.id = 0 => sem = NoSet
  /\ \A p \in Procs :
       /\ this[p].id <= made /\ held[p] <= made
       /\ this[p].id # 0 => held[p] <= this[p].id

\* Only the creator of a set initialises it, and only once.
CreatorInv ==
  \A p \in Procs : pc[p] = "setall" =>
    /\ this[p].id # 0
    /\ this[p].size \in Sizes
    /\ live(p) => ~initialised
    /\ \A q \in Procs : pc[q] = "setall" /\ this[q].id = this[p].id => q = p

\* Where a process is in lock and unlock agrees with what it holds.
BracketInv ==
  \A p \in Procs :
    /\ pc[p] \in {"semop", "sleep"} => this[p].id # 0 /\ held[p] # this[p].id
    /\ pc[p] = "post" => held[p] = this[p].id

\* The kernel's undo count is the unit held, and nothing else.
UndoInv ==
  \A p \in Procs : adj[p] = IF ~Persist /\ p \in Owners THEN 1 ELSE 0

ValueInv ==
  /\ sem.val >= 0
  /\ ~initialised => sem.val = 0
  /\ initialised => sem.size \in Sizes /\ sem.size <= SEMVMX

IInv ==
  TypeOK /\ IdsInv /\ CreatorInv /\ BracketInv /\ UndoInv /\ ValueInv
         /\ MutualExclusion /\ NoLostUnit

\* A blocking lock on an initialised set of at least one unit comes to an
\* end: the process gets its unit, is interrupted, or learns that the set is
\* gone (Semaphore$lock with LOCK_BLOCKING).
EveryWaitEnds ==
  \A p \in Procs :
    (pc[p] = "semop" /\ left[p] = LOCK_BLOCKING /\ initialised /\ sem.size > 0)
      ~> pc[p] # "semop"

\* lock with a timeout, and lock with LOCK_NONBLOCK, return whatever the
\* others do, on a set that was never initialised as well.
PolledLockReturns ==
  \A p \in Procs :
    (pc[p] \in {"semop", "sleep"} /\ left[p] # LOCK_BLOCKING) ~> pc[p] = "idle"

\* The class implements the pool of ResourcePool.
Pool == INSTANCE ResourcePool WITH
  Clients <- Procs, Capacities <- Sizes, Closed <- Uninitialised,
  capacity <- sem.size, holders <- Owners

ImplementsPool == Pool!Spec

\* "On success, this method returns 0.  Success means that the lock was
\* successfully made" (Semaphore$lock): a lock that returns 0 took a unit.
LockSuccessMeansHeld ==
  [][\A p \in Procs :
       pc[p] = "semop" /\ pc'[p] = "idle" /\ this'[p] # NULL /\ ret'[p] = 0
         => sem'.val = sem.val - 1]_vars

=============================================================================
