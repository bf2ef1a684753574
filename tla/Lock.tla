-------------------------------- MODULE Lock --------------------------------
(***************************************************************************)
(* The lock command (src/lock.c): create, on, off, status, summary and     *)
(* delete of one key, run by shell scripts that bracket their work with    *)
(* `on' and `off'.  A lock is three kernel objects: the semaphore set      *)
(* users wait on (an instance of Semaphore, without SEM_UNDO so that the   *)
(* unit outlives the command that took it), a segment of words that        *)
(* remembers the size and the expiry, and the guard of that segment.       *)
(*                                                                         *)
(* Words are read and written by SharedMemory's uint methods, one step     *)
(* each: they wait for an initialised guard, and abort the command when    *)
(* the guard they know is gone (see SharedMemory).                         *)
(***************************************************************************)
EXTENDS Integers, FiniteSets

CONSTANTS
  Procs,     \* the scripts; each runs one command at a time
  Sizes,     \* -s of create
  Expires,   \* -x of create, 0 for none
  Timeouts,  \* -t of on
  SEMVMX,
  Crashes,   \* can commands be killed?
  MaxSets,   \* bound: sets created, and so segments and guards too
  MaxNow     \* bound: the clock

ASSUME LockAssumption ==
  /\ IsFiniteSet(Procs)
  /\ Sizes \subseteq Nat /\ Expires \subseteq Nat /\ Timeouts \subseteq Int
  /\ Crashes \in BOOLEAN
  /\ {SEMVMX, MaxSets, MaxNow} \subseteq Nat

VARIABLES
  sem, made, adj, this, pc, left, ret, held,  \* the users' set, see Semaphore
  ctime,   \* sem_ctime of the set
  now,     \* time(NULL)
  shmid,   \* the segment under the key, or 0
  segs,    \* segments created so far
  mem,     \* words 0, 1 and 2 of every segment
  guard,   \* the guard under key + 128: its id, and whether SETALL is done
  guards,  \* guards created so far
  obj,     \* each command's SharedMemory object: segment and guard, or 0
  cmd,     \* the command each script runs
  at,      \* where it is
  arg,     \* its arguments, and the globals expiry and delta init sets
  faults   \* history: "revoked", a set was removed while a unit was out;
           \* "crashed", a command died

semVars == <<sem, made, adj, this, pc, left, ret, held>>
memVars == <<shmid, segs, mem, guard, guards>>
cmdVars == <<obj, cmd, at, arg>>
vars == <<semVars, memVars, cmdVars, ctime, now, faults>>

U == INSTANCE Semaphore WITH Persist <- TRUE, Disciplined <- FALSE

NoObj == [seg |-> 0, guard |-> 0]
NoGuard == [id |-> 0, up |-> FALSE]
NoArg == [size |-> 0, expire |-> 0, timeout |-> 0,
          expiry |-> FALSE, delta |-> 0]
Zero == [size |-> 0, expiry |-> FALSE, expire |-> 0]

Commands == {"none", "create", "on", "off", "status", "delete"}
Places == {"idle", "new", "semget", "setall", "size!", "expiry!", "expire!",
           "attach", "shm", "guard", "size", "expiry", "expire", "act", "wait",
           "rmsem", "rmguard", "memset", "rmid"}

TypeOK ==
  /\ U!TypeOK
  /\ now \in 0..MaxNow /\ ctime \in 0..now
  /\ segs \in 0..MaxSets /\ shmid \in 0..segs
  /\ mem \in [1..MaxSets -> [size : Nat, expiry : BOOLEAN, expire : Nat]]
  /\ guards \in 0..MaxSets
  /\ guard \in [id : 0..guards, up : BOOLEAN]
  /\ obj \in [Procs -> [seg : 0..segs, guard : 0..guards]]
  /\ cmd \in [Procs -> Commands]
  /\ at \in [Procs -> Places]
  /\ arg \in [Procs -> [size : Nat, expire : Nat, timeout : Int,
                      expiry : BOOLEAN, delta : Int]]
  /\ faults \subseteq {"revoked", "crashed"}

Init ==
  /\ U!Init
  /\ now = 0 /\ ctime = 0
  /\ segs = 0 /\ shmid = 0
  /\ mem = [i \in 1..MaxSets |-> Zero]
  /\ guards = 0 /\ guard = NoGuard
  /\ obj = [p \in Procs |-> NoObj]
  /\ cmd = [p \in Procs |-> "none"]
  /\ at = [p \in Procs |-> "idle"]
  /\ arg = [p \in Procs |-> NoArg]
  /\ faults = {}

-----------------------------------------------------------------------------
(* Helpers.                                                                *)

go(p, place) == at' = [at EXCEPT ![p] = place]

Start(p, c, place, a) ==
  /\ cmd[p] = "none"
  /\ cmd' = [cmd EXCEPT ![p] = c]
  /\ go(p, place)
  /\ arg' = [arg EXCEPT ![p] = a]

\* main returns: whatever the process had mapped or allocated is gone.
Exit(p) ==
  /\ cmd' = [cmd EXCEPT ![p] = "none"]
  /\ go(p, "idle")
  /\ arg' = [arg EXCEPT ![p] = NoArg]
  /\ obj' = [obj EXCEPT ![p] = NoObj]

\* ... the Semaphore object included.
ExitFree(p) ==
  /\ Exit(p)
  /\ this' = [this EXCEPT ![p] = U!NULL]
  /\ ret' = [ret EXCEPT ![p] = 0]
  /\ UNCHANGED <<sem, made, adj, pc, left, held>>

\* The word methods of SharedMemory get through the guard.
guarded(p) == obj[p].guard = guard.id /\ guard.up

-----------------------------------------------------------------------------
(* create                                                                  *)

\* Semaphore$new(key, 1, semaphores, 0); a new set has a new ctime.
create(p, n, x) ==
  /\ Start(p, "create", "new", [NoArg EXCEPT !.size = n, !.expire = x])
  /\ U!new(p, n, FALSE)
  /\ ctime' = IF sem' # sem THEN now ELSE ctime
  /\ UNCHANGED <<memVars, obj, now, faults>>

\* Mutant: the id shmget returns is not checked.
shmget_mutant(p) ==
  /\ at[p] = "new" /\ pc[p] = "idle" /\ this[p] # U!NULL
  /\ shmid' = IF shmid = 0 THEN segs + 1 ELSE shmid
  /\ segs' = IF shmid = 0 THEN segs + 1 ELSE segs
  /\ obj' = [obj EXCEPT ![p].seg = IF shmid = 0 THEN segs + 1 ELSE -1]
  /\ go(p, "semget")
  /\ UNCHANGED <<cmd, arg, semVars, mem, guard, guards, ctime, now, faults>>

\* SharedMemory$new(key, .., 0): shmget, which fails if the segment exists
\* and may fail if it does not.  Every early end leaves the set.
shmget(p) ==
  /\ at[p] = "new" /\ pc[p] = "idle"
  /\ \/ /\ this[p] # U!NULL /\ shmid = 0
        /\ segs' = segs + 1 /\ shmid' = segs + 1
        /\ obj' = [obj EXCEPT ![p].seg = segs + 1]
        /\ go(p, "semget")
        /\ UNCHANGED <<cmd, arg, semVars>>
     \/ /\ ExitFree(p)
        /\ UNCHANGED <<shmid, segs>>
  /\ UNCHANGED <<mem, guard, guards, ctime, now, faults>>

\* ... shmat and the guard, Semaphore$new(key + 128, 1, 1, 0).  When either
\* fails the segment stays, without a guard.
semget(p) ==
  /\ at[p] = "semget"
  /\ \/ /\ guard.id = 0
        /\ guards' = guards + 1
        /\ guard' = [id |-> guards + 1, up |-> FALSE]
        /\ obj' = [obj EXCEPT ![p].guard = guards + 1]
        /\ go(p, "setall")
        /\ UNCHANGED <<cmd, arg, semVars>>
     \/ /\ ExitFree(p)
        /\ UNCHANGED <<guard, guards>>
  /\ UNCHANGED <<shmid, segs, mem, ctime, now, faults>>

\* Mutant: the guard is initialised to 0 units.
setall_mutant(p) ==
  /\ at[p] = "setall"
  /\ \/ /\ guard.id = obj[p].guard
        /\ go(p, "size!")
        /\ UNCHANGED <<cmd, arg, obj, semVars>>
     \/ ExitFree(p)
  /\ UNCHANGED <<memVars, ctime, now, faults>>

\* SETALL of the guard, then mlockall and mlock, which may both fail.
setall(p) ==
  /\ at[p] = "setall"
  /\ guard' = IF guard.id = obj[p].guard THEN [guard EXCEPT !.up = TRUE] ELSE guard
  /\ \/ /\ guard.id = obj[p].guard
        /\ go(p, "size!")
        /\ UNCHANGED <<cmd, arg, obj, semVars>>
     \/ ExitFree(p)
  /\ UNCHANGED <<shmid, segs, mem, guards, ctime, now, faults>>

\* write_uint of words 0, 1 and 2 (word 3 is never read).
write_uint(p) ==
  /\ guarded(p)
  /\ \/ /\ at[p] = "size!"
        /\ mem' = [mem EXCEPT ![obj[p].seg].size = arg[p].size]
        /\ go(p, "expiry!")
        /\ UNCHANGED <<cmd, arg, obj, semVars>>
     \/ /\ at[p] = "expiry!"
        /\ mem' = [mem EXCEPT ![obj[p].seg].expiry = arg[p].expire # 0]
        /\ go(p, "expire!")
        /\ UNCHANGED <<cmd, arg, obj, semVars>>
     \/ /\ at[p] = "expire!"
        /\ mem' = [mem EXCEPT ![obj[p].seg].expire = arg[p].expire]
        /\ ExitFree(p)
  /\ UNCHANGED <<shmid, segs, guard, guards, ctime, now, faults>>

-----------------------------------------------------------------------------
(* on, off and delete; init                                                *)

\* Semaphore_exists
exists == sem.id # 0

\* Semaphore$ctime; for a set that is gone it is whatever was on the stack.
ctimes(p) == IF U!live(p) THEN {ctime} ELSE 0..MaxNow

\* on: Semaphore_exists first.  A script that believes it has the lock does
\* not ask for it again.
on(p, t) ==
  /\ held[p] = 0
  /\ \/ /\ exists
        /\ Start(p, "on", "attach", [NoArg EXCEPT !.timeout = t])
     \/ /\ ~exists
        /\ Start(p, "none", "idle", NoArg)
  /\ UNCHANGED <<semVars, memVars, obj, ctime, now, faults>>

\* off, by a script that was told it has the lock.
off(p) ==
  /\ held[p] # 0
  /\ Start(p, "off", "attach", NoArg)
  /\ UNCHANGED <<semVars, memVars, obj, ctime, now, faults>>

\* status and summary
status(p) ==
  /\ Start(p, "status", "attach", NoArg)
  /\ UNCHANGED <<semVars, memVars, obj, ctime, now, faults>>

delete(p) ==
  /\ Start(p, "delete", "attach", NoArg)
  /\ UNCHANGED <<semVars, memVars, obj, ctime, now, faults>>

\* Semaphore$attach(key).  Without a set delete goes on to the segment and
\* the other commands return -1.
attach(p) ==
  /\ at[p] = "attach"
  /\ \/ /\ sem.id # 0
        /\ U!attach(p)
        /\ go(p, IF cmd[p] = "delete" THEN "rmsem" ELSE "shm")
        /\ UNCHANGED <<obj, cmd, arg>>
     \/ /\ sem.id = 0 /\ cmd[p] = "delete"
        /\ go(p, "shm")
        /\ UNCHANGED <<semVars, obj, cmd, arg>>
     \/ /\ sem.id = 0 /\ cmd[p] # "delete"
        /\ ExitFree(p)
  /\ UNCHANGED <<memVars, ctime, now, faults>>

\* SharedMemory$attach of init and delete: the segment, then its guard.
\* Without one or the other init leaves size 1 and no expiry.
shm(p) ==
  /\ at[p] = "shm"
  /\ \/ /\ shmid # 0 \/ cmd[p] # "delete"
        /\ obj' = [obj EXCEPT ![p].seg = shmid]
        /\ go(p, IF shmid # 0 THEN "guard" ELSE "act")
        /\ UNCHANGED <<semVars, cmd, arg>>
     \/ /\ shmid = 0 /\ cmd[p] = "delete"
        /\ ExitFree(p)
  /\ UNCHANGED <<memVars, ctime, now, faults>>

\* A command dies, killed or by a failed assert; the script gives up.
die(p) ==
  /\ \/ U!exit(p)
     \/ this[p] = U!NULL /\ held[p] = 0 /\ UNCHANGED semVars
  /\ Exit(p)
  /\ faults' = faults \cup {"crashed"}
  /\ UNCHANGED <<memVars, ctime, now>>

\* shmat and Semaphore$attach.  When shmat fails the guard pointer and the
\* size keep what was in the heap: zeroes, with which init gives up and
\* delete has nothing to clear, or a value that kills the command.
shsem(p) ==
  /\ at[p] = "guard"
  /\ \/ /\ obj' = [obj EXCEPT ![p].guard = guard.id]
        /\ go(p, IF cmd[p] = "delete" THEN "rmguard"
                 ELSE IF guard.id # 0 THEN "size" ELSE "act")
        /\ UNCHANGED <<semVars, memVars, cmd, arg, ctime, now, faults>>
     \/ /\ go(p, IF cmd[p] = "delete" THEN "rmid" ELSE "act")
        /\ UNCHANGED <<semVars, memVars, obj, cmd, arg, ctime, now, faults>>
     \/ die(p)

\* init: the size, the expiry flag and the expiry, one read_uint each.
read_uint(p) ==
  /\ guarded(p)
  /\ LET words == mem[obj[p].seg] IN
     \/ /\ at[p] = "size"
        /\ U!set_size(p, words.size)
        /\ go(p, "expiry")
        /\ UNCHANGED arg
     \/ /\ at[p] = "expiry"
        /\ go(p, IF words.expiry THEN "expire" ELSE "act")
        /\ arg' = [arg EXCEPT ![p].expiry = words.expiry]
        /\ UNCHANGED semVars
     \/ /\ at[p] = "expire"
        /\ go(p, "act")
        /\ \E t \in ctimes(p) :
             arg' = [arg EXCEPT ![p].delta = t + words.expire - now]
        /\ UNCHANGED semVars
  /\ UNCHANGED <<memVars, cmd, obj, ctime, now, faults>>

min(x, y) == IF x < y THEN x ELSE y

\* lock: Semaphore$lock with the time the lock has left, or delete(key) when
\* it has none; delete looks the key up again.  status and summary print.
act(p) ==
  /\ at[p] = "act"
  /\ \/ /\ cmd[p] = "on" /\ (arg[p].expiry => arg[p].delta > 0)
        /\ U!lock(p, IF ~arg[p].expiry THEN arg[p].timeout
                     ELSE IF arg[p].timeout = 0 THEN arg[p].delta
                     ELSE min(arg[p].delta, arg[p].timeout))
        /\ go(p, "wait")
        /\ UNCHANGED <<obj, cmd, arg>>
     \/ /\ cmd[p] = "on" /\ arg[p].expiry /\ arg[p].delta <= 0
        /\ U!delete(p, FALSE)
        /\ cmd' = [cmd EXCEPT ![p] = "delete"]
        /\ go(p, "attach")
        /\ UNCHANGED <<obj, arg>>
     \/ /\ cmd[p] = "off"
        /\ U!unlock(p)
        /\ go(p, "wait")
        /\ UNCHANGED <<obj, cmd, arg>>
     \/ /\ cmd[p] = "status"
        /\ ExitFree(p)
  /\ UNCHANGED <<memVars, ctime, now, faults>>

\* Mutant: the result of Semaphore$lock does not reach the exit status.
finish_mutant(p) ==
  /\ at[p] = "wait" /\ pc[p] = "idle"
  /\ Exit(p)
  /\ this' = [this EXCEPT ![p] = U!NULL]
  /\ ret' = [ret EXCEPT ![p] = 0]
  /\ held' = [held EXCEPT ![p] = IF cmd[p] = "on" THEN this[p].id ELSE 0]
  /\ UNCHANGED <<sem, made, adj, pc, left, memVars, ctime, now, faults>>

\* The result is the exit status.  After a good `off' the script has let go.
finish(p) ==
  /\ at[p] = "wait" /\ pc[p] = "idle"
  /\ Exit(p)
  /\ this' = [this EXCEPT ![p] = U!NULL]
  /\ ret' = [ret EXCEPT ![p] = 0]
  /\ held' = IF cmd[p] = "off" /\ ret[p] = 0 THEN [held EXCEPT ![p] = 0] ELSE held
  /\ UNCHANGED <<sem, made, adj, pc, left, memVars, ctime, now, faults>>

\* delete: Semaphore$delete(&shsem, 1).  Units that are out, or about to be,
\* are worth nothing from here on.
rmsem(p) ==
  /\ at[p] = "rmsem"
  /\ U!delete(p, TRUE)
  /\ go(p, "shm")
  /\ faults' = IF U!live(p) /\ \E q \in Procs : q \in U!Owners \/ pc[q] = "semop"
                 THEN faults \cup {"revoked"} ELSE faults
  /\ UNCHANGED <<memVars, obj, cmd, arg, ctime, now>>

\* delete: SharedMemory$delete(&shmem, 1), the guard it attached to first,
rmguard(p) ==
  /\ at[p] = "rmguard"
  /\ guard' = IF guard.id = obj[p].guard THEN NoGuard ELSE guard
  /\ go(p, "memset")
  /\ UNCHANGED <<semVars, shmid, segs, mem, guards, obj, cmd, arg, ctime, now, faults>>

\* then an unguarded memset of a size that attach never set,
memset(p) ==
  /\ at[p] = "memset"
  /\ \E w \in {Zero, mem[obj[p].seg]} : mem' = [mem EXCEPT ![obj[p].seg] = w]
  /\ go(p, "rmid")
  /\ UNCHANGED <<semVars, shmid, segs, guard, guards, obj, cmd, arg, ctime, now, faults>>

\* then the segment.
rmid(p) ==
  /\ at[p] = "rmid"
  /\ shmid' = IF shmid = obj[p].seg THEN 0 ELSE shmid
  /\ ExitFree(p)
  /\ UNCHANGED <<segs, mem, guard, guards, ctime, now, faults>>

-----------------------------------------------------------------------------
crash(p) == Crashes /\ cmd[p] # "none" /\ die(p)

\* A word method whose guard is gone fails its assert.
abort(p) ==
  /\ at[p] \in {"size!", "expiry!", "expire!", "size", "expiry", "expire"}
  /\ obj[p].guard # guard.id
  /\ die(p)

tick ==
  /\ now < MaxNow
  /\ now' = now + 1
  /\ UNCHANGED <<semVars, memVars, cmdVars, ctime, faults>>

\* Steps inside Semaphore's methods.
run(p) ==
  /\ U!Run(p)
  /\ ctime' = IF sem'.size # sem.size THEN now ELSE ctime
  /\ UNCHANGED <<memVars, cmdVars, now, faults>>

interrupted(p) ==
  /\ U!interrupted(p)
  /\ UNCHANGED <<memVars, cmdVars, ctime, now, faults>>

Step(p) ==
  \/ run(p) \/ shmget(p) \/ semget(p) \/ setall(p) \/ write_uint(p)
  \/ attach(p) \/ shm(p) \/ shsem(p) \/ read_uint(p) \/ act(p) \/ finish(p)
  \/ rmsem(p) \/ rmguard(p) \/ memset(p) \/ rmid(p) \/ abort(p)

Command(p) ==
  \/ \E n \in Sizes, x \in Expires : create(p, n, x)
  \/ \E t \in Timeouts : on(p, t)
  \/ off(p)
  \/ status(p)
  \/ delete(p)

Next ==
  \/ \E p \in Procs : Step(p) \/ Command(p) \/ interrupted(p) \/ crash(p)
  \/ tick

Spec == Init /\ [][Next]_vars

FairSpec == Spec /\ \A p \in Procs : WF_vars(Step(p))

-----------------------------------------------------------------------------
(* Correctness.                                                            *)

\* Until a set is removed under a script that has or is taking a unit, no
\* more scripts were told they have the lock than it has units; and until a
\* command dies, every unit is either free or with one of them.
LockExcludes ==
  /\ "revoked" \notin faults => U!MutualExclusion
  /\ faults = {} /\ U!initialised
       => sem.val + Cardinality(U!Owners) = sem.size

\* Until a command dies every command ends, `off' and a timed `on' included;
\* the exception is an `on' that blocks in semop, for a unit of a lock that
\* nobody lets go of.
CommandsReturn ==
  \A p \in Procs :
    cmd[p] # "none" ~>
      \/ cmd[p] = "none"
      \/ cmd[p] = "on" /\ pc[p] = "semop" /\ left[p] = U!LOCK_BLOCKING
      \/ "crashed" \in faults

\* "-1: Non-Blocking (Immediate return)" (usage): `on -t -1' returns.
NonBlockingReturns ==
  \A p \in Procs :
    cmd[p] = "on" /\ arg[p].timeout = U!LOCK_NONBLOCK ~> cmd[p] # "on"

=============================================================================
