# A verification of atomicles

TLA+ models of the inter-process primitives and of the commands of
`atomicles`, model-checked with TLC on small instances, and theorems about all
of them proved with TLAPS for every instance.

## The system

| part | state | operations | used by |
|---|---|---|---|
| `Semaphore` class (`src/src/Semaphore.c`) | one System V semaphore set per key, in the kernel; `id` and `size` in each process's object | `new`, `attach`, `set_size`, `lock`, `unlock`, `delete` | everything below |
| `SharedMemory` class (`SharedMemory.c`) | one segment per key and a guard, a `Semaphore` of size 1 under key + 128 | `new`, `attach`, `delete`, `read`/`write`, `read_uint`/`write_uint` | `lock`, `daemonize`, `syschk`, `ia32emu` |
| `lock` command (`lock.c`) | a set for users to wait on (no `SEM_UNDO`), and a segment with its size and expiry | `create`, `on`, `off`, `delete`, `status`, `summary` | shell scripts |
| `daemonize` command (`daemonize.c`, `.h`) | a segment with `ACTIVE`, `PID`, `CPID`, `COUNT`; signals and masks of the processes | `start`, `stop`, `status`; the daemon's loop and handler | users, `atomicles` |
| key mapping (`common.h`) | none | `SHMKEY`, `SEMKEY` through `ftok` | both classes |
| `atomicles` script | a configuration file | start, stop, restart, status of services | users |
| `ia32emu`, `registers`, `bits` | five registers in a segment under key 32 | load them, set operands, execute one instruction, store them | users |
| `syschk` | a table of pids in a segment under key 0, limits, descriptors and blocks | file, fork and memory probes, clean-up, report | users |
| `c.c`, `Mutex.c` | | scratch files | nobody |

Nothing serialises the processes but the semaphores themselves. Every method is
a short sequence of system calls, another process may run between any two of
them, any process may die there, and every kernel object can be removed and
made again under the same key by somebody else. What makes each part correct:

* **Semaphore**: never more units out than the set has; a unit taken with
  `SEM_UNDO` is never lost; `unlock` does not refuse a holder; waits end.
* **SharedMemory**: accesses exclude each other, texts are read whole, no
  access hangs for a process that died, the assert after `unlock` fails only
  when the guard was removed (the one after `lock` also fails for a signal,
  `EINTR`), a constructor never leaves a guard nobody will initialise.
* **lock**: no more scripts believe they hold the lock than it has units;
  commands end.
* **daemonize**: workers are replaced, stopping works, the words in the segment
  do not outlive the processes they name.
* **keys**: commands on different keys never meet in the kernel.
* **syschk**: no probe claims more than the limit; each gives back what it took,
  but for what came with a sample; the command ends and lets go of the children
  that have got to `pause()`, unless the guard it found under its key was never
  initialised. That the table has room for the pids does not hold.
* **ia32emu**: the registers pass from one invocation to the next, the flags of
  a `TEST` decide the jumps after it, shifts divide as their comments say.

`PROJECT.json` lists the hazards at their lines, the definitions with the lines
they model, the runs, the mutants and the theorems.

## Modules

| module | models |
|---|---|
| `ResourcePool` | the promise of the Semaphore class: a pool whose units are granted, released and revoked |
| `Semaphore` | the class, one action per system call |
| `SharedMemory` | the class, over an instance `G` of `Semaphore` as its guard |
| `Lock` | the command, over an instance `U` of `Semaphore` (`Persist = TRUE`) |
| `Daemonize` | start, stop, status, the daemon, its workers and their signals |
| `Keys` | `ftok`, the key of a guard, which objects a command owns; the theorem about them |
| `Syschk` | the command, its children, and commands that meet its table |
| `Ia32emu` | the command and the registers, over words as sets of bits |
| `SemaphoreProofs`, `SharedMemoryProofs`, `LockProofs`, `DaemonizeProofs`, `SyschkProofs`, `Ia32emuProofs` | the theorems about them |
| `WordProofs` | induction, and what shifts and flags are as arithmetic; extended by `Ia32emuProofs` |
| `MC*` | instances for TLC |

Definitions have the names of the source where TLA+ allows it. An action whose
name ends in `_mutant` is a plausible wrong version of the definition after it,
used to check that the properties notice; no next-state relation refers to it.

**Semaphore.** `sem` is the set under the key (id 0 when there is none), `this`
the objects, `pc`, `left` and `ret` the place, the polls left and the result of
the call each process is in, `adj` the kernel's undo counts, `held` the set a
process was told it has a unit of. Callers in the package only make sets of one
semaphore, so a set is its value. `new` and `reattach` are the two `semget`s of
`Semaphore$new`, which may fail at any time (`malloc`, `ENOSPC`), `setall` is
`Semaphore$init`; `lock`, `acquire`, `again`,
`removed`, `interrupted` and `wake` are `Semaphore$lock` with `EAGAIN`, `EIDRM`,
`EINTR` and the `sleep` of its polling branch (the branch under `#ifdef Linux`
is not compiled: nothing defines that name); `unlock` is the check of
`Semaphore$unlock` and `post` its `semop`. `Disciplined` restricts callers to
unlocking what they locked. `SharedMemory` checks that it is such a caller
(`GuardIsDisciplined`); the `lock` command is not. Without discipline the value
can rise above the size, because `unlock` checks `used` and posts in two system
calls: two processes that see one unit in use both post, and so does one that
checks a set before its creator's `SETALL`. `lock off` run twice is such a
caller, and a mutex released twice admits two holders from then on.

**SharedMemory.** A text is copied in two halves so that it can be torn; the
`uint` methods make one aligned access. `spoiled` records the segments whose
guard was removed or whose writer died in the middle. The size member is unset
after `attach`, so `memset` in `delete` clears anything from nothing to all.
The constructors may fail at every call: `malloc` and `shmget` (`new`), `shmat`
although the segment is there (`shmat`), the `semget` of the guard (`G!new`),
`mlock` (`guarded`). `new` then frees its object and leaves the segment, without
a guard if it had not come to it; `bare` records that this has happened.

**Lock.** The guard of the segment is abstracted to its id and whether it is
initialised; a word method is one step that waits for it or aborts the command.
`shmget` and `semget` may fail for lack of resources. When `shmat` does, `attach`
returns an object whose guard and size are what the heap held (`shsem`): zeroes,
with which the command goes on without the words, or something it dies of.
`faults` records removals under a holder and deaths, after which less can be
promised. `status` and `summary` are one command, which reads what `off` reads
and prints. A script asks for the lock only when it does not believe it has it.

**Daemonize.** `proc` has every process with its place, segment object, mask,
pending signals and their actions; `word` has the words, `user` the commands. A
handler may interrupt any step; inside a word method it may jump away with the
guard (`holder`). The handlers are installed one by one (`sigaction`), so a
signal may come before its handler is there. `TERM` stands for the signals that
have one and are passed on, `QUIT` for all that have none (`SIGQUIT`, `SIGPIPE`
and so on), which end the daemon; `killed` records that this or `SIGKILL` has
happened to one of its processes. `Faults` says what may go wrong besides: a
signal sent by hand, `SIGKILL`, a worker stopped or continued, a failed fork II
or III, a killed command; `MaxFaults` how often. After a failed fork II the
intermediate process is the daemon and `PID` is never set, so `stop` does not
find it and `start` makes a second one; after a failed fork III `CPID` is -1 and
`stop` signals every process it may. A failed fork I makes `start` itself the
intermediate, which is a process like any other. `SaveMask` is FALSE on Linux,
where `setjmp` does not save the mask. A segment and its guard are made and
removed in one step each (their windows are the subject of `SharedMemory`). The
value of the uninitialised `status` in `wait_for_signal` is a choice between
leaving the loop and staying in it. The `atomicles` script is one of the users:
it runs `start`, `stop`, `status`, or `stop` and then `start`. The polling of
`start` and what `status` prints read the words and change nothing.

**Syschk.** `at` is where `main` is; a step is one `open`, `fork`, store or
allocation with what follows it. `performance` is reduced to what its callers
tell apart: no sample, a fast one, a slow one. Its static `counter_last` is
kept, because nothing resets it between the probes: the first sample of a probe
subtracts the count of the one before it and may report any speed. `child` has
the children on their way to `pause()`, in it, woken, or past the signal that
was meant to wake them (`deaf`: the code never lets those go). `mine` says what
is left of the table: `intrude` is another command that deletes the objects of
its own key, and `Keys` decides whether these are the table or its guard. A
table that an earlier run left behind may be there from the start, with pids in
it and of any size, and a guard with or without its value. `SharedMemory$new`
takes what it finds: its second `shmget` asks for size 0. A pid stored beyond a
small table goes to the rest of its page or is a `SIGSEGV`; a guard without a
value is waited for for ever (`Blocked`).

**Ia32emu.** `at` counts the five loads, the execution and the five stores of an
invocation, `words` is the segment. A word is the set of its one bits. `main` is
a function of the registers and of a command line, options included; wrong
options fail or read through a null pointer as in the code. `ideal` is what the
registers would be if every command were one step, `tested` the result of the
latest `TEST`; both say nothing once invocations overlap or one dies while it
stores (`disturbed`): nothing serialises invocations, and then updates are lost.
Four things the code does and the module repeats: all four shift instructions
are executed as `SAR`; `ADD`, `OR` and `XOR` start from an empty buffer and so
move the source, and `SUB` gives 0 minus the source; `JCXZ` reads through a null
pointer; an immediate source operand is only usable after `-r`.

## Runs

| run | bounds | shows |
|---|---|---|
| `Semaphore` | 2 processes, sizes 1, 2 and 3 with `SEMVMX` 2 (so `SETALL` can fail), 2 sets, timeouts -2, -1, 0, 2 | `IInv`, `MutualExclusion`, `NoLostUnit`, `HolderCanUnlock`, `ImplementsPool`, `EveryWaitEnds`, `PolledLockReturns` |
| `SemaphoreRemoved` | 2 processes | *violated*: a lock that returns 0 took a unit |
| `SharedMemorySafe` | 2 processes, 2 segments, 2 guards | `GuardedAccess`, `ReadsAreWhole`, `NoFalseAbort`, `SegmentHasGuard`, `GuardIsDisciplined` |
| `SharedMemoryLive` | 2 processes, 1 segment, 2 guards | `AccessReturns` |
| `LockSafe` | 2 scripts, the lock made twice | `LockExcludes` |
| `LockLive` | 2 scripts, a lock that expires at time 1 or never, no command killed | `LockExcludes`, `CommandsReturn` |
| `LockNoWait` | 2 scripts, only `-t -1` | *violated*: `on -t -1` returns |
| `DaemonizeSafe` | 4 forked processes, 2 segments, one fault of any kind, a signal without a handler included | `NoGhost` |
| `DaemonizeLive` | 3 forked processes, two faults: a failed fork II or III, `SIGTERM`, a stopped worker | `WorkerReplaced`, `CaughtUSR1Dies` |
| `DaemonizeUSR1` | 4 forked processes, no fault | *violated*: a process sent SIGUSR1 dies |
| `Syschk` | limits of a few descriptors, processes and blocks, on either side of the host's; tables of every size and guards of every state left over; others on keys 0, 41 and 128 | `ReachWithinLimit`, `HandedBack`, `ProbeEnds`, `NoOrphans` |
| `Ia32emu` | 2 invocations at once and in all, words of 16 bits, 4 values in `eax` and `ebx`, every instruction, every kind of wrong option | `ShiftsDivide`, `TestThenJump`, `SerialWhenAlone` |

Two processes are enough for every race between two calls, and the theorems
hold for any number. Two sets or segments
are needed for an object that is stale because the key was bound again. Size 3
with `SEMVMX` 2 is the numeric edge. Four forked processes are the intermediate
one, the daemon and two workers, or a second start. Three are enough for
`DaemonizeLive`: the second worker takes the room of a fork II that failed.
`LockExcludes` speaks until a set is removed under a script, and `CommandsReturn`
of every command but an `on` that blocks in `semop` for a unit that nobody gives
back: `off` and a timed `on` return. Process ids and kernel ids
are never reused in the models. In `Syschk` the limits are small enough that
every one of them is met, the host's and the user's, and large enough for a
sample in between. Words of 16 bits have room for the flags (`OF` is bit 11);
two invocations are a `TEST` and a jump, one that dies and one after it, or two
that overlap. `CHECK_DEADLOCK FALSE` is set for `Daemonize`, where everything
may have ended and the bound on forks stops a daemon, and for `Syschk` and
`Ia32emu`, whose commands end.

Some sentences about the code do not hold and are no run's property; the models
do what the code does, and the hazards name them. Usage says that any signal
that can be caught is passed on to the worker (`daemonize.c:139`), but the
daemon has handlers for seven (351-357) and any other ends it with `PID` and
`CPID` set (`QUIT` in `DaemonizeSafe`, after which `NoGhost` says nothing). A
table that is too small for `syschk` is not refused, because `SharedMemory$new`
looks an existing segment up with size 0 (`SharedMemory.c:50`), and pids are
stored beyond it. A guard whose creator died before `SETALL` blocks `syschk` for
ever, and its child with it.

Each violated property is a sentence of the repository's own documentation; the
findings in `PROJECT.json` quote them.

### Fairness

* `Semaphore`: a process inside a method is scheduled again (`WF` of `Run`);
  the kernel serves blocked waiters in order, so one whose unit keeps becoming
  free gets it (`SF` of a blocking `acquire`); disciplined callers get to
  their `unlock`.
* `SharedMemory`: the same for its methods; nobody has to call one.
* `Lock`: a command that can take a step takes it.
* `Daemonize`: the processes of the daemon are not left idle while one of them
  can run or take a signal. No user and no worker has to do anything.
* `Syschk`: the command and its children are scheduled; nobody interferes that
  does not want to.
* `Ia32emu` states no liveness: an invocation has no loop to be caught in.

## Proofs

Every theorem holds for all values of the constants that the named assumption of
the component's module allows. Each module has the same plan: an inductive
invariant `IInv` in named parts, a lemma per action that the action preserves
it, frame lemmas for the parts an action does not touch, `InvariantHolds`
(`Spec => []IInv`), and one theorem per property, which follows from `IInv`.
TLC has checked every `IInv`, and `TInv` of `Ia32emuProofs`, on the instances of
the runs.

| module | theorems |
|---|---|
| `SemaphoreProofs` | `TypeCorrect`; assuming `Disciplined`: `InvariantHolds`, `MutualExclusionHolds`, `NoLostUnitHolds`, `HolderCanUnlockHolds`, `SemaphoreImplementsPool` |
| `SharedMemoryProofs` | `InvariantHolds`, `TypeCorrect`, `GuardedAccessHolds`, `ReadsAreWholeHolds`, `NoFalseAbortHolds`, `SegmentHasGuardHolds`, `GuardIsDisciplinedHolds` |
| `LockProofs` | `InvariantHolds`, `TypeCorrect`, `LockExcludesHolds` |
| `DaemonizeProofs` | `InvariantHolds`, `TypeCorrect`, `NoGhostHolds` |
| `SyschkProofs` | `InvariantHolds`, `TypeCorrect`, `ReachWithinLimitHolds`, `HandedBackHolds` |
| `WordProofs` | `ShiftLaws` |
| `Ia32emuProofs` | `InvariantHolds`, `SerialWhenAloneHolds`, `FlagsInvariantHolds`, `TypeCorrect`, `TestThenJumpHolds`, `ShiftsDivideHolds` |
| `Keys` | `KeysApart` |

**Semaphore.** Any finite set of processes, sizes and timeouts, `Persist` either
way, every `SEMVMX`. `MutualExclusion` is not inductive. A late `setall` could
wipe out grants unless only the creator of a set initialises it, once, while
nobody holds a unit (`CreatorInv`, `ValueInv`); a `post` could overfill the set
unless the process holds a unit of that very set (`BracketInv`); the end of a
process could give back too much unless its undo count is exactly its unit
(`UndoInv`); and a stale object must never come to name a later set (`IdsInv`).
The refinement maps `capacity` to the size the set was initialised with and
`holders` to `Owners`: `setall` opens the pool, `acquire` and `post` grant and
release, the end of a process releases, `delete` with `IPC_RMID` closes,
everything else stutters.

**SharedMemory.** Any processes, texts, segments and guards. `GuardInv` is what
is left of Semaphore's invariant for a set of one unit: the unit is in the value
or with one process. `PlaceInv` ties a place in a method of the segment to the
place in the method of the guard and to what is held there; so the access steps
are inside the bracket. That alone does not exclude two accesses, because two
processes may hold units of two guards: `BoundInv` says that whoever uses a
segment that is not `spoiled` has the guard as it is now. `SetterInv` and
`MakerInv` name the process that still has to initialise, or to make, the guard
of a fresh segment; they are why `SegmentHasGuard` and `NoFalseAbort` hold
between the system calls of `SharedMemory$new`. A constructor that fails before
it has the guard is the exception `MakerInv` makes (`bare`), and it leaves no
guard at all: one that was made is always initialised by its maker. `CopyInv`
and `TextInv` follow the halves of a text. `GuardIsDisciplinedHolds` shows that
every step is a step of a disciplined caller of `Semaphore` or leaves the guard
alone, so that the class is used as Semaphore's theorems ask.

**Lock.** Any scripts, sizes, expiries, timeouts and clock. The command uses
`Semaphore` without discipline, so nothing carries over; `LockExcludes` counts
the units in the value and with the scripts. It is inductive together with
`HeldInv`: until a set is removed under a script, a script that believes it holds
a unit holds one of the set as it is, and an `off` on its way to its `post` has
the unit it gives back. `CreatorInv` keeps a late `setall` away and `ValueInv`
the value in its range. `BoundInv` (each segment and each guard costs a `create`
that made a set) is what the types of `segs` and `guards` need.

**Daemonize.** Any users, processes, segments, faults and both values of
`SaveMask`. `NoGhost` asks for a live process of the daemon. Most live processes
do not help: a worker forgets the segment in `execvp`, the intermediate process
has no handlers, and a daemon that finds `ACTIVE` unset at `again` leaves without
clearing anything. `KeeperInv` names one that does: a `Keeper` has the segment,
and either is on its way to activate the daemon or to remove the segment
(`Bound`), or goes round in the loop while `ACTIVE` is set (`Looping`). Every
step of a keeper leaves it one, or makes it remove the segment, or is preceded
by its clearing `CPID`; a handler that jumps makes one, and a signal without a
handler that ends one sets `killed`. It is the order of the steps in the code
that makes it so: `CPID` is set before `ACTIVE`, and `die` clears `CPID` before
`ACTIVE`. `RestoredInv` (a command that runs has none of the daemon's handlers)
and `PlaceInv` are what the steps need.

**Syschk.** Any limits of user and host, tables, children and keys. `OpenInv`:
nothing is closed while files are opened, so the open descriptors are an
interval and the next one is known; `ForkInv`: what is counted was forked,
within the limit as it is; nothing is said of the table, which may be too small
for it; `CallocInv`: every block is counted until a sample is slow.

**Ia32emu.** Any width from twelve bits on (the flags need them), invocations
and command lines; of a command line only that its options are a sequence, its
count a natural number and the word of a `-v` no wider than a register.
`SerialWhenAlone` holds for whatever `main` makes of the registers. `Loading`
and `Storing` say how far the words of the one invocation and those of the
segment agree while it copies them. `ideal` is a function on the names of the
registers by definition, so that two register files are equal when their words
are.

The rest is about what `main` computes. `TInv` has the type of an invocation's
memory, which every option and every instruction preserves (the getopt loop is
a fold, and `Folded` says that a fold keeps what one turn keeps), and `TestInv`:
as long as `tested` says something, the flags in `ideal` are those of the
latest `TEST`. That `main` has run on `ideal` is `IInv`, so `TInv` is preserved
under `IInv` and not alone.

**Words.** `number` reads a word bit by bit from the top, so that after `k` bits
it has the number of the upper `k`. A round of `SHR` delays that reading by one
bit, so it drops the last and halves the number; a round of `SAR` does the same
to the reading less `2^k` times the sign (`HalfSigned`); a round of `SHL` is
ahead by one bit and without the sign (`Doubled`). `ShiftLaws` follows by
induction on the rounds, with `(a \div p) \div 2 = a \div 2p`. `NumberRange` and
`SignedRange` (0 is the empty word, negative is the top bit) make the jumps on
the flags of a `TEST` the comparisons with 0 (`JumpsOfTest`).

Induction is by the least counterexample: `WFMin` of the library is first-order,
`Least` and `UpTo` follow from it, and `Recursion` gives the recursive functions
of the model, which are `CHOOSE` expressions to the prover. Powers of two are
`pow2` and not `2^n`, of which the provers know nothing.

**Keys.** `KeysApart`: for all different keys in 0..127, the range `lock`
asks for, no segment, set or guard of one command is an object of the other. It
is arithmetic on the low eight bits `ftok` keeps. Outside that range it fails:
`lock 169` removes the guard of `lock 41`, and `daemonize` accepts any channel.

Only model-checked: liveness (`EveryWaitEnds`, `PolledLockReturns`,
`AccessReturns`, `CommandsReturn`, `WorkerReplaced`, `CaughtUSR1Dies`,
`ProbeEnds`, `NoOrphans`), which needs fairness and `ENABLED`, out of the
prover's reach.

## Not modelled

The spelling of options and numbers, printing and logging; sets of several
semaphores (nobody makes them); failures of `malloc` outside the two classes;
permissions; what lies beyond an array that is overrun; shift counts of the
width or more; file descriptors and sleep times of the daemon; reuse of process
ids; a command on key 32 that removes the registers of `ia32emu`; `chk_sock` and
`get_la` of `syschk`, which nothing calls, and its reading of `/proc`; the
configuration file of the `atomicles` script; `c.c` and `Mutex.c`, which are
scratch files without a caller; building and packaging, which do nothing at run
time.

## Plan

1. Done: every component with state of its own is modelled and checked.
2. Done: a theorem for every safety property that a run checks, the two
   refinements included.
3. Left: liveness stays with TLC. The steps a progress argument needs (what
   each wait is for, and that nobody who can end it is waiting) can be proved
   as invariants.
