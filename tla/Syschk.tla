------------------------------- MODULE Syschk -------------------------------
(***************************************************************************)
(* The syschk command (src/syschk.c): it opens files, forks and allocates  *)
(* until a limit is met or the host turns slow, gives back what it took,   *)
(* and reports how far it got.  The forked children wait in pause() and    *)
(* their pids are kept in a table in shared memory under key 0; commands   *)
(* on other keys run beside it, and others have run before it.             *)
(*                                                                         *)
(* Time is what performance() makes of it: a call comes less than six      *)
(* seconds after the last sample, or takes a sample that is fast or slow.  *)
(***************************************************************************)
EXTENDS Keys, Sequences, SequencesExt

CONSTANTS
  UserLimits,        \* what the user's limits may be
  SysLimit,          \* the host's: file-max, pid_max, overcommit
  Fast,              \* growth that six seconds at the threshold bring
  CALLOC_SIZE,       \* one block, in the unit of that growth
  CALLOC_MAX_COUNT,  \* entries of heaps
  Offsets,           \* 2^16 in the code: an offset is an unsigned short
  MaxPids,           \* bound: children
  OtherKeys          \* keys that other commands delete, one in a behaviour

ASSUME SyschkAssumption ==
  /\ \A limit \in UserLimits \cup {SysLimit} :
       limit \in [NOFILE : Nat \ 0..2, NPROC : Nat \ {0}, AS : Nat \ {0}]
  /\ {Fast, CALLOC_SIZE, CALLOC_MAX_COUNT, Offsets} \subseteq Nat \ {0}
  /\ MaxPids \in Nat /\ OtherKeys \subseteq Nat

VARIABLES
  at,            \* where main is
  rlim,          \* the process's limits
  counter_last,  \* static of performance
  fds, opened,   \* open descriptors, and those chk_open knows of
  child,         \* the children, by pid
  forked,        \* children counted
  table,         \* words of the segment under SHMEM_KEY, 0 if there is none
  guard,         \* the set that guards it: its value, if there is one
  mine,          \* what is left of the object children
  words,         \* which of its words are not 0
  heaps, blocks, \* blocks in heaps, and blocks allocated
  reason, msg,   \* the verdict of a probe, and its message
  sampled,       \* history: descriptors opened when a sample was taken
  intruder       \* history: the key deleted from under the table

openVars == <<fds, opened, sampled>>
forkVars == <<child, forked, table, guard, mine, words, intruder>>
callocVars == <<heaps, blocks>>
vars == <<at, rlim, counter_last, reason, msg, openVars, forkVars, callocVars>>

SHMEM_KEY == 0  \* IPC_PRIVATE, which SharedMemory passes to ftok
Std == 0..2
None == -1
NoMsg == [name |-> "", limit |-> 0, reach |-> 0, reason |-> "UNKNWN"]
Pids == 1..MaxPids
Words == 0..SysLimit.NPROC - 1
Reasons == {"UNKNWN", "THRSHD", "EMFILE", "ENFILE", "EAGAIN", "ENOMEM"}

TypeOK ==
  /\ at \in {"open_prepare", "open", "fork_prepare", "table", "fork", "record", "verify",
             "load", "kill", "delete", "calloc_prepare", "calloc", "done", "aborted"}
  /\ rlim \in [NOFILE : Nat, NPROC : Nat, AS : Nat]
  /\ counter_last \in Nat
  /\ Std \subseteq fds /\ opened \in Seq(fds \cup sampled)
  /\ child \in [Pids -> {"none", "new", "paused", "woken", "deaf", "gone"}]
  /\ forked \in 0..MaxPids
  /\ table \in Nat
  /\ guard \in {"none", "down", "up"}
  /\ mine \in {"none", "guarded", "unguarded", "lost"}
  /\ words \subseteq Words
  /\ heaps \in Nat /\ blocks \in Nat
  /\ reason \in Reasons
  /\ msg \in [name : {"", "OPEN", "PROC", "CALLOC"}, limit : Nat, reach : Nat, reason : Reasons]
  /\ intruder \in OtherKeys \cup {None}

\* Whoever used the key before may have left a table of any size behind,
\* partly filled, and a guard that never got its value (see SharedMemory).
Init ==
  /\ at = "open_prepare"
  /\ rlim \in UserLimits
  /\ counter_last = 0
  /\ fds = Std /\ opened = <<>> /\ sampled = {}
  /\ child = [c \in Pids |-> "none"] /\ forked = 0
  /\ table \in 0..SysLimit.NPROC
  /\ words \in IF table = 0 THEN {{}} ELSE {{}, {w \in Words : w < table}}
  /\ guard \in {"none", "down", "up"}
  /\ mine = "none" /\ intruder = None
  /\ heaps = 0 /\ blocks = 0
  /\ reason = "UNKNWN" /\ msg = NoMsg

-----------------------------------------------------------------------------
(* Limits, samples and messages.                                           *)

\* The user's limit is lowered to the system's.
setrlim(limit) ==
  rlim' = [rlim EXCEPT ![limit] = IF @ > SysLimit[limit] THEN SysLimit[limit] ELSE @]

\* What performance(counter, divider) may make of a call: "none" for -1.  A
\* first call (counter 0) only starts the clock; counter_last is never reset,
\* so after another probe the difference can wrap around to anything.
performance(counter, r) ==
  \/ r = "none" /\ UNCHANGED counter_last
  \/ /\ counter > 0
     /\ counter_last' = counter
     /\ r = "slow" \/ counter < counter_last \/ (r = "fast" /\ counter - counter_last >= Fast)

\* Msg$addMessage; the list of them is printed by Msg$dump before exit.
addMessage(name, limit, reach, why) ==
  msg' = [name |-> name, limit |-> limit, reach |-> reach, reason |-> why]

-----------------------------------------------------------------------------
(* Files.                                                                  *)

chk_open_prepare ==
  /\ at = "open_prepare" /\ at' = "open"
  /\ setrlim("NOFILE")
  /\ UNCHANGED <<counter_last, reason, msg, openVars, forkVars, callocVars>>

\* Mutant: while(--i).
kept_mutant == {opened[i] : i \in DOMAIN opened \ {1}}

\* What the loop of chk_open_cleanup closes.
kept == Range(opened)

\* Of the descriptors FD those kept are closed; then the message.
chk_open_cleanup(FD, why) ==
  /\ fds' = FD \ kept
  /\ opened' = <<>>
  /\ addMessage("OPEN", rlim.NOFILE, Len(opened) + 1, why)
  /\ at' = "fork_prepare"

\* open succeeds with the lowest free descriptor.  One that comes with a
\* sample is neither kept in opened nor closed.
chk_open(r) ==
  LET fh == CHOOSE n \in 0..rlim.NOFILE : n \notin fds /\ 0..n - 1 \subseteq fds IN
  /\ at = "open" /\ fh < rlim.NOFILE
  /\ performance(Len(opened), r)
  /\ \/ r = "none" /\ fds' = fds \cup {fh} /\ opened' = Append(opened, fh) /\ UNCHANGED <<at, msg>>
     \/ r = "fast" /\ fds' = fds \cup {fh} /\ UNCHANGED <<at, opened, msg>>
     \/ r = "slow" /\ chk_open_cleanup(fds \cup {fh}, "THRSHD")
  /\ sampled' = IF r = "none" THEN sampled ELSE sampled \cup {fh}
  /\ UNCHANGED <<rlim, reason, forkVars, callocVars>>

\* open fails; only EMFILE is of the process's own making.
open_fails(why) ==
  /\ at = "open"
  /\ why = "EMFILE" => fds = 0..rlim.NOFILE - 1
  /\ chk_open_cleanup(fds, why)
  /\ UNCHANGED <<rlim, counter_last, reason, sampled, forkVars, callocVars>>

-----------------------------------------------------------------------------
(* Processes.                                                              *)

chk_fork_prepare ==
  /\ at = "fork_prepare" /\ at' = "table"
  /\ setrlim("NPROC")
  /\ msg' = NoMsg
  /\ UNCHANGED <<counter_last, reason, openVars, forkVars, callocVars>>

\* SharedMemory$new, twice: what is there is used as it is, a table of any
\* size (the second shmget asks for NOP words) and a guard of any value.  When
\* both calls fail, assert(children != NULL) does, with what they made left.
new_table ==
  /\ at = "table"
  /\ table' \in {table, IF table = 0 THEN rlim.NPROC ELSE table}
  /\ guard' \in {guard, IF guard = "none" /\ table' # 0 THEN "up" ELSE guard}
  /\ \/ table' # 0 /\ guard' # "none" /\ mine' = "guarded" /\ at' = "fork"
     \/ UNCHANGED mine /\ at' = "aborted"
  /\ UNCHANGED <<rlim, counter_last, reason, msg, child, forked, words, intruder, openVars, callocVars>>

\* do_fork: fork gives a child, which is on its way to pause().
do_fork ==
  /\ at = "fork" /\ at' = "record"
  /\ \E c \in Pids :
       /\ child[c] = "none" /\ \A d \in 1..c - 1 : child[d] # "none"
       /\ child' = [child EXCEPT ![c] = "new"]
  /\ UNCHANGED <<rlim, counter_last, reason, msg, forked, table, guard, mine, words, intruder,
                 openVars, callocVars>>

fork_fails(why) ==
  /\ at = "fork" /\ at' = "verify"
  /\ reason' = why
  /\ UNCHANGED <<rlim, counter_last, msg, openVars, forkVars, callocVars>>

\* Mutants: the limit itself is still admitted; the child is counted before
\* its pid is stored.
room_mutant == forked <= rlim.NPROC
slot_mutant == (forked + 1) % Offsets

room == forked < rlim.NPROC
slot == forked % Offsets

\* The parent stores the pid under the guard, which it waits for, and counts
\* the child unless it comes with a sample or is one too many.  An assert
\* fails when the guard is gone.  Beyond the table is the rest of its page,
\* which takes the pid, or a SIGSEGV.
record(r) ==
  /\ at = "record"
  /\ \/ /\ room /\ mine = "guarded" /\ guard = "up"
        /\ words' = words \cup {slot}
        /\ performance(forked, r)
        /\ forked' = IF r = "none" THEN forked + 1 ELSE forked
        /\ at' = IF r = "slow" THEN "verify" ELSE "fork"
        /\ reason' = IF r = "slow" THEN "THRSHD" ELSE reason
     \/ /\ \/ room /\ mine # "guarded" /\ at' = "aborted"
           \/ room /\ guard = "up" /\ slot >= table /\ at' = "aborted"
           \/ ~room /\ at' = "verify"
        /\ UNCHANGED <<counter_last, forked, words, reason>>
  /\ UNCHANGED <<rlim, msg, child, table, guard, mine, intruder, openVars, callocVars>>

\* chk_fork_cleanup: every word is read under the guard, which is given up
\* before the word is loaded; a word that is 0 sends it round again.
verify ==
  /\ at = "verify"
  /\ \/ forked = 0 /\ at' = "kill"
     \/ forked # 0 /\ mine = "guarded" /\ guard = "up" /\ at' = "load"
     \/ forked # 0 /\ mine # "guarded" /\ at' = "aborted"
  /\ UNCHANGED <<rlim, counter_last, reason, msg, openVars, forkVars, callocVars>>
load ==
  /\ at = "load"
  /\ at' = IF \A i \in 0..forked - 1 : i % Offsets \in words THEN "kill" ELSE "verify"
  /\ UNCHANGED <<rlim, counter_last, reason, msg, openVars, forkVars, callocVars>>

\* Mutant: the #else branch, a signal for every pid that was counted.
group_mutant == 1..forked

\* kill(-getpgrp(), ...) reaches every child.
group == Pids

\* SIGCHLD ends a pause(), and is lost on a child that has not called it
\* yet.  Then the message.
kill ==
  /\ at = "kill" /\ at' = "delete"
  /\ child' = [c \in Pids |-> CASE c \in group /\ child[c] = "paused" -> "woken"
                                [] c \in group /\ child[c] = "new" -> "deaf"
                                [] OTHER -> child[c]]
  /\ addMessage("PROC", rlim.NPROC, forked, reason)
  /\ forked' = 0 /\ reason' = "UNKNWN"
  /\ UNCHANGED <<rlim, counter_last, table, guard, mine, words, intruder, openVars, callocVars>>

\* SharedMemory$delete(&children, 1): the guard goes first; then as many words
\* are cleared as were asked for, which a shorter table need not survive.
delete ==
  /\ at = "delete"
  /\ \/ at' = "calloc_prepare" /\ table' = 0
     \/ at' = "aborted" /\ table < rlim.NPROC /\ UNCHANGED table
  /\ guard' = "none"
  /\ words' = {}
  /\ mine' = "none"
  /\ UNCHANGED <<rlim, counter_last, reason, msg, child, forked, intruder, openVars, callocVars>>

\* The child.
pause(c) ==
  /\ child[c] = "new" /\ child' = [child EXCEPT ![c] = "paused"]
  /\ UNCHANGED <<at, rlim, counter_last, reason, msg, forked, table, guard, mine, words, intruder,
                 openVars, callocVars>>
_exit(c) ==
  /\ child[c] = "woken" /\ child' = [child EXCEPT ![c] = "gone"]
  /\ UNCHANGED <<at, rlim, counter_last, reason, msg, forked, table, guard, mine, words, intruder,
                 openVars, callocVars>>

-----------------------------------------------------------------------------
(* Memory.                                                                 *)

\* Refused unless vm.overcommit_memory is 2.
chk_calloc_prepare ==
  /\ at = "calloc_prepare"
  /\ \/ setrlim("AS") /\ at' = "calloc"
     \/ at' = "done" /\ UNCHANGED rlim
  /\ msg' = NoMsg
  /\ UNCHANGED <<counter_last, reason, openVars, forkVars, callocVars>>

\* Mutant: while(i >= 0).
freed_mutant == heaps + 1

\* heaps[0] to heaps[i - 1]
freed == heaps

\* The end of chk_calloc.
chk_calloc_free(allocated, why) ==
  /\ blocks' = allocated - freed /\ heaps' = 0
  /\ addMessage("CALLOC", rlim.AS, heaps, why)
  /\ at' = "done"

\* A block goes to heaps[heaps]; one that comes with a slow sample stays.
chk_calloc(r) ==
  /\ at = "calloc" /\ blocks < rlim.AS
  /\ performance(CALLOC_SIZE * heaps, r)
  /\ \/ r # "slow" /\ heaps' = heaps + 1 /\ blocks' = blocks + 1 /\ UNCHANGED <<at, msg>>
     \/ r = "slow" /\ chk_calloc_free(blocks + 1, "THRSHD")
  /\ UNCHANGED <<rlim, reason, openVars, forkVars>>

calloc_fails ==
  /\ at = "calloc"
  /\ chk_calloc_free(blocks, "ENOMEM")
  /\ UNCHANGED <<rlim, counter_last, reason, openVars, forkVars>>

\* heaps has no check of its own: beyond its end anything may happen.
overrun ==
  /\ at = "calloc" /\ heaps >= CALLOC_MAX_COUNT /\ at' = "aborted"
  /\ UNCHANGED <<rlim, counter_last, reason, msg, openVars, forkVars, callocVars>>

-----------------------------------------------------------------------------
(* Around it.                                                              *)

\* Another command deletes the objects of its key: lock, daemonize, or a
\* second syschk.  SharedMemory$delete removes the guard and may clear the
\* words; syschk stays attached to a segment that has no key any more.
intrude(key) ==
  /\ intruder = None /\ objects(key) \cap segment(SHMEM_KEY) # {}
  /\ intruder' = key
  /\ \/ /\ SHMKEY(key) = SHMKEY(SHMEM_KEY) /\ table # 0
        /\ table' = IF mine = "none" THEN 0 ELSE table
        /\ words' \in {words, {}}
        /\ mine' = IF mine = "none" THEN "none" ELSE "lost"
     \/ /\ SHMKEY(key) # SHMKEY(SHMEM_KEY) /\ guard # "none"
        /\ mine' = IF mine = "guarded" THEN "unguarded" ELSE mine
        /\ UNCHANGED <<table, words>>
  /\ guard' = "none"
  /\ UNCHANGED <<at, rlim, counter_last, reason, msg, child, forked, openVars, callocVars>>

Probe ==
  \/ chk_open_prepare \/ chk_fork_prepare \/ chk_calloc_prepare
  \/ \E r \in {"none", "fast", "slow"} : chk_open(r) \/ record(r) \/ chk_calloc(r)
  \/ \E why \in {"EMFILE", "ENFILE", "ENOMEM", "UNKNWN"} : open_fails(why)
  \/ new_table \/ do_fork \/ verify \/ load \/ kill \/ delete
  \/ \E why \in {"EAGAIN", "ENOMEM"} : fork_fails(why)
  \/ calloc_fails \/ overrun

Next ==
  \/ Probe
  \/ \E c \in Pids : pause(c) \/ _exit(c)
  \/ \E key \in OtherKeys : intrude(key)

\* The parent and its children are scheduled; nobody has to interfere.
Spec ==
  /\ Init /\ [][Next]_vars
  /\ WF_vars(Probe)
  /\ \A c \in Pids : WF_vars(pause(c) \/ _exit(c))

-----------------------------------------------------------------------------
(* Correctness.                                                            *)

\* Msg$dump prints a share of the limit: no probe claims to have got beyond
\* it, in spite of the i + 1 of chk_open and the child too many of do_fork.
ReachWithinLimit == msg.reach <= msg.limit

\* A probe gives back what it took, but for what it was given while it took
\* a sample: a descriptor for each, the last block of a slow one.
HandedBack ==
  /\ at \notin {"open_prepare", "open"} => fds = Std \cup sampled
  /\ at = "done" => blocks = IF msg.name = "CALLOC" /\ msg.reason = "THRSHD" THEN 1 ELSE 0

\* The guard that was found under the key never got its value, and never will.
Blocked == at = "record" /\ room /\ mine = "guarded" /\ guard = "down"

\* syschk comes to an end, whatever table is under its key and whoever takes
\* it away, unless it waits for a guard that was never initialised: no loop of
\* chk_fork_cleanup waits for a pid that is never stored.
ProbeEnds == <>(at \in {"done", "aborted"} \/ Blocked)

\* A child that has got to pause() is let go, counted or not, unless syschk
\* fails an assert or waits for ever, and leaves all of them behind.  (One
\* that SIGCHLD reached before pause() is deaf, and waits on.)
NoOrphans ==
  \A c \in Pids : child[c] = "paused" ~> child[c] = "gone" \/ at = "aborted" \/ Blocked

=============================================================================
