----------------------------- MODULE Daemonize ------------------------------
(***************************************************************************)
(* The daemonize command (src/daemonize.c, src/daemonize.h) on one         *)
(* channel: users run start, stop and status; start forks an intermediate, *)
(* which forks the daemon, which forks workers that exec the command and   *)
(* replaces them when they die.  All of them share a segment with the      *)
(* words PID, CPID and ACTIVE (COUNT is only printed), and signals.        *)
(*                                                                         *)
(* The segment and its guard come and go together here, and a word method  *)
(* is one step: it waits for the guard, and aborts the process when the    *)
(* segment it knows is gone (see SharedMemory).  The one way to stay       *)
(* inside a method is a signal: the handler jumps out of it with the guard *)
(* locked.  Process ids are not reused, and a local variable that is not   *)
(* read again is forgotten.                                                *)
(***************************************************************************)
EXTENDS Integers, FiniteSets

CONSTANTS
  Users,       \* who runs start, stop and status
  Faults,      \* what goes wrong: signals sent by hand, and OtherFaults
  SaveMask,    \* does setjmp save the signal mask: BSD and Mac do, Linux not
  MaxPids,     \* bound: processes forked
  MaxSegs,     \* bound: segments created
  MaxFaults    \* bound: how often something goes wrong

\* The signals the daemon has a handler for; TERM stands for TERM, INT, HUP
\* and ALRM, which are treated alike.
Handled == {"USR1", "USR2", "TERM", "CHLD"}

\* QUIT stands for QUIT, PIPE and every other signal that can be caught, is
\* not, and ends the process.
Signals == Handled \cup {"QUIT"}
OtherFaults == {"KILL", "STOP", "fork II", "fork III", "command"}

ASSUME DaemonizeAssumption ==
  /\ IsFiniteSet(Users)
  /\ Faults \subseteq Signals \cup OtherFaults
  /\ SaveMask \in BOOLEAN
  /\ {MaxPids, MaxSegs, MaxFaults} \subseteq Nat

VARIABLES
  proc,    \* the processes, by pid
  forked,  \* pids given out
  seg,     \* the segment under the key, or 0
  segs,    \* segments created
  word,    \* the words of that segment
  holder,  \* the process that jumped out of a method with the guard, or 0
  user,    \* the users' commands
  faults,  \* how often something went wrong
  killed   \* history: SIGKILL, or a signal without a handler, ended a process
           \* of the daemon (the command it runs is none)

vars == <<proc, forked, seg, segs, word, holder, user, faults, killed>>

Pids == 1..MaxPids

Zero == [pid |-> 0, cpid |-> 0, active |-> FALSE]
Idle == [at |-> "idle", shm |-> 0, pid |-> 0, cpid |-> 0]
Default == [s \in Signals |-> "default"]
Process == [at |-> "none", shm |-> 0, parent |-> 0, leader |-> 0, child |-> 0,
            sig |-> "CHLD", target |-> 0, masked |-> FALSE, pending |-> {},
            action |-> Default]

\* Where a process waits for the guard: the word methods of daemonize.
Accesses == {"set_pid", "set_cpid", "activate", "inc_count", "get_cpid", "end",
             "again", "die", "die_cpid", "deactivate", "cleanup", "cleanup_cpid"}
Places == Accesses \cup {"none", "dead", "fork2", "install", "fork3", "wait",
                         "spin", "kill", "sleep", "remove", "exec", "running"}
UserPlaces == {"idle", "start", "start_cpid", "fork1", "status", "status_cpid",
               "stop", "stop_cpid", "kill_child", "kill_parent", "cleanup", "cleanup_cpid", "remove"}

TypeOK ==
  /\ proc \in [Pids -> [at : Places, shm : 0..segs, parent : 0..forked,
                        leader : 0..forked, child : -1..forked, sig : Signals,
                        target : -1..forked, masked : BOOLEAN,
                        pending : SUBSET Signals,
                        action : [Signals -> {"default", "catch", "ignore"}]]]
  /\ forked \in 0..MaxPids
  /\ segs \in 0..MaxSegs /\ seg \in 0..segs
  /\ word \in [pid : 0..forked, cpid : -1..forked, active : BOOLEAN]
  /\ holder \in 0..forked
  /\ user \in [Users -> [at : UserPlaces, shm : 0..segs, pid : 0..forked,
                         cpid : -1..forked]]
  /\ faults \in 0..MaxFaults
  /\ killed \in BOOLEAN

Init ==
  /\ proc = [p \in Pids |-> Process]
  /\ forked = 0
  /\ seg = 0 /\ segs = 0
  /\ word = Zero
  /\ holder = 0
  /\ user = [u \in Users |-> Idle]
  /\ faults = 0
  /\ killed = FALSE

-----------------------------------------------------------------------------
(* Processes and signals (external: fork(2), kill(2), sigaction(2)).       *)

fault(f) == f \in Faults /\ faults < MaxFaults /\ faults' = faults + 1

alive(p) == proc[p].at \notin {"none", "dead"}

\* P with signal s sent to p: nothing if p is gone or ignores s.
posted(P, p, s) ==
  IF \/ P[p].at \in {"none", "dead"}
     \/ P[p].action[s] = "ignore" /\ (~P[p].masked \/ s = "CHLD")
     \/ P[p].action[s] = "default" /\ s = "CHLD"
  THEN P ELSE [P EXCEPT ![p].pending = @ \cup {s}]

\* kill(target, s) by p, or by a command if p is 0.  A target of 0 is the
\* sender's process group, and -1 is every process but the sender.
kill(p, target, s) ==
  IF target \in Pids THEN posted(proc, target, s)
  ELSE [q \in Pids |-> IF \/ target = -1 /\ q # p
                          \/ target = 0 /\ proc[q].leader = proc[p].leader
                         THEN posted(proc, q, s)[q] ELSE proc[q]]

\* Has waitpid(proc[p].child, ..) nothing to wait for?  -1 is any child.
childless(p) ==
  IF proc[p].child = -1 THEN \A q \in Pids : proc[q].parent = p => ~alive(q)
  ELSE ~alive(proc[p].child)

\* P without p: the parent hears of it (SA_NOCLDWAIT leaves no zombie).
ended(P, p) ==
  LET Q == [P EXCEPT ![p] = [Process EXCEPT !.at = "dead"]]
  IN  IF P[p].parent = 0 THEN Q ELSE posted(Q, P[p].parent, "CHLD")

\* SEM_UNDO gives back the guard of a process that ends.
released(p) == IF holder = p THEN 0 ELSE holder

\* A child of p that starts at a place, with everything p has but signals.
fork(p, place, parent_place) ==
  /\ forked < MaxPids
  /\ forked' = forked + 1
  /\ proc' = [proc EXCEPT
       ![forked + 1] = [proc[p] EXCEPT !.at = place, !.parent = p, !.child = 0,
                                       !.pending = {}],
       ![p] = [@ EXCEPT !.at = parent_place, !.child = forked + 1]]
  /\ UNCHANGED <<seg, segs, word, holder, user, faults, killed>>

\* Fork f returns -1 to p, which goes on to a place.
fork_fails(p, f, place) ==
  /\ fault(f)
  /\ proc' = [proc EXCEPT ![p].at = place, ![p].child = -1]
  /\ UNCHANGED <<forked, seg, segs, word, holder, user, killed>>

-----------------------------------------------------------------------------
(* Words.                                                                  *)

free(shm) == shm = seg /\ holder = 0

\* The words once p is through with the method it is in.
stored(p) ==
  CASE proc[p].at = "set_pid" -> [word EXCEPT !.pid = proc[p].child]
    [] proc[p].at = "set_cpid" -> [word EXCEPT !.cpid = proc[p].child]
    [] proc[p].at = "activate" -> [word EXCEPT !.active = TRUE]
    [] proc[p].at \in {"die", "cleanup"} -> [word EXCEPT !.pid = 0]
    [] proc[p].at \in {"die_cpid", "cleanup_cpid"} -> [word EXCEPT !.cpid = 0]
    [] proc[p].at = "deactivate" -> [word EXCEPT !.active = FALSE]
    [] OTHER -> word

\* p goes through the word method it is in, and on to a place.
access(p, from, to) ==
  /\ proc[p].at = from /\ free(proc[p].shm)
  /\ word' = stored(p)
  /\ proc' = [proc EXCEPT ![p].at = to]
  /\ UNCHANGED <<forked, seg, segs, holder, user, faults, killed>>

\* assert(e == 0) in a word method: the segment is gone.
abort(p) ==
  /\ proc[p].at \in Accesses /\ proc[p].shm # seg
  /\ proc' = ended(proc, p)
  /\ holder' = released(p)
  /\ UNCHANGED <<forked, seg, segs, word, user, faults, killed>>

\* SharedMemory$delete(&shmem, 1) of an object for segment shm.
delete(shm) ==
  IF shm = seg THEN seg' = 0 /\ word' = Zero /\ holder' = 0
  ELSE UNCHANGED <<seg, word, holder>>

-----------------------------------------------------------------------------
(* daemonize: the intermediate process, and the loop of the daemon.        *)

\* fork II; when it fails the intermediate is the daemon, and nobody sets PID.
fork2(p) ==
  /\ proc[p].at = "fork2"
  /\ fork(p, "install", "set_pid") \/ fork_fails(p, "fork II", "install")

\* set_pid(shmem, pid) and _exit(0)
set_pid(p) ==
  /\ proc[p].at = "set_pid" /\ free(proc[p].shm)
  /\ word' = stored(p)
  /\ proc' = ended(proc, p)
  /\ UNCHANGED <<forked, seg, segs, holder, user, faults, killed>>

\* The order of the sigaction calls: TERM, USR1, USR2, CHLD.  INT, HUP and
\* ALRM come later than TERM, so what TERM stands for comes at any time.
Before(s) == CASE s = "CHLD" -> {"USR1", "USR2"} [] s = "USR2" -> {"USR1"} [] OTHER -> {}

\* One sigaction call, or p is through with them.
sigaction(p, signals) ==
  \/ \E s \in signals :
       /\ proc[p].action[s] # "catch"
       /\ \A r \in Before(s) : proc[p].action[r] = "catch"
       /\ proc' = [proc EXCEPT ![p].action = [@ EXCEPT ![s] = "catch"]]
  \/ /\ \A s \in signals : proc[p].action[s] = "catch"
     /\ proc' = [proc EXCEPT ![p].at = "fork3"]

\* Mutant: no handler for SIGCHLD.
install_mutant(p) ==
  /\ proc[p].at = "install"
  /\ sigaction(p, Handled \ {"CHLD"})
  /\ UNCHANGED <<forked, seg, segs, word, holder, user, faults, killed>>

\* setjmp returns 0; the sigaction calls, each of which a signal may precede.
install(p) ==
  /\ proc[p].at = "install"
  /\ sigaction(p, Handled)
  /\ UNCHANGED <<forked, seg, segs, word, holder, user, faults, killed>>

\* Mutant: the parent takes the pid of the next child for that of this one.
fork3_mutant(p) ==
  /\ proc[p].at = "fork3"
  /\ proc' = [proc EXCEPT ![p].at = "set_cpid", ![p].child = forked + 1]
  /\ UNCHANGED <<forked, seg, segs, word, holder, user, faults, killed>>

\* fork III; the worker has the handlers and the mask of the daemon.  When it
\* fails the daemon goes on with a worker of pid -1.
fork3(p) ==
  /\ proc[p].at = "fork3"
  /\ fork(p, "inc_count", "set_cpid") \/ fork_fails(p, "fork III", "set_cpid")

set_cpid(p) == access(p, "set_cpid", "activate")
activate(p) == access(p, "activate", "wait")

\* waitpid fails with ECHILD once the child is gone, and leaves status
\* uninitialised: the loop on it ends, or does not.  An unmasked SIGCHLD
\* comes first.
wait_for_signal(p) ==
  /\ proc[p].at = "wait" /\ childless(p)
  /\ proc[p].masked \/ "CHLD" \notin proc[p].pending
  /\ \/ proc' = [proc EXCEPT ![p].at = "end", ![p].child = 0]
     \/ proc' = [proc EXCEPT ![p].at = "spin"]
  /\ UNCHANGED <<forked, seg, segs, word, holder, user, faults, killed>>

\* if(!active(shmem)) cleanup, else sleep
end(p) == access(p, "end", IF word.active THEN "sleep" ELSE "cleanup")

sleep(p) ==
  /\ proc[p].at = "sleep"
  /\ proc' = [proc EXCEPT ![p].at = "again"]
  /\ UNCHANGED <<forked, seg, segs, word, holder, user, faults, killed>>

\* while(active(shmem)): back to setjmp, or return and so exit.
again(p) ==
  \/ word.active /\ access(p, "again", "install")
  \/ /\ ~word.active /\ proc[p].at = "again" /\ free(proc[p].shm)
     /\ proc' = ended(proc, p)
     /\ UNCHANGED <<forked, seg, segs, word, holder, user, faults, killed>>

\* sig_rcvd is not 0 and not SIGUSR2: which worker is it for?
get_cpid(p) ==
  /\ proc[p].at = "get_cpid" /\ free(proc[p].shm)
  /\ proc' = [proc EXCEPT ![p].at = "kill", ![p].target = word.cpid]
  /\ UNCHANGED <<forked, seg, segs, word, holder, user, faults, killed>>

\* Mutant: SIGUSR1 is passed on like the others, without die.
pass_mutant(p) ==
  /\ proc[p].at = "kill"
  /\ proc' = [kill(p, proc[p].target, proc[p].sig) EXCEPT ![p].at = "end", ![p].target = 0]
  /\ UNCHANGED <<forked, seg, segs, word, holder, user, faults, killed>>

\* kill(cpid, sig_rcvd); after SIGUSR1 die, otherwise on with the loop.
pass(p) ==
  /\ proc[p].at = "kill"
  /\ proc' = [kill(p, proc[p].target, proc[p].sig) EXCEPT
                ![p].at = IF proc[p].sig = "USR1" THEN "die" ELSE "end",
                ![p].sig = "CHLD", ![p].target = 0]
  /\ UNCHANGED <<forked, seg, segs, word, holder, user, faults, killed>>

\* die and cleanup; cleanup is followed by a use of the freed object.
die(p) ==
  \/ access(p, "die", "die_cpid")
  \/ access(p, "die_cpid", "deactivate")
  \/ access(p, "deactivate", "remove")
cleanup(p) ==
  \/ access(p, "cleanup", "cleanup_cpid")
  \/ access(p, "cleanup_cpid", "remove")
remove(p) ==
  /\ proc[p].at = "remove"
  /\ delete(proc[p].shm)
  /\ proc' = ended(proc, p)
  /\ UNCHANGED <<forked, segs, user, faults, killed>>

-----------------------------------------------------------------------------
(* The worker.                                                             *)

inc_count(p) == access(p, "inc_count", "exec")

\* execvp: handlers are gone, the mask stays; or it fails and the child
\* dies the way the daemon does.
execvp(p) ==
  /\ proc[p].at = "exec"
  /\ \/ proc' = [proc EXCEPT ![p].at = "running", ![p].action = Default,
                             ![p].sig = "CHLD", ![p].target = 0, ![p].shm = 0]
     \/ proc' = [proc EXCEPT ![p].at = "die"]
  /\ UNCHANGED <<forked, seg, segs, word, holder, user, faults, killed>>

\* The command ends by itself.
finish(p) ==
  /\ proc[p].at = "running"
  /\ proc' = ended(proc, p)
  /\ UNCHANGED <<forked, seg, segs, word, holder, user, faults, killed>>

\* The command is stopped or continued: SIGCHLD tells the daemon, whose
\* waitpid (WUNTRACED, WCONTINUED) returns and, if the signal is masked, loops
\* on a status that neither is an exit nor ever changes.
stopped(p) ==
  LET d == proc[p].parent IN
  /\ proc[p].at = "running" /\ d # 0 /\ fault("STOP")
  /\ LET P == posted(proc, d, "CHLD")
     IN  proc' = IF P[d].at = "wait" /\ P[d].child = p /\ P[d].masked
                   THEN [P EXCEPT ![d].at = "spin"] ELSE P
  /\ UNCHANGED <<forked, seg, segs, word, holder, user, killed>>

-----------------------------------------------------------------------------
(* Signals arrive.                                                         *)

deliverable(p, s) == alive(p) /\ s \in proc[p].pending /\ ~proc[p].masked

\* Mutant: SIGUSR2 leaves at once, without die.
handler_exit_mutant(p, s) ==
  /\ deliverable(p, s) /\ proc[p].action[s] = "catch"
  /\ proc' = IF s = "USR2" THEN ended(proc, p) ELSE
       [proc EXCEPT
         ![p].at = "get_cpid",
         ![p].sig = s,
         ![p].action[s] = "ignore",
         ![p].masked = ~SaveMask,
         ![p].pending = @ \ {s}]
  /\ UNCHANGED <<forked, seg, segs, word, holder, user, faults, killed>>

\* The handler ignores the signal from now on and jumps, out of whatever the
\* process was doing: a word method may have locked the guard, and may have
\* stored its word.  Without SaveMask sa_mask (everything) stays in force.
handler(p, s) ==
  /\ deliverable(p, s) /\ proc[p].action[s] = "catch"
  /\ proc' = [proc EXCEPT
       ![p].at = IF s = "USR2" THEN "die" ELSE "get_cpid",
       ![p].sig = IF s = "USR2" THEN "CHLD" ELSE s,
       ![p].child = 0,
       ![p].target = 0,
       ![p].action = [@ EXCEPT ![s] = "ignore"],
       ![p].masked = ~SaveMask,
       ![p].pending = @ \ {s}]
  /\ \/ UNCHANGED <<word, holder>>
     \/ /\ proc[p].at \in Accesses /\ free(proc[p].shm)
        /\ holder' = p
        /\ word' \in {word, stored(p)}
  /\ UNCHANGED <<forked, seg, segs, user, faults, killed>>

\* No handler (yet): the process ends, or the command has a handler of its
\* own, for other signals than SIGUSR1 and SIGUSR2.
default(p, s) ==
  /\ deliverable(p, s) /\ proc[p].action[s] = "default"
  /\ \/ proc' = ended(proc, p)
     \/ /\ proc[p].at = "running" /\ s \in {"TERM", "QUIT"}
        /\ proc' = [proc EXCEPT ![p].pending = @ \ {s}]
  /\ holder' = released(p)
  /\ killed' = (killed \/ proc[p].at # "running")
  /\ UNCHANGED <<forked, seg, segs, word, user, faults>>

\* A user sends a signal to the process the PID word names.
signal(s) ==
  /\ word.pid # 0 /\ fault(s)
  /\ proc' = posted(proc, word.pid, s)
  /\ UNCHANGED <<forked, seg, segs, word, holder, user, killed>>

\* SIGKILL, to any process.
sigkill(p) ==
  /\ alive(p) /\ fault("KILL")
  /\ killed' = (killed \/ proc[p].at # "running")
  /\ proc' = ended(proc, p)
  /\ holder' = released(p)
  /\ UNCHANGED <<forked, seg, segs, word, user>>

-----------------------------------------------------------------------------
(* start, stop and status; all read PID and CPID first.                    *)

go(u, place) == user' = [user EXCEPT ![u].at = place]
quit(u) == user' = [user EXCEPT ![u] = Idle]
rest == <<forked, segs, faults, killed>>

\* SharedMemory$new(key, .., 1)
start(u) ==
  /\ user[u].at = "idle"
  /\ \/ seg = 0 /\ segs < MaxSegs /\ seg' = segs + 1 /\ segs' = segs + 1
     \/ seg # 0 /\ UNCHANGED <<seg, segs>>
  /\ user' = [user EXCEPT ![u] = [Idle EXCEPT !.at = "start", !.shm = seg']]
  /\ UNCHANGED <<proc, forked, word, holder, faults, killed>>

\* SharedMemory$attach(key)
stop(u) ==
  /\ user[u].at = "idle" /\ seg # 0
  /\ user' = [user EXCEPT ![u] = [Idle EXCEPT !.at = "stop", !.shm = seg]]
  /\ UNCHANGED <<proc, forked, seg, segs, word, holder, faults, killed>>

\* SharedMemory$attach(key) as well; without a segment it prints at once.
status(u) ==
  /\ user[u].at = "idle" /\ seg # 0
  /\ user' = [user EXCEPT ![u] = [Idle EXCEPT !.at = "status", !.shm = seg]]
  /\ UNCHANGED <<proc, forked, seg, segs, word, holder, faults, killed>>

get_pid(u) ==
  /\ free(user[u].shm)
  /\ \/ /\ user[u].at = "start"
        /\ user' = [user EXCEPT ![u].at = "start_cpid", ![u].pid = word.pid]
     \/ /\ user[u].at = "stop"
        /\ user' = [user EXCEPT ![u].at = "stop_cpid", ![u].pid = word.pid]
     \/ user[u].at = "status" /\ go(u, "status_cpid")
  /\ UNCHANGED <<proc, seg, word, holder, rest>>

\* start goes on unless both are set, stop only if both are; status prints.
decide(u) ==
  /\ free(user[u].shm)
  /\ LET running == user[u].pid # 0 /\ word.cpid # 0 IN
     \/ /\ user[u].at = "start_cpid" /\ ~running /\ go(u, "fork1")
     \/ /\ user[u].at = "stop_cpid" /\ running
        /\ user' = [user EXCEPT ![u].at = "kill_child", ![u].cpid = word.cpid]
     \/ /\ \/ user[u].at = "start_cpid" /\ running
           \/ user[u].at = "stop_cpid" /\ ~running
           \/ user[u].at = "status_cpid"
        /\ quit(u)
  /\ UNCHANGED <<proc, seg, word, holder, rest>>

\* fork I, setsid in the child.  What start does after that is to read the
\* words until they are set, at most five times, and to print them.  When the
\* fork fails start itself goes on as the child, a process like any other.
fork1(u) ==
  /\ user[u].at = "fork1" /\ forked < MaxPids
  /\ forked' = forked + 1
  /\ proc' = [proc EXCEPT ![forked + 1] = [Process EXCEPT
                !.at = "fork2", !.shm = user[u].shm, !.leader = forked + 1]]
  /\ quit(u)
  /\ UNCHANGED <<seg, segs, word, holder, faults, killed>>

\* kill(cpid, SIGUSR1), then kill(pid, SIGUSR1); either may be gone.
kill_both(u) ==
  /\ \/ /\ user[u].at = "kill_child"
        /\ proc' = kill(0, user[u].cpid, "USR1")
        /\ IF user[u].cpid = -1 \/ alive(user[u].cpid)
             THEN user' = [user EXCEPT ![u].at = "kill_parent", ![u].cpid = 0]
             ELSE quit(u)
     \/ /\ user[u].at = "kill_parent"
        /\ proc' = posted(proc, user[u].pid, "USR1")
        /\ IF alive(user[u].pid)
             THEN user' = [user EXCEPT ![u].at = "cleanup", ![u].pid = 0]
             ELSE quit(u)
  /\ UNCHANGED <<seg, word, holder, rest>>

\* cleanup of stop
tidy(u) ==
  /\ \/ /\ user[u].at = "cleanup" /\ free(user[u].shm)
        /\ word' = [word EXCEPT !.pid = 0]
        /\ go(u, "cleanup_cpid")
        /\ UNCHANGED <<seg, holder>>
     \/ /\ user[u].at = "cleanup_cpid" /\ free(user[u].shm)
        /\ word' = [word EXCEPT !.cpid = 0]
        /\ go(u, "remove")
        /\ UNCHANGED <<seg, holder>>
     \/ /\ user[u].at = "remove"
        /\ delete(user[u].shm)
        /\ quit(u)
  /\ UNCHANGED <<proc, rest>>

\* assert(e == 0) in a word method of a command.
give_up(u) ==
  /\ user[u].at \in {"start", "start_cpid", "stop", "stop_cpid", "status", "status_cpid",
                    "cleanup", "cleanup_cpid"}
  /\ user[u].shm # seg
  /\ quit(u)
  /\ UNCHANGED <<proc, seg, word, holder, rest>>

\* A command is killed.
interrupt(u) ==
  /\ user[u].at # "idle" /\ fault("command")
  /\ quit(u)
  /\ UNCHANGED <<proc, forked, seg, segs, word, holder, killed>>

-----------------------------------------------------------------------------
Step(p) ==
  \/ fork2(p) \/ set_pid(p) \/ install(p) \/ fork3(p) \/ set_cpid(p)
  \/ activate(p) \/ wait_for_signal(p) \/ end(p) \/ sleep(p) \/ again(p)
  \/ get_cpid(p) \/ pass(p) \/ die(p) \/ cleanup(p) \/ remove(p)
  \/ inc_count(p) \/ execvp(p) \/ abort(p)

Deliver(p) == \E s \in Signals : handler(p, s) \/ default(p, s)

Command(u) ==
  get_pid(u) \/ decide(u) \/ fork1(u) \/ kill_both(u) \/ tidy(u) \/ give_up(u)

Next ==
  \/ \E p \in Pids : Step(p) \/ Deliver(p) \/ finish(p) \/ stopped(p) \/ sigkill(p)
  \/ \E u \in Users : start(u) \/ stop(u) \/ status(u) \/ Command(u) \/ interrupt(u)
  \/ \E s \in Faults \cap Signals : signal(s)

Spec == Init /\ [][Next]_vars

\* The scheduler never leaves the processes of the daemon idle when one of
\* them can run on or take a signal (which one is left open: none can run for
\* ever without forking).  Nobody has to send a signal, and neither a user's
\* command nor the worker's has to end.
FairSpec == Spec /\ WF_vars(\E p \in Pids : Step(p) \/ Deliver(p))

-----------------------------------------------------------------------------
(* Correctness.                                                            *)

\* Past fork II, and neither a worker that runs the command nor one about to.
Daemon(p) ==
  /\ alive(p) /\ proc[p].shm = seg
  /\ proc[p].at \notin {"fork2", "set_pid", "inc_count", "exec", "running"}

\* The words do not outlive the processes they name: a segment whose PID and
\* CPID are set, which makes start refuse ("already running"), is in the hands
\* of a process of the daemon, as long as none was ended by SIGKILL or by a
\* signal for which it has no handler, or not yet.
NoGhost ==
  ~killed /\ seg # 0 /\ word.pid # 0 /\ word.cpid # 0
    => \E p \in Pids : Daemon(p)

\* A worker that ends while the daemon waits for it is replaced, and a fork
\* III that failed is tried again: the daemon comes back to its fork, unless
\* it is stopped, or a signal catches a process inside a word method, or no
\* SIGCHLD can come (it is masked, or there was no child) and the
\* uninitialised status keeps it in wait_for_signal.
WorkerReplaced ==
  \A p \in Pids :
    proc[p].at = "wait" /\ childless(p) ~>
      \/ proc[p].at \in {"fork3", "dead"} \/ holder # 0
      \/ proc[p].at = "spin" /\ (proc[p].masked \/ proc[p].child = -1)

\* Where the handler leaves all signals masked, a daemon that has caught
\* SIGUSR1 dies, whatever arrives after that and whoever removes the segment
\* first, unless the signal caught a process inside a word method.
CaughtUSR1Dies ==
  \A p \in Pids :
    proc[p].at = "get_cpid" /\ proc[p].sig = "USR1" /\ proc[p].masked
      ~> proc[p].at = "dead" \/ holder # 0

\* "SIGUSR1 does a complete die (killing the encapsulated processes, and
\* then the daemon wrapper" (usage): a process that is sent SIGUSR1 dies, if
\* no signal caught a process inside a word method.
DieOnUSR1 ==
  \A p \in Pids :
    "USR1" \in proc[p].pending ~> proc[p].at = "dead" \/ holder # 0

=============================================================================
