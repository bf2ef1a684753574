--------------------------- MODULE DaemonizeProofs ---------------------------
(***************************************************************************)
(* Proofs about Daemonize, for any number of users, processes, segments    *)
(* and faults, on every platform.                                          *)
(***************************************************************************)
EXTENDS Daemonize, TLAPS

-----------------------------------------------------------------------------
(* The inductive invariant, by parts.                                      *)

\* A pid that was not given out names nothing; the intermediate knows the
\* daemon it forked; a process outside the command knows a segment.
Placed(p) ==
  /\ p > forked => proc[p].at = "none"
  /\ proc[p].at = "set_pid" => proc[p].child # -1
  /\ proc[p].at \notin {"none", "dead", "running"} => proc[p].shm # 0

\* There are no words without a segment.
PlaceInv ==
  /\ \A p \in Pids : Placed(p)
  /\ \A u \in Users : user[u].at # "idle" => user[u].shm # 0
  /\ seg = 0 => word = Zero

\* execvp takes the handlers away: the command starts without.
Restored(p) ==
  proc[p].at = "running" => \A s \in Signals : proc[p].action[s] = "default"

RestoredInv == \A p \in Pids : Restored(p)

\* A process that will either activate the daemon or remove the segment.
Bound(p) ==
  proc[p].at \in {"activate", "end", "get_cpid", "kill", "die", "die_cpid", "deactivate",
                  "cleanup", "cleanup_cpid", "remove"}

\* A process that goes round in the loop of the daemon.
Looping(p) ==
  proc[p].at \in {"install", "fork3", "set_cpid", "wait", "spin", "sleep", "again"}

\* p stands for the words: unless a signal without a handler ends it, it
\* removes them, or hands them on to another process that will.
Keeper(p) == proc[p].shm = seg /\ (Bound(p) \/ (word.active /\ Looping(p)))

KeeperInv == ~killed /\ seg # 0 /\ word.cpid # 0 => \E p \in Pids : Keeper(p)

IInv == TypeOK /\ PlaceInv /\ RestoredInv /\ KeeperInv

-----------------------------------------------------------------------------
(* Types of processes.                                                     *)

Record(f, s) ==
  [at : Places, shm : 0..s, parent : 0..f, leader : 0..f, child : -1..f, sig : Signals,
   target : -1..f, masked : BOOLEAN, pending : SUBSET Signals,
   action : [Signals -> {"default", "catch", "ignore"}]]

Table(f, s) == [Pids -> Record(f, s)]

\* What the invariant asks of a process, but for its place in the table.
Kept(P, Q, q) ==
  Q[q].at = P[q].at /\ Q[q].shm = P[q].shm /\ Q[q].action = P[q].action /\ Q[q].child = P[q].child

UserType ==
  /\ forked \in 0..MaxPids
  /\ segs \in 0..MaxSegs /\ seg \in 0..segs
  /\ word \in [pid : 0..forked, cpid : -1..forked, active : BOOLEAN]
  /\ holder \in 0..forked
  /\ user \in [Users -> [at : UserPlaces, shm : 0..segs, pid : 0..forked, cpid : -1..forked]]
  /\ faults \in 0..MaxFaults
  /\ killed \in BOOLEAN

LEMMA TypeParts == TypeOK <=> proc \in Table(forked, segs) /\ UserType
  BY DEF TypeOK, Table, Record, UserType

LEMMA TypePartsNext == TypeOK' <=> proc' \in Table(forked', segs') /\ UserType'
  BY DEF TypeOK, Table, Record, UserType

LEMMA Counts ==
  ASSUME UserType
  PROVE  /\ forked \in Nat /\ segs \in Nat /\ MaxPids \in Nat /\ MaxSegs \in Nat /\ MaxFaults \in Nat
         /\ 0 \in -1..forked /\ -1 \in -1..forked /\ 0 \in 0..forked /\ 0 \in 0..segs
         /\ 0..forked \subseteq -1..forked
  BY DaemonizeAssumption DEF UserType

LEMMA Widen ==
  ASSUME NEW f \in Nat, NEW s \in Nat, NEW g \in Nat, NEW t \in Nat, f <= g, s <= t
  PROVE  Record(f, s) \subseteq Record(g, t) /\ Table(f, s) \subseteq Table(g, t)
<1>1. 0..f \subseteq 0..g /\ 0..s \subseteq 0..t /\ -1..f \subseteq -1..g
  OBVIOUS
<1>2. Record(f, s) \subseteq Record(g, t)
  BY <1>1 DEF Record
<1> QED
  BY <1>2 DEF Table

LEMMA Fresh ==
  ASSUME NEW f \in Nat, NEW s \in Nat, NEW x \in Places
  PROVE  /\ [Process EXCEPT !.at = x] \in Record(f, s) /\ [Process EXCEPT !.at = x].at = x
         /\ [Process EXCEPT !.at = x].action = Default
<1>1. 0 \in 0..f /\ 0 \in 0..s /\ 0 \in -1..f
  OBVIOUS
<1>2. Process \in Record(f, s) /\ Process.action = Default
  BY <1>1 DEF Process, Record, Places, Default, Signals, Handled
<1> QED
  BY <1>2 DEF Record

LEMMA Posted ==
  ASSUME NEW f \in Nat, NEW s \in Nat, NEW P \in Table(f, s), NEW p, NEW t \in Signals
  PROVE  /\ posted(P, p, t) \in Table(f, s)
         /\ \A q \in Pids : Kept(P, posted(P, p, t), q)
<1>1. CASE posted(P, p, t) = P
  BY <1>1 DEF Kept
<1>2. CASE posted(P, p, t) = [P EXCEPT ![p].pending = @ \cup {t}]
  <2>1. p \in Pids => P[p].pending \cup {t} \in SUBSET Signals
    BY DEF Table, Record
  <2>2. posted(P, p, t) \in Table(f, s)
    BY <1>2, <2>1 DEF Table, Record
  <2>3. \A q \in Pids : Kept(P, posted(P, p, t), q)
    BY <1>2 DEF Kept, Table, Record
  <2> QED
    BY <2>2, <2>3
<1> QED
  BY <1>1, <1>2 DEF posted

LEMMA Killed ==
  ASSUME NEW f \in Nat, NEW s \in Nat, proc \in Table(f, s), NEW p, NEW x, NEW t \in Signals
  PROVE  /\ kill(p, x, t) \in Table(f, s)
         /\ \A q \in Pids : Kept(proc, kill(p, x, t), q)
<1>1. CASE x \in Pids
  BY <1>1, Posted DEF kill
<1>2. CASE x \notin Pids
  <2>1. \A q \in Pids : kill(p, x, t)[q] \in {proc[q], posted(proc, q, t)[q]}
    BY <1>2 DEF kill
  <2>2. \A q \in Pids : /\ posted(proc, q, t)[q] \in Record(f, s) /\ proc[q] \in Record(f, s)
                        /\ Kept(proc, posted(proc, q, t), q)
    BY Posted DEF Table
  <2>3. \A q \in Pids : kill(p, x, t)[q] \in Record(f, s) /\ Kept(proc, kill(p, x, t), q)
    BY <2>1, <2>2 DEF Kept
  <2>4. kill(p, x, t) = [q \in Pids |-> kill(p, x, t)[q]]
    BY <1>2 DEF kill
  <2> QED
    BY <2>3, <2>4 DEF Table
<1> QED
  BY <1>1, <1>2

LEMMA Ended ==
  ASSUME NEW f \in Nat, NEW s \in Nat, NEW P \in Table(f, s), NEW p \in Pids
  PROVE  /\ ended(P, p) \in Table(f, s) /\ ended(P, p)[p].at = "dead" /\ ended(P, p)[p].action = Default
         /\ \A q \in Pids : q # p => Kept(P, ended(P, p), q)
<1> DEFINE r == [Process EXCEPT !.at = "dead"]
           Q == [P EXCEPT ![p] = r]
<1>1. r \in Record(f, s) /\ r.at = "dead" /\ r.action = Default
  BY Fresh DEF Places
<1> HIDE DEF r
<1>2. Q \in Table(f, s) /\ Q[p] = r /\ \A q \in Pids : q # p => Q[q] = P[q]
  BY <1>1 DEF Table
<1>3. ended(P, p) = Q \/ ended(P, p) = posted(Q, P[p].parent, "CHLD")
  BY DEF ended, r
<1> HIDE DEF Q
<1>4. CASE ended(P, p) = Q
  BY <1>1, <1>2, <1>4 DEF Kept
<1>5. CASE ended(P, p) = posted(Q, P[p].parent, "CHLD")
  <2>1. ended(P, p) \in Table(f, s) /\ \A q \in Pids : Kept(Q, ended(P, p), q)
    BY <1>2, <1>5, Posted DEF Signals, Handled
  <2> QED
    BY <1>1, <1>2, <2>1 DEF Kept
<1> QED
  BY <1>3, <1>4, <1>5

-----------------------------------------------------------------------------
(* Frames: what a step that changes the processes S has to establish.      *)

OthersKept(S) == \A q \in Pids : q \notin S => Kept(proc, proc', q)

LEMMA PlacedFrame ==
  ASSUME \A q \in Pids : Placed(q) /\ Restored(q), NEW S, OthersKept(S),
         forked' = forked \/ (forked' = forked + 1 /\ forked \in Nat),
         \A q \in Pids : q \in S => Placed(q)' /\ Restored(q)'
  PROVE  \A q \in Pids : Placed(q)' /\ Restored(q)'
<1> SUFFICES ASSUME NEW q \in Pids, q \notin S PROVE Placed(q)' /\ Restored(q)'
  OBVIOUS
<1>1. Kept(proc, proc', q) /\ Placed(q) /\ Restored(q)
  BY DEF OthersKept
<1>2. q > forked' => q > forked
  BY DEF Pids
<1>3. Placed(q)'
  BY <1>1, <1>2 DEF Placed, Kept
<1>4. Restored(q)'
  BY <1>1 DEF Restored, Kept
<1> QED
  BY <1>3, <1>4

\* A process of S is a keeper now, or all that were still are.
LEMMA KeeperFrame ==
  ASSUME KeeperInv, NEW S, OthersKept(S), seg' = seg, killed => killed',
         ~killed' /\ word'.cpid # 0 =>
           \/ \E p \in Pids : Keeper(p)'
           \/ /\ word.cpid # 0 /\ (word.active => word'.active)
              /\ \A p \in Pids : p \in S /\ Keeper(p) => Keeper(p)'
  PROVE  KeeperInv'
<1> SUFFICES ASSUME ~killed', seg # 0, word'.cpid # 0, word.cpid # 0, word.active => word'.active,
                    \A p \in Pids : p \in S /\ Keeper(p) => Keeper(p)'
             PROVE  \E p \in Pids : Keeper(p)'
  BY DEF KeeperInv
<1>1. PICK p \in Pids : Keeper(p)
  BY DEF KeeperInv
<1>2. CASE p \notin S
  <2>1. Kept(proc, proc', p)
    BY <1>2 DEF OthersKept
  <2>2. (Bound(p)' <=> Bound(p)) /\ (Looping(p)' <=> Looping(p)) /\ proc'[p].shm = proc[p].shm
    BY <1>1, <2>1 DEF Kept, Keeper, Bound, Looping
  <2>3. Keeper(p)'
    BY <1>1, <2>2 DEF Keeper
  <2> QED
    BY <2>3
<1> QED
  BY <1>1, <1>2

LEMMA IInvParts ==
  ASSUME IInv
  PROVE  /\ proc \in Table(forked, segs) /\ UserType /\ PlaceInv /\ RestoredInv /\ KeeperInv
         /\ \A q \in Pids : Placed(q) /\ Restored(q)
  BY TypeParts DEF IInv, PlaceInv, RestoredInv

LEMMA Combine ==
  ASSUME proc' \in Table(forked', segs'), UserType', \A q \in Pids : Placed(q)' /\ Restored(q)',
         \A u \in Users : user'[u].at # "idle" => user'[u].shm # 0,
         seg' = 0 => word' = Zero, KeeperInv'
  PROVE  IInv'
<1>1. TypeOK'
  BY TypePartsNext
<1>2. PlaceInv'
  BY DEF PlaceInv, Zero
<1>3. RestoredInv'
  BY DEF RestoredInv
<1> QED
  BY <1>1, <1>2, <1>3 DEF IInv

\* A step of one process, which leaves the users alone.
LEMMA OneStep ==
  ASSUME IInv, NEW p \in Pids, proc' \in Table(forked, segs),
         \A q \in Pids : q # p => Kept(proc, proc', q),
         UNCHANGED <<forked, seg, segs, user>>, killed => killed',
         UserType', Placed(p)', Restored(p)', seg = 0 => word' = word,
         ~killed' /\ word'.cpid # 0 =>
           \/ Keeper(p)'
           \/ word.cpid # 0 /\ (word.active => word'.active) /\ (Keeper(p) => Keeper(p)')
  PROVE  IInv'
<1>1. OthersKept({p})
  BY DEF OthersKept
<1>2. \A q \in Pids : Placed(q)' /\ Restored(q)'
  BY <1>1, IInvParts, PlacedFrame
<1>3. KeeperInv'
  BY <1>1, IInvParts, KeeperFrame
<1>4. \A u \in Users : user'[u].at # "idle" => user'[u].shm # 0
  BY IInvParts DEF PlaceInv
<1>5. seg' = 0 => word' = Zero
  BY IInvParts DEF PlaceInv
<1> QED
  BY <1>2, <1>3, <1>4, <1>5, Combine

LEMMA Stored ==
  ASSUME IInv, NEW p \in Pids
  PROVE  /\ stored(p) \in [pid : 0..forked, cpid : -1..forked, active : BOOLEAN]
         /\ proc[p].at # "set_cpid" /\ stored(p).cpid # 0 => word.cpid # 0
         /\ proc[p].at # "deactivate" /\ word.active => stored(p).active
         /\ proc[p].at = "activate" => stored(p).active
<1> DEFINE c == proc[p].child
<1>1. /\ word \in [pid : 0..forked, cpid : -1..forked, active : BOOLEAN] /\ c \in -1..forked
      /\ 0 \in 0..forked /\ 0 \in -1..forked /\ forked \in Nat
  BY IInvParts, Counts DEF UserType, Table, Record
<1>2. proc[p].at = "set_pid" => c \in 0..forked
  BY <1>1, IInvParts DEF Placed
<1>3. \/ proc[p].at = "set_pid" /\ stored(p) = [word EXCEPT !.pid = c]
      \/ proc[p].at = "set_cpid" /\ stored(p) = [word EXCEPT !.cpid = c]
      \/ proc[p].at = "activate" /\ stored(p) = [word EXCEPT !.active = TRUE]
      \/ proc[p].at \in {"die", "cleanup"} /\ stored(p) = [word EXCEPT !.pid = 0]
      \/ proc[p].at \in {"die_cpid", "cleanup_cpid"} /\ stored(p) = [word EXCEPT !.cpid = 0]
      \/ proc[p].at = "deactivate" /\ stored(p) = [word EXCEPT !.active = FALSE]
      \/ proc[p].at # "activate" /\ stored(p) = word
  BY DEF stored
<1> QED
  BY <1>1, <1>2, <1>3

-----------------------------------------------------------------------------
(* Steps of the daemon and of the worker.                                  *)

\* A process that is somewhere has been forked.
LEMMA Forked ==
  ASSUME IInv, NEW p \in Pids, proc[p].at # "none"
  PROVE  p \in 0..forked /\ p \in -1..forked /\ ~(p > forked)
<1>1. ~(p > forked)
  BY IInvParts DEF Placed
<1>2. forked \in Nat
  BY IInvParts, Counts
<1> QED
  BY <1>1, <1>2 DEF Pids

LEMMA StepAccess ==
  ASSUME IInv, NEW p \in Pids, NEW from \in Accesses \ {"set_pid"},
         NEW to \in {"activate", "wait", "sleep", "cleanup", "install", "die_cpid", "deactivate",
                     "remove", "cleanup_cpid", "exec"},
         access(p, from, to),
         ~killed /\ word'.cpid # 0 =>
           \/ to \in {"activate", "die_cpid", "deactivate", "remove", "cleanup_cpid", "cleanup"}
           \/ to \in {"wait", "sleep", "install"} /\ word'.active
           \/ to = "exec" /\ from = "inc_count"
  PROVE  IInv'
<1>1. /\ proc[p].at = from /\ proc[p].shm = seg /\ word' = stored(p)
      /\ proc' = [proc EXCEPT ![p].at = to]
      /\ UNCHANGED <<forked, seg, segs, holder, user, faults, killed>>
  BY DEF access, free
<1>2. to \in Places
  BY DEF Places, Accesses
<1>3. /\ proc' \in Table(forked, segs) /\ proc'[p].at = to /\ proc'[p].shm = proc[p].shm
      /\ proc'[p].action = proc[p].action
      /\ \A q \in Pids : q # p => Kept(proc, proc', q)
  <2>1. proc \in Table(forked, segs) /\ forked \in Nat /\ segs \in Nat
    BY IInvParts, Counts
  <2>2. /\ proc' \in Table(forked, segs) /\ proc'[p].at = to /\ proc'[p].shm = proc[p].shm
        /\ proc'[p].action = proc[p].action
        /\ \A q \in Pids : q # p => proc'[q] = proc[q]
    <3>1. proc' = [proc EXCEPT ![p].at = to]
      BY <1>1
    <3> QED
      BY <1>2, <2>1, <3>1 DEF Table, Record
  <2> QED
    BY <2>2 DEF Kept
<1>4. from \notin {"none", "dead", "running"} /\ from \in Accesses
  BY DEF Accesses
<1>5. proc[p].shm # 0
  BY <1>1, <1>4, IInvParts DEF Placed
<1>6. UserType'
  BY <1>1, Stored, IInvParts DEF UserType
<1>7. ~(p > forked)
  BY <1>1, <1>4, Forked
<1>8. Placed(p)' /\ Restored(p)'
  BY <1>1, <1>3, <1>5, <1>7 DEF Placed, Restored
<1>9. ~killed' /\ word'.cpid # 0 =>
           \/ Keeper(p)'
           \/ word.cpid # 0 /\ (word.active => word'.active) /\ (Keeper(p) => Keeper(p)')
  <2>1. to \in {"activate", "die_cpid", "deactivate", "remove", "cleanup_cpid", "cleanup"} => Keeper(p)'
    BY <1>1, <1>3 DEF Keeper, Bound
  <2>2. to \in {"wait", "sleep", "install"} /\ word'.active => Keeper(p)'
    BY <1>1, <1>3 DEF Keeper, Looping
  <2>3. from = "inc_count" => ~Keeper(p) /\ word' = word
    BY <1>1 DEF Keeper, Bound, Looping, stored
  <2> QED
    BY <1>1, <2>1, <2>2, <2>3
<1> QED
  BY <1>1, <1>3, <1>5, <1>6, <1>8, <1>9, OneStep

LEMMA AccessSteps ==
  ASSUME IInv, NEW p \in Pids,
         \/ set_cpid(p) \/ activate(p) \/ end(p) \/ (word.active /\ access(p, "again", "install"))
         \/ die(p) \/ cleanup(p) \/ inc_count(p)
  PROVE  IInv'
<1> USE DEF Accesses
<1>1. CASE set_cpid(p)
  BY <1>1, StepAccess DEF set_cpid
<1>2. CASE activate(p)
  <2>1. word' = stored(p) /\ proc[p].at = "activate"
    BY <1>2 DEF activate, access
  <2>2. word'.active
    BY <2>1, Stored
  <2> QED
    BY <1>2, <2>2, StepAccess DEF activate
<1>3. CASE end(p)
  <2>1. word' = word
    BY <1>3 DEF end, access, stored
  <2> QED
    BY <1>3, <2>1, StepAccess DEF end
<1>4. CASE word.active /\ access(p, "again", "install")
  <2>1. word' = word
    BY <1>4 DEF access, stored
  <2> QED
    BY <1>4, <2>1, StepAccess
<1>5. CASE die(p)
  BY <1>5, StepAccess DEF die
<1>6. CASE cleanup(p)
  BY <1>6, StepAccess DEF cleanup
<1>7. CASE inc_count(p)
  BY <1>7, StepAccess DEF inc_count
<1> QED
  BY <1>1, <1>2, <1>3, <1>4, <1>5, <1>6, <1>7

\* A process ends that stood for nothing, or whose segment is gone.
LEMMA Ends ==
  ASSUME IInv, NEW p \in Pids, proc' = ended(proc, p), UNCHANGED <<forked, seg, segs, user>>,
         killed => killed', UserType', seg = 0 => word' = word, ~killed' => ~Keeper(p),
         word'.cpid = word.cpid, word'.active = word.active, proc[p].at # "none"
  PROVE  IInv'
<1>1. /\ proc' \in Table(forked, segs) /\ proc'[p].at = "dead" /\ proc'[p].action = Default
      /\ \A q \in Pids : q # p => Kept(proc, proc', q)
  BY IInvParts, Counts, Ended
<1>2. ~(p > forked)
  BY Forked
<1>3. Placed(p)' /\ Restored(p)'
  BY <1>1, <1>2 DEF Placed, Restored
<1> QED
  BY <1>1, <1>3, OneStep

LEMMA StepSetPid ==
  ASSUME IInv, NEW p \in Pids, set_pid(p)
  PROVE  IInv'
<1>1. /\ proc[p].at = "set_pid" /\ word' = stored(p) /\ proc' = ended(proc, p) /\ proc[p].shm = seg
      /\ UNCHANGED <<forked, seg, segs, holder, user, faults, killed>>
  BY DEF set_pid, free
<1>2. UserType'
  BY <1>1, Stored, IInvParts DEF UserType
<1>3. word' = [word EXCEPT !.pid = proc[p].child]
  BY <1>1 DEF stored
<1>4. word'.cpid = word.cpid /\ word'.active = word.active
  BY <1>3, IInvParts DEF UserType
<1>5. seg # 0 /\ ~Keeper(p)
  BY <1>1, IInvParts DEF Placed, Keeper, Bound, Looping
<1> QED
  BY <1>1, <1>2, <1>4, <1>5, Ends

\* again when the daemon is not active, abort, finish, default, sigkill.
LEMMA EndSteps ==
  ASSUME IInv, NEW p \in Pids, proc' = ended(proc, p), UNCHANGED <<forked, seg, segs, word, user>>,
         \/ UNCHANGED <<holder, faults, killed>> /\ proc[p].at = "again" /\ ~word.active
         \/ UNCHANGED <<holder, faults, killed>> /\ proc[p].at = "running"
         \/ /\ holder' = released(p) /\ UNCHANGED <<faults, killed>>
            /\ proc[p].at # "none" /\ proc[p].shm # seg
         \/ /\ holder' = released(p) /\ (faults' = faults \/ fault("KILL"))
            /\ proc[p].at # "none" /\ killed' = (killed \/ proc[p].at # "running")
  PROVE  IInv'
<1>1. holder' = holder \/ holder' = 0
  BY DEF released
<1>2. faults' \in 0..MaxFaults
  <2>1. faults' = faults \/ (faults < MaxFaults /\ faults' = faults + 1)
    BY DEF fault
  <2>2. faults \in 0..MaxFaults /\ MaxFaults \in Nat
    BY IInvParts, Counts DEF UserType
  <2> QED
    BY <2>1, <2>2
<1>3. killed' \in BOOLEAN /\ (killed => killed')
  <2>1. killed \in BOOLEAN
    BY IInvParts DEF UserType
  <2>2. killed' = killed \/ killed' = TRUE
    <3>1. CASE proc[p].at = "running"
      BY <2>1, <3>1
    <3>2. CASE proc[p].at # "running"
      BY <2>1, <3>2
    <3> QED
      BY <3>1, <3>2
  <2> QED
    BY <2>1, <2>2
<1>4. UserType'
  <2>1. holder' \in 0..forked
    BY <1>1, IInvParts, Counts DEF UserType
  <2> QED
    BY <1>2, <1>3, <2>1, IInvParts DEF UserType
<1>5. ~killed' => ~Keeper(p)
  BY DEF Keeper, Bound, Looping
<1>6. proc[p].at # "none"
  OBVIOUS
<1> QED
  BY <1>3, <1>4, <1>5, <1>6, Ends

\* p moves on, and the words stay.
LEMMA Moved ==
  ASSUME IInv, NEW p \in Pids, proc[p].at \notin {"none", "dead", "running"},
         proc' \in Table(forked, segs), \A q \in Pids : q # p => Kept(proc, proc', q),
         proc'[p].at \notin {"none", "set_pid"},
         Restored(p)', proc'[p].at = "running" \/ proc'[p].shm = proc[p].shm,
         UNCHANGED <<forked, seg, segs, word, holder, user, faults, killed>>,
         Keeper(p) => Keeper(p)'
  PROVE  IInv'
<1>1. UserType'
  BY IInvParts DEF UserType
<1>2. ~(p > forked) /\ proc[p].shm # 0
  BY Forked, IInvParts DEF Placed
<1>3. Placed(p)'
  BY <1>2 DEF Placed
<1> QED
  BY <1>1, <1>3, OneStep

LEMMA StepInstall ==
  ASSUME IInv, NEW p \in Pids, install(p)
  PROVE  IInv'
<1>1. /\ proc[p].at = "install" /\ sigaction(p, Handled)
      /\ UNCHANGED <<forked, seg, segs, word, holder, user, faults, killed>>
  BY DEF install
<1>2. proc \in Table(forked, segs) /\ "fork3" \in Places
  BY IInvParts DEF Places
<1>3. /\ proc' \in Table(forked, segs) /\ proc'[p].at \in {"install", "fork3"}
      /\ proc'[p].shm = proc[p].shm /\ \A q \in Pids : q # p => proc'[q] = proc[q]
  <2>1. CASE proc' = [proc EXCEPT ![p].at = "fork3"]
    BY <1>2, <2>1 DEF Table, Record
  <2>2. ASSUME NEW s \in Handled, proc' = [proc EXCEPT ![p].action = [@ EXCEPT ![s] = "catch"]]
        PROVE  /\ proc' \in Table(forked, segs) /\ proc'[p].at = "install"
               /\ proc'[p].shm = proc[p].shm /\ \A q \in Pids : q # p => proc'[q] = proc[q]
    <3> DEFINE a == [proc[p].action EXCEPT ![s] = "catch"]
               r == [proc[p] EXCEPT !.action = a]
    <3>1. proc[p] \in Record(forked, segs)
      BY <1>2 DEF Table
    <3>2. proc[p].action \in [Signals -> {"default", "catch", "ignore"}]
      BY <3>1 DEF Record
    <3>3. a \in [Signals -> {"default", "catch", "ignore"}]
      BY <3>2
    <3>4. proc' = [proc EXCEPT ![p] = r]
      BY <2>2
    <3> HIDE DEF a
    <3>5. r \in Record(forked, segs) /\ r.at = proc[p].at /\ r.shm = proc[p].shm
      BY <3>1, <3>3 DEF Record
    <3> HIDE DEF r
    <3> QED
      BY <1>1, <1>2, <3>4, <3>5 DEF Table
  <2> QED
    BY <1>1, <2>1, <2>2 DEF sigaction
<1>4. Restored(p)' /\ \A q \in Pids : q # p => Kept(proc, proc', q)
  BY <1>3 DEF Restored, Kept
<1>5. Keeper(p) => Keeper(p)'
  BY <1>1, <1>3 DEF Keeper, Bound, Looping
<1> QED
  BY <1>1, <1>3, <1>4, <1>5, Moved

LEMMA StepWait ==
  ASSUME IInv, NEW p \in Pids, wait_for_signal(p) \/ sleep(p)
  PROVE  IInv'
<1>1. /\ proc[p].at \in {"wait", "sleep"}
      /\ UNCHANGED <<forked, seg, segs, word, holder, user, faults, killed>>
  BY DEF wait_for_signal, sleep
<1>2. /\ proc \in Table(forked, segs) /\ "end" \in Places /\ "spin" \in Places /\ "again" \in Places
      /\ 0 \in -1..forked
  BY IInvParts, Counts DEF Places, Accesses
<1>3. /\ proc' \in Table(forked, segs) /\ proc'[p].at \in {"end", "spin", "again"}
      /\ proc'[p].shm = proc[p].shm /\ proc'[p].action = proc[p].action
      /\ \A q \in Pids : q # p => proc'[q] = proc[q]
  <2>1. CASE proc' = [proc EXCEPT ![p].at = "end", ![p].child = 0]
    <3> DEFINE r == [proc[p] EXCEPT !.at = "end", !.child = 0]
    <3>1. proc[p] \in Record(forked, segs)
      BY <1>2 DEF Table
    <3>2. /\ r \in Record(forked, segs) /\ r.at = "end"
          /\ r.shm = proc[p].shm /\ r.action = proc[p].action
      BY <1>2, <3>1 DEF Record
    <3>3. proc' = [proc EXCEPT ![p] = r]
      BY <2>1
    <3> HIDE DEF r
    <3> QED
      BY <1>2, <3>2, <3>3 DEF Table
  <2>2. CASE proc' = [proc EXCEPT ![p].at = "spin"]
    BY <1>2, <2>2 DEF Table, Record
  <2>3. CASE proc' = [proc EXCEPT ![p].at = "again"]
    BY <1>2, <2>3 DEF Table, Record
  <2> QED
    BY <2>1, <2>2, <2>3 DEF wait_for_signal, sleep
<1>4. Restored(p)' /\ \A q \in Pids : q # p => Kept(proc, proc', q)
  BY <1>3 DEF Restored, Kept
<1>5. Keeper(p) => Keeper(p)'
  BY <1>1, <1>3 DEF Keeper, Bound, Looping
<1> QED
  BY <1>1, <1>3, <1>4, <1>5, Moved

LEMMA StepPass ==
  ASSUME IInv, NEW p \in Pids, get_cpid(p) \/ pass(p)
  PROVE  IInv'
<1>1. /\ proc[p].at \in {"get_cpid", "kill"}
      /\ UNCHANGED <<forked, seg, segs, word, holder, user, faults, killed>>
  BY DEF get_cpid, pass
<1>2. proc \in Table(forked, segs) /\ forked \in Nat /\ segs \in Nat
  BY IInvParts, Counts
<1>3. /\ proc' \in Table(forked, segs) /\ proc'[p].at \in {"kill", "die", "end"}
      /\ proc'[p].shm = proc[p].shm /\ proc'[p].action = proc[p].action
      /\ \A q \in Pids : q # p => Kept(proc, proc', q)
  <2>1. CASE proc' = [proc EXCEPT ![p].at = "kill", ![p].target = word.cpid]
    <3>1. "kill" \in Places /\ word.cpid \in -1..forked
      BY IInvParts DEF Places, UserType
    <3>2. /\ proc' \in Table(forked, segs) /\ proc'[p].at = "kill"
          /\ proc'[p].shm = proc[p].shm /\ proc'[p].action = proc[p].action
          /\ \A q \in Pids : q # p => proc'[q] = proc[q]
      <4> DEFINE r == [proc[p] EXCEPT !.at = "kill", !.target = word.cpid]
      <4>1. proc[p] \in Record(forked, segs)
        BY <1>2 DEF Table
      <4>2. /\ r \in Record(forked, segs) /\ r.at = "kill"
            /\ r.shm = proc[p].shm /\ r.action = proc[p].action
        BY <3>1, <4>1 DEF Record
      <4>3. proc' = [proc EXCEPT ![p] = r]
        BY <2>1
      <4> HIDE DEF r
      <4> QED
        BY <1>2, <4>2, <4>3 DEF Table
    <3> QED
      BY <3>2 DEF Kept
  <2>2. CASE pass(p)
    <3> DEFINE K == kill(p, proc[p].target, proc[p].sig)
               x == IF proc[p].sig = "USR1" THEN "die" ELSE "end"
    <3>1. K \in Table(forked, segs) /\ \A q \in Pids : Kept(proc, K, q)
      BY <1>2, Killed DEF Table, Record
    <3>2. x \in Places /\ x \in {"die", "end"} /\ "CHLD" \in Signals /\ 0 \in -1..forked
      BY IInvParts, Counts DEF Places, Accesses, Signals, Handled
    <3> HIDE DEF K, x
    <3>3. proc' = [K EXCEPT ![p].at = x, ![p].sig = "CHLD", ![p].target = 0]
      BY <2>2 DEF pass, K, x
    <3>4. /\ proc' \in Table(forked, segs) /\ proc'[p].at = x
          /\ proc'[p].shm = K[p].shm /\ proc'[p].action = K[p].action
          /\ \A q \in Pids : q # p => proc'[q] = K[q]
      <4> DEFINE r == [K[p] EXCEPT !.at = x, !.sig = "CHLD", !.target = 0]
      <4>1. K[p] \in Record(forked, segs)
        BY <3>1 DEF Table
      <4>2. /\ r \in Record(forked, segs) /\ r.at = x
            /\ r.shm = K[p].shm /\ r.action = K[p].action
        BY <3>2, <4>1 DEF Record
      <4>3. proc' = [K EXCEPT ![p] = r]
        BY <3>3
      <4> HIDE DEF r
      <4> QED
        BY <3>1, <4>2, <4>3 DEF Table
    <3> QED
      BY <3>1, <3>2, <3>4 DEF Kept
  <2> QED
    BY <2>1, <2>2 DEF get_cpid
<1>4. Restored(p)'
  BY <1>3 DEF Restored
<1>5. Keeper(p) => Keeper(p)'
  BY <1>1, <1>3 DEF Keeper, Bound, Looping
<1> QED
  BY <1>1, <1>3, <1>4, <1>5, Moved

LEMMA StepExecvp ==
  ASSUME IInv, NEW p \in Pids, execvp(p)
  PROVE  IInv'
<1>1. /\ proc[p].at = "exec"
      /\ UNCHANGED <<forked, seg, segs, word, holder, user, faults, killed>>
  BY DEF execvp
<1>2. /\ proc \in Table(forked, segs) /\ 0 \in -1..forked /\ 0 \in 0..segs
      /\ {"running", "die"} \subseteq Places /\ "CHLD" \in Signals
      /\ Default \in [Signals -> {"default", "catch", "ignore"}]
  BY IInvParts, Counts DEF Places, Accesses, Signals, Handled, Default
<1>3. /\ proc' \in Table(forked, segs)
      /\ \/ proc'[p].at = "running" /\ proc'[p].action = Default
         \/ proc'[p].at = "die" /\ proc'[p].shm = proc[p].shm /\ proc'[p].action = proc[p].action
      /\ \A q \in Pids : q # p => proc'[q] = proc[q]
  <2>1. CASE proc' = [proc EXCEPT ![p].at = "running", ![p].action = Default,
                             ![p].sig = "CHLD", ![p].target = 0, ![p].shm = 0]
    <3> DEFINE r == [proc[p] EXCEPT !.at = "running", !.action = Default, !.sig = "CHLD",
                                    !.target = 0, !.shm = 0]
    <3>1. proc[p] \in Record(forked, segs)
      BY <1>2 DEF Table
    <3>2. r \in Record(forked, segs) /\ r.at = "running" /\ r.action = Default
      BY <1>2, <3>1 DEF Record
    <3>3. proc' = [proc EXCEPT ![p] = r]
      BY <2>1
    <3> HIDE DEF r
    <3> QED
      BY <1>2, <3>2, <3>3 DEF Table
  <2>2. CASE proc' = [proc EXCEPT ![p].at = "die"]
    BY <1>2, <2>2 DEF Table, Record
  <2> QED
    BY <2>1, <2>2 DEF execvp
<1>4. Restored(p)' /\ (proc'[p].at = "running" \/ proc'[p].shm = proc[p].shm)
  BY <1>3 DEF Restored, Default
<1>5. \A q \in Pids : q # p => Kept(proc, proc', q)
  BY <1>3 DEF Kept
<1>6. ~Keeper(p)
  BY <1>1 DEF Keeper, Bound, Looping
<1> QED
  BY <1>1, <1>3, <1>4, <1>5, <1>6, Moved

\* The segment goes, and its words with it; or it was gone before.
LEMMA StepRemove ==
  ASSUME IInv, NEW p \in Pids, remove(p)
  PROVE  IInv'
<1>1. /\ proc[p].at = "remove" /\ proc' = ended(proc, p) /\ delete(proc[p].shm)
      /\ UNCHANGED <<forked, segs, user, faults, killed>>
  BY DEF remove
<1>2. CASE proc[p].shm # seg
  <2>1. UNCHANGED <<seg, word, holder>>
    BY <1>1, <1>2 DEF delete
  <2>2. UserType'
    BY <1>1, <2>1, IInvParts DEF UserType
  <2> QED
    BY <1>1, <1>2, <2>1, <2>2, Ends DEF Keeper
<1>3. CASE proc[p].shm = seg
  <2>1. seg' = 0 /\ word' = Zero /\ holder' = 0
    BY <1>1, <1>3 DEF delete
  <2>2. UserType'
    BY <1>1, <2>1, IInvParts, Counts DEF UserType, Zero
  <2>3. /\ proc' \in Table(forked, segs) /\ OthersKept({p})
        /\ proc'[p].at = "dead" /\ proc'[p].action = Default
    BY <1>1, IInvParts, Counts, Ended DEF OthersKept
  <2>4. Placed(p)' /\ Restored(p)'
    BY <1>1, <2>3, Forked DEF Placed, Restored
  <2>5. \A q \in Pids : Placed(q)' /\ Restored(q)'
    BY <1>1, <2>3, <2>4, IInvParts, PlacedFrame
  <2>6. KeeperInv'
    BY <2>1 DEF KeeperInv
  <2>7. \A u \in Users : user'[u].at # "idle" => user'[u].shm # 0
    BY <1>1, IInvParts DEF PlaceInv
  <2> QED
    BY <1>1, <2>1, <2>2, <2>3, <2>5, <2>6, <2>7, Combine
<1> QED
  BY <1>2, <1>3

LEMMA Faulted ==
  ASSUME UserType, NEW f, fault(f)
  PROVE  faults' \in 0..MaxFaults
<1>1. faults < MaxFaults /\ faults' = faults + 1
  BY DEF fault
<1>2. faults \in 0..MaxFaults /\ MaxFaults \in Nat
  BY Counts DEF UserType
<1> QED
  BY <1>1, <1>2

\* The child is as its parent was, and takes nothing from it.
LEMMA StepFork ==
  ASSUME IInv, NEW p \in Pids, NEW x, NEW y, fork(p, x, y),
         \/ proc[p].at = "fork2" /\ x = "install" /\ y = "set_pid"
         \/ proc[p].at = "fork3" /\ x = "inc_count" /\ y = "set_cpid"
  PROVE  IInv'
<1>0. PICK n \in Nat : n = forked + 1
  BY IInvParts, Counts
<1> DEFINE c == [proc[p] EXCEPT !.at = x, !.parent = p, !.child = 0, !.pending = {}]
           r == [proc[p] EXCEPT !.at = y, !.child = n]
           Q == [proc EXCEPT ![n] = c]
<1>1. /\ forked < MaxPids /\ forked' = n
      /\ UNCHANGED <<seg, segs, word, holder, user, faults, killed>>
  BY <1>0 DEF fork
<1>2. proc' = [Q EXCEPT ![p] = r]
  <2>1. n # p /\ n \in Pids
    BY <1>0, <1>1, Forked, IInvParts, Counts DEF Pids
  <2>2. proc' = [proc EXCEPT ![n] = c, ![p] = [@ EXCEPT !.at = y, !.child = n]]
    BY <1>0 DEF fork
  <2>3. proc \in [Pids -> Record(forked, segs)]
    BY IInvParts DEF Table
  <2> HIDE DEF c
  <2> QED
    BY <2>1, <2>2, <2>3
<1>3. /\ p \in Pids /\ p \in 0..n /\ ~(p > n) /\ n \in Pids /\ n # p /\ n \in -1..n /\ n # -1
      /\ 0 \in -1..n /\ n \in Nat /\ segs \in Nat /\ forked \in Nat /\ n > forked
  BY <1>0, <1>1, Forked, IInvParts, Counts DEF Pids
<1>4. x \in Places /\ y \in Places /\ {} \in SUBSET Signals
  BY DEF Places, Accesses
<1>5. proc \in Table(n, segs)
  BY <1>3, IInvParts, Widen
<1>6. proc[p] \in Record(n, segs)
  BY <1>5 DEF Table
<1>7. c \in Record(n, segs) /\ c.at = x /\ c.shm = proc[p].shm /\ c.action = proc[p].action
  BY <1>3, <1>4, <1>6 DEF Record
<1>8. r \in Record(n, segs) /\ r.at = y /\ r.shm = proc[p].shm /\ r.action = proc[p].action /\ r.child = n
  BY <1>3, <1>4, <1>6 DEF Record
<1>9. proc' \in Table(n, segs) /\ proc'[n] = c /\ proc'[p] = r /\ \A q \in Pids \ {p, n} : proc'[q] = proc[q]
  <2> HIDE DEF r, c
  <2> QED
    BY <1>2, <1>3, <1>5, <1>7, <1>8 DEF Table
<1>10. OthersKept({p, n})
  BY <1>9 DEF OthersKept, Kept
<1>11. proc[p].shm # 0 /\ proc[n].at = "none"
  <2>1. Placed(p) /\ Placed(n)
    BY <1>3, IInvParts
  <2> QED
    BY <1>3, <2>1 DEF Placed
<1> HIDE DEF r, c
<1>12. Placed(p)' /\ Restored(p)'
  BY <1>1, <1>3, <1>8, <1>9, <1>11 DEF Placed, Restored
<1>13. Placed(n)' /\ Restored(n)'
  BY <1>1, <1>3, <1>7, <1>9, <1>11 DEF Placed, Restored
<1>14. \A q \in Pids : Placed(q)' /\ Restored(q)'
  <2>1. forked' = forked + 1 /\ forked \in Nat
    BY <1>0, <1>1, <1>3
  <2>2. \A q \in Pids : q \in {p, n} => Placed(q)' /\ Restored(q)'
    BY <1>12, <1>13
  <2> QED
    BY <1>10, <2>1, <2>2, IInvParts, PlacedFrame
<1>15. \A q \in Pids : q \in {p, n} /\ Keeper(q) => Keeper(q)'
  <2>1. ~Keeper(n)
    BY <1>11 DEF Keeper, Bound, Looping
  <2>2. Keeper(p) => Keeper(p)'
    BY <1>1, <1>8, <1>9 DEF Keeper, Bound, Looping
  <2> QED
    BY <2>1, <2>2
<1>16. KeeperInv'
  BY <1>1, <1>10, <1>15, IInvParts, KeeperFrame
<1>17. UserType'
  <2>1. /\ forked' \in 0..MaxPids /\ 0..forked \subseteq 0..forked' /\ -1..forked \subseteq -1..forked'
    BY <1>0, <1>1, <1>3, IInvParts, Counts
  <2> QED
    BY <1>1, <2>1, IInvParts DEF UserType
<1>18. /\ \A u \in Users : user'[u].at # "idle" => user'[u].shm # 0
       /\ seg' = 0 => word' = Zero
  BY <1>1, IInvParts DEF PlaceInv
<1> QED
  BY <1>1, <1>9, <1>14, <1>16, <1>17, <1>18, Combine

LEMMA StepForkFails ==
  ASSUME IInv, NEW p \in Pids, NEW f, NEW x, fork_fails(p, f, x),
         \/ proc[p].at = "fork2" /\ x = "install"
         \/ proc[p].at = "fork3" /\ x = "set_cpid"
  PROVE  IInv'
<1> DEFINE r == [proc[p] EXCEPT !.at = x, !.child = -1]
<1>1. /\ proc' = [proc EXCEPT ![p] = r]
      /\ UNCHANGED <<forked, seg, segs, word, holder, user, killed>>
  BY DEF fork_fails
<1>2. proc \in [Pids -> Record(forked, segs)] /\ -1 \in -1..forked /\ x \in Places
  BY IInvParts, Counts DEF Table, Places, Accesses
<1>3. r \in Record(forked, segs) /\ r.at = x /\ r.shm = proc[p].shm /\ r.action = proc[p].action
  <2>1. proc[p] \in Record(forked, segs)
    BY <1>2
  <2> QED
    BY <1>2, <2>1 DEF Record
<1> HIDE DEF r
<1>4. proc' \in Table(forked, segs) /\ proc'[p] = r /\ \A q \in Pids : q # p => proc'[q] = proc[q]
  BY <1>1, <1>2, <1>3 DEF Table
<1>5. UserType'
  <2>1. faults' \in 0..MaxFaults
    BY IInvParts, Faulted DEF fork_fails
  <2> QED
    BY <1>1, <2>1, IInvParts DEF UserType
<1>6. ~(p > forked) /\ proc[p].shm # 0
  BY Forked, IInvParts DEF Placed
<1>7. Placed(p)' /\ Restored(p)'
  BY <1>1, <1>3, <1>4, <1>6 DEF Placed, Restored
<1>8. Keeper(p) => Keeper(p)'
  BY <1>1, <1>3, <1>4, <1>6 DEF Keeper, Bound, Looping
<1>9. \A q \in Pids : q # p => Kept(proc, proc', q)
  BY <1>4 DEF Kept
<1> QED
  BY <1>1, <1>4, <1>5, <1>7, <1>8, <1>9, IInvParts, OneStep DEF PlaceInv

-----------------------------------------------------------------------------
(* Signals.                                                                *)

\* The processes stay what they are; no word is set, ACTIVE stays.
LEMMA Quiet ==
  ASSUME IInv, proc' \in Table(forked, segs), \A q \in Pids : Kept(proc, proc', q),
         UNCHANGED <<forked, seg, segs, killed>>, UserType',
         \A u \in Users : user'[u].at # "idle" => user'[u].shm # 0,
         seg = 0 => word' = Zero, word'.cpid # 0 => word.cpid # 0, word'.active = word.active
  PROVE  IInv'
<1>1. OthersKept({})
  BY DEF OthersKept
<1>2. \A q \in Pids : Placed(q)' /\ Restored(q)'
  BY <1>1, IInvParts, PlacedFrame
<1>3. KeeperInv'
  BY <1>1, IInvParts, KeeperFrame
<1> QED
  BY <1>2, <1>3, Combine

\* The process that jumps stands for the words from now on.
LEMMA StepHandler ==
  ASSUME IInv, NEW p \in Pids, NEW s \in Signals, handler(p, s)
  PROVE  IInv'
<1> DEFINE x == IF s = "USR2" THEN "die" ELSE "get_cpid"
           g == IF s = "USR2" THEN "CHLD" ELSE s
           m == ~SaveMask
           a == [proc[p].action EXCEPT ![s] = "ignore"]
           r == [proc[p] EXCEPT !.at = x, !.sig = g, !.child = 0, !.target = 0, !.action = a,
                                !.masked = m, !.pending = @ \ {s}]
<1>1. /\ proc' = [proc EXCEPT ![p] = r]
      /\ UNCHANGED <<forked, seg, segs, user, faults, killed>>
      /\ \/ UNCHANGED <<word, holder>>
         \/ /\ proc[p].shm = seg /\ holder' = p
            /\ word' \in {word, stored(p)}
      /\ proc[p].at \notin {"none", "dead"} /\ proc[p].action[s] = "catch"
  <2>1. proc' = [proc EXCEPT ![p].at = x, ![p].sig = g, ![p].child = 0, ![p].target = 0,
                   ![p].action = a, ![p].masked = m, ![p].pending = @ \ {s}]
    BY DEF handler
  <2>2. proc' = [proc EXCEPT ![p] = r]
    <3> HIDE DEF x, g, m, a
    <3> QED
      BY <2>1
  <2> HIDE DEF r
  <2> QED
    BY <2>2 DEF handler, deliverable, alive, free
<1>2. /\ proc \in [Pids -> Record(forked, segs)] /\ proc[p] \in Record(forked, segs)
      /\ 0 \in -1..forked /\ x \in Places /\ g \in Signals /\ x \in {"die", "get_cpid"}
      /\ m \in BOOLEAN
  <2>1. x \in {"die", "get_cpid"} /\ x \in Places /\ g \in Signals
    BY DEF Places, Accesses, Signals, Handled
  <2>2. m \in BOOLEAN
    OBVIOUS
  <2> HIDE DEF x, g, m
  <2> QED
    BY <2>1, <2>2, IInvParts, Counts DEF Table
<1>3. /\ proc[p].action \in [Signals -> {"default", "catch", "ignore"}]
      /\ proc[p].pending \in SUBSET Signals
  BY <1>2 DEF Record
<1>4. a \in [Signals -> {"default", "catch", "ignore"}] /\ proc[p].pending \ {s} \in SUBSET Signals
  BY <1>3
<1>5. r \in Record(forked, segs) /\ r.at = x /\ r.shm = proc[p].shm /\ r.action = a
  <2> HIDE DEF x, g, m, a
  <2> QED
    BY <1>2, <1>4 DEF Record
<1> HIDE DEF r, a, x, g, m
<1>7. proc' \in Table(forked, segs) /\ proc'[p] = r /\ \A q \in Pids : q # p => proc'[q] = proc[q]
  BY <1>1, <1>2, <1>5 DEF Table
<1>8. ~(p > forked) /\ p \in 0..forked /\ proc[p].shm # 0
  <2>1. Placed(p) /\ Restored(p)
    BY IInvParts
  <2>2. proc[p].at # "running"
    BY <1>1, <2>1 DEF Restored
  <2> QED
    BY <1>1, <2>1, <2>2, Forked DEF Placed
<1>9. Placed(p)' /\ Restored(p)'
  BY <1>1, <1>2, <1>5, <1>7, <1>8 DEF Placed, Restored
<1>10. UserType'
  BY <1>1, <1>8, Stored, IInvParts DEF UserType
<1>11. proc[p].shm = seg => Keeper(p)'
  BY <1>1, <1>2, <1>5, <1>7 DEF Keeper, Bound
<1>12. proc[p].shm # seg => ~Keeper(p) /\ word' = word
  BY <1>1 DEF Keeper
<1>13. \A q \in Pids : q # p => Kept(proc, proc', q)
  BY <1>7 DEF Kept
<1>14. ~killed' /\ word'.cpid # 0 =>
         \/ Keeper(p)'
         \/ word.cpid # 0 /\ (word.active => word'.active) /\ (Keeper(p) => Keeper(p)')
  BY <1>11, <1>12
<1>15. seg = 0 => word' = word
  BY <1>8, <1>12
<1> QED
  BY <1>1, <1>7, <1>9, <1>10, <1>13, <1>14, <1>15, OneStep

LEMMA StepDefault ==
  ASSUME IInv, NEW p \in Pids, NEW s \in Signals, default(p, s)
  PROVE  IInv'
<1>1. /\ proc[p].at # "none" /\ holder' = released(p)
      /\ killed' = (killed \/ proc[p].at # "running")
      /\ UNCHANGED <<forked, seg, segs, word, user, faults>>
  BY DEF default, deliverable, alive
<1>2. CASE proc' = ended(proc, p)
  BY <1>1, <1>2, EndSteps
<1>3. CASE proc[p].at = "running" /\ proc' = [proc EXCEPT ![p].pending = @ \ {s}]
  <2>1. proc \in Table(forked, segs) /\ proc[p].pending \ {s} \in SUBSET Signals
    BY IInvParts DEF Table, Record
  <2> DEFINE r == [proc[p] EXCEPT !.pending = @ \ {s}]
  <2>2. proc' = [proc EXCEPT ![p] = r]
    BY <1>3
  <2>3. /\ r \in Record(forked, segs) /\ r.at = proc[p].at /\ r.shm = proc[p].shm
        /\ r.action = proc[p].action /\ r.child = proc[p].child
    <3>1. proc[p] \in Record(forked, segs)
      BY <2>1 DEF Table
    <3> QED
      BY <2>1, <3>1 DEF Record
  <2> HIDE DEF r
  <2>4. proc' \in Table(forked, segs) /\ \A q \in Pids : Kept(proc, proc', q)
    BY <2>1, <2>2, <2>3 DEF Table, Kept
  <2>5. killed' = killed
    <3>1. killed \in BOOLEAN
      BY IInvParts DEF UserType
    <3> QED
      BY <1>1, <1>3, <3>1
  <2>6. UserType'
    <3>1. holder' \in 0..forked
      BY <1>1, IInvParts, Counts DEF released, UserType
    <3> QED
      BY <1>1, <2>5, <3>1, IInvParts DEF UserType
  <2> QED
    BY <1>1, <2>4, <2>5, <2>6, IInvParts, Quiet DEF PlaceInv
<1> QED
  BY <1>2, <1>3 DEF default

LEMMA StepSignal ==
  ASSUME IInv, NEW s \in Signals, signal(s)
  PROVE  IInv'
<1>1. proc' = posted(proc, word.pid, s) /\ UNCHANGED <<forked, seg, segs, word, holder, user, killed>>
  BY DEF signal
<1>2. proc' \in Table(forked, segs) /\ \A q \in Pids : Kept(proc, proc', q)
  BY <1>1, IInvParts, Counts, Posted
<1>3. UserType'
  <2>1. faults' \in 0..MaxFaults
    BY IInvParts, Faulted DEF signal
  <2> QED
    BY <1>1, <2>1, IInvParts DEF UserType
<1> QED
  BY <1>1, <1>2, <1>3, IInvParts, Quiet DEF PlaceInv

\* The daemon may stay in wait_for_signal for that; it still stands.
LEMMA StepStopped ==
  ASSUME IInv, NEW p \in Pids, stopped(p)
  PROVE  IInv'
<1> DEFINE d == proc[p].parent
           P == posted(proc, d, "CHLD")
<1>1. /\ d # 0 /\ UNCHANGED <<forked, seg, segs, word, holder, user, killed>>
      /\ \/ proc' = P
         \/ P[d].at = "wait" /\ proc' = [P EXCEPT ![d].at = "spin"]
  BY DEF stopped
<1>2. P \in Table(forked, segs) /\ \A q \in Pids : Kept(proc, P, q)
  BY IInvParts, Counts, Posted DEF Signals, Handled
<1>3. UserType'
  <2>1. faults' \in 0..MaxFaults
    BY IInvParts, Faulted DEF stopped
  <2> QED
    BY <1>1, <2>1, IInvParts DEF UserType
<1>4. PICK c \in Pids : c = d
  <2>1. d \in 0..forked /\ forked \in 0..MaxPids /\ MaxPids \in Nat
    BY IInvParts, Counts DEF UserType, Table, Record
  <2> QED
    BY <1>1, <2>1 DEF Pids
<1> HIDE DEF P, d
<1>5. CASE proc' = P
  BY <1>1, <1>2, <1>3, <1>5, IInvParts, Quiet DEF PlaceInv
<1>6. CASE P[d].at = "wait" /\ proc' = [P EXCEPT ![d].at = "spin"]
  <2>1. "spin" \in Places
    BY DEF Places
  <2>2. /\ proc' \in Table(forked, segs) /\ proc'[c].at = "spin" /\ proc'[c].shm = P[c].shm
        /\ proc'[c].action = P[c].action /\ \A q \in Pids : q # c => proc'[q] = P[q]
    <3>1. proc' = [P EXCEPT ![c].at = "spin"]
      BY <1>4, <1>6
    <3> QED
      BY <1>2, <2>1, <3>1 DEF Table, Record
  <2>3. /\ proc[c].at = "wait" /\ proc'[c].shm = proc[c].shm /\ proc'[c].action = proc[c].action
        /\ \A q \in Pids : q # c => Kept(proc, proc', q)
    BY <1>2, <1>4, <1>6, <2>2 DEF Kept
  <2>4. ~(c > forked) /\ proc[c].shm # 0
    BY <2>3, IInvParts DEF Placed
  <2>5. Placed(c)' /\ Restored(c)'
    BY <1>1, <2>2, <2>3, <2>4 DEF Placed, Restored
  <2>6. Keeper(c) => Keeper(c)'
    BY <1>1, <2>2, <2>3 DEF Keeper, Bound, Looping
  <2> QED
    BY <1>1, <1>3, <2>2, <2>3, <2>5, <2>6, OneStep
<1> QED
  BY <1>1, <1>5, <1>6

-----------------------------------------------------------------------------
(* Commands.                                                               *)

UserRecord(f, s) == [at : UserPlaces, shm : 0..s, pid : 0..f, cpid : -1..f]

Seated(f, s) ==
  /\ user' \in [Users -> UserRecord(f, s)]
  /\ \A v \in Users : user'[v].at # "idle" => user'[v].shm # 0

LEMMA UserParts ==
  ASSUME IInv
  PROVE  /\ user \in [Users -> UserRecord(forked, segs)]
         /\ \A v \in Users : user[v].at # "idle" => user[v].shm # 0
  BY IInvParts DEF UserType, UserRecord, PlaceInv

LEMMA SeatedSame ==
  ASSUME IInv, user' = user
  PROVE  Seated(forked, segs)
  BY UserParts DEF Seated

LEMMA Quit ==
  ASSUME IInv, NEW u \in Users, quit(u)
  PROVE  Seated(forked, segs)
<1>1. Idle \in UserRecord(forked, segs) /\ Idle.at = "idle"
  BY IInvParts, Counts DEF Idle, UserRecord, UserPlaces
<1>2. user' = [user EXCEPT ![u] = Idle]
  BY DEF quit
<1>3. user' \in [Users -> UserRecord(forked, segs)] /\ \A v \in Users : user'[v] \in {Idle, user[v]}
  BY <1>1, <1>2, UserParts
<1> QED
  BY <1>1, <1>3, UserParts DEF Seated

\* The command of u goes on, with what it knows of the words.
LEMMA Goes ==
  ASSUME IInv, NEW u \in Users, user[u].at # "idle", NEW x \in UserPlaces,
         NEW a \in 0..forked, NEW b \in -1..forked,
         \/ go(u, x)
         \/ user' = [user EXCEPT ![u].at = x, ![u].pid = a]
         \/ user' = [user EXCEPT ![u].at = x, ![u].cpid = b]
  PROVE  Seated(forked, segs)
<1>1. user[u] \in UserRecord(forked, segs)
  BY UserParts
<1>2. PICK r \in UserRecord(forked, segs) : r.shm = user[u].shm /\ user' = [user EXCEPT ![u] = r]
  <2>1. CASE go(u, x)
    <3> DEFINE r == [user[u] EXCEPT !.at = x]
    <3>1. r \in UserRecord(forked, segs) /\ r.shm = user[u].shm
      BY <1>1 DEF UserRecord
    <3>2. user' = [user EXCEPT ![u] = r]
      BY <2>1 DEF go
    <3> HIDE DEF r
    <3> QED
      BY <3>1, <3>2
  <2>2. CASE user' = [user EXCEPT ![u].at = x, ![u].pid = a]
    <3> DEFINE r == [user[u] EXCEPT !.at = x, !.pid = a]
    <3>1. r \in UserRecord(forked, segs) /\ r.shm = user[u].shm
      BY <1>1 DEF UserRecord
    <3>2. user' = [user EXCEPT ![u] = r]
      BY <2>2
    <3> HIDE DEF r
    <3> QED
      BY <3>1, <3>2
  <2>3. CASE user' = [user EXCEPT ![u].at = x, ![u].cpid = b]
    <3> DEFINE r == [user[u] EXCEPT !.at = x, !.cpid = b]
    <3>1. r \in UserRecord(forked, segs) /\ r.shm = user[u].shm
      BY <1>1 DEF UserRecord
    <3>2. user' = [user EXCEPT ![u] = r]
      BY <2>3
    <3> HIDE DEF r
    <3> QED
      BY <3>1, <3>2
  <2> QED
    BY <2>1, <2>2, <2>3
<1>3. /\ user' \in [Users -> UserRecord(forked, segs)] /\ user'[u].shm = user[u].shm
      /\ \A v \in Users : v # u => user'[v] = user[v]
  BY <1>2, UserParts
<1> QED
  BY <1>3, UserParts DEF Seated

\* A command that leaves segment and processes alone.
LEMMA UserStep ==
  ASSUME IInv, proc' \in Table(forked, segs), \A q \in Pids : Kept(proc, proc', q),
         UNCHANGED <<forked, seg, segs, holder, killed>>, Seated(forked, segs),
         faults' \in 0..MaxFaults,
         word' = word \/ (seg # 0 /\ word' \in {[word EXCEPT !.pid = 0], [word EXCEPT !.cpid = 0]})
  PROVE  IInv'
<1>1. /\ word \in [pid : 0..forked, cpid : -1..forked, active : BOOLEAN]
      /\ 0 \in 0..forked /\ 0 \in -1..forked
  BY IInvParts, Counts DEF UserType
<1>2. /\ word' \in [pid : 0..forked, cpid : -1..forked, active : BOOLEAN]
      /\ word'.cpid # 0 => word.cpid # 0
      /\ word'.active = word.active
  BY <1>1
<1>3. UserType'
  BY <1>2, IInvParts DEF UserType, Seated, UserRecord
<1>4. seg = 0 => word' = Zero
  BY IInvParts DEF PlaceInv
<1> QED
  BY <1>2, <1>3, <1>4, Quiet DEF Seated

LEMMA Still ==
  ASSUME IInv, proc' = proc
  PROVE  proc' \in Table(forked, segs) /\ \A q \in Pids : Kept(proc, proc', q)
  BY IInvParts DEF Kept

LEMMA StepCommand ==
  ASSUME IInv, NEW u \in Users, get_pid(u) \/ decide(u) \/ give_up(u) \/ interrupt(u)
  PROVE  IInv'
<1>1. /\ UNCHANGED <<proc, forked, seg, segs, word, holder, killed>>
  BY DEF get_pid, decide, give_up, interrupt, rest
<1>2. word.pid \in 0..forked /\ word.cpid \in -1..forked /\ faults \in 0..MaxFaults
  BY IInvParts DEF UserType
<1>3. faults' \in 0..MaxFaults
  <2>1. faults' = faults \/ fault("command")
    BY DEF get_pid, decide, give_up, interrupt, rest
  <2> QED
    BY <1>2, <2>1, IInvParts, Faulted
<1>4. Seated(forked, segs)
  <2>1. CASE quit(u)
    BY <2>1, Quit
  <2>2. CASE get_pid(u)
    <3>1. user[u].at # "idle" /\ {"start_cpid", "stop_cpid", "status_cpid"} \subseteq UserPlaces
      BY <2>2 DEF get_pid, UserPlaces
    <3>2. \/ user' = [user EXCEPT ![u].at = "start_cpid", ![u].pid = word.pid]
          \/ user' = [user EXCEPT ![u].at = "stop_cpid", ![u].pid = word.pid]
          \/ go(u, "status_cpid")
      BY <2>2 DEF get_pid
    <3> QED
      BY <1>2, <3>1, <3>2, Goes
  <2>3. CASE decide(u) /\ ~quit(u)
    <3>1. user[u].at # "idle" /\ {"fork1", "kill_child"} \subseteq UserPlaces
      BY <2>3 DEF decide, UserPlaces
    <3>2. \/ go(u, "fork1")
          \/ user' = [user EXCEPT ![u].at = "kill_child", ![u].cpid = word.cpid]
      BY <2>3 DEF decide
    <3> QED
      BY <1>2, <3>1, <3>2, Goes
  <2> QED
    BY <2>1, <2>2, <2>3 DEF give_up, interrupt
<1>5. proc' \in Table(forked, segs) /\ \A q \in Pids : Kept(proc, proc', q)
  BY <1>1, Still
<1> QED
  BY <1>1, <1>3, <1>4, <1>5, UserStep

LEMMA StepKillBoth ==
  ASSUME IInv, NEW u \in Users, kill_both(u)
  PROVE  IInv'
<1>1. UNCHANGED <<forked, seg, segs, word, holder, faults, killed>>
  BY DEF kill_both, rest
<1>2. proc' \in Table(forked, segs) /\ \A q \in Pids : Kept(proc, proc', q)
  <2>1. \/ proc' = kill(0, user[u].cpid, "USR1")
        \/ proc' = posted(proc, user[u].pid, "USR1")
    BY DEF kill_both
  <2> QED
    BY <2>1, IInvParts, Counts, Killed, Posted DEF Signals, Handled
<1>3. Seated(forked, segs)
  <2>1. CASE quit(u)
    BY <2>1, Quit
  <2>2. CASE ~quit(u)
    <3>1. user[u].at # "idle" /\ {"kill_parent", "cleanup"} \subseteq UserPlaces
      BY DEF kill_both, UserPlaces
    <3>2. \/ user' = [user EXCEPT ![u].at = "kill_parent", ![u].cpid = 0]
          \/ user' = [user EXCEPT ![u].at = "cleanup", ![u].pid = 0]
      BY <2>2 DEF kill_both
    <3>3. 0 \in 0..forked /\ 0 \in -1..forked
      BY IInvParts, Counts
    <3> QED
      BY <3>1, <3>2, <3>3, Goes
  <2> QED
    BY <2>1, <2>2
<1>4. faults' \in 0..MaxFaults
  BY <1>1, IInvParts DEF UserType
<1> QED
  BY <1>1, <1>2, <1>3, <1>4, UserStep

\* cleanup takes the segment and its words away, or comes too late.
LEMMA StepTidy ==
  ASSUME IInv, NEW u \in Users, tidy(u)
  PROVE  IInv'
<1>1. UNCHANGED <<proc, forked, segs, faults, killed>> /\ faults' \in 0..MaxFaults
  BY IInvParts DEF tidy, rest, UserType
<1>2. proc' \in Table(forked, segs) /\ \A q \in Pids : Kept(proc, proc', q)
  BY <1>1, Still
<1>3. user[u].shm # 0
  BY UserParts DEF tidy
<1>4. CASE /\ user[u].at = "cleanup" /\ free(user[u].shm) /\ word' = [word EXCEPT !.pid = 0]
           /\ go(u, "cleanup_cpid") /\ UNCHANGED <<seg, holder>>
  <2>1. Seated(forked, segs)
    <3>1. "cleanup_cpid" \in UserPlaces /\ 0 \in 0..forked /\ 0 \in -1..forked
      BY IInvParts, Counts DEF UserPlaces
    <3> QED
      BY <1>4, <3>1, Goes
  <2> QED
    BY <1>1, <1>2, <1>3, <1>4, <2>1, UserStep DEF free
<1>5. CASE /\ user[u].at = "cleanup_cpid" /\ free(user[u].shm) /\ word' = [word EXCEPT !.cpid = 0]
           /\ go(u, "remove") /\ UNCHANGED <<seg, holder>>
  <2>1. Seated(forked, segs)
    <3>1. "remove" \in UserPlaces /\ 0 \in 0..forked /\ 0 \in -1..forked
      BY IInvParts, Counts DEF UserPlaces
    <3> QED
      BY <1>5, <3>1, Goes
  <2> QED
    BY <1>1, <1>2, <1>3, <1>5, <2>1, UserStep DEF free
<1>6. CASE user[u].at = "remove" /\ delete(user[u].shm) /\ quit(u)
  <2>1. Seated(forked, segs)
    BY <1>6, Quit
  <2>2. CASE user[u].shm # seg
    BY <1>1, <1>2, <1>6, <2>1, <2>2, UserStep DEF delete
  <2>3. CASE user[u].shm = seg
    <3>1. seg' = 0 /\ word' = Zero /\ holder' = 0
      BY <1>6, <2>3 DEF delete
    <3>2. UserType'
      BY <1>1, <2>1, <3>1, IInvParts, Counts DEF UserType, Zero, Seated, UserRecord
    <3>3. OthersKept({})
      BY <1>2 DEF OthersKept
    <3>4. \A q \in Pids : Placed(q)' /\ Restored(q)'
      BY <1>1, <3>3, IInvParts, PlacedFrame
    <3>5. KeeperInv'
      BY <3>1 DEF KeeperInv
    <3> QED
      BY <1>1, <1>2, <2>1, <3>1, <3>2, <3>4, <3>5, Combine DEF Seated
  <2> QED
    BY <2>2, <2>3
<1> QED
  BY <1>4, <1>5, <1>6 DEF tidy

LEMMA Opened ==
  ASSUME IInv, NEW u \in Users, NEW x \in UserPlaces, NEW t \in Nat, segs <= t,
         NEW k \in 0..t, k # 0, user' = [user EXCEPT ![u] = [Idle EXCEPT !.at = x, !.shm = k]]
  PROVE  Seated(forked, t)
<1> DEFINE r == [Idle EXCEPT !.at = x, !.shm = k]
<1>1. 0 \in 0..forked /\ 0 \in -1..forked /\ 0 \in 0..t /\ 0..segs \subseteq 0..t
  BY IInvParts, Counts
<1>2. Idle \in UserRecord(forked, t)
  BY <1>1 DEF Idle, UserRecord, UserPlaces
<1>3. r \in UserRecord(forked, t) /\ r.shm = k
  BY <1>2 DEF UserRecord
<1>4. user \in [Users -> UserRecord(forked, t)]
  <2>1. UserRecord(forked, segs) \subseteq UserRecord(forked, t)
    BY <1>1 DEF UserRecord
  <2> QED
    BY <2>1, UserParts
<1> HIDE DEF r
<1>5. user' = [user EXCEPT ![u] = r]
  BY DEF r
<1>6. user' \in [Users -> UserRecord(forked, t)] /\ user'[u] = r /\ \A v \in Users : v # u => user'[v] = user[v]
  BY <1>3, <1>4, <1>5
<1> QED
  BY <1>3, <1>6, UserParts DEF Seated

\* A new segment has no words set.
LEMMA StepOpen ==
  ASSUME IInv, NEW u \in Users, start(u) \/ stop(u) \/ status(u)
  PROVE  IInv'
<1>1. UNCHANGED <<proc, forked, word, holder, faults, killed>> /\ faults' \in 0..MaxFaults
  BY IInvParts DEF start, stop, status, UserType
<1>2. /\ proc' \in Table(forked, segs) /\ \A q \in Pids : Kept(proc, proc', q)
      /\ forked \in Nat /\ segs \in Nat /\ MaxSegs \in Nat /\ {"start", "stop", "status"} \subseteq UserPlaces
  BY <1>1, Still, IInvParts, Counts DEF UserPlaces
<1>3. CASE seg # 0
  <2>1. UNCHANGED <<seg, segs>> /\ seg \in 0..segs
    BY <1>3, IInvParts DEF start, stop, status, UserType
  <2>2. PICK x \in {"start", "stop", "status"} :
          user' = [user EXCEPT ![u] = [Idle EXCEPT !.at = x, !.shm = seg]]
    BY <1>3, <2>1 DEF start, stop, status
  <2>3. x \in UserPlaces /\ segs \in Nat /\ segs <= segs
    BY <1>2, <2>2
  <2>4. Seated(forked, segs)
    BY <1>3, <2>1, <2>2, <2>3, Opened
  <2> QED
    BY <1>1, <1>2, <2>1, <2>4, UserStep
<1>4. CASE seg = 0
  <2>1. /\ segs < MaxSegs /\ seg' = segs + 1 /\ segs' = segs + 1
        /\ user' = [user EXCEPT ![u] = [Idle EXCEPT !.at = "start", !.shm = seg']]
    BY <1>4 DEF start, stop, status
  <2>2. /\ segs' \in Nat /\ segs <= segs' /\ seg' \in 0..segs' /\ seg' # 0 /\ segs' \in 0..MaxSegs
    BY <1>2, <2>1
  <2>3. Seated(forked, segs')
    BY <1>2, <2>1, <2>2, Opened
  <2>4. UserType'
    BY <1>1, <2>2, <2>3, IInvParts DEF UserType, Seated, UserRecord
  <2>5. proc' \in Table(forked', segs')
    BY <1>1, <1>2, <2>2, Widen
  <2>6. OthersKept({})
    BY <1>2 DEF OthersKept
  <2>7. \A q \in Pids : Placed(q)' /\ Restored(q)'
    BY <1>1, <2>6, IInvParts, PlacedFrame
  <2>8. word' = Zero /\ word'.cpid = 0
    BY <1>1, <1>4, IInvParts DEF PlaceInv, Zero
  <2>9. KeeperInv'
    BY <2>8 DEF KeeperInv
  <2> QED
    BY <2>3, <2>4, <2>5, <2>7, <2>8, <2>9, Combine DEF Seated
<1> QED
  BY <1>3, <1>4

\* The intermediate knows the segment of the command that forked it.
LEMMA StepFork1 ==
  ASSUME IInv, NEW u \in Users, fork1(u)
  PROVE  IInv'
<1>1. PICK n \in Nat : n = forked + 1
  BY IInvParts, Counts
<1> DEFINE c == [Process EXCEPT !.at = "fork2", !.shm = user[u].shm, !.leader = n]
<1>2. /\ user[u].at = "fork1" /\ forked < MaxPids /\ forked' = n /\ quit(u)
      /\ proc' = [proc EXCEPT ![n] = c]
      /\ UNCHANGED <<seg, segs, word, holder, faults, killed>>
  BY <1>1 DEF fork1
<1>3. /\ n \in Pids /\ n \in 0..n /\ 0 \in 0..n /\ 0 \in -1..n /\ segs \in Nat /\ forked \in Nat /\ n > forked
      /\ forked <= n /\ 0..forked \subseteq 0..n /\ -1..forked \subseteq -1..n /\ n \in 0..MaxPids
      /\ 0 \in 0..segs /\ ~(n > n)
  BY <1>1, <1>2, IInvParts, Counts DEF Pids
<1>4. user[u].shm \in 0..segs /\ user[u].shm # 0
  BY <1>2, UserParts DEF UserRecord
<1>5. Process \in Record(n, segs) /\ Process.action = Default
  BY <1>3 DEF Process, Record, Places, Default, Signals, Handled
<1>6. c \in Record(n, segs) /\ c.at = "fork2" /\ c.shm = user[u].shm /\ c.action = Default
  <2>1. "fork2" \in Places
    BY DEF Places
  <2> QED
    BY <1>3, <1>4, <1>5, <2>1 DEF Record
<1> HIDE DEF c
<1>7. proc \in Table(n, segs)
  BY <1>3, IInvParts, Widen
<1>8. proc' \in Table(n, segs) /\ proc'[n] = c /\ \A q \in Pids : q # n => proc'[q] = proc[q]
  BY <1>2, <1>3, <1>6, <1>7 DEF Table
<1>9. OthersKept({n})
  BY <1>8 DEF OthersKept, Kept
<1>10. Placed(n)' /\ Restored(n)'
  BY <1>2, <1>3, <1>4, <1>6, <1>8 DEF Placed, Restored
<1>11. \A q \in Pids : Placed(q)' /\ Restored(q)'
  BY <1>1, <1>2, <1>3, <1>9, <1>10, IInvParts, PlacedFrame
<1>12. ~Keeper(n)
  <2>1. proc[n].at = "none"
    BY <1>3, IInvParts DEF Placed
  <2> QED
    BY <2>1 DEF Keeper, Bound, Looping
<1>13. KeeperInv'
  BY <1>2, <1>9, <1>12, IInvParts, KeeperFrame
<1>14. Seated(n, segs)
  <2>1. Seated(forked, segs)
    BY <1>2, Quit
  <2>2. UserRecord(forked, segs) \subseteq UserRecord(n, segs)
    BY <1>3 DEF UserRecord
  <2> QED
    BY <2>1, <2>2 DEF Seated
<1>15. UserType'
  BY <1>2, <1>3, <1>14, IInvParts DEF UserType, Seated, UserRecord
<1>16. seg' = 0 => word' = Zero
  BY <1>2, IInvParts DEF PlaceInv
<1> QED
  BY <1>2, <1>8, <1>11, <1>13, <1>14, <1>15, <1>16, Combine DEF Seated

-----------------------------------------------------------------------------
(* The invariant, and what follows from it.                                *)

LEMMA InvInit ==
  ASSUME Init
  PROVE  IInv
<1>1. forked = 0 /\ seg = 0 /\ segs = 0 /\ word = Zero /\ holder = 0 /\ faults = 0 /\ killed = FALSE
  BY DEF Init
<1>2. proc \in Table(forked, segs) /\ \A p \in Pids : proc[p] = Process
  <2>1. 0 \in 0..0 /\ 0 \in -1..0
    OBVIOUS
  <2>2. Process \in Record(forked, segs)
    BY <1>1, <2>1 DEF Process, Record, Places, Default, Signals, Handled
  <2>3. proc = [p \in Pids |-> Process]
    BY DEF Init
  <2> QED
    BY <2>2, <2>3 DEF Table
<1>3. Process.at = "none" /\ Process.action = Default
  BY DEF Process
<1>4. UserType
  <2>1. 0 \in 0..0 /\ 0 \in -1..0 /\ 0 \in 0..MaxPids /\ 0 \in 0..MaxSegs /\ 0 \in 0..MaxFaults
    BY DaemonizeAssumption
  <2>2. user = [u \in Users |-> Idle]
    BY DEF Init
  <2> QED
    BY <1>1, <2>1, <2>2 DEF UserType, Zero, Idle, UserPlaces
<1>5. PlaceInv
  <2>1. \A p \in Pids : Placed(p)
    BY <1>2, <1>3 DEF Placed
  <2>2. \A u \in Users : user[u].at = "idle"
    BY DEF Init, Idle
  <2> QED
    BY <1>1, <2>1, <2>2 DEF PlaceInv
<1>6. RestoredInv
  BY <1>2, <1>3 DEF RestoredInv, Restored
<1>7. KeeperInv
  BY <1>1 DEF KeeperInv
<1> QED
  BY <1>2, <1>4, <1>5, <1>6, <1>7, TypeParts DEF IInv

LEMMA InvStep ==
  ASSUME IInv, NEW p \in Pids, Step(p)
  PROVE  IInv'
<1>1. CASE fork2(p) \/ fork3(p)
  BY <1>1, StepFork, StepForkFails DEF fork2, fork3
<1>2. CASE set_pid(p)
  BY <1>2, StepSetPid
<1>3. CASE install(p)
  BY <1>3, StepInstall
<1>4. CASE set_cpid(p) \/ activate(p) \/ end(p) \/ die(p) \/ cleanup(p) \/ inc_count(p)
  BY <1>4, AccessSteps
<1>5. CASE wait_for_signal(p) \/ sleep(p)
  BY <1>5, StepWait
<1>6. CASE again(p)
  <2>1. CASE word.active /\ access(p, "again", "install")
    BY <2>1, AccessSteps
  <2>2. CASE ~(word.active /\ access(p, "again", "install"))
    BY <1>6, <2>2, EndSteps DEF again
  <2> QED
    BY <2>1, <2>2
<1>7. CASE get_cpid(p) \/ pass(p)
  BY <1>7, StepPass
<1>8. CASE remove(p)
  BY <1>8, StepRemove
<1>9. CASE execvp(p)
  BY <1>9, StepExecvp
<1>10. CASE abort(p)
  <2>1. proc[p].at # "none"
    BY <1>10 DEF abort, Accesses
  <2> QED
    BY <1>10, <2>1, EndSteps DEF abort
<1> QED
  BY <1>1, <1>2, <1>3, <1>4, <1>5, <1>6, <1>7, <1>8, <1>9, <1>10 DEF Step

LEMMA InvNext ==
  ASSUME IInv, [Next]_vars
  PROVE  IInv'
<1>1. CASE UNCHANGED vars
  <2>1. UNCHANGED <<proc, forked, seg, segs, word, holder, user, faults, killed>>
    BY <1>1 DEF vars
  <2>2. Seated(forked, segs) /\ faults' \in 0..MaxFaults
    BY <2>1, SeatedSame, IInvParts DEF UserType
  <2> QED
    BY <2>1, <2>2, Still, UserStep
<1>2. ASSUME NEW p \in Pids, Step(p) \/ Deliver(p) \/ finish(p) \/ stopped(p) \/ sigkill(p)
      PROVE  IInv'
  <2>1. CASE Step(p)
    BY <2>1, InvStep
  <2>2. CASE Deliver(p)
    BY <2>2, StepHandler, StepDefault DEF Deliver
  <2>3. CASE finish(p)
    BY <2>3, EndSteps DEF finish
  <2>4. CASE stopped(p)
    BY <2>4, StepStopped
  <2>5. CASE sigkill(p)
    <3>1. /\ proc' = ended(proc, p) /\ UNCHANGED <<forked, seg, segs, word, user>>
          /\ holder' = released(p) /\ fault("KILL") /\ proc[p].at # "none"
          /\ killed' = (killed \/ proc[p].at # "running")
      BY <2>5 DEF sigkill, alive
    <3> QED
      BY <3>1, EndSteps
  <2> QED
    BY <1>2, <2>1, <2>2, <2>3, <2>4, <2>5
<1>3. ASSUME NEW u \in Users, start(u) \/ stop(u) \/ status(u) \/ Command(u) \/ interrupt(u)
      PROVE  IInv'
  BY <1>3, StepOpen, StepCommand, StepKillBoth, StepTidy, StepFork1 DEF Command
<1>4. ASSUME NEW s \in Faults \cap Signals, signal(s)
      PROVE  IInv'
  BY <1>4, StepSignal
<1> QED
  BY <1>1, <1>2, <1>3, <1>4 DEF Next

\* Whatever the signals and commands, and in whichever order they come, the
\* words are in the hands of a process that removes them or passes them on,
\* until SIGKILL or a signal without a handler ends a process of the daemon.
THEOREM InvariantHolds == Spec => []IInv
<1>1. Init => IInv
  BY InvInit
<1>2. IInv /\ [Next]_vars => IInv'
  BY InvNext
<1> QED
  BY <1>1, <1>2, PTL DEF Spec

\* Every process and command is where daemonize.c puts it, and the pids it
\* knows were given out: fork's results are stored in words that hold them.
THEOREM TypeCorrect == Spec => []TypeOK
<1>1. IInv => TypeOK
  BY DEF IInv
<1> QED
  BY <1>1, InvariantHolds, PTL

\* A segment that makes start refuse belongs to a live process of the daemon,
\* as long as none was ended by SIGKILL or a signal without a handler: the
\* handler, die, cleanup and the failing forks leave no words behind.
THEOREM NoGhostHolds == Spec => []NoGhost
<1>1. ASSUME NEW p \in Pids, Keeper(p)
      PROVE  Daemon(p)
  BY <1>1 DEF Keeper, Daemon, Bound, Looping, alive
<1>2. IInv => NoGhost
  BY <1>1 DEF IInv, KeeperInv, NoGhost
<1> QED
  BY <1>2, InvariantHolds, PTL

=============================================================================
