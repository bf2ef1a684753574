------------------------- MODULE SharedMemoryProofs -------------------------
(***************************************************************************)
(* Proofs about SharedMemory, for any number of processes, texts, guards   *)
(* and segments.                                                           *)
(***************************************************************************)
EXTENDS SharedMemory, TLAPS

-----------------------------------------------------------------------------
(* The inductive invariant, by parts.                                      *)

owns(p) == held[p] # 0 /\ held[p] = sem.id

\* The ids of guards are not reused, and every guard is one of one unit.
IdsInv ==
  /\ sem.id \in {0, made}
  /\ sem.id = 0 => sem = G!NoSet
  /\ \A p \in Procs :
       /\ this[p].id <= made /\ held[p] \in {0, this[p].id}
       /\ this[p] = G!NULL \/ this[p].size = 1

\* Only its creator initialises a guard, and only once.
CreatorInv ==
  \A p \in Procs : pc[p] = "setall" =>
    /\ this[p].id # 0
    /\ G!live(p) => ~G!initialised
    /\ \A q \in Procs : pc[q] = "setall" /\ this[q].id = this[p].id => q = p

\* The unit is in the value or with one process, whose undo count knows it.
UnitInv ==
  /\ \A p \in Procs : adj[p] = IF owns(p) THEN 1 ELSE 0
  /\ ~G!initialised => sem.val = 0 /\ \A p \in Procs : ~owns(p)
  /\ G!initialised => sem.size = 1 /\ sem.val = IF \E p \in Procs : owns(p) THEN 0 ELSE 1
  /\ \A p, q \in Procs : owns(p) /\ owns(q) => p = q

GuardInv == IdsInv /\ CreatorInv /\ UnitInv

\* Where p is in a method of the segment says where it is in one of the
\* guard, what it holds, and what came back.
Placed(p) ==
  /\ at[p] \in {"idle", "reget", "shmat", "semget", "memset", "rmid"} =>
       pc[p] = "idle" /\ held[p] = 0
  /\ at[p] \in {"reget", "shmat", "semget", "memset", "rmid"} => this[p] = G!NULL
  /\ at[p] = "guard" => pc[p] \in {"idle", "setall", "reattach"} /\ held[p] = 0
  /\ pc[p] = "reattach" <=> this[p] # G!NULL /\ this[p].id = 0
  /\ at[p] \in {"locking", "half", "done", "unlocking"} => this[p].id # 0
  /\ at[p] = "locking" =>
       \/ pc[p] = "semop" /\ left[p] = 0 /\ held[p] = 0
       \/ pc[p] = "idle" /\ ret[p] = 0 /\ held[p] = this[p].id
       \/ pc[p] = "idle" /\ ret[p] # 0 /\ held[p] = 0
  /\ at[p] \in {"half", "done"} => pc[p] = "idle" /\ held[p] = this[p].id
  /\ at[p] = "unlocking" =>
       \/ pc[p] = "post" /\ held[p] = this[p].id
       \/ pc[p] = "idle" /\ ret[p] = 0 /\ held[p] = 0
       \/ pc[p] = "idle" /\ ret[p] # 0 /\ held[p] = this[p].id /\ ~G!live(p)
  /\ map[p] = 0 => this[p] = G!NULL /\ at[p] \in {"idle", "reget"}
  /\ at[p] = "reget" => map[p] = 0
  /\ at[p] = "locking" => op[p] \in {"write", "read", "uint"}
  /\ at[p] = "half" => op[p] \in {"write", "read"}
  /\ at[p] \in {"idle", "reget", "shmat", "semget", "guard", "memset", "rmid"} =>
       op[p] \notin {"write", "read"}

PlaceInv == \A p \in Procs : Placed(p)

making(p) == op[p] \in {"new", "renew"}

\* What the history `spoiled' leaves out: a segment that is not in it is only
\* used with the guard as it is now.
BoundInv ==
  \A p \in Procs : map[p] # 0 /\ map[p] \notin spoiled /\ this[p].id # 0 => this[p].id = sem.id

\* As long as it is empty, there is one segment; its guard is initialised, or
\* is about to be, or is about to be made, or a constructor gave it up.
OnlyInv == spoiled = {} => \A p \in Procs : map[p] \in {0, shmid}

SetterInv ==
  spoiled = {} /\ sem.id # 0 /\ ~G!initialised =>
    \E p \in Procs : at[p] = "guard" /\ pc[p] = "setall" /\ this[p].id = sem.id /\ making(p)

MakerInv ==
  spoiled = {} /\ shmid # 0 /\ sem.id = 0 =>
    bare \/ \E p \in Procs : at[p] \in {"shmat", "semget", "guard"} /\ making(p)

RemoverInv == \A p \in Procs : at[p] = "rmid" => map[p] \in spoiled

SpoilInv == BoundInv /\ OnlyInv /\ SetterInv /\ MakerInv /\ RemoverInv

\* What a reader and a writer have of the text, and that it is whole unless a
\* writer is in the middle of it.
CopyInv ==
  \A p \in Procs :
    /\ op[p] = "write" => arg[p][1] = arg[p][2]
    /\ at[p] = "half" /\ map[p] \notin spoiled => mem[map[p]][1] = arg[p][1]
    /\ at[p] \in {"done", "unlocking"} /\ op[p] = "read" /\ map[p] \notin spoiled
         => arg[p][1] = arg[p][2]

TextInv ==
  \A s \in 1..MaxSegs \ spoiled :
    \/ mem[s][1] = mem[s][2]
    \/ \E p \in Procs : at[p] = "half" /\ op[p] = "write" /\ map[p] = s

WholeInv == CopyInv /\ TextInv

IInv == TypeOK /\ GuardInv /\ PlaceInv /\ SpoilInv /\ WholeInv

-----------------------------------------------------------------------------
(* The guard, one lemma per step of Semaphore.                             *)

\* What a step of p on the guard leaves alone.
GuardOthers(p) ==
  \A q \in Procs : q # p =>
    /\ this'[q] = this[q] /\ pc'[q] = pc[q] /\ held'[q] = held[q]
    /\ left'[q] = left[q] /\ ret'[q] = ret[q]

LEMMA Rigid == G!NULL' = G!NULL /\ G!NoSet' = G!NoSet
  BY DEF G!NULL, G!NoSet, G!Uninitialised

\* A step that keeps the set and what is held; only the place and the object
\* of p change, and p does not become a creator.
LEMMA GuardMoves ==
  ASSUME G!TypeOK, GuardInv, NEW p \in Procs, UNCHANGED <<sem, made, adj, held>>,
         GuardOthers(p), pc'[p] # "setall",
         held[p] = 0 \/ this'[p].id = this[p].id,
         this'[p].id <= made, this'[p] = G!NULL \/ this'[p].size = 1
  PROVE  GuardInv'
<1>1. \A q \in Procs : owns(q)' <=> owns(q)
  BY DEF owns
<1>2. IdsInv'
  BY Rigid DEF GuardInv, IdsInv, GuardOthers
<1>3. CreatorInv'
  BY DEF GuardInv, CreatorInv, GuardOthers, G!live, G!initialised
<1>4. UnitInv'
  BY <1>1 DEF GuardInv, UnitInv, G!initialised
<1> QED
  BY <1>2, <1>3, <1>4 DEF GuardInv

LEMMA GuardNew ==
  ASSUME G!TypeOK, GuardInv, NEW p \in Procs, held[p] = 0, NEW a \in BOOLEAN, G!new(p, 1, a)
  PROVE  /\ GuardInv' /\ GuardOthers(p)
         /\ held' = held
         /\ \/ /\ sem.id = 0 /\ sem'.id = made + 1 /\ sem'.size = G!Uninitialised
               /\ this'[p].id = made + 1 /\ pc'[p] = "setall" /\ this'[p] # G!NULL
            \/ /\ sem' = sem
               /\ this'[p].id = 0 /\ pc'[p] \in {"idle", "reattach"}
               /\ this'[p] # G!NULL <=> pc'[p] = "reattach"
<1> USE DEF G!TypeOK, G!NULL, G!Uninitialised
<1>1. /\ pc[p] = "idle" /\ this[p] = G!NULL /\ adj' = adj /\ held' = held
  BY DEF G!new
<1>2. CASE UNCHANGED sem
  <2>1. /\ UNCHANGED <<sem, made, adj, held>>
        /\ \/ this' = [this EXCEPT ![p].size = 1] /\ pc' = [pc EXCEPT ![p] = "reattach"]
              /\ UNCHANGED <<left, ret>>
           \/ this' = this /\ G!Return(p, -1)
    BY <1>1, <1>2 DEF G!new
  <2>2. GuardOthers(p)
    BY <2>1 DEF GuardOthers, G!Return
  <2>3. /\ this'[p].id = 0 /\ pc'[p] \in {"idle", "reattach"}
        /\ this'[p] # G!NULL <=> pc'[p] = "reattach"
        /\ this'[p] = G!NULL \/ this'[p].size = 1
    BY <1>1, <2>1 DEF G!Return
  <2>4. GuardInv'
    BY <1>1, <2>1, <2>2, <2>3, GuardMoves
  <2> QED
    BY <1>2, <2>1, <2>2, <2>3, <2>4
<1>3. CASE /\ sem.id = 0
           /\ made' = made + 1
           /\ sem' = [id |-> made + 1, val |-> 0, size |-> G!Uninitialised]
           /\ this' = [this EXCEPT ![p] = [id |-> made + 1, size |-> 1]]
           /\ pc' = [pc EXCEPT ![p] = "setall"]
           /\ UNCHANGED <<left, ret>>
  <2>1. /\ made' = made + 1
        /\ sem' = [id |-> made + 1, val |-> 0, size |-> G!Uninitialised]
        /\ this' = [this EXCEPT ![p] = [id |-> made + 1, size |-> 1]]
        /\ pc' = [pc EXCEPT ![p] = "setall"]
        /\ UNCHANGED <<left, ret>>
    BY <1>3
  <2>2. GuardOthers(p)
    BY <1>1, <2>1 DEF GuardOthers
  <2>3. /\ sem'.id = made + 1 /\ sem'.size = -1 /\ sem'.val = 0
        /\ this'[p].id = made + 1 /\ this'[p].size = 1 /\ pc'[p] = "setall"
    BY <2>1
  <2>4. \A q \in Procs : ~owns(q) /\ ~owns(q)' /\ adj[q] = 0
    BY <1>1, <1>3, <2>3 DEF owns, GuardInv, IdsInv, UnitInv
  <2>5. IdsInv'
    BY <1>1, <2>1, <2>2, <2>3, Rigid DEF GuardInv, IdsInv, GuardOthers
  <2>6. CreatorInv'
    BY <2>1, <2>2, <2>3 DEF GuardInv, IdsInv, CreatorInv, GuardOthers, G!initialised
  <2>7. UnitInv'
    BY <1>1, <2>3, <2>4 DEF UnitInv, G!initialised
  <2> QED
    BY <1>1, <1>3, <2>2, <2>3, <2>5, <2>6, <2>7 DEF GuardInv
<1> QED
  BY <1>2, <1>3 DEF G!new

LEMMA GuardAttach ==
  ASSUME G!TypeOK, GuardInv, NEW p \in Procs, held[p] = 0, G!attach(p)
  PROVE  /\ GuardInv' /\ GuardOthers(p)
         /\ held' = held /\ sem' = sem /\ pc'[p] = "idle"
         /\ this'[p].id = sem.id /\ (this'[p] # G!NULL => this'[p].id # 0)
<1> USE DEF G!TypeOK, G!NULL
<1>1. /\ UNCHANGED <<sem, made, adj, held>> /\ G!Return(p, ret'[p])
      /\ this[p] = G!NULL
      /\ \/ sem.id # 0 /\ this' = [this EXCEPT ![p] = [id |-> sem.id, size |-> 1]]
         \/ sem.id = 0 /\ this' = this
  BY DEF G!attach, G!Return
<1>2. GuardOthers(p)
  BY <1>1 DEF GuardOthers, G!Return
<1>3. /\ this'[p].id = sem.id /\ pc'[p] = "idle"
      /\ this'[p] # G!NULL => this'[p].id # 0
      /\ this'[p] = G!NULL \/ this'[p].size = 1
  BY <1>1 DEF G!Return
<1>4. this'[p].id <= made
  BY <1>3 DEF GuardInv, IdsInv
<1>5. GuardInv'
  BY <1>1, <1>2, <1>3, <1>4, GuardMoves
<1> QED
  BY <1>1, <1>2, <1>3, <1>5

LEMMA GuardDelete ==
  ASSUME G!TypeOK, GuardInv, NEW p \in Procs, held[p] = 0, NEW r \in BOOLEAN, G!delete(p, r)
  PROVE  /\ GuardInv' /\ GuardOthers(p)
         /\ held' = held /\ pc'[p] = "idle" /\ this'[p] = G!NULL
         /\ sem' = sem \/ (r /\ sem' # sem /\ sem'.id = 0)
<1> USE DEF G!TypeOK
<1>1. /\ UNCHANGED <<made, pc, left, ret, held>> /\ pc[p] = "idle"
      /\ this' = [this EXCEPT ![p] = G!NULL]
  BY DEF G!delete
<1>2. GuardOthers(p) /\ this'[p] = G!NULL /\ this'[p].id = 0
  BY <1>1 DEF GuardOthers, G!NULL
<1>3. made \in Nat
  OBVIOUS
<1>4. CASE UNCHANGED <<sem, adj>>
  <2>1. GuardInv'
    BY <1>1, <1>2, <1>3, <1>4, GuardMoves
  <2> QED
    BY <1>1, <1>2, <1>4, <2>1
<1>5. CASE r /\ G!live(p) /\ sem' = G!NoSet /\ adj' = [q \in Procs |-> 0]
  <2>1. sem'.id = 0 /\ sem'.val = 0 /\ sem'.size = -1 /\ sem.id # 0
    BY <1>5 DEF G!NoSet, G!live, G!Uninitialised
  <2>2. \A q \in Procs : ~owns(q)'
    BY <2>1 DEF owns
  <2>3. IdsInv'
    BY <1>1, <1>2, <1>3, <1>5, <2>1, Rigid DEF GuardInv, IdsInv, GuardOthers
  <2>4. CreatorInv'
    BY <1>1, <1>2, <2>1 DEF GuardInv, CreatorInv, GuardOthers, G!live
  <2>5. UnitInv'
    BY <1>5, <2>1, <2>2 DEF UnitInv, G!initialised, G!Uninitialised
  <2> QED
    BY <1>1, <1>2, <1>5, <2>1, <2>3, <2>4, <2>5 DEF GuardInv
<1> QED
  BY <1>4, <1>5 DEF G!delete

LEMMA GuardLock ==
  ASSUME G!TypeOK, GuardInv, NEW p \in Procs, held[p] = 0, G!lock(p, G!LOCK_BLOCKING)
  PROVE  /\ GuardInv' /\ GuardOthers(p)
         /\ UNCHANGED <<held, this, sem>>
         /\ \/ pc'[p] = "semop" /\ left'[p] = 0
            \/ pc'[p] = "idle" /\ ret'[p] # 0
<1>1. /\ UNCHANGED <<sem, made, adj, this, held>> /\ G!EnterSemop(p, 0)
  BY DEF G!lock, G!LOCK_BLOCKING, G!LOCK_NONBLOCK
<1>2. GuardOthers(p)
  BY <1>1 DEF GuardOthers, G!EnterSemop, G!Return, G!TypeOK
<1>3. \/ pc'[p] = "semop" /\ left'[p] = 0
      \/ pc'[p] = "idle" /\ ret'[p] # 0
  BY <1>1 DEF G!EnterSemop, G!Return, G!TypeOK
<1>4. GuardInv'
  BY <1>1, <1>2, <1>3, GuardMoves DEF GuardInv, IdsInv
<1> QED
  BY <1>1, <1>2, <1>3, <1>4

\* A process that was told it has the unit passes the check of unlock.
LEMMA GuardUnlock ==
  ASSUME G!TypeOK, GuardInv, NEW p \in Procs, this[p].id # 0, held[p] = this[p].id, G!unlock(p)
  PROVE  /\ GuardInv' /\ GuardOthers(p)
         /\ UNCHANGED <<held, this, sem>>
         /\ pc'[p] = "post"
<1>1. UNCHANGED <<sem, made, adj, this, held>>
  BY DEF G!unlock
<1>2. this[p] # G!NULL /\ this[p].size = 1
  BY DEF GuardInv, IdsInv, G!NULL
<1>3. G!used(p) > 0
  <2>1. CASE G!live(p)
    <3>1. owns(p)
      BY <2>1 DEF owns, G!live
    <3>2. sem.val = 0
      BY <3>1 DEF GuardInv, UnitInv
    <3> QED
      BY <1>2, <2>1, <3>2 DEF G!used, G!getval
  <2>2. CASE ~G!live(p)
    BY <1>2, <2>2 DEF G!used, G!getval
  <2> QED
    BY <2>1, <2>2
<1>4. pc' = [pc EXCEPT ![p] = "post"] /\ UNCHANGED <<left, ret>>
  <2>1. G!used(p) \in Int
    BY <1>2 DEF G!used, G!getval, G!TypeOK
  <2> QED
    BY <1>3, <2>1 DEF G!unlock
<1>5. GuardOthers(p) /\ pc'[p] = "post"
  BY <1>1, <1>4 DEF GuardOthers, G!TypeOK
<1>6. GuardInv'
  BY <1>1, <1>2, <1>5, GuardMoves DEF GuardInv, IdsInv
<1> QED
  BY <1>1, <1>5, <1>6

LEMMA GuardSetall ==
  ASSUME G!TypeOK, GuardInv, NEW p \in Procs, held[p] = 0, G!setall(p)
  PROVE  /\ GuardInv' /\ GuardOthers(p)
         /\ held' = held /\ sem'.id = sem.id /\ pc'[p] = "idle"
         /\ \/ this'[p] = this[p] /\ G!initialised'
            \/ this'[p] = G!NULL /\ sem' = sem /\ ~G!live(p)
<1>1. /\ pc[p] = "setall" /\ UNCHANGED <<made, held>>
      /\ pc' = [pc EXCEPT ![p] = "idle"]
      /\ left' = [left EXCEPT ![p] = 0] /\ \E e \in Int : ret' = [ret EXCEPT ![p] = e]
  BY DEF G!setall, G!Return
<1>2. this[p].id # 0 /\ this[p].size = 1
  BY <1>1 DEF GuardInv, IdsInv, CreatorInv, G!NULL
<1>3. pc'[p] = "idle" /\ \A q \in Procs : pc'[q] = "setall" => q # p /\ pc[q] = "setall"
  BY <1>1 DEF G!TypeOK
<1>4. CASE G!live(p)
  <2>1. /\ sem' = [id |-> sem.id, val |-> 1, size |-> 1]
        /\ adj' = [q \in Procs |-> 0] /\ this' = this
    BY <1>2, <1>4 DEF G!setall
  <2>2. sem'.id = sem.id /\ sem'.val = 1 /\ sem'.size = 1 /\ sem.id = this[p].id
    BY <1>4, <2>1 DEF G!live
  <2>3. GuardOthers(p)
    BY <1>1, <2>1 DEF GuardOthers, G!TypeOK
  <2>4. G!initialised' /\ ~G!initialised
    BY <1>1, <1>4, <2>2 DEF GuardInv, CreatorInv, G!initialised, G!Uninitialised
  <2>5. \A q \in Procs : ~owns(q)'
    BY <1>1, <2>2, <2>4 DEF GuardInv, UnitInv, owns
  <2>6. IdsInv'
    BY <1>1, <1>2, <2>1, <2>2, Rigid DEF GuardInv, IdsInv
  <2>7. CreatorInv'
    <3>1. \A q \in Procs : pc'[q] = "setall" => this[q].id # sem.id
      BY <1>1, <1>3, <2>2 DEF GuardInv, CreatorInv
    <3> QED
      BY <1>3, <2>1, <2>2, <3>1 DEF GuardInv, CreatorInv, G!live
  <2>8. UnitInv'
    BY <2>1, <2>2, <2>4, <2>5 DEF UnitInv
  <2> QED
    BY <1>1, <1>3, <2>1, <2>2, <2>3, <2>4, <2>6, <2>7, <2>8 DEF GuardInv
<1>5. CASE ~G!live(p)
  <2>1. UNCHANGED <<sem, adj>> /\ this' = [this EXCEPT ![p] = G!NULL]
    BY <1>5 DEF G!setall
  <2>2. this'[p] = G!NULL /\ this'[p].id = 0 /\ made \in Nat
    BY <2>1 DEF G!NULL, G!TypeOK
  <2>3. GuardOthers(p)
    BY <1>1, <2>1 DEF GuardOthers, G!TypeOK
  <2>4. GuardInv'
    BY <1>1, <1>3, <2>1, <2>2, <2>3, GuardMoves
  <2> QED
    BY <1>1, <1>3, <1>5, <2>1, <2>2, <2>3, <2>4
<1> QED
  BY <1>4, <1>5

LEMMA GuardReattach ==
  ASSUME G!TypeOK, GuardInv, NEW p \in Procs, held[p] = 0, this[p] # G!NULL, G!reattach(p)
  PROVE  /\ GuardInv' /\ GuardOthers(p)
         /\ held' = held /\ sem' = sem /\ pc'[p] = "idle"
         /\ this'[p].id = sem.id /\ (this'[p] # G!NULL => this'[p].id # 0)
<1>1. /\ UNCHANGED <<sem, made, adj, held>> /\ G!Return(p, ret'[p])
      /\ \/ sem.id # 0 /\ this' = [this EXCEPT ![p].id = sem.id]
         \/ sem.id = 0 /\ this' = [this EXCEPT ![p] = G!NULL]
  BY DEF G!reattach, G!Return, G!TypeOK
<1>2. GuardOthers(p)
  BY <1>1 DEF GuardOthers, G!Return, G!TypeOK
<1>3. this[p] \in [id : Nat, size : Nat] /\ this[p].size = 1 /\ pc'[p] = "idle"
  BY <1>1 DEF G!TypeOK, GuardInv, IdsInv, G!Return
<1>4. /\ this'[p].id = sem.id
      /\ this'[p] # G!NULL => this'[p].id # 0
      /\ this'[p] = G!NULL \/ this'[p].size = 1
  BY <1>1, <1>3 DEF G!TypeOK, G!NULL
<1>5. this'[p].id <= made
  BY <1>4 DEF GuardInv, IdsInv, G!TypeOK
<1>6. GuardInv'
  BY <1>1, <1>2, <1>3, <1>4, <1>5, GuardMoves
<1> QED
  BY <1>1, <1>2, <1>3, <1>4, <1>6

\* p comes back from a wait without the unit.
LEMMA GuardInterrupted ==
  ASSUME G!TypeOK, GuardInv, NEW p \in Procs, G!interrupted(p)
  PROVE  /\ GuardInv' /\ GuardOthers(p)
         /\ UNCHANGED <<held, this, sem>>
         /\ pc'[p] = "idle" /\ ret'[p] # 0
<1>1. UNCHANGED <<sem, made, adj, this, held>> /\ G!Return(p, -1)
  BY DEF G!interrupted
<1>2. GuardOthers(p) /\ pc'[p] = "idle" /\ ret'[p] # 0
  BY <1>1 DEF GuardOthers, G!Return, G!TypeOK
<1>3. GuardInv'
  BY <1>1, <1>2, GuardMoves DEF GuardInv, IdsInv
<1> QED
  BY <1>1, <1>2, <1>3

\* What a step of p leaves alone if it moves a unit, or settles one.
MoveUnit(p) ==
  /\ GuardOthers(p) /\ made' = made
  /\ sem'.id = sem.id /\ sem'.size = sem.size
  /\ pc'[p] = "idle"
  /\ this'[p] = this[p] \/ this'[p] = G!NULL

LEMMA GuardUnit ==
  ASSUME G!TypeOK, GuardInv, NEW p \in Procs, MoveUnit(p),
         held'[p] \in {0, this'[p].id},
         sem.id = 0 => sem' = sem
  PROVE  IdsInv' /\ CreatorInv'
<1>1. this'[p].id <= made /\ (this'[p] = G!NULL \/ this'[p].size = 1)
  BY DEF MoveUnit, GuardInv, IdsInv, G!NULL, G!TypeOK
<1>2. IdsInv'
  BY <1>1, Rigid DEF MoveUnit, GuardInv, IdsInv, GuardOthers
<1>3. CreatorInv'
  BY DEF MoveUnit, GuardInv, CreatorInv, GuardOthers, G!live, G!initialised
<1> QED
  BY <1>2, <1>3

\* EIDRM: p believes to hold a unit of a set that is gone.
LEMMA GuardRemoved ==
  ASSUME G!TypeOK, GuardInv, NEW p \in Procs, held[p] = 0, left[p] = 0, this[p].id # 0, G!removed(p)
  PROVE  /\ GuardInv' /\ MoveUnit(p)
         /\ this' = this /\ held'[p] = this[p].id /\ ret'[p] = 0
<1>1. /\ UNCHANGED <<sem, made, adj, this>> /\ G!Return(p, 0)
      /\ held' = [held EXCEPT ![p] = this[p].id] /\ this[p].id # sem.id
  BY DEF G!removed, G!live
<1>2. held'[p] = this[p].id /\ pc'[p] = "idle" /\ ret'[p] = 0 /\ GuardOthers(p)
  BY <1>1 DEF GuardOthers, G!Return, G!TypeOK
<1>3. MoveUnit(p)
  BY <1>1, <1>2 DEF MoveUnit
<1>4. IdsInv' /\ CreatorInv'
  BY <1>1, <1>2, <1>3, GuardUnit
<1>5. \A q \in Procs : owns(q)' <=> owns(q)
  BY <1>1, <1>2 DEF owns, GuardOthers
<1>6. UnitInv'
  BY <1>1, <1>5 DEF GuardInv, UnitInv, G!initialised
<1> QED
  BY <1>1, <1>2, <1>3, <1>4, <1>6 DEF GuardInv

LEMMA GuardAcquire ==
  ASSUME G!TypeOK, GuardInv, NEW p \in Procs, held[p] = 0, G!acquire(p)
  PROVE  /\ GuardInv' /\ MoveUnit(p)
         /\ this' = this /\ held'[p] = this[p].id /\ ret'[p] = 0
<1>1. /\ UNCHANGED <<made, this>> /\ G!Return(p, 0)
      /\ held' = [held EXCEPT ![p] = this[p].id] /\ this[p].id = sem.id /\ sem.id # 0
      /\ sem.val > 0 /\ sem' = [sem EXCEPT !.val = @ - 1]
      /\ adj' = [adj EXCEPT ![p] = @ - (-1)]
  BY DEF G!acquire, G!live, G!Undo
<1>2. held'[p] = this[p].id /\ pc'[p] = "idle" /\ ret'[p] = 0 /\ GuardOthers(p)
  BY <1>1 DEF GuardOthers, G!Return, G!TypeOK
<1>3. sem'.id = sem.id /\ sem'.size = sem.size /\ sem'.val = sem.val - 1
  BY <1>1 DEF G!TypeOK
<1>4. MoveUnit(p)
  BY <1>1, <1>2, <1>3 DEF MoveUnit
<1>5. IdsInv' /\ CreatorInv'
  BY <1>1, <1>2, <1>4, GuardUnit
<1>6. /\ G!initialised /\ sem.val = 1 /\ sem.size = 1
      /\ \A q \in Procs : ~owns(q) /\ adj[q] = 0
  BY <1>1 DEF GuardInv, UnitInv, G!TypeOK
<1>7. owns(p)' /\ \A q \in Procs : q # p => ~owns(q)'
  BY <1>1, <1>2, <1>3, <1>6 DEF owns, GuardOthers
<1>8. \A q \in Procs : adj'[q] = IF q = p THEN 1 ELSE 0
  BY <1>1, <1>6 DEF G!TypeOK
<1>9. UnitInv'
  BY <1>3, <1>6, <1>7, <1>8 DEF UnitInv, G!initialised, G!Uninitialised
<1> QED
  BY <1>1, <1>2, <1>4, <1>5, <1>9 DEF GuardInv

\* What p held is back in the value.
LEMMA UnitBack ==
  ASSUME G!TypeOK, GuardInv, NEW p \in Procs, owns(p), MoveUnit(p), ~owns(p)',
         sem'.val = 1, adj' = [adj EXCEPT ![p] = 0]
  PROVE  UnitInv'
<1>1. G!initialised /\ sem.size = 1
  BY DEF GuardInv, UnitInv
<1>2. \A q \in Procs : q # p => ~owns(q) /\ ~owns(q)' /\ adj'[q] = 0
  BY DEF GuardInv, UnitInv, MoveUnit, GuardOthers, owns, G!TypeOK
<1>3. adj'[p] = 0
  BY DEF G!TypeOK
<1> QED
  BY <1>1, <1>2, <1>3 DEF UnitInv, MoveUnit, G!initialised

\* unlock gives the unit back, unless the set is gone.
LEMMA GuardPost ==
  ASSUME G!TypeOK, GuardInv, NEW p \in Procs, this[p].id # 0, held[p] = this[p].id, G!post(p)
  PROVE  /\ GuardInv' /\ MoveUnit(p) /\ this' = this
         /\ \/ held'[p] = 0 /\ ret'[p] = 0
            \/ held'[p] = this[p].id /\ ret'[p] # 0 /\ ~G!live(p)
<1>1. CASE G!live(p)
  <2>1. owns(p) /\ sem.id # 0
    BY <1>1 DEF owns, G!live
  <2>2. sem.val = 0 /\ adj[p] = 1
    BY <2>1 DEF GuardInv, UnitInv
  <2>3. /\ UNCHANGED <<made, this>> /\ G!Return(p, 0)
        /\ held' = [held EXCEPT ![p] = 0]
        /\ sem' = [sem EXCEPT !.val = @ + 1]
        /\ adj' = [adj EXCEPT ![p] = @ - 1]
    BY <1>1, <2>2 DEF G!post, G!Undo, G!TypeOK
  <2>4. held'[p] = 0 /\ pc'[p] = "idle" /\ ret'[p] = 0 /\ GuardOthers(p)
    BY <2>3 DEF GuardOthers, G!Return, G!TypeOK
  <2>5. sem'.id = sem.id /\ sem'.size = sem.size /\ sem'.val = 1
    BY <2>2, <2>3 DEF G!TypeOK
  <2>6. MoveUnit(p)
    BY <2>3, <2>4, <2>5 DEF MoveUnit
  <2>7. IdsInv' /\ CreatorInv'
    BY <2>1, <2>4, <2>6, GuardUnit
  <2>8. adj' = [adj EXCEPT ![p] = 0] /\ ~owns(p)'
    BY <2>2, <2>3, <2>4 DEF owns, G!TypeOK
  <2>9. UnitInv'
    BY <2>1, <2>5, <2>6, <2>8, UnitBack
  <2> QED
    BY <2>3, <2>4, <2>6, <2>7, <2>9 DEF GuardInv
<1>2. CASE ~G!live(p)
  <2>1. UNCHANGED <<sem, made, adj, this, held>> /\ G!Return(p, -1)
    BY <1>2 DEF G!post
  <2>2. pc'[p] = "idle" /\ ret'[p] # 0 /\ GuardOthers(p)
    BY <2>1 DEF GuardOthers, G!Return, G!TypeOK
  <2>3. GuardInv'
    BY <2>1, <2>2, GuardMoves DEF GuardInv, IdsInv
  <2> QED
    BY <1>2, <2>1, <2>2, <2>3 DEF MoveUnit
<1> QED
  BY <1>1, <1>2

\* A process that dies gives its unit back, by SEM_UNDO.
LEMMA GuardExit ==
  ASSUME G!TypeOK, GuardInv, NEW p \in Procs, G!exit(p)
  PROVE  /\ GuardInv' /\ MoveUnit(p)
         /\ this'[p] = G!NULL /\ held'[p] = 0
<1>1. /\ sem' = G!settle(p) /\ made' = made /\ G!Return(p, 0)
      /\ adj' = [adj EXCEPT ![p] = 0]
      /\ this' = [this EXCEPT ![p] = G!NULL]
      /\ held' = [held EXCEPT ![p] = 0]
  BY DEF G!exit
<1>2. this'[p] = G!NULL /\ held'[p] = 0 /\ pc'[p] = "idle" /\ GuardOthers(p)
  BY <1>1 DEF GuardOthers, G!Return, G!TypeOK
<1>3. sem.val + adj[p] \in {0, 1} /\ adj[p] \in {0, 1} /\ sem.val \in {0, 1}
  BY DEF GuardInv, UnitInv
<1>4. sem'.id = sem.id /\ sem'.size = sem.size /\ sem'.val = sem.val + adj[p]
  BY <1>1, <1>3 DEF G!settle, G!TypeOK
<1>5. MoveUnit(p) /\ ~owns(p)'
  BY <1>1, <1>2, <1>4 DEF MoveUnit, owns
<1>6. sem.id = 0 => sem' = sem
  <2> SUFFICES ASSUME sem.id = 0 PROVE sem' = sem
    OBVIOUS
  <2>1. adj[p] = 0 /\ sem.val \in Int
    BY DEF GuardInv, UnitInv, owns, G!TypeOK
  <2>2. sem' = [sem EXCEPT !.val = sem.val]
    BY <1>1, <1>3, <2>1 DEF G!settle
  <2> QED
    BY <2>2 DEF G!TypeOK
<1>7. IdsInv' /\ CreatorInv'
  BY <1>2, <1>5, <1>6, GuardUnit
<1>8. UnitInv'
  <2>1. CASE owns(p)
    <3>1. sem'.val = 1
      BY <1>4, <2>1 DEF GuardInv, UnitInv
    <3> QED
      BY <1>1, <1>5, <2>1, <3>1, UnitBack
  <2>2. CASE ~owns(p)
    <3>1. adj[p] = 0 /\ sem'.val = sem.val
      BY <1>3, <1>4, <2>2 DEF GuardInv, UnitInv
    <3>2. \A q \in Procs : (owns(q)' <=> owns(q)) /\ adj'[q] = adj[q]
      BY <1>1, <1>2, <1>4, <2>2, <3>1 DEF owns, GuardOthers, G!TypeOK
    <3> QED
      BY <1>4, <3>1, <3>2 DEF GuardInv, UnitInv, G!initialised
  <2> QED
    BY <2>1, <2>2
<1> QED
  BY <1>2, <1>5, <1>7, <1>8 DEF GuardInv

-----------------------------------------------------------------------------
(* Types.                                                                  *)

LEMMA GuardTypeRun ==
  ASSUME G!TypeOK, NEW p \in Procs, G!Run(p) \/ G!interrupted(p) \/ G!exit(p)
  PROVE  G!TypeOK'
<1> USE DEF G!TypeOK, G!Return, G!Steps, G!NULL, G!NoSet
<1>1. CASE G!setall(p)
  <2>1. this[p] \in [id : Nat, size : Nat] /\ this[p].size \in Nat
    OBVIOUS
  <2>2. sem' \in [id : Nat, val : Int, size : Nat \cup {G!Uninitialised}]
    BY <1>1, <2>1 DEF G!setall
  <2>3. this' \in [Procs -> [id : Nat, size : Nat]] /\ adj' \in [Procs -> Int]
    BY <1>1 DEF G!setall
  <2>4. pc' \in [Procs -> G!Steps] /\ left' \in [Procs -> Int] /\ ret' \in [Procs -> Int]
    BY <1>1 DEF G!setall
  <2> QED
    BY <1>1, <2>2, <2>3, <2>4, Rigid DEF G!setall, G!Uninitialised
<1>2. CASE G!reattach(p)
  <2>1. this[p] \in [id : Nat, size : Nat]
    OBVIOUS
  <2>2. this' \in [Procs -> [id : Nat, size : Nat]]
    BY <1>2, <2>1 DEF G!reattach
  <2> QED
    BY <1>2, <2>2 DEF G!reattach, G!Uninitialised
<1>3. CASE G!acquire(p)
  BY <1>3 DEF G!acquire, G!Undo, G!Uninitialised
<1>4. CASE G!again(p)
  BY <1>4 DEF G!again, G!Uninitialised
<1>5. CASE G!removed(p)
  BY <1>5 DEF G!removed, G!Uninitialised
<1>6. CASE G!wake(p)
  BY <1>6 DEF G!wake, G!EnterSemop, G!Uninitialised
<1>7. CASE G!post(p)
  <2>1. adj' \in [Procs -> Int]
    BY <1>7 DEF G!post, G!Undo
  <2>2. held' = held \/ held' = [held EXCEPT ![p] = 0]
    BY <1>7 DEF G!post
  <2>3. held' \in [Procs -> Nat]
    BY <2>2
  <2> QED
    BY <1>7, <2>1, <2>3 DEF G!post, G!Uninitialised
<1>8. CASE G!interrupted(p)
  BY <1>8 DEF G!interrupted, G!Uninitialised
<1>9. CASE G!exit(p)
  BY <1>9 DEF G!exit, G!settle, G!Uninitialised
<1> QED
  BY <1>1, <1>2, <1>3, <1>4, <1>5, <1>6, <1>7, <1>8, <1>9 DEF G!Run

LEMMA GuardTypeCall ==
  ASSUME G!TypeOK, NEW p \in Procs,
         \/ \E a \in BOOLEAN : G!new(p, 1, a)
         \/ G!attach(p)
         \/ \E r \in BOOLEAN : G!delete(p, r)
         \/ G!lock(p, G!LOCK_BLOCKING)
         \/ G!unlock(p)
  PROVE  G!TypeOK'
<1> USE DEF G!TypeOK, G!Return, G!Steps, G!NULL, G!NoSet, G!Uninitialised
<1>1. ASSUME NEW a \in BOOLEAN, G!new(p, 1, a)
      PROVE  G!TypeOK'
  <2>1. this[p] \in [id : Nat, size : Nat]
    OBVIOUS
  <2>2. this' \in [Procs -> [id : Nat, size : Nat]]
    BY <1>1, <2>1 DEF G!new
  <2>3. /\ \/ sem' = sem /\ made' = made
           \/ sem' = [id |-> made + 1, val |-> 0, size |-> -1] /\ made' = made + 1
        /\ adj' = adj /\ held' = held
    BY <1>1 DEF G!new
  <2>4. sem' \in [id : Nat, val : Int, size : Nat \cup {G!Uninitialised}] /\ made' \in Nat
    BY <2>3
  <2>5. pc' \in [Procs -> G!Steps]
    BY <1>1 DEF G!new
  <2>6. left' \in [Procs -> Int] /\ ret' \in [Procs -> Int]
    BY <1>1 DEF G!new
  <2> QED
    BY <2>2, <2>3, <2>4, <2>5, <2>6
<1>2. CASE G!attach(p)
  <2>1. this' = this \/ this' = [this EXCEPT ![p] = [id |-> sem.id, size |-> 1]]
    BY <1>2 DEF G!attach
  <2>2. this' \in [Procs -> [id : Nat, size : Nat]]
    BY <2>1
  <2> QED
    BY <1>2, <2>2 DEF G!attach
<1>3. ASSUME NEW r \in BOOLEAN, G!delete(p, r)
      PROVE  G!TypeOK'
  BY <1>3 DEF G!delete
<1>4. CASE G!lock(p, G!LOCK_BLOCKING)
  <2>1. UNCHANGED <<sem, made, adj, this, held>>
    BY <1>4 DEF G!lock
  <2>2. G!Return(p, 1) \/ G!EnterSemop(p, 0)
    BY <1>4 DEF G!lock, G!LOCK_BLOCKING
  <2>3. \/ pc' = [pc EXCEPT ![p] = "semop"] /\ left' = [left EXCEPT ![p] = 0] /\ ret' = ret
        \/ \E e \in {1, -1} : /\ pc' = [pc EXCEPT ![p] = "idle"] /\ left' = [left EXCEPT ![p] = 0]
                             /\ ret' = [ret EXCEPT ![p] = e]
    BY <2>2 DEF G!EnterSemop
  <2>4. pc' \in [Procs -> G!Steps]
    BY <2>3
  <2>5. left' \in [Procs -> Int] /\ ret' \in [Procs -> Int]
    BY <2>3
  <2> QED
    BY <2>1, <2>4, <2>5
<1>5. CASE G!unlock(p)
  BY <1>5 DEF G!unlock
<1> QED
  BY <1>1, <1>2, <1>3, <1>4, <1>5

\* The part of the type that is not the guard's.
SegType ==
  /\ shmid \in 0..segs
  /\ segs \in 0..MaxSegs
  /\ map \in [Procs -> 0..segs]
  /\ sized \in [Procs -> BOOLEAN]
  /\ spoiled \subseteq 1..segs
  /\ bare \in BOOLEAN

CallType ==
  /\ at \in [Procs -> Places]
  /\ op \in [Procs -> Ops]
  /\ arg \in [Procs -> (Values \cup {0}) \X (Values \cup {0})]
  /\ mem \in [1..MaxSegs -> (Values \cup {0}) \X (Values \cup {0})]

LEMMA TypeParts == TypeOK <=> G!TypeOK /\ SegType /\ CallType
  BY DEF TypeOK, SegType, CallType

LEMMA TypePartsNext == TypeOK' <=> G!TypeOK' /\ SegType' /\ CallType'
  BY DEF TypeOK, SegType, CallType

-----------------------------------------------------------------------------
(* Frames: what a step of p has to establish, and no more.                 *)

\* What a step of p leaves alone of the others' calls.
CallOthers(p) ==
  \A q \in Procs : q # p =>
    at'[q] = at[q] /\ op'[q] = op[q] /\ arg'[q] = arg[q] /\ map'[q] = map[q]

LEMMA PlaceFrame ==
  ASSUME G!TypeOK, GuardInv, PlaceInv, NEW p \in Procs, GuardOthers(p), CallOthers(p),
         sem'.id \in {0, sem.id, made + 1}, Placed(p)'
  PROVE  PlaceInv'
<1> SUFFICES ASSUME NEW q \in Procs, q # p
             PROVE  Placed(q)'
  BY DEF PlaceInv
<1>1. /\ this'[q] = this[q] /\ pc'[q] = pc[q] /\ held'[q] = held[q]
      /\ left'[q] = left[q] /\ ret'[q] = ret[q]
      /\ at'[q] = at[q] /\ op'[q] = op[q] /\ map'[q] = map[q]
  BY DEF GuardOthers, CallOthers
<1>2. ~G!live(q) => ~G!live(q)'
  BY <1>1 DEF G!live, GuardInv, IdsInv, G!TypeOK
<1>3. Placed(q)
  BY DEF PlaceInv
<1> QED
  BY <1>1, <1>2, <1>3, Rigid DEF Placed

\* A step that leaves the set, its id and the key as they are, and takes no
\* witness away.
LEMMA SpoilFrame ==
  ASSUME SpoilInv, NEW p \in Procs, GuardOthers(p), CallOthers(p),
         sem'.id = sem.id, sem'.size = sem.size, shmid' = shmid, spoiled' = spoiled,
         map'[p] # 0 /\ map'[p] \notin spoiled /\ this'[p].id # 0 => this'[p].id = sem.id,
         map'[p] \in {0, shmid, map[p]},
         at[p] = "guard" /\ pc[p] = "setall" => sem.id # this[p].id,
         bare => bare',
         at[p] \in {"shmat", "semget", "guard"} /\ making(p) =>
           \/ at'[p] \in {"shmat", "semget", "guard"} /\ op'[p] = op[p]
           \/ spoiled # {} \/ sem.id # 0 \/ bare',
         at'[p] # "rmid"
  PROVE  SpoilInv'
<1>1. BoundInv'
  BY DEF SpoilInv, BoundInv, GuardOthers, CallOthers
<1>2. OnlyInv'
  BY DEF SpoilInv, OnlyInv, CallOthers
<1>3. SetterInv'
  BY DEF SpoilInv, SetterInv, GuardOthers, CallOthers, making, G!initialised, G!Uninitialised
<1>4. MakerInv'
  BY DEF SpoilInv, MakerInv, GuardOthers, CallOthers, making
<1>5. RemoverInv'
  BY DEF SpoilInv, RemoverInv, CallOthers
<1> QED
  BY <1>1, <1>2, <1>3, <1>4, <1>5 DEF SpoilInv

\* A step that neither moves text nor starts or ends a move.
LEMMA WholeFrame ==
  ASSUME WholeInv, NEW p \in Procs, CallOthers(p), mem' = mem, spoiled \subseteq spoiled',
         at[p] # "half" \/ (op[p] = "write" => map[p] \in spoiled'),
         at'[p] # "half",
         op'[p] = "write" => arg'[p][1] = arg'[p][2],
         at'[p] \in {"done", "unlocking"} /\ op'[p] = "read" =>
           at[p] \in {"done", "unlocking"} /\ UNCHANGED <<op[p], arg[p], map[p]>>
  PROVE  WholeInv'
<1>1. CopyInv'
  BY DEF WholeInv, CopyInv, CallOthers
<1>2. TextInv'
  BY DEF WholeInv, TextInv, CallOthers
<1> QED
  BY <1>1, <1>2 DEF WholeInv

-----------------------------------------------------------------------------
(* The invariant, one lemma per step.                                      *)

LEMMA Parts ==
  ASSUME IInv
  PROVE  /\ G!TypeOK /\ SegType /\ CallType /\ GuardInv /\ PlaceInv /\ SpoilInv /\ WholeInv
         /\ \A p \in Procs : Placed(p) /\ at[p] \in Places /\ map[p] \in 0..segs
  BY TypeParts DEF IInv, PlaceInv, SegType, CallType

\* Where p is in the guard's methods tells where it is in the segment's.
LEMMA Located ==
  ASSUME IInv, NEW p \in Procs
  PROVE  /\ pc[p] \in {"setall", "reattach"} => at[p] = "guard" /\ held[p] = 0
         /\ pc[p] = "semop" => at[p] = "locking" /\ left[p] = 0 /\ held[p] = 0 /\ this[p].id # 0
         /\ pc[p] = "post" => at[p] = "unlocking" /\ held[p] = this[p].id /\ this[p].id # 0
         /\ pc[p] # "sleep"
<1>1. Placed(p) /\ at[p] \in Places
  BY Parts
<1> QED
  BY <1>1 DEF Placed, Places

LEMMA RunKeeps ==
  ASSUME IInv, NEW p \in Procs, G!Run(p) \/ G!interrupted(p),
         UNCHANGED <<segVars, objVars, at, op, arg, spoiled, bare>>
  PROVE  IInv'
<1>1. /\ UNCHANGED <<shmid, segs, mem, map, sized, at, op, arg, spoiled, bare>>
      /\ CallOthers(p)
  BY DEF segVars, objVars, CallOthers
<1>2. G!TypeOK /\ GuardInv /\ PlaceInv /\ SpoilInv /\ WholeInv /\ Placed(p)
  BY Parts
<1>3. TypeOK'
  <2>1. G!TypeOK'
    BY <1>2, GuardTypeRun
  <2> QED
    BY <1>1, <2>1, Parts, TypePartsNext DEF SegType, CallType, Places, Ops
<1>4. WholeInv'
  BY <1>1, <1>2 DEF WholeInv, CopyInv, TextInv
<1>5. ASSUME GuardInv', MoveUnit(p), this' = this, pc[p] # "setall", Placed(p)'
      PROVE  IInv'
  <2>1. PlaceInv'
    BY <1>1, <1>2, <1>5, PlaceFrame DEF MoveUnit
  <2>2. SpoilInv'
    BY <1>1, <1>2, <1>5 DEF SpoilInv, BoundInv, OnlyInv, SetterInv, MakerInv, RemoverInv, MoveUnit,
       GuardOthers, making, G!initialised, G!Uninitialised
  <2> QED
    BY <1>3, <1>4, <1>5, <2>1, <2>2 DEF IInv
<1>6. CASE G!setall(p)
  <2>1. at[p] = "guard" /\ held[p] = 0
    BY <1>6, Located DEF G!setall
  <2>2. /\ GuardInv' /\ GuardOthers(p) /\ held' = held /\ sem'.id = sem.id /\ pc'[p] = "idle"
        /\ \/ this'[p] = this[p] /\ G!initialised'
           \/ this'[p] = G!NULL /\ sem' = sem /\ ~G!live(p)
    BY <1>2, <1>6, <2>1, GuardSetall
  <2>3. this[p].id # 0 /\ this[p] # G!NULL /\ (this'[p] = G!NULL => this'[p].id = 0)
    BY <1>2, <1>6 DEF GuardInv, CreatorInv, G!setall, G!NULL
  <2>4. Placed(p)'
    BY <1>1, <1>2, <2>1, <2>2, <2>3, Rigid DEF Placed
  <2>5. PlaceInv'
    BY <1>1, <1>2, <2>2, <2>4, PlaceFrame
  <2>6. BoundInv' /\ OnlyInv' /\ MakerInv' /\ RemoverInv'
    BY <1>1, <1>2, <2>2, <2>3 DEF SpoilInv, BoundInv, OnlyInv, MakerInv, RemoverInv, GuardOthers, making
  <2>7. SetterInv'
    <3>1. CASE G!initialised'
      BY <3>1 DEF SetterInv
    <3>2. CASE sem' = sem /\ this[p].id # sem.id
      BY <1>1, <1>2, <2>2, <3>2 DEF SpoilInv, SetterInv, GuardOthers, making, G!initialised, G!Uninitialised
    <3> QED
      BY <2>2, <2>3, <3>1, <3>2 DEF G!live
  <2> QED
    BY <1>3, <1>4, <2>2, <2>5, <2>6, <2>7 DEF IInv, SpoilInv
<1>7. CASE G!reattach(p)
  <2>1. pc[p] = "reattach" /\ at[p] = "guard" /\ held[p] = 0 /\ this[p] # G!NULL
    BY <1>2, <1>7, Located DEF G!reattach, Placed
  <2>2. /\ GuardInv' /\ GuardOthers(p) /\ held' = held /\ sem' = sem /\ pc'[p] = "idle"
        /\ this'[p].id = sem.id /\ (this'[p] # G!NULL => this'[p].id # 0)
    BY <1>2, <1>7, <2>1, GuardReattach
  <2>3. Placed(p)'
    BY <1>1, <1>2, <2>1, <2>2, Rigid DEF Placed
  <2>4. PlaceInv'
    BY <1>1, <1>2, <2>2, <2>3, PlaceFrame
  <2>5. SpoilInv'
    BY <1>1, <1>2, <2>1, <2>2, SpoilFrame
  <2> QED
    BY <1>3, <1>4, <2>2, <2>4, <2>5 DEF IInv
<1>8. CASE G!acquire(p) \/ G!removed(p)
  <2>1. /\ pc[p] = "semop" /\ at[p] = "locking" /\ left[p] = 0 /\ held[p] = 0 /\ this[p].id # 0
    BY <1>8, Located DEF G!acquire, G!removed
  <2>2. /\ GuardInv' /\ MoveUnit(p)
        /\ this' = this /\ held'[p] = this[p].id /\ ret'[p] = 0
    BY <1>2, <1>8, <2>1, GuardAcquire, GuardRemoved
  <2>3. Placed(p)'
    BY <1>1, <1>2, <2>1, <2>2, Rigid DEF Placed, MoveUnit
  <2> QED
    BY <1>5, <2>1, <2>2, <2>3
<1>9. CASE G!post(p)
  <2>1. pc[p] = "post" /\ at[p] = "unlocking" /\ held[p] = this[p].id /\ this[p].id # 0
    BY <1>9, Located DEF G!post
  <2>2. /\ GuardInv' /\ MoveUnit(p) /\ this' = this
        /\ \/ held'[p] = 0 /\ ret'[p] = 0
           \/ held'[p] = this[p].id /\ ret'[p] # 0 /\ ~G!live(p)
    BY <1>2, <1>9, <2>1, GuardPost
  <2>3. Placed(p)'
    BY <1>1, <1>2, <2>1, <2>2, Rigid DEF Placed, MoveUnit, G!live
  <2> QED
    BY <1>5, <2>1, <2>2, <2>3
<1>10. CASE G!interrupted(p)
  <2>1. /\ pc[p] = "semop" /\ at[p] = "locking" /\ left[p] = 0 /\ held[p] = 0 /\ this[p].id # 0
    BY <1>10, Located DEF G!interrupted
  <2>2. /\ GuardInv' /\ GuardOthers(p) /\ UNCHANGED <<held, this, sem, made>>
        /\ pc'[p] = "idle" /\ ret'[p] # 0
    BY <1>2, <1>10, GuardInterrupted DEF G!interrupted
  <2>3. Placed(p)' /\ MoveUnit(p)
    BY <1>1, <1>2, <2>1, <2>2, Rigid DEF Placed, MoveUnit
  <2> QED
    BY <1>5, <2>1, <2>2, <2>3
<1>11. ~G!again(p) /\ ~G!wake(p)
  BY Located DEF G!again, G!wake, G!LOCK_NONBLOCK
<1> QED
  BY <1>6, <1>7, <1>8, <1>9, <1>10, <1>11 DEF G!Run

\* A step that does not touch the guard.
LEMMA Quiet ==
  ASSUME IInv, UNCHANGED guardVars
  PROVE  /\ G!TypeOK' /\ GuardInv' /\ \A p \in Procs : GuardOthers(p)
         /\ UNCHANGED <<sem, made, adj, this, pc, left, ret, held>>
<1>1. UNCHANGED <<sem, made, adj, this, pc, left, ret, held>>
  BY DEF guardVars
<1>2. G!TypeOK'
  BY <1>1, Parts DEF G!TypeOK, G!Steps, G!Uninitialised
<1>3. GuardInv'
  BY <1>1, Parts, Rigid DEF GuardInv, IdsInv, CreatorInv, UnitInv, owns, G!live, G!initialised, G!Uninitialised
<1> QED
  BY <1>1, <1>2, <1>3 DEF GuardOthers

\* The calls of the others, and the types, over the ways a call moves on.
LEMMA Calling ==
  ASSUME CallType, NEW p \in Procs, NEW l \in Places, go(p, l),
         \/ UNCHANGED <<op, arg>>
         \/ /\ \E o \in Ops : op' = [op EXCEPT ![p] = o]
            /\ \E x \in (Values \cup {0}) \X (Values \cup {0}) : arg' = [arg EXCEPT ![p] = x],
         mem' = mem
  PROVE  /\ CallType' /\ at'[p] = l
         /\ \A q \in Procs : q # p => at'[q] = at[q] /\ op'[q] = op[q] /\ arg'[q] = arg[q]
<1>1. at' \in [Procs -> Places] /\ at'[p] = l /\ \A q \in Procs : q # p => at'[q] = at[q]
  BY DEF CallType, go
<1>2. op' \in [Procs -> Ops] /\ \A q \in Procs : q # p => op'[q] = op[q]
  BY DEF CallType
<1>3. /\ arg' \in [Procs -> (Values \cup {0}) \X (Values \cup {0})]
      /\ \A q \in Procs : q # p => arg'[q] = arg[q]
  BY DEF CallType
<1>4. CallType'
  BY <1>1, <1>2, <1>3 DEF CallType, Places, Ops
<1> QED
  BY <1>1, <1>2, <1>3, <1>4

LEMMA Beginning ==
  ASSUME CallType, NEW p \in Procs, NEW l \in Places, NEW o \in Ops,
         NEW x \in (Values \cup {0}) \X (Values \cup {0}), Begin(p, o, l, x), mem' = mem
  PROVE  /\ CallType' /\ at[p] = "idle" /\ at'[p] = l /\ op'[p] = o /\ arg'[p] = x
         /\ \A q \in Procs : q # p => at'[q] = at[q] /\ op'[q] = op[q] /\ arg'[q] = arg[q]
<1>1. op' = [op EXCEPT ![p] = o] /\ arg' = [arg EXCEPT ![p] = x] /\ go(p, l) /\ at[p] = "idle"
  BY DEF Begin
<1>2. op'[p] = o /\ arg'[p] = x
  BY <1>1 DEF CallType
<1> QED
  BY <1>1, <1>2, Calling

LEMMA Ending ==
  ASSUME CallType, NEW p \in Procs, End(p), mem' = mem
  PROVE  /\ CallType' /\ at'[p] = "idle" /\ op'[p] = "none" /\ arg'[p] = <<0, 0>>
         /\ \A q \in Procs : q # p => at'[q] = at[q] /\ op'[q] = op[q] /\ arg'[q] = arg[q]
<1>1. /\ op' = [op EXCEPT ![p] = "none"] /\ arg' = [arg EXCEPT ![p] = <<0, 0>>]
      /\ go(p, "idle")
  BY DEF End
<1>2. op'[p] = "none" /\ arg'[p] = <<0, 0>>
  BY <1>1 DEF CallType
<1>3. "none" \in Ops /\ "idle" \in Places /\ <<0, 0>> \in (Values \cup {0}) \X (Values \cup {0})
  BY DEF Ops, Places
<1> QED
  BY <1>1, <1>2, <1>3, Calling

LEMMA Forgetting ==
  ASSUME SegType, CallType, NEW p \in Procs, forget(p), mem' = mem
  PROVE  /\ CallType' /\ at'[p] = "idle" /\ op'[p] = "none" /\ arg'[p] = <<0, 0>>
         /\ map' \in [Procs -> 0..segs] /\ sized' \in [Procs -> BOOLEAN]
         /\ map'[p] = 0 /\ CallOthers(p)
<1>1. End(p)
  BY DEF forget
<1>2. /\ map' \in [Procs -> 0..segs] /\ sized' \in [Procs -> BOOLEAN]
      /\ map'[p] = 0 /\ \A q \in Procs : q # p => map'[q] = map[q]
  BY DEF forget, SegType
<1> QED
  BY <1>1, <1>2, Ending DEF CallOthers

\* A quiet step of p between two calls, which moves no text and removes
\* nothing, keeps the invariant if p is well placed after it.
LEMMA QuietKeeps ==
  ASSUME IInv, UNCHANGED <<guardVars, mem, spoiled>>, NEW p \in Procs, SegType', CallType',
         CallOthers(p), Placed(p)', this[p] = G!NULL \/ map'[p] = map[p],
         shmid' = shmid, map'[p] \in {0, shmid, map[p]},
         bare => bare',
         at[p] \in {"shmat", "semget", "guard"} /\ making(p) =>
           \/ at'[p] \in {"shmat", "semget", "guard"} /\ op'[p] = op[p]
           \/ spoiled # {} \/ sem.id # 0 \/ bare',
         at[p] # "half", at'[p] \notin {"half", "done", "unlocking", "rmid"},
         ~(at[p] = "guard" /\ pc[p] = "setall"),
         op'[p] # "write"
  PROVE  IInv'
<1>1. /\ G!TypeOK' /\ GuardInv' /\ GuardOthers(p)
      /\ UNCHANGED <<sem, made, adj, this, pc, left, ret, held>>
  BY Quiet
<1>2. G!TypeOK /\ GuardInv /\ PlaceInv /\ SpoilInv /\ WholeInv
  BY Parts
<1>3. PlaceInv'
  BY <1>1, <1>2, PlaceFrame
<1>4. SpoilInv'
  <2>1. this[p] = G!NULL => this[p].id = 0
    BY DEF G!NULL
  <2>2. map'[p] # 0 /\ map'[p] \notin spoiled /\ this'[p].id # 0 => this'[p].id = sem.id
    BY <1>1, <1>2, <2>1 DEF SpoilInv, BoundInv
  <2> QED
    BY <1>1, <1>2, <2>2, SpoilFrame
<1>5. WholeInv'
  BY <1>2, WholeFrame
<1> QED
  BY <1>1, <1>3, <1>4, <1>5, TypePartsNext DEF IInv

LEMMA NewKeeps ==
  ASSUME IInv, NEW p \in Procs, NEW a \in BOOLEAN, new(p, a)
  PROVE  IInv'
<1>1. /\ UNCHANGED <<guardVars, mem, spoiled>> /\ map[p] = 0
      /\ mem' = mem /\ spoiled' = spoiled /\ bare' = bare
  BY DEF new
<1>2. /\ G!TypeOK /\ SegType /\ CallType /\ GuardInv /\ PlaceInv /\ SpoilInv /\ WholeInv
      /\ Placed(p)
  BY Parts
<1>3. /\ G!TypeOK' /\ GuardInv' /\ GuardOthers(p)
      /\ UNCHANGED <<sem, made, adj, this, pc, left, ret, held>>
  BY <1>1, Quiet
<1>4. this[p] = G!NULL /\ this[p].id = 0
  BY <1>1, <1>2 DEF Placed, G!NULL
<1>5. CASE /\ shmid = 0 /\ segs < MaxSegs
           /\ segs' = segs + 1 /\ shmid' = segs + 1
           /\ map' = [map EXCEPT ![p] = segs + 1]
           /\ sized' = [sized EXCEPT ![p] = TRUE]
           /\ Begin(p, IF a THEN "renew" ELSE "new", "shmat", <<0, 0>>)
  <2>1. PICK o \in {"renew", "new"} : Begin(p, o, "shmat", <<0, 0>>)
    BY <1>5
  <2>2. o \in Ops /\ "shmat" \in Places /\ <<0, 0>> \in (Values \cup {0}) \X (Values \cup {0})
    BY DEF Ops, Places
  <2>3. /\ CallType' /\ at[p] = "idle" /\ at'[p] = "shmat" /\ op'[p] = o /\ arg'[p] = <<0, 0>>
        /\ \A q \in Procs : q # p => at'[q] = at[q] /\ op'[q] = op[q] /\ arg'[q] = arg[q]
    BY <1>1, <1>2, <2>1, <2>2, Beginning
  <2>4. segs \in Nat /\ MaxSegs \in Nat /\ segs <= MaxSegs /\ spoiled \subseteq 1..segs
    BY <1>2, ShmAssumption DEF SegType
  <2>5. SegType' /\ map'[p] = segs + 1 /\ \A q \in Procs : q # p => map'[q] = map[q]
    BY <1>1, <1>2, <1>5, <2>4 DEF SegType
  <2>6. CallOthers(p)
    BY <2>3, <2>5 DEF CallOthers
  <2>7. Placed(p)'
    BY <1>2, <1>3, <1>4, <2>3, <2>4, <2>5, Rigid DEF Placed
  <2>8. PlaceInv'
    BY <1>2, <1>3, <2>6, <2>7, PlaceFrame
  <2>9. BoundInv' /\ OnlyInv' /\ RemoverInv'
    BY <1>1, <1>2, <1>3, <1>4, <1>5, <2>3, <2>5
    DEF SpoilInv, BoundInv, OnlyInv, RemoverInv
  <2>10. SetterInv' /\ MakerInv'
    BY <1>1, <1>2, <1>3, <1>5, <2>3
    DEF SpoilInv, SetterInv, MakerInv, making, G!initialised, G!Uninitialised
  <2>11. WholeInv'
    BY <1>1, <1>2, <2>3, <2>6, WholeFrame
  <2> QED
    BY <1>3, <2>3, <2>5, <2>8, <2>9, <2>10, <2>11, TypePartsNext DEF IInv, SpoilInv
<1>6. CASE shmid # 0 /\ Begin(p, "renew", "reget", <<0, 0>>) /\ UNCHANGED <<shmid, segs, objVars>>
  <2>1. "renew" \in Ops /\ "reget" \in Places /\ <<0, 0>> \in (Values \cup {0}) \X (Values \cup {0})
    BY DEF Ops, Places
  <2>2. /\ CallType' /\ at[p] = "idle" /\ at'[p] = "reget" /\ op'[p] = "renew"
        /\ \A q \in Procs : q # p => at'[q] = at[q] /\ op'[q] = op[q] /\ arg'[q] = arg[q]
    BY <1>1, <1>2, <1>6, <2>1, Beginning
  <2>3. SegType' /\ CallOthers(p) /\ shmid' = shmid /\ map' = map
    BY <1>1, <1>2, <1>6, <2>2 DEF SegType, CallOthers, objVars
  <2>4. Placed(p)'
    BY <1>1, <1>2, <1>3, <1>4, <2>2, <2>3, Rigid DEF Placed
  <2> QED
    BY <1>1, <2>2, <2>3, <2>4, QuietKeeps
<1>7. CASE at[p] = "idle" /\ End(p) /\ UNCHANGED <<shmid, segs, objVars>>
  <2>1. /\ CallType' /\ at'[p] = "idle" /\ op'[p] = "none"
        /\ \A q \in Procs : q # p => at'[q] = at[q] /\ op'[q] = op[q] /\ arg'[q] = arg[q]
    BY <1>1, <1>2, <1>7, Ending
  <2>2. SegType' /\ CallOthers(p) /\ shmid' = shmid /\ map' = map
    BY <1>1, <1>2, <1>7, <2>1 DEF SegType, CallOthers, objVars
  <2>3. Placed(p)'
    BY <1>1, <1>2, <1>3, <1>4, <1>7, <2>1, <2>2, Rigid DEF Placed
  <2> QED
    BY <1>1, <1>7, <2>1, <2>2, <2>3, QuietKeeps
<1> QED
  BY <1>5, <1>6, <1>7 DEF new

LEMMA RegetKeeps ==
  ASSUME IInv, NEW p \in Procs, reget(p)
  PROVE  IInv'
<1>1. /\ UNCHANGED <<guardVars, mem, spoiled>> /\ at[p] = "reget"
      /\ UNCHANGED <<shmid, segs, mem, spoiled, bare>>
  BY DEF reget, segVars
<1>2. SegType /\ CallType /\ Placed(p)
  BY Parts
<1>3. UNCHANGED <<sem, made, adj, this, pc, left, ret, held>>
  BY <1>1, Quiet
<1>4. this[p] = G!NULL /\ pc[p] = "idle" /\ held[p] = 0
  BY <1>1, <1>2 DEF Placed
<1>5. CASE /\ shmid # 0
           /\ map' = [map EXCEPT ![p] = shmid]
           /\ sized' = [sized EXCEPT ![p] = TRUE]
           /\ go(p, "shmat")
           /\ UNCHANGED <<op, arg>>
  <2>1. "shmat" \in Places
    BY DEF Places
  <2>2. /\ CallType' /\ at'[p] = "shmat"
        /\ \A q \in Procs : q # p => at'[q] = at[q] /\ op'[q] = op[q] /\ arg'[q] = arg[q]
    BY <1>1, <1>2, <1>5, <2>1, Calling
  <2>3. map'[p] = shmid /\ SegType' /\ CallOthers(p)
    BY <1>1, <1>2, <1>5, <2>2 DEF SegType, CallOthers
  <2>4. Placed(p)'
    BY <1>1, <1>2, <1>3, <1>4, <1>5, <2>2, <2>3, Rigid DEF Placed
  <2>5. op'[p] # "write"
    BY <1>1, <1>2, <1>5 DEF Placed
  <2> QED
    BY <1>1, <1>4, <2>2, <2>3, <2>4, <2>5, QuietKeeps
<1>6. CASE forget(p)
  <2>1. /\ CallType' /\ at'[p] = "idle" /\ op'[p] = "none" /\ map'[p] = 0 /\ CallOthers(p)
        /\ map' \in [Procs -> 0..segs] /\ sized' \in [Procs -> BOOLEAN]
    BY <1>1, <1>2, <1>6, Forgetting
  <2>2. SegType'
    BY <1>1, <1>2, <2>1 DEF SegType
  <2>3. Placed(p)'
    BY <1>2, <1>3, <1>4, <2>1, Rigid DEF Placed
  <2> QED
    BY <1>1, <1>4, <2>1, <2>2, <2>3, QuietKeeps
<1> QED
  BY <1>5, <1>6 DEF reget

LEMMA AttachKeeps ==
  ASSUME IInv, NEW p \in Procs, attach(p)
  PROVE  IInv'
<1>1. /\ UNCHANGED <<guardVars, mem, spoiled>> /\ map[p] = 0
      /\ UNCHANGED <<shmid, segs, mem, spoiled, bare, sized>>
  BY DEF attach, segVars
<1>2. SegType /\ CallType /\ Placed(p)
  BY Parts
<1>3. UNCHANGED <<sem, made, adj, this, pc, left, ret, held>>
  BY <1>1, Quiet
<1>4. this[p] = G!NULL
  BY <1>1, <1>2 DEF Placed
<1>5. CASE shmid # 0 /\ map' = [map EXCEPT ![p] = shmid] /\ Begin(p, "attach", "shmat", <<0, 0>>)
  <2>1. "attach" \in Ops /\ "shmat" \in Places /\ <<0, 0>> \in (Values \cup {0}) \X (Values \cup {0})
    BY DEF Ops, Places
  <2>2. /\ CallType' /\ at[p] = "idle" /\ at'[p] = "shmat" /\ op'[p] = "attach"
        /\ \A q \in Procs : q # p => at'[q] = at[q] /\ op'[q] = op[q] /\ arg'[q] = arg[q]
    BY <1>1, <1>2, <1>5, <2>1, Beginning
  <2>3. map'[p] = shmid /\ SegType' /\ CallOthers(p)
    BY <1>1, <1>2, <1>5, <2>2 DEF SegType, CallOthers
  <2>4. Placed(p)'
    BY <1>2, <1>3, <1>4, <1>5, <2>2, <2>3, Rigid DEF Placed
  <2> QED
    BY <1>1, <1>4, <2>2, <2>3, <2>4, QuietKeeps
<1>6. CASE at[p] = "idle" /\ End(p) /\ map' = map
  <2>1. /\ CallType' /\ at'[p] = "idle" /\ op'[p] = "none"
        /\ \A q \in Procs : q # p => at'[q] = at[q] /\ op'[q] = op[q] /\ arg'[q] = arg[q]
    BY <1>1, <1>2, <1>6, Ending
  <2>2. SegType' /\ CallOthers(p)
    BY <1>1, <1>2, <1>6, <2>1 DEF SegType, CallOthers
  <2>3. Placed(p)'
    BY <1>1, <1>2, <1>3, <1>4, <1>6, <2>1, Rigid DEF Placed
  <2> QED
    BY <1>1, <1>6, <2>1, <2>2, <2>3, QuietKeeps
<1> QED
  BY <1>5, <1>6 DEF attach

\* A maker that is told the segment is gone was not the last hope of it; one
\* that fails for another reason says so in `bare'.
LEMMA ShmatKeeps ==
  ASSUME IInv, NEW p \in Procs, shmat(p)
  PROVE  IInv'
<1>1. /\ UNCHANGED <<guardVars, mem, spoiled>> /\ at[p] = "shmat"
      /\ UNCHANGED <<shmid, segs, mem, spoiled>>
  BY DEF shmat, segVars
<1>2. SegType /\ CallType /\ Placed(p) /\ SpoilInv
  BY Parts
<1>3. UNCHANGED <<sem, made, adj, this, pc, left, ret, held>>
  BY <1>1, Quiet
<1>4. this[p] = G!NULL /\ pc[p] = "idle" /\ held[p] = 0 /\ map[p] # 0
  BY <1>1, <1>2 DEF Placed
<1>5. CASE go(p, "semget") /\ UNCHANGED <<objVars, op, arg, bare>>
  <2>1. "semget" \in Places /\ UNCHANGED <<map, sized, op, arg, bare>>
    BY <1>5 DEF Places, objVars
  <2>2. /\ CallType' /\ at'[p] = "semget"
        /\ \A q \in Procs : q # p => at'[q] = at[q] /\ op'[q] = op[q] /\ arg'[q] = arg[q]
    BY <1>1, <1>2, <1>5, <2>1, Calling
  <2>3. SegType' /\ CallOthers(p)
    BY <1>1, <1>2, <2>1, <2>2 DEF SegType, CallOthers
  <2>4. Placed(p)'
    BY <1>1, <1>2, <1>3, <1>4, <2>1, <2>2, Rigid DEF Placed
  <2>5. op'[p] # "write"
    BY <1>1, <1>2, <2>1 DEF Placed
  <2> QED
    BY <1>1, <2>1, <2>2, <2>3, <2>4, <2>5, QuietKeeps
<1>6. ASSUME forget(p), bare' \in BOOLEAN, bare => bare',
             making(p) => spoiled # {} \/ sem.id # 0 \/ bare'
      PROVE  IInv'
  <2>1. /\ CallType' /\ at'[p] = "idle" /\ op'[p] = "none" /\ map'[p] = 0 /\ CallOthers(p)
        /\ map' \in [Procs -> 0..segs] /\ sized' \in [Procs -> BOOLEAN]
    BY <1>1, <1>2, <1>6, Forgetting
  <2>2. SegType'
    BY <1>1, <1>2, <1>6, <2>1 DEF SegType
  <2>3. Placed(p)'
    BY <1>2, <1>3, <1>4, <2>1, Rigid DEF Placed
  <2> QED
    BY <1>1, <1>4, <1>6, <2>1, <2>2, <2>3, QuietKeeps
<1>7. CASE op[p] = "attach" /\ forget(p) /\ UNCHANGED bare
  <2>1. bare' = bare /\ bare \in BOOLEAN /\ ~making(p)
    BY <1>2, <1>7 DEF SegType, making
  <2> QED
    BY <1>6, <1>7, <2>1
<1>8. CASE give_up(p)
  <2>1. forget(p) /\ bare' \in BOOLEAN /\ (bare => bare')
    BY <1>8 DEF give_up
  <2>2. map[p] = shmid /\ sem.id = 0 => bare'
    BY <1>8 DEF give_up
  <2>3. map[p] # shmid => spoiled # {}
    BY <1>2, <1>4 DEF SpoilInv, OnlyInv
  <2> QED
    BY <1>6, <2>1, <2>2, <2>3
<1> QED
  BY <1>5, <1>7, <1>8 DEF shmat

LEMMA ReturnedKeeps ==
  ASSUME IInv, NEW p \in Procs, at[p] \in {"guard", "unlocking"}, pc[p] = "idle",
         held[p] = 0, End(p), UNCHANGED <<guardVars, segVars, objVars, spoiled, bare>>,
         at[p] = "guard" => this[p] # G!NULL \/ op[p] = "attach"
  PROVE  IInv'
<1>1. UNCHANGED <<guardVars, mem, spoiled>> /\ UNCHANGED <<shmid, segs, mem, spoiled, map, sized, bare>>
  BY DEF segVars, objVars
<1>2. SegType /\ CallType /\ Placed(p)
  BY Parts
<1>3. UNCHANGED <<sem, made, adj, this, pc, left, ret, held>>
  BY <1>1, Quiet
<1>4. /\ CallType' /\ at'[p] = "idle" /\ op'[p] = "none"
      /\ \A q \in Procs : q # p => at'[q] = at[q] /\ op'[q] = op[q] /\ arg'[q] = arg[q]
  BY <1>1, <1>2, Ending
<1>5. SegType' /\ CallOthers(p)
  BY <1>1, <1>2, <1>4 DEF SegType, CallOthers
<1>6. Placed(p)'
  BY <1>1, <1>2, <1>3, <1>4, Rigid DEF Placed
<1>7. at[p] = "guard" /\ making(p) => spoiled # {} \/ sem.id # 0
  <2> SUFFICES ASSUME at[p] = "guard", making(p)
               PROVE  spoiled # {} \/ sem.id # 0
    OBVIOUS
  <2>1. this[p].id # 0 /\ map[p] # 0
    BY <1>2 DEF Placed, making
  <2> QED
    BY <2>1, Parts DEF SpoilInv, BoundInv
<1> QED
  BY <1>1, <1>4, <1>5, <1>6, <1>7, QuietKeeps

\* The guard of the object that p has, or is about to have, is made.
LEMMA SemgetKeeps ==
  ASSUME IInv, NEW p \in Procs, semget(p)
  PROVE  IInv'
<1>1. /\ at[p] = "semget" /\ go(p, "guard")
      /\ UNCHANGED <<shmid, segs, mem, map, sized, op, arg, spoiled, bare>>
      /\ \/ making(p) /\ \E a \in BOOLEAN : G!new(p, 1, a)
         \/ ~making(p) /\ G!attach(p)
  BY DEF semget, segVars, objVars, making
<1>2. /\ G!TypeOK /\ SegType /\ CallType /\ GuardInv /\ PlaceInv /\ SpoilInv /\ WholeInv
      /\ Placed(p)
  BY Parts
<1>3. this[p] = G!NULL /\ pc[p] = "idle" /\ held[p] = 0 /\ map[p] # 0 /\ "guard" \in Places
  BY <1>1, <1>2 DEF Placed, Places
<1>4. /\ CallType' /\ at'[p] = "guard" /\ SegType' /\ CallOthers(p)
  BY <1>1, <1>2, <1>3, Calling DEF SegType, CallOthers
<1>5. G!TypeOK'
  BY <1>1, <1>2, GuardTypeCall
<1>6. WholeInv'
  <2>1. op'[p] # "write" /\ at'[p] # "half" /\ at'[p] \notin {"done", "unlocking"} /\ at[p] # "half"
    BY <1>1, <1>2, <1>4 DEF Placed
  <2> QED
    BY <1>1, <1>2, <1>4, <2>1, WholeFrame
<1>7. ASSUME GuardInv', GuardOthers(p), held' = held, sem'.id \in {0, sem.id, made + 1},
             pc'[p] \in {"idle", "setall", "reattach"},
             pc'[p] = "reattach" <=> this'[p] # G!NULL /\ this'[p].id = 0,
             SpoilInv'
      PROVE  IInv'
  <2>1. Placed(p)'
    BY <1>1, <1>2, <1>3, <1>4, <1>7, Rigid DEF Placed
  <2>2. PlaceInv'
    BY <1>2, <1>4, <1>7, <2>1, PlaceFrame
  <2> QED
    BY <1>4, <1>5, <1>6, <1>7, <2>2, TypePartsNext DEF IInv
<1>8. ASSUME making(p), NEW a \in BOOLEAN, G!new(p, 1, a)
      PROVE  IInv'
  <2>1. /\ GuardInv' /\ GuardOthers(p)
        /\ held' = held
        /\ \/ /\ sem.id = 0 /\ sem'.id = made + 1 /\ sem'.size = G!Uninitialised
              /\ this'[p].id = made + 1 /\ pc'[p] = "setall" /\ this'[p] # G!NULL
           \/ /\ sem' = sem
              /\ this'[p].id = 0 /\ pc'[p] \in {"idle", "reattach"}
              /\ this'[p] # G!NULL <=> pc'[p] = "reattach"
    BY <1>2, <1>3, <1>8, GuardNew
  <2>2. CASE sem' = sem /\ this'[p].id = 0 /\ pc'[p] \in {"idle", "reattach"}
             /\ (this'[p] # G!NULL <=> pc'[p] = "reattach")
    <3>1. SpoilInv'
      BY <1>1, <1>2, <1>4, <2>1, <2>2, SpoilFrame
    <3> QED
      BY <1>7, <2>1, <2>2, <3>1
  <2>3. CASE /\ sem.id = 0 /\ sem'.id = made + 1 /\ sem'.size = G!Uninitialised
             /\ this'[p].id = made + 1 /\ pc'[p] = "setall" /\ this'[p] # G!NULL
    <3>1. made \in Nat
      BY <1>2 DEF G!TypeOK
    <3>2. BoundInv' /\ OnlyInv' /\ MakerInv' /\ RemoverInv'
      BY <1>1, <1>2, <1>4, <2>1, <2>3, <3>1
      DEF SpoilInv, BoundInv, OnlyInv, MakerInv, RemoverInv, GuardOthers, CallOthers
    <3>3. SetterInv'
      BY <1>1, <1>4, <1>8, <2>1, <2>3 DEF SetterInv, making
    <3>4. SpoilInv'
      BY <3>2, <3>3 DEF SpoilInv
    <3> QED
      BY <1>7, <2>1, <2>3, <3>1, <3>4
  <2> QED
    BY <2>1, <2>2, <2>3
<1>9. CASE ~making(p) /\ G!attach(p)
  <2>1. /\ GuardInv' /\ GuardOthers(p)
        /\ held' = held /\ sem' = sem /\ pc'[p] = "idle"
        /\ this'[p].id = sem.id /\ (this'[p] # G!NULL => this'[p].id # 0)
    BY <1>2, <1>3, <1>9, GuardAttach
  <2>2. SpoilInv'
    BY <1>1, <1>2, <1>4, <1>9, <2>1, SpoilFrame
  <2> QED
    BY <1>7, <2>1, <2>2
<1> QED
  BY <1>1, <1>8, <1>9

LEMMA Freeing ==
  ASSUME IInv, NEW p \in Procs, held[p] = 0, pc[p] = "idle", NEW r \in BOOLEAN, free(p, r)
  PROVE  /\ G!TypeOK' /\ GuardInv' /\ GuardOthers(p)
         /\ held' = held /\ pc'[p] = "idle" /\ this'[p] = G!NULL /\ this'[p].id = 0
         /\ sem' = sem \/ (r /\ sem' # sem /\ sem'.id = 0)
<1>1. G!NULL.id = 0
  BY DEF G!NULL
<1>2. CASE G!delete(p, r)
  BY <1>1, <1>2, Parts, GuardDelete, GuardTypeCall
<1>3. CASE this[p] = G!NULL /\ UNCHANGED guardVars
  BY <1>1, <1>3, Quiet
<1> QED
  BY <1>2, <1>3 DEF free

\* A call that gives the object and its guard up, and removes neither.
LEMMA GiveUpKeeps ==
  ASSUME IInv, NEW p \in Procs, at[p] \in {"idle", "guard"}, held[p] = 0, pc[p] = "idle",
         free(p, FALSE), forget(p), UNCHANGED <<segVars, spoiled>>,
         bare' \in BOOLEAN, bare => bare',
         at[p] = "guard" => spoiled # {} \/ sem.id # 0 \/ bare'
  PROVE  IInv'
<1>1. UNCHANGED <<shmid, segs, mem, spoiled>>
  BY DEF segVars
<1>2. /\ G!TypeOK /\ SegType /\ CallType /\ GuardInv /\ PlaceInv /\ SpoilInv /\ WholeInv
      /\ Placed(p)
  BY Parts
<1>3. /\ G!TypeOK' /\ GuardInv' /\ GuardOthers(p)
      /\ held' = held /\ pc'[p] = "idle" /\ this'[p] = G!NULL /\ this'[p].id = 0 /\ sem' = sem
  BY Freeing
<1>4. /\ CallType' /\ at'[p] = "idle" /\ op'[p] = "none" /\ map'[p] = 0 /\ CallOthers(p)
      /\ map' \in [Procs -> 0..segs] /\ sized' \in [Procs -> BOOLEAN]
  BY <1>1, <1>2, Forgetting
<1>5. SegType'
  BY <1>1, <1>2, <1>4 DEF SegType
<1>6. Placed(p)'
  BY <1>2, <1>3, <1>4, Rigid DEF Placed
<1>7. PlaceInv'
  BY <1>2, <1>3, <1>4, <1>6, PlaceFrame
<1>8. SpoilInv'
  BY <1>1, <1>2, <1>3, <1>4, SpoilFrame
<1>9. WholeInv'
  BY <1>1, <1>2, <1>4, WholeFrame
<1> QED
  BY <1>3, <1>4, <1>5, <1>7, <1>8, <1>9, TypePartsNext DEF IInv

LEMMA GuardedKeeps ==
  ASSUME IInv, NEW p \in Procs, guarded(p)
  PROVE  IInv'
<1>1. at[p] = "guard" /\ pc[p] = "idle" /\ UNCHANGED <<segVars, spoiled>>
  BY DEF guarded
<1>2. held[p] = 0
  BY <1>1, Parts DEF Placed
<1>3. CASE (this[p] # G!NULL \/ op[p] = "attach") /\ End(p) /\ UNCHANGED <<guardVars, objVars, bare>>
  BY <1>1, <1>2, <1>3, ReturnedKeeps
<1>4. CASE free(p, FALSE) /\ give_up(p)
  <2>1. forget(p) /\ bare' \in BOOLEAN /\ (bare => bare')
    BY <1>4 DEF give_up
  <2>2. map[p] = shmid /\ sem.id = 0 => bare'
    BY <1>4 DEF give_up
  <2>3. map[p] # 0
    BY <1>1, Parts DEF Placed
  <2>4. map[p] # shmid => spoiled # {}
    BY <2>3, Parts DEF SpoilInv, OnlyInv
  <2> QED
    BY <1>1, <1>2, <1>4, <2>1, <2>2, <2>4, GiveUpKeeps
<1> QED
  BY <1>3, <1>4 DEF guarded

\* Removing the guard spoils every segment there is: whoever has one may
\* wait for a guard that is gone.
LEMMA DeleteKeeps ==
  ASSUME IInv, NEW p \in Procs, NEW r \in BOOLEAN, delete(p, r)
  PROVE  IInv'
<1>1. at[p] = "idle" /\ map[p] # 0 /\ free(p, r) /\ UNCHANGED <<shmid, segs, mem, bare>>
  BY DEF delete, Begin, segVars
<1>2. /\ G!TypeOK /\ SegType /\ CallType /\ GuardInv /\ PlaceInv /\ SpoilInv /\ WholeInv
      /\ Placed(p) /\ map[p] \in 0..segs
  BY Parts
<1>3. held[p] = 0 /\ pc[p] = "idle"
  BY <1>1, <1>2 DEF Placed
<1>4. CASE ~r
  <2>1. bare' \in BOOLEAN /\ (bare => bare') /\ at[p] # "guard"
    BY <1>1, <1>2 DEF SegType
  <2>2. free(p, FALSE) /\ forget(p) /\ UNCHANGED <<segVars, spoiled>>
    BY <1>1, <1>4 DEF delete
  <2> QED
    BY <1>1, <1>3, <2>1, <2>2, GiveUpKeeps
<1>5. CASE r
  <2>1. /\ Begin(p, "delete", "memset", <<0, 0>>) /\ UNCHANGED <<map, sized>>
        /\ spoiled' = IF sem' # sem THEN 1..segs ELSE spoiled
    BY <1>5 DEF delete, objVars
  <2>2. /\ G!TypeOK' /\ GuardInv' /\ GuardOthers(p)
        /\ held' = held /\ pc'[p] = "idle" /\ this'[p] = G!NULL /\ this'[p].id = 0
        /\ sem' = sem \/ (sem' # sem /\ sem'.id = 0)
    BY <1>1, <1>3, Freeing
  <2>3. "delete" \in Ops /\ "memset" \in Places /\ <<0, 0>> \in (Values \cup {0}) \X (Values \cup {0})
    BY DEF Ops, Places
  <2>4. /\ CallType' /\ at'[p] = "memset" /\ op'[p] = "delete"
        /\ \A q \in Procs : q # p => at'[q] = at[q] /\ op'[q] = op[q] /\ arg'[q] = arg[q]
    BY <1>1, <1>2, <2>1, <2>3, Beginning
  <2>5. SegType' /\ CallOthers(p) /\ spoiled \subseteq spoiled'
    BY <1>1, <1>2, <2>1, <2>4 DEF SegType, CallOthers
  <2>6. Placed(p)'
    BY <1>1, <1>2, <1>3, <2>1, <2>2, <2>4, Rigid DEF Placed
  <2>7. PlaceInv'
    BY <1>2, <2>2, <2>5, <2>6, PlaceFrame
  <2>8. SpoilInv'
    <3>1. CASE sem' = sem
      BY <1>1, <1>2, <2>1, <2>2, <2>4, <2>5, <3>1, SpoilFrame
    <3>2. CASE sem' # sem
      <4>1. spoiled' = 1..segs /\ segs \in Nat /\ spoiled' # {}
        BY <1>1, <1>2, <2>1, <3>2 DEF SegType
      <4>2. \A q \in Procs : map'[q] # 0 => map'[q] \in spoiled'
        BY <1>2, <2>1, <4>1 DEF SegType
      <4>3. \A q \in Procs : at'[q] = "rmid" => map'[q] # 0
        BY <2>7 DEF PlaceInv, Placed
      <4> QED
        BY <4>1, <4>2, <4>3 DEF SpoilInv, BoundInv, OnlyInv, SetterInv, MakerInv, RemoverInv
    <3> QED
      BY <3>1, <3>2
  <2>9. WholeInv'
    BY <1>1, <1>2, <2>4, <2>5, WholeFrame
  <2> QED
    BY <2>2, <2>4, <2>5, <2>7, <2>8, <2>9, TypePartsNext DEF IInv
<1> QED
  BY <1>4, <1>5

\* A step of p that spoils its segment: nothing more is promised of that.
LEMMA SpoilingFrame ==
  ASSUME SpoilInv, NEW p \in Procs, GuardOthers(p), CallOthers(p),
         sem'.id = sem.id, map[p] \in spoiled', spoiled \subseteq spoiled',
         map'[p] = map[p] \/ (map'[p] = 0 /\ at'[p] = "idle")
  PROVE  SpoilInv'
<1>1. BoundInv'
  BY DEF SpoilInv, BoundInv, GuardOthers, CallOthers
<1>2. OnlyInv' /\ SetterInv' /\ MakerInv'
  BY DEF OnlyInv, SetterInv, MakerInv
<1>3. RemoverInv'
  BY DEF SpoilInv, RemoverInv, CallOthers
<1> QED
  BY <1>1, <1>2, <1>3 DEF SpoilInv

LEMMA MemsetKeeps ==
  ASSUME IInv, NEW p \in Procs, memset(p)
  PROVE  IInv'
<1>1. /\ at[p] = "memset" /\ go(p, "rmid") /\ spoiled' = spoiled \cup {map[p]}
      /\ UNCHANGED guardVars /\ UNCHANGED <<shmid, segs, map, sized, op, arg, bare>>
      /\ \E t \in {Blank, <<0, mem[map[p]][2]>>, mem[map[p]]} :
           mem' = [mem EXCEPT ![map[p]] = t]
  BY DEF memset, objVars
<1>2. /\ G!TypeOK /\ SegType /\ CallType /\ GuardInv /\ PlaceInv /\ SpoilInv /\ WholeInv
      /\ Placed(p) /\ map[p] \in 0..segs
  BY Parts
<1>3. /\ G!TypeOK' /\ GuardInv' /\ GuardOthers(p)
      /\ UNCHANGED <<sem, made, adj, this, pc, left, ret, held>>
  BY <1>1, Quiet
<1>4. map[p] # 0 /\ segs \in Nat /\ MaxSegs \in Nat /\ segs <= MaxSegs /\ map[p] \in 1..MaxSegs
  BY <1>1, <1>2, ShmAssumption DEF Placed, SegType
<1>5. /\ mem' \in [1..MaxSegs -> (Values \cup {0}) \X (Values \cup {0})]
      /\ \A s \in 1..MaxSegs : s # map[p] => mem'[s] = mem[s]
  <2>1. mem[map[p]] \in (Values \cup {0}) \X (Values \cup {0})
    BY <1>2, <1>4 DEF CallType
  <2>2. \A t \in {Blank, <<0, mem[map[p]][2]>>, mem[map[p]]} : t \in (Values \cup {0}) \X (Values \cup {0})
    BY <2>1 DEF Blank
  <2> QED
    BY <1>1, <1>2, <1>4, <2>2 DEF CallType
<1>6. at'[p] = "rmid" /\ CallOthers(p) /\ CallType' /\ SegType'
  <2>1. at' = [at EXCEPT ![p] = "rmid"] /\ "rmid" \in Places
    BY <1>1 DEF go, Places
  <2>2. at' \in [Procs -> Places] /\ at'[p] = "rmid" /\ \A q \in Procs : q # p => at'[q] = at[q]
    BY <1>2, <2>1 DEF CallType
  <2>3. CallType'
    BY <1>1, <1>2, <1>5, <2>2 DEF CallType, Places, Ops
  <2>4. spoiled' \subseteq 1..segs
    <3>1. map[p] \in 1..segs /\ spoiled \subseteq 1..segs
      BY <1>2, <1>4 DEF SegType
    <3>2. spoiled' = spoiled \cup {map[p]}
      BY <1>1
    <3> QED
      BY <3>1, <3>2, Zenon
  <2>5. UNCHANGED <<shmid, segs, map, sized, bare>>
    BY <1>1
  <2>6. SegType'
    BY <1>2, <2>4, <2>5 DEF SegType
  <2> QED
    BY <1>1, <2>2, <2>3, <2>6 DEF CallOthers
<1>7. Placed(p)'
  BY <1>1, <1>2, <1>3, <1>6, Rigid DEF Placed
<1>8. PlaceInv'
  BY <1>2, <1>3, <1>6, <1>7, PlaceFrame
<1>9. SpoilInv'
  BY <1>1, <1>2, <1>3, <1>6, SpoilingFrame
<1>10. WholeInv'
  <2>1. \A q \in Procs : map[q] # 0 => map[q] \in 1..MaxSegs
    BY <1>2, <1>4 DEF SegType
  <2>2. \A q \in Procs : at[q] = "half" => map[q] # 0
    BY <1>2 DEF PlaceInv, Placed
  <2>3. CopyInv'
    BY <1>1, <1>2, <1>5, <1>6, <2>1, <2>2 DEF WholeInv, CopyInv, CallOthers
  <2>4. TextInv'
    BY <1>1, <1>2, <1>5, <1>6 DEF WholeInv, TextInv, CallOthers
  <2> QED
    BY <2>3, <2>4 DEF WholeInv
<1> QED
  BY <1>3, <1>6, <1>8, <1>9, <1>10, TypePartsNext DEF IInv

LEMMA RmidKeeps ==
  ASSUME IInv, NEW p \in Procs, rmid(p)
  PROVE  IInv'
<1>1. /\ at[p] = "rmid" /\ shmid' \in {0, shmid} /\ forget(p) /\ UNCHANGED guardVars
      /\ UNCHANGED <<segs, mem, spoiled>> /\ bare' \in BOOLEAN
  BY DEF rmid
<1>2. /\ G!TypeOK /\ SegType /\ CallType /\ GuardInv /\ PlaceInv /\ SpoilInv /\ WholeInv
      /\ Placed(p)
  BY Parts
<1>3. /\ G!TypeOK' /\ GuardInv' /\ GuardOthers(p)
      /\ UNCHANGED <<sem, made, adj, this, pc, left, ret, held>>
  BY <1>1, Quiet
<1>4. /\ CallType' /\ at'[p] = "idle" /\ op'[p] = "none" /\ map'[p] = 0 /\ CallOthers(p)
      /\ map' \in [Procs -> 0..segs] /\ sized' \in [Procs -> BOOLEAN]
  BY <1>1, <1>2, Forgetting
<1>5. SegType'
  BY <1>1, <1>2, <1>4 DEF SegType
<1>6. Placed(p)'
  BY <1>1, <1>2, <1>3, <1>4, Rigid DEF Placed
<1>7. PlaceInv'
  BY <1>2, <1>3, <1>4, <1>6, PlaceFrame
<1>8. SpoilInv'
  <2>1. map[p] \in spoiled
    BY <1>1, <1>2 DEF SpoilInv, RemoverInv
  <2> QED
    BY <1>1, <1>2, <1>3, <1>4, <2>1, SpoilingFrame
<1>9. WholeInv'
  BY <1>1, <1>2, <1>4, WholeFrame
<1> QED
  BY <1>3, <1>4, <1>5, <1>7, <1>8, <1>9, TypePartsNext DEF IInv

LEMMA AccessKeeps ==
  ASSUME IInv, NEW p \in Procs, NEW o \in Accesses, NEW v \in Values, access(p, o, v)
  PROVE  IInv'
<1>1. /\ map[p] # 0 /\ this[p] # G!NULL /\ G!lock(p, G!LOCK_BLOCKING)
      /\ UNCHANGED <<shmid, segs, mem, map, sized, spoiled, bare>>
      /\ Begin(p, o, "locking", IF o = "write" THEN <<v, v>> ELSE <<0, 0>>)
  BY DEF access, segVars, objVars
<1>2. /\ G!TypeOK /\ SegType /\ CallType /\ GuardInv /\ PlaceInv /\ SpoilInv /\ WholeInv
      /\ Placed(p)
  BY Parts
<1> DEFINE x == IF o = "write" THEN <<v, v>> ELSE <<0, 0>>
<1>3. /\ o \in Ops /\ "locking" \in Places /\ x[1] = x[2] /\ o \in {"write", "read", "uint"}
      /\ x \in (Values \cup {0}) \X (Values \cup {0})
  BY DEF Ops, Places, Accesses
<1>4. /\ CallType' /\ at[p] = "idle" /\ at'[p] = "locking" /\ op'[p] = o /\ arg'[p] = x
      /\ \A q \in Procs : q # p => at'[q] = at[q] /\ op'[q] = op[q] /\ arg'[q] = arg[q]
  BY <1>1, <1>2, <1>3, Beginning
<1> HIDE DEF x
<1>5. SegType' /\ CallOthers(p)
  BY <1>1, <1>2, <1>4 DEF SegType, CallOthers
<1>6. held[p] = 0 /\ pc[p] = "idle" /\ this[p].id # 0
  BY <1>1, <1>2, <1>4 DEF Placed
<1>7. /\ GuardInv' /\ GuardOthers(p)
      /\ UNCHANGED <<held, this, sem>>
      /\ \/ pc'[p] = "semop" /\ left'[p] = 0
         \/ pc'[p] = "idle" /\ ret'[p] # 0
  BY <1>1, <1>2, <1>6, GuardLock
<1>8. G!TypeOK'
  BY <1>1, <1>2, GuardTypeCall
<1>9. Placed(p)'
  BY <1>1, <1>2, <1>3, <1>4, <1>6, <1>7, Rigid DEF Placed
<1>10. PlaceInv'
  BY <1>2, <1>5, <1>7, <1>9, PlaceFrame
<1>11. SpoilInv'
  <2>1. map'[p] # 0 /\ map'[p] \notin spoiled /\ this'[p].id # 0 => this'[p].id = sem.id
    BY <1>1, <1>2, <1>7 DEF SpoilInv, BoundInv
  <2> QED
    BY <1>1, <1>2, <1>4, <1>5, <1>7, <2>1, SpoilFrame
<1>12. WholeInv'
  BY <1>1, <1>2, <1>3, <1>4, <1>5, WholeFrame
<1> QED
  BY <1>4, <1>5, <1>7, <1>8, <1>10, <1>11, <1>12, TypePartsNext DEF IInv

LEMMA LeaveKeeps ==
  ASSUME IInv, NEW p \in Procs, leave(p)
  PROVE  IInv'
<1>1. /\ at[p] = "done" /\ G!unlock(p) /\ go(p, "unlocking")
      /\ UNCHANGED <<shmid, segs, mem, map, sized, op, arg, spoiled, bare>>
  BY DEF leave, segVars, objVars
<1>2. /\ G!TypeOK /\ SegType /\ CallType /\ GuardInv /\ PlaceInv /\ SpoilInv /\ WholeInv
      /\ Placed(p) /\ "unlocking" \in Places
  BY Parts DEF Places
<1>3. /\ CallType' /\ at'[p] = "unlocking" /\ SegType' /\ CallOthers(p)
  BY <1>1, <1>2, Calling DEF SegType, CallOthers
<1>4. held[p] = this[p].id /\ pc[p] = "idle" /\ this[p].id # 0 /\ map[p] # 0
  BY <1>1, <1>2 DEF Placed
<1>5. /\ GuardInv' /\ GuardOthers(p)
      /\ UNCHANGED <<held, this, sem>> /\ pc'[p] = "post"
  BY <1>1, <1>2, <1>4, GuardUnlock
<1>6. G!TypeOK'
  BY <1>1, <1>2, GuardTypeCall
<1>7. Placed(p)'
  BY <1>1, <1>2, <1>3, <1>4, <1>5, Rigid DEF Placed
<1>8. PlaceInv'
  BY <1>2, <1>3, <1>5, <1>7, PlaceFrame
<1>9. SpoilInv'
  <2>1. map'[p] # 0 /\ map'[p] \notin spoiled /\ this'[p].id # 0 => this'[p].id = sem.id
    BY <1>1, <1>2, <1>5 DEF SpoilInv, BoundInv
  <2> QED
    BY <1>1, <1>2, <1>3, <1>5, <2>1, SpoilFrame
<1>10. WholeInv'
  BY <1>1, <1>2, <1>3 DEF WholeInv, CopyInv, TextInv, CallOthers
<1> QED
  BY <1>3, <1>5, <1>6, <1>8, <1>9, <1>10, TypePartsNext DEF IInv

-----------------------------------------------------------------------------
(* The two halves of a text.                                               *)

\* Two processes inside on segments that nothing spoiled are one process.
LEMMA InsideAlone ==
  ASSUME IInv, NEW p \in Procs, NEW q \in Procs,
         map[p] \notin spoiled, map[q] \notin spoiled, map[p] # 0, map[q] # 0,
         this[p].id # 0, held[p] = this[p].id, this[q].id # 0, held[q] = this[q].id
  PROVE  p = q
<1>1. this[p].id = sem.id /\ this[q].id = sem.id
  BY Parts DEF SpoilInv, BoundInv
<1>2. owns(p) /\ owns(q)
  BY <1>1 DEF owns
<1> QED
  BY <1>2, Parts DEF GuardInv, UnitInv

\* What copy moves: one half, in or out.
LEMMA Copying ==
  ASSUME IInv, NEW p \in Procs, NEW h \in {1, 2}, map[p] \in 1..MaxSegs, copy(p, h)
  PROVE  /\ mem' \in [1..MaxSegs -> (Values \cup {0}) \X (Values \cup {0})]
         /\ arg' \in [Procs -> (Values \cup {0}) \X (Values \cup {0})]
         /\ \A s \in 1..MaxSegs : s # map[p] => mem'[s] = mem[s]
         /\ \A q \in Procs : q # p => arg'[q] = arg[q]
         /\ op[p] = "write" => /\ arg' = arg /\ mem'[map[p]][h] = arg[p][h]
                               /\ mem'[map[p]][3 - h] = mem[map[p]][3 - h]
         /\ op[p] = "read" => /\ mem' = mem /\ arg'[p][h] = mem[map[p]][h]
                              /\ arg'[p][3 - h] = arg[p][3 - h]
         /\ op[p] \notin {"write", "read"} => arg' = arg /\ mem' = mem
<1> DEFINE Text == (Values \cup {0}) \X (Values \cup {0})
<1>1. mem \in [1..MaxSegs -> Text] /\ arg \in [Procs -> Text]
  BY Parts DEF CallType
<1>2. mem[map[p]] \in Text /\ arg[p] \in Text /\ arg[p][h] \in Values \cup {0}
      /\ mem[map[p]][h] \in Values \cup {0}
  BY <1>1
<1>3. CASE op[p] = "write"
  <2>1. mem' = [mem EXCEPT ![map[p]] = [mem[map[p]] EXCEPT ![h] = arg[p][h]]] /\ arg' = arg
    BY <1>3 DEF copy
  <2>2. /\ [mem[map[p]] EXCEPT ![h] = arg[p][h]] \in Text
        /\ [mem[map[p]] EXCEPT ![h] = arg[p][h]][h] = arg[p][h]
        /\ [mem[map[p]] EXCEPT ![h] = arg[p][h]][3 - h] = mem[map[p]][3 - h]
    BY <1>2
  <2> QED
    BY <1>1, <1>3, <2>1, <2>2
<1>4. CASE op[p] = "read"
  <2>1. arg' = [arg EXCEPT ![p] = [arg[p] EXCEPT ![h] = mem[map[p]][h]]] /\ mem' = mem
    BY <1>4 DEF copy
  <2>2. /\ [arg[p] EXCEPT ![h] = mem[map[p]][h]] \in Text
        /\ [arg[p] EXCEPT ![h] = mem[map[p]][h]][h] = mem[map[p]][h]
        /\ [arg[p] EXCEPT ![h] = mem[map[p]][h]][3 - h] = arg[p][3 - h]
    BY <1>2
  <2> QED
    BY <1>1, <1>4, <2>1, <2>2
<1>5. CASE op[p] \notin {"write", "read"}
  BY <1>1, <1>5 DEF copy
<1> QED
  BY <1>3, <1>4, <1>5

\* What body and rest have in common: p is inside, and moves half h.
LEMMA MovesText ==
  ASSUME IInv, NEW p \in Procs, NEW h \in {1, 2}, NEW l \in {"half", "done"}, go(p, l), copy(p, h),
         at[p] \in {"locking", "half"}, pc[p] = "idle", this[p].id # 0, held[p] = this[p].id,
         l = "half" => op[p] \in {"write", "read"},
         WholeInv'
  PROVE  IInv'
<1>1. UNCHANGED guardVars /\ UNCHANGED <<shmid, segs, map, sized, op, spoiled, bare>>
  BY DEF copy, objVars
<1>2. /\ G!TypeOK /\ SegType /\ CallType /\ GuardInv /\ PlaceInv /\ SpoilInv
      /\ Placed(p) /\ map[p] \in 0..segs /\ l \in Places
  BY Parts DEF Places
<1>3. /\ G!TypeOK' /\ GuardInv' /\ GuardOthers(p)
      /\ UNCHANGED <<sem, made, adj, this, pc, left, ret, held>>
  BY <1>1, Quiet
<1>4. map[p] # 0 /\ map[p] \in 1..MaxSegs
  BY <1>2, ShmAssumption DEF Placed, SegType
<1>5. /\ mem' \in [1..MaxSegs -> (Values \cup {0}) \X (Values \cup {0})]
      /\ arg' \in [Procs -> (Values \cup {0}) \X (Values \cup {0})]
      /\ \A q \in Procs : q # p => arg'[q] = arg[q]
  BY <1>4, Copying
<1>6. at' \in [Procs -> Places] /\ at'[p] = l /\ \A q \in Procs : q # p => at'[q] = at[q]
  BY <1>2 DEF go, CallType
<1>7. CallType' /\ SegType' /\ CallOthers(p)
  BY <1>1, <1>2, <1>5, <1>6 DEF CallType, SegType, CallOthers, Places, Ops
<1>8. Placed(p)'
  BY <1>1, <1>2, <1>3, <1>4, <1>6, Rigid DEF Placed
<1>9. PlaceInv'
  BY <1>2, <1>3, <1>7, <1>8, PlaceFrame
<1>10. SpoilInv'
  <2>1. map'[p] # 0 /\ map'[p] \notin spoiled /\ this'[p].id # 0 => this'[p].id = sem.id
    BY <1>1, <1>2, <1>3 DEF SpoilInv, BoundInv
  <2> QED
    BY <1>1, <1>2, <1>3, <1>6, <1>7, <2>1, SpoilFrame
<1> QED
  BY <1>3, <1>7, <1>9, <1>10, TypePartsNext DEF IInv

\* A process in the middle of a text is inside.
LEMMA HalfInside ==
  ASSUME IInv, NEW q \in Procs, at[q] = "half"
  PROVE  /\ this[q].id # 0 /\ held[q] = this[q].id /\ map[q] # 0 /\ map[q] \in 1..MaxSegs
         /\ pc[q] = "idle" /\ op[q] \in {"write", "read"}
<1>1. Placed(q) /\ map[q] \in 0..segs /\ SegType
  BY Parts
<1> QED
  BY <1>1, ShmAssumption DEF Placed, SegType

LEMMA BodyKeeps ==
  ASSUME IInv, NEW p \in Procs, body(p)
  PROVE  IInv'
<1>1. /\ at[p] = "locking" /\ pc[p] = "idle" /\ ret[p] = 0 /\ copy(p, 1)
      /\ go(p, IF op[p] = "uint" THEN "done" ELSE "half")
      /\ UNCHANGED <<map, op, spoiled>>
  BY DEF body, copy, objVars
<1>2. /\ SegType /\ CallType /\ WholeInv /\ Placed(p) /\ map[p] \in 0..segs
  BY Parts
<1>3. held[p] = this[p].id /\ this[p].id # 0 /\ map[p] # 0 /\ map[p] \in 1..MaxSegs
  BY <1>1, <1>2, ShmAssumption DEF Placed, SegType
<1>4. /\ \A s \in 1..MaxSegs : s # map[p] => mem'[s] = mem[s]
      /\ \A q \in Procs : q # p => arg'[q] = arg[q]
      /\ op[p] = "write" => arg' = arg /\ mem'[map[p]][1] = arg[p][1]
      /\ op[p] = "read" => mem' = mem /\ arg'[p][1] = mem[map[p]][1]
      /\ op[p] \notin {"write", "read"} => arg' = arg /\ mem' = mem
  BY <1>1, <1>3, Copying
<1>5. \A q \in Procs : q # p => at'[q] = at[q]
  BY <1>1, <1>2 DEF go, CallType
<1>6. \A q \in Procs : at[q] = "half" /\ map[q] \notin spoiled => map[q] # map[p]
  BY <1>1, <1>3, InsideAlone, HalfInside
<1>7. PICK l \in {"half", "done"} : /\ go(p, l) /\ at'[p] = l
                                    /\ l = "half" <=> op[p] \in {"write", "read"}
  <2>1. op[p] \in {"write", "read", "uint"}
    BY <1>1, <1>2 DEF Placed
  <2> QED
    BY <1>1, <1>2, <2>1 DEF go, CallType
<1>8. CopyInv'
  <2> SUFFICES ASSUME NEW q \in Procs
               PROVE  /\ op'[q] = "write" => arg'[q][1] = arg'[q][2]
                      /\ at'[q] = "half" /\ map'[q] \notin spoiled' => mem'[map'[q]][1] = arg'[q][1]
                      /\ at'[q] \in {"done", "unlocking"} /\ op'[q] = "read" /\ map'[q] \notin spoiled'
                           => arg'[q][1] = arg'[q][2]
    BY DEF CopyInv
  <2>1. CASE q = p
    BY <1>1, <1>2, <1>4, <1>7, <2>1 DEF WholeInv, CopyInv
  <2>2. CASE q # p
    <3>1. at[q] = "half" /\ map[q] \notin spoiled => mem'[map[q]] = mem[map[q]]
      BY <1>4, <1>6, HalfInside
    <3> QED
      BY <1>1, <1>2, <1>4, <1>5, <2>2, <3>1 DEF WholeInv, CopyInv
  <2> QED
    BY <2>1, <2>2
<1>9. TextInv'
  <2>1. CASE op[p] = "write"
    BY <1>1, <1>2, <1>4, <1>5, <1>7, <2>1 DEF WholeInv, TextInv
  <2>2. CASE op[p] # "write"
    BY <1>1, <1>2, <1>4, <1>5, <2>2 DEF WholeInv, TextInv
  <2> QED
    BY <2>1, <2>2
<1> QED
  BY <1>1, <1>3, <1>7, <1>8, <1>9, MovesText DEF WholeInv

LEMMA RestKeeps ==
  ASSUME IInv, NEW p \in Procs, rest(p)
  PROVE  IInv'
<1>1. /\ at[p] = "half" /\ copy(p, 2) /\ go(p, "done") /\ UNCHANGED <<map, op, spoiled>>
  BY DEF rest, copy, objVars
<1>2. SegType /\ CallType /\ WholeInv
  BY Parts
<1>3. /\ held[p] = this[p].id /\ this[p].id # 0 /\ map[p] # 0 /\ map[p] \in 1..MaxSegs
      /\ pc[p] = "idle" /\ op[p] \in {"write", "read"}
  BY <1>1, HalfInside
<1>4. /\ \A s \in 1..MaxSegs : s # map[p] => mem'[s] = mem[s]
      /\ \A q \in Procs : q # p => arg'[q] = arg[q]
      /\ op[p] = "write" => /\ arg' = arg /\ mem'[map[p]][2] = arg[p][2]
                            /\ mem'[map[p]][1] = mem[map[p]][1]
      /\ op[p] = "read" => /\ mem' = mem /\ arg'[p][2] = mem[map[p]][2]
                           /\ arg'[p][1] = arg[p][1]
  BY <1>1, <1>3, Copying
<1>5. at'[p] = "done" /\ \A q \in Procs : q # p => at'[q] = at[q]
  BY <1>1, <1>2 DEF go, CallType
<1>6. \A q \in Procs : at[q] = "half" /\ map[q] = map[p] /\ map[p] \notin spoiled => q = p
  BY <1>3, InsideAlone, HalfInside
<1>7. map[p] \notin spoiled => mem[map[p]][1] = arg[p][1]
  BY <1>1, <1>2 DEF WholeInv, CopyInv
<1>8. CopyInv'
  <2> SUFFICES ASSUME NEW q \in Procs
               PROVE  /\ op'[q] = "write" => arg'[q][1] = arg'[q][2]
                      /\ at'[q] = "half" /\ map'[q] \notin spoiled' => mem'[map'[q]][1] = arg'[q][1]
                      /\ at'[q] \in {"done", "unlocking"} /\ op'[q] = "read" /\ map'[q] \notin spoiled'
                           => arg'[q][1] = arg'[q][2]
    BY DEF CopyInv
  <2>1. CASE q = p
    <3>1. op[p] = "read" /\ map[p] \notin spoiled => mem[map[p]][1] = mem[map[p]][2]
      BY <1>2, <1>3, <1>6 DEF WholeInv, TextInv
    <3> QED
      BY <1>1, <1>2, <1>4, <1>5, <1>7, <2>1, <3>1 DEF WholeInv, CopyInv
  <2>2. CASE q # p
    <3>1. at[q] = "half" /\ map[q] \notin spoiled => mem'[map[q]] = mem[map[q]]
      BY <1>4, <1>6, <2>2, HalfInside
    <3> QED
      BY <1>1, <1>2, <1>4, <1>5, <2>2, <3>1 DEF WholeInv, CopyInv
  <2> QED
    BY <2>1, <2>2
<1>9. TextInv'
  <2>1. CASE op[p] = "write"
    <3>1. map[p] \notin spoiled => mem'[map[p]][1] = mem'[map[p]][2]
      BY <1>2, <1>4, <1>7, <2>1 DEF WholeInv, CopyInv
    <3> QED
      BY <1>1, <1>2, <1>4, <1>5, <3>1 DEF WholeInv, TextInv
  <2>2. CASE op[p] = "read"
    BY <1>1, <1>2, <1>4, <1>5, <2>2 DEF WholeInv, TextInv
  <2> QED
    BY <1>3, <2>1, <2>2
<1> QED
  BY <1>1, <1>3, <1>8, <1>9, MovesText DEF WholeInv

-----------------------------------------------------------------------------
(* A process ends, wherever it is.                                         *)

LEMMA DieKeeps ==
  ASSUME IInv, NEW p \in Procs, die(p)
  PROVE  IInv'
<1>1. /\ forget(p) /\ UNCHANGED <<shmid, segs, mem, bare>>
      /\ spoiled' = IF midway(p) THEN spoiled \cup {map[p]} ELSE spoiled
  BY DEF die, segVars
<1>2. /\ G!TypeOK /\ SegType /\ CallType /\ GuardInv /\ PlaceInv /\ SpoilInv /\ WholeInv
      /\ Placed(p) /\ map[p] \in 0..segs
  BY Parts
<1>3. /\ G!TypeOK' /\ GuardInv' /\ GuardOthers(p) /\ sem'.id = sem.id /\ sem'.size = sem.size
      /\ this'[p] = G!NULL /\ this'[p].id = 0 /\ held'[p] = 0 /\ pc'[p] = "idle"
  <2>1. G!NULL.id = 0
    BY DEF G!NULL
  <2>2. CASE G!exit(p)
    BY <1>2, <2>1, <2>2, GuardExit, GuardTypeRun DEF MoveUnit
  <2>3. CASE this[p] = G!NULL /\ held[p] = 0 /\ UNCHANGED guardVars
    <3>1. pc[p] = "idle"
      <4>1. at[p] \in Places /\ ~(pc[p] = "setall" /\ this[p].id = 0) /\ pc[p] # "reattach"
        BY <1>2, <2>3, Parts DEF Placed, GuardInv, CreatorInv
      <4> QED
        BY <1>2, <2>1, <2>3, <4>1 DEF Placed, Places
    <3> QED
      BY <2>1, <2>3, <3>1, Quiet
  <2> QED
    BY <2>2, <2>3 DEF die
<1>4. /\ CallType' /\ at'[p] = "idle" /\ op'[p] = "none" /\ map'[p] = 0 /\ CallOthers(p)
      /\ map' \in [Procs -> 0..segs] /\ sized' \in [Procs -> BOOLEAN]
  BY <1>1, <1>2, Forgetting
<1>5. spoiled \subseteq spoiled' /\ (midway(p) => map[p] \in spoiled')
  BY <1>1, Zenon
<1>6. SegType'
  <2>1. midway(p) => map[p] # 0
    BY <1>2 DEF midway, Placed
  <2>2. midway(p) => map[p] \in 1..segs
    BY <1>2, <2>1 DEF SegType
  <2>3. spoiled \subseteq 1..segs
    BY <1>2 DEF SegType
  <2>4. spoiled' \subseteq 1..segs
    BY <1>1, <2>2, <2>3, Zenon
  <2> QED
    BY <1>1, <1>2, <1>4, <2>4 DEF SegType
<1>7. Placed(p)'
  BY <1>3, <1>4, Rigid DEF Placed
<1>8. PlaceInv'
  BY <1>2, <1>3, <1>4, <1>7, PlaceFrame
<1>9. SpoilInv'
  <2>1. CASE midway(p)
    BY <1>2, <1>3, <1>4, <1>5, <2>1, SpoilingFrame
  <2>2. CASE ~midway(p)
    <3>1. spoiled' = spoiled /\ shmid' = shmid
      BY <1>1, <2>2
    <3>2. at[p] \in {"shmat", "semget", "guard"} => ~making(p)
      BY <2>2 DEF midway, making
    <3>3. BoundInv' /\ OnlyInv' /\ RemoverInv'
      BY <1>2, <1>3, <1>4, <3>1 DEF SpoilInv, BoundInv, OnlyInv, RemoverInv, GuardOthers, CallOthers
    <3>4. SetterInv'
      BY <1>2, <1>3, <1>4, <3>1, <3>2
      DEF SpoilInv, SetterInv, GuardOthers, CallOthers, making, G!initialised, G!Uninitialised
    <3>5. MakerInv'
      BY <1>1, <1>2, <1>3, <1>4, <3>1, <3>2 DEF SpoilInv, MakerInv, CallOthers, making
    <3> QED
      BY <3>3, <3>4, <3>5 DEF SpoilInv
  <2> QED
    BY <2>1, <2>2
<1>10. WholeInv'
  BY <1>1, <1>2, <1>4, <1>5, WholeFrame DEF midway
<1> QED
  BY <1>3, <1>4, <1>6, <1>8, <1>9, <1>10, TypePartsNext DEF IInv

-----------------------------------------------------------------------------
(* The invariant, and what it says.                                        *)

LEMMA InvInit == Init => IInv
<1> SUFFICES ASSUME Init PROVE IInv
  OBVIOUS
<1>1. /\ sem = G!NoSet /\ made = 0 /\ adj = [p \in Procs |-> 0] /\ this = [p \in Procs |-> G!NULL]
      /\ pc = [p \in Procs |-> "idle"] /\ left = [p \in Procs |-> 0]
      /\ ret = [p \in Procs |-> 0] /\ held = [p \in Procs |-> 0]
  BY DEF Init, G!Init
<1>2. /\ shmid = 0 /\ segs = 0 /\ mem = [i \in 1..MaxSegs |-> <<0, 0>>]
      /\ map = [p \in Procs |-> 0] /\ sized = [p \in Procs |-> FALSE]
      /\ at = [p \in Procs |-> "idle"] /\ op = [p \in Procs |-> "none"]
      /\ arg = [p \in Procs |-> <<0, 0>>] /\ spoiled = {} /\ bare = FALSE
  BY DEF Init, Blank
<1>3. G!TypeOK
  BY <1>1 DEF G!TypeOK, G!NoSet, G!NULL, G!Uninitialised, G!Steps
<1>4. SegType /\ CallType
  <2>1. bare \in BOOLEAN
    BY <1>2
  <2>2. CallType
    BY <1>2, ShmAssumption DEF CallType, Places, Ops
  <2> QED
    BY <1>2, <2>1, <2>2, ShmAssumption DEF SegType
<1>5. sem.id = 0 /\ sem.val = 0 /\ sem.size = -1 /\ \A p \in Procs : this[p].id = 0
  BY <1>1 DEF G!NoSet, G!NULL, G!Uninitialised
<1>6. IdsInv /\ CreatorInv /\ UnitInv
  BY <1>1, <1>5 DEF IdsInv, CreatorInv, UnitInv, owns, G!initialised, G!Uninitialised
<1>7. PlaceInv
  BY <1>1, <1>2, <1>5 DEF PlaceInv, Placed
<1>8. SpoilInv
  BY <1>2, <1>5 DEF SpoilInv, BoundInv, OnlyInv, SetterInv, MakerInv, RemoverInv
<1>9. WholeInv
  BY <1>2 DEF WholeInv, CopyInv, TextInv
<1> QED
  BY <1>3, <1>4, <1>6, <1>7, <1>8, <1>9, TypeParts DEF IInv, GuardInv

LEMMA InvStutter ==
  ASSUME IInv, UNCHANGED vars
  PROVE  IInv'
<1>1. /\ UNCHANGED guardVars /\ UNCHANGED <<shmid, segs, mem, map, sized, at, op, arg, spoiled, bare>>
  BY DEF vars, segVars, objVars
<1>2. /\ G!TypeOK' /\ GuardInv' /\ UNCHANGED <<sem, made, adj, this, pc, left, ret, held>>
  BY <1>1, Quiet
<1>3. SegType' /\ CallType'
  BY <1>1, Parts DEF SegType, CallType, Places, Ops
<1>4. PlaceInv'
  BY <1>1, <1>2, Parts, Rigid DEF PlaceInv, Placed, G!live
<1>5. SpoilInv'
  BY <1>1, <1>2, Parts
  DEF SpoilInv, BoundInv, OnlyInv, SetterInv, MakerInv, RemoverInv, making, G!initialised, G!Uninitialised
<1>6. WholeInv'
  BY <1>1, Parts DEF WholeInv, CopyInv, TextInv
<1> QED
  BY <1>2, <1>3, <1>4, <1>5, <1>6, TypePartsNext DEF IInv

LEMMA InvNext == IInv /\ [Next]_vars => IInv'
<1> SUFFICES ASSUME IInv, [Next]_vars PROVE IInv'
  OBVIOUS
<1>1. ASSUME NEW p \in Procs, Step(p)
      PROVE  IInv'
  <2>1. CASE G!Run(p) /\ UNCHANGED <<segVars, objVars, at, op, arg, spoiled, bare>>
    BY <2>1, RunKeeps
  <2>2. CASE reget(p) \/ shmat(p) \/ semget(p) \/ guarded(p)
    BY <2>2, RegetKeeps, ShmatKeeps, SemgetKeeps, GuardedKeeps
  <2>3. CASE memset(p) \/ rmid(p)
    BY <2>3, MemsetKeeps, RmidKeeps
  <2>4. CASE body(p) \/ rest(p) \/ leave(p)
    BY <2>4, BodyKeeps, RestKeeps, LeaveKeeps
  <2>5. CASE returned(p)
    <3>1. at[p] = "unlocking" /\ pc[p] = "idle" /\ ret[p] = 0
      BY <2>5 DEF returned
    <3>2. held[p] = 0
      BY <3>1, Parts DEF Placed
    <3> QED
      BY <2>5, <3>1, <3>2, ReturnedKeeps DEF returned
  <2>6. CASE abort(p)
    BY <2>6, DieKeeps DEF abort
  <2> QED
    BY <1>1, <2>1, <2>2, <2>3, <2>4, <2>5, <2>6 DEF Step
<1>2. ASSUME NEW p \in Procs, Call(p)
      PROVE  IInv'
  BY <1>2, NewKeeps, AttachKeeps, DeleteKeeps, AccessKeeps DEF Call
<1>3. ASSUME NEW p \in Procs, interrupted(p)
      PROVE  IInv'
  BY <1>3, RunKeeps DEF interrupted
<1>4. ASSUME NEW p \in Procs, crash(p)
      PROVE  IInv'
  BY <1>4, DieKeeps DEF crash
<1>5. CASE UNCHANGED vars
  BY <1>5, InvStutter
<1> QED
  BY <1>1, <1>2, <1>3, <1>4, <1>5 DEF Next

\* The inductive invariant of the segment and its guard.
THEOREM InvariantHolds == Spec => []IInv
  BY InvInit, InvNext, PTL DEF Spec

\* Every reachable state is well typed.
THEOREM TypeCorrect == Spec => []TypeOK
<1>1. IInv => TypeOK
  BY DEF IInv
<1> QED
  BY <1>1, InvariantHolds, PTL

\* With guards that still exist, the critical sections of SharedMemory$write
\* and its like exclude each other: two processes inside own the same unit.
THEOREM GuardedAccessHolds == Spec => []GuardedAccess
<1>1. IInv => GuardedAccess
  <2> SUFFICES ASSUME IInv, NEW p \in Procs, NEW q \in Procs,
                      Inside(p), Inside(q), G!live(p), G!live(q)
               PROVE  p = q
    BY DEF GuardedAccess
  <2>1. \A r \in Procs : Inside(r) => held[r] = this[r].id
    BY Parts DEF Inside, Placed
  <2>2. owns(p) /\ owns(q)
    BY <2>1 DEF owns, G!live
  <2> QED
    BY <2>2, Parts DEF GuardInv, UnitInv
<1> QED
  BY <1>1, InvariantHolds, PTL

\* SharedMemory$read returns a text that somebody wrote as a whole, unless
\* the segment was spoiled.
THEOREM ReadsAreWholeHolds == Spec => []ReadsAreWhole
<1>1. IInv => ReadsAreWhole
  BY Parts DEF ReadsAreWhole, WholeInv, CopyInv
<1> QED
  BY <1>1, InvariantHolds, PTL

\* The assert after Semaphore$unlock fails only if the guard was removed.
THEOREM NoFalseAbortHolds == Spec => []NoFalseAbort
<1>1. IInv => NoFalseAbort
  BY Parts DEF NoFalseAbort, Placed
<1> QED
  BY <1>1, InvariantHolds, PTL

\* Until something is spoiled, the segment under the key has an initialised
\* guard, or somebody in SharedMemory$new is about to provide it, or it has
\* none at all because a constructor gave up.
THEOREM SegmentHasGuardHolds == Spec => []SegmentHasGuard
<1>1. IInv => SegmentHasGuard
  <2> SUFFICES ASSUME IInv, spoiled = {}, shmid # 0, ~G!initialised
               PROVE  (\E p \in Procs : midway(p)) \/ (bare /\ sem.id = 0)
    BY DEF SegmentHasGuard
  <2>1. SetterInv /\ MakerInv
    BY Parts DEF SpoilInv
  <2> QED
    BY <2>1 DEF SetterInv, MakerInv, midway, making
<1> QED
  BY <1>1, InvariantHolds, PTL

-----------------------------------------------------------------------------
(* The methods are disciplined callers of the guard.                       *)

\* Discipline is a condition of three calls only; the rest of the class is
\* the same with it and without.
LEMMA SameNames ==
  /\ D!NULL = G!NULL /\ D!NoSet = G!NoSet /\ D!Uninitialised = G!Uninitialised
  /\ D!LOCK_BLOCKING = G!LOCK_BLOCKING /\ D!LOCK_NONBLOCK = G!LOCK_NONBLOCK
  BY DEF D!NULL, G!NULL, D!NoSet, G!NoSet, D!Uninitialised, G!Uninitialised,
         D!LOCK_BLOCKING, G!LOCK_BLOCKING, D!LOCK_NONBLOCK, G!LOCK_NONBLOCK

LEMMA SameSteps ==
  ASSUME NEW p \in Procs
  PROVE  /\ G!Run(p) => D!Run(p)
         /\ G!interrupted(p) => D!interrupted(p)
         /\ G!exit(p) => D!exit(p)
         /\ G!attach(p) => D!attach(p)
         /\ \A a \in BOOLEAN : G!new(p, 1, a) => D!new(p, 1, a)
<1> USE SameNames DEF D!live, G!live, D!Return, G!Return
<1>1. G!setall(p) => D!setall(p)
  BY DEF G!setall, D!setall
<1>2. G!reattach(p) => D!reattach(p)
  BY DEF G!reattach, D!reattach
<1>3. G!acquire(p) => D!acquire(p)
  BY DEF G!acquire, D!acquire, G!Undo, D!Undo
<1>4. G!again(p) => D!again(p)
  BY DEF G!again, D!again
<1>5. G!removed(p) => D!removed(p)
  BY DEF G!removed, D!removed
<1>6. G!wake(p) => D!wake(p)
  BY DEF G!wake, D!wake, G!EnterSemop, D!EnterSemop
<1>7. G!post(p) => D!post(p)
  BY DEF G!post, D!post, G!Undo, D!Undo
<1>8. G!interrupted(p) => D!interrupted(p)
  BY DEF G!interrupted, D!interrupted
<1>9. G!exit(p) => D!exit(p)
  BY DEF G!exit, D!exit, G!settle, D!settle
<1>10. G!attach(p) => D!attach(p)
  BY DEF G!attach, D!attach
<1>11. \A a \in BOOLEAN : G!new(p, 1, a) => D!new(p, 1, a)
  BY DEF G!new, D!new
<1>12. G!Run(p) => D!Run(p)
  BY <1>1, <1>2, <1>3, <1>4, <1>5, <1>6, <1>7 DEF G!Run, D!Run
<1> QED
  BY <1>8, <1>9, <1>10, <1>11, <1>12

\* A process that holds nothing may delete and lock; one that holds the unit
\* of its object may unlock.
LEMMA DisciplinedCalls ==
  ASSUME NEW p \in Procs
  PROVE  /\ held[p] = 0 /\ this[p].id # 0 =>
              /\ \A r \in BOOLEAN : G!delete(p, r) => D!delete(p, r)
              /\ G!lock(p, G!LOCK_BLOCKING) => D!lock(p, 0)
         /\ held[p] = this[p].id => (G!unlock(p) => D!unlock(p))
<1> USE SameNames DEF D!live, G!live, D!Return, G!Return
<1>1. held[p] = 0 /\ this[p].id # 0 => \A r \in BOOLEAN : G!delete(p, r) => D!delete(p, r)
  BY DEF G!delete, D!delete
<1>2. held[p] = 0 /\ this[p].id # 0 => (G!lock(p, G!LOCK_BLOCKING) => D!lock(p, 0))
  BY DEF G!lock, D!lock, G!EnterSemop, D!EnterSemop, G!LOCK_BLOCKING, G!LOCK_NONBLOCK
<1>3. held[p] = this[p].id => (G!unlock(p) => D!unlock(p))
  BY DEF G!unlock, D!unlock, G!used, D!used, G!getval, D!getval
<1> QED
  BY <1>1, <1>2, <1>3

LEMMA DisciplinedNext ==
  ASSUME IInv, [Next]_vars
  PROVE  [D!Next]_(D!vars)
<1> USE DEF D!Next, D!Call
<1>1. UNCHANGED guardVars => UNCHANGED D!vars
  BY DEF guardVars, D!vars
<1>2. ASSUME NEW p \in Procs, NEW r \in BOOLEAN, free(p, r), at[p] \in {"idle", "guard"}, pc[p] = "idle"
      PROVE  [D!Next]_(D!vars)
  <2>1. held[p] = 0 /\ (this[p] # G!NULL => this[p].id # 0)
    BY <1>2, Parts DEF Placed
  <2> QED
    BY <1>1, <1>2, <2>1, DisciplinedCalls DEF free
<1>3. ASSUME NEW p \in Procs, die(p)
      PROVE  [D!Next]_(D!vars)
  BY <1>1, <1>3, SameSteps DEF die
<1>4. ASSUME NEW p \in Procs, Step(p)
      PROVE  [D!Next]_(D!vars)
  <2>1. CASE G!Run(p)
    BY <2>1, SameSteps
  <2>2. CASE reget(p) \/ shmat(p) \/ memset(p) \/ rmid(p) \/ body(p) \/ rest(p) \/ returned(p)
    BY <1>1, <2>2 DEF reget, shmat, memset, rmid, body, rest, returned, copy
  <2>3. CASE semget(p)
    BY <2>3, SameSteps DEF semget
  <2>4. CASE guarded(p)
    BY <1>1, <1>2, <2>4 DEF guarded, give_up
  <2>5. CASE leave(p)
    <3>1. held[p] = this[p].id
      BY <2>5, Parts DEF leave, Placed
    <3> QED
      BY <2>5, <3>1, DisciplinedCalls DEF leave
  <2>6. CASE abort(p)
    BY <1>3, <2>6 DEF abort
  <2> QED
    BY <1>4, <2>1, <2>2, <2>3, <2>4, <2>5, <2>6 DEF Step
<1>5. ASSUME NEW p \in Procs, Call(p)
      PROVE  [D!Next]_(D!vars)
  <2>1. CASE (\E a \in BOOLEAN : new(p, a)) \/ attach(p)
    BY <1>1, <2>1 DEF new, attach
  <2>2. ASSUME NEW r \in BOOLEAN, delete(p, r)
        PROVE  [D!Next]_(D!vars)
    <3>1. free(p, r) /\ at[p] = "idle"
      BY <2>2 DEF delete, Begin
    <3>2. pc[p] = "idle"
      BY <3>1, Parts DEF Placed
    <3> QED
      BY <1>2, <3>1, <3>2
  <2>3. ASSUME NEW o \in Accesses, NEW v \in Values, access(p, o, v)
        PROVE  [D!Next]_(D!vars)
    <3>1. at[p] = "idle" /\ this[p] # G!NULL /\ G!lock(p, G!LOCK_BLOCKING)
      BY <2>3 DEF access, Begin
    <3>2. held[p] = 0 /\ this[p].id # 0
      BY <3>1, Parts DEF Placed
    <3>3. D!lock(p, 0)
      BY <3>1, <3>2, DisciplinedCalls
    <3> QED
      BY <3>3
  <2> QED
    BY <1>5, <2>1, <2>2, <2>3 DEF Call
<1>6. ASSUME NEW p \in Procs, interrupted(p)
      PROVE  [D!Next]_(D!vars)
  BY <1>6, SameSteps DEF interrupted
<1>7. CASE UNCHANGED vars
  BY <1>1, <1>7 DEF vars
<1> QED
  BY <1>3, <1>4, <1>5, <1>6, <1>7 DEF Next, crash

\* The class is a disciplined user of its guard: every behaviour of the
\* segment's methods is one of the guard under callers that unlock only what
\* they locked, never lock twice and never drop an object while they hold its
\* unit, which is what the theorems of Semaphore ask for.
THEOREM GuardIsDisciplinedHolds == Spec => GuardIsDisciplined
<1>1. Init => D!Init
  BY SameNames DEF Init, G!Init, D!Init
<1>2. IInv /\ [Next]_vars => [D!Next]_(D!vars)
  BY DisciplinedNext
<1> QED
  BY <1>1, <1>2, InvariantHolds, PTL DEF Spec, GuardIsDisciplined, D!Spec

=============================================================================
