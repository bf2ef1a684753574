----------------------------- MODULE LockProofs -----------------------------
(***************************************************************************)
(* Proofs about Lock, for any number of scripts, sizes, expiries, timeouts *)
(* and any clock.                                                          *)
(***************************************************************************)
EXTENDS Lock, FiniteSetTheorems, TLAPS

-----------------------------------------------------------------------------
(* The inductive invariant, by parts.                                      *)

\* Ids of sets are not reused, and an object without an id is none.
IdsInv ==
  /\ sem.id \in {0, made}
  /\ sem.id = 0 => sem = U!NoSet
  /\ \A p \in Procs : this[p].id <= made /\ (this[p].id = 0 => this[p] = U!NULL)

\* Only the command that made a set initialises it, and only once.
CreatorInv ==
  \A p \in Procs : pc[p] = "setall" =>
    /\ U!live(p) => ~U!initialised
    /\ \A q \in Procs : pc[q] = "setall" /\ this[q].id = this[p].id => q = p

\* The value stays in the range of a semaphore, and nothing is ever undone.
ValueInv == sem.val >= 0 /\ sem.val <= SEMVMX /\ \A p \in Procs : adj[p] = 0

\* Where a command is tells where it is in the methods of Semaphore.
Where(p) ==
  /\ cmd[p] = "none" => at[p] = "idle"
  /\ pc[p] # "reattach"
  /\ pc[p] = "setall" => at[p] = "new" /\ cmd[p] = "create"
  /\ at[p] = "rmsem" => cmd[p] = "delete"
  /\ pc[p] \in {"semop", "sleep"} => at[p] = "wait" /\ cmd[p] = "on"
  /\ pc[p] = "post" => at[p] = "wait" /\ cmd[p] = "off"
  /\ pc[p] # "idle" => this[p].id # 0
  /\ at[p] = "semget" => this[p].id # 0
  /\ at[p] \in {"guard", "size", "expiry", "expire"} => obj[p].seg # 0

PlaceInv == \A p \in Procs : Where(p)

unrevoked == "revoked" \notin faults

\* Until a set is removed under a script: a unit that a script was told it
\* has is one of the set as it is now, and a bracket is what it seems to be.
Safe(p) ==
  /\ held[p] \in {0, sem.id}
  /\ pc[p] = "semop" => this[p].id = sem.id
  /\ cmd[p] = "on" /\ ~(at[p] = "wait" /\ pc[p] = "idle") => held[p] = 0
  /\ cmd[p] = "off" /\ (at[p] # "wait" \/ pc[p] # "idle") =>
       held[p] # 0 /\ (at[p] # "attach" => this[p].id = held[p])
  /\ cmd[p] = "off" /\ at[p] = "wait" /\ pc[p] = "idle" /\ ret[p] = 0 => held[p] = 0

HeldInv == unrevoked => \A p \in Procs : Safe(p)

CountInv ==
  /\ LockExcludes
  /\ unrevoked /\ ~U!initialised => sem.val = 0

\* A segment needs a create that made a set, and so does a guard: the bound
\* on sets bounds both.
MakesSegment == {p \in Procs : at[p] = "new" /\ this[p].id # 0}
MakesGuard == {p \in Procs : at[p] \in {"new", "semget"} /\ this[p].id # 0}

BoundInv ==
  /\ segs + Cardinality(MakesSegment) <= made
  /\ guards + Cardinality(MakesGuard) <= made
  /\ made <= MaxSets

IInv ==
  TypeOK /\ IdsInv /\ CreatorInv /\ ValueInv /\ PlaceInv /\ HeldInv /\ CountInv /\ BoundInv

-----------------------------------------------------------------------------
(* Types.                                                                  *)

MemType ==
  /\ now \in 0..MaxNow /\ ctime \in 0..now
  /\ segs \in 0..MaxSets /\ shmid \in 0..segs
  /\ mem \in [1..MaxSets -> [size : Nat, expiry : BOOLEAN, expire : Nat]]
  /\ guards \in 0..MaxSets
  /\ guard \in [id : 0..guards, up : BOOLEAN]
  /\ obj \in [Procs -> [seg : 0..segs, guard : 0..guards]]
  /\ faults \subseteq {"revoked", "crashed"}

CmdType ==
  /\ cmd \in [Procs -> Commands]
  /\ at \in [Procs -> Places]
  /\ arg \in [Procs -> [size : Nat, expire : Nat, timeout : Int,
                        expiry : BOOLEAN, delta : Int]]

LEMMA TypeParts == TypeOK <=> U!TypeOK /\ MemType /\ CmdType
  BY DEF TypeOK, MemType, CmdType

LEMMA TypePartsNext == TypeOK' <=> U!TypeOK' /\ MemType' /\ CmdType'
  BY DEF TypeOK, MemType, CmdType

LEMMA Rigid == U!NULL' = U!NULL /\ U!NoSet' = U!NoSet
  BY DEF U!NULL, U!NoSet, U!Uninitialised

LEMMA UserTypeRun ==
  ASSUME U!TypeOK, NEW p \in Procs, U!Run(p) \/ U!interrupted(p) \/ U!exit(p)
  PROVE  U!TypeOK'
<1> USE LockAssumption DEF U!TypeOK, U!Return, U!Steps, U!NULL, U!NoSet
<1>1. CASE U!setall(p)
  <2>1. this[p] \in [id : Nat, size : Nat] /\ this[p].size \in Nat
    OBVIOUS
  <2>2. sem' \in [id : Nat, val : Int, size : Nat \cup {U!Uninitialised}]
    BY <1>1, <2>1 DEF U!setall
  <2>3. this' \in [Procs -> [id : Nat, size : Nat]] /\ adj' \in [Procs -> Int]
    BY <1>1 DEF U!setall
  <2>4. pc' \in [Procs -> U!Steps] /\ left' \in [Procs -> Int] /\ ret' \in [Procs -> Int]
    BY <1>1 DEF U!setall
  <2> QED
    BY <1>1, <2>2, <2>3, <2>4 DEF U!setall, U!Uninitialised
<1>2. CASE U!reattach(p)
  <2>1. this[p] \in [id : Nat, size : Nat]
    OBVIOUS
  <2>2. this' \in [Procs -> [id : Nat, size : Nat]]
    BY <1>2, <2>1 DEF U!reattach
  <2> QED
    BY <1>2, <2>2 DEF U!reattach, U!Uninitialised
<1>3. CASE U!acquire(p)
  BY <1>3 DEF U!acquire, U!Undo, U!Uninitialised
<1>4. CASE U!again(p)
  BY <1>4 DEF U!again, U!Uninitialised
<1>5. CASE U!removed(p)
  BY <1>5 DEF U!removed, U!Uninitialised
<1>6. CASE U!wake(p)
  BY <1>6 DEF U!wake, U!EnterSemop, U!Uninitialised
<1>7. CASE U!post(p)
  <2>1. adj' = adj
    BY <1>7 DEF U!post, U!Undo
  <2>2. held' = held \/ held' = [held EXCEPT ![p] = 0]
    BY <1>7 DEF U!post
  <2>3. held' \in [Procs -> Nat]
    BY <2>2
  <2> QED
    BY <1>7, <2>1, <2>3 DEF U!post, U!Uninitialised
<1>8. CASE U!interrupted(p)
  BY <1>8 DEF U!interrupted, U!Uninitialised
<1>9. CASE U!exit(p)
  BY <1>9 DEF U!exit, U!settle, U!Uninitialised
<1> QED
  BY <1>1, <1>2, <1>3, <1>4, <1>5, <1>6, <1>7, <1>8, <1>9 DEF U!Run

LEMMA UserTypeCall ==
  ASSUME U!TypeOK, NEW p \in Procs,
         \/ \E n \in Nat : U!new(p, n, FALSE) \/ U!set_size(p, n)
         \/ U!attach(p)
         \/ \E r \in BOOLEAN : U!delete(p, r)
         \/ \E t \in Int : U!lock(p, t)
         \/ U!unlock(p)
  PROVE  U!TypeOK'
<1> USE DEF U!TypeOK, U!Return, U!Steps, U!NULL, U!NoSet, U!Uninitialised
<1>1. ASSUME NEW n \in Nat, U!new(p, n, FALSE)
      PROVE  U!TypeOK'
  BY <1>1 DEF U!new
<1>2. ASSUME NEW n \in Nat, U!set_size(p, n)
      PROVE  U!TypeOK'
  BY <1>2 DEF U!set_size
<1>3. CASE U!attach(p)
  <2>1. this' = this \/ this' = [this EXCEPT ![p] = [id |-> sem.id, size |-> 1]]
    BY <1>3 DEF U!attach
  <2>2. this' \in [Procs -> [id : Nat, size : Nat]]
    BY <2>1
  <2> QED
    BY <1>3, <2>2 DEF U!attach
<1>4. ASSUME NEW r \in BOOLEAN, U!delete(p, r)
      PROVE  U!TypeOK'
  BY <1>4 DEF U!delete
<1>5. ASSUME NEW t \in Int, U!lock(p, t)
      PROVE  U!TypeOK'
  <2>1. \/ pc' = [pc EXCEPT ![p] = "idle"] /\ left' = [left EXCEPT ![p] = 0]
        \/ pc' = [pc EXCEPT ![p] = "semop"] /\ left' = [left EXCEPT ![p] = t]
    BY <1>5 DEF U!lock, U!EnterSemop
  <2>2. \/ ret' = ret \/ ret' = [ret EXCEPT ![p] = 1] \/ ret' = [ret EXCEPT ![p] = -1]
    BY <1>5 DEF U!lock, U!EnterSemop
  <2>3. pc' \in [Procs -> U!Steps] /\ left' \in [Procs -> Int]
    BY <2>1
  <2>4. ret' \in [Procs -> Int]
    BY <2>2
  <2> QED
    BY <1>5, <2>3, <2>4 DEF U!lock
<1>6. CASE U!unlock(p)
  BY <1>6 DEF U!unlock
<1> QED
  BY <1>1, <1>2, <1>3, <1>4, <1>5, <1>6

-----------------------------------------------------------------------------
(* Frames: what a step of p has to establish, and no more.                 *)

UserInv == U!TypeOK /\ IdsInv /\ CreatorInv /\ ValueInv

\* What a step of p leaves alone of the others.
Others(p) ==
  \A q \in Procs : q # p =>
    /\ this'[q] = this[q] /\ pc'[q] = pc[q] /\ held'[q] = held[q] /\ ret'[q] = ret[q]
    /\ at'[q] = at[q] /\ cmd'[q] = cmd[q] /\ obj'[q] = obj[q]

UserOthers(p) ==
  \A q \in Procs : q # p =>
    this'[q] = this[q] /\ pc'[q] = pc[q] /\ held'[q] = held[q] /\ ret'[q] = ret[q]

CmdOthers(p) ==
  \A q \in Procs : q # p => at'[q] = at[q] /\ cmd'[q] = cmd[q] /\ obj'[q] = obj[q]

LEMMA AllOthers == ASSUME NEW p \in Procs, UserOthers(p), CmdOthers(p) PROVE Others(p)
  BY DEF UserOthers, CmdOthers, Others

\* p moves on in a method, or gets another object, or none.
LEMMA UserMoves ==
  ASSUME UserInv, U!TypeOK', NEW p \in Procs, UserOthers(p), UNCHANGED <<made, adj>>,
         sem'.id = sem.id, sem'.size = sem.size, sem.id = 0 => sem' = sem,
         sem'.val >= 0 /\ sem'.val <= SEMVMX,
         pc'[p] # "setall", this'[p].id <= made, this'[p].id = 0 => this'[p] = U!NULL
  PROVE  UserInv'
<1>1. IdsInv'
  BY Rigid DEF UserInv, IdsInv, UserOthers
<1>2. CreatorInv'
  BY DEF UserInv, CreatorInv, UserOthers, U!live, U!initialised, U!Uninitialised
<1>3. ValueInv'
  BY DEF UserInv, ValueInv
<1> QED
  BY <1>1, <1>2, <1>3 DEF UserInv

LEMMA PlaceFrame ==
  ASSUME PlaceInv, NEW p \in Procs, Others(p), Where(p)'
  PROVE  PlaceInv'
  BY DEF PlaceInv, Where, Others

LEMMA HeldFrame ==
  ASSUME HeldInv, NEW p \in Procs, Others(p), sem'.id = sem.id, faults \subseteq faults',
         unrevoked' => Safe(p)'
  PROVE  HeldInv'
<1> SUFFICES ASSUME unrevoked', NEW q \in Procs, q # p
             PROVE  Safe(q)'
  BY DEF HeldInv
<1>1. Safe(q)
  BY DEF HeldInv, unrevoked
<1> QED
  BY <1>1 DEF Safe, Others

-----------------------------------------------------------------------------
(* Counting.                                                               *)

LEMMA SameCount == \A S : U!Cardinality(S) = Cardinality(S)
  BY DEF U!Cardinality, Cardinality

LEMMA OwnersFinite ==
  IsFiniteSet(U!Owners) /\ Cardinality(U!Owners) \in Nat
  BY LockAssumption, FS_Subset, FS_CardinalityType DEF U!Owners

LEMMA CardAdd ==
  ASSUME NEW S, IsFiniteSet(S), NEW x, x \notin S
  PROVE  Cardinality(S \cup {x}) = Cardinality(S) + 1
  BY FS_AddElement

LEMMA CardRemove ==
  ASSUME NEW S, IsFiniteSet(S), NEW x, x \in S
  PROVE  Cardinality(S \ {x}) = Cardinality(S) - 1
  BY FS_RemoveElement

LEMMA CardSub ==
  ASSUME NEW S, NEW T, IsFiniteSet(S), T \subseteq S
  PROVE  IsFiniteSet(T) /\ Cardinality(T) \in Nat /\ Cardinality(S) \in Nat
         /\ Cardinality(T) <= Cardinality(S)
  BY FS_Subset, FS_CardinalityType

\* Neither the set nor a belief changes.
LEMMA CountFrame ==
  ASSUME CountInv, sem' = sem, held' = held, faults \subseteq faults'
  PROVE  CountInv'
<1>1. U!Owners' = U!Owners
  BY DEF U!Owners
<1>2. unrevoked' => unrevoked
  BY DEF unrevoked
<1>3. faults' = {} => faults = {}
  OBVIOUS
<1>4. U!MutualExclusion => U!MutualExclusion'
  BY <1>1, SameCount DEF U!MutualExclusion, U!initialised, U!Uninitialised
<1>5. U!initialised' <=> U!initialised
  BY DEF U!initialised, U!Uninitialised
<1> QED
  BY <1>1, <1>2, <1>3, <1>4, <1>5 DEF CountInv, LockExcludes, unrevoked

\* Nobody is on the way to one more segment or guard.
LEMMA BoundFrame ==
  ASSUME BoundInv, MemType, made \in Nat, UNCHANGED <<made, segs, guards>>, NEW p \in Procs, Others(p),
         at'[p] = "new" /\ this'[p].id # 0 => at[p] = "new" /\ this[p].id # 0,
         at'[p] = "semget" => at[p] = "semget" /\ this'[p].id = this[p].id
  PROVE  BoundInv'
<1>1. MakesSegment' \subseteq MakesSegment /\ MakesGuard' \subseteq MakesGuard
  BY DEF MakesSegment, MakesGuard, Others
<1>2. IsFiniteSet(MakesSegment) /\ IsFiniteSet(MakesGuard)
  BY LockAssumption, FS_Subset DEF MakesSegment, MakesGuard
<1>3. /\ Cardinality(MakesSegment') \in Nat /\ Cardinality(MakesSegment) \in Nat
      /\ Cardinality(MakesSegment') <= Cardinality(MakesSegment)
      /\ Cardinality(MakesGuard') \in Nat /\ Cardinality(MakesGuard) \in Nat
      /\ Cardinality(MakesGuard') <= Cardinality(MakesGuard)
  BY <1>1, <1>2, CardSub
<1>4. segs \in Nat /\ guards \in Nat
  BY DEF MemType
<1> QED
  BY <1>3, <1>4 DEF BoundInv

-----------------------------------------------------------------------------
(* Steps of a command that leave the users' set alone.                     *)

\* All a step of p has to establish when the set stays the one it was.
LEMMA Combine ==
  ASSUME IInv, NEW p \in Procs, Others(p), UserInv', MemType', CmdType', Where(p)',
         sem'.id = sem.id, faults \subseteq faults', unrevoked' => Safe(p)', CountInv', BoundInv'
  PROVE  IInv'
<1>1. PlaceInv'
  BY PlaceFrame DEF IInv
<1>2. HeldInv'
  BY HeldFrame DEF IInv
<1>3. TypeOK'
  BY TypePartsNext DEF UserInv
<1> QED
  BY <1>1, <1>2, <1>3 DEF IInv, UserInv

LEMMA IInvParts ==
  ASSUME IInv
  PROVE  /\ UserInv /\ MemType /\ CmdType /\ PlaceInv /\ HeldInv /\ CountInv /\ BoundInv
         /\ U!TypeOK /\ IdsInv /\ CreatorInv /\ ValueInv
  BY TypeParts DEF IInv, UserInv

\* At most p's object changes: p lets go of it.
LEMMA Quiet ==
  ASSUME IInv, NEW p \in Procs, pc[p] = "idle",
         UNCHANGED <<sem, made, adj, pc, left, held>>,
         \/ UNCHANGED <<this, ret>>
         \/ this' = [this EXCEPT ![p] = U!NULL] /\ ret' = [ret EXCEPT ![p] = 0]
  PROVE  UserInv' /\ UserOthers(p)
<1>1. UserOthers(p)
  BY IInvParts DEF UserOthers, U!TypeOK
<1>2. this'[p] = this[p] \/ this'[p] = U!NULL
  BY IInvParts DEF U!TypeOK
<1>3. U!TypeOK'
  <2>1. this' \in [Procs -> [id : Nat, size : Nat]]
    BY IInvParts DEF U!TypeOK, U!NULL
  <2>2. ret' \in [Procs -> Int]
    BY IInvParts DEF U!TypeOK
  <2> QED
    BY <2>1, <2>2, IInvParts DEF U!TypeOK, U!Steps, U!Uninitialised
<1>4. this[p].id <= made /\ (this[p].id = 0 => this[p] = U!NULL) /\ made \in Nat
  BY IInvParts DEF IdsInv, U!TypeOK
<1>5. this'[p].id <= made /\ (this'[p].id = 0 => this'[p] = U!NULL)
  BY <1>2, <1>4 DEF U!NULL
<1>6. sem.val >= 0 /\ sem.val <= SEMVMX
  BY IInvParts DEF ValueInv
<1>7. UserInv'
  BY <1>1, <1>3, <1>5, <1>6, IInvParts, UserMoves
<1> QED
  BY <1>1, <1>7

\* The command ends and lets go of its object; what the script was told stays.
LEMMA Exits ==
  ASSUME IInv, NEW p \in Procs, pc[p] = "idle", ExitFree(p), UNCHANGED <<segs, guards, faults>>,
         MemType'
  PROVE  IInv'
<1>1. UserInv' /\ UserOthers(p)
  BY Quiet DEF ExitFree
<1>2. CmdOthers(p) /\ cmd'[p] = "none" /\ at'[p] = "idle"
  BY IInvParts DEF ExitFree, Exit, go, CmdOthers, CmdType, MemType
<1>3. CmdType'
  BY IInvParts DEF CmdType, ExitFree, Exit, go, Commands, Places, NoArg
<1>4. Others(p)
  BY <1>1, <1>2, AllOthers
<1>5. pc'[p] = "idle" /\ held'[p] = held[p] /\ sem'.id = sem.id
  BY DEF ExitFree
<1>6. Where(p)'
  BY <1>2, <1>5 DEF Where
<1>7. unrevoked' => Safe(p)'
  <2>1. unrevoked' => Safe(p)
    BY IInvParts DEF HeldInv, unrevoked
  <2> QED
    BY <1>2, <1>5, <2>1 DEF Safe
<1>8. CountInv'
  BY IInvParts, CountFrame DEF ExitFree
<1>9. BoundInv'
  BY <1>2, <1>4, IInvParts, BoundFrame DEF ExitFree, U!TypeOK
<1> QED
  BY <1>1, <1>3, <1>4, <1>5, <1>6, <1>7, <1>8, <1>9, Combine

\* The command goes on from one place to another, outside Semaphore.
LEMMA Moves ==
  ASSUME IInv, NEW p \in Procs, NEW place, go(p, place), UNCHANGED semVars, UNCHANGED <<cmd, faults>>,
         at[p] # "idle", at[p] # "wait", at[p] # "attach" \/ cmd[p] = "delete", pc[p] = "idle",
         place \notin {"idle", "wait", "attach", "rmsem"},
         place = "semget" => this[p].id # 0,
         place \in {"guard", "size", "expiry", "expire"} => obj'[p].seg # 0,
         \A q \in Procs : q # p => obj'[q] = obj[q],
         MemType', CmdType', BoundInv'
  PROVE  IInv'
<1>1. UserInv' /\ UserOthers(p)
  BY Quiet DEF semVars
<1>2. CmdOthers(p) /\ at'[p] = place
  BY IInvParts DEF go, CmdOthers, CmdType
<1>3. Others(p)
  BY <1>1, <1>2, AllOthers
<1>4. UNCHANGED <<sem, this, pc, held, ret, cmd>>
  BY DEF semVars
<1>5. Where(p) /\ (unrevoked' => Safe(p))
  BY IInvParts DEF PlaceInv, HeldInv, unrevoked
<1>6. Where(p)'
  BY <1>2, <1>4, <1>5 DEF Where
<1>7. unrevoked' => Safe(p)'
  BY <1>2, <1>4, <1>5 DEF Safe
<1>8. CountInv'
  BY <1>4, IInvParts, CountFrame
<1> QED
  BY <1>1, <1>3, <1>4, <1>6, <1>7, <1>8, Combine

\* A command starts, or ends at once.
LEMMA Starts ==
  ASSUME IInv, NEW p \in Procs, NEW c \in Commands, NEW place \in {"idle", "attach"}, NEW a,
         Start(p, c, place, a), UNCHANGED semVars, UNCHANGED <<memVars, obj, ctime, now, faults>>,
         c = "none" => place = "idle", c = "on" => held[p] = 0, c = "off" => held[p] # 0 /\ place = "attach",
         a \in [size : Nat, expire : Nat, timeout : Int, expiry : BOOLEAN, delta : Int]
  PROVE  IInv'
<1>1. Where(p) /\ (unrevoked' => Safe(p)) /\ pc[p] \in U!Steps
  BY IInvParts DEF PlaceInv, HeldInv, unrevoked, U!TypeOK
<1>2. pc[p] = "idle"
  BY <1>1 DEF Where, Start, U!Steps
<1>3. UserInv' /\ UserOthers(p)
  BY <1>2, Quiet DEF semVars
<1>4. CmdOthers(p) /\ at'[p] = place /\ cmd'[p] = c
  BY IInvParts DEF Start, go, CmdOthers, CmdType
<1>5. Others(p)
  BY <1>3, <1>4, AllOthers
<1>6. UNCHANGED <<sem, this, pc, held, ret, made>>
  BY DEF semVars
<1>7. Where(p)'
  BY <1>1, <1>2, <1>4, <1>6 DEF Where
<1>8. unrevoked' => Safe(p)'
  BY <1>1, <1>2, <1>4, <1>6 DEF Safe
<1>9. CountInv'
  BY <1>6, IInvParts, CountFrame
<1>10. BoundInv'
  BY <1>4, <1>5, <1>6, IInvParts, BoundFrame DEF memVars, U!TypeOK
<1>11. MemType' /\ CmdType'
  BY IInvParts DEF MemType, CmdType, memVars, Start, go, Places
<1> QED
  BY <1>3, <1>5, <1>6, <1>7, <1>8, <1>9, <1>10, <1>11, Combine

LEMMA CommandStarts ==
  ASSUME IInv, NEW p \in Procs,
         (\E t \in Timeouts : on(p, t)) \/ off(p) \/ status(p) \/ delete(p)
  PROVE  IInv'
<1>1. NoArg \in [size : Nat, expire : Nat, timeout : Int, expiry : BOOLEAN, delta : Int]
  BY DEF NoArg
<1>2. ASSUME NEW t \in Timeouts, on(p, t) PROVE IInv'
  <2>1. [NoArg EXCEPT !.timeout = t] \in
          [size : Nat, expire : Nat, timeout : Int, expiry : BOOLEAN, delta : Int]
    <3>1. t \in Int
      BY LockAssumption
    <3> QED
      BY <1>1, <3>1
  <2>2. CASE Start(p, "on", "attach", [NoArg EXCEPT !.timeout = t])
    BY <1>2, <2>1, <2>2, Starts DEF on, Commands
  <2>3. CASE Start(p, "none", "idle", NoArg)
    BY <1>1, <1>2, <2>3, Starts DEF on, Commands
  <2> QED
    BY <1>2, <2>2, <2>3 DEF on
<1>3. CASE off(p)
  BY <1>1, <1>3, Starts DEF off, Commands
<1>4. CASE status(p)
  BY <1>1, <1>4, Starts DEF status, Commands
<1>5. CASE delete(p)
  BY <1>1, <1>5, Starts DEF delete, Commands
<1> QED
  BY <1>2, <1>3, <1>4, <1>5

\* A command outside new and lock or unlock is in no method of Semaphore.
LEMMA Idle ==
  ASSUME IInv, NEW p \in Procs, at[p] \notin {"new", "wait"}
  PROVE  pc[p] = "idle"
<1>1. Where(p) /\ pc[p] \in U!Steps
  BY IInvParts DEF PlaceInv, U!TypeOK
<1> QED
  BY <1>1 DEF Where, U!Steps

\* p goes on to a place of its own; the bounds count it as before or less.
LEMMA GoBound ==
  ASSUME IInv, NEW p \in Procs, NEW place \in Places, go(p, place), UNCHANGED semVars,
         UNCHANGED <<cmd, segs, guards>>,
         \A q \in Procs : q # p => obj'[q] = obj[q],
         place \notin {"new", "semget"}
  PROVE  BoundInv'
<1>1. UserOthers(p) /\ this' = this /\ made' = made
  BY DEF semVars, UserOthers
<1>2. CmdOthers(p) /\ at'[p] = place
  BY IInvParts DEF go, CmdOthers, CmdType
<1>3. Others(p)
  BY <1>1, <1>2, AllOthers
<1> QED
  BY <1>1, <1>2, <1>3, IInvParts, BoundFrame DEF U!TypeOK

LEMMA GoType ==
  ASSUME CmdType, NEW p \in Procs, NEW place \in Places, go(p, place), UNCHANGED <<cmd, arg>>
  PROVE  CmdType'
  BY DEF CmdType, go

LEMMA ObjType ==
  ASSUME MemType, NEW p \in Procs, NEW s, NEW g, s \in {obj[p].seg, shmid}, g \in {obj[p].guard, guard.id, 0},
         obj' = [obj EXCEPT ![p] = [seg |-> s, guard |-> g]], UNCHANGED <<segs, guards>>
  PROVE  obj' \in [Procs -> [seg : 0..segs', guard : 0..guards']]
<1>1. obj[p] \in [seg : 0..segs, guard : 0..guards]
  BY DEF MemType
<1>2. s \in 0..segs
  BY <1>1 DEF MemType
<1>3. g \in 0..guards
  BY <1>1 DEF MemType
<1> QED
  BY <1>2, <1>3 DEF MemType

LEMMA ObjParts ==
  ASSUME IInv, NEW p \in Procs, NEW x
  PROVE  /\ [obj EXCEPT ![p].seg = x] = [obj EXCEPT ![p] = [seg |-> x, guard |-> obj[p].guard]]
         /\ [obj EXCEPT ![p].guard = x] = [obj EXCEPT ![p] = [seg |-> obj[p].seg, guard |-> x]]
<1>1. obj[p] \in [seg : 0..segs, guard : 0..guards] /\ obj = [q \in Procs |-> obj[q]]
  BY IInvParts DEF MemType
<1>2. /\ [obj[p] EXCEPT !.seg = x] = [seg |-> x, guard |-> obj[p].guard]
      /\ [obj[p] EXCEPT !.guard = x] = [seg |-> obj[p].seg, guard |-> x]
  BY <1>1
<1> QED
  BY <1>1, <1>2

LEMMA ExitObj ==
  ASSUME MemType, NEW p \in Procs, Exit(p), UNCHANGED <<segs, guards>>
  PROVE  obj' \in [Procs -> [seg : 0..segs', guard : 0..guards']]
  BY DEF MemType, Exit, NoObj

\* attach of SharedMemory, and delete, outside Semaphore.
LEMMA AttachSteps ==
  ASSUME IInv, NEW p \in Procs,
         \/ attach(p) /\ sem.id = 0
         \/ shm(p)
         \/ shsem(p) /\ ~die(p)
  PROVE  IInv'
<1>1. CASE attach(p) /\ sem.id = 0
  <2>1. pc[p] = "idle"
    BY <1>1, Idle DEF attach
  <2>2. CASE cmd[p] = "delete" /\ go(p, "shm") /\ UNCHANGED semVars /\ UNCHANGED <<obj, cmd, arg>>
    <3>1. MemType' /\ CmdType' /\ BoundInv'
      BY <1>1, <2>2, IInvParts, GoType, GoBound DEF attach, MemType, memVars, Places
    <3> QED
      BY <1>1, <2>1, <2>2, <3>1, Moves DEF attach
  <2>3. CASE ExitFree(p)
    <3>1. MemType'
      BY <1>1, <2>3, ExitObj, IInvParts DEF attach, memVars, MemType, ExitFree
    <3> QED
      BY <1>1, <2>1, <2>3, <3>1, Exits DEF attach, memVars
  <2> QED
    BY <1>1, <2>2, <2>3 DEF attach
<1>2. CASE shm(p)
  <2>1. pc[p] = "idle"
    BY <1>2, Idle DEF shm
  <2>2. CASE /\ obj' = [obj EXCEPT ![p].seg = shmid]
             /\ go(p, IF shmid # 0 THEN "guard" ELSE "act")
             /\ UNCHANGED semVars /\ UNCHANGED <<cmd, arg>>
    <3> DEFINE place == IF shmid # 0 THEN "guard" ELSE "act"
    <3>1. obj' = [obj EXCEPT ![p] = [seg |-> shmid, guard |-> obj[p].guard]]
      BY <2>2, ObjParts
    <3>2. MemType'
      BY <1>2, <3>1, ObjType, IInvParts DEF shm, memVars, MemType
    <3>3. CmdType' /\ BoundInv'
      <4>1. \A q \in Procs : q # p => obj'[q] = obj[q]
        BY <3>1, IInvParts DEF MemType
      <4>2. place \in Places /\ place \notin {"new", "semget"}
        BY DEF Places
      <4> QED
        BY <1>2, <2>2, <4>1, <4>2, IInvParts, GoType, GoBound DEF shm, memVars
    <3>4. /\ place \notin {"idle", "wait", "attach", "rmsem"}
          /\ place \in {"guard", "size", "expiry", "expire"} => obj'[p].seg # 0
          /\ \A q \in Procs : q # p => obj'[q] = obj[q]
      BY <3>1, IInvParts DEF MemType
    <3> QED
      BY <1>2, <2>1, <2>2, <3>2, <3>3, <3>4, Moves DEF shm
  <2>3. CASE ExitFree(p)
    <3>1. MemType'
      BY <1>2, <2>3, ExitObj, IInvParts DEF shm, memVars, MemType, ExitFree
    <3> QED
      BY <1>2, <2>1, <2>3, <3>1, Exits DEF shm, memVars
  <2> QED
    BY <1>2, <2>2, <2>3 DEF shm
<1>3. CASE shsem(p) /\ ~die(p)
  <2>1. pc[p] = "idle"
    BY <1>3, Idle DEF shsem
  <2>2. CASE /\ obj' = [obj EXCEPT ![p].guard = guard.id]
             /\ go(p, IF cmd[p] = "delete" THEN "rmguard" ELSE IF guard.id # 0 THEN "size" ELSE "act")
             /\ UNCHANGED <<semVars, memVars, cmd, arg, ctime, now, faults>>
    <3> DEFINE place == IF cmd[p] = "delete" THEN "rmguard" ELSE IF guard.id # 0 THEN "size" ELSE "act"
    <3>1. obj' = [obj EXCEPT ![p] = [seg |-> obj[p].seg, guard |-> guard.id]]
      BY <2>2, ObjParts
    <3>2. MemType'
      BY <2>2, <3>1, ObjType, IInvParts DEF memVars, MemType
    <3>3. place \in Places /\ place \notin {"new", "semget", "idle", "wait", "attach", "rmsem"}
      BY DEF Places
    <3>4. \A q \in Procs : q # p => obj'[q] = obj[q]
      BY <3>1, IInvParts DEF MemType
    <3>5. CmdType' /\ BoundInv'
      BY <1>3, <2>2, <3>3, <3>4, IInvParts, GoType, GoBound DEF shsem, memVars
    <3>6. obj'[p].seg # 0
      BY <1>3, <3>1, IInvParts DEF shsem, PlaceInv, Where, MemType
    <3> QED
      BY <1>3, <2>1, <2>2, <3>2, <3>3, <3>4, <3>5, <3>6, Moves DEF shsem
  <2>3. CASE /\ go(p, IF cmd[p] = "delete" THEN "rmid" ELSE "act")
             /\ UNCHANGED <<semVars, memVars, obj, cmd, arg, ctime, now, faults>>
    <3> DEFINE place == IF cmd[p] = "delete" THEN "rmid" ELSE "act"
    <3>1. MemType'
      BY <2>3, IInvParts DEF memVars, MemType
    <3>2. place \in Places /\ place \notin {"new", "semget", "idle", "wait", "attach", "rmsem",
                                             "guard", "size", "expiry", "expire"}
      BY DEF Places
    <3>3. CmdType' /\ BoundInv'
      BY <1>3, <2>3, <3>2, IInvParts, GoType, GoBound DEF shsem, memVars
    <3> QED
      BY <1>3, <2>1, <2>3, <3>1, <3>2, <3>3, Moves DEF shsem
  <2> QED
    BY <1>3, <2>2, <2>3 DEF shsem
<1> QED
  BY <1>1, <1>2, <1>3

-----------------------------------------------------------------------------
(* create, after the set.                                                  *)

LEMMA MakersFinite ==
  /\ IsFiniteSet(MakesSegment) /\ IsFiniteSet(MakesGuard)
  /\ Cardinality(MakesSegment) \in Nat /\ Cardinality(MakesGuard) \in Nat
  BY LockAssumption, FS_Subset, FS_CardinalityType DEF MakesSegment, MakesGuard

LEMMA HasObject ==
  ASSUME IInv, NEW p \in Procs, this[p] # U!NULL
  PROVE  this[p].id # 0
  BY IInvParts DEF IdsInv

LEMMA WidenObj ==
  ASSUME NEW a \in Nat, NEW b \in Nat, NEW c \in Nat, NEW d \in Nat, a <= c, b <= d,
         NEW f \in [Procs -> [seg : 0..a, guard : 0..b]]
  PROVE  f \in [Procs -> [seg : 0..c, guard : 0..d]]
<1>1. ASSUME NEW q \in Procs PROVE f[q] \in [seg : 0..c, guard : 0..d]
  <2>1. f[q] \in [seg : 0..a, guard : 0..b]
    OBVIOUS
  <2>2. f[q].seg \in 0..c /\ f[q].guard \in 0..d
    BY <2>1
  <2> QED
    BY <2>1, <2>2
<1> QED
  BY <1>1

LEMMA StepShmget ==
  ASSUME IInv, NEW p \in Procs, shmget(p)
  PROVE  IInv'
<1>1. at[p] = "new" /\ pc[p] = "idle"
  BY DEF shmget
<1>2. CASE /\ this[p] # U!NULL /\ shmid = 0
           /\ segs' = segs + 1 /\ shmid' = segs + 1
           /\ obj' = [obj EXCEPT ![p].seg = segs + 1]
           /\ go(p, "semget")
           /\ UNCHANGED <<cmd, arg, semVars>>
  <2>1. UNCHANGED <<mem, guard, guards, ctime, now, faults>>
    BY DEF shmget
  <2>2. p \in MakesSegment /\ p \in MakesGuard
    BY <1>1, <1>2, HasObject DEF MakesSegment, MakesGuard
  <2>3. Cardinality(MakesSegment \ {p}) = Cardinality(MakesSegment) - 1
    BY <2>2, MakersFinite, CardRemove
  <2>4. obj' = [obj EXCEPT ![p] = [seg |-> segs + 1, guard |-> obj[p].guard]]
    BY <1>2, ObjParts
  <2>5. \A q \in Procs : q # p => obj'[q] = obj[q]
    BY <2>4, IInvParts DEF MemType
  <2>6. at'[p] = "semget" /\ \A q \in Procs : q # p => at'[q] = at[q]
    BY <1>2, IInvParts DEF go, CmdType
  <2>7. this' = this /\ made' = made
    BY <1>2 DEF semVars
  <2>8. MakesSegment' \subseteq MakesSegment \ {p} /\ MakesGuard' \subseteq MakesGuard
    BY <2>2, <2>6, <2>7 DEF MakesSegment, MakesGuard
  <2>9. IsFiniteSet(MakesSegment \ {p})
    BY MakersFinite, FS_Subset
  <2>10. /\ Cardinality(MakesSegment') \in Nat /\ Cardinality(MakesGuard') \in Nat
         /\ Cardinality(MakesSegment') <= Cardinality(MakesSegment) - 1
         /\ Cardinality(MakesGuard') <= Cardinality(MakesGuard)
    BY <2>3, <2>8, <2>9, MakersFinite, CardSub
  <2>11. segs \in Nat /\ guards \in Nat /\ made \in Nat /\ MaxSets \in Nat
    BY LockAssumption, IInvParts DEF MemType, U!TypeOK
  <2>12. BoundInv'
    BY <1>2, <2>1, <2>7, <2>10, <2>11, MakersFinite, IInvParts DEF BoundInv
  <2>13. segs + 1 \in 0..MaxSets
    BY <2>10, <2>11, MakersFinite, IInvParts DEF BoundInv
  <2>14. obj' \in [Procs -> [seg : 0..segs', guard : 0..guards']]
    <3>1. obj \in [Procs -> [seg : 0..segs', guard : 0..guards']]
      BY <1>2, <2>1, <2>11, WidenObj, IInvParts DEF MemType
    <3>2. segs + 1 \in 0..segs' /\ obj[p].guard \in 0..guards'
      BY <1>2, <2>11, <3>1
    <3> QED
      BY <2>4, <3>1, <3>2
  <2>15. MemType'
    BY <1>2, <2>1, <2>11, <2>13, <2>14, IInvParts DEF MemType
  <2>16. CmdType'
    BY <1>2, IInvParts, GoType DEF Places
  <2> QED
    BY <1>1, <1>2, <2>1, <2>5, <2>12, <2>15, <2>16, HasObject, Moves
<1>3. CASE ExitFree(p) /\ UNCHANGED <<shmid, segs>>
  <2>1. UNCHANGED <<mem, guard, guards, ctime, now, faults>>
    BY DEF shmget
  <2>2. MemType'
    BY <1>3, <2>1, ExitObj, IInvParts DEF MemType, ExitFree
  <2> QED
    BY <1>1, <1>3, <2>1, <2>2, Exits
<1> QED
  BY <1>2, <1>3 DEF shmget

LEMMA StepSemget ==
  ASSUME IInv, NEW p \in Procs, semget(p)
  PROVE  IInv'
<1>1. at[p] = "semget" /\ pc[p] = "idle"
  BY Idle DEF semget
<1>2. CASE /\ guards' = guards + 1
           /\ guard' = [id |-> guards + 1, up |-> FALSE]
           /\ obj' = [obj EXCEPT ![p].guard = guards + 1]
           /\ go(p, "setall")
           /\ UNCHANGED <<cmd, arg, semVars>>
  <2>1. UNCHANGED <<shmid, segs, mem, ctime, now, faults>>
    BY DEF semget
  <2>2. p \in MakesGuard /\ p \notin MakesSegment
    BY <1>1, IInvParts DEF MakesSegment, MakesGuard, PlaceInv, Where
  <2>3. Cardinality(MakesGuard \ {p}) = Cardinality(MakesGuard) - 1
    BY <2>2, MakersFinite, CardRemove
  <2>4. obj' = [obj EXCEPT ![p] = [seg |-> obj[p].seg, guard |-> guards + 1]]
    BY <1>2, ObjParts
  <2>5. \A q \in Procs : q # p => obj'[q] = obj[q]
    BY <2>4, IInvParts DEF MemType
  <2>6. at'[p] = "setall" /\ \A q \in Procs : q # p => at'[q] = at[q]
    BY <1>2, IInvParts DEF go, CmdType
  <2>7. this' = this /\ made' = made
    BY <1>2 DEF semVars
  <2>8. MakesGuard' \subseteq MakesGuard \ {p} /\ MakesSegment' \subseteq MakesSegment
    BY <2>2, <2>6, <2>7 DEF MakesSegment, MakesGuard
  <2>9. IsFiniteSet(MakesGuard \ {p})
    BY MakersFinite, FS_Subset
  <2>10. /\ Cardinality(MakesSegment') \in Nat /\ Cardinality(MakesGuard') \in Nat
         /\ Cardinality(MakesGuard') <= Cardinality(MakesGuard) - 1
         /\ Cardinality(MakesSegment') <= Cardinality(MakesSegment)
    BY <2>3, <2>8, <2>9, MakersFinite, CardSub
  <2>11. segs \in Nat /\ guards \in Nat /\ made \in Nat /\ MaxSets \in Nat
    BY LockAssumption, IInvParts DEF MemType, U!TypeOK
  <2>12. BoundInv'
    BY <1>2, <2>1, <2>7, <2>10, <2>11, MakersFinite, IInvParts DEF BoundInv
  <2>13. guards + 1 \in 0..MaxSets
    BY <2>10, <2>11, MakersFinite, IInvParts DEF BoundInv
  <2>14. obj' \in [Procs -> [seg : 0..segs', guard : 0..guards']]
    <3>1. obj \in [Procs -> [seg : 0..segs', guard : 0..guards']]
      BY <1>2, <2>1, <2>11, WidenObj, IInvParts DEF MemType
    <3>2. guards + 1 \in 0..guards' /\ obj[p].seg \in 0..segs'
      BY <1>2, <2>11, <3>1
    <3> QED
      BY <2>4, <3>1, <3>2
  <2>15. guard' \in [id : 0..guards', up : BOOLEAN]
    BY <1>2, <2>11
  <2>16. MemType'
    BY <1>2, <2>1, <2>11, <2>13, <2>14, <2>15, IInvParts DEF MemType
  <2>17. CmdType'
    BY <1>2, IInvParts, GoType DEF Places
  <2> QED
    BY <1>1, <1>2, <2>1, <2>5, <2>12, <2>16, <2>17, Moves
<1>3. CASE ExitFree(p) /\ UNCHANGED <<guard, guards>>
  <2>1. UNCHANGED <<shmid, segs, mem, ctime, now, faults>>
    BY DEF semget
  <2>2. MemType'
    BY <1>3, <2>1, ExitObj, IInvParts DEF MemType, ExitFree
  <2> QED
    BY <1>1, <1>3, <2>1, <2>2, Exits
<1> QED
  BY <1>2, <1>3 DEF semget

\* SETALL of the guard.
LEMMA StepSetall ==
  ASSUME IInv, NEW p \in Procs, setall(p)
  PROVE  IInv'
<1>1. at[p] = "setall" /\ pc[p] = "idle" /\ UNCHANGED <<shmid, segs, mem, guards, ctime, now, faults>>
  BY Idle DEF setall
<1>2. guard' \in [id : 0..guards', up : BOOLEAN]
  <2>1. guard' = guard \/ guard' = [guard EXCEPT !.up = TRUE]
    BY DEF setall
  <2> QED
    BY <1>1, <2>1, IInvParts DEF MemType
<1>3. CASE go(p, "size!") /\ UNCHANGED <<cmd, arg, obj>> /\ UNCHANGED semVars
  <2>1. MemType' /\ CmdType' /\ BoundInv'
    BY <1>1, <1>2, <1>3, IInvParts, GoType, GoBound DEF MemType, Places
  <2> QED
    BY <1>1, <1>3, <2>1, Moves
<1>4. CASE ExitFree(p)
  <2>1. MemType'
    BY <1>1, <1>2, <1>4, ExitObj, IInvParts DEF MemType, ExitFree
  <2> QED
    BY <1>1, <1>4, <2>1, Exits
<1> QED
  BY <1>3, <1>4 DEF setall

Words == [size : Nat, expiry : BOOLEAN, expire : Nat]

LEMMA MemUpdate ==
  ASSUME NEW f \in [1..MaxSets -> Words], NEW s, NEW w, s \in 1..MaxSets => w \in Words
  PROVE  [f EXCEPT ![s] = w] \in [1..MaxSets -> Words]
  OBVIOUS

LEMMA StepWriteUint ==
  ASSUME IInv, NEW p \in Procs, write_uint(p)
  PROVE  IInv'
<1>1. /\ at[p] \in {"size!", "expiry!", "expire!"}
      /\ UNCHANGED <<shmid, segs, guard, guards, ctime, now, faults>>
  BY DEF write_uint
<1>2. pc[p] = "idle"
  BY <1>1, Idle
<1> DEFINE s == obj[p].seg
<1>3. mem \in [1..MaxSets -> Words] /\ arg[p].size \in Nat /\ arg[p].expire \in Nat
  BY IInvParts DEF MemType, CmdType, Words
<1>4. mem' \in [1..MaxSets -> Words]
  <2>1. CASE mem' = [mem EXCEPT ![s].size = arg[p].size]
    <3>1. s \in 1..MaxSets => [mem[s] EXCEPT !.size = arg[p].size] \in Words
      BY <1>3 DEF Words
    <3> QED
      BY <1>3, <2>1, <3>1, MemUpdate
  <2>2. CASE mem' = [mem EXCEPT ![s].expiry = arg[p].expire # 0]
    <3>1. s \in 1..MaxSets => [mem[s] EXCEPT !.expiry = arg[p].expire # 0] \in Words
      BY <1>3 DEF Words
    <3> QED
      BY <1>3, <2>2, <3>1, MemUpdate
  <2>3. CASE mem' = [mem EXCEPT ![s].expire = arg[p].expire]
    <3>1. s \in 1..MaxSets => [mem[s] EXCEPT !.expire = arg[p].expire] \in Words
      BY <1>3 DEF Words
    <3> QED
      BY <1>3, <2>3, <3>1, MemUpdate
  <2> QED
    BY <2>1, <2>2, <2>3 DEF write_uint
<1>5. ASSUME NEW place \in {"expiry!", "expire!"}, go(p, place), UNCHANGED <<cmd, arg, obj>>, UNCHANGED semVars
      PROVE  IInv'
  <2>1. MemType'
    BY <1>1, <1>4, <1>5, IInvParts DEF MemType, Words
  <2>2. place \in Places /\ place \notin {"new", "semget"}
    BY DEF Places
  <2>3. CmdType' /\ BoundInv'
    BY <1>1, <1>5, <2>2, IInvParts, GoType, GoBound
  <2> QED
    BY <1>1, <1>2, <1>5, <2>1, <2>3, Moves
<1>6. CASE ExitFree(p)
  <2>1. MemType'
    BY <1>1, <1>4, <1>6, ExitObj, IInvParts DEF MemType, ExitFree, Words
  <2> QED
    BY <1>1, <1>2, <1>6, <2>1, Exits
<1> QED
  BY <1>5, <1>6 DEF write_uint

-----------------------------------------------------------------------------
(* delete, after the set.                                                  *)

LEMMA DeleteSteps ==
  ASSUME IInv, NEW p \in Procs, rmguard(p) \/ memset(p) \/ rmid(p)
  PROVE  IInv'
<1>1. pc[p] = "idle"
  BY Idle DEF rmguard, memset, rmid
<1>2. CASE rmguard(p)
  <2>1. guard' = NoGuard \/ guard' = guard
    BY <1>2 DEF rmguard
  <2>2. guard' \in [id : 0..guards', up : BOOLEAN]
    BY <1>2, <2>1, IInvParts DEF rmguard, MemType, NoGuard
  <2>3. MemType'
    BY <1>2, <2>2, IInvParts DEF rmguard, MemType
  <2>4. CmdType' /\ BoundInv'
    BY <1>2, IInvParts, GoType, GoBound DEF rmguard, Places
  <2> QED
    BY <1>1, <1>2, <2>3, <2>4, Moves DEF rmguard
<1>3. CASE memset(p)
  <2>1. mem' \in [1..MaxSets -> Words]
    <3>1. PICK w \in {Zero, mem[obj[p].seg]} : mem' = [mem EXCEPT ![obj[p].seg] = w]
      BY <1>3 DEF memset
    <3>2. mem \in [1..MaxSets -> Words] /\ Zero \in Words
      BY IInvParts DEF MemType, Words, Zero
    <3>3. obj[p].seg \in 1..MaxSets => w \in Words
      BY <3>2
    <3> QED
      BY <3>1, <3>2, <3>3, MemUpdate
  <2>2. MemType'
    BY <1>3, <2>1, IInvParts DEF memset, MemType, Words
  <2>3. CmdType' /\ BoundInv'
    BY <1>3, IInvParts, GoType, GoBound DEF memset, Places
  <2> QED
    BY <1>1, <1>3, <2>2, <2>3, Moves DEF memset
<1>4. CASE rmid(p)
  <2>1. shmid' = shmid \/ shmid' = 0
    BY <1>4 DEF rmid
  <2>2. MemType'
    BY <1>4, <2>1, ExitObj, IInvParts DEF rmid, MemType, ExitFree
  <2> QED
    BY <1>1, <1>4, <2>2, Exits DEF rmid
<1> QED
  BY <1>2, <1>3, <1>4

-----------------------------------------------------------------------------
(* init, and the calls of Semaphore's methods that leave its set alone.    *)

\* p's object and its place in a method change, the set does not.
LEMMA Calls ==
  ASSUME IInv, NEW p \in Procs, U!TypeOK', UserOthers(p), CmdOthers(p), UNCHANGED <<sem, made, adj, held>>,
         pc'[p] # "setall", this'[p].id \in {0, this[p].id, sem.id}, this'[p].id = 0 => this'[p] = U!NULL,
         UNCHANGED <<segs, guards>>, faults' = faults, MemType', CmdType', Where(p)',
         unrevoked => Safe(p)',
         at'[p] = "new" /\ this'[p].id # 0 => at[p] = "new" /\ this[p].id # 0,
         at'[p] = "semget" => at[p] = "semget" /\ this'[p].id = this[p].id
  PROVE  IInv'
<1>1. Others(p)
  BY AllOthers
<1>2. made \in Nat /\ sem.id \in {0, made} /\ this[p].id <= made
  BY IInvParts DEF IdsInv, U!TypeOK
<1>3. this'[p].id <= made
  BY <1>2
<1>4. sem.val >= 0 /\ sem.val <= SEMVMX
  BY IInvParts DEF ValueInv
<1>5. UserInv'
  BY <1>3, <1>4, IInvParts, UserMoves
<1>6. CountInv'
  BY IInvParts, CountFrame
<1>7. BoundInv'
  BY <1>1, <1>2, IInvParts, BoundFrame
<1>8. unrevoked' => Safe(p)'
  BY DEF unrevoked
<1> QED
  BY <1>1, <1>5, <1>6, <1>7, <1>8, Combine

LEMMA StepReadUint ==
  ASSUME IInv, NEW p \in Procs, read_uint(p)
  PROVE  IInv'
<1>1. at[p] \in {"size", "expiry", "expire"} /\ UNCHANGED memVars /\ UNCHANGED <<cmd, obj, ctime, now, faults>>
  BY DEF read_uint
<1>2. pc[p] = "idle" /\ MemType'
  BY <1>1, Idle, IInvParts DEF MemType, memVars
<1>3. obj[p].seg # 0 /\ obj[p].seg \in 0..segs
  BY <1>1, IInvParts DEF PlaceInv, Where, MemType
<1>4. obj[p].seg \in 1..MaxSets
  BY <1>3, LockAssumption, IInvParts DEF MemType
<1> DEFINE words == mem[obj[p].seg]
<1>5. words.size \in Nat /\ words.expiry \in BOOLEAN /\ words.expire \in Nat
  BY <1>4, IInvParts DEF MemType
<1>6. CASE at[p] = "size" /\ U!set_size(p, words.size) /\ go(p, "expiry") /\ UNCHANGED arg
  <2>1. U!TypeOK'
    BY <1>5, <1>6, IInvParts, UserTypeCall
  <2>2. UserOthers(p) /\ this'[p].id = this[p].id /\ pc'[p] = "idle" /\ this[p] # U!NULL
    BY <1>6, IInvParts DEF U!set_size, UserOthers, U!TypeOK
  <2>3. UNCHANGED <<sem, made, adj, held, ret>>
    BY <1>6 DEF U!set_size
  <2>4. CmdOthers(p) /\ at'[p] = "expiry" /\ cmd' = cmd
    BY <1>1, <1>6, IInvParts DEF go, CmdOthers, CmdType
  <2>5. CmdType'
    BY <1>1, <1>6, IInvParts, GoType DEF Places
  <2>6. Where(p)'
    BY <1>1, <1>2, <1>3, <2>2, <2>4, IInvParts DEF PlaceInv, Where
  <2>7. unrevoked => Safe(p)'
    <3>1. unrevoked => Safe(p)
      BY IInvParts DEF HeldInv
    <3> QED
      BY <1>6, <2>2, <2>3, <2>4, <3>1 DEF Safe
  <2>8. this'[p].id # 0
    BY <2>2, HasObject
  <2>9. UNCHANGED <<segs, guards, faults>>
    BY <1>1 DEF memVars
  <2> QED
    BY <1>2, <2>1, <2>2, <2>3, <2>4, <2>5, <2>6, <2>7, <2>8, <2>9, Calls
<1>7. ASSUME NEW place \in {"expire", "act"}, go(p, place), UNCHANGED semVars, CmdType'
      PROVE  IInv'
  <2>1. place \in Places /\ place \notin {"new", "semget"}
    BY DEF Places
  <2>2. BoundInv'
    BY <1>1, <1>7, <2>1, GoBound DEF memVars
  <2> QED
    BY <1>1, <1>2, <1>3, <1>7, <2>2, Moves
<1>8. CASE /\ go(p, IF words.expiry THEN "expire" ELSE "act")
           /\ arg' = [arg EXCEPT ![p].expiry = words.expiry]
           /\ UNCHANGED semVars
  <2>1. CmdType'
    BY <1>1, <1>5, <1>8, IInvParts DEF CmdType, go, Places
  <2> QED
    BY <1>7, <1>8, <2>1
<1>9. CASE /\ go(p, "act")
           /\ \E t \in ctimes(p) : arg' = [arg EXCEPT ![p].delta = t + words.expire - now]
           /\ UNCHANGED semVars
  <2>1. PICK t \in ctimes(p) : arg' = [arg EXCEPT ![p].delta = t + words.expire - now]
    BY <1>9
  <2>2. t + words.expire - now \in Int
    BY <1>5, LockAssumption, IInvParts DEF MemType, ctimes
  <2>3. CmdType'
    BY <1>1, <1>9, <2>1, <2>2, IInvParts DEF CmdType, go, Places
  <2> QED
    BY <1>7, <1>9, <2>3
<1> QED
  BY <1>6, <1>8, <1>9 DEF read_uint

\* Semaphore$attach of a set that is there.
LEMMA StepAttach ==
  ASSUME IInv, NEW p \in Procs, attach(p), sem.id # 0
  PROVE  IInv'
<1>1. /\ at[p] = "attach" /\ U!attach(p)
      /\ go(p, IF cmd[p] = "delete" THEN "rmsem" ELSE "shm")
      /\ UNCHANGED memVars /\ UNCHANGED <<obj, cmd, arg, ctime, now, faults>>
  BY DEF attach
<1>2. U!TypeOK'
  BY <1>1, IInvParts, UserTypeCall
<1>3. UserOthers(p) /\ this'[p] = [id |-> sem.id, size |-> 1] /\ pc'[p] = "idle"
  BY <1>1, IInvParts DEF U!attach, U!Return, UserOthers, U!TypeOK
<1>4. UNCHANGED <<sem, made, adj, held>>
  BY <1>1 DEF U!attach
<1>5. CmdOthers(p) /\ at'[p] = (IF cmd[p] = "delete" THEN "rmsem" ELSE "shm") /\ cmd' = cmd
  BY <1>1, IInvParts DEF go, CmdOthers, CmdType
<1>6. MemType' /\ CmdType'
  BY <1>1, IInvParts DEF go, CmdType, MemType, memVars, Places
<1>7. Where(p)'
  BY <1>1, <1>3, <1>5, IInvParts DEF PlaceInv, Where
<1>8. unrevoked => Safe(p)'
  <2>1. unrevoked => Safe(p)
    BY IInvParts DEF HeldInv
  <2> QED
    BY <1>1, <1>3, <1>4, <1>5, <2>1 DEF Safe
<1>9. UNCHANGED <<segs, guards, faults>>
  BY <1>1 DEF memVars
<1> QED
  BY <1>2, <1>3, <1>4, <1>5, <1>6, <1>7, <1>8, <1>9, Calls

LEMMA StepAct ==
  ASSUME IInv, NEW p \in Procs, act(p)
  PROVE  IInv'
<1>1. at[p] = "act" /\ pc[p] = "idle" /\ UNCHANGED memVars /\ UNCHANGED <<ctime, now, faults>>
  BY Idle DEF act
<1>2. UNCHANGED <<segs, guards, faults>>
  BY <1>1 DEF memVars
<1>3. unrevoked => Safe(p)
  BY IInvParts DEF HeldInv
<1>4. ASSUME NEW t \in Int, cmd[p] = "on", U!lock(p, t), go(p, "wait"), UNCHANGED <<obj, cmd, arg>>
      PROVE  IInv'
  <2>1. U!TypeOK'
    BY <1>4, IInvParts, UserTypeCall
  <2>2. UserOthers(p) /\ (pc'[p] = "idle" \/ (pc'[p] = "semop" /\ U!live(p)))
    BY <1>4, IInvParts DEF U!lock, U!EnterSemop, U!Return, UserOthers, U!TypeOK
  <2>3. UNCHANGED <<sem, made, adj, held, this>> /\ this[p] # U!NULL
    BY <1>4 DEF U!lock
  <2>4. this[p].id # 0
    BY <2>3, HasObject
  <2>5. CmdOthers(p) /\ at'[p] = "wait" /\ cmd' = cmd /\ obj' = obj
    BY <1>4, IInvParts DEF go, CmdOthers, CmdType
  <2>6. MemType' /\ CmdType'
    BY <1>1, <1>4, IInvParts DEF go, CmdType, MemType, memVars, Places
  <2>7. Where(p)'
    BY <1>4, <2>2, <2>3, <2>4, <2>5 DEF Where
  <2>8. unrevoked => Safe(p)'
    BY <1>1, <1>3, <1>4, <2>2, <2>3, <2>5 DEF Safe, U!live
  <2> QED
    BY <1>2, <2>1, <2>2, <2>3, <2>4, <2>5, <2>6, <2>7, <2>8, Calls
<1>5. CASE /\ U!delete(p, FALSE) /\ cmd' = [cmd EXCEPT ![p] = "delete"]
           /\ go(p, "attach") /\ UNCHANGED <<obj, arg>>
  <2>1. U!TypeOK'
    BY <1>5, IInvParts, UserTypeCall
  <2>2. UserOthers(p) /\ this'[p] = U!NULL /\ pc' = pc
    BY <1>5, IInvParts DEF U!delete, UserOthers, U!TypeOK
  <2>3. UNCHANGED <<sem, made, adj, held>>
    BY <1>5 DEF U!delete
  <2>4. CmdOthers(p) /\ at'[p] = "attach" /\ cmd'[p] = "delete"
    BY <1>5, IInvParts DEF go, CmdOthers, CmdType
  <2>5. MemType' /\ CmdType'
    BY <1>1, <1>5, IInvParts DEF go, CmdType, MemType, memVars, Places, Commands
  <2>6. Where(p)'
    BY <1>1, <2>2, <2>4 DEF Where
  <2>7. unrevoked => Safe(p)'
    BY <1>1, <1>3, <2>2, <2>3, <2>4 DEF Safe
  <2>8. this'[p].id = 0
    BY <2>2 DEF U!NULL
  <2> QED
    BY <1>1, <1>2, <2>1, <2>2, <2>3, <2>4, <2>5, <2>6, <2>7, <2>8, Calls
<1>6. CASE cmd[p] = "off" /\ U!unlock(p) /\ go(p, "wait") /\ UNCHANGED <<obj, cmd, arg>>
  <2>1. U!TypeOK'
    BY <1>6, IInvParts, UserTypeCall
  <2>2. UserOthers(p) /\ (pc'[p] = "post" \/ (pc'[p] = "idle" /\ ret'[p] = -1))
    BY <1>6, IInvParts DEF U!unlock, U!Return, UserOthers, U!TypeOK
  <2>3. UNCHANGED <<sem, made, adj, held, this>> /\ this[p] # U!NULL
    BY <1>6 DEF U!unlock
  <2>4. this[p].id # 0
    BY <2>3, HasObject
  <2>5. CmdOthers(p) /\ at'[p] = "wait" /\ cmd' = cmd /\ obj' = obj
    BY <1>6, IInvParts DEF go, CmdOthers, CmdType
  <2>6. MemType' /\ CmdType'
    BY <1>1, <1>6, IInvParts DEF go, CmdType, MemType, memVars, Places
  <2>7. Where(p)'
    BY <1>6, <2>2, <2>3, <2>4, <2>5 DEF Where
  <2>8. unrevoked => Safe(p)'
    BY <1>1, <1>3, <1>6, <2>2, <2>3, <2>5 DEF Safe
  <2> QED
    BY <1>2, <2>1, <2>2, <2>3, <2>4, <2>5, <2>6, <2>7, <2>8, Calls
<1>7. CASE ExitFree(p)
  <2>1. MemType'
    BY <1>1, <1>7, ExitObj, IInvParts DEF memVars, MemType, ExitFree
  <2> QED
    BY <1>1, <1>2, <1>7, <2>1, Exits
<1>8. /\ arg[p].timeout \in Int /\ arg[p].delta \in Int
      /\ min(arg[p].delta, arg[p].timeout) \in Int
  BY IInvParts DEF CmdType, min
<1> QED
  BY <1>4, <1>5, <1>6, <1>7, <1>8 DEF act

\* The command returns what the method returned.
LEMMA StepFinish ==
  ASSUME IInv, NEW p \in Procs, finish(p)
  PROVE  IInv'
<1>1. at[p] = "wait" /\ pc[p] = "idle" /\ Exit(p) /\ UNCHANGED memVars /\ UNCHANGED <<ctime, now, faults>>
  BY DEF finish
<1>2. CASE unrevoked
  <2>1. Safe(p) /\ held \in [Procs -> Nat]
    BY <1>2, IInvParts DEF HeldInv, U!TypeOK
  <2>2. held' = held
    BY <1>1, <2>1 DEF Safe, finish
  <2>3. ExitFree(p) /\ UNCHANGED <<segs, guards, faults>>
    BY <1>1, <2>2 DEF finish, ExitFree, memVars
  <2>4. MemType'
    BY <1>1, ExitObj, IInvParts DEF memVars, MemType
  <2> QED
    BY <1>1, <2>3, <2>4, Exits
<1>3. CASE ~unrevoked
  <2>1. held' = held \/ held' = [held EXCEPT ![p] = 0]
    BY DEF finish
  <2>2. U!TypeOK'
    <3>1. held' \in [Procs -> Nat] /\ ret' \in [Procs -> Int]
      BY <2>1, IInvParts DEF finish, U!TypeOK
    <3>2. this' \in [Procs -> [id : Nat, size : Nat]]
      BY IInvParts DEF finish, U!TypeOK, U!NULL
    <3> QED
      BY <3>1, <3>2, IInvParts DEF finish, U!TypeOK, U!Steps, U!Uninitialised
  <2>3. UserOthers(p) /\ this'[p] = U!NULL /\ pc' = pc
    BY <2>1, IInvParts DEF finish, UserOthers, U!TypeOK
  <2>4. CmdOthers(p) /\ at'[p] = "idle" /\ cmd'[p] = "none"
    BY <1>1, IInvParts DEF Exit, go, CmdOthers, CmdType, MemType
  <2>5. MemType'
    BY <1>1, ExitObj, IInvParts DEF memVars, MemType
  <2>6. CmdType'
    BY <1>1, IInvParts DEF CmdType, Exit, go, Commands, Places, NoArg
  <2>7. this'[p].id = 0 /\ made \in Nat /\ sem.val >= 0 /\ sem.val <= SEMVMX
    BY <2>3, IInvParts DEF U!NULL, U!TypeOK, ValueInv
  <2>8. UNCHANGED <<sem, made, adj, segs, guards, faults>>
    BY <1>1 DEF finish, memVars
  <2>9. UserInv'
    BY <1>1, <2>2, <2>3, <2>7, <2>8, IInvParts, UserMoves
  <2>10. Where(p)'
    BY <1>1, <2>3, <2>4 DEF Where
  <2>11. ~unrevoked'
    BY <1>3, <2>8 DEF unrevoked
  <2>12. CountInv'
    BY <2>11 DEF CountInv, LockExcludes, unrevoked
  <2>13. Others(p)
    BY <2>3, <2>4, AllOthers
  <2>14. BoundInv'
    BY <2>4, <2>7, <2>8, <2>13, IInvParts, BoundFrame
  <2> QED
    BY <2>5, <2>6, <2>8, <2>9, <2>10, <2>11, <2>12, <2>13, <2>14, Combine
<1> QED
  BY <1>2, <1>3

-----------------------------------------------------------------------------
(* Steps that make or remove the set.                                      *)

LEMMA CreateArg ==
  ASSUME NEW n \in Nat, NEW x \in Nat
  PROVE  [NoArg EXCEPT !.size = n, !.expire = x] \in
           [size : Nat, expire : Nat, timeout : Int, expiry : BOOLEAN, delta : Int]
<1>1. NoArg \in [size : Nat, expire : Nat, timeout : Int, expiry : BOOLEAN, delta : Int]
  BY DEF NoArg
<1> QED
  BY <1>1

\* create makes the set, so there was none: nobody can think to hold a unit
\* of it.
LEMMA CreateMakes ==
  ASSUME IInv, NEW p \in Procs, NEW n \in Sizes, NEW x \in Expires, create(p, n, x), made' # made
  PROVE  IInv'
<1>1. /\ cmd[p] = "none" /\ cmd' = [cmd EXCEPT ![p] = "create"] /\ go(p, "new")
      /\ UNCHANGED memVars /\ UNCHANGED <<obj, now, faults>>
  BY DEF create, Start
<1>2. /\ sem.id = 0 /\ made < MaxSets /\ made' = made + 1
      /\ sem' = [id |-> made + 1, val |-> 0, size |-> U!Uninitialised]
      /\ this' = [this EXCEPT ![p] = [id |-> made + 1, size |-> n]]
      /\ pc' = [pc EXCEPT ![p] = "setall"]
      /\ UNCHANGED <<left, ret, adj, held>>
  BY DEF create, U!new
<1>3. n \in Nat /\ x \in Nat /\ MaxSets \in Nat /\ SEMVMX \in Nat
  BY LockAssumption
<1>4. U!TypeOK'
  BY <1>3, IInvParts, UserTypeCall DEF create
<1>5. UserOthers(p) /\ this'[p] = [id |-> made + 1, size |-> n] /\ pc'[p] = "setall"
  BY <1>2, IInvParts DEF UserOthers, U!TypeOK
<1>6. CmdOthers(p) /\ at'[p] = "new" /\ cmd'[p] = "create"
  BY <1>1, IInvParts DEF go, CmdOthers, CmdType
<1>7. Others(p)
  BY <1>5, <1>6, AllOthers
<1>8. made \in Nat /\ sem'.id = made + 1 /\ sem'.val = 0 /\ sem'.size = U!Uninitialised
  BY <1>2, IInvParts DEF U!TypeOK
<1>9. \A q \in Procs : this[q].id <= made /\ this[q].id \in Nat
  BY IInvParts DEF IdsInv, U!TypeOK
<1>10. IdsInv'
  <2>1. sem'.id \in {0, made'} /\ sem'.id # 0
    BY <1>2, <1>8
  <2>2. ASSUME NEW q \in Procs PROVE this'[q].id <= made' /\ (this'[q].id = 0 => this'[q] = U!NULL)
    <3>1. CASE q = p
      BY <1>2, <1>5, <1>8, <3>1
    <3>2. CASE q # p
      BY <1>2, <1>5, <1>8, <1>9, <3>2, IInvParts DEF UserOthers, IdsInv
    <3> QED
      BY <3>1, <3>2
  <2> QED
    BY <2>1, <2>2, Rigid DEF IdsInv
<1>11. CreatorInv'
  <2>1. ~U!initialised'
    BY <1>8 DEF U!initialised, U!Uninitialised
  <2>2. \A q \in Procs : q # p => this'[q].id # made + 1 /\ this'[q].id = this[q].id /\ pc'[q] = pc[q]
    BY <1>5, <1>8, <1>9 DEF UserOthers
  <2> QED
    BY <1>5, <2>1, <2>2, IInvParts DEF CreatorInv
<1>12. ValueInv'
  BY <1>2, <1>3, <1>8, IInvParts DEF ValueInv
<1>13. PlaceInv'
  <2>1. Where(p)'
    BY <1>5, <1>6, <1>8 DEF Where
  <2> QED
    BY <1>7, <2>1, IInvParts, PlaceFrame
<1>14. unrevoked => \A q \in Procs : held[q] = 0 /\ pc[q] # "semop" /\ Safe(q)
  BY <1>2, IInvParts DEF HeldInv, Safe, PlaceInv, Where
<1>15. HeldInv'
  <2> SUFFICES ASSUME unrevoked', NEW q \in Procs PROVE Safe(q)'
    BY DEF HeldInv
  <2>1. held'[q] = 0 /\ held[q] = 0 /\ pc[q] # "semop" /\ Safe(q)
    BY <1>1, <1>2, <1>14 DEF unrevoked
  <2>2. CASE q = p
    BY <1>5, <1>6, <2>1, <2>2 DEF Safe
  <2>3. CASE q # p
    BY <1>7, <2>1, <2>3 DEF Safe, Others
  <2> QED
    BY <2>2, <2>3
<1>16. CountInv'
  <2>1. ~U!initialised'
    BY <1>8 DEF U!initialised, U!Uninitialised
  <2>2. unrevoked' => U!Owners' = {}
    BY <1>1, <1>2, <1>14 DEF U!Owners, unrevoked
  <2> QED
    BY <1>8, <2>1, <2>2 DEF CountInv, LockExcludes, U!MutualExclusion, unrevoked
<1>17. BoundInv'
  <2>1. p \notin MakesSegment /\ p \notin MakesGuard
    BY <1>1, IInvParts DEF PlaceInv, Where, MakesSegment, MakesGuard
  <2>2. MakesSegment' \subseteq MakesSegment \cup {p} /\ MakesGuard' \subseteq MakesGuard \cup {p}
    BY <1>7 DEF MakesSegment, MakesGuard, Others
  <2>3. /\ Cardinality(MakesSegment \cup {p}) = Cardinality(MakesSegment) + 1
        /\ Cardinality(MakesGuard \cup {p}) = Cardinality(MakesGuard) + 1
        /\ IsFiniteSet(MakesSegment \cup {p}) /\ IsFiniteSet(MakesGuard \cup {p})
    BY <2>1, MakersFinite, CardAdd, FS_AddElement
  <2>4. /\ Cardinality(MakesSegment') \in Nat /\ Cardinality(MakesGuard') \in Nat
        /\ Cardinality(MakesSegment') <= Cardinality(MakesSegment) + 1
        /\ Cardinality(MakesGuard') <= Cardinality(MakesGuard) + 1
    BY <2>2, <2>3, CardSub
  <2>5. segs' = segs /\ guards' = guards /\ segs \in Nat /\ guards \in Nat
    BY <1>1, IInvParts DEF memVars, MemType
  <2> QED
    BY <1>2, <1>3, <1>8, <2>4, <2>5, MakersFinite, IInvParts DEF BoundInv
<1>18. MemType'
  <2>1. ctime' = now \/ ctime' = ctime
    BY DEF create
  <2> QED
    BY <1>1, <2>1, IInvParts DEF MemType, memVars
<1>19. CmdType'
  <2>1. arg' = [arg EXCEPT ![p] = [NoArg EXCEPT !.size = n, !.expire = x]]
    BY DEF create, Start
  <2>2. arg' \in [Procs -> [size : Nat, expire : Nat, timeout : Int, expiry : BOOLEAN, delta : Int]]
    BY <1>3, <2>1, CreateArg, IInvParts DEF CmdType
  <2> QED
    BY <1>1, <2>2, IInvParts DEF CmdType, go, Commands, Places
<1>20. TypeOK'
  BY <1>4, <1>18, <1>19, TypePartsNext
<1> QED
  BY <1>10, <1>11, <1>12, <1>13, <1>15, <1>16, <1>17, <1>20 DEF IInv

\* create makes none: there is one already, or semget fails.
LEMMA CreateFails ==
  ASSUME IInv, NEW p \in Procs, NEW n \in Sizes, NEW x \in Expires, create(p, n, x), made' = made
  PROVE  IInv'
<1>1. /\ cmd[p] = "none" /\ cmd' = [cmd EXCEPT ![p] = "create"] /\ go(p, "new")
      /\ UNCHANGED memVars /\ UNCHANGED <<obj, now, faults>>
  BY DEF create, Start
<1>2. /\ this[p] = U!NULL /\ UNCHANGED <<sem, made, this, adj, held>>
      /\ U!Return(p, -1)
  BY IInvParts DEF create, U!new, U!TypeOK
<1>3. n \in Nat /\ x \in Nat
  BY LockAssumption
<1>4. U!TypeOK'
  BY <1>3, IInvParts, UserTypeCall DEF create
<1>5. UserOthers(p) /\ pc'[p] = "idle"
  BY <1>2, IInvParts DEF UserOthers, U!Return, U!TypeOK
<1>6. CmdOthers(p) /\ at'[p] = "new" /\ cmd'[p] = "create"
  BY <1>1, IInvParts DEF go, CmdOthers, CmdType
<1>7. MemType'
  <2>1. ctime' = now \/ ctime' = ctime
    BY DEF create
  <2> QED
    BY <1>1, <2>1, IInvParts DEF MemType, memVars
<1>8. CmdType'
  <2>1. arg' = [arg EXCEPT ![p] = [NoArg EXCEPT !.size = n, !.expire = x]]
    BY DEF create, Start
  <2>2. arg' \in [Procs -> [size : Nat, expire : Nat, timeout : Int, expiry : BOOLEAN, delta : Int]]
    BY <1>3, <2>1, CreateArg, IInvParts DEF CmdType
  <2> QED
    BY <1>1, <2>2, IInvParts DEF CmdType, go, Commands, Places
<1>9. Where(p)'
  BY <1>5, <1>6 DEF Where
<1>10. unrevoked => Safe(p)'
  BY <1>2, <1>5, <1>6, IInvParts DEF HeldInv, Safe
<1>11. this'[p].id = 0 /\ this'[p] = U!NULL
  BY <1>2 DEF U!NULL
<1>12. UNCHANGED <<segs, guards, faults>>
  BY <1>1 DEF memVars
<1> QED
  BY <1>2, <1>4, <1>5, <1>6, <1>7, <1>8, <1>9, <1>10, <1>11, <1>12, Calls

\* delete: the set goes.  Unless a unit of it was out this revokes nothing.
LEMMA StepRmsem ==
  ASSUME IInv, NEW p \in Procs, rmsem(p)
  PROVE  IInv'
<1>1. /\ at[p] = "rmsem" /\ U!delete(p, TRUE) /\ go(p, "shm")
      /\ UNCHANGED memVars /\ UNCHANGED <<obj, cmd, arg, ctime, now>>
  BY DEF rmsem
<1>2. pc[p] = "idle" /\ cmd[p] = "delete"
  BY <1>1, Idle, IInvParts DEF PlaceInv, Where
<1>3. U!TypeOK'
  BY <1>1, IInvParts, UserTypeCall
<1>4. UserOthers(p) /\ this'[p] = U!NULL /\ UNCHANGED <<pc, ret, held, made>>
  BY <1>1, IInvParts DEF U!delete, UserOthers, U!TypeOK
<1>5. CmdOthers(p) /\ at'[p] = "shm" /\ cmd' = cmd
  BY <1>1, IInvParts DEF go, CmdOthers, CmdType
<1>6. MemType' /\ CmdType'
  <2>1. faults' \subseteq {"revoked", "crashed"}
    BY IInvParts DEF MemType, rmsem
  <2> QED
    BY <1>1, <2>1, IInvParts DEF go, CmdType, MemType, memVars, Places
<1>7. Others(p)
  BY <1>4, <1>5, AllOthers
<1>8. Where(p)'
  BY <1>2, <1>4, <1>5 DEF Where
<1>9. this'[p].id = 0 /\ UNCHANGED <<segs, guards>>
  BY <1>1, <1>4 DEF U!NULL, memVars
<1>10. CASE ~U!live(p)
  <2>1. UNCHANGED <<sem, adj, faults>>
    BY <1>1, <1>10 DEF U!delete, rmsem
  <2>2. unrevoked => Safe(p)'
    BY <1>2, <1>4, <1>5, <2>1, IInvParts DEF HeldInv, Safe
  <2> QED
    BY <1>2, <1>3, <1>4, <1>5, <1>6, <1>8, <1>9, <2>1, <2>2, Calls
<1>11. CASE U!live(p)
  <2>1. sem' = U!NoSet /\ adj' = [q \in Procs |-> 0]
    BY <1>1, <1>11 DEF U!delete
  <2>2. sem'.id = 0 /\ sem'.val = 0 /\ ~U!initialised'
    BY <2>1 DEF U!NoSet, U!initialised, U!Uninitialised
  <2>3. IdsInv'
    <3>1. made \in Nat
      BY IInvParts DEF U!TypeOK
    <3> QED
      BY <1>4, <1>9, <2>1, <2>2, <3>1, Rigid, IInvParts DEF IdsInv, UserOthers
  <2>4. CreatorInv'
    BY <1>2, <1>4, <2>2, IInvParts DEF CreatorInv, U!live, UserOthers
  <2>5. ValueInv'
    BY <2>1, <2>2, LockAssumption DEF ValueInv
  <2>6. PlaceInv'
    BY <1>7, <1>8, IInvParts, PlaceFrame
  <2>7. unrevoked' => unrevoked /\ \A q \in Procs : q \notin U!Owners /\ pc[q] # "semop"
    BY <1>11 DEF rmsem, unrevoked
  <2>8. unrevoked' => \A q \in Procs : held[q] = 0 /\ pc[q] # "semop" /\ Safe(q)
    BY <2>7, IInvParts DEF HeldInv, Safe, U!Owners
  <2>9. HeldInv'
    <3> SUFFICES ASSUME unrevoked', NEW q \in Procs PROVE Safe(q)'
      BY DEF HeldInv
    <3>1. held'[q] = 0 /\ held[q] = 0 /\ pc[q] # "semop" /\ Safe(q)
      BY <1>4, <2>8
    <3>2. CASE q = p
      BY <1>2, <1>4, <1>5, <3>1, <3>2 DEF Safe
    <3>3. CASE q # p
      BY <1>7, <3>1, <3>3 DEF Safe, Others
    <3> QED
      BY <3>2, <3>3
  <2>10. CountInv'
    <3>1. U!Owners' = {}
      BY <2>2 DEF U!Owners
    <3> QED
      BY <2>2, <3>1 DEF CountInv, LockExcludes, U!MutualExclusion
  <2>11. BoundInv'
    BY <1>4, <1>5, <1>7, <1>9, IInvParts, BoundFrame DEF U!TypeOK
  <2>12. TypeOK'
    BY <1>3, <1>6, TypePartsNext
  <2> QED
    BY <2>3, <2>4, <2>5, <2>6, <2>9, <2>10, <2>11, <2>12 DEF IInv
<1> QED
  BY <1>10, <1>11

-----------------------------------------------------------------------------
(* Steps inside the methods of Semaphore.                                  *)

LEMMA RunFrame ==
  ASSUME IInv, NEW p \in Procs, run(p) \/ interrupted(p)
  PROVE  /\ U!TypeOK' /\ MemType' /\ CmdType' /\ CmdOthers(p)
         /\ UNCHANGED <<segs, guards, faults, at, cmd, obj>>
         /\ Where(p) /\ (unrevoked => Safe(p)) /\ pc[p] \in U!Steps
<1>1. U!TypeOK'
  BY IInvParts, UserTypeRun DEF run, interrupted
<1>2. UNCHANGED <<segs, guards, faults, at, cmd, obj, shmid, mem, guard, now, arg>>
  BY DEF run, interrupted, memVars, cmdVars
<1>3. ctime' = ctime \/ ctime' = now
  BY DEF run, interrupted
<1>4. MemType' /\ CmdType' /\ CmdOthers(p)
  <2>1. ctime' \in 0..now
    BY <1>3, IInvParts DEF MemType
  <2>2. MemType'
    BY <1>2, <2>1, IInvParts DEF MemType
  <2> QED
    BY <1>2, <2>2, IInvParts DEF CmdType, CmdOthers
<1> QED
  BY <1>1, <1>2, <1>4, IInvParts DEF PlaceInv, HeldInv, U!TypeOK

\* SETALL by the command that made the set: from here on units can be taken.
LEMMA RunSetall ==
  ASSUME IInv, NEW p \in Procs, run(p), U!setall(p)
  PROVE  IInv'
<1>1. /\ UNCHANGED <<made, held>> /\ pc' = [pc EXCEPT ![p] = "idle"] /\ pc[p] = "setall"
  BY DEF U!setall, U!Return
<1>2. at[p] = "new" /\ cmd[p] = "create" /\ this[p].id # 0
  BY <1>1, RunFrame DEF Where
<1>3. pc'[p] = "idle" /\ at'[p] = "new" /\ cmd'[p] = "create"
  BY <1>1, <1>2, RunFrame, IInvParts DEF U!TypeOK
<1>4. UserOthers(p)
  BY <1>1, IInvParts DEF U!setall, U!Return, UserOthers, U!TypeOK
<1>5. Others(p)
  BY <1>4, RunFrame, AllOthers
<1>6. Where(p)'
  BY <1>3 DEF Where
<1>7. CASE this' = [this EXCEPT ![p] = U!NULL] /\ UNCHANGED <<sem, adj>>
  <2>1. this'[p] = U!NULL /\ this'[p].id = 0
    BY <1>7, IInvParts DEF U!TypeOK, U!NULL
  <2>2. unrevoked => Safe(p)'
    BY <1>1, <1>3, <1>7, RunFrame DEF Safe
  <2> QED
    BY <1>1, <1>3, <1>4, <1>6, <1>7, <2>1, <2>2, RunFrame, Calls
<1>8. CASE /\ U!live(p) /\ this[p].size <= SEMVMX
           /\ sem' = [id |-> sem.id, val |-> this[p].size, size |-> this[p].size]
           /\ adj' = [q \in Procs |-> 0]
           /\ UNCHANGED this
  <2>1. this[p].size \in Nat /\ sem.id # 0 /\ this[p].id = sem.id
    BY <1>8, IInvParts DEF U!TypeOK, U!live
  <2>2. sem'.id = sem.id /\ sem'.val = this[p].size /\ sem'.size = this[p].size
    BY <1>8
  <2>3. IdsInv'
    BY <1>1, <1>8, <2>1, <2>2, Rigid, IInvParts DEF IdsInv
  <2>4. ~U!initialised
    BY <1>1, <1>8, IInvParts DEF CreatorInv
  <2>5. CreatorInv'
    <3> SUFFICES ASSUME NEW q \in Procs, pc'[q] = "setall"
                 PROVE  /\ ~U!live(q)'
                        /\ \A r \in Procs : pc'[r] = "setall" /\ this'[r].id = this'[q].id => r = q
      BY DEF CreatorInv
    <3>1. q # p /\ pc[q] = "setall"
      BY <1>3, <1>5 DEF Others
    <3>2. this[q].id # this[p].id
      BY <1>1, <3>1, IInvParts DEF CreatorInv
    <3>3. ~U!live(q)'
      BY <1>8, <2>1, <2>2, <3>2 DEF U!live
    <3>4. ASSUME NEW r \in Procs, pc'[r] = "setall", this'[r].id = this'[q].id PROVE r = q
      <4>1. pc[r] = "setall"
        BY <1>3, <1>5, <3>4 DEF Others
      <4> QED
        BY <1>8, <3>1, <3>4, <4>1, IInvParts DEF CreatorInv
    <3> QED
      BY <3>3, <3>4
  <2>6. ValueInv'
    BY <1>8, <2>1, <2>2, LockAssumption DEF ValueInv
  <2>7. unrevoked' => Safe(p)'
    BY <1>1, <1>2, <1>3, <2>2, RunFrame DEF Safe, unrevoked
  <2>8. U!initialised'
    BY <2>1, <2>2 DEF U!initialised, U!Uninitialised
  <2>9. unrevoked => U!Owners' = {}
    BY <1>1, <2>2, <2>4, IInvParts DEF CountInv, LockExcludes, U!MutualExclusion, U!Owners, unrevoked
  <2>10. unrevoked => Cardinality(U!Owners') = 0
    BY <2>9, FS_EmptySet
  <2>11. CountInv'
    <3>1. unrevoked => sem'.val + Cardinality(U!Owners') = sem'.size /\ sem'.val + Cardinality(U!Owners') <= sem'.size
      BY <2>1, <2>2, <2>10
    <3>2. unrevoked' = unrevoked /\ (faults' = {} => unrevoked)
      BY RunFrame DEF unrevoked
    <3> QED
      BY <2>8, <3>1, <3>2, SameCount DEF CountInv, LockExcludes, U!MutualExclusion, unrevoked
  <2>12. BoundInv'
    BY <1>1, <1>2, <1>3, <1>5, <1>8, RunFrame, IInvParts, BoundFrame DEF U!TypeOK
  <2>13. UserInv'
    BY <2>3, <2>5, <2>6, RunFrame DEF UserInv
  <2> QED
    BY <1>5, <1>6, <2>2, <2>7, <2>11, <2>12, <2>13, RunFrame, Combine
<1> QED
  BY <1>7, <1>8 DEF U!setall

\* A unit changes hands, or a wait ends without one.
LEMMA RunWait ==
  ASSUME IInv, NEW p \in Procs,
         \/ run(p) /\ (U!again(p) \/ U!wake(p))
         \/ interrupted(p)
  PROVE  IInv'
<1>1. UNCHANGED <<sem, made, adj, this, held>> /\ pc[p] \in {"semop", "sleep"}
  BY DEF U!again, U!wake, interrupted, U!interrupted
<1>2. pc'[p] \in {"idle", "sleep"} \/ (pc'[p] = "semop" /\ U!live(p))
  BY IInvParts DEF U!again, U!wake, interrupted, U!interrupted, U!Return, U!EnterSemop, U!TypeOK
<1>3. UserOthers(p)
  BY <1>1, IInvParts DEF U!again, U!wake, interrupted, U!interrupted, U!Return, U!EnterSemop, U!TypeOK,
       UserOthers
<1>4. at[p] = "wait" /\ cmd[p] = "on" /\ this[p].id # 0
  BY <1>1, RunFrame DEF Where
<1>5. at'[p] = "wait" /\ cmd'[p] = "on" /\ this'[p].id # 0 /\ this'[p] = this[p]
  BY <1>1, <1>4, RunFrame
<1>6. Where(p)'
  BY <1>2, <1>5, RunFrame DEF Where
<1>7. unrevoked => Safe(p)'
  BY <1>1, <1>2, <1>4, <1>5, RunFrame DEF Safe, U!live
<1> QED
  BY <1>1, <1>2, <1>3, <1>5, <1>6, <1>7, RunFrame, Calls

LEMMA Void ==
  ASSUME ~unrevoked, faults \subseteq faults'
  PROVE  ~unrevoked' /\ CountInv'
  BY DEF CountInv, LockExcludes, unrevoked

\* semop(-1): one unit less in the kernel, one script more that was told.
LEMMA RunAcquire ==
  ASSUME IInv, NEW p \in Procs, run(p), U!acquire(p)
  PROVE  IInv'
<1>1. /\ pc[p] = "semop" /\ U!live(p) /\ sem.val > 0 /\ UNCHANGED <<made, this, adj>>
      /\ sem' = [sem EXCEPT !.val = @ - 1]
      /\ held' = [held EXCEPT ![p] = this[p].id]
      /\ pc' = [pc EXCEPT ![p] = "idle"]
  BY DEF U!acquire, U!Return, U!Undo
<1>2. at[p] = "wait" /\ cmd[p] = "on" /\ this[p].id # 0 /\ at' = at /\ cmd' = cmd
  BY <1>1, RunFrame DEF Where
<1>3. pc'[p] = "idle" /\ held'[p] = sem.id /\ this'[p] = this[p] /\ sem.id # 0
  BY <1>1, IInvParts DEF U!TypeOK, U!live
<1>4. UserOthers(p)
  BY <1>1, IInvParts DEF U!acquire, U!Return, UserOthers, U!TypeOK
<1>5. Others(p)
  BY <1>4, RunFrame, AllOthers
<1>6. Where(p)'
  BY <1>2, <1>3, RunFrame DEF Where
<1>7. sem'.id = sem.id /\ sem'.val = sem.val - 1 /\ sem'.size = sem.size /\ sem.val \in Int
  BY <1>1, IInvParts DEF U!TypeOK
<1>8. sem'.val >= 0 /\ sem'.val <= SEMVMX
  BY <1>1, <1>7, LockAssumption, IInvParts DEF ValueInv
<1>9. this'[p].id <= made /\ this'[p].id # 0
  BY <1>2, <1>3, IInvParts DEF IdsInv
<1>10. UserInv'
  BY <1>1, <1>3, <1>4, <1>7, <1>8, <1>9, RunFrame, IInvParts, UserMoves
<1>11. unrevoked' => Safe(p)'
  BY <1>2, <1>3, <1>7 DEF Safe
<1>12. BoundInv'
  BY <1>1, <1>2, <1>5, RunFrame, IInvParts, BoundFrame DEF U!TypeOK
<1>13. CASE unrevoked
  <2>1. held[p] = 0
    BY <1>1, <1>2, <1>13, RunFrame DEF Safe
  <2>2. p \notin U!Owners
    BY <2>1 DEF U!Owners
  <2>3. U!Owners' = U!Owners \cup {p}
    BY <1>3, <1>5, <1>7 DEF U!Owners, Others
  <2>4. Cardinality(U!Owners') = Cardinality(U!Owners) + 1 /\ Cardinality(U!Owners) \in Nat
    BY <2>2, <2>3, OwnersFinite, CardAdd
  <2>5. U!initialised /\ U!initialised' /\ unrevoked' /\ faults' = faults
    BY <1>1, <1>7, <1>13, RunFrame, IInvParts DEF CountInv, U!initialised, U!Uninitialised, unrevoked
  <2>6. sem.val + Cardinality(U!Owners) <= sem.size /\ sem.size \in Int
    BY <1>13, <2>5, SameCount, IInvParts
       DEF CountInv, LockExcludes, U!MutualExclusion, unrevoked, U!TypeOK, U!Uninitialised
  <2>7. sem'.val + Cardinality(U!Owners') = sem.val + Cardinality(U!Owners)
    BY <1>7, <2>4
  <2>8. U!MutualExclusion'
    BY <1>7, <2>5, <2>6, <2>7, SameCount DEF U!MutualExclusion
  <2>9. faults' = {} => sem'.val + Cardinality(U!Owners') = sem'.size
    BY <1>7, <2>5, <2>7, IInvParts DEF CountInv, LockExcludes
  <2>10. CountInv'
    BY <2>5, <2>8, <2>9 DEF CountInv, LockExcludes
  <2> QED
    BY <1>5, <1>6, <1>7, <1>10, <1>11, <1>12, <2>10, RunFrame, Combine
<1>14. CASE ~unrevoked
  BY <1>5, <1>6, <1>7, <1>10, <1>11, <1>12, <1>14, RunFrame, Void, Combine
<1> QED
  BY <1>13, <1>14

\* EIDRM: only once a set was removed under somebody.
LEMMA RunRemoved ==
  ASSUME IInv, NEW p \in Procs, run(p), U!removed(p)
  PROVE  IInv'
<1>1. pc[p] = "semop" /\ ~U!live(p) /\ UNCHANGED <<sem, made, adj, this>> /\ pc' = [pc EXCEPT ![p] = "idle"]
  BY DEF U!removed, U!Return
<1>2. at[p] = "wait" /\ cmd[p] = "on" /\ this[p].id # 0 /\ at' = at /\ cmd' = cmd
  BY <1>1, RunFrame DEF Where
<1>3. ~unrevoked
  BY <1>1, <1>2, RunFrame DEF Safe, U!live
<1>4. UserOthers(p) /\ pc'[p] = "idle"
  BY <1>1, IInvParts DEF U!removed, U!Return, UserOthers, U!TypeOK
<1>5. Others(p)
  BY <1>4, RunFrame, AllOthers
<1>6. Where(p)'
  BY <1>1, <1>2, <1>4, RunFrame DEF Where
<1>7. UserInv'
  BY <1>1, <1>2, <1>4, RunFrame, IInvParts, UserMoves DEF IdsInv, ValueInv
<1>8. BoundInv'
  BY <1>1, <1>2, <1>5, RunFrame, IInvParts, BoundFrame DEF U!TypeOK
<1>9. ~unrevoked' /\ CountInv'
  BY <1>3, RunFrame, Void
<1> QED
  BY <1>1, <1>5, <1>6, <1>7, <1>8, <1>9, RunFrame, Combine

\* semop(+1): the unit goes back where it came from.
LEMMA RunPost ==
  ASSUME IInv, NEW p \in Procs, run(p), U!post(p)
  PROVE  IInv'
<1>1. pc[p] = "post" /\ UNCHANGED <<made, this, adj>> /\ pc' = [pc EXCEPT ![p] = "idle"]
  BY DEF U!post, U!Return, U!Undo
<1>2. at[p] = "wait" /\ cmd[p] = "off" /\ this[p].id # 0 /\ at' = at /\ cmd' = cmd
  BY <1>1, RunFrame DEF Where
<1>3. pc'[p] = "idle" /\ this'[p] = this[p]
  BY <1>1, IInvParts DEF U!TypeOK
<1>4. UserOthers(p)
  BY <1>1, IInvParts DEF U!post, U!Return, UserOthers, U!TypeOK
<1>5. Others(p)
  BY <1>4, RunFrame, AllOthers
<1>6. Where(p)'
  BY <1>2, <1>3, RunFrame DEF Where
<1>7. unrevoked => held[p] = this[p].id
  BY <1>1, <1>2, RunFrame DEF Safe
<1>8. CASE ret' = [ret EXCEPT ![p] = -1] /\ UNCHANGED <<sem, held>>
  <2>1. ret'[p] = -1
    BY <1>8, IInvParts DEF U!TypeOK
  <2>2. unrevoked => Safe(p)'
    BY <1>2, <1>3, <1>8, <2>1, RunFrame DEF Safe
  <2> QED
    BY <1>1, <1>2, <1>3, <1>4, <1>6, <1>8, <2>2, RunFrame, Calls
<1>9. CASE /\ U!live(p) /\ sem.val < SEMVMX
           /\ sem' = [sem EXCEPT !.val = @ + 1]
           /\ held' = [held EXCEPT ![p] = IF @ = this[p].id THEN 0 ELSE @]
  <2>1. sem'.id = sem.id /\ sem'.val = sem.val + 1 /\ sem'.size = sem.size /\ sem.val \in Int
    BY <1>9, IInvParts DEF U!TypeOK
  <2>2. sem.id # 0 /\ sem.id = this[p].id
    BY <1>9 DEF U!live
  <2>3. sem'.val >= 0 /\ sem'.val <= SEMVMX
    BY <1>9, <2>1, LockAssumption, IInvParts DEF ValueInv
  <2>4. UserInv'
    BY <1>1, <1>2, <1>3, <1>4, <2>1, <2>2, <2>3, RunFrame, IInvParts, UserMoves DEF IdsInv
  <2>5. BoundInv'
    BY <1>1, <1>2, <1>5, RunFrame, IInvParts, BoundFrame DEF U!TypeOK
  <2>6. CASE unrevoked
    <3>1. held'[p] = 0 /\ held[p] = sem.id
      BY <1>7, <1>9, <2>2, <2>6, IInvParts DEF U!TypeOK
    <3>2. unrevoked' => Safe(p)'
      BY <1>2, <1>3, <3>1 DEF Safe
    <3>3. p \in U!Owners
      BY <2>2, <3>1 DEF U!Owners
    <3>4. U!Owners' = U!Owners \ {p}
      BY <1>5, <2>1, <3>1 DEF U!Owners, Others
    <3>5. Cardinality(U!Owners') = Cardinality(U!Owners) - 1 /\ Cardinality(U!Owners) \in Nat
      BY <3>3, <3>4, OwnersFinite, CardRemove
    <3>6. U!MutualExclusion
      BY <2>6, IInvParts DEF CountInv, LockExcludes, unrevoked
    <3>7. U!initialised /\ U!initialised' /\ faults' = faults
      BY <2>1, <3>3, <3>6, RunFrame DEF U!MutualExclusion, U!initialised, U!Uninitialised
    <3>8. sem.val + Cardinality(U!Owners) <= sem.size
      BY <3>6, <3>7, SameCount DEF U!MutualExclusion
    <3>9. sem'.val + Cardinality(U!Owners') = sem.val + Cardinality(U!Owners)
      BY <2>1, <3>5
    <3>10. U!MutualExclusion'
      BY <2>1, <3>7, <3>8, <3>9, SameCount DEF U!MutualExclusion
    <3>11. faults' = {} => sem'.val + Cardinality(U!Owners') = sem'.size
      BY <2>1, <3>7, <3>9, IInvParts DEF CountInv, LockExcludes
    <3>12. CountInv'
      BY <3>7, <3>10, <3>11 DEF CountInv, LockExcludes
    <3> QED
      BY <1>5, <1>6, <2>1, <2>4, <2>5, <3>2, <3>12, RunFrame, Combine
  <2>7. CASE ~unrevoked
    BY <1>5, <1>6, <2>1, <2>4, <2>5, <2>7, RunFrame, Void, Combine
  <2> QED
    BY <2>6, <2>7
<1> QED
  BY <1>8, <1>9 DEF U!post, U!Return

LEMMA StepRun ==
  ASSUME IInv, NEW p \in Procs, run(p) \/ interrupted(p)
  PROVE  IInv'
<1>1. CASE run(p) /\ U!reattach(p)
  BY <1>1, RunFrame DEF U!reattach, Where
<1> QED
  BY <1>1, RunSetall, RunWait, RunAcquire, RunRemoved, RunPost DEF run, U!Run

-----------------------------------------------------------------------------
(* The end of a command, and the clock.                                    *)

\* A command dies: without SEM_UNDO its unit is lost, never handed out twice.
LEMMA StepDie ==
  ASSUME IInv, NEW p \in Procs, die(p)
  PROVE  IInv'
<1>1. Exit(p) /\ faults' = faults \cup {"crashed"} /\ UNCHANGED memVars /\ UNCHANGED <<ctime, now>>
  BY DEF die
<1>2. CmdOthers(p) /\ at'[p] = "idle" /\ cmd'[p] = "none"
  BY <1>1, IInvParts DEF Exit, go, CmdOthers, CmdType, MemType
<1>3. MemType' /\ CmdType'
  <2>1. obj' \in [Procs -> [seg : 0..segs', guard : 0..guards']]
    BY <1>1, ExitObj, IInvParts DEF memVars
  <2>2. faults' \subseteq {"revoked", "crashed"}
    BY <1>1, IInvParts DEF MemType
  <2>3. MemType'
    BY <1>1, <2>1, <2>2, IInvParts DEF memVars, MemType
  <2>4. CmdType'
    BY <1>1, IInvParts DEF CmdType, Exit, go, Commands, Places, NoArg
  <2> QED
    BY <2>3, <2>4
<1>4. (unrevoked' => unrevoked) /\ faults \subseteq faults' /\ faults' # {} /\ UNCHANGED <<segs, guards>>
  BY <1>1 DEF unrevoked, memVars
<1>5. CASE U!exit(p)
  <2>1. U!TypeOK'
    BY <1>5, IInvParts, UserTypeRun
  <2>2. sem' = sem
    <3>1. adj[p] = 0 /\ sem.val \in Int /\ sem.val >= 0 /\ sem.val <= SEMVMX /\ SEMVMX \in Nat
      BY LockAssumption, IInvParts DEF ValueInv, U!TypeOK
    <3>2. sem' = [sem EXCEPT !.val = sem.val]
      BY <1>5, <3>1 DEF U!exit, U!settle
    <3> QED
      BY <3>2, IInvParts DEF U!TypeOK
  <2>3. adj' = adj
    BY <1>5, IInvParts DEF U!exit, ValueInv, U!TypeOK
  <2>4. UserOthers(p) /\ this'[p] = U!NULL /\ pc'[p] = "idle" /\ held'[p] = 0 /\ made' = made
    BY <1>5, IInvParts DEF U!exit, U!Return, UserOthers, U!TypeOK
  <2>5. this'[p].id = 0 /\ made \in Nat /\ sem.val >= 0 /\ sem.val <= SEMVMX
    BY <2>4, IInvParts DEF U!NULL, U!TypeOK, ValueInv
  <2>6. UserInv'
    BY <2>1, <2>2, <2>3, <2>4, <2>5, IInvParts, UserMoves
  <2>7. Others(p)
    BY <1>2, <2>4, AllOthers
  <2>8. Where(p)'
    BY <1>2, <2>4 DEF Where
  <2>9. unrevoked' => Safe(p)'
    BY <1>2, <2>4 DEF Safe
  <2>10. BoundInv'
    BY <1>2, <1>4, <2>4, <2>5, <2>7, IInvParts, BoundFrame
  <2>11. U!Owners' \subseteq U!Owners
    BY <2>2, <2>4, <2>7 DEF U!Owners, Others
  <2>12. /\ Cardinality(U!Owners') \in Nat /\ Cardinality(U!Owners) \in Nat
         /\ Cardinality(U!Owners') <= Cardinality(U!Owners)
    BY <2>11, OwnersFinite, CardSub
  <2>13. unrevoked' => U!MutualExclusion'
    <3> SUFFICES ASSUME unrevoked' PROVE U!MutualExclusion'
      OBVIOUS
    <3>1. U!MutualExclusion /\ sem.val \in Int /\ sem.size \in Int
      BY <1>4, IInvParts DEF CountInv, LockExcludes, unrevoked, U!TypeOK, U!Uninitialised
    <3>2. U!initialised' <=> U!initialised
      BY <2>2 DEF U!initialised, U!Uninitialised
    <3>3. ~U!initialised => U!Owners' = {}
      BY <2>11, <3>1 DEF U!MutualExclusion
    <3>4. U!initialised => sem.val + Cardinality(U!Owners) <= sem.size
      BY <3>1, SameCount DEF U!MutualExclusion
    <3>5. U!initialised => sem'.val + Cardinality(U!Owners') <= sem'.size
      BY <2>2, <2>12, <3>1, <3>4
    <3> QED
      BY <3>2, <3>3, <3>5, SameCount DEF U!MutualExclusion
  <2>14. CountInv'
    BY <1>4, <2>2, <2>13, IInvParts DEF CountInv, LockExcludes, unrevoked, U!initialised, U!Uninitialised
  <2> QED
    BY <1>3, <1>4, <2>2, <2>6, <2>7, <2>8, <2>9, <2>10, <2>14, Combine
<1>6. CASE this[p] = U!NULL /\ held[p] = 0 /\ UNCHANGED semVars
  <2>1. pc[p] = "idle" /\ this[p].id = 0
    BY <1>6, IInvParts DEF PlaceInv, Where, U!NULL
  <2>2. UserInv' /\ UserOthers(p)
    BY <1>6, <2>1, Quiet DEF semVars
  <2>3. Others(p)
    BY <1>2, <2>2, AllOthers
  <2>4. UNCHANGED <<sem, this, pc, held, made>>
    BY <1>6 DEF semVars
  <2>5. Where(p)'
    BY <1>2, <2>1, <2>4 DEF Where
  <2>6. unrevoked' => Safe(p)'
    BY <1>2, <1>6, <2>1, <2>4 DEF Safe
  <2>7. CountInv'
    BY <1>4, <2>4, IInvParts, CountFrame
  <2>8. BoundInv'
    BY <1>2, <1>4, <2>3, <2>4, IInvParts, BoundFrame DEF U!TypeOK
  <2> QED
    BY <1>3, <1>4, <2>2, <2>3, <2>4, <2>5, <2>6, <2>7, <2>8, Combine
<1> QED
  BY <1>5, <1>6 DEF die

\* Nothing but the clock moves, or nothing at all.
LEMMA StepStill ==
  ASSUME IInv, tick \/ UNCHANGED vars
  PROVE  IInv'
<1>1. UNCHANGED <<sem, made, adj, this, pc, left, ret, held>>
  BY DEF tick, vars, semVars
<1>2. UNCHANGED <<shmid, segs, mem, guard, guards, obj, cmd, at, arg, ctime, faults>>
  BY DEF tick, vars, memVars, cmdVars
<1>3. now' \in 0..MaxNow /\ now' >= now /\ now \in Nat
  BY LockAssumption, IInvParts DEF tick, vars, MemType
<1>4. ctime \in 0..now'
  BY <1>3, IInvParts DEF MemType
<1>5. MemType' /\ CmdType'
  BY <1>2, <1>3, <1>4, IInvParts DEF MemType, CmdType
<1>6. U!TypeOK'
  BY <1>1, IInvParts DEF U!TypeOK, U!Steps, U!Uninitialised
<1>7. IdsInv'
  BY <1>1, Rigid, IInvParts DEF IdsInv
<1>8. CreatorInv' /\ ValueInv'
  BY <1>1, IInvParts DEF CreatorInv, ValueInv, U!live, U!initialised, U!Uninitialised
<1>9. PlaceInv'
  BY <1>1, <1>2, IInvParts DEF PlaceInv, Where
<1>10. HeldInv'
  BY <1>1, <1>2, IInvParts DEF HeldInv, Safe, unrevoked
<1>11. CountInv'
  BY <1>1, <1>2, IInvParts, CountFrame
<1>12. BoundInv'
  BY <1>1, <1>2, IInvParts DEF BoundInv, MakesSegment, MakesGuard
<1>13. TypeOK'
  BY <1>5, <1>6, TypePartsNext
<1> QED
  BY <1>7, <1>8, <1>9, <1>10, <1>11, <1>12, <1>13 DEF IInv

-----------------------------------------------------------------------------
(* The theorems.                                                           *)

LEMMA InvInit == Init => IInv
<1> SUFFICES ASSUME Init PROVE IInv
  OBVIOUS
<1> USE LockAssumption
<1>1. U!TypeOK
  BY DEF Init, U!Init, U!TypeOK, U!NoSet, U!NULL, U!Steps, U!Uninitialised
<1>2. MemType
  BY DEF Init, MemType, Zero, NoGuard, NoObj
<1>3. CmdType
  BY DEF Init, CmdType, NoArg, Commands, Places
<1>4. sem = U!NoSet /\ sem.id = 0 /\ sem.val = 0 /\ ~U!initialised /\ made = 0
  BY DEF Init, U!Init, U!NoSet, U!initialised, U!Uninitialised
<1>5. \A p \in Procs : this[p] = U!NULL /\ this[p].id = 0 /\ pc[p] = "idle" /\ held[p] = 0 /\ adj[p] = 0
  BY DEF Init, U!Init, U!NULL
<1>6. \A p \in Procs : cmd[p] = "none" /\ at[p] = "idle"
  BY DEF Init
<1>7. IdsInv
  BY <1>4, <1>5 DEF IdsInv
<1>8. CreatorInv
  BY <1>5 DEF CreatorInv
<1>9. ValueInv
  BY <1>4, <1>5 DEF ValueInv
<1>10. PlaceInv
  BY <1>5, <1>6 DEF PlaceInv, Where
<1>11. HeldInv
  BY <1>5, <1>6 DEF HeldInv, Safe
<1>12. CountInv
  <2>1. U!Owners = {}
    BY <1>5 DEF U!Owners
  <2> QED
    BY <1>4, <2>1 DEF CountInv, LockExcludes, U!MutualExclusion
<1>13. BoundInv
  <2>1. MakesSegment = {} /\ MakesGuard = {}
    BY <1>6 DEF MakesSegment, MakesGuard
  <2>2. segs = 0 /\ guards = 0
    BY DEF Init
  <2> QED
    BY <1>4, <2>1, <2>2, FS_EmptySet DEF BoundInv
<1>14. TypeOK
  BY <1>1, <1>2, <1>3, TypeParts
<1> QED
  BY <1>7, <1>8, <1>9, <1>10, <1>11, <1>12, <1>13, <1>14 DEF IInv

LEMMA InvNext == IInv /\ [Next]_vars => IInv'
<1> SUFFICES ASSUME IInv, [Next]_vars PROVE IInv'
  OBVIOUS
<1>1. CASE tick \/ UNCHANGED vars
  BY <1>1, StepStill
<1>2. ASSUME NEW p \in Procs, Step(p) PROVE IInv'
  <2>1. CASE attach(p)
    BY <2>1, AttachSteps, StepAttach
  <2>2. CASE abort(p)
    BY <2>2, StepDie DEF abort
  <2>3. CASE shmget(p) \/ semget(p) \/ setall(p) \/ write_uint(p)
    BY <2>3, StepShmget, StepSemget, StepSetall, StepWriteUint
  <2>4. CASE run(p) \/ shm(p) \/ shsem(p) \/ read_uint(p) \/ act(p) \/ finish(p)
    BY <2>4, StepRun, AttachSteps, StepDie, StepReadUint, StepAct, StepFinish
  <2>5. CASE rmsem(p) \/ rmguard(p) \/ memset(p) \/ rmid(p)
    BY <2>5, StepRmsem, DeleteSteps
  <2> QED
    BY <1>2, <2>1, <2>2, <2>3, <2>4, <2>5 DEF Step
<1>3. ASSUME NEW p \in Procs, Command(p) PROVE IInv'
  <2>1. CASE \E n \in Sizes, x \in Expires : create(p, n, x)
    BY <2>1, CreateMakes, CreateFails
  <2>2. CASE (\E t \in Timeouts : on(p, t)) \/ off(p) \/ status(p) \/ delete(p)
    BY <2>2, CommandStarts
  <2> QED
    BY <1>3, <2>1, <2>2 DEF Command
<1>4. ASSUME NEW p \in Procs, interrupted(p) \/ crash(p) PROVE IInv'
  BY <1>4, StepRun, StepDie DEF crash
<1> QED
  BY <1>1, <1>2, <1>3, <1>4 DEF Next

\* The inductive invariant holds in every reachable state: ids, creators and
\* places agree, and until a removal revokes a unit every script's belief is
\* about the set under the key.
THEOREM InvariantHolds == Spec => []IInv
<1> QED
  BY InvInit, InvNext, PTL DEF Spec

\* Type correctness of the lock command; the bound on sets bounds segments
\* and guards too, since create makes both only after a set of its own.
THEOREM TypeCorrect == Spec => []TypeOK
<1>1. IInv => TypeOK
  BY DEF IInv
<1> QED
  BY <1>1, InvariantHolds, PTL

\* lock on and lock off exclude each other: until a delete removes a set
\* under a script, never more scripts have the lock than it has units, and
\* until a command dies no unit is lost either, whatever the interleaving of
\* create, on, off, status and delete (Semaphore without SEM_UNDO).
THEOREM LockExcludesHolds == Spec => []LockExcludes
<1>1. IInv => LockExcludes
  BY DEF IInv, CountInv
<1> QED
  BY <1>1, InvariantHolds, PTL

=============================================================================
