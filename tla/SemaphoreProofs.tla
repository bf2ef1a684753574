--------------------------- MODULE SemaphoreProofs --------------------------
(***************************************************************************)
(* Proofs about Semaphore, for any number of processes, any sizes and any  *)
(* timeouts.                                                               *)
(***************************************************************************)
EXTENDS Semaphore, FiniteSetTheorems, TLAPS

-----------------------------------------------------------------------------
(* Type correctness needs no assumption about the callers.                 *)

LEMMA TypeInit == Init => TypeOK
  BY ConstantsAssumption DEF Init, TypeOK, NoSet, NULL, Uninitialised, Steps

LEMMA TypeRun == TypeOK => \A p \in Procs : Run(p) => TypeOK'
<1> SUFFICES ASSUME TypeOK, NEW p \in Procs, Run(p)
             PROVE  TypeOK'
  OBVIOUS
<1> USE ConstantsAssumption DEF TypeOK, Return, Steps, NULL, NoSet
<1>1. CASE setall(p)
  <2>1. this[p] \in [id : Nat, size : Nat] /\ this[p].size \in Nat
    OBVIOUS
  <2>2. sem' \in [id : Nat, val : Int, size : Nat \cup {Uninitialised}]
    BY <1>1, <2>1 DEF setall
  <2>3. this' \in [Procs -> [id : Nat, size : Nat]]
    BY <1>1 DEF setall
  <2>4. adj' \in [Procs -> Int]
    BY <1>1 DEF setall
  <2>5. /\ pc' \in [Procs -> Steps] /\ left' \in [Procs -> Int]
        /\ ret' \in [Procs -> Int]
    BY <1>1 DEF setall
  <2> QED
    BY <1>1, <2>2, <2>3, <2>4, <2>5 DEF setall
<1>2. CASE reattach(p)
  <2>1. this[p] \in [id : Nat, size : Nat]
    OBVIOUS
  <2>2. this' \in [Procs -> [id : Nat, size : Nat]]
    BY <1>2, <2>1 DEF reattach
  <2> QED
    BY <1>2, <2>2 DEF reattach
<1>3. CASE acquire(p)
  BY <1>3 DEF acquire, Undo
<1>4. CASE again(p)
  BY <1>4 DEF again
<1>5. CASE removed(p)
  BY <1>5 DEF removed
<1>6. CASE wake(p)
  BY <1>6 DEF wake, EnterSemop
<1>7. CASE post(p)
  <2>1. adj' \in [Procs -> Int] /\ held' \in [Procs -> Nat]
    BY <1>7 DEF post, Undo
  <2> QED
    BY <1>7, <2>1 DEF post
<1> QED
  BY <1>1, <1>2, <1>3, <1>4, <1>5, <1>6, <1>7 DEF Run

LEMMA TypeCall == TypeOK => \A p \in Procs : Call(p) => TypeOK'
<1> SUFFICES ASSUME TypeOK, NEW p \in Procs, Call(p)
             PROVE  TypeOK'
  OBVIOUS
<1> USE ConstantsAssumption DEF TypeOK, Return, Steps, NULL, NoSet, Uninitialised
<1>1. ASSUME NEW n \in Sizes, NEW a \in BOOLEAN, new(p, n, a)
      PROVE  TypeOK'
  <2>1. this[p] \in [id : Nat, size : Nat] /\ n \in Nat
    OBVIOUS
  <2>2. this' \in [Procs -> [id : Nat, size : Nat]]
    BY <1>1, <2>1 DEF new
  <2>3. /\ sem' \in [id : Nat, val : Int, size : Nat \cup {Uninitialised}]
        /\ made' \in Nat
    BY <1>1 DEF new
  <2>4. pc' \in [Procs -> Steps]
    BY <1>1 DEF new
  <2>5. left' \in [Procs -> Int]
    BY <1>1 DEF new
  <2>6. ret' \in [Procs -> Int]
    BY <1>1 DEF new
  <2> QED
    BY <1>1, <2>2, <2>3, <2>4, <2>5, <2>6 DEF new
<1>2. CASE attach(p)
  <2>1. this' = this \/ this' = [this EXCEPT ![p] = [id |-> sem.id, size |-> 1]]
    BY <1>2 DEF attach
  <2>2. this' \in [Procs -> [id : Nat, size : Nat]]
    BY <2>1
  <2> QED
    BY <1>2, <2>2 DEF attach
<1>3. ASSUME NEW n \in Sizes, set_size(p, n)
      PROVE  TypeOK'
  BY <1>3 DEF set_size
<1>4. ASSUME NEW r \in BOOLEAN, delete(p, r)
      PROVE  TypeOK'
  BY <1>4 DEF delete
<1>5. ASSUME NEW t \in Timeouts, lock(p, t)
      PROVE  TypeOK'
  BY <1>5 DEF lock, EnterSemop
<1>6. CASE unlock(p)
  BY <1>6 DEF unlock
<1> QED
  BY <1>1, <1>2, <1>3, <1>4, <1>5, <1>6 DEF Call

LEMMA TypeNext == TypeOK /\ [Next]_vars => TypeOK'
<1> SUFFICES ASSUME TypeOK, [Next]_vars
             PROVE  TypeOK'
  OBVIOUS
<1>1. ASSUME NEW p \in Procs, interrupted(p)
      PROVE  TypeOK'
  BY <1>1 DEF interrupted, TypeOK, Return, Steps
<1>2. ASSUME NEW p \in Procs, exit(p)
      PROVE  TypeOK'
  BY <1>2, ConstantsAssumption DEF exit, settle, TypeOK, Return, Steps, NULL
<1>3. CASE UNCHANGED vars
  BY <1>3 DEF vars, TypeOK
<1> QED
  BY <1>1, <1>2, <1>3, TypeRun, TypeCall DEF Next

\* Every reachable state is well typed, disciplined callers or not.
THEOREM TypeCorrect == Spec => []TypeOK
  BY TypeInit, TypeNext, PTL DEF Spec

-----------------------------------------------------------------------------
(* The owners of a set, as a finite set.                                   *)

LEMMA OwnersFinite ==
  IsFiniteSet(Owners) /\ Cardinality(Owners) \in Nat
  BY ConstantsAssumption, FS_Subset, FS_CardinalityType DEF Owners

LEMMA CardAdd ==
  ASSUME NEW S, IsFiniteSet(S), NEW x, x \notin S
  PROVE  Cardinality(S \cup {x}) = Cardinality(S) + 1
  BY FS_AddElement

LEMMA CardRemove ==
  ASSUME NEW S, IsFiniteSet(S), NEW x, x \in S
  PROVE  Cardinality(S \ {x}) = Cardinality(S) - 1
  BY FS_RemoveElement

\* A process that owns a unit leaves room for it in the value.
LEMMA OwnerLeavesRoom ==
  ASSUME IInv, NEW p \in Owners
  PROVE  /\ initialised
         /\ sem.size \in Nat
         /\ sem.val < sem.size
         /\ sem.size <= SEMVMX
<1>1. initialised
  BY DEF IInv, MutualExclusion
<1>2. Cardinality(Owners) \in Nat /\ Cardinality(Owners) # 0
  BY OwnersFinite, FS_EmptySet
<1>3. sem.size \in Nat /\ sem.val \in Int
  BY <1>1 DEF IInv, TypeOK, initialised
<1>4. sem.val + Cardinality(Owners) <= sem.size
  BY <1>1 DEF IInv, MutualExclusion
<1>5. sem.size <= SEMVMX
  BY <1>1 DEF IInv, ValueInv
<1>6. sem.val < sem.size
  BY <1>2, <1>3, <1>4
<1> QED
  BY <1>1, <1>3, <1>5, <1>6

-----------------------------------------------------------------------------
(* The inductive invariant.                                                *)

LEMMA IInvInit == Init => IInv
<1> SUFFICES ASSUME Init PROVE IInv
  OBVIOUS
<1>1. Owners = {}
  BY DEF Init, Owners
<1> QED
  BY <1>1, TypeInit
  DEF Init, IInv, IdsInv, CreatorInv, BracketInv, UndoInv, ValueInv,
      MutualExclusion, NoLostUnit, initialised, NoSet, NULL, Uninitialised

\* A step that leaves the set, the undo counts and the owners alone.
LEMMA PoolFrame ==
  ASSUME IInv, sem' = sem, adj' = adj, Owners' = Owners
  PROVE  UndoInv' /\ ValueInv' /\ MutualExclusion' /\ NoLostUnit'
  BY DEF IInv, UndoInv, ValueInv, MutualExclusion, NoLostUnit, initialised

\* p returns or moves on in a method, with the same object and belief.
LEMMA MoveStep ==
  ASSUME IInv, TypeOK', NEW p \in Procs, UNCHANGED <<sem, made, adj, this, held>>,
         pc' = [pc EXCEPT ![p] = pc'[p]], pc'[p] # "setall",
         pc'[p] \in {"semop", "sleep"} => this[p].id # 0 /\ held[p] # this[p].id,
         pc'[p] = "post" => held[p] = this[p].id
  PROVE  IInv'
<1>1. Owners' = Owners
  BY DEF Owners
<1>2. UndoInv' /\ ValueInv' /\ MutualExclusion' /\ NoLostUnit'
  BY <1>1, PoolFrame
<1>3. IdsInv'
  BY DEF IInv, IdsInv
<1>4. CreatorInv'
  BY DEF IInv, CreatorInv, TypeOK, live, initialised
<1>5. BracketInv'
  BY DEF IInv, BracketInv, TypeOK
<1> QED
  BY <1>2, <1>3, <1>4, <1>5 DEF IInv

\* p drops or changes its object while the set stays as it is.
LEMMA ObjectStep ==
  ASSUME IInv, TypeOK', NEW p \in Procs, UNCHANGED <<sem, made, adj, held>>,
         pc' = [pc EXCEPT ![p] = pc'[p]], pc'[p] \in {"idle", "reattach"},
         this' = [this EXCEPT ![p] = this'[p]],
         this'[p].id \in {0, sem.id, this[p].id}
  PROVE  IInv'
<1>1. Owners' = Owners
  BY DEF Owners
<1>2. UndoInv' /\ ValueInv' /\ MutualExclusion' /\ NoLostUnit'
  BY <1>1, PoolFrame
<1>3. IdsInv'
  BY DEF IInv, IdsInv, TypeOK
<1>4. CreatorInv'
  <2>1. \A q \in Procs : pc'[q] = "setall" => pc[q] = "setall" /\ this'[q] = this[q]
    BY DEF IInv, TypeOK
  <2> QED
    BY <2>1 DEF IInv, CreatorInv, live, initialised
<1>5. BracketInv'
  BY DEF IInv, BracketInv, TypeOK
<1> QED
  BY <1>2, <1>3, <1>4, <1>5 DEF IInv

LEMMA IInvMoves ==
  ASSUME Disciplined, IInv, TypeOK', NEW p \in Procs,
         \/ again(p) \/ interrupted(p) \/ wake(p) \/ unlock(p)
         \/ \E t \in Timeouts : lock(p, t)
  PROVE  IInv'
<1>1. CASE again(p)
  BY <1>1, MoveStep DEF again, Return, IInv, BracketInv, TypeOK
<1>2. CASE interrupted(p)
  BY <1>2, MoveStep DEF interrupted, Return, IInv, TypeOK
<1>3. CASE wake(p)
  BY <1>3, MoveStep DEF wake, EnterSemop, Return, IInv, BracketInv, TypeOK
<1>4. CASE unlock(p)
  BY <1>4, MoveStep DEF unlock, Return, IInv, TypeOK
<1>5. ASSUME NEW t \in Timeouts, lock(p, t)
      PROVE  IInv'
  BY <1>5, MoveStep DEF lock, EnterSemop, Return, live, IInv, TypeOK
<1> QED
  BY <1>1, <1>2, <1>3, <1>4, <1>5

LEMMA IInvRemoved ==
  ASSUME Disciplined, IInv, TypeOK', NEW p \in Procs, removed(p)
  PROVE  IInv'
<1>1. CASE held' = held
  BY <1>1, MoveStep DEF removed, Return, IInv, TypeOK
<1>2. CASE held' # held
  <2>1. /\ held' = [held EXCEPT ![p] = this[p].id]
        /\ pc' = [pc EXCEPT ![p] = "idle"]
        /\ UNCHANGED <<sem, made, adj, this>>
    BY <1>2 DEF removed, Return
  <2>2. this[p].id # 0 /\ this[p].id # sem.id
    BY DEF removed, live, IInv, BracketInv
  <2>3. p \notin Owners
    BY <2>2 DEF removed, live, Owners, IInv, IdsInv, TypeOK
  <2>4. Owners' = Owners
    BY <2>1, <2>2, <2>3 DEF Owners, IInv, TypeOK
  <2>5. UndoInv' /\ ValueInv' /\ MutualExclusion' /\ NoLostUnit'
    BY <2>1, <2>4, PoolFrame
  <2>6. IdsInv'
    BY <2>1, <2>2 DEF IInv, IdsInv, TypeOK
  <2>7. CreatorInv'
    BY <2>1 DEF IInv, CreatorInv, TypeOK, live, initialised
  <2>8. BracketInv'
    BY <2>1 DEF IInv, BracketInv, TypeOK
  <2> QED
    BY <2>5, <2>6, <2>7, <2>8 DEF IInv
<1> QED
  BY <1>1, <1>2

\* acquire takes one unit out of the value and makes p an owner.
LEMMA IInvAcquire ==
  ASSUME Disciplined, IInv, TypeOK', NEW p \in Procs, acquire(p)
  PROVE  IInv'
<1>1. /\ sem' = [sem EXCEPT !.val = @ - 1]
      /\ held' = [held EXCEPT ![p] = this[p].id]
      /\ pc' = [pc EXCEPT ![p] = "idle"]
      /\ UNCHANGED <<made, this>>
      /\ sem.val > 0 /\ this[p].id = sem.id /\ sem.id # 0
  BY DEF acquire, Return, live
<1>2. sem.id' = sem.id /\ sem.val' = sem.val - 1 /\ sem.size' = sem.size
  BY <1>1 DEF IInv, TypeOK
<1>3. p \notin Owners
  BY <1>1 DEF acquire, IInv, BracketInv, Owners
<1>4. Owners' = Owners \cup {p}
  BY <1>1, <1>2 DEF Owners, IInv, TypeOK
<1>5. Cardinality(Owners') = Cardinality(Owners) + 1
  BY <1>3, <1>4, OwnersFinite, CardAdd
<1>6. initialised /\ initialised'
  BY <1>1, <1>2 DEF IInv, ValueInv, initialised, TypeOK
<1>7. MutualExclusion' /\ NoLostUnit' /\ ValueInv'
  <2>1. sem.val \in Int /\ sem.size \in Nat /\ Cardinality(Owners) \in Nat
    BY <1>6, OwnersFinite DEF IInv, TypeOK, initialised
  <2>2. MutualExclusion'
    BY <2>1, <1>2, <1>5, <1>6 DEF IInv, MutualExclusion, initialised
  <2>3. NoLostUnit'
    BY <2>1, <1>2, <1>5, <1>6 DEF IInv, NoLostUnit, initialised
  <2>4. ValueInv'
    BY <2>1, <1>1, <1>2, <1>6 DEF IInv, ValueInv, initialised
  <2> QED
    BY <2>2, <2>3, <2>4
<1>8. UndoInv'
  BY <1>3, <1>4 DEF acquire, Undo, IInv, UndoInv, TypeOK
<1>9. IdsInv'
  BY <1>1, <1>2 DEF IInv, IdsInv, TypeOK
<1>10. CreatorInv'
  BY <1>1, <1>2 DEF IInv, CreatorInv, TypeOK, live, initialised
<1>11. BracketInv'
  BY <1>1 DEF IInv, BracketInv, TypeOK
<1> QED
  BY <1>7, <1>8, <1>9, <1>10, <1>11 DEF IInv

\* One unit of an owner goes back: by unlock, or by SEM_UNDO when it dies.
LEMMA GiveBack ==
  ASSUME IInv, NEW p \in Procs, p \in Owners, Owners' = Owners \ {p},
         sem.size' = sem.size, sem.val' \in {sem.val, sem.val + 1},
         ~Persist => sem.val' = sem.val + 1
  PROVE  MutualExclusion' /\ NoLostUnit' /\ ValueInv'
<1>1. /\ initialised /\ initialised'
      /\ sem.val \in Int /\ sem.size \in Nat /\ Cardinality(Owners) \in Nat
  BY OwnerLeavesRoom, OwnersFinite DEF IInv, TypeOK, initialised
<1>2. Cardinality(Owners') = Cardinality(Owners) - 1
  BY OwnersFinite, CardRemove
<1>3. MutualExclusion'
  BY <1>1, <1>2 DEF IInv, MutualExclusion, initialised
<1>4. NoLostUnit'
  BY <1>1, <1>2 DEF IInv, NoLostUnit, initialised
<1>5. ValueInv'
  BY <1>1 DEF IInv, ValueInv, initialised
<1> QED
  BY <1>3, <1>4, <1>5

LEMMA IInvPost ==
  ASSUME Disciplined, IInv, TypeOK', NEW p \in Procs, post(p)
  PROVE  IInv'
<1>1. CASE UNCHANGED <<sem, adj, held>>
  BY <1>1, MoveStep DEF post, Return, IInv, TypeOK
<1>2. CASE ~UNCHANGED <<sem, adj, held>>
  <2>1. /\ sem' = [sem EXCEPT !.val = @ + 1]
        /\ adj' = Undo(p, 1)
        /\ this[p].id = sem.id /\ sem.id # 0
        /\ pc' = [pc EXCEPT ![p] = "idle"]
        /\ UNCHANGED <<made, this>>
    BY <1>2 DEF post, Return, live
  <2>2. held[p] = sem.id /\ held' = [held EXCEPT ![p] = 0]
    BY <1>2, <2>1 DEF post, IInv, BracketInv
  <2>3. sem.id' = sem.id /\ sem.val' = sem.val + 1 /\ sem.size' = sem.size
    BY <2>1 DEF IInv, TypeOK
  <2>4. p \in Owners /\ Owners' = Owners \ {p}
    BY <2>1, <2>2, <2>3 DEF Owners, IInv, TypeOK
  <2>5. MutualExclusion' /\ NoLostUnit' /\ ValueInv'
    BY <2>3, <2>4, GiveBack
  <2>6. UndoInv'
    BY <2>1, <2>4 DEF Undo, IInv, UndoInv, TypeOK
  <2>7. IdsInv'
    BY <2>1, <2>2, <2>3 DEF IInv, IdsInv, TypeOK
  <2>8. CreatorInv'
    BY <2>1, <2>3 DEF IInv, CreatorInv, TypeOK, live, initialised
  <2>9. BracketInv'
    BY <2>1, <2>2 DEF IInv, BracketInv, TypeOK
  <2> QED
    BY <2>5, <2>6, <2>7, <2>8, <2>9 DEF IInv
<1> QED
  BY <1>1, <1>2

\* SETALL: the creator makes its set available, once.
LEMMA IInvSetall ==
  ASSUME Disciplined, IInv, TypeOK', NEW p \in Procs, setall(p)
  PROVE  IInv'
<1>1. CASE ~(live(p) /\ this[p].size <= SEMVMX)
  <2>1. UNCHANGED <<sem, made, adj, held>>
    BY <1>1 DEF setall
  <2>2. pc' = [pc EXCEPT ![p] = "idle"] /\ this' = [this EXCEPT ![p] = NULL]
    BY <1>1 DEF setall, Return
  <2> QED
    BY <2>1, <2>2, ObjectStep DEF NULL, IInv, TypeOK
<1>2. CASE live(p) /\ this[p].size <= SEMVMX
  <2> DEFINE n == this[p].size
  <2>1. /\ sem' = [id |-> sem.id, val |-> n, size |-> n]
        /\ adj' = [q \in Procs |-> 0]
        /\ pc' = [pc EXCEPT ![p] = "idle"]
        /\ UNCHANGED <<made, this, held>>
    BY <1>2, ConstantsAssumption DEF setall, Return, IInv, TypeOK
  <2>0. this[p].id = sem.id /\ sem.id # 0 /\ n <= SEMVMX
    BY <1>2 DEF live
  <2>2. ~initialised /\ Owners = {} /\ n \in Sizes /\ n \in Nat
    BY <1>2, ConstantsAssumption DEF setall, IInv, CreatorInv, MutualExclusion
  <2>3. Owners' = {} /\ Cardinality(Owners') = 0
    BY <2>1, <2>2, FS_EmptySet DEF Owners
  <2>4. MutualExclusion' /\ NoLostUnit' /\ ValueInv' /\ initialised'
    BY <2>1, <2>0, <2>2, <2>3
    DEF MutualExclusion, NoLostUnit, ValueInv, initialised, Uninitialised
  <2>5. UndoInv'
    BY <2>1, <2>3 DEF UndoInv
  <2>6. IdsInv'
    BY <2>1, <2>0 DEF IInv, IdsInv
  <2>7. CreatorInv'
    <3>1. \A q \in Procs : pc'[q] = "setall" => q # p /\ pc[q] = "setall"
      BY <2>1 DEF IInv, TypeOK
    <3>2. \A q \in Procs : pc'[q] = "setall" => this[q].id # sem.id
      BY <3>1, <2>0 DEF setall, IInv, CreatorInv
    <3> QED
      BY <3>1, <3>2, <2>1 DEF IInv, CreatorInv, live
  <2>8. BracketInv'
    BY <2>1 DEF IInv, BracketInv, TypeOK
  <2> QED
    BY <2>4, <2>5, <2>6, <2>7, <2>8 DEF IInv
<1> QED
  BY <1>1, <1>2

\* The steps that only give p another object, or none.
LEMMA IInvObjects ==
  ASSUME Disciplined, IInv, TypeOK', NEW p \in Procs,
         reattach(p) \/ attach(p) \/ \E n \in Sizes : set_size(p, n)
  PROVE  IInv'
<1> USE DEF IInv, TypeOK, Return, NULL
<1>1. CASE reattach(p)
  BY <1>1, ObjectStep DEF reattach
<1>2. CASE attach(p)
  BY <1>2, ObjectStep DEF attach
<1>3. ASSUME NEW n \in Sizes, set_size(p, n)
      PROVE  IInv'
  <2>1. this[p] \in [id : Nat, size : Nat] /\ pc[p] = "idle"
    BY <1>3 DEF set_size
  <2>2. /\ UNCHANGED <<sem, made, adj, held>>
        /\ pc' = [pc EXCEPT ![p] = pc'[p]] /\ pc'[p] = "idle"
        /\ this' = [this EXCEPT ![p] = this'[p]] /\ this'[p].id = this[p].id
    BY <1>3, <2>1 DEF set_size
  <2> QED
    BY <2>2, ObjectStep
<1> QED
  BY <1>1, <1>2, <1>3

LEMMA IInvNew ==
  ASSUME Disciplined, IInv, TypeOK', NEW p \in Procs,
         NEW n \in Sizes, NEW a \in BOOLEAN, new(p, n, a)
  PROVE  IInv'
<1>1. CASE UNCHANGED sem
  <2>1. UNCHANGED <<sem, made, adj, held>>
    BY <1>1 DEF new, IInv, TypeOK
  <2>2. /\ pc' = [pc EXCEPT ![p] = pc'[p]] /\ pc'[p] \in {"idle", "reattach"}
        /\ this' = [this EXCEPT ![p] = this'[p]] /\ this'[p].id = 0
    BY <1>1, <2>1 DEF new, Return, IInv, TypeOK, NULL
  <2> QED
    BY <2>1, <2>2, ObjectStep
<1>2. CASE ~UNCHANGED sem
  <2>1. /\ sem' = [id |-> made + 1, val |-> 0, size |-> Uninitialised]
        /\ made' = made + 1
        /\ this' = [this EXCEPT ![p] = [id |-> made + 1, size |-> n]]
        /\ pc' = [pc EXCEPT ![p] = "setall"]
        /\ UNCHANGED <<adj, held>>
        /\ sem.id = 0
    BY <1>2 DEF new
  <2>2. sem = NoSet /\ Owners = {} /\ ~initialised'
    BY <2>1 DEF IInv, IdsInv, Owners, initialised
  <2>3. Owners' = {}
    BY <2>1 DEF Owners, IInv, IdsInv, TypeOK
  <2>4. MutualExclusion' /\ NoLostUnit' /\ ValueInv'
    BY <2>1, <2>2, <2>3 DEF MutualExclusion, NoLostUnit, ValueInv
  <2>5. UndoInv'
    BY <2>1, <2>2, <2>3 DEF IInv, UndoInv
  <2>6. IdsInv'
    BY <2>1 DEF IInv, IdsInv, TypeOK
  <2>7. CreatorInv'
    <3>1. /\ this'[p].id = made + 1 /\ this'[p].size = n
          /\ \A q \in Procs \ {p} : /\ this'[q] = this[q] /\ pc'[q] = pc[q]
                                    /\ this[q].id # made + 1
      BY <2>1 DEF IInv, IdsInv, TypeOK
    <3> QED
      BY <3>1, <2>1, <2>2 DEF IInv, CreatorInv, live, initialised, TypeOK
  <2>8. BracketInv'
    BY <2>1 DEF IInv, BracketInv, TypeOK
  <2> QED
    BY <2>4, <2>5, <2>6, <2>7, <2>8 DEF IInv
<1> QED
  BY <1>1, <1>2

LEMMA IInvDelete ==
  ASSUME Disciplined, IInv, TypeOK', NEW p \in Procs,
         NEW r \in BOOLEAN, delete(p, r)
  PROVE  IInv'
<1>1. CASE ~(r /\ live(p))
  BY <1>1, ObjectStep DEF delete, IInv, TypeOK, NULL
<1>2. CASE r /\ live(p)
  <2>1. /\ sem' = NoSet
        /\ adj' = [q \in Procs |-> 0]
        /\ this' = [this EXCEPT ![p] = NULL]
        /\ UNCHANGED <<made, pc, held>>
        /\ pc[p] = "idle"
    BY <1>2 DEF delete
  <2>2. Owners' = {} /\ ~initialised'
    BY <2>1 DEF Owners, NoSet, initialised
  <2>3. MutualExclusion' /\ NoLostUnit' /\ ValueInv'
    BY <2>1, <2>2 DEF MutualExclusion, NoLostUnit, ValueInv, NoSet
  <2>4. UndoInv'
    BY <2>1, <2>2 DEF UndoInv
  <2>5. IdsInv'
    BY <2>1 DEF IInv, IdsInv, TypeOK, NULL, NoSet
  <2>6. CreatorInv'
    <3>1. \A q \in Procs : pc'[q] = "setall" => pc[q] = "setall" /\ this'[q] = this[q]
      BY <2>1 DEF IInv, TypeOK
    <3> QED
      BY <3>1, <2>2 DEF IInv, CreatorInv
  <2>7. BracketInv'
    BY <2>1 DEF IInv, BracketInv, TypeOK
  <2> QED
    BY <2>3, <2>4, <2>5, <2>6, <2>7 DEF IInv
<1> QED
  BY <1>1, <1>2

\* A process dies wherever it is; the kernel settles its undo count.
LEMMA IInvExit ==
  ASSUME Disciplined, IInv, TypeOK', NEW p \in Procs, exit(p)
  PROVE  IInv'
<1>1. /\ sem' = settle(p)
      /\ adj' = [adj EXCEPT ![p] = 0]
      /\ this' = [this EXCEPT ![p] = NULL]
      /\ pc' = [pc EXCEPT ![p] = "idle"]
      /\ held' = [held EXCEPT ![p] = 0]
      /\ made' = made
  BY DEF exit, Return
<1>2. /\ sem.val \in Int /\ sem.val >= 0
      /\ adj[p] = IF ~Persist /\ p \in Owners THEN 1 ELSE 0
  BY DEF IInv, TypeOK, ValueInv, UndoInv
<1>3. sem.val + adj[p] <= SEMVMX
  <2>1. CASE p \in Owners
    BY <2>1, <1>2, OwnerLeavesRoom, ConstantsAssumption
  <2>2. CASE p \notin Owners
    <3>1. CASE initialised
      <4>1. /\ sem.size \in Nat /\ sem.size <= SEMVMX
            /\ sem.val + Cardinality(Owners) <= sem.size
        BY <3>1 DEF IInv, TypeOK, ValueInv, MutualExclusion, initialised
      <4> QED
        BY <4>1, <2>2, <1>2, OwnersFinite, ConstantsAssumption
    <3>2. CASE ~initialised
      BY <3>2, <2>2, <1>2, ConstantsAssumption DEF IInv, ValueInv
    <3> QED
      BY <3>1, <3>2
  <2> QED
    BY <2>1, <2>2
<1>4. sem.id' = sem.id /\ sem.size' = sem.size /\ sem.val' = sem.val + adj[p]
  BY <1>1, <1>2, <1>3, ConstantsAssumption DEF settle, IInv, TypeOK
<1>5. Owners' = Owners \ {p}
  BY <1>1, <1>4 DEF Owners, IInv, TypeOK
<1>6. MutualExclusion' /\ NoLostUnit' /\ ValueInv'
  <2>1. CASE p \in Owners
    BY <2>1, <1>2, <1>4, <1>5, GiveBack
  <2>2. CASE p \notin Owners
    <3>1. Owners' = Owners /\ sem.val' = sem.val
      BY <2>2, <1>2, <1>4, <1>5
    <3> QED
      BY <3>1, <1>4 DEF IInv, MutualExclusion, NoLostUnit, ValueInv, initialised
  <2> QED
    BY <2>1, <2>2
<1>7. UndoInv'
  BY <1>1, <1>5 DEF IInv, UndoInv, TypeOK
<1>8. IdsInv'
  <2>1. sem.id = 0 => sem.val + adj[p] = 0
    BY <1>2 DEF IInv, IdsInv, NoSet, Owners
  <2>2. sem' \in [id : Nat, val : Int, size : Nat \cup {Uninitialised}]
    BY DEF TypeOK
  <2>3. sem.id' = 0 => sem' = NoSet
    BY <2>1, <2>2, <1>4 DEF IInv, IdsInv, NoSet
  <2> QED
    BY <2>3, <1>1, <1>4 DEF IInv, IdsInv, TypeOK, NULL
<1>9. CreatorInv'
  <2>1. \A q \in Procs : pc'[q] = "setall" => pc[q] = "setall" /\ this'[q] = this[q]
    BY <1>1 DEF IInv, TypeOK
  <2> QED
    BY <2>1, <1>4 DEF IInv, CreatorInv, live, initialised
<1>10. BracketInv'
  BY <1>1 DEF IInv, BracketInv, TypeOK
<1> QED
  BY <1>6, <1>7, <1>8, <1>9, <1>10 DEF IInv

LEMMA IInvNext ==
  ASSUME Disciplined
  PROVE  IInv /\ [Next]_vars => IInv'
<1> SUFFICES ASSUME IInv, [Next]_vars PROVE IInv'
  OBVIOUS
<1>1. TypeOK'
  BY TypeNext DEF IInv
<1>2. ASSUME NEW p \in Procs, Run(p)
      PROVE  IInv'
  BY <1>1, <1>2, IInvSetall, IInvObjects, IInvAcquire, IInvMoves, IInvRemoved,
     IInvPost DEF Run
<1>3. ASSUME NEW p \in Procs, Call(p)
      PROVE  IInv'
  BY <1>1, <1>3, IInvNew, IInvObjects, IInvDelete, IInvMoves DEF Call
<1>4. ASSUME NEW p \in Procs, interrupted(p) \/ exit(p)
      PROVE  IInv'
  BY <1>1, <1>4, IInvMoves, IInvExit
<1>5. CASE UNCHANGED vars
  <2>1. Owners' = Owners
    BY <1>5 DEF vars, Owners
  <2>2. UndoInv' /\ ValueInv' /\ MutualExclusion' /\ NoLostUnit'
    BY <1>5, <2>1, PoolFrame DEF vars
  <2> QED
    BY <1>1, <1>5, <2>2
    DEF vars, IInv, IdsInv, CreatorInv, BracketInv, live, initialised
<1> QED
  BY <1>2, <1>3, <1>4, <1>5 DEF Next

\* The inductive invariant holds whenever callers unlock what they locked.
THEOREM InvariantHolds ==
  ASSUME Disciplined
  PROVE  Spec => []IInv
  BY IInvInit, IInvNext, PTL DEF Spec

\* No more units are out than the set has, whatever crashes or is removed.
THEOREM MutualExclusionHolds ==
  ASSUME Disciplined
  PROVE  Spec => []MutualExclusion
<1>1. IInv => MutualExclusion
  BY DEF IInv
<1> QED
  BY <1>1, InvariantHolds, PTL

\* With SEM_UNDO the units out and the units in add up to the size.
THEOREM NoLostUnitHolds ==
  ASSUME Disciplined
  PROVE  Spec => []NoLostUnit
<1>1. IInv => NoLostUnit
  BY DEF IInv
<1> QED
  BY <1>1, InvariantHolds, PTL

\* unlock never turns away a holder whose object knows the size of the set.
THEOREM HolderCanUnlockHolds ==
  ASSUME Disciplined
  PROVE  Spec => []HolderCanUnlock
<1>1. IInv => HolderCanUnlock
  <2> SUFFICES ASSUME IInv, NEW p \in Procs, p \in Owners, live(p),
                      this[p].size = sem.size
               PROVE  used(p) > 0 /\ sem.val < SEMVMX
    BY DEF HolderCanUnlock
  <2>1. sem.val \in Int /\ sem.size \in Nat /\ sem.val < sem.size /\ sem.size <= SEMVMX
    BY OwnerLeavesRoom DEF IInv, TypeOK
  <2> QED
    BY <2>1, ConstantsAssumption DEF used, getval
<1> QED
  BY <1>1, InvariantHolds, PTL

-----------------------------------------------------------------------------
(* Refinement: every step is a step of the pool, or changes nothing of it. *)

\* The steps that a pool does not see.
LEMMA PoolStutter ==
  ASSUME IInv, sem' = sem, held' = held
  PROVE  UNCHANGED Pool!poolVars
  BY DEF Pool!poolVars, Owners

LEMMA PoolAcquire ==
  ASSUME IInv, NEW p \in Procs, acquire(p)
  PROVE  Pool!Acquire(p)
<1>1. /\ sem.val > 0 /\ this[p].id = sem.id /\ sem.id # 0
      /\ sem.id' = sem.id /\ sem.size' = sem.size
      /\ held' = [held EXCEPT ![p] = sem.id]
  BY DEF acquire, live, IInv, TypeOK
<1>2. p \notin Owners /\ Owners' = Owners \cup {p}
  BY <1>1 DEF acquire, Owners, IInv, BracketInv, TypeOK
<1>3. initialised
  BY <1>1 DEF IInv, ValueInv, TypeOK
<1>4. sem.val \in Int /\ sem.size \in Nat /\ sem.val + Cardinality(Owners) <= sem.size
  BY <1>3 DEF IInv, TypeOK, MutualExclusion, initialised
<1>5. Cardinality(Owners) < sem.size
  BY <1>1, <1>4, OwnersFinite
<1>6. Pool!Cardinality(Owners) = Cardinality(Owners)
  BY DEF Pool!Cardinality, Cardinality
<1> QED
  BY <1>1, <1>2, <1>3, <1>5, <1>6 DEF Pool!Acquire, initialised

LEMMA PoolGiveBack ==
  ASSUME IInv, NEW p \in Procs, post(p) \/ exit(p)
  PROVE  Pool!Release(p) \/ UNCHANGED Pool!poolVars
<1>1. CASE post(p)
  <2>1. CASE UNCHANGED <<sem, adj, held>>
    BY <2>1, PoolStutter
  <2>2. CASE ~UNCHANGED <<sem, adj, held>>
    <3>1. /\ sem.id' = sem.id /\ sem.size' = sem.size
          /\ sem.id # 0 /\ held[p] = sem.id
          /\ held' = [held EXCEPT ![p] = 0]
      BY <1>1, <2>2 DEF post, live, IInv, BracketInv, TypeOK
    <3>2. p \in Owners /\ Owners' = Owners \ {p}
      BY <3>1 DEF Owners, IInv, TypeOK
    <3> QED
      BY <3>1, <3>2 DEF Pool!Release
  <2> QED
    BY <2>1, <2>2
<1>2. CASE exit(p)
  <2>1. /\ sem.id' = sem.id /\ sem.size' = sem.size
        /\ held' = [held EXCEPT ![p] = 0]
    BY <1>2 DEF exit, settle, IInv, TypeOK
  <2>2. Owners' = Owners \ {p}
    BY <2>1 DEF Owners, IInv, TypeOK
  <2> QED
    BY <2>1, <2>2 DEF Pool!Release, Pool!poolVars
<1> QED
  BY <1>1, <1>2

LEMMA PoolSetall ==
  ASSUME IInv, NEW p \in Procs, setall(p)
  PROVE  (\E n \in Sizes : Pool!Open(n)) \/ UNCHANGED Pool!poolVars
<1>1. CASE ~(live(p) /\ this[p].size <= SEMVMX)
  BY <1>1, PoolStutter DEF setall
<1>2. CASE live(p) /\ this[p].size <= SEMVMX
  <2>1. /\ sem'.id = sem.id /\ sem'.size = this[p].size /\ held' = held
        /\ this[p].size \in Sizes /\ sem.size = Uninitialised
    BY <1>2, ConstantsAssumption
    DEF setall, IInv, CreatorInv, initialised, TypeOK
  <2>2. Owners' = Owners
    BY <2>1 DEF Owners
  <2> QED
    BY <2>1, <2>2 DEF Pool!Open
<1> QED
  BY <1>1, <1>2

LEMMA PoolDelete ==
  ASSUME IInv, NEW p \in Procs, NEW r \in BOOLEAN, delete(p, r)
  PROVE  Pool!Close \/ UNCHANGED Pool!poolVars
<1>1. CASE ~(r /\ live(p))
  BY <1>1, PoolStutter DEF delete
<1>2. CASE r /\ live(p)
  BY <1>2 DEF delete, NoSet, Owners, Pool!Close
<1> QED
  BY <1>1, <1>2

LEMMA PoolNew ==
  ASSUME IInv, NEW p \in Procs, NEW n \in Sizes, NEW a \in BOOLEAN, new(p, n, a)
  PROVE  UNCHANGED Pool!poolVars
<1>1. CASE UNCHANGED sem
  BY <1>1, PoolStutter DEF new
<1>2. CASE ~UNCHANGED sem
  <2>1. /\ sem'.id = made + 1 /\ sem'.size = Uninitialised /\ held' = held
        /\ sem.id = 0 /\ sem.size = Uninitialised
    BY <1>2 DEF new, IInv, IdsInv, NoSet
  <2>2. Owners = {} /\ Owners' = {}
    BY <2>1 DEF Owners, IInv, IdsInv, TypeOK
  <2> QED
    BY <2>1, <2>2 DEF Pool!poolVars
<1> QED
  BY <1>1, <1>2

\* EIDRM changes what a process believes, of a set that is gone.
LEMMA PoolRemoved ==
  ASSUME IInv, NEW p \in Procs, removed(p)
  PROVE  UNCHANGED Pool!poolVars
<1>1. /\ sem' = sem /\ this[p].id # 0 /\ this[p].id # sem.id
      /\ held' = held \/ held' = [held EXCEPT ![p] = this[p].id]
  BY DEF removed, live, IInv, BracketInv
<1>2. p \notin Owners
  BY <1>1 DEF Owners, IInv, IdsInv, TypeOK
<1>3. Owners' = Owners
  BY <1>1, <1>2 DEF Owners, IInv, TypeOK
<1> QED
  BY <1>1, <1>3 DEF Pool!poolVars

LEMMA PoolNext ==
  ASSUME IInv, [Next]_vars
  PROVE  [Pool!Next]_(Pool!poolVars)
<1>1. ASSUME NEW p \in Procs, Run(p)
      PROVE  [Pool!Next]_(Pool!poolVars)
  <2>1. CASE setall(p)
    BY <2>1, PoolSetall DEF Pool!Next
  <2>2. CASE acquire(p)
    BY <2>2, PoolAcquire DEF Pool!Next
  <2>3. CASE removed(p)
    BY <2>3, PoolRemoved
  <2>4. CASE post(p)
    BY <2>4, PoolGiveBack DEF Pool!Next
  <2>5. CASE reattach(p) \/ again(p) \/ wake(p)
    BY <2>5, PoolStutter DEF reattach, again, wake
  <2> QED
    BY <1>1, <2>1, <2>2, <2>3, <2>4, <2>5 DEF Run
<1>2. ASSUME NEW p \in Procs, Call(p)
      PROVE  [Pool!Next]_(Pool!poolVars)
  <2>1. ASSUME NEW n \in Sizes, NEW a \in BOOLEAN, new(p, n, a)
        PROVE  [Pool!Next]_(Pool!poolVars)
    BY <2>1, PoolNew
  <2>2. ASSUME NEW r \in BOOLEAN, delete(p, r)
        PROVE  [Pool!Next]_(Pool!poolVars)
    BY <2>2, PoolDelete DEF Pool!Next
  <2>3. CASE \/ attach(p) \/ unlock(p) \/ \E n \in Sizes : set_size(p, n)
             \/ \E t \in Timeouts : lock(p, t)
    BY <2>3, PoolStutter DEF attach, unlock, set_size, lock
  <2> QED
    BY <1>2, <2>1, <2>2, <2>3 DEF Call
<1>3. ASSUME NEW p \in Procs, interrupted(p)
      PROVE  [Pool!Next]_(Pool!poolVars)
  BY <1>3, PoolStutter DEF interrupted
<1>4. ASSUME NEW p \in Procs, exit(p)
      PROVE  [Pool!Next]_(Pool!poolVars)
  BY <1>4, PoolGiveBack DEF Pool!Next
<1>5. CASE UNCHANGED vars
  BY <1>5, PoolStutter DEF vars
<1> QED
  BY <1>1, <1>2, <1>3, <1>4, <1>5 DEF Next

\* The class, used by disciplined callers, implements the pool.
THEOREM SemaphoreImplementsPool ==
  ASSUME Disciplined
  PROVE  Spec => ImplementsPool
<1>1. Init => Pool!Init
  BY DEF Init, Pool!Init, NoSet, Owners
<1>2. IInv /\ [Next]_vars => [Pool!Next]_(Pool!poolVars)
  BY PoolNext
<1> QED
  BY <1>1, <1>2, InvariantHolds, PTL DEF Spec, ImplementsPool, Pool!Spec

=============================================================================
