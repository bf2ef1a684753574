---------------------------- MODULE Ia32emuProofs ----------------------------
(***************************************************************************)
(* Proofs about Ia32emu, for words of any width, any number of invocations *)
(* and any command lines.  The first half, up to SerialWhenAloneHolds,     *)
(* leaves open what an instruction computes: it holds for whatever main    *)
(* makes of the registers.  The second is about that: the types, the flags *)
(* of a TEST and, with the lemmas of WordProofs, the shifts.               *)
(***************************************************************************)
EXTENDS WordProofs

-----------------------------------------------------------------------------
(* The inductive invariant, by parts.                                      *)

\* The shape of the state; the registers of an invocation once they are
\* loaded are whatever main made of them.
ShapeInv ==
  /\ at \in [Procs -> 0..Final]
  /\ disturbed \in BOOLEAN
  /\ words = [n \in Names |-> words[n]]
  /\ ideal = [n \in Names |-> ideal[n]]
  /\ local = [p \in Procs |-> local[p]]
  /\ \A p \in Procs :
       at[p] <= Len(Order) => local[p].reg = [n \in Names |-> local[p].reg[n]]

\* While it is loading, the words of an invocation are those of the segment,
\* as far as it has come.
Loading(p) ==
  at[p] \in 1..Execute =>
    /\ words = ideal
    /\ at[p] <= Len(Order) =>
         \A k \in 1..Len(Order) : k < at[p] => local[p].reg[Order[k]] = words[Order[k]]
    /\ at[p] = Execute => local[p] = Fresh(ideal)

\* While it is storing, the words of the segment are its own, as far as it
\* has come.
Storing(p) ==
  at[p] > Execute =>
    /\ \A n \in Names : local[p].reg[n] = ideal[n]
    /\ \A k \in 1..Len(Order) : k < at[p] - Execute => words[Order[k]] = ideal[Order[k]]

Alone == \A p, q \in Procs : at[p] # 0 /\ at[q] # 0 => p = q

IInv ==
  /\ ShapeInv
  /\ ~disturbed => Alone /\ (Idle => words = ideal) /\ \A p \in Procs : Loading(p) /\ Storing(p)

-----------------------------------------------------------------------------
LEMMA TheOrder ==
  /\ Len(Order) = 5 /\ Execute = 6 /\ Final = 11
  /\ Order[1] = "eflags" /\ Order[2] = "eax" /\ Order[3] = "ebx"
  /\ Order[4] = "ecx" /\ Order[5] = "edx"
  /\ Names = {"eflags", "eax", "ebx", "ecx", "edx"}
  /\ \A k \in 1..5 : Order[k] \in Names
  /\ \A n \in Names : \E k \in 1..5 : n = Order[k]
<1>1. Len(Order) = 5 /\ DOMAIN Order = 1..5
  BY DEF Order
<1>2. /\ Order[1] = "eflags" /\ Order[2] = "eax" /\ Order[3] = "ebx"
      /\ Order[4] = "ecx" /\ Order[5] = "edx"
  BY DEF Order
<1>3. Execute = 6 /\ Final = 11
  BY <1>1 DEF Execute, Final
<1>4. \A k \in 1..5 : k = 1 \/ k = 2 \/ k = 3 \/ k = 4 \/ k = 5
  OBVIOUS
<1>5. Names = {Order[k] : k \in 1..5}
  BY <1>1 DEF Names, Range
<1>6. Names = {"eflags", "eax", "ebx", "ecx", "edx"}
  BY <1>2, <1>4, <1>5
<1>7. \A k \in 1..5 : Order[k] \in Names
  BY <1>5
<1>8. \A n \in Names : \E k \in 1..5 : n = Order[k]
  BY <1>5
<1> QED
  BY <1>1, <1>2, <1>3, <1>6, <1>7, <1>8

\* All words equal one by one: the registers are equal.
LEMMA SameWords ==
  ASSUME NEW f, NEW g, f = [n \in Names |-> f[n]], g = [n \in Names |-> g[n]],
         \A k \in 1..5 : f[Order[k]] = g[Order[k]]
  PROVE  f = g
<1>1. \A n \in Names : f[n] = g[n]
  BY TheOrder
<1> QED
  BY <1>1

LEMMA ClearShape == Clear.reg = [n \in Names |-> Clear.reg[n]]
<1>1. Clear.reg = [Zero EXCEPT !["eflags"] = (@ \cup {1}) \ {3, 5, 15}]
  BY DEF Clear, Fresh
<1> QED
  BY <1>1 DEF Zero

-----------------------------------------------------------------------------
LEMMA InvInit == Init => IInv
<1> SUFFICES ASSUME Init PROVE IInv
  OBVIOUS
<1>1. PICK v \in Values, w \in Values : words = [Zero EXCEPT !["eax"] = v, !["ebx"] = w]
  BY DEF Init
<1>2. words = [n \in Names |-> words[n]] /\ ideal = [n \in Names |-> ideal[n]]
  BY <1>1 DEF Init, Zero
<1>3. \A p \in Procs : local[p] = Clear /\ at[p] = 0
  BY DEF Init
<1>4. ShapeInv
  <2>1. at \in [Procs -> 0..Final] /\ local = [p \in Procs |-> local[p]]
    BY TheOrder DEF Init
  <2>2. \A p \in Procs : local[p].reg = [n \in Names |-> local[p].reg[n]]
    BY <1>3, ClearShape
  <2> QED
    BY <1>2, <2>1, <2>2 DEF Init, ShapeInv
<1>5. Alone /\ words = ideal
  BY <1>3 DEF Alone, Init
<1>6. \A p \in Procs : Loading(p) /\ Storing(p)
  BY <1>3, TheOrder DEF Loading, Storing
<1> QED
  BY <1>4, <1>5, <1>6 DEF IInv

\* Once disturbed there is only the shape left to show.
LEMMA StepStart ==
  ASSUME IInv, NEW p \in Procs, start(p)
  PROVE  IInv'
<1>1. at[p] = 0 /\ at' = [at EXCEPT ![p] = 1] /\ words' = words /\ local' = local
  BY DEF start
<1>2. at'[p] = 1 /\ \A q \in Procs : q # p => at'[q] = at[q]
  BY <1>1 DEF IInv, ShapeInv
<1>3. ShapeInv'
  <2>1. ideal' = ideal \/ ideal' = Zero
    BY DEF start, disturb
  <2>2. ideal' = [n \in Names |-> ideal'[n]]
    BY <2>1 DEF IInv, ShapeInv, Zero
  <2>3. disturbed' \in BOOLEAN
    BY DEF start, disturb, IInv, ShapeInv
  <2>4. at' \in [Procs -> 0..Final]
    BY <1>1, TheOrder DEF IInv, ShapeInv
  <2> QED
    BY <1>1, <1>2, <2>2, <2>3, <2>4, TheOrder DEF IInv, ShapeInv
<1>4. ASSUME ~disturbed'
      PROVE  Alone' /\ (Idle' => words' = ideal') /\ \A q \in Procs : Loading(q)' /\ Storing(q)'
  <2>1. ~Busy(p) /\ disturbed' = disturbed /\ ideal' = ideal /\ ~disturbed
    BY <1>4 DEF start, disturb
  <2>2. \A q \in Procs : at[q] = 0
    BY <1>1, <2>1 DEF Busy
  <2>3. words = ideal
    BY <2>1, <2>2 DEF IInv, Idle
  <2>4. \A q \in Procs : q # p => at'[q] = 0
    BY <1>2, <2>2
  <2>5. Alone'
    BY <2>4 DEF Alone
  <2>6. \A q \in Procs : Loading(q)' /\ Storing(q)'
    BY <1>1, <1>2, <2>1, <2>3, <2>4, TheOrder DEF Loading, Storing
  <2> QED
    BY <1>1, <2>1, <2>3, <2>5, <2>6
<1> QED
  BY <1>3, <1>4 DEF IInv

LEMMA StepLoad ==
  ASSUME IInv, NEW p \in Procs, load(p)
  PROVE  IInv'
<1> DEFINE n == Order[at[p]]
           reg == [local[p].reg EXCEPT ![n] = words[n]]
<1>1. /\ at[p] \in 1..5 /\ at' = [at EXCEPT ![p] = at[p] + 1]
      /\ local' = [local EXCEPT ![p] = IF at[p] = 5 THEN Fresh(reg) ELSE [local[p] EXCEPT !.reg = reg]]
      /\ UNCHANGED <<words, runs, ideal, tested, disturbed>>
  BY TheOrder DEF load
<1>2. at'[p] = at[p] + 1 /\ \A q \in Procs : q # p => at'[q] = at[q]
  BY <1>1 DEF IInv, ShapeInv
<1>3. /\ local'[p] = IF at[p] = 5 THEN Fresh(reg) ELSE [local[p] EXCEPT !.reg = reg]
      /\ \A q \in Procs : q # p => local'[q] = local[q]
      /\ local' = [q \in Procs |-> local'[q]]
  BY <1>1 DEF IInv, ShapeInv
<1>4. reg = [m \in Names |-> reg[m]] /\ n \in Names /\ reg[n] = words[n]
      /\ \A m \in Names : m # n => reg[m] = local[p].reg[m]
  <2>1. local[p].reg = [m \in Names |-> local[p].reg[m]]
    BY <1>1, TheOrder DEF IInv, ShapeInv
  <2>2. n \in Names
    BY <1>1, TheOrder
  <2> HIDE DEF n
  <2> QED
    BY <2>1, <2>2
<1>5. at[p] # 5 => local'[p].reg = reg
  <2>1. local[p].reg = [m \in Names |-> local[p].reg[m]]
    BY <1>1, TheOrder DEF IInv, ShapeInv
  <2> QED
    BY <1>3
<1>6. ShapeInv'
  <2>1. at' \in [Procs -> 0..Final]
    BY <1>1, TheOrder DEF IInv, ShapeInv
  <2>2. ASSUME NEW q \in Procs, at'[q] <= Len(Order)
        PROVE  local'[q].reg = [m \in Names |-> local'[q].reg[m]]
    <3>1. CASE q = p
      <4>1. at'[p] <= 5
        BY <2>2, <3>1, TheOrder
      <4>2. local'[p].reg = reg
        BY <1>1, <1>2, <1>5, <4>1
      <4> HIDE DEF reg
      <4> QED
        BY <1>4, <3>1, <4>2
    <3>2. CASE q # p
      <4>1. local'[q] = local[q] /\ at'[q] = at[q]
        BY <1>2, <1>3, <3>2
      <4> QED
        BY <2>2, <4>1 DEF IInv, ShapeInv
    <3> QED
      BY <3>1, <3>2
  <2> QED
    BY <1>1, <1>3, <2>1, <2>2 DEF IInv, ShapeInv
<1>7. ASSUME ~disturbed'
      PROVE  Alone' /\ ~Idle' /\ \A q \in Procs : Loading(q)' /\ Storing(q)'
  <2>1. ~disturbed /\ Alone /\ Loading(p)
    BY <1>1, <1>7 DEF IInv
  <2>2. \A q \in Procs : q # p => at[q] = 0 /\ at'[q] = 0
    BY <1>1, <1>2, <2>1 DEF Alone
  <2>3. Alone' /\ ~Idle'
    BY <1>1, <1>2, <2>2 DEF Alone, Idle
  <2>4. \A q \in Procs : q # p => Loading(q)' /\ Storing(q)'
    BY <2>2, TheOrder DEF Loading, Storing
  <2>5. Storing(p)'
    BY <1>1, <1>2, TheOrder DEF Storing
  <2>6. words = ideal /\ \A k \in 1..5 : k < at[p] => local[p].reg[Order[k]] = words[Order[k]]
    BY <1>1, <2>1, TheOrder DEF Loading
  <2>7. \A k \in 1..5 : k <= at[p] => reg[Order[k]] = words[Order[k]]
    <3> SUFFICES ASSUME NEW k \in 1..5, k <= at[p] PROVE reg[Order[k]] = words[Order[k]]
      OBVIOUS
    <3>1. CASE Order[k] = n
      BY <1>4, <3>1
    <3>2. CASE Order[k] # n
      <4>1. k # at[p]
        BY <3>2
      <4>2. k < at[p]
        BY <1>1, <4>1
      <4> QED
        BY <1>4, <2>6, <3>2, <4>2, TheOrder
    <3> QED
      BY <3>1, <3>2
  <2>8. Loading(p)'
    <3>1. at[p] = 5 => local'[p] = Fresh(ideal')
      <4>1. ASSUME at[p] = 5 PROVE reg = words
        <5>1. words = [m \in Names |-> words[m]] /\ reg = [m \in Names |-> reg[m]]
          BY <1>4 DEF IInv, ShapeInv
        <5>2. \A k \in 1..5 : reg[Order[k]] = words[Order[k]]
          BY <2>7, <4>1
        <5> HIDE DEF reg
        <5> QED
          BY <5>1, <5>2, SameWords
      <4> QED
        BY <1>1, <1>3, <2>6, <4>1
    <3>2. at[p] # 5 => \A k \in 1..5 : k < at'[p] => local'[p].reg[Order[k]] = words[Order[k]]
      BY <1>1, <1>2, <1>5, <2>7
    <3>3. Len(Order) = 5 /\ Execute = 6 /\ words' = ideal'
      BY <1>1, <2>6, TheOrder
    <3>4. at'[p] = 6 => local'[p] = Fresh(ideal')
      BY <1>1, <1>2, <3>1
    <3>5. at'[p] <= 5 => \A k \in 1..5 : k < at'[p] => local'[p].reg[Order[k]] = words'[Order[k]]
      BY <1>1, <1>2, <3>2
    <3> QED
      BY <3>3, <3>4, <3>5 DEF Loading
  <2> QED
    BY <2>3, <2>4, <2>5, <2>8
<1> QED
  BY <1>6, <1>7 DEF IInv

\* What an invocation makes of the registers of the segment is what a single
\* step makes of the ideal ones, since they are the same.
LEMMA StepExecute ==
  ASSUME IInv, NEW p \in Procs, NEW c \in Commands, execute(p, c)
  PROVE  IInv'
<1> DEFINE L == main(local[p], c)
           T == main(Fresh(ideal), c)
           M == [Clear EXCEPT !.reg = L.reg, !.jump = L.jump,
                              !.ins = IF c.ins \in Jumps THEN c.ins ELSE Null]
<1> HIDE DEF L, T, M
<1>1. /\ at[p] = 6 /\ at' = [at EXCEPT ![p] = IF L.crashed THEN 0 ELSE at[p] + 1]
      /\ local' = [local EXCEPT ![p] = IF L.crashed THEN Clear ELSE M]
      /\ UNCHANGED <<words, runs, disturbed>>
      /\ IF disturbed \/ L.crashed THEN ideal' = ideal ELSE ideal' = [n \in Names |-> T.reg[n]]
  BY TheOrder DEF execute, L, T, M
<1>2. M.reg = L.reg
  BY DEF M, Clear, Fresh
<1>3. at'[p] = (IF L.crashed THEN 0 ELSE 7) /\ \A q \in Procs : q # p => at'[q] = at[q]
  BY <1>1 DEF IInv, ShapeInv
<1>4. /\ local'[p] = IF L.crashed THEN Clear ELSE M
      /\ \A q \in Procs : q # p => local'[q] = local[q]
      /\ local' = [q \in Procs |-> local'[q]]
  BY <1>1 DEF IInv, ShapeInv
<1>5. ShapeInv'
  <2>1. at' \in [Procs -> 0..Final]
    <3>1. (IF L.crashed THEN 0 ELSE at[p] + 1) \in 0..Final
      BY <1>1, TheOrder
    <3> QED
      BY <1>1, <3>1 DEF IInv, ShapeInv
  <2>2. ideal' = [n \in Names |-> ideal'[n]]
    BY <1>1 DEF IInv, ShapeInv
  <2>3. ASSUME NEW q \in Procs, at'[q] <= Len(Order)
        PROVE  local'[q].reg = [m \in Names |-> local'[q].reg[m]]
    <3>1. CASE q = p
      <4>1. at'[p] <= 5
        BY <2>3, <3>1, TheOrder
      <4>2. local'[p] = Clear
        BY <1>3, <1>4, <4>1
      <4> QED
        BY <3>1, <4>2, ClearShape
    <3>2. CASE q # p
      <4>1. local'[q] = local[q] /\ at'[q] = at[q]
        BY <1>3, <1>4, <3>2
      <4> QED
        BY <2>3, <4>1 DEF IInv, ShapeInv
    <3> QED
      BY <3>1, <3>2
  <2> QED
    BY <1>1, <1>4, <2>1, <2>2, <2>3 DEF IInv, ShapeInv
<1>6. ASSUME ~disturbed'
      PROVE  Alone' /\ (Idle' => words' = ideal') /\ \A q \in Procs : Loading(q)' /\ Storing(q)'
  <2>1. ~disturbed /\ Alone /\ Loading(p)
    BY <1>1, <1>6 DEF IInv
  <2>2. \A q \in Procs : q # p => at[q] = 0 /\ at'[q] = 0
    BY <1>1, <1>3, <2>1 DEF Alone
  <2>3. Alone'
    BY <2>2 DEF Alone
  <2>4. words = ideal /\ local[p] = Fresh(ideal)
    BY <1>1, <2>1, TheOrder DEF Loading
  <2>5. L = T
    BY <2>4 DEF L, T
  <2>6. \A q \in Procs : q # p => Loading(q)' /\ Storing(q)'
    BY <2>2, TheOrder DEF Loading, Storing
  <2>7. CASE L.crashed
    <3>1. at'[p] = 0 /\ ideal' = ideal /\ words' = words
      BY <1>1, <1>3, <2>7
    <3>2. Loading(p)' /\ Storing(p)'
      BY <3>1, TheOrder DEF Loading, Storing
    <3> QED
      BY <2>3, <2>4, <2>6, <3>1, <3>2
  <2>8. CASE ~L.crashed
    <3>1. at'[p] = 7 /\ ideal' = [n \in Names |-> T.reg[n]] /\ local'[p].reg = L.reg
      BY <1>1, <1>2, <1>3, <1>4, <2>1, <2>8
    <3>2. Loading(p)' /\ Storing(p)'
      BY <2>5, <3>1, TheOrder DEF Loading, Storing
    <3>3. ~Idle'
      BY <3>1 DEF Idle
    <3> QED
      BY <2>3, <2>6, <3>2, <3>3
  <2> QED
    BY <2>7, <2>8
<1> QED
  BY <1>5, <1>6 DEF IInv

LEMMA StepStore ==
  ASSUME IInv, NEW p \in Procs, store(p)
  PROVE  IInv'
<1> DEFINE n == Order[at[p] - 6]
<1> HIDE DEF n
<1>1. /\ at[p] \in 7..11 /\ at' = [at EXCEPT ![p] = IF at[p] = 11 THEN 0 ELSE at[p] + 1]
      /\ words' = [words EXCEPT ![n] = local[p].reg[n]]
      /\ local' = IF at[p] = 11 THEN [local EXCEPT ![p] = Clear] ELSE local
      /\ UNCHANGED <<ideal, disturbed>>
  BY TheOrder DEF store, n
<1>2. n \in Names /\ words = [m \in Names |-> words[m]]
  BY <1>1, TheOrder DEF n, IInv, ShapeInv
<1>3. /\ words' = [m \in Names |-> words'[m]] /\ words'[n] = local[p].reg[n]
      /\ \A m \in Names : m # n => words'[m] = words[m]
  BY <1>1, <1>2
<1>4. at'[p] = (IF at[p] = 11 THEN 0 ELSE at[p] + 1) /\ \A q \in Procs : q # p => at'[q] = at[q]
  BY <1>1 DEF IInv, ShapeInv
<1>5. /\ at[p] = 11 => local'[p] = Clear
      /\ at[p] # 11 => local'[p] = local[p]
      /\ \A q \in Procs : q # p => local'[q] = local[q]
      /\ local' = [q \in Procs |-> local'[q]]
  BY <1>1 DEF IInv, ShapeInv
<1>6. ShapeInv'
  <2>1. at' \in [Procs -> 0..Final]
    <3>1. (IF at[p] = 11 THEN 0 ELSE at[p] + 1) \in 0..Final
      BY <1>1, TheOrder
    <3> QED
      BY <1>1, <3>1 DEF IInv, ShapeInv
  <2>2. ASSUME NEW q \in Procs, at'[q] <= Len(Order)
        PROVE  local'[q].reg = [m \in Names |-> local'[q].reg[m]]
    <3>1. CASE q = p
      <4>1. at[p] = 11
        BY <1>1, <1>4, <2>2, <3>1, TheOrder
      <4> QED
        BY <1>5, <3>1, <4>1, ClearShape
    <3>2. CASE q # p
      BY <1>4, <1>5, <2>2, <3>2 DEF IInv, ShapeInv
    <3> QED
      BY <3>1, <3>2
  <2> QED
    BY <1>1, <1>3, <1>5, <2>1, <2>2 DEF IInv, ShapeInv
<1>7. ASSUME ~disturbed'
      PROVE  Alone' /\ (Idle' => words' = ideal') /\ \A q \in Procs : Loading(q)' /\ Storing(q)'
  <2>1. ~disturbed /\ Alone /\ Storing(p)
    BY <1>1, <1>7 DEF IInv
  <2>2. \A q \in Procs : q # p => at[q] = 0 /\ at'[q] = 0
    BY <1>1, <1>4, <2>1 DEF Alone
  <2>3. Alone'
    BY <2>2 DEF Alone
  <2>4. \A q \in Procs : q # p => Loading(q)' /\ Storing(q)'
    BY <2>2, TheOrder DEF Loading, Storing
  <2>5. /\ \A m \in Names : local[p].reg[m] = ideal[m]
        /\ \A k \in 1..5 : k < at[p] - 6 => words[Order[k]] = ideal[Order[k]]
    BY <1>1, <2>1, TheOrder DEF Storing
  <2>6. \A k \in 1..5 : k <= at[p] - 6 => words'[Order[k]] = ideal[Order[k]]
    <3> SUFFICES ASSUME NEW k \in 1..5, k <= at[p] - 6 PROVE words'[Order[k]] = ideal[Order[k]]
      OBVIOUS
    <3>1. CASE Order[k] = n
      BY <1>2, <1>3, <2>5, <3>1
    <3>2. CASE Order[k] # n
      <4>1. k # at[p] - 6
        BY <3>2 DEF n
      <4>2. k < at[p] - 6
        BY <1>1, <4>1
      <4> QED
        BY <1>3, <2>5, <3>2, <4>2, TheOrder
    <3> QED
      BY <3>1, <3>2
  <2>7. CASE at[p] = 11
    <3>1. \A k \in 1..5 : words'[Order[k]] = ideal[Order[k]]
      BY <2>6, <2>7
    <3>2. words' = ideal
      <4>1. ideal = [m \in Names |-> ideal[m]]
        BY DEF IInv, ShapeInv
      <4> QED
        BY <1>3, <3>1, <4>1, SameWords
    <3>3. Loading(p)' /\ Storing(p)'
      BY <1>4, <2>7, TheOrder DEF Loading, Storing
    <3> QED
      BY <1>1, <2>3, <2>4, <3>2, <3>3
  <2>8. CASE at[p] # 11
    <3>1. at'[p] = at[p] + 1 /\ local'[p] = local[p] /\ ideal' = ideal
      BY <1>1, <1>4, <1>5, <2>8
    <3>2. \A k \in 1..5 : k < at'[p] - 6 => words'[Order[k]] = ideal'[Order[k]]
      BY <1>1, <2>6, <3>1
    <3>3. Loading(p)' /\ Storing(p)'
      BY <1>1, <2>5, <3>1, <3>2, TheOrder DEF Loading, Storing
    <3>4. ~Idle'
      BY <1>1, <3>1 DEF Idle
    <3> QED
      BY <2>3, <2>4, <3>3, <3>4
  <2> QED
    BY <2>7, <2>8
<1> QED
  BY <1>6, <1>7 DEF IInv

LEMMA StepDie ==
  ASSUME IInv, NEW p \in Procs, die(p)
  PROVE  IInv'
<1>1. /\ at[p] # 0 /\ at' = [at EXCEPT ![p] = 0] /\ local' = [local EXCEPT ![p] = Clear]
      /\ words' = words
  BY DEF die
<1>2. at'[p] = 0 /\ \A q \in Procs : q # p => at'[q] = at[q]
  BY <1>1 DEF IInv, ShapeInv
<1>3. /\ local'[p] = Clear /\ \A q \in Procs : q # p => local'[q] = local[q]
      /\ local' = [q \in Procs |-> local'[q]]
  BY <1>1 DEF IInv, ShapeInv
<1>4. ShapeInv'
  <2>1. ideal' = ideal \/ ideal' = Zero
    BY DEF die, disturb
  <2>2. ideal' = [n \in Names |-> ideal'[n]]
    BY <2>1 DEF IInv, ShapeInv, Zero
  <2>3. disturbed' \in BOOLEAN
    BY DEF die, disturb, IInv, ShapeInv
  <2>4. at' \in [Procs -> 0..Final]
    BY <1>1, TheOrder DEF IInv, ShapeInv
  <2>5. ASSUME NEW q \in Procs, at'[q] <= Len(Order)
        PROVE  local'[q].reg = [m \in Names |-> local'[q].reg[m]]
    <3>1. CASE q = p
      BY <1>3, <3>1, ClearShape
    <3>2. CASE q # p
      BY <1>2, <1>3, <2>5, <3>2 DEF IInv, ShapeInv
    <3> QED
      BY <3>1, <3>2
  <2> QED
    BY <1>1, <1>3, <2>2, <2>3, <2>4, <2>5 DEF IInv, ShapeInv
<1>5. ASSUME ~disturbed'
      PROVE  Alone' /\ (Idle' => words' = ideal') /\ \A q \in Procs : Loading(q)' /\ Storing(q)'
  <2>1. at[p] <= 6 /\ at[p] \in 0..11 /\ disturbed' = disturbed /\ ideal' = ideal
    <3>1. at[p] \in 0..11
      BY TheOrder DEF IInv, ShapeInv
    <3> QED
      BY <1>5, <3>1, TheOrder DEF die, disturb
  <2>2. Alone /\ Loading(p)
    BY <1>5, <2>1 DEF IInv
  <2>3. words = ideal
    BY <1>1, <2>1, <2>2, TheOrder DEF Loading
  <2>4. \A q \in Procs : at'[q] = 0
    BY <1>1, <1>2, <2>2 DEF Alone
  <2>5. Alone' /\ \A q \in Procs : Loading(q)' /\ Storing(q)'
    BY <2>4, TheOrder DEF Alone, Loading, Storing
  <2> QED
    BY <1>1, <2>1, <2>3, <2>5
<1> QED
  BY <1>4, <1>5 DEF IInv

LEMMA InvNext == IInv /\ [Next]_vars => IInv'
<1> SUFFICES ASSUME IInv, [Next]_vars PROVE IInv'
  OBVIOUS
<1>1. CASE UNCHANGED vars
  <2>1. UNCHANGED <<words, at, local, ideal, disturbed>>
    BY <1>1 DEF vars
  <2>2. ShapeInv'
    BY <2>1 DEF IInv, ShapeInv
  <2>3. ~disturbed' => Alone' /\ (Idle' => words' = ideal')
    BY <2>1 DEF IInv, Alone, Idle
  <2>4. ~disturbed' => \A p \in Procs : Loading(p)' /\ Storing(p)'
    BY <2>1 DEF IInv, Loading, Storing
  <2> QED
    BY <2>2, <2>3, <2>4 DEF IInv
<1>2. CASE Next
  BY <1>2, StepStart, StepLoad, StepExecute, StepStore, StepDie DEF Next
<1> QED
  BY <1>1, <1>2

-----------------------------------------------------------------------------
\* The inductive invariant holds in every reachable state: as long as no two
\* invocations met, the one there is knows exactly the words it has loaded,
\* and the segment exactly those it has stored.
THEOREM InvariantHolds == Spec => []IInv
<1> QED
  BY InvInit, InvNext, PTL DEF Spec

\* Invocations that do not overlap are as good as single steps, for any
\* instruction set and any command lines: registers$init, main and
\* registers$delete together lose and tear nothing.
THEOREM SerialWhenAloneHolds == Spec => []SerialWhenAlone
<1>1. IInv => SerialWhenAlone
  BY DEF IInv, SerialWhenAlone
<1> QED
  BY <1>1, InvariantHolds, PTL

-----------------------------------------------------------------------------
(* The getopt loop, which is a fold.                                       *)

\* Max of a set of indices.
LEMMA Greatest ==
  ASSUME NEW m \in Nat, NEW s \in SUBSET (1..m), s # {}
  PROVE  Max(s) \in s /\ \A y \in s : y <= Max(s)
<1> DEFINE T == {m - y : y \in s}
<1>1. PICK t \in T : \A u \in T : t <= u
  <2>1. \A y \in s : m - y \in Nat
    OBVIOUS
  <2>2. T # {}
    OBVIOUS
  <2>3. T \subseteq Nat
    BY <2>1
  <2> HIDE DEF T
  <2> QED
    BY <2>2, <2>3, Least
<1>2. PICK x \in s : t = m - x
  BY <1>1
<1>3. \A y \in s : x >= y
  <2> SUFFICES ASSUME NEW y \in s PROVE x >= y
    OBVIOUS
  <2>1. m - y \in T
    OBVIOUS
  <2>2. m - x <= m - y
    BY <1>1, <1>2, <2>1
  <2> QED
    BY <2>2
<1>4. Max(s) \in s /\ \A y \in s : Max(s) >= y
  BY <1>3 DEF Max
<1> QED
  BY <1>4

\* The getopt loop keeps what one turn of it keeps.
LEMMA Folded ==
  ASSUME NEW T, NEW L \in T, NEW seq, NEW n \in Nat, DOMAIN seq = 1..n,
         \A M \in T : \A k \in 1..n : option(M, seq[k]) \in T
  PROVE  FoldLeft(option, L, seq) \in T
<1> DEFINE F(g, s) == IF s = {} THEN L ELSE option(g[s \ {Max(s)}], seq[Max(s)])
           Is(m, g) == g = [s \in SUBSET (1..m) |-> F(g, s)]
           S == {m \in 0..n : \E g : Is(m, g)}
<1>1. FoldLeft(option, L, seq) = (CHOOSE g : Is(n, g))[1..n]
  BY DEF FoldLeft, MapThenFoldSet
<1>2. 0 \in S
  <2> DEFINE g == [s \in SUBSET (1..0) |-> L]
  <2>1. \A s \in SUBSET (1..0) : s = {}
    OBVIOUS
  <2>2. Is(0, g)
    BY <2>1
  <2> HIDE DEF g, Is
  <2> QED
    BY <2>2
<1>3. ASSUME NEW k \in 0..n, k \in S, k + 1 <= n
      PROVE  k + 1 \in S
  <2>1. PICK g : Is(k, g)
    BY <1>3
  <2> DEFINE h == [s \in SUBSET (1..k + 1) |->
                     IF k + 1 \in s THEN option(g[s \ {k + 1}], seq[k + 1]) ELSE g[s]]
  <2>2. \A s \in SUBSET (1..k) : g[s] = F(g, s)
    BY <2>1
  <2>3. \A s \in SUBSET (1..k) : s \in SUBSET (1..k + 1) /\ k + 1 \notin s
    OBVIOUS
  <2>4. \A s \in SUBSET (1..k) : h[s] = g[s]
    BY <2>3
  <2>5. \A s \in SUBSET (1..k + 1) : h[s] = F(h, s)
    <3> SUFFICES ASSUME NEW s \in SUBSET (1..k + 1) PROVE h[s] = F(h, s)
      OBVIOUS
    <3>1. CASE k + 1 \in s
      <4>1. Max(s) = k + 1
        <5> HIDE DEF h
        <5>1. k + 1 \in Nat /\ s # {}
          BY <3>1
        <5>2. Max(s) \in s /\ k + 1 <= Max(s)
          BY <3>1, <5>1, Greatest
        <5>3. Max(s) \in 1..k + 1
          BY <5>2
        <5> QED
          BY <5>2, <5>3
      <4>2. s \ {k + 1} \in SUBSET (1..k) /\ s # {}
        BY <3>1
      <4>3. h[s] = option(g[s \ {k + 1}], seq[k + 1])
        BY <3>1
      <4>4. h[s \ {k + 1}] = g[s \ {k + 1}]
        BY <2>4, <4>2
      <4> HIDE DEF h
      <4> QED
        BY <4>1, <4>2, <4>3, <4>4
    <3>2. CASE k + 1 \notin s
      <4>1. s \in SUBSET (1..k)
        BY <3>2
      <4>2. h[s] = F(g, s)
        BY <2>2, <2>4, <4>1
      <4>3. s \ {Max(s)} \in SUBSET (1..k)
        BY <4>1
      <4>4. h[s \ {Max(s)}] = g[s \ {Max(s)}]
        BY <2>4, <4>3
      <4> HIDE DEF h
      <4> QED
        BY <4>2, <4>4
    <3> QED
      BY <3>1, <3>2
  <2>6. h = [s \in SUBSET (1..k + 1) |-> h[s]]
    OBVIOUS
  <2> HIDE DEF h
  <2>7. Is(k + 1, h)
    BY <2>5, <2>6
  <2> HIDE DEF Is
  <2> QED
    BY <2>7, <1>3
<1>4. n \in S
  <2>1. \A k \in 0..n : k \in S /\ k + 1 <= n => k + 1 \in S
    BY <1>3
  <2>2. n \in 0..n
    OBVIOUS
  <2> HIDE DEF S
  <2> QED
    BY <1>2, <2>1, <2>2, UpTo
<1>5. PICK g : Is(n, g) /\ FoldLeft(option, L, seq) = g[1..n]
  <2> HIDE DEF Is
  <2> QED
    BY <1>1, <1>4
<1> DEFINE K == {k \in 0..n : \A s \in SUBSET (1..k) : g[s] \in T}
<1>6. \A k \in 0..n : \A s \in SUBSET (1..k) : s \in SUBSET (1..n)
  OBVIOUS
<1>7. 0 \in K
  <2>1. \A s \in SUBSET (1..0) : s = {}
    OBVIOUS
  <2>2. {} \in SUBSET (1..n)
    OBVIOUS
  <2>3. g[{}] = L
    BY <1>5, <2>2
  <2>4. \A s \in SUBSET (1..0) : g[s] \in T
    BY <2>1, <2>3
  <2>5. 0 \in 0..n
    OBVIOUS
  <2> QED
    BY <2>4, <2>5
<1>8. \A k \in 0..n : k \in K /\ k + 1 <= n => k + 1 \in K
  <2> SUFFICES ASSUME NEW k \in 0..n, k \in K, k + 1 <= n PROVE k + 1 \in K
    OBVIOUS
  <2>1. k + 1 \in 0..n /\ k + 1 \in Nat
    OBVIOUS
  <2>2. \A s \in SUBSET (1..k) : g[s] \in T
    OBVIOUS
  <2>3. ASSUME NEW s \in SUBSET (1..k + 1) PROVE g[s] \in T
    <3> HIDE DEF K
    <3>1. s \in SUBSET (1..n)
      BY <2>1
    <3>2. g[s] = F(g, s)
      BY <1>5, <3>1
    <3>3. CASE s = {}
      BY <3>2, <3>3
    <3>4. CASE s # {}
      <4>1. Max(s) \in s /\ \A y \in s : y <= Max(s)
        BY <2>1, <3>4, Greatest
      <4>2. Max(s) \in 1..k + 1 /\ Max(s) \in 1..n
        BY <2>1, <3>1, <4>1
      <4>3. ASSUME NEW y \in s \ {Max(s)} PROVE y \in 1..k
        <5>1. y \in 1..k + 1 /\ y <= Max(s) /\ y # Max(s)
          BY <4>1
        <5> QED
          BY <4>2, <5>1
      <4>4. s \ {Max(s)} \in SUBSET (1..k)
        BY <4>3
      <4>5. g[s \ {Max(s)}] \in T
        BY <2>2, <4>4
      <4> QED
        BY <3>2, <3>4, <4>2, <4>5
    <3> QED
      BY <3>3, <3>4
  <2> QED
    BY <2>1, <2>3
<1>9. n \in K
  <2>1. n \in 0..n
    OBVIOUS
  <2> HIDE DEF K
  <2> QED
    BY <1>7, <1>8, <2>1, UpTo
<1> QED
  BY <1>5, <1>9

-----------------------------------------------------------------------------
(* Types.                                                                  *)

Options == UNION {Range(c.options) : c \in Commands}
Registers == [Names -> SUBSET Bits]
Operands == Names \cup {Null, "immediate"}
Sizes == {0, 32} \cup {o.size : o \in {x \in Options : x.opt = "register"}}

\* The memory of an invocation.
Memory ==
  [reg : Registers, size : [Names -> Sizes],
   target : {"dst", "src"}, set : BOOLEAN,
   operand : [dst : Operands, src : Operands],
   register : [dst : Names \cup {Null}, src : Names \cup {Null}],
   immediate : SUBSET Bits, e : {0, 1}, crashed : BOOLEAN,
   ins : Jumps \cup {Null}, jump : BOOLEAN]

LEMMA TheBits == \A i \in {0, 1, 2, 5, 6, 7, 11} : i \in Bits
BY Ia32emuAssumption DEF Bits, OF

LEMMA FreshType ==
  ASSUME NEW reg \in Registers
  PROVE  Fresh(reg) \in Memory
<1> DEFINE r == [reg EXCEPT !["eflags"] = (@ \cup {1}) \ {3, 5, 15}]
<1>1. r \in Registers
  <2>1. "eflags" \in Names /\ 1 \in Bits
    BY TheOrder, TheBits
  <2>2. (reg["eflags"] \cup {1}) \ {3, 5, 15} \in SUBSET Bits
    BY <2>1 DEF Registers
  <2> QED
    BY <2>1, <2>2 DEF Registers
<1> DEFINE s == [n \in Names |-> IF n = "eflags" THEN 0 ELSE 32]
<1>2. s \in [Names -> Sizes]
  BY DEF Sizes
<1> HIDE DEF r, s
<1>3. Fresh(reg) =
        [reg |-> r, size |-> s, target |-> "dst", set |-> FALSE,
         operand |-> [dst |-> Null, src |-> Null],
         register |-> [dst |-> Null, src |-> Null],
         immediate |-> {}, e |-> 0, crashed |-> FALSE, ins |-> Null, jump |-> FALSE]
  BY DEF Fresh, r, s
<1> QED
  BY <1>1, <1>2, <1>3 DEF Memory, Operands

LEMMA AssignType ==
  ASSUME NEW L \in Memory, NEW x \in Operands \ {Null}, NEW w \in SUBSET Bits
  PROVE  assign(L, x, w) \in Memory
<1>1. CASE x = "immediate"
  <2>1. assign(L, x, w) = [L EXCEPT !.immediate = w]
    BY <1>1 DEF assign
  <2> QED
    BY <2>1 DEF Memory
<1>2. CASE x # "immediate"
  <2> DEFINE r == [L.reg EXCEPT ![x] = w]
  <2>1. r \in Registers
    BY <1>2 DEF Memory, Registers, Operands
  <2>2. assign(L, x, w) = [L EXCEPT !.reg = r]
    BY <1>2 DEF assign
  <2> HIDE DEF r
  <2> QED
    BY <2>1, <2>2 DEF Memory
<1> QED
  BY <1>1, <1>2

LEMMA FailType ==
  ASSUME NEW L \in Memory
  PROVE  fail(L) \in Memory /\ crash(L) \in Memory
BY DEF fail, crash, Memory

LEMMA ValueType ==
  ASSUME NEW L \in Memory, NEW x \in Operands \ {Null}
  PROVE  value(L, x) \in SUBSET Bits
BY DEF value, Memory, Registers, Operands

LEMMA OperandType ==
  ASSUME NEW L \in Memory, NEW t \in {"dst", "src"}
  PROVE  L.operand[t] \in Operands /\ L.register[t] \in Names \cup {Null}
BY DEF Memory

LEMMA SetRegisterType ==
  ASSUME NEW L \in Memory, NEW o \in Options, o.opt = "register"
  PROVE  set_register(L, o) \in Memory
<1>1. CASE ~L.set
  BY <1>1, FailType DEF set_register
<1>2. CASE L.set /\ o.reg \notin Names
  BY <1>2, FailType DEF set_register
<1>3. CASE L.set /\ o.reg \in Names
  <2> DEFINE t == L.target
             a == [L.operand EXCEPT ![t] = o.reg]
             b == [L.register EXCEPT ![t] = o.reg]
             s == [L.size EXCEPT ![o.reg] = o.size]
  <2>1. t = "dst" \/ t = "src"
    BY DEF Memory
  <2>2. a \in [dst : Operands, src : Operands]
    BY <1>3, <2>1 DEF Memory, Operands
  <2>3. b \in [dst : Names \cup {Null}, src : Names \cup {Null}]
    BY <1>3, <2>1 DEF Memory
  <2>4. s \in [Names -> Sizes]
    <3>1. o.size \in Sizes
      BY DEF Sizes
    <3> QED
      BY <1>3, <3>1 DEF Memory
  <2>5. set_register(L, o) = [L EXCEPT !.operand = a, !.register = b, !.size = s]
    BY <1>3 DEF set_register
  <2> HIDE DEF a, b, s
  <2> QED
    BY <2>2, <2>3, <2>4, <2>5 DEF Memory
<1> QED
  BY <1>1, <1>2, <1>3

LEMMA SetValueType ==
  ASSUME NEW L \in Memory, NEW o \in Options, o.word \in SUBSET Bits
  PROVE  set_value(L, o) \in Memory
<1> DEFINE x == L.operand[L.target]
           r == L.register[L.target]
           fits == o.form = "hex" \/ \A i \in o.word : i < L.size[r] \/ o.word = {L.size[r]}
           K == IF fits THEN L ELSE fail(L)
<1>1. x \in Operands
  BY OperandType DEF Memory
<1>2. K \in Memory
  BY FailType
<1>3. (IF x = "eflags" THEN {5} ELSE o.word) \in SUBSET Bits
  BY TheBits
<1>4. set_value(L, o) =
        IF ~L.set THEN crash(L)
        ELSE IF x = Null THEN fail(L)
        ELSE IF o.form = "RST" THEN assign(L, x, IF x = "eflags" THEN {5} ELSE o.word)
        ELSE IF r = Null THEN crash(L)
        ELSE assign(K, x, o.word)
  BY DEF set_value
<1> HIDE DEF x, r, fits, K
<1>5. x # Null => assign(L, x, IF x = "eflags" THEN {5} ELSE o.word) \in Memory
                  /\ assign(K, x, o.word) \in Memory
  BY <1>1, <1>2, <1>3, AssignType
<1> QED
  BY <1>4, <1>5, FailType

LEMMA OptionType ==
  ASSUME NEW L \in Memory, NEW o \in Options
  PROVE  option(L, o) \in Memory
<1>1. o.opt = "value" => o.word \in SUBSET Bits
  BY Ia32emuAssumption DEF Options
<1>2. (o.opt = "register" => set_register(L, o) \in Memory) /\ fail(L) \in Memory
  BY SetRegisterType, FailType
<1>3. o.opt = "value" => set_value(L, o) \in Memory
  BY <1>1, SetValueType
<1>4. o.opt \in {"dst", "src"} => [L EXCEPT !.target = o.opt, !.set = TRUE] \in Memory
  BY DEF Memory
<1>5. [L EXCEPT !.operand["src"] = "immediate"] \in Memory
  <2> DEFINE a == [L.operand EXCEPT !["src"] = "immediate"]
  <2>1. a \in [dst : Operands, src : Operands]
    BY DEF Memory, Operands
  <2>2. [L EXCEPT !.operand["src"] = "immediate"] = [L EXCEPT !.operand = a]
    OBVIOUS
  <2> HIDE DEF a
  <2> QED
    BY <2>1, <2>2 DEF Memory
<1> DEFINE A == [L EXCEPT !.target = o.opt, !.set = TRUE]
           B == [L EXCEPT !.operand["src"] = "immediate"]
<1>6. option(L, o) =
        IF L.crashed THEN L ELSE
        CASE o.opt \in {"dst", "src"} -> A
          [] o.opt = "immediate" /\ L.target = "src" -> B
          [] o.opt = "register" -> set_register(L, o)
          [] o.opt = "value" -> set_value(L, o)
          [] OTHER -> fail(L)
  BY DEF option
<1>7. (o.opt \in {"dst", "src"} => A \in Memory) /\ B \in Memory
  BY <1>4, <1>5
<1> HIDE DEF A, B
<1> QED
  BY <1>2, <1>3, <1>6, <1>7

\* The getopt loop.
LEMMA OptionsType ==
  ASSUME NEW L \in Memory, NEW c \in Commands
  PROVE  FoldLeft(option, L, c.options) \in Memory
<1>1. c.options \in Seq(Range(c.options))
  BY Ia32emuAssumption
<1>2. PICK n \in Nat : DOMAIN c.options = 1..n
  BY <1>1
<1>3. \A k \in 1..n : c.options[k] \in Options
  BY <1>2 DEF Options, Range
<1>4. \A M \in Memory : \A k \in 1..n : option(M, c.options[k]) \in Memory
  BY <1>3, OptionType
<1> QED
  BY <1>2, <1>4, Folded
-----------------------------------------------------------------------------
(* Instructions.                                                           *)

LEMMA PutType ==
  ASSUME NEW w \in SUBSET Bits, NEW f \in Bits, NEW b
  PROVE  put(w, f, b) \in SUBSET Bits
BY DEF put

LEMMA ShiftFlagsType ==
  ASSUME NEW ins, NEW w, NEW cnt, NEW f \in SUBSET Bits
  PROVE  shift_flags(ins, w, cnt, f) \in SUBSET Bits
<1> DEFINE n == cnt % W
           out == rounds(ins, w, n - 1)
           left == ins \in {"SAL", "SHL"}
           carry == IF left THEN MSB(out) ELSE LSB(out)
           sign == MSB(rounds(ins, w, n))
           over == CASE left -> sign # carry [] ins = "SAR" -> FALSE [] OTHER -> sign
<1>1. shift_flags(ins, w, cnt, f) =
        IF n = 0 THEN f
        ELSE IF n # 1 THEN put(f, CF, carry) ELSE put(put(f, CF, carry), OF, over)
  BY DEF shift_flags
<1> HIDE DEF n, carry, over
<1>2. CF \in Bits /\ OF \in Bits
  BY TheBits DEF CF, OF
<1>3. put(f, CF, carry) \in SUBSET Bits
  BY <1>2, PutType
<1>4. put(put(f, CF, carry), OF, over) \in SUBSET Bits
  BY <1>2, <1>3, PutType
<1> QED
  BY <1>1, <1>3, <1>4

LEMMA SetEFLAGSType ==
  ASSUME NEW f \in SUBSET Bits, NEW ins, NEW dst, NEW src, NEW buf
  PROVE  setEFLAGS(f, ins, dst, src, buf) \in SUBSET Bits
<1> DEFINE t == put(put(f \ {CF, OF}, SF, MSB(buf)), PF, BitwiseXNOR(buf))
           flags == CASE ins = "SUB" /\ below(dst, src) -> f \cup {CF}
                      [] ins \in {"ADD", "TEST"} -> t
                      [] OTHER -> f
<1>1. setEFLAGS(f, ins, dst, src, buf) = put(flags, ZF, buf = {})
  BY DEF setEFLAGS
<1>2. CF \in Bits /\ PF \in Bits /\ SF \in Bits /\ ZF \in Bits
  BY TheBits DEF CF, PF, SF, ZF
<1>3. t \in SUBSET Bits
  <2>1. put(f \ {CF, OF}, SF, MSB(buf)) \in SUBSET Bits
    BY <1>2, PutType
  <2> QED
    BY <1>2, <2>1, PutType
<1> HIDE DEF t
<1>4. flags \in SUBSET Bits
  BY <1>2, <1>3
<1> HIDE DEF flags
<1> QED
  BY <1>1, <1>2, <1>4, PutType

LEMMA BufferType ==
  ASSUME NEW ins, NEW dst \in SUBSET Bits, NEW src \in SUBSET Bits
  PROVE  buffer(ins, dst, src) \in SUBSET Bits
<1>1. minus(src) \in SUBSET Bits
  BY DEF minus
<1> QED
  BY <1>1 DEF buffer

\* Writing the flags first.
LEMMA FlagsType ==
  ASSUME NEW L \in Memory, NEW f \in SUBSET Bits
  PROVE  /\ [L EXCEPT !.reg["eflags"] = f] \in Memory
         /\ [L EXCEPT !.reg["eflags"] = f].reg["eflags"] = f
         /\ [L EXCEPT !.reg["eflags"] = f].e = L.e
         /\ [L EXCEPT !.reg["eflags"] = f].crashed = L.crashed
<1> DEFINE r == [L.reg EXCEPT !["eflags"] = f]
<1>1. r \in Registers /\ r["eflags"] = f
  BY TheOrder DEF Memory, Registers
<1>2. [L EXCEPT !.reg["eflags"] = f] = [L EXCEPT !.reg = r]
  OBVIOUS
<1> HIDE DEF r
<1>3. /\ [L EXCEPT !.reg = r] \in Memory /\ [L EXCEPT !.reg = r].reg = r
      /\ [L EXCEPT !.reg = r].e = L.e /\ [L EXCEPT !.reg = r].crashed = L.crashed
  BY <1>1 DEF Memory
<1> QED
  BY <1>1, <1>2, <1>3

LEMMA ShiftInstructionType ==
  ASSUME NEW L \in Memory, NEW ins, NEW cnt \in Nat
  PROVE  shift_instruction(L, ins, cnt) \in Memory
<1> DEFINE x == L.operand["dst"]
           buf == shift("SAR", value(L, x), cnt)
           flags == put(shift_flags("SAR", value(L, x), cnt, L.reg["eflags"]), ZF, buf = {})
           M == [L EXCEPT !.reg["eflags"] = flags]
<1>1. x \in Operands
  BY OperandType
<1>2. flags \in SUBSET Bits
  <2>1. L.reg["eflags"] \in SUBSET Bits /\ ZF \in Bits
    BY TheOrder, TheBits DEF Memory, Registers, ZF
  <2>2. shift_flags("SAR", value(L, x), cnt, L.reg["eflags"]) \in SUBSET Bits
    BY <2>1, ShiftFlagsType
  <2> QED
    BY <2>1, <2>2, PutType
<1>3. ASSUME x # Null PROVE buf \in SUBSET Bits
  <2>1. value(L, x) \in SUBSET Bits
    BY <1>1, <1>3, ValueType
  <2>2. cnt % W \in Nat
    BY Ia32emuAssumption DEF OF
  <2> QED
    BY <2>1, <2>2, ShiftType DEF shift
<1>4. shift_instruction(L, ins, cnt) = IF x = Null THEN fail(L) ELSE assign(M, x, buf)
  BY DEF shift_instruction
<1> HIDE DEF flags, buf, x
<1>5. M \in Memory
  BY <1>2, FlagsType
<1> HIDE DEF M
<1> QED
  BY <1>1, <1>3, <1>4, <1>5, AssignType, FailType

LEMMA BinaryInstructionType ==
  ASSUME NEW L \in Memory, NEW ins
  PROVE  binary_instruction(L, ins) \in Memory
<1> DEFINE x == L.operand["dst"]
           y == L.operand["src"]
           buf == buffer(ins, value(L, x), value(L, y))
           flags == setEFLAGS(L.reg["eflags"], ins, value(L, x), value(L, y), buf)
           M == [L EXCEPT !.reg["eflags"] = flags]
           same == L.size[L.register["src"]] = L.size[L.register["dst"]]
<1>1. x \in Operands /\ y \in Operands
  BY OperandType
<1>2. flags \in SUBSET Bits
  <2>1. L.reg["eflags"] \in SUBSET Bits
    BY TheOrder DEF Memory, Registers
  <2> QED
    BY <2>1, SetEFLAGSType
<1>3. ASSUME x # Null, y # Null PROVE buf \in SUBSET Bits
  <2>1. value(L, x) \in SUBSET Bits /\ value(L, y) \in SUBSET Bits
    BY <1>1, <1>3, ValueType
  <2> QED
    BY <2>1, BufferType
<1>4. binary_instruction(L, ins) =
        IF x = Null \/ y = Null THEN fail(L)
        ELSE IF L.register["src"] = Null THEN crash(L)
        ELSE IF ~same THEN fail(L)
        ELSE IF ins = "TEST" THEN M ELSE assign(M, x, buf)
  BY DEF binary_instruction
<1> HIDE DEF flags, buf, x, y, same
<1>5. M \in Memory
  BY <1>2, FlagsType
<1> HIDE DEF M
<1> QED
  BY <1>1, <1>3, <1>4, <1>5, AssignType, FailType

LEMMA MainType ==
  ASSUME NEW L \in Memory, NEW c \in Commands
  PROVE  main(L, c) \in Memory
<1> DEFINE M == FoldLeft(option, L, c.options)
           A == [M EXCEPT !.jump = M.reg["ecx"] = {}, !.size["ecx"] = 32]
           B == [M EXCEPT !.jump = c.ins \in jumps(M.reg["eflags"])]
<1>1. M \in Memory
  BY OptionsType
<1>2. main(L, c) =
        IF M.crashed \/ M.e # 0 THEN M ELSE
        CASE c.ins \in Shifts -> shift_instruction(M, c.ins, c.count)
          [] c.ins \in Binary -> binary_instruction(M, c.ins)
          [] c.ins = "JCXZ" -> crash(M)
          [] c.ins = "JECXZ" -> A
          [] c.ins \in Jumps -> B
          [] OTHER -> fail(M)
  BY DEF main
<1> HIDE DEF M
<1>3. /\ shift_instruction(M, c.ins, c.count) \in Memory /\ binary_instruction(M, c.ins) \in Memory
      /\ crash(M) \in Memory /\ fail(M) \in Memory
  BY <1>1, Ia32emuAssumption, ShiftInstructionType, BinaryInstructionType, FailType
<1>4. A \in Memory
  <2> DEFINE s == [M.size EXCEPT !["ecx"] = 32]
             j == M.reg["ecx"] = {}
  <2>1. s \in [Names -> Sizes] /\ j \in BOOLEAN
    BY <1>1, TheOrder DEF Memory, Sizes
  <2>2. A = [M EXCEPT !.jump = j, !.size = s]
    BY <1>1 DEF Memory
  <2> HIDE DEF s, j, A
  <2> QED
    BY <1>1, <2>1, <2>2 DEF Memory
<1>5. B \in Memory
  <2> DEFINE j == c.ins \in jumps(M.reg["eflags"])
  <2>1. j \in BOOLEAN
    OBVIOUS
  <2> HIDE DEF j
  <2>2. [M EXCEPT !.jump = j] \in Memory
    BY <1>1, <2>1 DEF Memory
  <2> QED
    BY <2>2 DEF j
<1> HIDE DEF A, B
<1> QED
  BY <1>1, <1>2, <1>3, <1>4, <1>5
LEMMA JumpNames ==
  /\ \A j \in Jumps : j \notin Shifts /\ j \notin Binary /\ j # "JCXZ" /\ j # "JECXZ" /\ j # Null
  /\ "TEST" \notin Jumps /\ "TEST" \notin Shifts /\ "TEST" \in Binary
<1>1. \A f : \A j \in jumps(f) : j \notin Shifts /\ j \notin Binary /\ j # "JCXZ" /\ j # "JECXZ" /\ j # Null
  BY DEF jumps, Shifts, Binary, Null
<1>2. "TEST" \notin Shifts /\ "TEST" \in Binary
  BY DEF Shifts, Binary
<1> QED
  BY <1>1, <1>2 DEF Jumps

\* The getopt loop without options.
LEMMA NoOptions ==
  ASSUME NEW L
  PROVE  FoldLeft(option, L, <<>>) = L
<1> DEFINE seq == <<>>
<1>1. L \in {L} /\ 0 \in Nat /\ DOMAIN seq = 1..0 /\ \A M \in {L} : \A k \in 1..0 : option(M, seq[k]) \in {L}
  OBVIOUS
<1> HIDE DEF seq
<1>2. FoldLeft(option, L, seq) \in {L}
  BY <1>1, Folded
<1> QED
  BY <1>2 DEF seq

\* The flags of registers$init are those of the segment but for the reserved
\* bits.
LEMMA FreshFlags ==
  ASSUME NEW reg \in Registers
  PROVE  /\ \A w : FlagsOf(reg["eflags"], w) => FlagsOf(Fresh(reg).reg["eflags"], w)
         /\ Fresh(reg).e = 0 /\ Fresh(reg).crashed = FALSE
<1>1. Fresh(reg).reg = [reg EXCEPT !["eflags"] = (@ \cup {1}) \ {3, 5, 15}]
  BY DEF Fresh
<1>2. Fresh(reg).reg["eflags"] = (reg["eflags"] \cup {1}) \ {3, 5, 15}
  BY <1>1, TheOrder DEF Registers
<1>3. Fresh(reg).e = 0 /\ Fresh(reg).crashed = FALSE
  BY DEF Fresh
<1> QED
  BY <1>2, <1>3 DEF FlagsOf, CF, OF, SF, PF, ZF

\* A jump asks the flags, and leaves the registers alone.
LEMMA JumpAsks ==
  ASSUME NEW reg \in Registers, NEW c \in Commands, c.ins \in Jumps, c.options = <<>>
  PROVE  /\ main(Fresh(reg), c).reg = Fresh(reg).reg
         /\ main(Fresh(reg), c).jump = (c.ins \in jumps(Fresh(reg).reg["eflags"]))
<1> DEFINE L == Fresh(reg)
           j == c.ins \in jumps(L.reg["eflags"])
<1>1. L \in Memory /\ L.e = 0 /\ L.crashed = FALSE
  BY FreshType, FreshFlags
<1>2. FoldLeft(option, L, c.options) = L
  BY NoOptions
<1>3. c.ins \notin Shifts /\ c.ins \notin Binary /\ c.ins # "JCXZ" /\ c.ins # "JECXZ"
  BY JumpNames
<1> HIDE DEF L
<1>4. main(L, c) = [L EXCEPT !.jump = j]
  BY <1>1, <1>2, <1>3 DEF main
<1>5. main(L, c).reg = L.reg /\ main(L, c).jump = j
  <2> HIDE DEF j
  <2> QED
    BY <1>1, <1>4 DEF Memory
<1> QED
  BY <1>5 DEF L

\* A TEST that is executed has two operands, and its flags are those of their
\* conjunction.
LEMMA TestFlags ==
  ASSUME NEW L \in Memory, NEW c \in Commands, c.ins = "TEST",
         ~main(L, c).crashed, main(L, c).e = 0,
         NEW S, S = FoldLeft(option, L, c.options)
  PROVE  LET w == value(S, S.operand["dst"]) \cap value(S, S.operand["src"])
         IN  w \in SUBSET Bits /\ FlagsOf(main(L, c).reg["eflags"], w)
<1> DEFINE x == S.operand["dst"]
           y == S.operand["src"]
           w == value(S, x) \cap value(S, y)
           flags == setEFLAGS(S.reg["eflags"], "TEST", value(S, x), value(S, y), w)
           same == S.size[S.register["src"]] = S.size[S.register["dst"]]
<1>1. S \in Memory
  BY OptionsType
<1>2. c.ins \notin Shifts /\ c.ins \in Binary /\ c.ins \notin Jumps
  BY JumpNames
<1>3. ~S.crashed /\ S.e = 0
  <2>1. S.crashed \/ S.e # 0 => main(L, c) = S
    BY <1>2 DEF main
  <2> QED
    BY <2>1
<1>4. main(L, c) = binary_instruction(S, "TEST")
  BY <1>2, <1>3 DEF main
<1>5. buffer("TEST", value(S, x), value(S, y)) = w
  BY DEF buffer
<1>6. binary_instruction(S, "TEST") =
        IF x = Null \/ y = Null THEN fail(S)
        ELSE IF S.register["src"] = Null THEN crash(S)
        ELSE IF ~same THEN fail(S)
        ELSE [S EXCEPT !.reg["eflags"] = flags]
  BY <1>5 DEF binary_instruction
<1>7. fail(S).e = 1 /\ crash(S).crashed
  BY <1>1 DEF fail, crash, Memory
<1>8. x # Null /\ y # Null /\ main(L, c) = [S EXCEPT !.reg["eflags"] = flags]
  BY <1>4, <1>6, <1>7
<1>9. w \in SUBSET Bits
  <2>1. x \in Operands
    BY <1>1, OperandType
  <2>2. value(S, x) \in SUBSET Bits
    BY <1>1, <1>8, <2>1, ValueType
  <2> QED
    BY <2>2
<1>10. flags \in SUBSET Bits
  <2>1. S.reg["eflags"] \in SUBSET Bits
    BY <1>1, TheOrder DEF Memory, Registers
  <2> QED
    BY <2>1, SetEFLAGSType
<1>11. FlagsOf(flags, w)
  <2>1. flags = put(put(put(S.reg["eflags"] \ {CF, OF}, SF, MSB(w)), PF, BitwiseXNOR(w)), ZF, w = {})
    BY DEF setEFLAGS
  <2> HIDE DEF flags, w
  <2> QED
    BY <2>1 DEF FlagsOf, put, CF, OF, SF, PF, ZF
<1>12. main(L, c).reg["eflags"] = flags
  <2> HIDE DEF flags
  <2> QED
    BY <1>1, <1>8, <1>10, FlagsType
<1> QED
  BY <1>9, <1>11, <1>12

-----------------------------------------------------------------------------
(* Types and flags are kept.                                               *)

TypeInv == TypeOK /\ local \in [Procs -> Memory]

\* As long as tested says something, the flags of the segment, or those an
\* invocation is about to store, are those of the latest TEST.
TestInv ==
  /\ disturbed => tested = {}
  /\ \A w \in tested : FlagsOf(ideal["eflags"], w)
  /\ TestThenJump

TInv == TypeInv /\ TestInv

\* The part of TypeOK about local memory follows from the other.
LEMMA LocalType ==
  ASSUME local \in [Procs -> Memory]
  PROVE  \A p \in Procs : /\ local[p].reg \in [Names -> SUBSET Bits]
                          /\ local[p].immediate \subseteq Bits
                          /\ local[p].e \in {0, 1} /\ local[p].jump \in BOOLEAN
BY DEF Memory, Registers

LEMMA ClearType == Zero \in Registers /\ Clear \in Memory
<1>1. Zero \in Registers
  BY DEF Zero, Registers
<1> QED
  BY <1>1, FreshType DEF Clear

LEMMA TypeInit == Init => TInv
<1> SUFFICES ASSUME Init PROVE TInv
  OBVIOUS
<1>1. PICK v \in Values, w \in Values : words = [Zero EXCEPT !["eax"] = v, !["ebx"] = w]
  BY DEF Init
<1>2. words \in Registers /\ ideal = words
  BY <1>1, Ia32emuAssumption DEF Init, Zero, Registers
<1>3. local \in [Procs -> Memory]
  BY ClearType DEF Init
<1>4. at \in [Procs -> 0..Final] /\ runs \in 0..MaxRuns /\ tested \subseteq SUBSET Bits
  BY TheOrder, Ia32emuAssumption DEF Init
<1>5. TypeInv
  BY <1>2, <1>3, <1>4, LocalType DEF TypeInv, TypeOK, Registers
<1>6. TestInv
  BY DEF Init, TestInv, TestThenJump
<1> QED
  BY <1>5, <1>6 DEF TInv

LEMMA TypeStart ==
  ASSUME TInv, NEW p \in Procs, start(p)
  PROVE  TInv'
<1>1. /\ at[p] = 0 /\ at' = [at EXCEPT ![p] = 1] /\ words' = words /\ local' = local
      /\ runs < MaxRuns /\ runs' = runs + 1
  BY DEF start
<1>2. \/ disturbed' = TRUE /\ ideal' = Zero /\ tested' = {}
      \/ disturbed' = disturbed /\ ideal' = ideal /\ tested' = tested
  BY DEF start, disturb
<1>3. at' \in [Procs -> 0..Final] /\ runs' \in 0..MaxRuns
  BY <1>1, TheOrder, Ia32emuAssumption DEF TInv, TypeInv, TypeOK
<1>4. tested' \subseteq SUBSET Bits /\ ideal' \in [Names -> SUBSET Bits]
  BY <1>2, ClearType DEF TInv, TypeInv, TypeOK, Registers
<1>5. TypeInv'
  BY <1>1, <1>3, <1>4 DEF TInv, TypeInv, TypeOK
<1>6. TestThenJump'
  <2> SUFFICES ASSUME NEW q \in Procs, at'[q] > Execute, local'[q].ins \in Jumps, NEW w \in tested'
               PROVE  local'[q].jump = (local'[q].ins \in Taken(w))
    BY DEF TestThenJump
  <2>1. w \in tested
    BY <1>2
  <2>2. q # p /\ at'[q] = at[q]
    BY <1>1, TheOrder DEF TInv, TypeInv, TypeOK
  <2> QED
    BY <1>1, <2>1, <2>2 DEF TInv, TestInv, TestThenJump
<1>7. TestInv'
  BY <1>2, <1>6 DEF TInv, TestInv
<1> QED
  BY <1>5, <1>7 DEF TInv

LEMMA TypeLoad ==
  ASSUME TInv, NEW p \in Procs, load(p)
  PROVE  TInv'
<1> DEFINE n == Order[at[p]]
           reg == [local[p].reg EXCEPT ![n] = words[n]]
           M == IF at[p] = 5 THEN Fresh(reg) ELSE [local[p] EXCEPT !.reg = reg]
<1>1. /\ at[p] \in 1..5 /\ at' = [at EXCEPT ![p] = at[p] + 1]
      /\ local' = [local EXCEPT ![p] = M]
      /\ UNCHANGED <<words, runs, ideal, tested, disturbed>>
  BY TheOrder DEF load
<1>2. local[p] \in Memory /\ n \in Names /\ words[n] \in SUBSET Bits
  BY <1>1, TheOrder DEF TInv, TypeInv, TypeOK
<1>3. reg \in Registers
  <2> HIDE DEF n
  <2> QED
    BY <1>2 DEF Memory, Registers
<1>4. M \in Memory
  <2> HIDE DEF reg
  <2>1. [local[p] EXCEPT !.reg = reg] \in Memory
    BY <1>2, <1>3 DEF Memory
  <2> QED
    BY <1>3, <2>1, FreshType
<1> HIDE DEF M
<1>5. local' \in [Procs -> Memory] /\ \A q \in Procs : q # p => local'[q] = local[q] /\ at'[q] = at[q]
  BY <1>1, <1>4 DEF TInv, TypeInv, TypeOK
<1>6. at' \in [Procs -> 0..Final] /\ at'[p] = at[p] + 1
  BY <1>1, TheOrder DEF TInv, TypeInv, TypeOK
<1>7. TypeInv'
  <2>1. \A q \in Procs : /\ local'[q].reg \in [Names -> SUBSET Bits]
                         /\ local'[q].immediate \subseteq Bits
                         /\ local'[q].e \in {0, 1} /\ local'[q].jump \in BOOLEAN
    BY <1>5 DEF Memory, Registers
  <2> QED
    BY <1>1, <1>5, <1>6, <2>1 DEF TInv, TypeInv, TypeOK
<1>8. TestThenJump'
  <2> SUFFICES ASSUME NEW q \in Procs, at'[q] > Execute, local'[q].ins \in Jumps, NEW w \in tested'
               PROVE  local'[q].jump = (local'[q].ins \in Taken(w))
    BY DEF TestThenJump
  <2>1. q # p
    BY <1>1, <1>6, TheOrder
  <2> QED
    BY <1>1, <1>5, <2>1 DEF TInv, TestInv, TestThenJump
<1>9. TestInv'
  BY <1>1, <1>8 DEF TInv, TestInv
<1> QED
  BY <1>7, <1>9 DEF TInv
LEMMA TypeExecute ==
  ASSUME IInv, TInv, NEW p \in Procs, NEW c \in Commands, execute(p, c)
  PROVE  TInv'
<1> DEFINE L == main(local[p], c)
           S == FoldLeft(option, Fresh(ideal), c.options)
           T == main(Fresh(ideal), c)
           w == value(S, S.operand["dst"]) \cap value(S, S.operand["src"])
           M == [Clear EXCEPT !.reg = L.reg, !.jump = L.jump,
                              !.ins = IF c.ins \in Jumps THEN c.ins ELSE Null]
<1>1. ideal \in Registers /\ local[p] \in Memory
  BY DEF TInv, TypeInv, TypeOK, Registers
<1>2. L \in Memory /\ T \in Memory
  BY <1>1, MainType, FreshType
<1>3. T = main(Fresh(ideal), c) /\ S = FoldLeft(option, Fresh(ideal), c.options)
  OBVIOUS
<1>4. /\ at[p] = 6 /\ at' = [at EXCEPT ![p] = IF L.crashed THEN 0 ELSE at[p] + 1]
      /\ local' = [local EXCEPT ![p] = IF L.crashed THEN Clear ELSE M]
      /\ UNCHANGED <<words, runs, disturbed>>
  BY TheOrder DEF execute
<1>5. disturbed \/ L.crashed => ideal' = ideal /\ tested' = tested
  BY DEF execute
<1>6. ~disturbed /\ ~L.crashed =>
        /\ ideal' = [n \in Names |-> T.reg[n]]
        /\ tested' = CASE c.ins \in Jumps /\ c.options = <<>> -> tested
                       [] c.ins = "TEST" /\ T.e = 0 -> {w}
                       [] OTHER -> {}
  BY DEF execute
<1>7. ~disturbed => local[p] = Fresh(ideal) /\ \A q \in Procs : q # p => at[q] = 0
  BY <1>4, TheOrder DEF IInv, Loading, Alone
<1>8. ~disturbed => L = T
  BY <1>7
<1> HIDE DEF L, S, T, w
<1>9. M \in Memory /\ M.jump = L.jump /\ M.ins = IF c.ins \in Jumps THEN c.ins ELSE Null
  BY <1>2, ClearType DEF Memory
<1> HIDE DEF M
<1>10. /\ local' \in [Procs -> Memory]
       /\ local'[p] = IF L.crashed THEN Clear ELSE M
       /\ \A q \in Procs : q # p => at'[q] = at[q] /\ local'[q] = local[q]
       /\ at'[p] = IF L.crashed THEN 0 ELSE 7
  BY <1>4, <1>9, ClearType DEF TInv, TypeInv, TypeOK
<1>11. CASE disturbed \/ L.crashed
  <2>1. ideal' = ideal /\ tested' = tested
    BY <1>5, <1>11
  <2>2. TestThenJump'
    <3> SUFFICES ASSUME NEW q \in Procs, at'[q] > Execute, local'[q].ins \in Jumps, NEW v \in tested'
                 PROVE  local'[q].jump = (local'[q].ins \in Taken(v))
      BY DEF TestThenJump
    <3>1. ~disturbed
      BY <2>1 DEF TInv, TestInv
    <3>2. at'[p] = 0
      BY <1>10, <1>11, <3>1
    <3>3. q # p
      BY <3>2, TheOrder
    <3> QED
      BY <1>10, <2>1, <3>3 DEF TInv, TestInv, TestThenJump
  <2>3. TestInv'
    BY <1>4, <2>1, <2>2 DEF TInv, TestInv
  <2>4. TypeInv'
    <3>1. at' \in [Procs -> 0..Final]
      <4>1. (IF L.crashed THEN 0 ELSE at[p] + 1) \in 0..Final
        BY <1>4, TheOrder
      <4> QED
        BY <1>4, <4>1 DEF TInv, TypeInv, TypeOK
    <3>2. \A q \in Procs : /\ local'[q].reg \in [Names -> SUBSET Bits]
                           /\ local'[q].immediate \subseteq Bits
                           /\ local'[q].e \in {0, 1} /\ local'[q].jump \in BOOLEAN
      BY <1>10 DEF Memory, Registers
    <3> QED
      BY <1>4, <1>10, <2>1, <3>1, <3>2 DEF TInv, TypeInv, TypeOK
  <2> QED
    BY <2>3, <2>4 DEF TInv
<1>12. CASE ~disturbed /\ ~L.crashed
  <2>1. /\ L = T /\ ideal' = [n \in Names |-> T.reg[n]]
        /\ at'[p] = 7 /\ local'[p] = M /\ \A q \in Procs : q # p => at'[q] = 0
    BY <1>6, <1>7, <1>8, <1>10, <1>12
  <2>2. ideal' \in Registers /\ ideal'["eflags"] = T.reg["eflags"]
    BY <1>2, <2>1, TheOrder DEF Memory, Registers
  <2>3. ASSUME c.ins \in Jumps, c.options = <<>>
        PROVE  /\ tested' \subseteq SUBSET Bits
               /\ \A v \in tested' : FlagsOf(ideal'["eflags"], v) /\ M.jump = (M.ins \in Taken(v))
    <3>1. tested' = tested
      BY <1>6, <1>12, <2>3, JumpNames
    <3>2. T.reg = Fresh(ideal).reg /\ T.jump = (c.ins \in jumps(Fresh(ideal).reg["eflags"]))
      BY <1>1, <1>3, <2>3, JumpAsks
    <3>3. \A v \in tested : FlagsOf(Fresh(ideal).reg["eflags"], v) /\ v \in SUBSET Bits
      BY <1>1, FreshFlags DEF TInv, TestInv, TypeInv, TypeOK
    <3>4. \A v \in tested : jumps(Fresh(ideal).reg["eflags"]) = Taken(v)
      BY <3>3, JumpsOfTest
    <3>5. M.ins = c.ins /\ M.jump = T.jump
      BY <1>9, <2>1, <2>3
    <3>6. \A v \in tested' : FlagsOf(ideal'["eflags"], v) /\ M.jump = (M.ins \in Taken(v))
      BY <2>2, <3>1, <3>2, <3>3, <3>4, <3>5
    <3>7. tested' \subseteq SUBSET Bits
      BY <3>1 DEF TInv, TypeInv, TypeOK
    <3> QED
      BY <3>6, <3>7
  <2>4. ASSUME c.ins = "TEST", T.e = 0
        PROVE  /\ tested' \subseteq SUBSET Bits /\ M.ins \notin Jumps
               /\ \A v \in tested' : FlagsOf(ideal'["eflags"], v)
    <3>1. tested' = {w} /\ M.ins = Null
      BY <1>6, <1>9, <1>12, <2>4, JumpNames
    <3>2. ~main(Fresh(ideal), c).crashed /\ main(Fresh(ideal), c).e = 0 /\ Fresh(ideal) \in Memory
      BY <1>1, <1>3, <1>12, <2>1, <2>4, FreshType
    <3>3. w \in SUBSET Bits /\ FlagsOf(main(Fresh(ideal), c).reg["eflags"], w)
      BY <1>3, <2>4, <3>2, TestFlags DEF w
    <3>4. FlagsOf(T.reg["eflags"], w)
      BY <1>3, <3>3
    <3>5. M.ins \notin Jumps
      BY <3>1, JumpNames
    <3> QED
      BY <2>2, <3>1, <3>3, <3>4, <3>5
  <2>5. ~(c.ins \in Jumps /\ c.options = <<>>) /\ ~(c.ins = "TEST" /\ T.e = 0) => tested' = {}
    BY <1>6, <1>12
  <2>6. /\ tested' \subseteq SUBSET Bits /\ \A v \in tested' : FlagsOf(ideal'["eflags"], v)
        /\ M.ins \in Jumps => \A v \in tested' : M.jump = (M.ins \in Taken(v))
    BY <2>3, <2>4, <2>5
  <2>7. TestThenJump'
    <3> SUFFICES ASSUME NEW q \in Procs, at'[q] > Execute, local'[q].ins \in Jumps, NEW v \in tested'
                 PROVE  local'[q].jump = (local'[q].ins \in Taken(v))
      BY DEF TestThenJump
    <3>1. q = p
      BY <2>1, TheOrder
    <3> QED
      BY <2>1, <2>6, <3>1
  <2>8. TestInv'
    BY <1>4, <1>12, <2>6, <2>7 DEF TInv, TestInv
  <2>9. TypeInv'
    <3>1. at' \in [Procs -> 0..Final]
      <4>1. (IF L.crashed THEN 0 ELSE at[p] + 1) \in 0..Final
        BY <1>4, TheOrder
      <4> QED
        BY <1>4, <4>1 DEF TInv, TypeInv, TypeOK
    <3>2. \A q \in Procs : /\ local'[q].reg \in [Names -> SUBSET Bits]
                           /\ local'[q].immediate \subseteq Bits
                           /\ local'[q].e \in {0, 1} /\ local'[q].jump \in BOOLEAN
      BY <1>10 DEF Memory, Registers
    <3> QED
      BY <1>4, <1>10, <2>2, <2>6, <3>1, <3>2 DEF TInv, TypeInv, TypeOK, Registers
  <2> QED
    BY <2>8, <2>9 DEF TInv
<1> QED
  BY <1>11, <1>12

LEMMA TypeStore ==
  ASSUME TInv, NEW p \in Procs, store(p)
  PROVE  TInv'
<1> DEFINE n == Order[at[p] - 6]
<1>1. /\ at[p] \in 7..11 /\ at' = [at EXCEPT ![p] = IF at[p] = 11 THEN 0 ELSE at[p] + 1]
      /\ words' = [words EXCEPT ![n] = local[p].reg[n]]
      /\ local' = IF at[p] = 11 THEN [local EXCEPT ![p] = Clear] ELSE local
      /\ UNCHANGED <<runs, ideal, tested, disturbed>>
  BY TheOrder DEF store
<1>2. n \in Names
  BY <1>1, TheOrder
<1> HIDE DEF n
<1>3. words' \in [Names -> SUBSET Bits]
  <2>1. local[p].reg[n] \in SUBSET Bits
    BY <1>2 DEF TInv, TypeInv, TypeOK
  <2> QED
    BY <1>1, <1>2, <2>1 DEF TInv, TypeInv, TypeOK
<1>4. local' \in [Procs -> Memory] /\ \A q \in Procs : local'[q] = local[q] \/ (q = p /\ at[p] = 11)
  BY <1>1, ClearType DEF TInv, TypeInv, TypeOK
<1>5. at' \in [Procs -> 0..Final] /\ \A q \in Procs : q # p => at'[q] = at[q]
  <2>1. (IF at[p] = 11 THEN 0 ELSE at[p] + 1) \in 0..Final
    BY <1>1, TheOrder
  <2> QED
    BY <1>1, <2>1 DEF TInv, TypeInv, TypeOK
<1>6. at[p] = 11 => at'[p] = 0
  BY <1>1 DEF TInv, TypeInv, TypeOK
<1>7. TypeInv'
  <2>1. \A q \in Procs : /\ local'[q].reg \in [Names -> SUBSET Bits]
                         /\ local'[q].immediate \subseteq Bits
                         /\ local'[q].e \in {0, 1} /\ local'[q].jump \in BOOLEAN
    BY <1>4 DEF Memory, Registers
  <2> QED
    BY <1>1, <1>3, <1>4, <1>5, <2>1 DEF TInv, TypeInv, TypeOK
<1>8. TestThenJump'
  <2> SUFFICES ASSUME NEW q \in Procs, at'[q] > Execute, local'[q].ins \in Jumps, NEW w \in tested'
               PROVE  local'[q].jump = (local'[q].ins \in Taken(w))
    BY DEF TestThenJump
  <2>1. ~(q = p /\ at[p] = 11)
    BY <1>6, TheOrder
  <2>2. local'[q] = local[q] /\ at[q] > Execute
    BY <1>1, <1>4, <1>5, <2>1, TheOrder
  <2> QED
    BY <1>1, <2>2 DEF TInv, TestInv, TestThenJump
<1>9. TestInv'
  BY <1>1, <1>8 DEF TInv, TestInv
<1> QED
  BY <1>7, <1>9 DEF TInv

LEMMA TypeDie ==
  ASSUME TInv, NEW p \in Procs, die(p)
  PROVE  TInv'
<1>1. /\ at' = [at EXCEPT ![p] = 0] /\ words' = words
      /\ local' = [local EXCEPT ![p] = Clear] /\ runs' = runs
  BY DEF die
<1>2. \/ disturbed' = TRUE /\ ideal' = Zero /\ tested' = {}
      \/ disturbed' = disturbed /\ ideal' = ideal /\ tested' = tested
  BY DEF die, disturb
<1>3. /\ at' \in [Procs -> 0..Final] /\ local' \in [Procs -> Memory] /\ at'[p] = 0
      /\ \A q \in Procs : q # p => at'[q] = at[q] /\ local'[q] = local[q]
  BY <1>1, TheOrder, ClearType DEF TInv, TypeInv, TypeOK
<1>4. tested' \subseteq SUBSET Bits /\ ideal' \in [Names -> SUBSET Bits]
  BY <1>2, ClearType DEF TInv, TypeInv, TypeOK, Registers
<1>5. TypeInv'
  <2>1. \A q \in Procs : /\ local'[q].reg \in [Names -> SUBSET Bits]
                         /\ local'[q].immediate \subseteq Bits
                         /\ local'[q].e \in {0, 1} /\ local'[q].jump \in BOOLEAN
    BY <1>3 DEF Memory, Registers
  <2> QED
    BY <1>1, <1>3, <1>4, <2>1 DEF TInv, TypeInv, TypeOK
<1>6. TestThenJump'
  <2> SUFFICES ASSUME NEW q \in Procs, at'[q] > Execute, local'[q].ins \in Jumps, NEW w \in tested'
               PROVE  local'[q].jump = (local'[q].ins \in Taken(w))
    BY DEF TestThenJump
  <2>1. w \in tested
    BY <1>2
  <2>2. q # p
    BY <1>3, TheOrder
  <2> QED
    BY <1>3, <2>1, <2>2 DEF TInv, TestInv, TestThenJump
<1>7. TestInv'
  BY <1>2, <1>6 DEF TInv, TestInv
<1> QED
  BY <1>5, <1>7 DEF TInv

LEMMA TypeNext == IInv /\ TInv /\ [Next]_vars => TInv'
<1> SUFFICES ASSUME IInv, TInv, [Next]_vars PROVE TInv'
  OBVIOUS
<1>1. CASE UNCHANGED vars
  BY <1>1 DEF vars, TInv, TypeInv, TypeOK, TestInv, TestThenJump
<1>2. ASSUME NEW p \in Procs, start(p) PROVE TInv'
  BY <1>2, TypeStart
<1>3. ASSUME NEW p \in Procs, load(p) PROVE TInv'
  BY <1>3, TypeLoad
<1>4. ASSUME NEW p \in Procs, store(p) PROVE TInv'
  BY <1>4, TypeStore
<1>5. ASSUME NEW p \in Procs, die(p) PROVE TInv'
  BY <1>5, TypeDie
<1>6. ASSUME NEW p \in Procs, NEW c \in Commands, execute(p, c) PROVE TInv'
  BY <1>6, TypeExecute
<1> QED
  BY <1>1, <1>2, <1>3, <1>4, <1>5, <1>6 DEF Next

\* Both invariants: the second needs the first, which knows that an
\* invocation that is alone executes on the ideal registers.
THEOREM FlagsInvariantHolds == Spec => []TInv
<1> QED
  BY TypeInit, TypeNext, InvariantHolds, PTL DEF Spec

\* No instruction, option or interleaving takes a register out of its width,
\* the borrow of SUB and the shifts included.
THEOREM TypeCorrect == Spec => []TypeOK
<1>1. TInv => TypeOK
  BY DEF TInv, TypeInv
<1> QED
  BY <1>1, FlagsInvariantHolds, PTL

\* The flags of a TEST reach the next invocation, for every word width, every
\* operand and every jump: the five flags that setEFLAGS computes from bits
\* decide as the comparison of the signed result with 0 does.
THEOREM TestThenJumpHolds == Spec => []TestThenJump
<1>1. TInv => TestThenJump
  BY DEF TInv, TestInv
<1> QED
  BY <1>1, FlagsInvariantHolds, PTL

\* shift divides and multiplies as its comments say, whatever is in the
\* segment: the rounds of its loop, one bit each, are division by 2^n.
THEOREM ShiftsDivideHolds == Spec => []ShiftsDivide
<1>1. TInv => ShiftsDivide
  <2> SUFFICES ASSUME TInv, NEW n \in Bits, NEW w \in Range(words)
               PROVE  /\ signed(shift("SAR", w, n)) = signed(w) \div pow2(n)
                      /\ number(shift("SHR", w, n)) = number(w) \div pow2(n)
                      /\ number(shift("SHL", w, n)) = (number(w) * pow2(n)) % pow2(W)
    BY DEF ShiftsDivide
  <2>1. w \in SUBSET Bits
    BY DEF TInv, TypeInv, TypeOK, Range
  <2> QED
    BY <2>1, ShiftLaws
<1> QED
  BY <1>1, FlagsInvariantHolds, PTL

==============================================================================
