----------------------------- MODULE WordProofs ------------------------------
(***************************************************************************)
(* What shift and the flags of a TEST compute, for words of any width: the *)
(* lemmas about rounds, number and pow2 of Ia32emu, by induction on the    *)
(* rounds and on the bits.  Induction is the least counterexample: a set   *)
(* of naturals that is not empty has a least element.                      *)
(***************************************************************************)
EXTENDS Ia32emu, WellFoundedInduction, TLAPS

-----------------------------------------------------------------------------
(* Induction and recursion.                                                *)

\* Every set of naturals that is not empty has a least element.
LEMMA Least ==
  ASSUME NEW T, T \subseteq Nat, T # {}
  PROVE  \E x \in T : \A y \in T : x <= y
<1> DEFINE R == OpToRel(<, Nat)
<1>1. IsWellFoundedOn(R, Nat)
  BY NatLessThanWellFounded
<1>2. R = {ss \in Nat \X Nat : ss[1] < ss[2]}
  BY DEF OpToRel
<1> HIDE DEF R
<1>3. PICK x \in T : \A y \in T : <<y, x>> \notin R
  BY <1>1, WFMin
<1>4. \A y \in T : ~(y < x)
  BY <1>2, <1>3
<1> QED
  BY <1>4

\* Induction up to n: a set of numbers that has 0, and k + 1 with k.
LEMMA UpTo ==
  ASSUME NEW n \in Nat, NEW S, 0 \in S, \A k \in 0..n : k \in S /\ k + 1 <= n => k + 1 \in S
  PROVE  \A k \in 0..n : k \in S
<1> SUFFICES ASSUME NEW b \in 0..n, b \notin S PROVE FALSE
  OBVIOUS
<1> DEFINE T == {k \in 0..n : k \notin S}
<1>1. PICK x \in T : \A y \in T : x <= y
  <2>1. T \subseteq Nat /\ T # {}
    OBVIOUS
  <2> HIDE DEF T
  <2> QED
    BY <2>1, Least
<1>2. x # 0 /\ x - 1 \in 0..n /\ x - 1 \notin T
  BY <1>1
<1>3. x - 1 \in S
  BY <1>2
<1> QED
  BY <1>1, <1>2, <1>3

\* g starts with a and goes on by step.
Recursive(g, n, V, a, step) ==
  /\ g \in [0..n -> V]
  /\ g[0] = a /\ \A k \in 1..n : g[k] = step[k][g[k - 1]]

\* There is such a function.
LEMMA Recursion ==
  ASSUME NEW n \in Nat, NEW V, NEW a \in V, NEW step,
         \A k \in 0..n : \A x \in V : step[k][x] \in V
  PROVE  \E g : Recursive(g, n, V, a, step)
<1> DEFINE Is(m, g) == g[0] = a /\ \A k \in 1..m : g[k] = step[k][g[k - 1]]
           S == {m \in 0..n : \E g \in [0..m -> V] : Is(m, g)}
<1>1. 0 \in S
  <2> DEFINE g == [k \in 0..0 |-> a]
  <2>1. Is(0, g) /\ g \in [0..0 -> V]
    OBVIOUS
  <2> HIDE DEF g, Is
  <2> QED
    BY <2>1
<1>2. ASSUME NEW k \in 0..n, k \in S, k + 1 <= n
      PROVE  k + 1 \in S
  <2>1. PICK g \in [0..k -> V] : Is(k, g)
    BY <1>2
  <2> DEFINE h == [j \in 0..k + 1 |-> IF j <= k THEN g[j] ELSE step[k + 1][g[k]]]
  <2>2. k + 1 \in 0..n /\ g[k] \in V
    BY <1>2
  <2>3. step[k + 1][g[k]] \in V
    BY <2>2
  <2>4. h \in [0..k + 1 -> V]
    BY <2>3
  <2>5. h[0] = a /\ h[k + 1] = step[k + 1][h[k]]
    BY <2>1
  <2>6. \A j \in 1..k : h[j] = g[j] /\ h[j - 1] = g[j - 1] /\ g[j] = step[j][g[j - 1]]
    BY <2>1
  <2> HIDE DEF h
  <2>7. \A j \in 1..k + 1 : j \in 1..k \/ j = k + 1
    OBVIOUS
  <2>8. \A j \in 1..k + 1 : h[j] = step[j][h[j - 1]]
    <3> SUFFICES ASSUME NEW j \in 1..k + 1 PROVE h[j] = step[j][h[j - 1]]
      OBVIOUS
    <3>1. CASE j \in 1..k
      BY <2>6, <3>1
    <3>2. CASE j = k + 1
      <4>1. j - 1 = k
        BY <3>2
      <4> QED
        BY <2>5, <3>2, <4>1
    <3> QED
      BY <2>7, <3>1, <3>2
  <2>9. Is(k + 1, h)
    BY <2>5, <2>8
  <2> HIDE DEF Is
  <2> QED
    BY <2>4, <2>9, <1>2
<1>3. n \in S
  <2>1. \A k \in 0..n : k \in S /\ k + 1 <= n => k + 1 \in S
    BY <1>2
  <2>2. n \in 0..n
    OBVIOUS
  <2> HIDE DEF S
  <2> QED
    BY <1>1, <2>1, <2>2, UpTo
<1> QED
  BY <1>3 DEF Recursive

-----------------------------------------------------------------------------
(* What the recursive functions of the model compute.                      *)

\* The powers of 2.
Powers(p, n) ==
  /\ p \in [0..n -> Nat \ {0}]
  /\ p[0] = 1 /\ \A k \in 1..n : p[k] = 2 * p[k - 1]

\* The bits of w read from the first, W - 1, to bit W - k.
Bit(w, i) == IF i \in w THEN 1 ELSE 0
Reads(v, w) ==
  /\ v \in [0..W -> Nat]
  /\ v[0] = 0 /\ \A k \in 1..W : v[k] = 2 * v[k - 1] + Bit(w, W - k)

\* The words a shift goes through.
Shifted(g, ins, w, n) ==
  /\ g \in [0..n -> SUBSET Bits]
  /\ g[0] = w /\ \A k \in 1..n : g[k] = once(ins, g[k - 1])

LEMMA Pow2 ==
  ASSUME NEW n \in Nat
  PROVE  \E p : Powers(p, n) /\ pow2(n) = p[n]
<1> DEFINE Is(p) == p = [k \in 0..n |-> IF k = 0 THEN 1 ELSE 2 * p[k - 1]]
<1>1. \E p : Is(p)
  <2> DEFINE step == [k \in 0..n |-> [x \in Nat |-> 2 * x]]
  <2>1. (\A k \in 0..n : \A x \in Nat : step[k][x] \in Nat) /\ 1 \in Nat
    OBVIOUS
  <2>2. \A k \in 0..n : \A x \in Nat : step[k][x] = 2 * x
    OBVIOUS
  <2> HIDE DEF step
  <2>3. PICK g : Recursive(g, n, Nat, 1, step)
    BY <2>1, Recursion
  <2>4. \A k \in 1..n : g[k] = 2 * g[k - 1]
    <3>1. \A k \in 1..n : k \in 0..n /\ k - 1 \in 0..n
      OBVIOUS
    <3>2. \A k \in 1..n : g[k - 1] \in Nat
      BY <2>3, <3>1 DEF Recursive
    <3> QED
      BY <2>2, <2>3, <3>1, <3>2 DEF Recursive
  <2>5. \A k \in 0..n : g[k] = IF k = 0 THEN 1 ELSE 2 * g[k - 1]
    BY <2>3, <2>4 DEF Recursive
  <2>6. Is(g)
    BY <2>3, <2>5 DEF Recursive
  <2> QED
    BY <2>6
<1>2. PICK p : Is(p) /\ pow2(n) = p[n]
  <2>1. pow2(n) = (CHOOSE p : Is(p))[n]
    BY DEF pow2
  <2> HIDE DEF Is
  <2> QED
    BY <1>1, <2>1
<1>3. p[0] = 1 /\ \A k \in 1..n : p[k] = 2 * p[k - 1]
  BY <1>2
<1> DEFINE S == {k \in 0..n : p[k] \in Nat \ {0}}
<1>4. 0 \in S
  BY <1>3
<1>5. \A k \in 0..n : k \in S /\ k + 1 <= n => k + 1 \in S
  <2> SUFFICES ASSUME NEW k \in 0..n, k \in S, k + 1 <= n PROVE k + 1 \in S
    OBVIOUS
  <2>1. p[k + 1] = 2 * p[k] /\ p[k] \in Nat \ {0}
    BY <1>3
  <2> QED
    BY <2>1
<1>6. \A k \in 0..n : p[k] \in Nat \ {0}
  <2>1. \A k \in 0..n : k \in S
    <3> HIDE DEF S
    <3> QED
      BY <1>4, <1>5, UpTo
  <2> QED
    BY <2>1
<1> QED
  BY <1>2, <1>3, <1>6 DEF Powers

LEMMA Number ==
  ASSUME NEW w
  PROVE  \E v : Reads(v, w) /\ number(w) = v[W]
<1> USE Ia32emuAssumption
<1> DEFINE Is(v) == v = [k \in 0..W |-> IF k = 0 THEN 0 ELSE 2 * v[k - 1] + IF W - k \in w THEN 1 ELSE 0]
<1>1. \E v : Is(v)
  <2> DEFINE step == [k \in 0..W |-> [x \in Nat |-> 2 * x + IF W - k \in w THEN 1 ELSE 0]]
  <2>1. (\A k \in 0..W : \A x \in Nat : step[k][x] \in Nat) /\ 0 \in Nat
    OBVIOUS
  <2>2. \A k \in 0..W : \A x \in Nat : step[k][x] = 2 * x + IF W - k \in w THEN 1 ELSE 0
    OBVIOUS
  <2> HIDE DEF step
  <2>3. PICK g : Recursive(g, W, Nat, 0, step)
    BY <2>1, Recursion
  <2>4. \A k \in 1..W : g[k] = 2 * g[k - 1] + IF W - k \in w THEN 1 ELSE 0
    <3>1. \A k \in 1..W : k \in 0..W /\ k - 1 \in 0..W
      OBVIOUS
    <3>2. \A k \in 1..W : g[k - 1] \in Nat
      BY <2>3, <3>1 DEF Recursive
    <3> QED
      BY <2>2, <2>3, <3>1, <3>2 DEF Recursive
  <2>5. \A k \in 0..W : g[k] = IF k = 0 THEN 0 ELSE 2 * g[k - 1] + IF W - k \in w THEN 1 ELSE 0
    BY <2>3, <2>4 DEF Recursive
  <2>6. Is(g)
    BY <2>3, <2>5 DEF Recursive
  <2> QED
    BY <2>6
<1>2. PICK v : Is(v) /\ number(w) = v[W]
  <2>1. number(w) = (CHOOSE v : Is(v))[W]
    BY DEF number
  <2> HIDE DEF Is
  <2> QED
    BY <1>1, <2>1
<1>3. v[0] = 0 /\ \A k \in 1..W : v[k] = 2 * v[k - 1] + Bit(w, W - k)
  BY <1>2 DEF Bit
<1> DEFINE S == {k \in 0..W : v[k] \in Nat}
<1>4. 0 \in S
  BY <1>3
<1>5. \A k \in 0..W : k \in S /\ k + 1 <= W => k + 1 \in S
  <2> SUFFICES ASSUME NEW k \in 0..W, k \in S, k + 1 <= W PROVE k + 1 \in S
    OBVIOUS
  <2>1. v[k + 1] = 2 * v[k] + Bit(w, W - (k + 1)) /\ v[k] \in Nat
    BY <1>3
  <2> QED
    BY <2>1 DEF Bit
<1>6. \A k \in 0..W : v[k] \in Nat
  <2>1. \A k \in 0..W : k \in S
    <3> HIDE DEF S
    <3> QED
      BY <1>4, <1>5, UpTo
  <2> QED
    BY <2>1
<1>7. v \in [0..W -> Nat]
  BY <1>2, <1>6
<1> QED
  BY <1>2, <1>3, <1>7 DEF Reads

LEMMA Once ==
  ASSUME NEW ins, NEW w \in SUBSET Bits
  PROVE  once(ins, w) \in SUBSET Bits
BY Ia32emuAssumption DEF once, Bits

LEMMA Rounds ==
  ASSUME NEW ins, NEW w \in SUBSET Bits, NEW n \in Nat
  PROVE  \E g : Shifted(g, ins, w, n) /\ rounds(ins, w, n) = g[n]
<1> DEFINE Is(g) == g = [k \in 0..n |-> IF k = 0 THEN w ELSE once(ins, g[k - 1])]
<1>1. \E g : Is(g)
  <2> DEFINE V == SUBSET Bits
             step == [k \in 0..n |-> [x \in V |-> once(ins, x)]]
  <2>1. (\A k \in 0..n : \A x \in V : step[k][x] \in V) /\ w \in V
    BY Once
  <2>2. \A k \in 0..n : \A x \in V : step[k][x] = once(ins, x)
    OBVIOUS
  <2> HIDE DEF step, V
  <2>3. PICK g : Recursive(g, n, V, w, step)
    BY <2>1, Recursion
  <2>4. \A k \in 1..n : g[k] = once(ins, g[k - 1])
    <3>1. \A k \in 1..n : k \in 0..n /\ k - 1 \in 0..n
      OBVIOUS
    <3>2. \A k \in 1..n : g[k - 1] \in V
      BY <2>3, <3>1 DEF Recursive
    <3> QED
      BY <2>2, <2>3, <3>1, <3>2 DEF Recursive
  <2>5. \A k \in 0..n : g[k] = IF k = 0 THEN w ELSE once(ins, g[k - 1])
    BY <2>3, <2>4 DEF Recursive
  <2>6. Is(g)
    BY <2>3, <2>5 DEF Recursive
  <2> QED
    BY <2>6
<1>2. PICK g : Is(g) /\ rounds(ins, w, n) = g[n]
  <2>1. rounds(ins, w, n) = (CHOOSE g : Is(g))[n]
    BY DEF rounds
  <2> HIDE DEF Is
  <2> QED
    BY <1>1, <2>1
<1>3. g[0] = w /\ \A k \in 1..n : g[k] = once(ins, g[k - 1])
  BY <1>2
<1> DEFINE S == {k \in 0..n : g[k] \in SUBSET Bits}
<1>4. 0 \in S
  BY <1>3
<1>5. \A k \in 0..n : k \in S /\ k + 1 <= n => k + 1 \in S
  <2> SUFFICES ASSUME NEW k \in 0..n, k \in S, k + 1 <= n PROVE k + 1 \in S
    OBVIOUS
  <2>1. g[k + 1] = once(ins, g[k]) /\ g[k] \in SUBSET Bits
    BY <1>3
  <2> QED
    BY <2>1, Once
<1>6. \A k \in 0..n : g[k] \in SUBSET Bits
  <2>1. \A k \in 0..n : k \in S
    <3> HIDE DEF S
    <3> QED
      BY <1>4, <1>5, UpTo
  <2> QED
    BY <2>1
<1>7. g \in [0..n -> SUBSET Bits]
  BY <1>2, <1>6
<1> QED
  BY <1>2, <1>3, <1>7 DEF Shifted

-----------------------------------------------------------------------------
(* Arithmetic.                                                             *)

LEMMA DivTwice ==
  ASSUME NEW a \in Int, NEW p \in Nat \ {0}
  PROVE  (a \div p) \div 2 = a \div (2 * p)
OBVIOUS

LEMMA Remainder ==
  ASSUME NEW q \in Nat, NEW m \in Nat \ {0}, NEW r \in 0..m - 1
  PROVE  (q * m + r) % m = r
OBVIOUS

LEMMA Quotient ==
  ASSUME NEW y \in Nat, NEW m \in Nat \ {0}
  PROVE  \E q \in Nat : y = q * m + (y % m)
<1>1. y % m = y - m * (y \div m)
  OBVIOUS
<1>2. PICK q \in Nat : q = y \div m
  OBVIOUS
<1>3. PICK r \in Nat : r = y % m
  OBVIOUS
<1>4. r = y - m * q
  BY <1>1, <1>2, <1>3
<1>5. y = q * m + r
  BY <1>4
<1> QED
  BY <1>3, <1>5

LEMMA ModTwice ==
  ASSUME NEW y \in Nat, NEW m \in Nat \ {0}, NEW b \in {0, 1},
         2 * (y % m) - b * m \in 0..m - 1
  PROVE  (2 * y) % m = 2 * (y % m) - b * m
<1>1. PICK r \in 0..m - 1 : r = y % m
  OBVIOUS
<1>2. PICK q \in Nat : y = q * m + r
  BY <1>1, Quotient
<1>3. 2 * y = (2 * q + b) * m + (2 * r - b * m) /\ 2 * q + b \in Nat
  BY <1>2
<1> DEFINE d == 2 * r - b * m
           z == 2 * q + b
<1>4. 2 * y = z * m + d /\ z \in Nat /\ d \in 0..m - 1
  BY <1>1, <1>3
<1> HIDE DEF d, z
<1>5. (2 * y) % m = d
  BY <1>4, Remainder
<1> QED
  BY <1>1, <1>5 DEF d

-----------------------------------------------------------------------------
(* Numbers.                                                                *)

\* Two tables of powers agree.
LEMMA SamePowers ==
  ASSUME NEW n \in Nat, NEW m \in Nat, n <= m, NEW p, NEW q, Powers(p, n), Powers(q, m)
  PROVE  \A k \in 0..n : p[k] = q[k]
<1> DEFINE S == {k \in 0..n : p[k] = q[k]}
<1>1. 0 \in S
  BY DEF Powers
<1>2. \A k \in 0..n : k \in S /\ k + 1 <= n => k + 1 \in S
  <2> SUFFICES ASSUME NEW k \in 0..n, k \in S, k + 1 <= n PROVE k + 1 \in S
    OBVIOUS
  <2>1. p[k + 1] = 2 * p[k] /\ q[k + 1] = 2 * q[k] /\ p[k] = q[k]
    BY DEF Powers
  <2> QED
    BY <2>1
<1>3. \A k \in 0..n : k \in S
  <2> HIDE DEF S
  <2> QED
    BY <1>1, <1>2, UpTo
<1> QED
  BY <1>3

LEMMA Pow2Steps ==
  ASSUME NEW n \in Nat
  PROVE  pow2(0) = 1 /\ pow2(n) \in Nat \ {0} /\ pow2(n + 1) = 2 * pow2(n)
<1>1. PICK p : Powers(p, n) /\ pow2(n) = p[n]
  BY Pow2
<1>2. PICK q : Powers(q, n + 1) /\ pow2(n + 1) = q[n + 1]
  BY Pow2
<1>3. PICK z : Powers(z, 0) /\ pow2(0) = z[0]
  BY Pow2
<1>4. p[n] = q[n]
  BY <1>1, <1>2, SamePowers
<1>5. q[n + 1] = 2 * q[n]
  BY <1>2 DEF Powers
<1>6. p[n] \in Nat \ {0} /\ z[0] = 1
  BY <1>1, <1>3 DEF Powers
<1> QED
  BY <1>1, <1>2, <1>3, <1>4, <1>5, <1>6

\* number is below 2^W, and 0 for the empty word alone.
LEMMA NumberRange ==
  ASSUME NEW w \in SUBSET Bits
  PROVE  number(w) \in 0..pow2(W) - 1 /\ (number(w) = 0 <=> w = {})
<1> USE Ia32emuAssumption
<1>1. PICK v : Reads(v, w) /\ number(w) = v[W]
  BY Number
<1>2. PICK p : Powers(p, W) /\ pow2(W) = p[W]
  BY Pow2
<1> DEFINE S == {k \in 0..W : v[k] < p[k] /\ (v[k] = 0 <=> \A i \in Bits : i >= W - k => i \notin w)}
<1>3. 0 \in S
  <2>1. v[0] = 0 /\ p[0] = 1 /\ \A i \in Bits : ~(i >= W - 0)
    BY <1>1, <1>2 DEF Reads, Powers, Bits
  <2> QED
    BY <2>1
<1>4. \A k \in 0..W : k \in S /\ k + 1 <= W => k + 1 \in S
  <2> SUFFICES ASSUME NEW k \in 0..W, k \in S, k + 1 <= W PROVE k + 1 \in S
    OBVIOUS
  <2> DEFINE b == Bit(w, W - (k + 1))
  <2>1. /\ v[k + 1] = 2 * v[k] + b /\ p[k + 1] = 2 * p[k]
        /\ v[k] \in Nat /\ p[k] \in Nat
    BY <1>1, <1>2 DEF Reads, Powers
  <2>2. b \in {0, 1} /\ (b = 0 <=> W - (k + 1) \notin w)
    BY DEF Bit
  <2>3. v[k] < p[k] /\ (v[k] = 0 <=> \A i \in Bits : i >= W - k => i \notin w)
    OBVIOUS
  <2> HIDE DEF b, S
  <2>4. v[k + 1] < p[k + 1]
    <3>1. PICK x \in Nat, y \in Nat : x = v[k] /\ y = p[k]
      BY <2>1
    <3>2. x < y /\ (b = 0 \/ b = 1)
      BY <2>2, <2>3, <3>1
    <3>3. 2 * x + b < 2 * y
      BY <3>2
    <3> QED
      BY <2>1, <3>1, <3>3
  <2>5. v[k + 1] = 0 <=> v[k] = 0 /\ b = 0
    BY <2>1, <2>2
  <2>6. W - (k + 1) \in Bits /\ \A i \in Bits : i >= W - (k + 1) <=> i >= W - k \/ i = W - (k + 1)
    BY DEF Bits
  <2>7. v[k + 1] = 0 <=> \A i \in Bits : i >= W - (k + 1) => i \notin w
    BY <2>2, <2>3, <2>5, <2>6
  <2> QED
    BY <2>4, <2>7 DEF S
<1>5. W \in S
  <2>1. W \in 0..W
    OBVIOUS
  <2> HIDE DEF S
  <2> QED
    BY <1>3, <1>4, <2>1, UpTo
<1>6. v[W] = 0 <=> \A i \in Bits : i \notin w
  <2>1. \A i \in Bits : i >= W - W
    BY DEF Bits
  <2> QED
    BY <1>5, <2>1
<1>7. v[W] \in Nat /\ p[W] \in Nat /\ v[W] < p[W]
  BY <1>1, <1>2, <1>5 DEF Reads, Powers
<1> QED
  BY <1>1, <1>2, <1>6, <1>7

\* The sign bit weighs as much as all the bits below it, and one more.
LEMMA SignedRange ==
  ASSUME NEW w \in SUBSET Bits
  PROVE  signed(w) \in Int /\ (signed(w) < 0 <=> MSB(w)) /\ (signed(w) = 0 <=> w = {})
<1>1. number(w) \in 0..pow2(W) - 1 /\ (number(w) = 0 <=> w = {})
  BY NumberRange
<1>2. pow2(W) \in Nat \ {0}
  BY Ia32emuAssumption, Pow2Steps
<1>3. MSB(w) => w # {}
  BY DEF MSB
<1>4. signed(w) = number(w) - IF MSB(w) THEN pow2(W) ELSE 0
  BY DEF signed
<1>5. CASE MSB(w)
  <2>1. signed(w) = number(w) - pow2(W)
    BY <1>4, <1>5
  <2> QED
    BY <1>1, <1>2, <1>3, <1>5, <2>1
<1>6. CASE ~MSB(w)
  <2>1. signed(w) = number(w)
    BY <1>1, <1>4, <1>6
  <2> QED
    BY <1>1, <1>6, <2>1
<1> QED
  BY <1>5, <1>6

-----------------------------------------------------------------------------
(* One round of shift.                                                     *)

\* A round to the right moves every bit down by one.  What comes in at the
\* top is a 0, or for SAR the sign.
LEMMA BitsRight ==
  ASSUME NEW ins \in {"SAR", "SHR"}, NEW w \in SUBSET Bits
  PROVE  /\ \A k \in 1..W - 1 : Bit(once(ins, w), W - (k + 1)) = Bit(w, W - k)
         /\ Bit(once(ins, w), W - 1) = IF ins = "SAR" THEN Bit(w, W - 1) ELSE 0
<1> USE Ia32emuAssumption DEF OF
<1>1. once(ins, w) = {i - 1 : i \in w \ {0}} \cup IF ins = "SAR" THEN w \cap {W - 1} ELSE {}
  BY DEF once
<1>2. \A i \in {i - 1 : i \in w \ {0}} : i \in 0..W - 2
  BY DEF Bits
<1>3. \A i \in 0..W - 2 : i \in {j - 1 : j \in w \ {0}} <=> i + 1 \in w
  BY DEF Bits
<1>4. \A i \in 0..W - 2 : i # W - 1 /\ (i \in once(ins, w) <=> i + 1 \in w)
  BY <1>1, <1>3
<1>5. W - 1 \in once(ins, w) <=> ins = "SAR" /\ W - 1 \in w
  BY <1>1, <1>2
<1>6. ASSUME NEW k \in 1..W - 1
      PROVE  Bit(once(ins, w), W - (k + 1)) = Bit(w, W - k)
  <2>1. W - (k + 1) \in 0..W - 2 /\ W - (k + 1) + 1 = W - k
    OBVIOUS
  <2> QED
    BY <1>4, <2>1 DEF Bit
<1> QED
  BY <1>5, <1>6 DEF Bit

\* A round to the left moves every bit up by one and brings in a 0.
LEMMA BitsLeft ==
  ASSUME NEW w \in SUBSET Bits
  PROVE  /\ \A k \in 1..W - 1 : Bit(once("SHL", w), W - k) = Bit(w, W - (k + 1))
         /\ Bit(once("SHL", w), 0) = 0
<1> USE Ia32emuAssumption DEF OF
<1>1. once("SHL", w) = {i + 1 : i \in w \ {W - 1}}
  BY DEF once
<1>2. \A i \in 0..W - 2 : i + 1 \in once("SHL", w) <=> i \in w
  BY <1>1 DEF Bits
<1>3. 0 \notin once("SHL", w)
  BY <1>1 DEF Bits
<1>4. ASSUME NEW k \in 1..W - 1
      PROVE  Bit(once("SHL", w), W - k) = Bit(w, W - (k + 1))
  <2>1. W - (k + 1) \in 0..W - 2 /\ W - (k + 1) + 1 = W - k
    OBVIOUS
  <2> QED
    BY <1>2, <2>1 DEF Bit
<1> QED
  BY <1>3, <1>4 DEF Bit

\* SHR by one halves the number.
LEMMA HalfUnsigned ==
  ASSUME NEW w \in SUBSET Bits
  PROVE  number(once("SHR", w)) = number(w) \div 2
<1> USE Ia32emuAssumption DEF OF
<1> DEFINE x == once("SHR", w)
<1>1. PICK v : Reads(v, w) /\ number(w) = v[W]
  BY Number
<1>2. PICK u : Reads(u, x) /\ number(x) = u[W]
  BY Number
<1>3. /\ \A k \in 1..W - 1 : Bit(x, W - (k + 1)) = Bit(w, W - k)
      /\ Bit(x, W - 1) = 0
  BY BitsRight
<1> HIDE DEF x
<1> DEFINE S == {k \in 0..W - 1 : u[k + 1] = v[k]}
<1>4. 0 \in S
  <2>1. u[1] = 2 * u[0] + Bit(x, W - 1) /\ u[0] = 0 /\ v[0] = 0
    BY <1>1, <1>2 DEF Reads
  <2>2. u[0 + 1] = v[0] /\ 0 \in 0..W - 1
    BY <1>3, <2>1
  <2> QED
    BY <2>2
<1>5. \A k \in 0..W - 1 : k \in S /\ k + 1 <= W - 1 => k + 1 \in S
  <2> SUFFICES ASSUME NEW k \in 0..W - 1, k \in S, k + 1 <= W - 1 PROVE k + 1 \in S
    OBVIOUS
  <2>1. k + 1 \in 1..W - 1 /\ k + 2 \in 1..W /\ k + 1 \in 1..W
    OBVIOUS
  <2>2. u[k + 2] = 2 * u[k + 1] + Bit(x, W - (k + 2)) /\ v[k + 1] = 2 * v[k] + Bit(w, W - (k + 1))
    BY <1>1, <1>2, <2>1 DEF Reads
  <2>3. Bit(x, W - (k + 2)) = Bit(w, W - (k + 1))
    BY <1>3, <2>1
  <2>4. u[k + 1] = v[k]
    OBVIOUS
  <2>5. u[(k + 1) + 1] = v[k + 1]
    BY <2>2, <2>3, <2>4
  <2> QED
    BY <2>5
<1>6. u[W] = v[W - 1]
  <2>1. W - 1 \in Nat /\ W - 1 \in 0..W - 1 /\ (W - 1) + 1 = W
    OBVIOUS
  <2>2. W - 1 \in S
    <3> HIDE DEF S
    <3> QED
      BY <1>4, <1>5, <2>1, UpTo
  <2> QED
    BY <2>1, <2>2
<1>7. v[W] = 2 * v[W - 1] + Bit(w, 0) /\ v[W - 1] \in Nat /\ (Bit(w, 0) = 0 \/ Bit(w, 0) = 1)
  BY <1>1 DEF Reads, Bit
<1>8. PICK m \in Nat : m = v[W - 1]
  BY <1>7
<1>9. v[W] \div 2 = m
  BY <1>7, <1>8
<1> QED
  BY <1>1, <1>2, <1>6, <1>8, <1>9 DEF x

\* SAR by one halves the signed number, rounding down.
LEMMA HalfSigned ==
  ASSUME NEW w \in SUBSET Bits
  PROVE  signed(once("SAR", w)) = signed(w) \div 2
<1> USE Ia32emuAssumption DEF OF
<1> DEFINE x == once("SAR", w)
           sign == Bit(w, W - 1)
<1>1. PICK v : Reads(v, w) /\ number(w) = v[W]
  BY Number
<1>2. PICK u : Reads(u, x) /\ number(x) = u[W]
  BY Number
<1>3. PICK p : Powers(p, W) /\ pow2(W) = p[W]
  BY Pow2
<1>4. /\ \A k \in 1..W - 1 : Bit(x, W - (k + 1)) = Bit(w, W - k)
      /\ Bit(x, W - 1) = sign
  BY BitsRight
<1>5. sign = 0 \/ sign = 1
  BY DEF Bit
<1>6. signed(w) = v[W] - sign * p[W] /\ signed(x) = u[W] - sign * p[W]
  <2>1. v[W] \in Nat /\ u[W] \in Nat /\ p[W] \in Nat
    BY <1>1, <1>2, <1>3 DEF Reads, Powers
  <2>2. sign = (IF MSB(w) THEN 1 ELSE 0) /\ sign = (IF MSB(x) THEN 1 ELSE 0)
    BY <1>4 DEF Bit, MSB
  <2>3. signed(w) = v[W] - (IF MSB(w) THEN p[W] ELSE 0) /\ signed(x) = u[W] - (IF MSB(x) THEN p[W] ELSE 0)
    BY <1>1, <1>2, <1>3 DEF signed
  <2> HIDE DEF x, sign
  <2> QED
    BY <2>1, <2>2, <2>3
<1> HIDE DEF x, sign
<1> DEFINE S == {k \in 0..W - 1 : u[k + 1] - sign * p[k + 1] = v[k] - sign * p[k]}
<1>7. 0 \in S
  <2>1. /\ u[1] = 2 * u[0] + Bit(x, W - 1) /\ u[0] = 0 /\ v[0] = 0
        /\ p[0] = 1 /\ p[1] = 2 * p[0]
    BY <1>1, <1>2, <1>3 DEF Reads, Powers
  <2>2. u[0 + 1] - sign * p[0 + 1] = v[0] - sign * p[0] /\ 0 \in 0..W - 1
    BY <1>4, <1>5, <2>1
  <2> QED
    BY <2>2
<1>8. \A k \in 0..W - 1 : k \in S /\ k + 1 <= W - 1 => k + 1 \in S
  <2> SUFFICES ASSUME NEW k \in 0..W - 1, k \in S, k + 1 <= W - 1 PROVE k + 1 \in S
    OBVIOUS
  <2>1. k + 1 \in 1..W - 1 /\ k + 2 \in 1..W /\ k + 1 \in 1..W
    OBVIOUS
  <2>2. /\ u[k + 2] = 2 * u[k + 1] + Bit(x, W - (k + 2))
        /\ v[k + 1] = 2 * v[k] + Bit(w, W - (k + 1))
        /\ p[k + 2] = 2 * p[k + 1] /\ p[k + 1] = 2 * p[k]
    <3>1. u[k + 2] = 2 * u[k + 1] + Bit(x, W - (k + 2))
      BY <1>2, <2>1 DEF Reads
    <3>2. v[k + 1] = 2 * v[k] + Bit(w, W - (k + 1))
      BY <1>1, <2>1 DEF Reads
    <3>3. p[k + 2] = 2 * p[k + 1] /\ p[k + 1] = 2 * p[k]
      BY <1>3, <2>1 DEF Powers
    <3> QED
      BY <3>1, <3>2, <3>3
  <2>3. PICK b \in Nat : b = Bit(x, W - (k + 2)) /\ b = Bit(w, W - (k + 1))
    <3>1. Bit(x, W - (k + 2)) = Bit(w, W - (k + 1)) /\ Bit(w, W - (k + 1)) \in Nat
      BY <1>4, <2>1 DEF Bit
    <3> QED
      BY <3>1
  <2>4. PICK a \in Nat, c \in Nat, d \in Nat : a = u[k + 1] /\ c = v[k] /\ d = p[k]
    <3>1. u[k + 1] \in Nat /\ v[k] \in Nat
      BY <1>1, <1>2, <2>1 DEF Reads
    <3>2. p[k] \in Nat
      BY <1>3 DEF Powers
    <3> QED
      BY <3>1, <3>2
  <2>5. a - sign * (2 * d) = c - sign * d
    BY <2>2, <2>4
  <2>6. u[k + 2] = 2 * a + b /\ v[k + 1] = 2 * c + b /\ p[k + 2] = 2 * (2 * d) /\ p[k + 1] = 2 * d
    BY <2>2, <2>3, <2>4
  <2>7. (2 * a + b) - sign * (2 * (2 * d)) = (2 * c + b) - sign * (2 * d)
    <3>1. CASE sign = 0
      BY <2>5, <3>1
    <3>2. CASE sign = 1
      BY <2>5, <3>2
    <3> QED
      BY <1>5, <3>1, <3>2
  <2>8. u[(k + 1) + 1] - sign * p[(k + 1) + 1] = v[k + 1] - sign * p[k + 1]
    BY <2>6, <2>7
  <2> QED
    BY <2>8
<1>9. u[W] - sign * p[W] = v[W - 1] - sign * p[W - 1]
  <2>1. W - 1 \in Nat /\ W - 1 \in 0..W - 1 /\ (W - 1) + 1 = W
    OBVIOUS
  <2>2. W - 1 \in S
    <3> HIDE DEF S
    <3> QED
      BY <1>7, <1>8, <2>1, UpTo
  <2> QED
    BY <2>1, <2>2
<1>10. /\ v[W] = 2 * v[W - 1] + Bit(w, 0) /\ p[W] = 2 * p[W - 1]
       /\ (Bit(w, 0) = 0 \/ Bit(w, 0) = 1)
  BY <1>1, <1>3 DEF Reads, Powers, Bit
<1>11. PICK c \in Nat, d \in Nat : c = v[W - 1] /\ d = p[W - 1]
  <2>1. v[W - 1] \in Nat
    BY <1>1 DEF Reads
  <2>2. p[W - 1] \in Nat
    BY <1>3 DEF Powers
  <2> QED
    BY <2>1, <2>2
<1>12. PICK z \in Int : z = c - sign * d
  BY <1>5
<1>13. signed(x) = z /\ signed(w) = 2 * z + Bit(w, 0)
  <2>1. signed(x) = z
    BY <1>6, <1>9, <1>11, <1>12
  <2>2. signed(w) = (2 * c + Bit(w, 0)) - sign * (2 * d)
    BY <1>6, <1>10, <1>11
  <2>3. signed(w) = 2 * z + Bit(w, 0)
    <3>1. PICK b \in Nat : b = Bit(w, 0)
      BY <1>10
    <3>2. CASE sign = 0
      BY <1>12, <2>2, <3>1, <3>2
    <3>3. CASE sign = 1
      BY <1>12, <2>2, <3>1, <3>3
    <3> QED
      BY <1>5, <3>2, <3>3
  <2> QED
    BY <2>1, <2>3
<1>14. (2 * z + Bit(w, 0)) \div 2 = z
  BY <1>10
<1> QED
  BY <1>13, <1>14 DEF x

\* SHL by one doubles the number, but for the bit that is lost.
LEMMA Doubled ==
  ASSUME NEW w \in SUBSET Bits
  PROVE  number(once("SHL", w)) = 2 * number(w) - Bit(w, W - 1) * pow2(W)
<1> USE Ia32emuAssumption DEF OF
<1> DEFINE x == once("SHL", w)
           lost == Bit(w, W - 1)
<1>1. PICK v : Reads(v, w) /\ number(w) = v[W]
  BY Number
<1>2. PICK u : Reads(u, x) /\ number(x) = u[W]
  BY Number
<1>3. PICK p : Powers(p, W) /\ pow2(W) = p[W]
  BY Pow2
<1>4. /\ \A k \in 1..W - 1 : Bit(x, W - k) = Bit(w, W - (k + 1))
      /\ Bit(x, 0) = 0
  BY BitsLeft
<1>5. lost = 0 \/ lost = 1
  BY DEF Bit
<1>6. v[1] = 2 * v[0] + lost
  BY <1>1 DEF Reads
<1> HIDE DEF x, lost
<1> DEFINE S == {k \in 0..W - 1 : u[k] = v[k + 1] - lost * p[k]}
<1>7. 0 \in S
  <2>1. u[0] = 0 /\ v[0] = 0 /\ p[0] = 1
    BY <1>1, <1>2, <1>3 DEF Reads, Powers
  <2>2. u[0] = v[0 + 1] - lost * p[0] /\ 0 \in 0..W - 1
    BY <1>5, <1>6, <2>1
  <2> QED
    BY <2>2
<1>8. \A k \in 0..W - 1 : k \in S /\ k + 1 <= W - 1 => k + 1 \in S
  <2> SUFFICES ASSUME NEW k \in 0..W - 1, k \in S, k + 1 <= W - 1 PROVE k + 1 \in S
    OBVIOUS
  <2>1. k + 1 \in 1..W - 1 /\ k + 2 \in 1..W /\ k + 1 \in 1..W
    OBVIOUS
  <2>2. /\ u[k + 1] = 2 * u[k] + Bit(x, W - (k + 1))
        /\ v[k + 2] = 2 * v[k + 1] + Bit(w, W - (k + 2))
        /\ p[k + 1] = 2 * p[k]
    BY <1>1, <1>2, <1>3, <2>1 DEF Reads, Powers
  <2>3. PICK b \in Nat : b = Bit(x, W - (k + 1)) /\ b = Bit(w, W - (k + 2))
    <3>1. Bit(x, W - (k + 1)) = Bit(w, W - ((k + 1) + 1))
      BY <1>4, <2>1
    <3>2. Bit(x, W - (k + 1)) \in Nat /\ W - ((k + 1) + 1) = W - (k + 2)
      BY DEF Bit
    <3> QED
      BY <3>1, <3>2
  <2>4. PICK a \in Nat, c \in Nat, d \in Nat : a = u[k] /\ c = v[k + 1] /\ d = p[k]
    <3>1. u[k] \in Nat /\ v[k + 1] \in Nat
      BY <1>1, <1>2, <2>1 DEF Reads
    <3>2. p[k] \in Nat
      BY <1>3 DEF Powers
    <3> QED
      BY <3>1, <3>2
  <2>5. a = c - lost * d
    BY <2>4
  <2>6. u[k + 1] = 2 * a + b /\ v[k + 2] = 2 * c + b /\ p[k + 1] = 2 * d
    BY <2>2, <2>3, <2>4
  <2>7. 2 * a + b = (2 * c + b) - lost * (2 * d)
    <3>1. CASE lost = 0
      BY <2>5, <3>1
    <3>2. CASE lost = 1
      BY <2>5, <3>2
    <3> QED
      BY <1>5, <3>1, <3>2
  <2>8. u[k + 1] = v[(k + 1) + 1] - lost * p[k + 1]
    BY <2>6, <2>7
  <2> QED
    BY <2>8
<1>9. u[W - 1] = v[W] - lost * p[W - 1]
  <2>1. W - 1 \in Nat /\ W - 1 \in 0..W - 1 /\ (W - 1) + 1 = W
    OBVIOUS
  <2>2. W - 1 \in S
    <3> HIDE DEF S
    <3> QED
      BY <1>7, <1>8, <2>1, UpTo
  <2> QED
    BY <2>1, <2>2
<1>10. u[W] = 2 * u[W - 1] + Bit(x, 0) /\ p[W] = 2 * p[W - 1]
  BY <1>2, <1>3 DEF Reads, Powers
<1>11. PICK a \in Nat, c \in Nat, d \in Nat : a = u[W - 1] /\ c = v[W] /\ d = p[W - 1]
  <2>1. u[W - 1] \in Nat /\ v[W] \in Nat
    BY <1>1, <1>2 DEF Reads
  <2>2. p[W - 1] \in Nat
    BY <1>3 DEF Powers
  <2> QED
    BY <2>1, <2>2
<1>12. a = c - lost * d
  BY <1>9, <1>11
<1>13. 2 * a = 2 * c - lost * (2 * d)
  <2>1. CASE lost = 0
    BY <1>12, <2>1
  <2>2. CASE lost = 1
    BY <1>12, <2>2
  <2> QED
    BY <1>5, <2>1, <2>2
<1>14. u[W] = 2 * v[W] - lost * p[W]
  BY <1>4, <1>10, <1>11, <1>13
<1> QED
  BY <1>1, <1>2, <1>3, <1>14 DEF x, lost

-----------------------------------------------------------------------------
(* All rounds.                                                             *)

LEMMA ShiftType ==
  ASSUME NEW ins, NEW w \in SUBSET Bits, NEW n \in Nat
  PROVE  rounds(ins, w, n) \in SUBSET Bits
<1>1. PICK g : Shifted(g, ins, w, n) /\ rounds(ins, w, n) = g[n]
  BY Rounds
<1>2. n \in 0..n
  OBVIOUS
<1> QED
  BY <1>1, <1>2 DEF Shifted

LEMMA ShiftIsRounds ==
  ASSUME NEW ins, NEW w, NEW n \in Bits
  PROVE  shift(ins, w, n) = rounds(ins, w, n)
<1>1. n % W = n
  BY Ia32emuAssumption DEF Bits
<1> QED
  BY <1>1 DEF shift

\* SAR divides by a power of 2, rounding down.
LEMMA ShiftSAR ==
  ASSUME NEW w \in SUBSET Bits, NEW n \in Nat
  PROVE  signed(rounds("SAR", w, n)) = signed(w) \div pow2(n)
<1>1. PICK g : Shifted(g, "SAR", w, n) /\ rounds("SAR", w, n) = g[n]
  BY Rounds
<1>2. \A k \in 0..n : g[k] \in SUBSET Bits
  BY <1>1 DEF Shifted
<1>3. signed(w) \in Int
  BY SignedRange
<1> DEFINE S == {k \in 0..n : signed(g[k]) = signed(w) \div pow2(k)}
<1>4. 0 \in S
  <2>1. g[0] = w /\ pow2(0) = 1
    BY <1>1, Pow2Steps DEF Shifted
  <2>2. signed(g[0]) = signed(w) \div pow2(0)
    BY <1>3, <2>1
  <2> QED
    BY <2>2
<1>5. \A k \in 0..n : k \in S /\ k + 1 <= n => k + 1 \in S
  <2> SUFFICES ASSUME NEW k \in 0..n, k \in S, k + 1 <= n PROVE k + 1 \in S
    OBVIOUS
  <2>1. g[k + 1] = once("SAR", g[k])
    BY <1>1 DEF Shifted
  <2>2. signed(g[k + 1]) = signed(g[k]) \div 2
    BY <1>2, <2>1, HalfSigned
  <2>3. pow2(k) \in Nat \ {0} /\ pow2(k + 1) = 2 * pow2(k)
    BY Pow2Steps
  <2>4. signed(g[k]) = signed(w) \div pow2(k)
    OBVIOUS
  <2>5. signed(g[k + 1]) = signed(w) \div pow2(k + 1)
    BY <1>3, <2>2, <2>3, <2>4, DivTwice
  <2> QED
    BY <2>5
<1>6. n \in S
  <2>1. n \in 0..n
    OBVIOUS
  <2> HIDE DEF S
  <2> QED
    BY <1>4, <1>5, <2>1, UpTo
<1> QED
  BY <1>1, <1>6

\* SHR divides the unsigned number.
LEMMA ShiftSHR ==
  ASSUME NEW w \in SUBSET Bits, NEW n \in Nat
  PROVE  number(rounds("SHR", w, n)) = number(w) \div pow2(n)
<1>1. PICK g : Shifted(g, "SHR", w, n) /\ rounds("SHR", w, n) = g[n]
  BY Rounds
<1>2. \A k \in 0..n : g[k] \in SUBSET Bits
  BY <1>1 DEF Shifted
<1>3. number(w) \in Int
  BY NumberRange
<1> DEFINE S == {k \in 0..n : number(g[k]) = number(w) \div pow2(k)}
<1>4. 0 \in S
  <2>1. g[0] = w /\ pow2(0) = 1
    BY <1>1, Pow2Steps DEF Shifted
  <2>2. number(g[0]) = number(w) \div pow2(0)
    BY <1>3, <2>1
  <2> QED
    BY <2>2
<1>5. \A k \in 0..n : k \in S /\ k + 1 <= n => k + 1 \in S
  <2> SUFFICES ASSUME NEW k \in 0..n, k \in S, k + 1 <= n PROVE k + 1 \in S
    OBVIOUS
  <2>1. g[k + 1] = once("SHR", g[k])
    BY <1>1 DEF Shifted
  <2>2. number(g[k + 1]) = number(g[k]) \div 2
    BY <1>2, <2>1, HalfUnsigned
  <2>3. pow2(k) \in Nat \ {0} /\ pow2(k + 1) = 2 * pow2(k)
    BY Pow2Steps
  <2>4. number(g[k]) = number(w) \div pow2(k)
    OBVIOUS
  <2>5. number(g[k + 1]) = number(w) \div pow2(k + 1)
    BY <1>3, <2>2, <2>3, <2>4, DivTwice
  <2> QED
    BY <2>5
<1>6. n \in S
  <2>1. n \in 0..n
    OBVIOUS
  <2> HIDE DEF S
  <2> QED
    BY <1>4, <1>5, <2>1, UpTo
<1> QED
  BY <1>1, <1>6

\* SHL multiplies, modulo 2^W.
LEMMA ShiftSHL ==
  ASSUME NEW w \in SUBSET Bits, NEW n \in Nat
  PROVE  number(rounds("SHL", w, n)) = (number(w) * pow2(n)) % pow2(W)
<1>1. PICK g : Shifted(g, "SHL", w, n) /\ rounds("SHL", w, n) = g[n]
  BY Rounds
<1>2. \A k \in 0..n : g[k] \in SUBSET Bits
  BY <1>1 DEF Shifted
<1>3. PICK m \in Nat \ {0} : m = pow2(W)
  BY Ia32emuAssumption, Pow2Steps
<1>4. \A x \in SUBSET Bits : number(x) \in 0..m - 1
  BY <1>3, NumberRange
<1> DEFINE S == {k \in 0..n : number(g[k]) = (number(w) * pow2(k)) % m}
<1>5. 0 \in S
  <2>1. g[0] = w /\ pow2(0) = 1
    BY <1>1, Pow2Steps DEF Shifted
  <2>2. PICK x \in 0..m - 1 : x = number(w)
    BY <1>4
  <2>3. x * 1 = x /\ x % m = x
    OBVIOUS
  <2>4. number(g[0]) = (number(w) * pow2(0)) % m
    BY <2>1, <2>2, <2>3
  <2> QED
    BY <2>4
<1>6. \A k \in 0..n : k \in S /\ k + 1 <= n => k + 1 \in S
  <2> SUFFICES ASSUME NEW k \in 0..n, k \in S, k + 1 <= n PROVE k + 1 \in S
    OBVIOUS
  <2>1. g[k + 1] = once("SHL", g[k]) /\ g[k] \in SUBSET Bits /\ g[k + 1] \in SUBSET Bits
    BY <1>1, <1>2 DEF Shifted
  <2>2. PICK b \in {0, 1} : b = Bit(g[k], W - 1)
    BY DEF Bit
  <2>3. number(g[k + 1]) = 2 * number(g[k]) - b * m
    BY <1>3, <2>1, <2>2, Doubled
  <2>4. PICK y \in Nat : y = number(w) * pow2(k)
    <3>1. number(w) \in Nat /\ pow2(k) \in Nat
      BY <1>4, Pow2Steps
    <3> QED
      BY <3>1
  <2>5. number(w) * pow2(k + 1) = 2 * y
    <3>1. number(w) \in Nat /\ pow2(k) \in Nat /\ pow2(k + 1) = 2 * pow2(k)
      BY <1>4, Pow2Steps
    <3> QED
      BY <2>4, <3>1
  <2>6. number(g[k]) = y % m
    BY <2>4
  <2>7. 2 * (y % m) - b * m \in 0..m - 1
    BY <1>4, <2>1, <2>3, <2>6
  <2>8. (2 * y) % m = 2 * (y % m) - b * m
    BY <2>7, ModTwice
  <2>9. number(g[k + 1]) = (number(w) * pow2(k + 1)) % m
    BY <2>3, <2>5, <2>6, <2>8
  <2> QED
    BY <2>9
<1>7. n \in S
  <2>1. n \in 0..n
    OBVIOUS
  <2> HIDE DEF S
  <2> QED
    BY <1>5, <1>6, <2>1, UpTo
<1> QED
  BY <1>1, <1>3, <1>7

\* What the comments of shift promise, for every word and every count.
THEOREM ShiftLaws ==
  \A w \in SUBSET Bits : \A n \in Bits :
    /\ signed(shift("SAR", w, n)) = signed(w) \div pow2(n)
    /\ number(shift("SHR", w, n)) = number(w) \div pow2(n)
    /\ number(shift("SHL", w, n)) = (number(w) * pow2(n)) % pow2(W)
<1> SUFFICES ASSUME NEW w \in SUBSET Bits, NEW n \in Bits
             PROVE  /\ signed(shift("SAR", w, n)) = signed(w) \div pow2(n)
                    /\ number(shift("SHR", w, n)) = number(w) \div pow2(n)
                    /\ number(shift("SHL", w, n)) = (number(w) * pow2(n)) % pow2(W)
  OBVIOUS
<1>1. n \in Nat
  BY Ia32emuAssumption DEF Bits
<1> QED
  BY <1>1, ShiftIsRounds, ShiftSAR, ShiftSHR, ShiftSHL

-----------------------------------------------------------------------------
(* The flags of a TEST.                                                    *)

\* The flags a TEST leaves when its result is w.
FlagsOf(f, w) ==
  /\ CF \notin f /\ OF \notin f
  /\ SF \in f <=> MSB(w)
  /\ PF \in f <=> BitwiseXNOR(w)
  /\ ZF \in f <=> w = {}

\* The jumps they make are the ones that the signed result demands.
LEMMA JumpsOfTest ==
  ASSUME NEW w \in SUBSET Bits, NEW f, FlagsOf(f, w)
  PROVE  jumps(f) = Taken(w)
<1>1. signed(w) \in Int /\ (signed(w) < 0 <=> MSB(w)) /\ (signed(w) = 0 <=> w = {})
  BY SignedRange
<1>2. signed(w) <= 0 <=> MSB(w) \/ w = {}
  BY <1>1
<1>3. MSB(w) => w # {}
  BY DEF MSB
<1>4. /\ CF \notin f /\ OF \notin f /\ (SF \in f <=> MSB(w))
      /\ (PF \in f <=> BitwiseXNOR(w)) /\ (ZF \in f <=> w = {})
  BY DEF FlagsOf
<1>5. jumps(f) = UNION {{"JNB", "JNC", "JAE"}, {"JNO"},
                        IF BitwiseXNOR(w) THEN {"JPE", "JP"} ELSE {"JPO", "JNP"},
                        IF MSB(w) THEN {"JS"} ELSE {"JNS"},
                        IF w = {} THEN {"JE", "JZ"} ELSE {"JNE", "JNZ"},
                        IF w = {} THEN {"JBE", "JNA"} ELSE {"JNBE", "JA"},
                        IF w = {} \/ MSB(w) THEN {"JNG", "JLE"} ELSE {"JNLE", "JG"},
                        IF MSB(w) THEN {"JNGE", "JL"} ELSE {"JNL", "JGE"}}
  BY <1>4 DEF jumps
<1>6. Taken(w) = UNION {{"JNB", "JNC", "JAE", "JNO"},
                        IF BitwiseXNOR(w) THEN {"JPE", "JP"} ELSE {"JPO", "JNP"},
                        IF w = {} THEN {"JE", "JZ", "JBE", "JNA"} ELSE {"JNE", "JNZ", "JNBE", "JA"},
                        IF MSB(w) THEN {"JS", "JL", "JNGE"} ELSE {"JNS", "JNL", "JGE"},
                        IF w = {} \/ MSB(w) THEN {"JNG", "JLE"} ELSE {"JNLE", "JG"}}
  BY <1>1, <1>2 DEF Taken
<1>7. CASE w = {}
  BY <1>3, <1>5, <1>6, <1>7
<1>8. CASE MSB(w)
  BY <1>3, <1>5, <1>6, <1>8
<1>9. CASE w # {} /\ ~MSB(w)
  BY <1>5, <1>6, <1>9
<1> QED
  BY <1>7, <1>8, <1>9

=============================================================================
