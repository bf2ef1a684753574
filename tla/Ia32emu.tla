------------------------------ MODULE Ia32emu -------------------------------
(***************************************************************************)
(* The ia32emu command (src/ia32emu.c, src/registers.c, src/bits.h): every *)
(* invocation loads five registers from shared memory, word by word, sets  *)
(* up to two operands by its options, executes one instruction and stores  *)
(* the five words again.  Invocations overlap and die at any point.        *)
(*                                                                         *)
(* A word is the set of its one bits.  W is 32 in the code; nothing in it  *)
(* depends on that but the mask of a shift count, the sign bit and the     *)
(* room for the flags.                                                     *)
(***************************************************************************)
EXTENDS Integers, Sequences, SequencesExt, FiniteSetsExt

CONSTANTS
  W,         \* bits of a word
  Procs,     \* invocations that can run at once
  Values,    \* what eax and ebx may hold at first
  Commands,  \* command lines: options, instruction, count
  MaxRuns    \* bound: invocations

Bits == 0..W - 1
Null == "null"
CF == 0
PF == 2
ZF == 6
SF == 7
OF == 11

ASSUME Ia32emuAssumption ==
  /\ W \in Nat /\ W > OF /\ MaxRuns \in Nat
  /\ Values \subseteq SUBSET Bits
  /\ \A c \in Commands :
       /\ c.count \in Nat /\ c.options \in Seq(Range(c.options))
       /\ \A o \in Range(c.options) : o.opt = "value" => o.word \subseteq Bits

VARIABLES
  words,      \* the registers in shared memory
  at,         \* the next step of each invocation, 0 for none
  local,      \* its memory
  runs,       \* invocations so far
  ideal,      \* history: the registers, had every command been one step
  tested,     \* history: {the result of the latest TEST}, {} once it is outdated
  disturbed   \* history: invocations overlapped, or one died on the way

vars == <<words, at, local, runs, ideal, tested, disturbed>>

\* The offsets of the registers in the segment.
Order == <<"eflags", "eax", "ebx", "ecx", "edx">>
Names == Range(Order)
Execute == Len(Order) + 1
Final == 2 * Len(Order) + 1

-----------------------------------------------------------------------------
(* bits.h and shift.                                                       *)

MSB(w) == W - 1 \in w
LSB(w) == 0 \in w
BitwiseXNOR(w) == Cardinality(w) % 2 = 0

put(w, f, b) == IF b THEN w \cup {f} ELSE w \ {f}

\* Mutant: the sign is not put back.
once_mutant(ins, w) ==
  IF ins \in {"SAL", "SHL"} THEN {i + 1 : i \in w \ {W - 1}} ELSE {i - 1 : i \in w \ {0}}

\* One round of the loop of shift.
once(ins, w) ==
  IF ins \in {"SAL", "SHL"} THEN {i + 1 : i \in w \ {W - 1}}
  ELSE {i - 1 : i \in w \ {0}} \cup IF ins = "SAR" THEN w \cap {W - 1} ELSE {}

rounds(ins, w, n) ==
  LET round[k \in 0..n] == IF k = 0 THEN w ELSE once(ins, round[k - 1]) IN round[n]

\* The flags after shift: CF is the last bit out, OF is only set for one bit.
shift_flags(ins, w, cnt, eflags) ==
  LET n == cnt % W
      out == rounds(ins, w, n - 1)
      left == ins \in {"SAL", "SHL"}
      carry == IF left THEN MSB(out) ELSE LSB(out)
      sign == MSB(rounds(ins, w, n))
      with_CF == put(eflags, CF, carry)
  IN  IF n = 0 THEN eflags
      ELSE IF n # 1 THEN with_CF
      ELSE put(with_CF, OF, CASE left -> sign # carry [] ins = "SAR" -> FALSE [] OTHER -> sign)

shift(ins, w, cnt) == rounds(ins, w, cnt % W)

\* a < b as unsigned numbers.
below(a, b) == LET d == (a \ b) \cup (b \ a) IN d # {} /\ Max(d) \in b

\* Mutant: the borrow is kept.
minus_mutant(w) == IF w = {} THEN {} ELSE {i \in 0..W : i = Min(w) \/ (i > Min(w) /\ i \notin w)}

\* 0 - w.
minus(w) == IF w = {} THEN {} ELSE {i \in Bits : i = Min(w) \/ (i > Min(w) /\ i \notin w)}

-----------------------------------------------------------------------------
(* Options.                                                                *)

\* registers$init and the statics of ia32emu.c.
Fresh(reg) ==
  [reg |-> [reg EXCEPT !["eflags"] = (@ \cup {1}) \ {3, 5, 15}],
   size |-> [n \in Names |-> IF n = "eflags" THEN 0 ELSE 32],
   target |-> "dst", set |-> FALSE,
   operand |-> [dst |-> Null, src |-> Null],
   register |-> [dst |-> Null, src |-> Null],
   immediate |-> {}, e |-> 0, crashed |-> FALSE, ins |-> Null, jump |-> FALSE]

fail(L) == [L EXCEPT !.e = 1]
crash(L) == [L EXCEPT !.crashed = TRUE]
value(L, x) == IF x = "immediate" THEN L.immediate ELSE L.reg[x]
assign(L, x, w) ==
  IF x = "immediate" THEN [L EXCEPT !.immediate = w] ELSE [L EXCEPT !.reg[x] = w]

\* -r: registers$register_by_name finds a register and changes its size for
\* whoever has it as an operand; a name that is none is a null pointer.
set_register(L, o) ==
  IF ~L.set THEN fail(L)
  ELSE IF o.reg \notin Names THEN crash(L)
  ELSE [L EXCEPT !.operand = [@ EXCEPT ![L.target] = o.reg],
                 !.register = [@ EXCEPT ![L.target] = o.reg],
                 !.size = [@ EXCEPT ![o.reg] = o.size]]

\* -v: a value in decimal is compared with 2^size, and stored all the same.
\* RST means something for eflags alone; otherwise o.word is what happened
\* to be in the variable.
set_value(L, o) ==
  LET x == L.operand[L.target]
      r == L.register[L.target]
      fits == o.form = "hex" \/ \A i \in o.word : i < L.size[r] \/ o.word = {L.size[r]}
  IN  IF ~L.set THEN crash(L)
      ELSE IF x = Null THEN fail(L)
      ELSE IF o.form = "RST" THEN assign(L, x, IF x = "eflags" THEN {5} ELSE o.word)
      ELSE IF r = Null THEN crash(L)
      ELSE assign(IF fits THEN L ELSE fail(L), x, o.word)

\* One turn of the getopt loop; an error does not end it.
option(L, o) ==
  IF L.crashed THEN L ELSE
  CASE o.opt \in {"dst", "src"} -> [L EXCEPT !.target = o.opt, !.set = TRUE]
    [] o.opt = "immediate" /\ L.target = "src" -> [L EXCEPT !.operand["src"] = "immediate"]
    [] o.opt = "register" -> set_register(L, o)
    [] o.opt = "value" -> set_value(L, o)
    [] OTHER -> fail(L)

-----------------------------------------------------------------------------
(* Instructions.                                                           *)

Shifts == {"SAR", "SHR", "SAL", "SHL"}
Binary == {"MOV", "ADD", "SUB", "OR", "AND", "XOR", "TEST"}

\* Mutant: ZF is the sign of the result.
setEFLAGS_mutant(eflags, ins, dst, src, buf) ==
  LET flags == IF ins \notin {"ADD", "TEST"} THEN eflags ELSE
                 put(put(eflags \ {CF, OF}, SF, MSB(buf)), PF, BitwiseXNOR(buf))
  IN  put(flags, ZF, ~MSB(buf))

\* ADD falls through to TEST; SUB only ever sets CF.
setEFLAGS(eflags, ins, dst, src, buf) ==
  LET flags == CASE ins = "SUB" /\ below(dst, src) -> eflags \cup {CF}
                 [] ins \in {"ADD", "TEST"} ->
                      put(put(eflags \ {CF, OF}, SF, MSB(buf)), PF, BitwiseXNOR(buf))
                 [] OTHER -> eflags
  IN  put(flags, ZF, buf = {})

\* What main puts into the buffer, which is 0 when it starts.
buffer(ins, dst, src) ==
  CASE ins \in {"AND", "TEST"} -> dst \cap src
    [] ins = "SUB" -> minus(src)
    [] OTHER -> src

\* A shift is always a SAR.
shift_instruction(L, ins, cnt) ==
  LET x == L.operand["dst"]
      buf == shift("SAR", value(L, x), cnt)
      flags == shift_flags("SAR", value(L, x), cnt, L.reg["eflags"])
  IN  IF x = Null THEN fail(L)
      ELSE assign([L EXCEPT !.reg["eflags"] = put(flags, ZF, buf = {})], x, buf)

\* check_operands, the buffer, the flags and commit.
binary_instruction(L, ins) ==
  LET x == L.operand["dst"]
      y == L.operand["src"]
      buf == buffer(ins, value(L, x), value(L, y))
      M == [L EXCEPT !.reg["eflags"] = setEFLAGS(@, ins, value(L, x), value(L, y), buf)]
  IN  IF x = Null \/ y = Null THEN fail(L)
      ELSE IF L.register["src"] = Null THEN crash(L)
      ELSE IF L.size[L.register["src"]] # L.size[L.register["dst"]] THEN fail(L)
      ELSE IF ins = "TEST" THEN M ELSE assign(M, x, buf)

\* The jumps that are taken.
jumps(eflags) ==
  LET has(f) == f \in eflags
  IN  UNION {IF has(CF) THEN {"JC", "JNAE", "JB"} ELSE {"JNB", "JNC", "JAE"},
             IF has(OF) THEN {"JO"} ELSE {"JNO"},
             IF has(PF) THEN {"JPE", "JP"} ELSE {"JPO", "JNP"},
             IF has(SF) THEN {"JS"} ELSE {"JNS"},
             IF has(ZF) THEN {"JE", "JZ"} ELSE {"JNE", "JNZ"},
             IF has(CF) \/ has(ZF) THEN {"JBE", "JNA"} ELSE {"JNBE", "JA"},
             IF has(ZF) \/ has(SF) # has(OF) THEN {"JNG", "JLE"} ELSE {"JNLE", "JG"},
             IF has(SF) # has(OF) THEN {"JNGE", "JL"} ELSE {"JNL", "JGE"}}
Jumps == jumps({}) \cup jumps({CF, OF, PF, SF, ZF}) \cup jumps({CF, OF, PF, ZF})

\* The body of main after registers$init.  JCXZ reads through a null
\* pointer; CMP is not in set_instruction.
main(L, c) ==
  LET M == FoldLeft(option, L, c.options)
  IN  IF M.crashed \/ M.e # 0 THEN M ELSE
      CASE c.ins \in Shifts -> shift_instruction(M, c.ins, c.count)
        [] c.ins \in Binary -> binary_instruction(M, c.ins)
        [] c.ins = "JCXZ" -> crash(M)
        [] c.ins = "JECXZ" -> [M EXCEPT !.jump = M.reg["ecx"] = {}, !.size["ecx"] = 32]
        [] c.ins \in Jumps -> [M EXCEPT !.jump = c.ins \in jumps(M.reg["eflags"])]
        [] OTHER -> fail(M)

-----------------------------------------------------------------------------
Zero == [n \in Names |-> {}]
Clear == Fresh(Zero)
Busy(p) == \E q \in Procs \ {p} : at[q] # 0
Idle == \A p \in Procs : at[p] = 0

TypeOK ==
  /\ words \in [Names -> SUBSET Bits]
  /\ at \in [Procs -> 0..Final]
  /\ \A p \in Procs : /\ local[p].reg \in [Names -> SUBSET Bits]
                      /\ local[p].immediate \subseteq Bits
                      /\ local[p].e \in {0, 1} /\ local[p].jump \in BOOLEAN
  /\ runs \in 0..MaxRuns
  /\ tested \subseteq SUBSET Bits /\ ideal \in [Names -> SUBSET Bits]

Init ==
  /\ words \in {[Zero EXCEPT !["eax"] = v, !["ebx"] = w] : v, w \in Values}
  /\ at = [p \in Procs |-> 0]
  /\ local = [p \in Procs |-> Clear]
  /\ runs = 0
  /\ ideal = words
  /\ tested = {}
  /\ disturbed = FALSE

\* From here on the histories say nothing.
disturb == disturbed' = TRUE /\ ideal' = Zero /\ tested' = {}

start(p) ==
  /\ at[p] = 0 /\ runs < MaxRuns
  /\ at' = [at EXCEPT ![p] = 1]
  /\ runs' = runs + 1
  /\ IF Busy(p) THEN disturb ELSE UNCHANGED <<disturbed, ideal, tested>>
  /\ UNCHANGED <<words, local>>

\* registers$init, one SharedMemory$read_uint32; the last one sets it up.
load(p) ==
  /\ at[p] \in 1..Len(Order)
  /\ LET n == Order[at[p]]
         reg == [local[p].reg EXCEPT ![n] = words[n]]
     IN  local' = [local EXCEPT ![p] = IF at[p] = Len(Order) THEN Fresh(reg)
                                       ELSE [@ EXCEPT !.reg = reg]]
  /\ at' = [at EXCEPT ![p] = @ + 1]
  /\ UNCHANGED <<words, runs, ideal, tested, disturbed>>

\* What main makes of a command line, and what it should.  Of its memory only
\* the registers, and what a jump has printed, matter after that.
execute(p, c) ==
  LET L == main(local[p], c)
      S == FoldLeft(option, Fresh(ideal), c.options)
      T == main(Fresh(ideal), c)
  IN  /\ at[p] = Execute
      /\ at' = [at EXCEPT ![p] = IF L.crashed THEN 0 ELSE @ + 1]
      /\ local' = [local EXCEPT ![p] =
                     IF L.crashed THEN Clear
                     ELSE [Clear EXCEPT !.reg = L.reg, !.jump = L.jump,
                                        !.ins = IF c.ins \in Jumps THEN c.ins ELSE Null]]
      /\ IF disturbed \/ L.crashed THEN UNCHANGED <<ideal, tested>>
         ELSE /\ ideal' = [n \in Names |-> T.reg[n]]
              /\ tested' = CASE c.ins \in Jumps /\ c.options = <<>> -> tested
                             [] c.ins = "TEST" /\ T.e = 0 ->
                                  {value(S, S.operand["dst"]) \cap value(S, S.operand["src"])}
                             [] OTHER -> {}
      /\ UNCHANGED <<words, runs, disturbed>>

\* Mutant: the flags are not written back.
store_mutant(p) ==
  /\ at[p] \in Execute + 1..Final
  /\ LET n == Order[at[p] - Execute]
     IN  words' = IF n = "eflags" THEN words ELSE [words EXCEPT ![n] = local[p].reg[n]]
  /\ at' = [at EXCEPT ![p] = IF @ = Final THEN 0 ELSE @ + 1]
  /\ local' = IF at[p] = Final THEN [local EXCEPT ![p] = Clear] ELSE local
  /\ UNCHANGED <<runs, ideal, tested, disturbed>>

\* registers$delete, one SharedMemory$write_uint32; after a failure too.
store(p) ==
  /\ at[p] \in Execute + 1..Final
  /\ LET n == Order[at[p] - Execute] IN words' = [words EXCEPT ![n] = local[p].reg[n]]
  /\ at' = [at EXCEPT ![p] = IF @ = Final THEN 0 ELSE @ + 1]
  /\ local' = IF at[p] = Final THEN [local EXCEPT ![p] = Clear] ELSE local
  /\ UNCHANGED <<runs, ideal, tested, disturbed>>

\* An invocation is killed: nothing of it is kept, or some of its words.
die(p) ==
  /\ at[p] # 0
  /\ at' = [at EXCEPT ![p] = 0]
  /\ local' = [local EXCEPT ![p] = Clear]
  /\ IF at[p] > Execute THEN disturb ELSE UNCHANGED <<disturbed, ideal, tested>>
  /\ UNCHANGED <<words, runs>>

Next ==
  \E p \in Procs :
    \/ start(p) \/ load(p) \/ store(p) \/ die(p)
    \/ \E c \in Commands : execute(p, c)

Spec == Init /\ [][Next]_vars

-----------------------------------------------------------------------------
(* Correctness.                                                            *)

pow2(n) ==
  LET p[k \in 0..n] == IF k = 0 THEN 1 ELSE 2 * p[k - 1] IN p[n]

\* The number a word stands for, read from its first bit to its last.
number(w) ==
  LET read[k \in 0..W] == IF k = 0 THEN 0 ELSE 2 * read[k - 1] + IF W - k \in w THEN 1 ELSE 0
  IN  read[W]
signed(w) == number(w) - IF MSB(w) THEN pow2(W) ELSE 0

\* shift divides and multiplies the way its comments say, for every register
\* and count: SAR "rounding toward negative infinity", SHR "unsigned".
ShiftsDivide ==
  Idle => \A n \in Bits : \A w \in Range(words) :
    /\ signed(shift("SAR", w, n)) = signed(w) \div pow2(n)
    /\ number(shift("SHR", w, n)) = number(w) \div pow2(n)
    /\ number(shift("SHL", w, n)) = (number(w) * pow2(n)) % pow2(W)

\* The jumps that ought to be taken after a TEST whose result is w.
Taken(w) ==
  LET z == signed(w)
  IN  UNION {{"JNB", "JNC", "JAE", "JNO"},
             IF BitwiseXNOR(w) THEN {"JPE", "JP"} ELSE {"JPO", "JNP"},
             IF z = 0 THEN {"JE", "JZ", "JBE", "JNA"} ELSE {"JNE", "JNZ", "JNBE", "JA"},
             IF z < 0 THEN {"JS", "JL", "JNGE"} ELSE {"JNS", "JNL", "JGE"},
             IF z <= 0 THEN {"JNG", "JLE"} ELSE {"JNLE", "JG"}}

\* The flags of a TEST reach the next invocation: a jump it asks about is
\* taken as the result of the TEST, compared with 0, demands.
TestThenJump ==
  \A p \in Procs :
    at[p] > Execute /\ local[p].ins \in Jumps
      => \A w \in tested : local[p].jump = (local[p].ins \in Taken(w))

\* Invocations that do not overlap are as good as single steps: between two
\* of them the segment holds what the commands have made of it, however many
\* died before they came to registers$delete.
SerialWhenAlone ==
  Idle /\ ~disturbed => words = ideal

=============================================================================
