----------------------------- MODULE MCIa32emu ------------------------------
(***************************************************************************)
(* The instance of Ia32emu for TLC: two invocations at a time, words of 16 *)
(* bits (the flags need twelve), and command lines that set operands in    *)
(* every way the options allow, wrong ones too.                            *)
(***************************************************************************)
EXTENDS Ia32emu, TLC

TwoProcs == {"p", "q"}

\* 0, 1, 5 and the smallest number.
Words == {{}, {0}, {0, 2}, {W - 1}}

Dst == [opt |-> "dst"]
Src == [opt |-> "src"]
Imm == [opt |-> "immediate"]
Reg(n, s) == [opt |-> "register", reg |-> n, size |-> s]
Val(w, f) == [opt |-> "value", word |-> w, form |-> f]
Eax == Reg("eax", 32)
Ebx == Reg("ebx", 32)

Both == <<Dst, Eax, Src, Ebx>>
Line(options, ins) == [options |-> options, ins |-> ins, count |-> 1]

Lines ==
  {Line(Both, i) : i \in Binary} \cup {Line(<<>>, j) : j \in Jumps \cup {"JCXZ", "JECXZ", "CMP"}}
  \cup {[options |-> <<Dst, Eax>>, ins |-> "SHR", count |-> n] : n \in {1, 2, W}}
  \cup {Line(<<Dst, Reg("eax", 8), Val({8}, "dec"), Src, Ebx>>, "MOV"),
        Line(<<Dst, Reg("eax", 8), Val({9}, "dec")>>, "SAR"),
        Line(<<Dst, Eax, Val({0, 4}, "hex"), Src, Reg("eax", 8)>>, "AND"),
        Line(<<Dst, Eax, Src, Imm, Val({3}, "dec")>>, "MOV"),
        Line(<<Dst, Eax, Src, Ebx, Imm, Val({3}, "dec")>>, "SUB"),
        Line(<<Dst, Reg("eflags", 0), Val({}, "RST")>>, "SAL"),
        Line(<<Dst, Eax, Val({1}, "RST"), Imm>>, "SHL"),
        Line(<<Dst, Reg("eflags", 0), Src, Eax>>, "TEST"),
        Line(<<Eax>>, "MOV"), Line(<<Val({}, "dec")>>, "MOV"), Line(<<Dst>>, "SHL"),
        Line(<<Dst, Reg("foo", 32)>>, "MOV"), Line(<<Dst, Val({}, "dec")>>, "MOV")}

=============================================================================
