---------------------------- MODULE SyschkProofs ----------------------------
(***************************************************************************)
(* Proofs about Syschk: for any limits of the user and of the host, any    *)
(* sizes of the tables, any width of an offset, any number of children and *)
(* any keys of other commands.                                             *)
(***************************************************************************)
EXTENDS Syschk, SequenceTheorems, TLAPS

-----------------------------------------------------------------------------
(* The inductive invariant, one part per probe.                            *)

\* Nothing is closed while files are opened, so the open descriptors are the
\* first k; each is standard, kept or sampled, and of one kind only.
OpenInv ==
  /\ rlim.NOFILE >= 3
  /\ kept \cap (Std \cup sampled) = {}
  /\ fds = Std \cup sampled \cup kept
  /\ at \in {"open_prepare", "open"} =>
       \E k \in 3..rlim.NOFILE : fds = 0..k - 1 /\ Len(opened) <= k - 3
  /\ at = "open_prepare" => opened = <<>> /\ fds = Std
  /\ at \notin {"open_prepare", "open"} => opened = <<>>

Early == {"open_prepare", "open", "fork_prepare"}

\* The counted children are the first ones, within the limit, and a pid is
\* stored only after the limit was lowered to the system's.
ForkInv ==
  /\ forked <= rlim.NPROC
  /\ \A c \in 1..forked : child[c] # "none"
  /\ at = "record" => forked + 1 \in Pids /\ child[forked + 1] # "none"
  /\ at \in Early => forked = 0
  /\ at \notin Early => rlim.NPROC <= SysLimit.NPROC

\* Every block is in heaps, until a sample is slow.
CallocInv ==
  /\ at \notin {"done", "aborted"} => heaps = blocks
  /\ at \notin {"calloc", "done", "aborted"} => heaps = 0
  /\ at = "calloc" => heaps <= rlim.AS
  /\ at = "done" => blocks = IF msg.name = "CALLOC" /\ msg.reason = "THRSHD" THEN 1 ELSE 0

IInv ==
  /\ TypeOK /\ OpenInv /\ ForkInv /\ CallocInv
  /\ ReachWithinLimit

-----------------------------------------------------------------------------
LEMMA LimitsPositive ==
  /\ SysLimit \in [NOFILE : Nat \ 0..2, NPROC : Nat \ {0}, AS : Nat \ {0}]
  /\ \A limit \in UserLimits :
       limit \in [NOFILE : Nat \ 0..2, NPROC : Nat \ {0}, AS : Nat \ {0}]
  BY SyschkAssumption

LEMMA NoReach == NoMsg.reach = 0 /\ NoMsg.limit = 0 /\ NoMsg.name # "CALLOC"
  BY DEF NoMsg

LEMMA InvInit == Init => IInv
<1> SUFFICES ASSUME Init PROVE IInv
  OBVIOUS
<1>1. /\ rlim \in [NOFILE : Nat \ 0..2, NPROC : Nat \ {0}, AS : Nat \ {0}]
      /\ SysLimit.NPROC \in Nat \ {0}
  BY LimitsPositive DEF Init
<1>2. kept = {}
  BY DEF Init, kept, Range
<1>3. TypeOK
  <2>1. words \subseteq Words
    BY DEF Init
  <2>2. opened \in Seq(fds \cup sampled)
    BY DEF Init
  <2>3. table \in Nat /\ 0 \in 0..MaxPids
    BY <1>1, SyschkAssumption DEF Init
  <2> QED
    BY <1>1, <2>1, <2>2, <2>3 DEF Init, TypeOK, NoMsg, Reasons, Std
<1>4. OpenInv
  <2>1. 3 \in 3..rlim.NOFILE /\ Std = 0..3 - 1 /\ Len(<<>>) <= 3 - 3
    BY <1>1 DEF Std
  <2> QED
    BY <1>1, <1>2, <2>1 DEF Init, OpenInv
<1>5. ForkInv
  BY <1>1 DEF Init, ForkInv, Early
<1>6. CallocInv
  BY DEF Init, CallocInv
<1>7. ReachWithinLimit
  <2>1. msg = NoMsg
    BY DEF Init
  <2>2. msg.reach = 0 /\ msg.limit = 0
    BY <2>1, NoReach
  <2> QED
    BY <2>2 DEF ReachWithinLimit
<1> QED
  BY <1>3, <1>4, <1>5, <1>6, <1>7 DEF IInv

-----------------------------------------------------------------------------
(* What a step leaves alone.                                               *)

LEMMA OpenFrame ==
  ASSUME OpenInv, UNCHANGED openVars, rlim'.NOFILE = rlim.NOFILE,
         at' = at \/ (at \notin {"open_prepare", "open"} /\ at' \notin {"open_prepare", "open"})
  PROVE  OpenInv'
<1>1. kept' = kept /\ opened' = opened /\ fds' = fds /\ sampled' = sampled
  BY DEF kept, openVars
<1> QED
  BY <1>1 DEF OpenInv

LEMMA ForkFrame ==
  ASSUME ForkInv, UNCHANGED <<forked, child>>, rlim'.NPROC = rlim.NPROC,
         at' = at \/ (at' # "record" /\ (at' \in Early <=> at \in Early))
  PROVE  ForkInv'
  BY DEF ForkInv, Early

LEMMA CallocFrame ==
  ASSUME CallocInv, UNCHANGED <<callocVars>>,
         \/ at' = at /\ msg' = msg /\ rlim' = rlim
         \/ at' = "aborted"
         \/ at \notin {"calloc", "done", "aborted"} /\ at' \notin {"calloc", "done", "aborted"}
  PROVE  CallocInv'
  BY DEF CallocInv, callocVars

LEMMA LenType ==
  ASSUME TypeOK
  PROVE  Len(opened) \in Nat /\ DOMAIN opened = 1..Len(opened)
<1>1. opened \in Seq(fds \cup sampled)
  BY DEF TypeOK
<1> QED
  BY <1>1

LEMMA Typed ==
  ASSUME TypeOK
  PROVE  /\ forked \in Nat /\ forked <= MaxPids /\ MaxPids \in Nat
         /\ rlim.NOFILE \in Nat /\ rlim.NPROC \in Nat /\ rlim.AS \in Nat
         /\ 1..forked \subseteq Pids
<1>1. forked \in 0..MaxPids /\ rlim \in [NOFILE : Nat, NPROC : Nat, AS : Nat]
  BY DEF TypeOK
<1> QED
  BY <1>1, SyschkAssumption DEF Pids

LEMMA Remainder ==
  ASSUME NEW a \in Nat, NEW b \in Nat \ {0}
  PROVE  a % b \in Nat /\ a % b <= a
  OBVIOUS

\* The limits that setrlim leaves.
LEMMA SetRlim ==
  ASSUME TypeOK, NEW l \in {"NOFILE", "NPROC", "AS"}, setrlim(l)
  PROVE  /\ rlim' \in [NOFILE : Nat, NPROC : Nat, AS : Nat]
         /\ \A k \in {"NOFILE", "NPROC", "AS"} \ {l} : rlim'[k] = rlim[k]
         /\ rlim'[l] <= SysLimit[l]
         /\ rlim'[l] \in {rlim[l], SysLimit[l]}
<1>1. SysLimit.NOFILE \in Nat /\ SysLimit.NPROC \in Nat /\ SysLimit.AS \in Nat
  BY LimitsPositive
<1>2. SysLimit[l] \in Nat /\ rlim[l] \in Nat
  BY <1>1 DEF TypeOK
<1>3. rlim' = [rlim EXCEPT ![l] = IF rlim[l] > SysLimit[l] THEN SysLimit[l] ELSE rlim[l]]
  BY DEF setrlim
<1>4. rlim \in [NOFILE : Nat, NPROC : Nat, AS : Nat]
  BY DEF TypeOK
<1>5. rlim' \in [NOFILE : Nat, NPROC : Nat, AS : Nat]
  BY <1>2, <1>3, <1>4
<1>6. \A k \in {"NOFILE", "NPROC", "AS"} \ {l} : rlim'[k] = rlim[k]
  BY <1>3, <1>4
<1>7. rlim'[l] = IF rlim[l] > SysLimit[l] THEN SysLimit[l] ELSE rlim[l]
  BY <1>3, <1>4
<1> QED
  BY <1>2, <1>5, <1>6, <1>7

LEMMA Sampled ==
  ASSUME TypeOK, NEW n \in Nat, NEW r, performance(n, r)
  PROVE  counter_last' \in Nat
  BY DEF performance, TypeOK

LEMMA Message ==
  ASSUME NEW n \in {"OPEN", "PROC", "CALLOC"}, NEW l \in Nat, NEW h \in Nat, h <= l,
         NEW why \in Reasons, addMessage(n, l, h, why)
  PROVE  /\ msg' \in [name : {"", "OPEN", "PROC", "CALLOC"}, limit : Nat, reach : Nat,
                       reason : Reasons]
         /\ ReachWithinLimit'
         /\ msg'.name = n /\ msg'.reason = why
<1>1. msg' = [name |-> n, limit |-> l, reach |-> h, reason |-> why]
  BY DEF addMessage
<1>2. msg'.limit = l /\ msg'.reach = h /\ msg'.name = n /\ msg'.reason = why
  BY <1>1
<1> QED
  BY <1>1, <1>2 DEF ReachWithinLimit

-----------------------------------------------------------------------------
(* Files.                                                                  *)

LEMMA InvOpenPrepare ==
  ASSUME IInv, chk_open_prepare
  PROVE  IInv'
<1> USE DEF IInv, chk_open_prepare
<1>1. /\ rlim' \in [NOFILE : Nat, NPROC : Nat, AS : Nat]
      /\ rlim'.NPROC = rlim.NPROC /\ rlim'.AS = rlim.AS
      /\ rlim'.NOFILE \in {rlim.NOFILE, SysLimit.NOFILE}
  BY SetRlim
<1>2. rlim'.NOFILE >= 3
  <2>1. SysLimit.NOFILE \in Nat \ 0..2 /\ rlim.NOFILE >= 3
    BY LimitsPositive DEF OpenInv
  <2> QED
    BY <1>1, <2>1
<1>3. TypeOK'
  <2>1. at' = "open" /\ UNCHANGED <<counter_last, reason, msg, openVars, forkVars, callocVars>>
    OBVIOUS
  <2> QED
    BY <1>1, <2>1 DEF TypeOK, openVars, forkVars, callocVars
<1>4. OpenInv'
  <2>1. kept' = kept /\ opened' = <<>> /\ fds' = Std /\ sampled' = sampled
    BY DEF kept, openVars, OpenInv
  <2>2. fds' = 0..3 - 1 /\ Len(opened') <= 3 - 3 /\ 3 \in 3..rlim'.NOFILE
    BY <1>1, <1>2, <2>1 DEF Std
  <2> QED
    BY <1>2, <2>1, <2>2 DEF OpenInv
<1>5. ForkInv'
  BY <1>1 DEF ForkInv, Early, forkVars
<1>6. CallocInv'
  BY CallocFrame
<1> QED
  BY <1>3, <1>4, <1>5, <1>6 DEF ReachWithinLimit, forkVars

\* The lowest free descriptor, when the first k are open.
LEMMA LowestFree ==
  ASSUME NEW k \in Nat, NEW limit \in Nat, k <= limit
  PROVE  (CHOOSE n \in 0..limit : n \notin 0..k - 1 /\ 0..n - 1 \subseteq 0..k - 1) = k
<1>1. k \in 0..limit /\ k \notin 0..k - 1 /\ 0..k - 1 \subseteq 0..k - 1
  OBVIOUS
<1>2. ASSUME NEW n \in 0..limit, n \notin 0..k - 1, 0..n - 1 \subseteq 0..k - 1
      PROVE  n = k
  <2>1. n >= k
    BY <1>2
  <2>2. n > k => k \in 0..n - 1
    BY <1>2
  <2> QED
    BY <1>2, <2>1, <2>2
<1> QED
  BY <1>1, <1>2

\* chk_open_cleanup closes what was kept: of the descriptors FD, which the
\* sampled ones S and the standard ones are among, those remain.
LEMMA Cleanup ==
  ASSUME IInv, at = "open", NEW FD, NEW S, sampled' = S,
         FD = Std \cup S \cup kept, kept \cap (Std \cup S) = {},
         NEW why \in Reasons, chk_open_cleanup(FD, why),
         UNCHANGED <<rlim, reason, forkVars, callocVars>>, counter_last' \in Nat
  PROVE  IInv'
<1> USE DEF IInv
<1>1. /\ fds' = Std \cup S /\ opened' = <<>> /\ at' = "fork_prepare"
      /\ UNCHANGED <<rlim, reason, child, forked, table, guard, mine, words, intruder, heaps, blocks>>
  BY DEF chk_open_cleanup, forkVars, callocVars
<1>2. kept' = {}
  BY <1>1 DEF kept, Range
<1>3. rlim.NOFILE \in Nat /\ Len(opened) \in Nat /\ Len(opened) + 1 <= rlim.NOFILE
  <2>1. rlim.NOFILE \in Nat /\ Len(opened) \in Nat
    BY LenType DEF TypeOK
  <2>2. PICK k \in 3..rlim.NOFILE : Len(opened) <= k - 3
    BY DEF OpenInv
  <2> QED
    BY <2>1, <2>2
<1>4. /\ msg' \in [name : {"", "OPEN", "PROC", "CALLOC"}, limit : Nat, reach : Nat,
                   reason : Reasons]
      /\ ReachWithinLimit'
  <2>1. addMessage("OPEN", rlim.NOFILE, Len(opened) + 1, why)
    BY DEF chk_open_cleanup
  <2>2. Len(opened) + 1 \in Nat
    BY <1>3
  <2> QED
    BY <1>3, <2>1, <2>2, Message, Zenon
<1>5. TypeOK'
  <2>1. opened' \in Seq(fds' \cup sampled') /\ Std \subseteq fds'
    BY <1>1
  <2> QED
    BY <1>1, <1>4, <2>1 DEF TypeOK, Words
<1>6. OpenInv'
  BY <1>1, <1>2 DEF OpenInv
<1>7. ForkInv'
  BY <1>1 DEF ForkInv, Early
<1>8. CallocInv'
  BY <1>1 DEF CallocInv
<1> QED
  BY <1>1, <1>4, <1>5, <1>6, <1>7, <1>8

LEMMA InvOpenFails ==
  ASSUME IInv, NEW why \in {"EMFILE", "ENFILE", "ENOMEM", "UNKNWN"}, open_fails(why)
  PROVE  IInv'
<1>1. at = "open" /\ chk_open_cleanup(fds, why)
  BY DEF open_fails
<1>2. UNCHANGED <<rlim, reason, sampled, counter_last, forkVars, callocVars>>
  BY DEF open_fails
<1>3. fds = Std \cup sampled \cup kept /\ kept \cap (Std \cup sampled) = {}
  BY DEF IInv, OpenInv
<1>4. why \in Reasons /\ counter_last' \in Nat
  BY <1>2 DEF Reasons, IInv, TypeOK
<1> QED
  BY <1>1, <1>2, <1>3, <1>4, Cleanup

LEMMA InvOpen ==
  ASSUME IInv, NEW r \in {"none", "fast", "slow"}, chk_open(r)
  PROVE  IInv'
<1> DEFINE fh == CHOOSE n \in 0..rlim.NOFILE : n \notin fds /\ 0..n - 1 \subseteq fds
<1>1. /\ at = "open" /\ fh < rlim.NOFILE /\ performance(Len(opened), r)
      /\ \/ r = "none" /\ fds' = fds \cup {fh} /\ opened' = Append(opened, fh) /\ UNCHANGED <<at, msg>>
         \/ r = "fast" /\ fds' = fds \cup {fh} /\ UNCHANGED <<at, opened, msg>>
         \/ r = "slow" /\ chk_open_cleanup(fds \cup {fh}, "THRSHD")
      /\ sampled' = IF r = "none" THEN sampled ELSE sampled \cup {fh}
      /\ UNCHANGED <<rlim, reason, forkVars, callocVars>>
  BY DEF chk_open
<1>2. Len(opened) \in Nat /\ counter_last' \in Nat
  BY <1>1, LenType, Sampled DEF IInv
<1>3. PICK k \in 3..rlim.NOFILE : fds = 0..k - 1 /\ Len(opened) <= k - 3
  BY <1>1 DEF IInv, OpenInv
<1>4. rlim.NOFILE \in Nat /\ k \in Nat /\ k <= rlim.NOFILE
  <2>1. rlim.NOFILE \in Nat
    BY DEF IInv, TypeOK
  <2> QED
    BY <2>1
<1>5. fh = k
  BY <1>3, <1>4, LowestFree
<1> HIDE DEF fh
<1>6. fh \notin fds /\ fds \cup {fh} = 0..k /\ k + 1 <= rlim.NOFILE
  <2>1. k < rlim.NOFILE /\ k \notin 0..k - 1 /\ (0..k - 1) \cup {k} = 0..k
    BY <1>1, <1>4, <1>5
  <2> QED
    BY <1>3, <1>4, <1>5, <2>1
<1>7. /\ fds = Std \cup sampled \cup kept /\ kept \cap (Std \cup sampled) = {}
      /\ rlim.NOFILE >= 3 /\ Std \subseteq fds
  BY DEF IInv, OpenInv
<1>8. r # "slow" => ForkInv' /\ CallocInv' /\ ReachWithinLimit'
  <2> SUFFICES ASSUME r # "slow"
               PROVE  ForkInv' /\ CallocInv' /\ ReachWithinLimit'
    OBVIOUS
  <2>1. UNCHANGED <<at, rlim, msg, forkVars, callocVars>>
    BY <1>1
  <2>2. ForkInv'
    BY <2>1, ForkFrame DEF IInv, forkVars
  <2>3. CallocInv'
    BY <2>1, CallocFrame DEF IInv
  <2> QED
    BY <2>1, <2>2, <2>3 DEF IInv, ReachWithinLimit, forkVars
<1>9. \A T : fds \cup sampled \subseteq T => opened \in Seq(T)
  BY SeqMonotonic DEF IInv, TypeOK
<1>10. CASE r = "none"
  <2>1. /\ fds' = fds \cup {fh} /\ opened' = Append(opened, fh) /\ sampled' = sampled
        /\ UNCHANGED <<at, msg, rlim, reason, forkVars, callocVars>>
    BY <1>1, <1>10
  <2>2. opened \in Seq(fds \cup sampled) /\ opened \in Seq(fds' \cup sampled')
    BY <1>9, <2>1
  <2>3. /\ opened' \in Seq(fds' \cup sampled') /\ Len(opened') = Len(opened) + 1
        /\ DOMAIN opened = 1..Len(opened) /\ DOMAIN opened' = 1..Len(opened) + 1
        /\ \A i \in 1..Len(opened) : opened'[i] = opened[i]
        /\ opened'[Len(opened) + 1] = fh
    BY <2>1, <2>2
  <2>4. kept' = kept \cup {fh}
    BY <1>2, <2>3 DEF kept, Range
  <2>5. TypeOK'
    BY <1>2, <1>7, <2>1, <2>3 DEF IInv, TypeOK, forkVars, callocVars
  <2>6. OpenInv'
    <3>1. k + 1 \in 3..rlim'.NOFILE /\ fds' = 0..(k + 1) - 1 /\ Len(opened') <= (k + 1) - 3
      BY <1>2, <1>3, <1>4, <1>6, <2>1, <2>3
    <3>2. fds' = Std \cup sampled' \cup kept' /\ kept' \cap (Std \cup sampled') = {}
      BY <1>6, <1>7, <2>1, <2>4
    <3>3. at' = "open" /\ rlim' = rlim
      BY <1>1, <2>1
    <3> QED
      BY <1>7, <3>1, <3>2, <3>3 DEF OpenInv
  <2> QED
    BY <1>8, <1>10, <2>5, <2>6 DEF IInv
<1>11. CASE r = "fast"
  <2>1. /\ fds' = fds \cup {fh} /\ opened' = opened /\ sampled' = sampled \cup {fh}
        /\ UNCHANGED <<at, msg, rlim, reason, forkVars, callocVars>>
    BY <1>1, <1>11
  <2>2. opened' \in Seq(fds' \cup sampled')
    BY <1>9, <2>1
  <2>3. TypeOK'
    BY <1>2, <1>7, <2>1, <2>2 DEF IInv, TypeOK, forkVars, callocVars
  <2>4. OpenInv'
    <3>1. k + 1 \in 3..rlim'.NOFILE /\ fds' = 0..(k + 1) - 1 /\ Len(opened') <= (k + 1) - 3
      BY <1>2, <1>3, <1>4, <1>6, <2>1
    <3>2. kept' = kept
      BY <2>1 DEF kept
    <3>3. fds' = Std \cup sampled' \cup kept' /\ kept' \cap (Std \cup sampled') = {}
      BY <1>6, <1>7, <2>1, <3>2
    <3>4. at' = "open" /\ rlim' = rlim
      BY <1>1, <2>1
    <3> QED
      BY <1>7, <3>1, <3>3, <3>4 DEF OpenInv
  <2> QED
    BY <1>8, <1>11, <2>3, <2>4 DEF IInv
<1>12. CASE r = "slow"
  <2>1. /\ chk_open_cleanup(fds \cup {fh}, "THRSHD") /\ sampled' = sampled \cup {fh}
        /\ UNCHANGED <<rlim, reason, forkVars, callocVars>>
    BY <1>1, <1>12
  <2>2. /\ fds \cup {fh} = Std \cup (sampled \cup {fh}) \cup kept
        /\ kept \cap (Std \cup (sampled \cup {fh})) = {}
    BY <1>6, <1>7
  <2>3. "THRSHD" \in Reasons
    BY DEF Reasons
  <2> QED
    BY <1>1, <1>2, <2>1, <2>2, <2>3, Cleanup
<1> QED
  BY <1>10, <1>11, <1>12

-----------------------------------------------------------------------------
(* Processes.                                                              *)

LEMMA InvForkPrepare ==
  ASSUME IInv, chk_fork_prepare
  PROVE  IInv'
<1> USE DEF IInv, chk_fork_prepare
<1>1. /\ rlim' \in [NOFILE : Nat, NPROC : Nat, AS : Nat]
      /\ rlim'.NOFILE = rlim.NOFILE /\ rlim'.AS = rlim.AS
      /\ rlim'.NPROC <= SysLimit.NPROC
  BY SetRlim
<1>2. msg' \in [name : {"", "OPEN", "PROC", "CALLOC"}, limit : Nat, reach : Nat,
                reason : Reasons]
  BY DEF NoMsg, Reasons
<1>3. TypeOK'
  BY <1>1, <1>2 DEF TypeOK, openVars, forkVars, callocVars
<1>4. OpenInv'
  BY <1>1, OpenFrame
<1>5. ForkInv'
  BY <1>1 DEF ForkInv, Early, forkVars
<1>6. CallocInv'
  BY CallocFrame
<1>7. ReachWithinLimit'
  <2>1. msg' = NoMsg
    OBVIOUS
  <2>2. msg'.reach = 0 /\ msg'.limit = 0
    BY <2>1, NoReach
  <2> QED
    BY <2>2 DEF ReachWithinLimit
<1> QED
  BY <1>3, <1>4, <1>5, <1>6, <1>7 

LEMMA InvNewTable ==
  ASSUME IInv, new_table
  PROVE  IInv'
<1> USE DEF IInv, new_table
<1>1. TypeOK'
  <2>1. table' \in Nat /\ guard' \in {"none", "down", "up"} /\ at' \in {"fork", "aborted"}
    BY Typed DEF TypeOK
  <2> QED
    BY <2>1 DEF TypeOK, openVars, callocVars
<1>2. OpenInv' /\ CallocInv'
  BY OpenFrame, CallocFrame DEF callocVars
<1>3. ForkInv'
  BY DEF ForkInv, Early
<1> QED
  BY <1>1, <1>2, <1>3 DEF ReachWithinLimit

\* A child that is forked is the first of those that are not, and so comes
\* after all that are counted.
LEMMA InvDoFork ==
  ASSUME IInv, do_fork
  PROVE  IInv'
<1> USE DEF IInv
<1>1. PICK c \in Pids : /\ child[c] = "none" /\ \A d \in 1..c - 1 : child[d] # "none"
                        /\ child' = [child EXCEPT ![c] = "new"]
  BY DEF do_fork
<1>2. /\ at = "fork" /\ at' = "record"
      /\ UNCHANGED <<rlim, counter_last, reason, msg, forked, table, guard, mine, words, intruder,
                     openVars, callocVars>>
  BY DEF do_fork
<1>3. c \in Nat /\ forked \in Nat /\ c <= MaxPids /\ MaxPids \in Nat
  BY Typed DEF Pids
<1>4. forked < c
  BY <1>1, <1>3 DEF ForkInv, Pids
<1>5. forked + 1 \in Pids
  BY <1>3, <1>4 DEF Pids
<1>6. \A d \in Pids : child'[d] = IF d = c THEN "new" ELSE child[d]
  BY <1>1 DEF TypeOK
<1>7. child'[forked + 1] # "none"
  BY <1>1, <1>3, <1>4, <1>5, <1>6
<1>8. \A d \in 1..forked : child'[d] # "none"
  <2> SUFFICES ASSUME NEW d \in 1..forked PROVE child'[d] # "none"
    BY <1>2
  <2>1. d \in Pids
    BY <1>3, <1>4 DEF Pids
  <2> QED
    BY <1>6, <2>1 DEF ForkInv
<1>9. TypeOK'
  BY <1>1, <1>2 DEF TypeOK, openVars, callocVars
<1>10. ForkInv'
  BY <1>2, <1>5, <1>7, <1>8 DEF ForkInv, Early
<1>11. OpenInv' /\ CallocInv'
  BY <1>2, OpenFrame, CallocFrame
<1> QED
  BY <1>2, <1>9, <1>10, <1>11 DEF ReachWithinLimit

\* The steps that only change at, the verdict or the clock.
LEMMA InvQuiet ==
  ASSUME IInv,
         \/ \E why \in {"EAGAIN", "ENOMEM"} : fork_fails(why)
         \/ verify \/ load \/ overrun
  PROVE  IInv'
<1> USE DEF IInv
<1>1. /\ UNCHANGED <<rlim, counter_last, msg, openVars, forkVars, callocVars>>
      /\ reason' \in Reasons
      /\ \/ at = "fork" /\ at' = "verify"
         \/ at = "verify" /\ at' \in {"kill", "load", "aborted"}
         \/ at = "load" /\ at' \in {"kill", "verify"}
         \/ at = "calloc" /\ at' = "aborted"
  BY DEF fork_fails, verify, load, overrun, Reasons, TypeOK
<1>2. TypeOK'
  BY <1>1 DEF TypeOK, openVars, forkVars, callocVars
<1>3. OpenInv'
  BY <1>1, OpenFrame
<1>4. ForkInv'
  BY <1>1, ForkFrame DEF Early, forkVars
<1>5. CallocInv'
  BY <1>1, CallocFrame
<1> QED
  BY <1>1, <1>2, <1>3, <1>4, <1>5 DEF ReachWithinLimit, forkVars

\* The word a pid is stored in lies within the table of the host's size.
LEMMA SlotInWords ==
  ASSUME IInv, room, at = "record"
  PROVE  /\ forked \in Nat /\ slot \in Nat /\ slot <= forked
         /\ slot \in Words /\ forked < rlim.NPROC /\ rlim.NPROC \in Nat
<1>1. forked \in Nat /\ rlim.NPROC \in Nat /\ SysLimit.NPROC \in Nat /\ Offsets \in Nat \ {0}
  BY SyschkAssumption, LimitsPositive, Typed DEF IInv
<1>2. forked < rlim.NPROC /\ rlim.NPROC <= SysLimit.NPROC
  BY DEF room, IInv, ForkInv, Early
<1>3. slot \in Nat /\ slot <= forked
  BY <1>1, Remainder DEF slot
<1> QED
  BY <1>1, <1>2, <1>3 DEF Words

LEMMA InvRecord ==
  ASSUME IInv, NEW r \in {"none", "fast", "slow"}, record(r)
  PROVE  IInv'
<1> USE DEF IInv
<1>1. /\ at = "record"
      /\ UNCHANGED <<rlim, msg, child, table, guard, mine, intruder, openVars, callocVars>>
  BY DEF record
<1>2. CASE /\ room /\ mine = "guarded" /\ words' = words \cup {slot}
           /\ performance(forked, r)
           /\ forked' = IF r = "none" THEN forked + 1 ELSE forked
           /\ at' = IF r = "slow" THEN "verify" ELSE "fork"
           /\ reason' = IF r = "slow" THEN "THRSHD" ELSE reason
  <2>1. /\ forked \in Nat /\ slot \in Words /\ forked < rlim.NPROC /\ rlim.NPROC \in Nat
    BY <1>1, <1>2, SlotInWords
  <2>2. counter_last' \in Nat
    BY <1>2, <2>1, Sampled
  <2>3. forked + 1 \in Pids /\ child[forked + 1] # "none"
    BY <1>1 DEF ForkInv
  <2>4. forked' \in 0..MaxPids /\ forked' \in {forked, forked + 1}
    BY <1>2, <2>1, <2>3, Typed DEF Pids
  <2>5. words' \subseteq Words /\ reason' \in Reasons /\ at' \in {"verify", "fork"}
    BY <1>2, <2>1 DEF TypeOK, Reasons
  <2>6. TypeOK'
    BY <1>1, <2>2, <2>4, <2>5 DEF TypeOK, openVars, callocVars
  <2>7. ForkInv'
    <3>1. forked' <= rlim.NPROC
      BY <2>1, <2>4
    <3>2. \A c \in 1..forked' : child[c] # "none"
      BY <2>1, <2>3, <2>4 DEF ForkInv
    <3> QED
      BY <1>1, <2>5, <3>1, <3>2 DEF ForkInv, Early
  <2>8. OpenInv' /\ CallocInv'
    BY <1>1, <2>5, OpenFrame, CallocFrame
  <2> QED
    BY <1>1, <2>6, <2>7, <2>8 DEF ReachWithinLimit
<1>3. CASE UNCHANGED <<counter_last, forked, words, reason>> /\ at' \in {"aborted", "verify"}
  <2>1. TypeOK'
    BY <1>1, <1>3 DEF TypeOK, openVars, callocVars
  <2>2. ForkInv'
    BY <1>1, <1>3, ForkFrame DEF Early
  <2>3. OpenInv' /\ CallocInv'
    BY <1>1, <1>3, OpenFrame, CallocFrame
  <2> QED
    BY <1>1, <1>3, <2>1, <2>2, <2>3 DEF ReachWithinLimit
<1> QED
  BY <1>2, <1>3 DEF record

LEMMA InvKill ==
  ASSUME IInv, kill
  PROVE  IInv'
<1> USE DEF IInv
<1>1. /\ at = "kill" /\ at' = "delete" /\ forked' = 0 /\ reason' = "UNKNWN"
      /\ addMessage("PROC", rlim.NPROC, forked, reason)
      /\ UNCHANGED <<rlim, counter_last, table, guard, mine, words, intruder, openVars, callocVars>>
  BY DEF kill
<1>2. child' \in [Pids -> {"none", "new", "paused", "woken", "deaf", "gone"}]
  BY DEF kill, TypeOK
<1>3. forked \in Nat /\ rlim.NPROC \in Nat /\ forked <= rlim.NPROC /\ reason \in Reasons
  BY Typed DEF TypeOK, ForkInv
<1>4. /\ msg' \in [name : {"", "OPEN", "PROC", "CALLOC"}, limit : Nat, reach : Nat,
                   reason : Reasons]
      /\ ReachWithinLimit'
  BY <1>1, <1>3, Message, Zenon
<1>5. TypeOK'
  <2>1. forked' \in 0..MaxPids /\ reason' \in Reasons
    BY <1>1, Typed DEF Reasons
  <2> QED
    BY <1>1, <1>2, <1>4, <2>1 DEF TypeOK, openVars, callocVars
<1>6. ForkInv'
  BY <1>1, <1>3 DEF ForkInv, Early
<1>7. OpenInv' /\ CallocInv'
  BY <1>1, OpenFrame, CallocFrame
<1> QED
  BY <1>1, <1>4, <1>5, <1>6, <1>7

LEMMA InvDelete ==
  ASSUME IInv, delete
  PROVE  IInv'
<1> USE DEF IInv, delete
<1>1. TypeOK'
  <2>1. /\ at' \in {"calloc_prepare", "aborted"} /\ table' \in {0, table}
        /\ guard' = "none" /\ words' = {} /\ mine' = "none"
        /\ UNCHANGED <<rlim, counter_last, reason, msg, child, forked, intruder, openVars, callocVars>>
    OBVIOUS
  <2>2. TypeOK /\ table \in Nat
    BY DEF TypeOK
  <2> HIDE DEF delete, IInv
  <2>3. table' \in Nat /\ words' \subseteq Words
    BY <2>1, <2>2
  <2> QED
    BY <2>1, <2>2, <2>3 DEF TypeOK, openVars, callocVars
<1>2. ForkInv'
  BY DEF ForkInv, Early
<1>3. OpenInv' /\ CallocInv'
  BY OpenFrame, CallocFrame
<1> QED
  BY <1>1, <1>2, <1>3 DEF ReachWithinLimit

LEMMA InvChild ==
  ASSUME IInv, NEW c \in Pids, pause(c) \/ _exit(c)
  PROVE  IInv'
<1> USE DEF IInv
<1>1. /\ child' = [child EXCEPT ![c] = "paused"] \/ child' = [child EXCEPT ![c] = "gone"]
      /\ UNCHANGED <<at, rlim, counter_last, reason, msg, forked, table, guard, mine, words, intruder,
                     openVars, callocVars>>
  BY DEF pause, _exit
<1>2. TypeOK'
  <2>1. child' \in [Pids -> {"none", "new", "paused", "woken", "deaf", "gone"}]
    BY <1>1 DEF TypeOK
  <2> QED
    BY <1>1, <2>1 DEF TypeOK, openVars, callocVars
<1>3. \A d \in Pids : child[d] # "none" => child'[d] # "none"
  BY <1>1 DEF TypeOK
<1>4. 1..forked \subseteq Pids
  BY Typed
<1>5. ForkInv'
  BY <1>1, <1>3, <1>4 DEF ForkInv
<1>6. OpenInv' /\ CallocInv'
  BY <1>1, OpenFrame, CallocFrame
<1> QED
  BY <1>1, <1>2, <1>5, <1>6 DEF ReachWithinLimit

-----------------------------------------------------------------------------
(* Memory.                                                                 *)

LEMMA InvCallocPrepare ==
  ASSUME IInv, chk_calloc_prepare
  PROVE  IInv'
<1> USE DEF IInv
<1>1. /\ at = "calloc_prepare" /\ at' \in {"calloc", "done"}
      /\ UNCHANGED <<counter_last, reason, openVars, forkVars, callocVars>>
  BY DEF chk_calloc_prepare
<1>2. /\ rlim' \in [NOFILE : Nat, NPROC : Nat, AS : Nat]
      /\ rlim'.NOFILE = rlim.NOFILE /\ rlim'.NPROC = rlim.NPROC
  BY SetRlim DEF chk_calloc_prepare, TypeOK
<1>3. msg' \in [name : {"", "OPEN", "PROC", "CALLOC"}, limit : Nat, reach : Nat,
                reason : Reasons]
  BY DEF chk_calloc_prepare, NoMsg, Reasons
<1>4. msg'.reach = 0 /\ msg'.limit = 0 /\ msg'.name # "CALLOC"
  <2>1. msg' = NoMsg
    BY DEF chk_calloc_prepare
  <2> QED
    BY <2>1, NoReach
<1>5. TypeOK'
  BY <1>1, <1>2, <1>3 DEF TypeOK, openVars, forkVars, callocVars
<1>6. OpenInv'
  BY <1>1, <1>2, OpenFrame
<1>7. ForkInv'
  BY <1>1, <1>2, ForkFrame DEF Early, forkVars
<1>8. CallocInv'
  <2>1. heaps' = 0 /\ blocks' = 0 /\ rlim'.AS \in Nat
    BY <1>1, <1>2 DEF CallocInv, callocVars
  <2> QED
    BY <1>1, <1>4, <2>1 DEF CallocInv
<1> QED
  BY <1>1, <1>4, <1>5, <1>6, <1>7, <1>8 DEF ReachWithinLimit, forkVars

\* chk_calloc ends with as many blocks left as were not in heaps.
LEMMA CallocFree ==
  ASSUME IInv, at = "calloc", NEW n \in {blocks, blocks + 1}, NEW why \in {"THRSHD", "ENOMEM"},
         n = IF why = "THRSHD" THEN blocks + 1 ELSE blocks,
         chk_calloc_free(n, why),
         UNCHANGED <<rlim, reason, openVars, forkVars>>, counter_last' \in Nat
  PROVE  IInv'
<1> USE DEF IInv
<1>1. heaps \in Nat /\ blocks = heaps /\ heaps <= rlim.AS /\ rlim.AS \in Nat
  BY Typed DEF TypeOK, CallocInv
<1>2. /\ blocks' = n - heaps /\ heaps' = 0 /\ at' = "done"
      /\ addMessage("CALLOC", rlim.AS, heaps, why)
  BY DEF chk_calloc_free, freed
<1>3. blocks' = IF why = "THRSHD" THEN 1 ELSE 0
  BY <1>1, <1>2
<1>4. /\ msg' \in [name : {"", "OPEN", "PROC", "CALLOC"}, limit : Nat, reach : Nat,
                   reason : Reasons]
      /\ ReachWithinLimit' /\ msg'.name = "CALLOC" /\ msg'.reason = why
  <2>1. why \in Reasons
    BY DEF Reasons
  <2> QED
    BY <1>1, <1>2, <2>1, Message, Zenon
<1>5. TypeOK'
  <2>1. blocks' \in Nat /\ heaps' \in Nat
    BY <1>2, <1>3
  <2> QED
    BY <1>2, <1>4, <2>1 DEF TypeOK, openVars, forkVars
<1>6. OpenInv' /\ ForkInv'
  BY <1>2, OpenFrame, ForkFrame DEF Early, forkVars
<1>7. CallocInv'
  BY <1>2, <1>3, <1>4 DEF CallocInv
<1> QED
  BY <1>4, <1>5, <1>6, <1>7 

LEMMA InvCalloc ==
  ASSUME IInv, calloc_fails \/ \E r \in {"none", "fast", "slow"} : chk_calloc(r)
  PROVE  IInv'
<1> USE DEF IInv
<1>1. CASE calloc_fails
  BY <1>1, CallocFree DEF calloc_fails, TypeOK
<1>2. ASSUME NEW r \in {"none", "fast", "slow"}, chk_calloc(r)
      PROVE  IInv'
  <2>1. /\ at = "calloc" /\ blocks < rlim.AS
        /\ UNCHANGED <<rlim, reason, openVars, forkVars>>
    BY <1>2 DEF chk_calloc
  <2>2. counter_last' \in Nat
    <3>1. CALLOC_SIZE \in Nat /\ heaps \in Nat
      BY SyschkAssumption DEF TypeOK
    <3>2. CALLOC_SIZE * heaps \in Nat
      BY <3>1
    <3> QED
      BY <1>2, <3>2, Sampled DEF chk_calloc
  <2>3. CASE r = "slow"
    <3>1. chk_calloc_free(blocks + 1, "THRSHD")
      BY <1>2, <2>3 DEF chk_calloc
    <3> QED
      BY <2>1, <2>2, <3>1, CallocFree
  <2>4. CASE r # "slow"
    <3>1. heaps' = heaps + 1 /\ blocks' = blocks + 1 /\ UNCHANGED <<at, msg>>
      BY <1>2, <2>4 DEF chk_calloc
    <3>2. heaps \in Nat /\ blocks = heaps /\ rlim.AS \in Nat
      BY <2>1, Typed DEF TypeOK, CallocInv
    <3>3. TypeOK'
      <4>1. blocks' \in Nat /\ heaps' \in Nat
        BY <3>1, <3>2
      <4> QED
        BY <2>1, <2>2, <3>1, <4>1 DEF TypeOK, openVars, forkVars
    <3>4. OpenInv' /\ ForkInv'
      BY <2>1, <3>1, OpenFrame, ForkFrame DEF forkVars
    <3>5. CallocInv'
      BY <2>1, <3>1, <3>2 DEF CallocInv
    <3> QED
      BY <2>1, <3>1, <3>3, <3>4, <3>5 DEF ReachWithinLimit, forkVars
  <2> QED
    BY <2>3, <2>4
<1> QED
  BY <1>1, <1>2

-----------------------------------------------------------------------------
(* Around it.                                                              *)

LEMMA InvIntrude ==
  ASSUME IInv, NEW key \in OtherKeys, intrude(key)
  PROVE  IInv'
<1> USE DEF IInv
<1>1. /\ intruder' = key
      /\ UNCHANGED <<at, rlim, counter_last, reason, msg, child, forked, openVars, callocVars>>
  BY DEF intrude
<1>2. /\ table' \in {0, table} /\ words' \subseteq words /\ guard' = "none"
      /\ mine' \in {"none", "lost", "unguarded", mine}
  BY DEF intrude, TypeOK
<1>3. TypeOK'
  <2>1. table' \in Nat /\ words' \subseteq Words /\ intruder' \in OtherKeys \cup {None}
        /\ mine' \in {"none", "guarded", "unguarded", "lost"}
    <3>1. table \in Nat /\ words \subseteq Words /\ mine \in {"none", "guarded", "unguarded", "lost"}
      BY DEF TypeOK
    <3> QED
      BY <1>1, <1>2, <3>1
  <2>2. guard' \in {"none", "down", "up"}
    BY <1>2
  <2> QED
    BY <1>1, <2>1, <2>2 DEF TypeOK, openVars, callocVars
<1>4. ForkInv'
  BY <1>1 DEF ForkInv
<1>5. OpenInv' /\ CallocInv'
  BY <1>1, OpenFrame, CallocFrame
<1> QED
  BY <1>1, <1>3, <1>4, <1>5 DEF ReachWithinLimit

LEMMA InvNext == IInv /\ [Next]_vars => IInv'
<1> SUFFICES ASSUME IInv, [Next]_vars PROVE IInv'
  OBVIOUS
<1>1. CASE Probe
  BY <1>1, InvOpenPrepare, InvOpen, InvOpenFails, InvForkPrepare, InvNewTable, InvDoFork,
     InvQuiet, InvRecord, InvKill, InvDelete, InvCallocPrepare, InvCalloc
  DEF Probe
<1>2. CASE UNCHANGED vars
  <2>1. UNCHANGED <<at, rlim, counter_last, reason, msg, fds, opened, sampled, child, forked,
                    table, guard, mine, words, intruder, heaps, blocks>>
    BY <1>2 DEF vars, openVars, forkVars, callocVars
  <2>2. TypeOK'
    BY <2>1 DEF IInv, TypeOK
  <2>3. OpenInv' /\ ForkInv' /\ CallocInv'
    BY <2>1, OpenFrame, ForkFrame, CallocFrame DEF IInv, openVars, callocVars
  <2> QED
    BY <2>1, <2>2, <2>3 DEF IInv, ReachWithinLimit
<1> QED
  BY <1>1, <1>2, InvChild, InvIntrude DEF Next

-----------------------------------------------------------------------------
(* The theorems.                                                           *)

\* The invariant that carries the others: every step of syschk, of its
\* children and of other commands keeps it.
THEOREM InvariantHolds == Spec => []IInv
  BY InvInit, InvNext, PTL DEF Spec

\* Every reachable state is well typed: a child is never counted beyond
\* those that were forked, a pid never stored beyond the host's limit.
THEOREM TypeCorrect == Spec => []TypeOK
<1>1. IInv => TypeOK
  BY DEF IInv
<1> QED
  BY <1>1, InvariantHolds, PTL

\* No message of syschk claims more than the limit.
THEOREM ReachWithinLimitHolds == Spec => []ReachWithinLimit
<1>1. IInv => ReachWithinLimit
  BY DEF IInv
<1> QED
  BY <1>1, InvariantHolds, PTL

\* The probes give back the descriptors and the blocks that they kept.
THEOREM HandedBackHolds == Spec => []HandedBack
<1>1. IInv => HandedBack
  <2> SUFFICES ASSUME IInv PROVE HandedBack
    OBVIOUS
  <2>1. at \notin {"open_prepare", "open"} => kept = {}
    BY DEF IInv, OpenInv, kept, Range
  <2> QED
    BY <2>1 DEF IInv, OpenInv, CallocInv, HandedBack
<1> QED
  BY <1>1, InvariantHolds, PTL

=============================================================================
