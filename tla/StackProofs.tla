------------------------------ MODULE StackProofs ------------------------------
(***************************************************************************)
(* How far an emitted instruction moves RSP, and what it leaves of the     *)
(* rest of the CPU; how sequences are put together.                        *)
(***************************************************************************)
EXTENDS Emulation, SequenceTheorems, FiniteSetTheorems, TLAPS

(* An operand, as a destination, other than RSP and ESP.                   *)
NotRsp(o) == (isMemoryOperand(o) => ~isXmm(o)) /\ (isXmm(o) \/ o.reg.n # RSP.n)
NotGprRsp(o) == NotRsp(o) /\ o.reg.n # RSP.n

Pushes == {"PUSH", "PUSHF"}
Pops == {"POP", "POPF", "RET"}
Integer == Alu \cup {"MOV", "POP"}

(* How far an emitted instruction moves RSP.                               *)
Displacement(r) ==
  CASE r.op \in Pushes -> -8
    [] r.op \in Pops -> 8
    [] MovesRsp(r) -> IF r.op = "ADD" THEN immValue(r.args[2]) ELSE -immValue(r.args[2])
    [] OTHER -> 0

(* What an emitted instruction does to RSP is its Displacement.            *)
Tame(r) ==
  \/ r.op \in {"PUSH", "PUSHF", "POPF", "RET", "CALL", "JMP"}
  \/ MovesRsp(r) /\ immValue(r.args[2]) \in Int
  \/ NotRsp(r.args[1]) /\ (r.op \in Integer => NotGprRsp(r.args[1]))

-----------------------------------------------------------------------------
(***************************************************************************)
(* Sequences.                                                              *)
(***************************************************************************)

(* Induction up to n, for a property given as the set where it holds.      *)
LEMMA UpTo ==
  ASSUME NEW n \in Nat, NEW S, 0 \in S, \A k \in 0 .. n - 1 : k \in S => k + 1 \in S
  PROVE  \A k \in 0 .. n : k \in S
<1> DEFINE Below == SUBSET (1 .. n)
           Order == StrictSubsetOrdering(1 .. n)
           Bad == {B \in Below : \E k \in 0 .. n : B = 1 .. k /\ k \notin S}
<1>1. SUFFICES ASSUME NEW k \in 0 .. n, k \notin S PROVE FALSE
  OBVIOUS
<1>2. IsWellFoundedOn(Order, Below)
  <2>1. IsFiniteSet(1 .. n)
    BY FS_Interval
  <2>2. FiniteSubsetsOf(1 .. n) = Below
    BY <2>1, FS_FiniteSubsetsOfFinite
  <2>3. QED BY <2>2, FS_StrictSubsetOrderingWellFounded
<1>3. 1 .. k \in Bad
  BY <1>1
<1>4. PICK B \in Bad : \A C \in Bad : ~ (<<C, B>> \in Order)
  <2>1. Bad \subseteq Below /\ Bad # {}
    BY <1>3
  <2> HIDE DEF Bad, Order, Below
  <2>2. QED BY <1>2, <2>1, WFMin
<1>5. PICK j \in 0 .. n : B = 1 .. j /\ j \notin S
  OBVIOUS
<1>6. j # 0 /\ j - 1 \in 0 .. n - 1 /\ j - 1 \notin S
  <2>1. j # 0
    BY <1>5
  <2>2. j - 1 \in 0 .. n - 1 /\ j - 1 + 1 = j
    BY <2>1
  <2>3. QED BY <1>5, <2>1, <2>2
<1>7. 1 .. (j - 1) \in Bad
  BY <1>6
<1>8. <<1 .. (j - 1), B>> \in Order
  <2>1. 1 .. (j - 1) \subseteq 1 .. j /\ 1 .. (j - 1) # 1 .. j
    BY <1>5, <1>6
  <2>2. QED BY <1>5, <2>1, <1>6 DEF StrictSubsetOrdering
<1>9. QED BY <1>4, <1>7, <1>8

(* FlattenSeq's function, up to k.                                         *)
Flattens(g, pieces, k) ==
  /\ g = [j \in 1 .. k |-> g[j]]
  /\ \A j \in 1 .. k : g[j] = IF j = 1 THEN pieces[j] ELSE g[j - 1] \o pieces[j]

(* One exists, and there is no other.                                      *)
LEMMA FlattensExists ==
  ASSUME NEW n \in Nat, NEW pieces
  PROVE  \E g : Flattens(g, pieces, n)
<1> DEFINE S == {k \in 0 .. n : \E g : Flattens(g, pieces, k)}
<1>1. 0 \in S
  <2>1. Flattens([j \in 1 .. 0 |-> j], pieces, 0)
    BY DEF Flattens
  <2>2. QED BY <2>1
<1>2. ASSUME NEW k \in 0 .. n - 1, k \in S PROVE k + 1 \in S
  <2>1. PICK g : Flattens(g, pieces, k)
    BY <1>2
  <2> DEFINE next == IF k = 0 THEN pieces[k + 1] ELSE g[k] \o pieces[k + 1]
             h == [j \in 1 .. k + 1 |-> IF j = k + 1 THEN next ELSE g[j]]
  <2>2. \A j \in 1 .. k : h[j] = g[j] /\ j \in 1 .. k + 1 /\ j # k + 1
    OBVIOUS
  <2>3. h[k + 1] = next
    OBVIOUS
  <2>4. h = [j \in 1 .. k + 1 |-> h[j]]
    OBVIOUS
  <2> HIDE DEF h
  <2>5. ASSUME NEW j \in 1 .. k + 1
        PROVE  h[j] = IF j = 1 THEN pieces[j] ELSE h[j - 1] \o pieces[j]
    <3>1. CASE j = k + 1 /\ k = 0
      BY <2>3, <3>1
    <3>2. CASE j = k + 1 /\ k # 0
      <4>1. k \in 1 .. k /\ j - 1 = k /\ j # 1
        BY <3>2
      <4>2. h[k] = g[k]
        BY <2>2, <4>1
      <4>3. QED BY <2>3, <3>2, <4>1, <4>2
    <3>3. CASE j # k + 1 /\ j = 1
      <4>1. j \in 1 .. k
        BY <3>3
      <4>2. g[j] = pieces[j]
        BY <2>1, <3>3, <4>1 DEF Flattens
      <4>3. QED BY <2>2, <3>3, <4>1, <4>2
    <3>4. CASE j # k + 1 /\ j # 1
      <4>1. j \in 1 .. k /\ j - 1 \in 1 .. k
        BY <3>4
      <4>2. g[j] = g[j - 1] \o pieces[j]
        BY <2>1, <3>4, <4>1 DEF Flattens
      <4>3. QED BY <2>2, <3>4, <4>1, <4>2
    <3>5. QED BY <3>1, <3>2, <3>3, <3>4
  <2>6. Flattens(h, pieces, k + 1)
    BY <2>4, <2>5 DEF Flattens
  <2>7. k + 1 \in 0 .. n
    OBVIOUS
  <2>8. QED BY <2>6, <2>7
<1> HIDE DEF S
<1>3. \A k \in 0 .. n : k \in S
  BY <1>1, <1>2, UpTo
<1>4. n \in S
  BY <1>3
<1>5. QED BY <1>4 DEF S

LEMMA FlattenSeqFlattens ==
  ASSUME NEW n \in Nat, n > 0, NEW pieces, Len(pieces) = n
  PROVE  \E g : Flattens(g, pieces, n) /\ FlattenSeq(pieces) = g[n]
<1> DEFINE flatten == CHOOSE g : g = [i \in 1 .. Len(pieces) |->
                        IF i = 1 THEN pieces[i] ELSE g[i - 1] \o pieces[i]]
<1>1. FlattenSeq(pieces) = flatten[n]
  BY DEF FlattenSeq
<1>2. PICK g : Flattens(g, pieces, n)
  BY FlattensExists
<1>3. g = [i \in 1 .. n |-> IF i = 1 THEN pieces[i] ELSE g[i - 1] \o pieces[i]]
  BY <1>2 DEF Flattens
<1>4. flatten = [i \in 1 .. n |-> IF i = 1 THEN pieces[i] ELSE flatten[i - 1] \o pieces[i]]
  BY <1>3
<1> HIDE DEF flatten
<1>5. Flattens(flatten, pieces, n)
  BY <1>4 DEF Flattens
<1>6. QED BY <1>1, <1>5

-----------------------------------------------------------------------------
(***************************************************************************)
(* The machine.                                                            *)
(***************************************************************************)
Cpu(m) ==
  /\ m = [gpr |-> m.gpr, xmm |-> m.xmm, mem |-> m.mem, flags |-> m.flags, mxcsr |-> m.mxcsr,
          rip |-> m.rip, target |-> m.target, fault |-> m.fault]
  /\ m.gpr = [n \in Gprs |-> m.gpr[n]]

(* RSP is the application's, k bytes on.                                   *)
RspAt(m, k) == Cpu(m) /\ m.gpr[RSP.n] = <<"gpr", <<Sym("n", RSP.n)>>, k>>

LEMMA RspFacts == RSP.n = 4 /\ RSP.class = "r64" /\ RAX.n = 0 /\ RAX.class = "r64" /\ 4 \in Gprs
BY RegistersAssumption DEF RSP, RAX, R64, Reg

LEMMA SetGprKeeps ==
  ASSUME NEW m, NEW k, RspAt(m, k), NEW r, r.n # RSP.n, NEW v
  PROVE  RspAt(SetGpr(m, r, v), k)
BY RspFacts DEF SetGpr, RspAt, Cpu

LEMMA PutKeeps ==
  ASSUME NEW m, NEW k, RspAt(m, k), NEW o, NotRsp(o), NEW v
  PROVE  RspAt(Put(m, o, v), k)
<1>1. CASE isMemoryOperand(o)
  <2> DEFINE a == EA(m, o)
             stored == Store(m.mem, a, IF o.width < 32
                                       THEN <<<<"narrow", <<Lane(m.mem, a), v[1]>>, o.width>>>>
                                       ELSE v)
  <2>1. Put(m, o, v) = [m EXCEPT !.mem = stored]
    BY <1>1 DEF Put, NotRsp
  <2> HIDE DEF stored
  <2>2. QED BY <2>1 DEF RspAt, Cpu
<1>2. CASE ~isMemoryOperand(o) /\ isXmm(o)
  BY <1>2 DEF Put, RspAt, Cpu
<1>3. CASE ~isMemoryOperand(o) /\ ~isXmm(o)
  BY <1>3, SetGprKeeps DEF Put, NotRsp, isXmm
<1>4. QED BY <1>1, <1>2, <1>3

LEMMA SetAluKeeps ==
  ASSUME NEW m, NEW k, RspAt(m, k), NEW o, NotGprRsp(o), NEW v
  PROVE  RspAt(SetAlu(m, o, v), k)
<1>1. CASE isMemoryOperand(o)
  <2> DEFINE lanes == [i \in 1 .. (o.width \div 32) |-> Half(v, i - 1)]
  <2>1. SetAlu(m, o, v) = Put(m, o, lanes)
    BY <1>1 DEF SetAlu
  <2> HIDE DEF lanes
  <2>2. QED BY <2>1, PutKeeps DEF NotGprRsp
<1>2. CASE ~isMemoryOperand(o)
  BY <1>2, SetGprKeeps DEF SetAlu, NotGprRsp
<1>3. QED BY <1>1, <1>2

LEMMA RspSet ==
  ASSUME NEW m, NEW k \in Int, RspAt(m, k), NEW d \in Int, NEW v, NEW rsp,
         rsp = At(m.gpr[RSP.n], d), NEW w, w = [m EXCEPT !.gpr[RSP.n] = rsp, !.mem = v]
  PROVE  RspAt(w, k + d)
<1>1. rsp = <<"gpr", <<Sym("n", RSP.n)>>, k + d>>
  BY DEF RspAt, At
<1> DEFINE moved == [m EXCEPT !.gpr[RSP.n] = rsp]
<1>2. w = [moved EXCEPT !.mem = v]
  OBVIOUS
<1>3. RspAt(moved, k + d)
  BY <1>1, RspFacts DEF RspAt, Cpu
<1> HIDE DEF moved
<1>4. QED BY <1>2, <1>3 DEF RspAt, Cpu

LEMMA SetRspMoves ==
  ASSUME NEW m, NEW k \in Int, RspAt(m, k), NEW d \in Int
  PROVE  RspAt(SetRsp(m, At(m.gpr[RSP.n], d)), k + d)
<1> DEFINE rsp == At(m.gpr[RSP.n], d)
           kept == Forget(m.mem, rsp)
<1>1. SetRsp(m, rsp) = [m EXCEPT !.gpr[RSP.n] = rsp, !.mem = kept]
  BY DEF SetRsp
<1>2. rsp = At(m.gpr[RSP.n], d)
  OBVIOUS
<1> HIDE DEF rsp, kept
<1>3. RspAt(SetRsp(m, rsp), k + d)
  BY <1>1, <1>2, RspSet
<1>4. QED BY <1>2, <1>3

LEMMA PushMoves ==
  ASSUME NEW m, NEW k \in Int, RspAt(m, k), NEW v
  PROVE  RspAt(PushVal(m, v), k - 8)
<1> DEFINE d == -8
           rsp == At(m.gpr[RSP.n], d)
           stored == Store(m.mem, rsp, <<Half(v, 0), Half(v, 1)>>)
<1>1. PushVal(m, v) = [m EXCEPT !.gpr[RSP.n] = rsp, !.mem = stored]
  BY DEF PushVal
<1>2. rsp = At(m.gpr[RSP.n], d) /\ d \in Int /\ k + d = k - 8
  OBVIOUS
<1> HIDE DEF d, rsp, stored
<1>3. RspAt(PushVal(m, v), k + d)
  BY <1>1, <1>2, RspSet
<1>4. QED BY <1>2, <1>3

LEMMA DropMoves ==
  ASSUME NEW m, NEW k \in Int, RspAt(m, k)
  PROVE  RspAt(DropTop(m), k + 8)
BY SetRspMoves DEF DropTop

(* One emitted instruction, unless it faults.                              *)
LEMMA ExecMoves ==
  ASSUME NEW m, NEW k \in Int, RspAt(m, k), NEW r, Tame(r), ~Faults(m, r)
  PROVE  RspAt(Exec(m, r), k + Displacement(r))
<1> DEFINE a == r.args
<1>1. Exec(m, r) = Executed(m, r)
  BY DEF Exec
<1>2. CASE r.op = "PUSH"
  <2>1. Exec(m, r) = PushVal(m, Val64(m, a[1])) /\ Displacement(r) = -8
    BY <1>1, <1>2 DEF Executed, Displacement, Pushes, Pops, MovesRsp, Alu, Compares
  <2>2. QED BY <2>1, PushMoves
<1>3. CASE r.op = "PUSHF"
  <2>1. Exec(m, r) = PushVal(m, m.flags) /\ Displacement(r) = -8
    BY <1>1, <1>3 DEF Executed, Displacement, Pushes, Pops, MovesRsp, Alu, Compares
  <2>2. QED BY <2>1, PushMoves
<1>4. CASE r.op = "POP"
  <2>1. Exec(m, r) = DropTop(SetGpr(m, a[1].reg, TopOfStack(m))) /\ Displacement(r) = 8
    BY <1>1, <1>4 DEF Executed, Displacement, Pushes, Pops, MovesRsp, Alu, Compares
  <2>2. a[1].reg.n # RSP.n
    BY <1>4 DEF Tame, MovesRsp, Integer, NotGprRsp
  <2>3. QED BY <2>1, <2>2, SetGprKeeps, DropMoves
<1>5. CASE r.op = "POPF"
  <2> DEFINE popped == [m EXCEPT !.flags = TopOfStack(m)]
  <2>1. Exec(m, r) = DropTop(popped) /\ Displacement(r) = 8
    BY <1>1, <1>5 DEF Executed, Displacement, Pushes, Pops, MovesRsp, Alu, Compares
  <2>2. RspAt(popped, k)
    BY DEF RspAt, Cpu
  <2> HIDE DEF popped
  <2>3. QED BY <2>1, <2>2, DropMoves
<1>6. CASE r.op = "CALL"
  <2>1. Exec(m, r) = [m EXCEPT !.gpr[RAX.n] = Sym("storage", 0), !.flags = Sym("call", 0)]
        /\ Displacement(r) = 0
    BY <1>1, <1>6 DEF Executed, Displacement, Pushes, Pops, MovesRsp, Alu, Compares
  <2> DEFINE called == [m EXCEPT !.gpr[RAX.n] = Sym("storage", 0)]
  <2>2. RspAt(called, k)
    BY RspFacts DEF RspAt, Cpu
  <2>3. Exec(m, r) = [called EXCEPT !.flags = Sym("call", 0)]
    BY <2>1
  <2> HIDE DEF called
  <2>4. RspAt(Exec(m, r), k)
    BY <2>2, <2>3 DEF RspAt, Cpu
  <2>5. QED BY <2>1, <2>4
<1>7. CASE r.op = "RET"
  <2> DEFINE popped == [m EXCEPT !.target = TopOfStack(m)]
  <2>1. Exec(m, r) = DropTop(popped) /\ Displacement(r) = 8
    BY <1>1, <1>7 DEF Executed, Displacement, Pushes, Pops, MovesRsp, Alu, Compares
  <2>2. RspAt(popped, k)
    BY DEF RspAt, Cpu
  <2> HIDE DEF popped
  <2>3. QED BY <2>1, <2>2, DropMoves
<1>8. CASE r.op = "JMP"
  <2>1. Exec(m, r) = [m EXCEPT !.target = Val64(m, a[1])] /\ Displacement(r) = 0
    BY <1>1, <1>8 DEF Executed, Displacement, Pushes, Pops, MovesRsp, Alu, Compares
  <2>2. RspAt(Exec(m, r), k)
    BY <2>1 DEF RspAt, Cpu
  <2>3. QED BY <2>1, <2>2
<1>9. CASE MovesRsp(r)
  <2> DEFINE d == IF r.op = "ADD" THEN immValue(a[2]) ELSE -immValue(a[2])
             moved == SetRsp(m, At(m.gpr[RSP.n], d))
             flags == FlagsOf(r.op, <<m.gpr[RSP.n]>>)
  <2>1. Exec(m, r) = [moved EXCEPT !.flags = flags]
    BY <1>1, <1>9 DEF Executed, MovesRsp, Alu, Compares
  <2>2. Displacement(r) = d
    BY <1>9 DEF Displacement, Pushes, Pops, MovesRsp
  <2>3. d \in Int
    <3>1. immValue(a[2]) \in Int
      BY <1>9, RspFacts DEF Tame, MovesRsp, NotRsp, NotGprRsp, Integer, Alu, isXmm
    <3>2. QED BY <3>1
  <2> HIDE DEF d, flags
  <2>4. RspAt(moved, k + d)
    BY <2>3, SetRspMoves
  <2> HIDE DEF moved
  <2>5. RspAt(Exec(m, r), k + d)
    BY <2>1, <2>4 DEF RspAt, Cpu
  <2>6. QED BY <2>2, <2>5
<1>10. CASE /\ r.op \notin {"PUSH", "PUSHF", "POP", "POPF", "CALL", "RET", "JMP"}
            /\ ~MovesRsp(r)
  <2>1. Displacement(r) = 0 /\ k + 0 = k
    BY <1>10 DEF Displacement, Pushes, Pops
  <2>2. NotRsp(a[1]) /\ (r.op \in Integer => NotGprRsp(a[1]))
    BY <1>10 DEF Tame
  <2>3. CASE r.op = "MOV"
    <3>1. Exec(m, r) = SetGpr(m, a[1].reg, Val64(m, a[2]))
      BY <1>1, <1>10, <2>3 DEF Executed, Alu, Compares
    <3>2. QED BY <2>1, <2>2, <2>3, <3>1, SetGprKeeps DEF Integer, NotGprRsp
  <2>4. CASE r.op \in Alu
    <3> DEFINE v == [i \in 1 .. Len(a) |-> Val64(m, a[i])]
               set == SetAlu(m, a[1], AluResult(r.op, AluClass(a[1]), v))
    <3>1. Exec(m, r) = [set EXCEPT !.flags = IF r.op = "NOT" THEN @ ELSE FlagsOf(r.op, v)]
      BY <1>1, <1>10, <2>4 DEF Executed, Alu, Compares
    <3> HIDE DEF v
    <3>2. RspAt(set, k)
      BY <2>2, <2>4, SetAluKeeps DEF Integer
    <3> HIDE DEF set
    <3>3. RspAt(Exec(m, r), k)
      BY <3>1, <3>2 DEF RspAt, Cpu
    <3>4. QED BY <2>1, <3>3
  <2>5. CASE r.op \in Compares \cup {"LDMXCSR"}
    <3>1. \/ \E f : Exec(m, r) = [m EXCEPT !.flags = f]
          \/ \E f : Exec(m, r) = [m EXCEPT !.mxcsr = f]
      BY <1>1, <1>10, <2>5 DEF Executed, Alu, Compares
    <3>2. RspAt(Exec(m, r), k)
      BY <3>1 DEF RspAt, Cpu
    <3>3. QED BY <2>1, <3>2
  <2>6. CASE r.op \notin {"MOV", "LDMXCSR"} \cup Alu \cup Compares
    <3>1. \E v : Exec(m, r) = Put(m, a[1], v)
      BY <1>1, <1>10, <2>6 DEF Executed
    <3>2. QED BY <2>1, <2>2, <3>1, PutKeeps
  <2>7. QED BY <2>3, <2>4, <2>5, <2>6
<1>11. QED BY <1>2, <1>3, <1>4, <1>5, <1>6, <1>7, <1>8, <1>9, <1>10

================================================================================
