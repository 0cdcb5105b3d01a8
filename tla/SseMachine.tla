------------------------------ MODULE SseMachine ------------------------------
(***************************************************************************)
(* The CPU the emitted code runs on, with symbolic values: an XMM register *)
(* is four 32-bit lanes, memory is a function from addresses to lanes, and *)
(* an arithmetic instruction yields a term of its inputs.  Instructions    *)
(* that only move lanes about are exact.  A memory lane that no one has    *)
(* written holds a value of its own.                                       *)
(***************************************************************************)
EXTENDS Operands, TLC

Zero == Sym("zero", 0)
Zeros(n) == [i \in 1 .. n |-> Zero]
ZeroExtend(lane) == <<"zx", <<lane>>, 0>>

(* The two 32-bit halves of a 64-bit value, and back.                      *)
Half(v, i) ==
  CASE v[1] = "zx"   -> IF i = 0 THEN v[2][1] ELSE Zero
    [] v[1] = "pair" -> v[2][i + 1]
    [] OTHER         -> <<"half", <<v>>, i>>

Whole(l, h) ==
  IF h = Zero THEN ZeroExtend(l)
  ELSE IF l[1] = "half" /\ h = <<"half", l[2], 1>> THEN l[2][1]
  ELSE <<"pair", <<l, h>>, 0>>

At(a, d) == <<a[1], a[2], a[3] + d>>
Lane(mem, a) == IF a \in DOMAIN mem THEN mem[a] ELSE <<"m", <<a>>, 0>>
Lanes(mem, a, n) == [i \in 1 .. n |-> Lane(mem, At(a, 4 * (i - 1)))]
Store(mem, a, v) ==
  LET written == {At(a, 4 * (i - 1)) : i \in 1 .. Len(v)}
  IN  [x \in written \cup DOMAIN mem |->
         IF x \in written THEN v[1 + ((x[3] - a[3]) \div 4)] ELSE mem[x]]

RegVal(m, r) == CASE r.class = "r32" -> ZeroExtend(Half(m.gpr[r.n], 0))
                  [] r.class = "rip" -> m.rip
                  [] OTHER -> m.gpr[r.n]
EA(m, o) ==
  LET base == RegVal(m, o.base)
      index == RegVal(m, o.index)
  IN  IF o.index = INVALID THEN At(base, o.disp)
      ELSE <<"sum", <<At(base, -base[3]), At(index, -index[3])>>,
             base[3] + index[3] + o.disp>>

(* The first n lanes of an operand; an immediate has only one.             *)
Lanes32(m, o, n) ==
  CASE isMemoryOperand(o) -> Lanes(m.mem, EA(m, o), n)
    [] isImmediate(o) -> <<o.imm>>
    [] isXmm(o) -> [i \in 1 .. n |-> m.xmm[o.reg.n][i]]
    [] OTHER -> [i \in 1 .. n |-> Half(RegVal(m, o.reg), i - 1)]

Val64(m, o) ==
  CASE isImmediate(o) -> o.imm
    [] isMemoryOperand(o) /\ o.width = 32 -> ZeroExtend(Lane(m.mem, EA(m, o)))
    [] isMemoryOperand(o) -> Whole(Lane(m.mem, EA(m, o)), Lane(m.mem, At(EA(m, o), 4)))
    [] OTHER -> RegVal(m, o.reg)

-----------------------------------------------------------------------------
Moves128 == {"MOVUPS", "MOVUPD", "MOVAPS", "MOVAPD", "MOVDQU", "MOVDQA"}
ScalarSS == {"ADDSS", "SUBSS", "MULSS", "DIVSS", "MAXSS", "MINSS", "RSQRTSS",
             "CVTSI2SS", "CVTSD2SS", "COMISS", "UCOMISS"}
ScalarSD == {"ADDSD", "SUBSD", "MULSD", "DIVSD", "MAXSD", "MINSD", "CMPSD",
             "CVTSI2SD", "CVTSS2SD", "COMISD", "UCOMISD"}
Unary == {"SQRTPS", "SQRTPD", "RCPPS", "RSQRTPS", "ROUNDPS", "ROUNDPD",
          "CVTTPS2DQ", "RSQRTSS", "CVTSD2SS", "CVTSS2SD", "CVTSI2SD", "CVTSI2SS"}

(* Lane by lane; the count of a shift is the same for all.                 *)
Vertical == {"ADDPS", "SUBPS", "MULPS", "PAND", "POR", "PSRLD"}

(* Lanes of the destination an instruction computes, and lanes it reads of *)
(* its source.                                                             *)
Width(op) == IF op \in ScalarSS THEN 1 ELSE IF op \in ScalarSD THEN 2 ELSE 4
SourceWidth(op, o) ==
  CASE op \in {"CVTSI2SD", "CVTSI2SS", "PINSRB"} ->
         IF o.reg.class = "r64" \/ o.width = 64 THEN 2 ELSE 1
    [] op \in {"MOVSS", "MOVD", "PINSRD", "CVTSS2SD", "CVTTSS2SI"} -> 1
    [] op \in {"MOVSD", "MOVQ", "MOVHPD", "MOVHPS", "MOVLHPS", "PINSRQ",
               "CVTSD2SS", "CVTTSD2SI"} -> 2
    [] op = "INSERTPS" /\ isMemoryOperand(o) -> 1
    [] OTHER -> Width(op)

(* The bits of an immediate that an instruction looks at.                  *)
Relevant(op, imm) ==
  CASE op \in {"BLENDPD", "SHUFPD"} -> imm % 4
    [] op = "BLENDPS" -> imm % 16
    [] op \in {"CMPPS", "CMPPD", "CMPSD"} -> imm % 8
    [] OTHER -> imm

Bit(imm, i) == (imm \div (2 ^ i)) % 2

(* The four lanes an instruction leaves in a vector destination that held  *)
(* d, given the lanes s of its source and an immediate.                    *)
Result(op, d, s, imm, fromMem) ==
  CASE op \in Moves128 -> s
    [] op = "MOVSS" /\ ~fromMem -> <<s[1]>> \o SubSeq(d, 2, 4)
    [] op = "MOVSD" /\ ~fromMem -> s \o SubSeq(d, 3, 4)
    [] op = "MOVD" \/ (op = "MOVSS" /\ fromMem) -> <<s[1]>> \o Zeros(3)
    [] op = "MOVQ" \/ (op = "MOVSD" /\ fromMem) -> s \o Zeros(2)
    [] op \in {"MOVHPD", "MOVHPS", "MOVLHPS"} -> SubSeq(d, 1, 2) \o s
    [] op = "SHUFPS" -> [i \in 1 .. 4 |-> (IF i <= 2 THEN d ELSE s)
                                          [1 + ((imm \div (4 ^ (i - 1))) % 4)]]
    [] op = "INSERTPS" ->
         [i \in 1 .. 4 |-> IF Bit(imm, i - 1) = 1 THEN Zero
                           ELSE IF i = 1 + ((imm \div 16) % 4)
                           THEN s[IF fromMem THEN 1 ELSE 1 + (imm \div 64)]
                           ELSE d[i]]
    [] op = "PINSRD" -> [d EXCEPT ![1 + (imm % 4)] = s[1]]
    [] op = "PINSRQ" -> [d EXCEPT ![1 + 2 * (imm % 2)] = s[1],
                                  ![2 + 2 * (imm % 2)] = s[2]]
    [] op = "XORPS" /\ d = s -> Zeros(4)
    [] op = "PSHUFB" /\ s = Zeros(4) -> [i \in 1 .. 4 |-> <<"byte0", <<d[1]>>, 0>>]
    [] op \in Vertical ->
         [i \in 1 .. 4 |-> <<op, <<d[i], s[IF Len(s) = 1 THEN 1 ELSE i]>>, 0>>]
    [] OTHER ->
         LET read == IF op \in Unary THEN <<>> ELSE SubSeq(d, 1, Width(op))
             n == Sym("imm", Relevant(op, imm))
         IN  [i \in 1 .. 4 |-> IF i <= Width(op)
                               THEN <<op, read \o s \o <<n>>, i>> ELSE d[i]]

(* What an instruction that takes a vector apart leaves in a register or   *)
(* in memory, as one or two lanes.                                         *)
Extracted(op, s, imm) ==
  CASE op \in {"PEXTRD", "EXTRACTPS"} -> <<s[1 + (imm % 4)]>>
    [] op = "PEXTRQ" -> <<s[1 + 2 * (imm % 2)], s[2 + 2 * (imm % 2)]>>
    [] op \in {"MOVHPD", "MOVHPS"} -> <<s[3], s[4]>>
    [] op \in {"MOVSS", "MOVD"} -> <<s[1]>>
    [] op \in {"MOVSD", "MOVQ"} -> <<s[1], s[2]>>
    [] op \in Moves128 -> s
    [] op = "CVTTSS2SI" -> <<<<op, <<s[1]>>, 0>>, <<op, <<s[1]>>, 1>>>>
    [] op = "CVTTSD2SI" -> <<<<op, <<s[1], s[2]>>, 0>>, <<op, <<s[1], s[2]>>, 1>>>>
    [] OTHER -> <<<<op, s \o <<Sym("imm", imm)>>, 0>>>>

SetGpr(m, r, v) ==
  [m EXCEPT !.gpr[r.n] = IF r.class = "r32" THEN ZeroExtend(Half(v, 0)) ELSE v]

(* A byte or a word is stored into the lane that surrounds it.             *)
Put(m, o, lanes) ==
  CASE isMemoryOperand(o) ->
         LET a == EA(m, o)
             v == IF o.width < 32
                  THEN <<<<"narrow", <<Lane(m.mem, a), lanes[1]>>, o.width>>>>
                  ELSE lanes
         IN  [m EXCEPT !.mem = Store(@, a, v)]
    [] isXmm(o) -> [m EXCEPT !.xmm[o.reg.n] = lanes]
    [] OTHER -> SetGpr(m, o.reg, IF Len(lanes) = 1 THEN ZeroExtend(lanes[1])
                                 ELSE Whole(lanes[1], lanes[2]))

-----------------------------------------------------------------------------
(* Nothing below RSP is kept: a call, or a signal delivered between any two *)
(* instructions, may overwrite it.                                         *)
Forget(mem, rsp) ==
  [a \in {x \in DOMAIN mem : ~(x[1] = rsp[1] /\ x[2] = rsp[2] /\ x[3] < rsp[3])} |-> mem[a]]
SetRsp(m, rsp) == [m EXCEPT !.gpr[RSP.n] = rsp, !.mem = Forget(@, rsp)]

PushVal(m, v) ==
  LET rsp == At(m.gpr[RSP.n], -8)
  IN  [m EXCEPT !.gpr[RSP.n] = rsp, !.mem = Store(@, rsp, <<Half(v, 0), Half(v, 1)>>)]
TopOfStack(m) == Whole(Lane(m.mem, m.gpr[RSP.n]), Lane(m.mem, At(m.gpr[RSP.n], 4)))
DropTop(m) == SetRsp(m, At(m.gpr[RSP.n], 8))

FlagsOf(op, s) == <<"flags", <<<<op, s, 0>>>>, 0>>

(* A legacy SSE instruction faults on a misaligned 128-bit memory operand, *)
(* unless it is one of the unaligned moves.  Every base is aligned.        *)
Faults(m, r) ==
  /\ r.op \notin {"MOVUPS", "MOVUPD", "MOVDQU"}
  /\ \E i \in 1 .. Len(r.args) : /\ isMemoryOperand(r.args[i])
                                 /\ r.args[i].width = 128
                                 /\ EA(m, r.args[i])[3] % 16 # 0

Compares == {"COMISS", "COMISD", "UCOMISS", "UCOMISD", "PTEST"}
Alu == {"AND", "OR", "SHL", "SHR", "SAR", "NOT", "SUB", "ADD"}
AluResult(op, class, v) ==
  IF class = "r32" THEN ZeroExtend(<<op, [i \in 1 .. Len(v) |-> Half(v[i], 0)], 0>>)
  ELSE <<op, v, 0>>
AluClass(o) == IF o.width = 32 THEN "r32" ELSE o.reg.class

(* The result goes to a register, or to as many lanes of memory as it has. *)
SetAlu(m, o, v) ==
  IF isMemoryOperand(o) THEN Put(m, o, [i \in 1 .. (o.width \div 32) |-> Half(v, i - 1)])
                        ELSE SetGpr(m, o.reg, v)

MovesRsp(r) == r.op \in {"ADD", "SUB"} /\ r.args[1].reg = RSP

(* One instruction.  get_ymm_storage returns the thread's storage and      *)
(* restores every general register but RAX; it does not keep the flags.    *)
Executed(m, r) ==
  LET op == r.op
      a == r.args
      imm == IF Len(a) = 3 THEN immValue(a[3]) ELSE 0
      mask == IF op \in {"BLENDVPD", "BLENDVPS"} THEN m.xmm[0] ELSE <<>>
      src == Lanes32(m, a[2], SourceWidth(op, a[2])) \o mask
  IN
  CASE op = "PUSH" -> PushVal(m, Val64(m, a[1]))
    [] op = "POP" -> DropTop(SetGpr(m, a[1].reg, TopOfStack(m)))
    [] op = "PUSHF" -> PushVal(m, m.flags)
    [] op = "POPF" -> DropTop([m EXCEPT !.flags = TopOfStack(m)])
    [] op = "CALL" -> [m EXCEPT !.gpr[RAX.n] = Sym("storage", 0),
                                !.flags = Sym("call", 0)]
    [] op = "RET" -> DropTop([m EXCEPT !.target = TopOfStack(m)])
    [] op = "JMP" -> [m EXCEPT !.target = Val64(m, a[1])]
    [] op = "MOV" -> SetGpr(m, a[1].reg, Val64(m, a[2]))
    [] MovesRsp(r) ->
         LET n == IF op = "ADD" THEN immValue(a[2]) ELSE -immValue(a[2])
         IN  [SetRsp(m, At(m.gpr[RSP.n], n)) EXCEPT !.flags = FlagsOf(op, <<m.gpr[RSP.n]>>)]
    [] op \in Alu /\ ~MovesRsp(r) ->
         LET v == [i \in 1 .. Len(a) |-> Val64(m, a[i])]
         IN  [SetAlu(m, a[1], AluResult(op, AluClass(a[1]), v)) EXCEPT
                !.flags = IF op = "NOT" THEN @ ELSE FlagsOf(op, v)]
    [] op \in Compares ->
         [m EXCEPT !.flags = FlagsOf(op, Lanes32(m, a[1], Width(op)) \o src)]
    [] op = "STMXCSR" -> Put(m, a[1], <<m.mxcsr>>)
    [] op = "LDMXCSR" -> [m EXCEPT !.mxcsr = Lane(m.mem, EA(m, a[1]))]
    [] OTHER ->
         Put(m, a[1], IF isXmm(a[1])
                      THEN Result(op, m.xmm[a[1].reg.n], src, imm, isMemoryOperand(a[2]))
                      ELSE Extracted(op, Lanes32(m, a[2], 4), imm))

Exec(m, r) == IF Faults(m, r) THEN [m EXCEPT !.fault = TRUE] ELSE Executed(m, r)

===============================================================================
