------------------------------ MODULE MCEmulation ------------------------------
(***************************************************************************)
(* Instructions for TLC: every operand form of every class, with registers *)
(* that coincide in every way.                                             *)
(***************************************************************************)
EXTENDS Emulation

Immediates(iclass) ==
  CASE iclass \in Comparisons -> 0 .. 7 \cup {22, 31}
    [] iclass \in {"VEXTRACTF128", "VINSERTF128"} -> {0, 1}
    [] iclass = "VPERM2F128" -> {32, 49, 3, 24, 131}
    [] iclass = "AND" -> {224}
    [] OTHER -> {0, 27, 201}

(* decodeInstructions takes AND in any form, not only those its operand    *)
(* sets list: AND RSP, -32 is in most functions that use YMM registers.    *)
AnyAnd == [AND EXCEPT !.forms = @ \cup {<<"R32", "I">>, <<"R64", "I">>, <<"M32", "R32">>,
                                        <<"M64", "R64">>, <<"M32", "I">>, <<"M64", "I">>}]
Supported == (iclassMapping \ {AND}) \cup {AnyAnd}

MemWidth == [M8 |-> 8, M16 |-> 16, M32 |-> 32, M64 |-> 64, M128 |-> 128, M256 |-> 256]

(* env names the general registers, the addresses and their displacement.  *)
Candidates(env, x, kind) ==
  CASE kind = "X"   -> {RegOp(Xmm(n)) : n \in 0 .. 4}
    [] kind = "Y"   -> {RegOp(Ymm(n)) : n \in 0 .. 4}
    [] kind = "R32" -> {RegOp(R32(n)) : n \in env.gprs}
    [] kind = "R64" -> {RegOp(R64(n)) : n \in env.gprs}
    [] kind = "I"   -> {ImmOp(Sym("imm", n)) : n \in Immediates(x.iclass)}
    [] OTHER        -> {MemOp(b[1], b[2], env.disp, MemWidth[kind]) : b \in env.bases}

(* Vector registers are numbered in the order they first occur, from XMM1; *)
(* XMM0 is the scratch register, and an operand where it is special.       *)
InOrder(x, ops) ==
  LET vectors == SelectSeq(ops, LAMBDA o : isXmm(o) \/ isYmm(o))
      all == [k \in 1 .. Len(vectors) |-> vectors[k].reg.n]
      s == IF x.body = "blendv" THEN SelectSeq(all, LAMBDA n : n # 0) ELSE all
  IN  \A k \in 1 .. Len(s) : (\A j \in 1 .. k - 1 : s[j] # s[k])
                             => s[k] = 1 + Cardinality({s[j] : j \in 1 .. k - 1})

OperandLists(env, x, form) ==
  {ops \in FoldLeft(LAMBDA acc, kind : {Append(t, o) : t \in acc, o \in Candidates(env, x, kind)},
                    {<<>>}, form) : InOrder(x, ops)}

(* opWidth is the width of the general registers, where there are any.     *)
Instr(x, ops) ==
  [iclass |-> x.iclass, operands |-> ops,
   opWidth |-> IF ops[1].reg.class = "r32" \/ ops[1].width = 32 THEN 32 ELSE 64]

InstructionsOf(env, classes) ==
  UNION {{Instr(x, ops) : ops \in UNION {OperandLists(env, x, f) : f \in x.forms}} : x \in classes}

(* Memory by RIP, by RSP and by the registers the emitted code borrows.    *)
Anywhere == [gprs |-> 0 .. 3, disp |-> 16,
             bases |-> {<<RIP, INVALID>>, <<RSP, INVALID>>, <<RAX, INVALID>>, <<RBX, RCX>>}]
(* What the tests generate: RAX and RBX are reserved.                      *)
Reserved == [gprs |-> {1, 2, 6}, disp |-> 16,
             bases |-> {<<RSP, INVALID>>, <<R64(7), RCX>>}]

(* Addresses no 128-bit access is aligned at.                              *)
Misaligned == [gprs |-> {1}, disp |-> 8, bases |-> {<<RIP, INVALID>>, <<RSP, INVALID>>}]
(* RSP as a register, not as the base of an address.                       *)
StackPointer == [gprs |-> {1, 4}, disp |-> 16,
                 bases |-> {<<RIP, INVALID>>, <<RBX, RCX>>}]

Alone(instructions) == {<<i>> : i \in instructions}

-----------------------------------------------------------------------------
(***************************************************************************)
(* The instructions that are compiled wrongly, by their operands.          *)
(***************************************************************************)
isVector(o) == isXmm(o) \/ isYmm(o)
SameReg(i, j, k) == /\ isVector(i.operands[j])
                    /\ isVector(i.operands[k])
                    /\ i.operands[j].reg.n = i.operands[k].reg.n
HasRsp(i) == \E k \in 1 .. Len(i.operands) : i.operands[k].reg \in {RSP, R32(RSP.n)}
BlendvDefect(i) ==
  LET matches == {k \in 1 .. 4 : isVector(i.operands[k]) /\ i.operands[k].reg.n = 0}
  IN  \/ matches = {} /\ ~SameReg(i, 1, 2)
      \/ matches \in {{3}, {2, 3}}
      \/ matches = {2, 4} /\ SameReg(i, 1, 3)
      \/ 1 \in matches /\ matches # {1}
VectorDefect(i) ==
  LET o == i.operands
  IN  CASE HasRsp(i) /\ strategy = "DirectCall" -> isVector(o[1])
        [] i.iclass \in {"VCVTSI2SS", "VPERM2F128", "VCVTPS2PH"} -> TRUE
        [] i.iclass = "VCVTTPS2DQ" -> isYmm(o[1])
        [] i.iclass \in {"VMULSD", "VMULSS"} -> SameReg(i, 1, 3) /\ ~SameReg(i, 1, 2)
        [] i.iclass = "VINSERTF128" ->
             immValue(o[4]) = 1 /\ (SameReg(i, 1, 3) \/ SameReg(i, 2, 3))
        [] i.iclass = "VEXTRACTF128" -> SameReg(i, 1, 2)
        [] i.iclass \in {"VPSLLQ", "VPSRLQ"} ->
             isYmm(o[1]) /\ (isMemoryOperand(o[3]) \/ SameReg(i, 1, 3) \/ SameReg(i, 2, 3))
        [] i.iclass \in {"VBROADCASTSS", "VPBROADCASTB"} -> isYmm(o[1]) /\ SameReg(i, 1, 2)
        [] i.iclass \in Masked -> BlendvDefect(i)
        [] OTHER -> FALSE

(* Emitted code loads the address of shufConst, a member of the object     *)
(* that compiled it; the object is freed when the block is compiled.       *)
ShufConstLost(i) == /\ i.iclass = "VPBROADCASTB"
                    /\ ~\E a \in DOMAIN machine.mem : IsMember(a)

(* The first register in the order of getUnusedReg, then the second and    *)
(* so on, that no operand uses by its 64-bit name.                         *)
Borrowed(i, k) ==
  LET used == reservedRegs(i.iclass)
              \cup UNION {getUsedReg(i.operands[j]) : j \in 1 .. Len(i.operands)}
  IN  R32(SelectSeq(gprs, LAMBDA n : R64(n) \notin used)[k])

(* Instructions that hold a value in a borrowed register while they still  *)
(* read an operand that is its 32-bit half, or that restore it after it is *)
(* written as the destination.  A shift borrows one for its value, one     *)
(* more for the application's RCX when an operand names it, and one more   *)
(* for RIP; ANDN one for its value and one for RIP.                        *)
ShiftDefect(i) ==
  LET o(k) == i.operands[k].reg
      n == IF \E k \in 1 .. 3 : NamesRcx(i.operands[k]) THEN 1 ELSE 0
      subst == IF n = 1 THEN {Borrowed(i, 1)} ELSE {}
      value == Borrowed(i, n + 1)
      rip == IF hasRipBase(i.operands[2]) THEN {Borrowed(i, n + 2)} ELSE {}
  IN  \/ o(1) \in subst \cup {value} \cup rip
      \/ o(2) \in subst
      \/ o(3) \in subst \cup rip
      \/ o(3) = value /\ o(2) # value
AndnDefect(i) ==
  LET o(k) == i.operands[k].reg
      rip == IF hasRipBase(i.operands[3]) THEN {Borrowed(i, 2)} ELSE {}
  IN  \/ o(1) \in {Borrowed(i, 1)} \cup rip
      \/ o(3) = Borrowed(i, 1)
      \/ o(2) \in rip

(* EAX is the destination and RAX is taken for a scratch register, or BLSR *)
(* reads its source after it has written the destination, or RSP is read   *)
(* or written while the emitted code has moved it.                         *)
GprDefect(i) ==
  LET d == i.operands[1]
      s == i.operands[2]
  IN  \/ /\ HasRsp(i) /\ ~isVector(d)
         /\ strategy = "DirectCall" \/ i.iclass = "ANDN" \/ hasRipBase(s)
      \/ /\ d = RegOp(R32(0))
         /\ \E k \in 2 .. Len(i.operands) : hasRipBase(i.operands[k]) \/ isYmm(i.operands[k])
      \/ /\ i.iclass = "BLSR"
         /\ \/ s = d
            \/ isMemoryOperand(s) /\ R64(d.reg.n) \in {s.base, s.index}
      \/ i.iclass \in Shifts /\ ShiftDefect(i)
      \/ i.iclass = "ANDN" /\ AndnDefect(i)

(* After one instruction the vector registers, with their upper halves,    *)
(* are what AVX makes of them, scratch registers included, unless its      *)
(* operands are one of the combinations of VectorDefect; and every one of  *)
(* those is wrong, so that nothing is excluded that works.                 *)
VectorsExact ==
  phase = "resumed" =>
    (VectorsMatch <=> \A j \in 1 .. Len(block) : /\ ~VectorDefect(block[j])
                                                 /\ ~ShufConstLost(block[j]))

(* AND writes memory: AND [RIP + d], EAX reads EAX when RAX already holds  *)
(* the address.                                                            *)
MemoryDefect(i) ==
  i.iclass = "AND" /\ hasRipBase(i.operands[1]) /\ i.operands[2] = RegOp(R32(0))

(* The same of the application's memory, and MemoryDefect.                 *)
MemoryExact ==
  phase = "resumed" => (MemoryMatches <=> \A j \in 1 .. Len(block) : ~MemoryDefect(block[j]))

(* The same of the general registers, RSP, MXCSR and the place where       *)
(* execution goes on, and GprDefect.                                       *)
GprsExact ==
  phase = "resumed" => (GprsMatch <=> \A j \in 1 .. Len(block) : ~GprDefect(block[j]))

(* An operand in memory that the SSE instruction needs on a boundary of 16 *)
(* bytes; of the AVX instructions only VMOVAPS, VMOVAPD and VMOVDQA need   *)
(* one.  The unaligned moves, and the instructions made of moves alone, do *)
(* not; nor a blend whose other operands are all XMM0, whose operand in    *)
(* memory is moved to a scratch register.                                  *)
NeedsAlignment(i) ==
  /\ i.iclass \notin {"VMOVUPS", "VMOVUPD", "VMOVDQU", "VEXTRACTF128", "VINSERTF128", "VPERM2F128"}
  /\ ~(i.iclass \in Masked /\ \A k \in {1, 2, 4} : i.operands[k].reg.n = 0)
  /\ \E k \in 1 .. Len(i.operands) : /\ i.operands[k].width >= 128
                                      /\ i.operands[k].disp % 16 # 0

(* The emitted code faults if and only if the application's operand is one *)
(* that needs alignment and has none: what it saves and borrows itself, on *)
(* the stack and in the storage, is always where the CPU wants it.         *)
FaultsExact ==
  /\ machine.fault => NeedsAlignment(block[1])
  /\ phase = "resumed" => ~NeedsAlignment(block[1])

-----------------------------------------------------------------------------
(* Every instruction alone; two in a row; the integer ones with operands   *)
(* that leave the reserved registers alone.                                *)
All == InstructionsOf(Anywhere, Supported)
AllBlocks ==
  Alone(All \cup {i \in InstructionsOf(Misaligned, Supported) :
                   \E k \in 1 .. Len(i.operands) : i.operands[k].width >= 128})
OnRsp == {i \in InstructionsOf(StackPointer, {VMOVD, VMOVQ, VCVTSI2SD, VPINSRB, VPINSRD,
                                              VPINSRQ, AnyAnd, ANDN}) :
            /\ HasRsp(i) /\ ~isMemoryOperand(i.operands[1])
            /\ isVector(i.operands[1]) \/ i.iclass \in {"AND", "ANDN"}}
Pair == {i \in InstructionsOf(Anywhere, {VADDPS, VMOVDQU, VFMSUB231PS, VCMPSD}) :
           /\ \A k \in 1 .. Len(i.operands) : ~isImmediate(i.operands[k])
                                              \/ immValue(i.operands[k]) = 22
           /\ \E k \in 1 .. Len(i.operands) : hasRipBase(i.operands[k]) \/ hasRspBase(i.operands[k])}
ResultBlocks == Alone(All \cup OnRsp) \cup {<<i, j>> : i \in Pair, j \in Pair}
IntegerBlocks ==
  Alone(InstructionsOf(Reserved,
          {VCOMISD, VCOMISS, VUCOMISD, VUCOMISS, AnyAnd, ANDN, SARX, SHLX, SHRX,
           VPEXTRD, VPEXTRQ, VCVTTSS2SI, VCVTTSD2SI, VMOVMSKPS}))

(* What the violation runs compile: one block with an example of every     *)
(* defect.  Each leaves a register of its own wrong, so that the last      *)
(* state of the trace shows them all.  Of the vector registers these are   *)
(* XMM1, XMM3, XMM4, the upper half of YMM5, XMM6, XMM7, the upper half of *)
(* YMM10, XMM11 and the upper half of YMM0, which VPERM2F128 borrows; of   *)
(* the general ones R9, RAX and RCX, and R8.                               *)
X(n) == RegOp(Xmm(n))
Y(n) == RegOp(Ymm(n))
Imm(n) == ImmOp(Sym("imm", n))
WrongVectors ==
  {<<Instr(VMULSD, <<X(1), X(2), X(1)>>),
     Instr(VCVTSI2SS, <<X(3), X(2), RegOp(R64(2))>>),
     Instr(VCVTTPS2DQ, <<Y(4), Y(2)>>),
     Instr(VINSERTF128, <<Y(5), Y(2), X(5), Imm(1)>>),
     Instr(VEXTRACTF128, <<X(6), Y(6), Imm(1)>>),
     Instr(VBLENDVPD, <<X(7), X(2), X(8), X(9)>>),
     Instr(VPSLLQ, <<Y(10), Y(2), MemOp(R64(6), INVALID, 0, 128)>>),
     Instr(VPBROADCASTB, <<X(11), X(2)>>),
     Instr(VPERM2F128, <<Y(12), Y(2), Y(13), Imm(49)>>)>>}
WrongGprs ==
  {<<Instr(ANDN, <<RegOp(R64(9)), RegOp(RSP), RegOp(R64(10))>>),
     Instr(SARX, <<RegOp(R32(0)), RegOp(R32(1)), RegOp(R32(2))>>),
     Instr(BLSR, <<RegOp(R64(8)), RegOp(R64(8))>>)>>}
MoveBlocks == Alone(InstructionsOf(Anywhere, {VMOVAPS}))

OnlyFarJump == {"FarJump"}
BothStrategies == {"FarJump", "DirectCall"}
SixXmms == 0 .. 5
AllXmms == 0 .. 15
AllGprs == 0 .. 15

===============================================================================
