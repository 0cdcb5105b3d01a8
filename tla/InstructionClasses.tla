-------------------------- MODULE InstructionClasses --------------------------
(***************************************************************************)
(* The supported instructions (Instructions/*.h): of each class its iclass,*)
(* the SSE instruction it emits, the operand forms of its Metadata, and    *)
(* the implementation it shares with other classes or has of its own.      *)
(* A form names its operands: "X" and "Y" an XMM or YMM register, "R32" a  *)
(* general register, "M64" memory of that width, "I" an immediate.         *)
(***************************************************************************)
EXTENDS Lowering

Class(iclass, op, forms, body) ==
  [iclass |-> iclass, op |-> op, forms |-> forms, body |-> body]

Packed == {<<"X", "X", "M128">>, <<"X", "X", "X">>, <<"Y", "Y", "M256">>, <<"Y", "Y", "Y">>}
PackedImm == {Append(f, "I") : f \in Packed}
PackedMask == {Append(f, f[1]) : f \in Packed}
Scalar64 == {<<"X", "X", "M64">>, <<"X", "X", "X">>}
Scalar32 == {<<"X", "X", "M32">>, <<"X", "X", "X">>}
Copy == {<<"X", "X">>, <<"Y", "Y">>}
Load == {<<"X", "M128">>, <<"Y", "M256">>}
Spill == {<<"M128", "X">>, <<"M256", "Y">>}
Round == {Append(f, "I") : f \in Copy \cup Load}
Shift == {<<"X", "X", s>> : s \in {"M128", "X", "I"}}
         \cup {<<"Y", "Y", s>> : s \in {"M128", "X", "I"}}
FromInteger == {<<"X", "X", s>> : s \in {"M32", "R32", "M64", "R64"}}
ToInteger(mem) == {<<r, s>> : r \in {"R32", "R64"}, s \in {mem, "X"}}
Transfer(reg, mem) == {<<"X", reg>>, <<"X", mem>>, <<reg, "X">>, <<mem, "X">>}
Widths == {<<"R32", "M32">>, <<"R64", "M64">>}
Integer2 == {<<w[1], w[k]>> : w \in Widths, k \in {1, 2}}
IntegerNot == {<<w[1], w[1], w[k]>> : w \in Widths, k \in {1, 2}}
IntegerShift == {<<w[1], w[k], w[1]>> : w \in Widths, k \in {1, 2}}

AND == Class("AND", "AND", Integer2, "plain")
ANDN == Class("ANDN", "AND", IntegerNot, "ANDN")
BLSR == Class("BLSR", "SUB", Integer2, "BLSR")
SARX == Class("SARX", "SAR", IntegerShift, "shiftByRegister")
SHLX == Class("SHLX", "SHL", IntegerShift, "shiftByRegister")
SHRX == Class("SHRX", "SHR", IntegerShift, "shiftByRegister")
VADDPD == Class("VADDPD", "ADDPD", Packed, "three")
VADDPS == Class("VADDPS", "ADDPS", Packed, "three")
VADDSD == Class("VADDSD", "ADDSD", Scalar64, "three")
VADDSS == Class("VADDSS", "ADDSS", Scalar32, "three")
VANDNPD == Class("VANDNPD", "ANDNPD", Packed, "three")
VANDNPS == Class("VANDNPS", "ANDNPS", Packed, "three")
VANDPD == Class("VANDPD", "ANDPD", Packed, "three")
VANDPS == Class("VANDPS", "ANDPS", Packed, "three")
VBLENDPD == Class("VBLENDPD", "BLENDPD", PackedImm, "threeImmBy2")
VBLENDPS == Class("VBLENDPS", "BLENDPS", PackedImm, "threeImmBy4")
VBLENDVPD == Class("VBLENDVPD", "BLENDVPD", PackedMask, "blendv")
VBLENDVPS == Class("VBLENDVPS", "BLENDVPS", PackedMask, "blendv")
VBROADCASTSS == Class("VBROADCASTSS", "BROADCASTSS",
       {<<"X", "M32">>, <<"Y", "M32">>, <<"X", "X">>, <<"Y", "X">>}, "VBROADCASTSS")
VCMPPD == Class("VCMPPD", "CMPPD", PackedImm, "compare")
VCMPPS == Class("VCMPPS", "CMPPS", PackedImm, "compare")
VCMPSD == Class("VCMPSD", "CMPSD",
       {<<"X", "X", "M64", "I">>, <<"X", "X", "X", "I">>}, "compare")
VCOMISD == Class("VCOMISD", "COMISD", {<<"X", "M64">>, <<"X", "X">>}, "plain")
VCOMISS == Class("VCOMISS", "COMISS", {<<"X", "M32">>, <<"X", "X">>}, "plain")
VCVTPS2PH == Class("VCVTPS2PH", "CVTPS2PH", {<<"X", "X", "I">>}, "VCVTPS2PH")
VCVTSD2SS == Class("VCVTSD2SS", "CVTSD2SS", Scalar64, "threeClearing")
VCVTSI2SD == Class("VCVTSI2SD", "CVTSI2SD", FromInteger, "ignoringClearing")
VCVTSI2SS == Class("VCVTSI2SS", "CVTSI2SD", FromInteger, "ignoringClearing")
VCVTSS2SD == Class("VCVTSS2SD", "CVTSS2SD", Scalar32, "threeClearing")
VCVTTPS2DQ == Class("VCVTTPS2DQ", "CVTTPS2DQ", Load \cup Copy, "copyClearing")
VCVTTSD2SI == Class("VCVTTSD2SI", "CVTTSD2SI", ToInteger("M64"), "plain")
VCVTTSS2SI == Class("VCVTTSS2SI", "CVTTSS2SI", ToInteger("M32"), "plain")
VDIVSD == Class("VDIVSD", "DIVSD", Scalar64, "three")
VDIVSS == Class("VDIVSS", "DIVSS", Scalar32, "three")
VDPPD == Class("VDPPD", "DPPD",
       {<<"X", "X", "X", "I">>, <<"X", "X", "M128", "I">>}, "threeImm")
VDPPS == Class("VDPPS", "DPPS", PackedImm, "threeImm")
VEXTRACTF128 == Class("VEXTRACTF128", "EXTRACTF128",
       {<<"X", "Y", "I">>, <<"M128", "Y", "I">>}, "VEXTRACTF128")
VEXTRACTPS == Class("VEXTRACTPS", "EXTRACTPS",
       {<<"R32", "X", "I">>, <<"M32", "X", "I">>}, "plain")
VFMADD231PS == Class("VFMADD231PS", "FMADD231PS", Packed, "VFMADD231PS")
VFMSUB231PS == Class("VFMSUB231PS", "FMSUB231PS", Packed, "VFMSUB231PS")
VHADDPD == Class("VHADDPD", "HADDPD", Packed, "three")
VHADDPS == Class("VHADDPS", "HADDPS", Packed, "three")
VINSERTF128 == Class("VINSERTF128", "INSERTF128",
       {<<"Y", "Y", "X", "I">>, <<"Y", "Y", "M128", "I">>}, "VINSERTF128")
VINSERTPS == Class("VINSERTPS", "INSERTPS",
       {<<"X", "X", "X", "I">>, <<"X", "X", "M32", "I">>}, "VINSERTPS")
VLDMXCSR == Class("VLDMXCSR", "LDMXCSR", {<<"M32">>}, "plain")
VMAXSD == Class("VMAXSD", "MAXSD", Scalar64, "three")
VMAXSS == Class("VMAXSS", "MAXSS", Scalar32, "three")
VMINSD == Class("VMINSD", "MINSD", Scalar64, "three")
VMINSS == Class("VMINSS", "MINSS", Scalar32, "three")
VMOVAPD == Class("VMOVAPD", "MOVAPD", Load \cup Copy \cup Spill, "copy")
VMOVAPS == Class("VMOVAPS", "MOVAPS", Load \cup Copy \cup Spill, "copy")
VMOVD == Class("VMOVD", "MOVD", Transfer("R32", "M32"), "copy")
VMOVDQA == Class("VMOVDQA", "MOVDQA", Load \cup Copy \cup Spill, "copy")
VMOVDQU == Class("VMOVDQU", "MOVDQU", Load \cup Copy \cup Spill, "copy")
VMOVHPD == Class("VMOVHPD", "MOVHPD", {<<"X", "X", "M64">>, <<"M64", "X">>}, "moveHigh")
VMOVHPS == Class("VMOVHPS", "MOVHPS", {<<"X", "X", "M64">>, <<"M64", "X">>}, "moveHigh")
VMOVLHPS == Class("VMOVLHPS", "MOVLHPS", {<<"X", "X", "X">>}, "three")
VMOVMSKPD == Class("VMOVMSKPD", "MOVMSKPD", {<<"R32", "X">>}, "plainXmm")
VMOVMSKPS == Class("VMOVMSKPS", "MOVMSKPS", {<<"R32", "X">>}, "plainXmm")
VMOVQ == Class("VMOVQ", "MOVQ", Transfer("R64", "M64"), "copy")
VMOVSD == Class("VMOVSD", "MOVSD",
       {<<"X", "X", "X">>, <<"X", "M64">>, <<"M64", "X">>}, "moveScalar")
VMOVSS == Class("VMOVSS", "MOVSS",
       {<<"X", "X", "X">>, <<"X", "M32">>, <<"M32", "X">>}, "moveScalar")
VMOVUPD == Class("VMOVUPD", "MOVUPD", Load \cup Spill, "copy")
VMOVUPS == Class("VMOVUPS", "MOVUPS", Load \cup Spill, "copy")
VMULPD == Class("VMULPD", "MULPD", Packed, "three")
VMULPS == Class("VMULPS", "MULPS", Packed, "three")
VMULSD == Class("VMULSD", "MULSD", Scalar64, "ignoring")
VMULSS == Class("VMULSS", "MULSS", Scalar32, "ignoring")
VORPD == Class("VORPD", "ORPD", Packed, "three")
VORPS == Class("VORPS", "ORPS", Packed, "three")
VPADDB == Class("VPADDB", "PADDB", Packed, "three")
VPADDD == Class("VPADDD", "PADDD", Packed, "three")
VPADDQ == Class("VPADDQ", "PADDQ", Packed, "three")
VPADDW == Class("VPADDW", "PADDW", Packed, "three")
VPAND == Class("VPAND", "PAND", Packed, "three")
VPANDN == Class("VPANDN", "PANDN", Packed, "three")
VPBROADCASTB == Class("VPBROADCASTB", "PBROADCASTB",
       {<<"X", "M8">>, <<"X", "X">>, <<"Y", "M8">>, <<"Y", "X">>}, "VPBROADCASTB")
VPCMPEQB == Class("VPCMPEQB", "PCMPEQB", Packed, "three")
VPCMPEQD == Class("VPCMPEQD", "PCMPEQD", Packed, "three")
VPCMPEQQ == Class("VPCMPEQQ", "PCMPEQQ", Packed, "three")
VPCMPEQW == Class("VPCMPEQW", "PCMPEQW", Packed, "three")
VPCMPGTB == Class("VPCMPGTB", "PCMPGTB", Packed, "three")
VPCMPGTD == Class("VPCMPGTD", "PCMPGTD", Packed, "three")
VPCMPGTQ == Class("VPCMPGTQ", "PCMPGTQ", Packed, "three")
VPCMPGTW == Class("VPCMPGTW", "PCMPGTW", Packed, "three")
VPERM2F128 == Class("VPERM2F128", "PERM2F128",
       {<<"Y", "Y", "Y", "I">>, <<"Y", "Y", "M256", "I">>}, "VPERM2F128")
VPERMILPS == Class("VPERMILPS", "PERMILPS",
       {<<"X", "X", "I">>, <<"Y", "Y", "I">>}, "VPERMILPS")
VPEXTRB == Class("VPEXTRB", "PEXTRB", {<<"M8", "X", "I">>}, "plainXmm")
VPEXTRD == Class("VPEXTRD", "PEXTRD",
       {<<"R32", "X", "I">>, <<"M32", "X", "I">>}, "plainXmm")
VPEXTRQ == Class("VPEXTRQ", "PEXTRQ",
       {<<"R64", "X", "I">>, <<"M64", "X", "I">>}, "plainXmm")
VPEXTRW == Class("VPEXTRW", "PEXTRW", {<<"M16", "X", "I">>}, "plainXmm")
VPINSRB == Class("VPINSRB", "PINSRB",
       {<<"X", "X", "R32", "I">>, <<"X", "X", "M8", "I">>}, "threeImm")
VPINSRD == Class("VPINSRD", "PINSRD",
       {<<"X", "X", "R32", "I">>, <<"X", "X", "M32", "I">>}, "threeImm")
VPINSRQ == Class("VPINSRQ", "PINSRQ",
       {<<"X", "X", "R64", "I">>, <<"X", "X", "M64", "I">>}, "threeImm")
VPMOVMSKB == Class("VPMOVMSKB", "PMOVMSKB", {<<"R32", "X">>, <<"R32", "Y">>}, "VPMOVMSKB")
VPSHUFB == Class("VPSHUFB", "PSHUFB", Packed, "three")
VPSIGNB == Class("VPSIGNB", "PSIGNB", Packed, "three")
VPSIGND == Class("VPSIGND", "PSIGND", Packed, "three")
VPSIGNW == Class("VPSIGNW", "PSIGNW", Packed, "three")
VPSLLQ == Class("VPSLLQ", "PSLLQ", Shift, "three")
VPSRLDQ == Class("VPSRLDQ", "PSRLDQ", {<<"X", "X", "I">>, <<"Y", "Y", "I">>}, "three")
VPSRLQ == Class("VPSRLQ", "PSRLQ", Shift, "three")
VPSUBB == Class("VPSUBB", "PSUBB", Packed, "three")
VPSUBD == Class("VPSUBD", "PSUBD", Packed, "three")
VPSUBQ == Class("VPSUBQ", "PSUBQ", Packed, "three")
VPSUBW == Class("VPSUBW", "PSUBW", Packed, "three")
VPTEST == Class("VPTEST", "PTEST", Load \cup Copy, "plain")
VPXOR == Class("VPXOR", "PXOR", Packed, "three")
VRCPPS == Class("VRCPPS", "RCPPS", Load \cup Copy, "copy")
VROUNDPD == Class("VROUNDPD", "ROUNDPD", Round, "copy")
VROUNDPS == Class("VROUNDPS", "ROUNDPS", Round, "copy")
VRSQRTPS == Class("VRSQRTPS", "RSQRTPS", Load \cup Copy, "copy")
VRSQRTSS == Class("VRSQRTSS", "RSQRTSS", Scalar32, "three")
VSHUFPD == Class("VSHUFPD", "SHUFPD", PackedImm, "threeImmBy2")
VSHUFPS == Class("VSHUFPS", "SHUFPS", PackedImm, "threeImm")
VSQRTPD == Class("VSQRTPD", "SQRTPD", Load \cup Copy, "copy")
VSQRTPS == Class("VSQRTPS", "SQRTPS", Load \cup Copy, "copy")
VSTMXCSR == Class("VSTMXCSR", "STMXCSR", {<<"M32">>}, "plain")
VSUBPD == Class("VSUBPD", "SUBPD", Packed, "three")
VSUBPS == Class("VSUBPS", "SUBPS", Packed, "three")
VSUBSD == Class("VSUBSD", "SUBSD", Scalar64, "three")
VSUBSS == Class("VSUBSS", "SUBSS", Scalar32, "three")
VUCOMISD == Class("VUCOMISD", "UCOMISD", {<<"X", "M64">>, <<"X", "X">>}, "plain")
VUCOMISS == Class("VUCOMISS", "UCOMISS", {<<"X", "M32">>, <<"X", "X">>}, "plain")
VUNPCKHPS == Class("VUNPCKHPS", "UNPCKHPS", Packed, "three")
VUNPCKLPS == Class("VUNPCKLPS", "UNPCKLPS", Packed, "three")
VXORPD == Class("VXORPD", "XORPD", Packed, "three")
VXORPS == Class("VXORPS", "XORPS", Packed, "three")

iclassMapping ==
  {AND, ANDN, BLSR, SARX, SHLX, SHRX, VADDPD, VADDPS, VADDSD, VADDSS, VANDNPD,
   VANDNPS, VANDPD, VANDPS, VBLENDPD, VBLENDPS, VBLENDVPD, VBLENDVPS,
   VBROADCASTSS, VCMPPD, VCMPPS, VCMPSD, VCOMISD, VCOMISS, VCVTPS2PH,
   VCVTSD2SS, VCVTSI2SD, VCVTSI2SS, VCVTSS2SD, VCVTTPS2DQ, VCVTTSD2SI,
   VCVTTSS2SI, VDIVSD, VDIVSS, VDPPD, VDPPS, VEXTRACTF128, VEXTRACTPS,
   VFMADD231PS, VFMSUB231PS, VHADDPD, VHADDPS, VINSERTF128, VINSERTPS,
   VLDMXCSR, VMAXSD, VMAXSS, VMINSD, VMINSS, VMOVAPD, VMOVAPS, VMOVD, VMOVDQA,
   VMOVDQU, VMOVHPD, VMOVHPS, VMOVLHPS, VMOVMSKPD, VMOVMSKPS, VMOVQ, VMOVSD,
   VMOVSS, VMOVUPD, VMOVUPS, VMULPD, VMULPS, VMULSD, VMULSS, VORPD, VORPS,
   VPADDB, VPADDD, VPADDQ, VPADDW, VPAND, VPANDN, VPBROADCASTB, VPCMPEQB,
   VPCMPEQD, VPCMPEQQ, VPCMPEQW, VPCMPGTB, VPCMPGTD, VPCMPGTQ, VPCMPGTW,
   VPERM2F128, VPERMILPS, VPEXTRB, VPEXTRD, VPEXTRQ, VPEXTRW, VPINSRB, VPINSRD,
   VPINSRQ, VPMOVMSKB, VPSHUFB, VPSIGNB, VPSIGND, VPSIGNW, VPSLLQ, VPSRLDQ,
   VPSRLQ, VPSUBB, VPSUBD, VPSUBQ, VPSUBW, VPTEST, VPXOR, VRCPPS, VROUNDPD,
   VROUNDPS, VRSQRTPS, VRSQRTSS, VSHUFPD, VSHUFPS, VSQRTPD, VSQRTPS, VSTMXCSR,
   VSUBPD, VSUBPS, VSUBSD, VSUBSS, VUCOMISD, VUCOMISS, VUNPCKHPS, VUNPCKLPS,
   VXORPD, VXORPS}

-----------------------------------------------------------------------------
(***************************************************************************)
(* The implementations.  up says which half is being compiled.             *)
(***************************************************************************)
Operands(c, up) == [k \in 1 .. Len(c.operands) |-> Operand(c, k, up)]
Plain(c, op, up) == withRipSubstitution(c, op, Operands(c, up))
PlainXmm(c, op, up) == IF usesYmm(c) THEN Exit(c) ELSE Plain(c, op, up)

(* zeroupperInternal(operands[0]), whatever the destination is.            *)
clear(c) == zeroupperInternal(c, c.operands[1])

three(c, op, up) == map3opto2op(c, op, up, TwoOperands(c, up))
threeImm(c, op, up, n) ==
  map3opto2op(c, op, up, Append(TwoOperands(c, up), ImmOp(Sym("imm", n))))

(* The halves of the vector take their own bits of the immediate.          *)
splitImm(c, op, up, bits) ==
  LET n == immValue(c.operands[4])
  IN  threeImm(c, op, up, IF up THEN n \div 2 ^ bits ELSE n)

(* Predicate 0x16 is replaced by 6.                                        *)
compare(c, op, up) ==
  LET mode == immValue(c.operands[4])
  IN  CASE mode <= 7  -> threeImm(c, op, up, mode)
        [] mode = 22  -> threeImm(c, op, up, 6)
        [] OTHER      -> Exit(c)

(* The lambda does not use the operands map3opto2op hands it.              *)
ignoring(c, op, up) ==
  map3opto2op(c, op, up, <<Operand(c, 1, up), Operand(c, 3, up)>>)

moveScalar(c, op, up) == IF Len(c.operands) = 2 THEN Plain(c, op, up) ELSE three(c, op, up)
moveHigh(c, op, up) ==
  IF Len(c.operands) = 2 THEN Plain(c, op, up) ELSE zeroIfXmm(three(c, op, up))

VINSERTPS_implementation(c, up) ==
  LET n == c.operands[2].reg.n
      insert(d, k) == op3(d, "INSERTPS", Operand(c, k, up), Operand(c, 3, up), Operand(c, 4, up))
      inSource == insert(preserveXmmReg(c, n), 2)
  IN  clear(IF c.operands[1].reg = c.operands[2].reg THEN insert(c, 1)
            ELSE restoreXmmReg(movups(inSource, Operand(c, 1, up), Operand(c, 2, up)), n))

(* Mutant: the immediate taken for the source.                             *)
VPERMILPS_implementation_Swapped(c, up) ==
  LET d == movups(c, Operand(c, 1, up), Operand(c, 3, up))
  IN  zeroIfXmm(op3(d, "SHUFPS", Operand(c, 1, up), Operand(c, 2, up), Operand(c, 3, up)))

VPERMILPS_implementation(c, up) ==
  IF ~isImmediate(c.operands[3]) THEN Exit(c)
  ELSE LET d == movups(c, Operand(c, 1, up), Operand(c, 2, up))
       IN  zeroIfXmm(op3(d, "SHUFPS", Operand(c, 1, up), Operand(c, 2, up), Operand(c, 3, up)))

VBROADCASTSS_implementation(c, up) ==
  LET insert(d, i) == op3(d, "INSERTPS", Operand(c, 1, up), Operand(c, 2, FALSE),
                          ImmOp(Sym("imm", 16 * i)))
  IN  zeroIfXmm(insert(insert(insert(insert(c, 0), 1), 2), 3))

(* shufConst is a member of the Instruction, addressed by its address.     *)
VPBROADCASTB_implementation(c, up) ==
  LET src == Operand(c, 2, FALSE)
      d == op2(c, "MOVQ", Operand(c, 1, up),
               IF isMemoryOperand(src) THEN [src EXCEPT !.width = 64] ELSE src)
      r == getUnusedReg(d)
      e == MovConst(takeReg(d, r), r, Sym("shufConst", 0))
  IN  zeroIfXmm(giveBackReg(op2(e, "PSHUFB", Operand(c, 1, up), MemOp(r, INVALID, 0, 128)), r))

VEXTRACTF128_implementation(c, up) ==
  zeroIfXmm(IF (immValue(c.operands[3]) # 0) = up
            THEN movups(c, Operand(c, 1, FALSE), Operand(c, 2, up)) ELSE c)

VINSERTF128_implementation(c, up) ==
  movups(c, Operand(c, 1, up),
         IF (immValue(c.operands[4]) # 0) = up THEN Operand(c, 3, FALSE) ELSE Operand(c, 2, up))

VPMOVMSKB_implementation(c, up) ==
  IF ~up THEN Plain(c, "PMOVMSKB", up)
  ELSE LET r == getUnusedReg(c)
           t == RegOp(R32(r.n))
           d == pushf(op2(takeReg(c, r), "PMOVMSKB", t, Operand(c, 2, up)))
           e == op2(op2(d, "SHL", t, ImmOp(Sym("imm", 16))), "OR", Operand(c, 1, up), t)
       IN  giveBackReg(popf(e), r)

(* The product of the sources in a scratch register that is preserved.     *)
product(c, up, r) ==
  op2(movups(preserveXmmReg(use(c, r), r.n), RegOp(r), Operand(c, 2, up)),
      "MULPS", RegOp(r), Operand(c, 3, up))
forgetProduct(c, r) == returnReg(restoreXmmReg(c, r.n), r)

VFMADD231PS_implementation(c, up) ==
  LET r == getUnusedXmmReg(c)
  IN  zeroIfXmm(forgetProduct(op2(product(c, up, r), "ADDPS", Operand(c, 1, up), RegOp(r)), r))
VFMSUB231PS_implementation(c, up) ==
  LET r == getUnusedXmmReg(c)
      d == op2(product(c, up, r), "SUBPS", RegOp(r), Operand(c, 1, up))
  IN  zeroIfXmm(forgetProduct(movups(d, Operand(c, 1, up), RegOp(r)), r))

-----------------------------------------------------------------------------
ANDN_implementation(c, up) ==
  LET r == getUnusedReg(c)
      t == RegOp(IF c.opWidth = 64 THEN r ELSE R32(r.n))
      d == op1(mov(takeReg(c, r), RegOp(r), RegOp(to64BitRegister(c.operands[2]))), "NOT", t)
      e == op2(d, "AND", t, Operand(c, 3, up))
  IN  giveBackReg(mov(e, RegOp(to64BitRegister(c.operands[1])), RegOp(r)), r)

BLSR_implementation(c, up) ==
  LET dst == Operand(c, 1, up)
      src == Operand(c, 2, up)
  IN  op2(sub(mov(c, dst, src), dst.reg, 1), "AND", dst, src)

(* Mutant: only memory operands are substituted.                           *)
substRcx_MemoryOnly(o, r) ==
  IF isMemoryOperand(o) THEN [o EXCEPT !.base = IF @ = RCX THEN r ELSE @,
                                       !.index = IF @ = RCX THEN r ELSE @]
  ELSE o

substRcx(o, r) ==
  IF isMemoryOperand(o) THEN [o EXCEPT !.base = IF @ = RCX THEN r ELSE @,
                                       !.index = IF @ = RCX THEN r ELSE @]
  ELSE IF o.reg = RCX THEN RegOp(r) ELSE o

(* SARX, SHLX and SHRX by the one register a shift count can be in.  The   *)
(* test of the index compares its scale instead, so it never holds.        *)
shiftByRegister(c, op, up) ==
  LET usesRcx == \E k \in 1 .. 3 : {c.operands[k].reg, c.operands[k].base}
                                   \cap {RCX, R32(RCX.n)} # {}
      wide(k) == RegOp(to64BitRegister(c.operands[k]))
      src == IF isMemoryOperand(c.operands[2]) THEN Operand(c, 2, FALSE) ELSE wide(2)
      start == pushf(c)
      subst == getUnusedReg(start)
      s(o) == IF usesRcx THEN substRcx(o, subst) ELSE o
      saved == IF usesRcx THEN mov(push(use(start, subst), subst), RegOp(subst), RegOp(RCX))
               ELSE start
      r == getUnusedReg(saved)
      load == mov(takeReg(saved, r), RegOp(IF src.width = 32 THEN R32(r.n) ELSE r), s(src))
      count == mov(push(load, RCX), RegOp(RCX), s(wide(3)))
      t == RegOp(IF c.opWidth = 64 THEN r ELSE R32(r.n))
      done == mov(op2(count, op, t, RegOp(RCX)), s(wide(1)), RegOp(r))
      shifted == giveBackReg(pop(done, RCX), r)
  IN  popf(IF usesRcx
           THEN returnReg(pop(mov(shifted, RegOp(RCX), RegOp(subst)), subst), subst)
           ELSE shifted)

-----------------------------------------------------------------------------
(* BLENDV takes its mask from XMM0.  xmm0operand counts the operands that  *)
(* are XMM0, it is not the position of one of them.                        *)
blendv(c, op, up) ==
  LET matches == {k \in 1 .. 4 : (isXmm(c.operands[k]) \/ isYmm(c.operands[k]))
                                 /\ c.operands[k].reg.n = 0}
      xmm0operand == Cardinality(matches)
      x0 == RegOp(Xmm(0))
      temp == getUnusedXmmReg(c)
      args == [Operands(c, up) EXCEPT ![xmm0operand] = RegOp(temp)]
      blend(d, dst, src) ==
        restoreXmmReg(op2(movups(preserveXmmReg(d, 0), x0, Operand(c, 4, up)), op, dst, src), 0)
      replaced(d) ==
        LET e == movups(d, RegOp(temp), Operand(c, xmm0operand, up))
            f == IF c.operands[1].reg = c.operands[2].reg THEN e ELSE movups(e, args[1], args[2])
            g == blend(f, args[1], args[3])
        IN  IF xmm0operand = 1 THEN movups(g, Operand(c, 1, up), args[1]) ELSE g
  IN  zeroIfXmm(IF matches = {} THEN blend(c, Operand(c, 1, up), Operand(c, 3, up))
                ELSE LET d == replaced(preserveXmmReg(use(c, temp), temp.n))
                     IN  returnReg(restoreXmmReg(d, temp.n), temp))

(* Half precision out of the bits of single precision, one field at a time.*)
VCVTPS2PH_implementation(c, up) ==
  LET output == Operand(c, 1, up)
      inputReg == getUnusedXmmReg(c)
      d == use(c, inputReg)
      tempReg == getUnusedXmmReg(d)
      input == RegOp(inputReg)
      temp == RegOp(tempReg)
      imm(n) == ImmOp(Sym("imm", n))
      field(h, q, mask, shift) ==
        LET masked == op2(MovConst(movups(h, temp, input), q, Sym(mask, 0)), "PAND", temp,
                          MemOp(q, INVALID, 0, 128))
        IN  op2(op2(masked, "PSRLD", temp, imm(shift)), "POR", output, temp)
      e == use(d, tempReg)
      r == getUnusedReg(e)
      start == op2(movups(takeReg(e, r), input, Operand(c, 2, up)), "XORPS", output, output)
      signed == field(start, r, "sign_mask_v", 16)
      scaled == field(field(signed, r, "exp_mask_v", 13), r, "exp_s_mask_v", 16)
      g == field(scaled, r, "fra_mask_v", 13)
      packed == op3(op3(g, "PSHUFHW", output, output, imm(248)), "PSHUFLW", output, output, imm(248))
      done == giveBackReg(op3(op2(packed, "XORPS", temp, temp), "SHUFPS", output, temp, imm(8)), r)
  IN  IF usesYmm(c) \/ isMemoryOperand(c.operands[1]) THEN Exit(c)
      ELSE zeroIfXmm(IF up THEN c
                     ELSE returnReg(returnReg(done, tempReg), inputReg))

(* VPERM2F128 has a compile of its own.  imm8 selects the low half of the  *)
(* result with bits 0, 1 and 3, the high half with bits 4, 5 and 7.        *)
VPERM2F128_compile(c, strategy) ==
  LET imm8 == immValue(c.operands[4])
      n(k) == c.operands[k].reg.n
      dst == RegOp(Xmm(n(1)))
      r == getUnusedXmmReg(c)
      t == RegOp(r)
      raised(d, k) == swap_out_upper_ymm(movups(swap_in_upper_ymm(d, {n(k)}), t, RegOp(Xmm(n(k)))), {n(k)})
      select(d, sel, none) ==
        CASE none     -> op2(d, "XORPS", t, t)
          [] ~none /\ sel = 0 -> movups(d, t, Operand(c, 2, FALSE))
          [] ~none /\ sel = 1 -> raised(d, 2)
          [] ~none /\ sel = 2 -> movups(d, t, Operand(c, 3, FALSE))
          [] ~none /\ sel = 3 /\ isMemoryOperand(c.operands[3]) -> movups(d, t, Operand(c, 3, TRUE))
          [] OTHER    -> raised(d, 3)
      permute(d) ==
        LET low == movups(select(d, imm8 % 4, (imm8 \div 8) % 2 = 1), dst, t)
            in == swap_in_upper_ymm(low, {n(1), r.n})
            high == select(in, (imm8 \div 16) % 4, imm8 \div 128 = 1)
        IN  swap_out_upper_ymm(movups(high, dst, t), {n(1), r.n})
      start == use([c EXCEPT !.rspOffset = StartOffset(strategy)], r)
  IN  returnReg(restoreXmmReg(permute(preserveXmmReg(start, r.n)), r.n), r)

-----------------------------------------------------------------------------
ClassOf(iclass) == CHOOSE x \in iclassMapping : x.iclass = iclass

implementationOf(x, c, up) ==
  CASE x.body = "three"            -> zeroIfXmm(three(c, x.op, up))
    [] x.body = "threeClearing"    -> clear(three(c, x.op, up))
    [] x.body = "threeImm"         -> zeroIfXmm(threeImm(c, x.op, up, immValue(c.operands[4])))
    [] x.body = "threeImmBy2"      -> zeroIfXmm(splitImm(c, x.op, up, 2))
    [] x.body = "threeImmBy4"      -> zeroIfXmm(splitImm(c, x.op, up, 4))
    [] x.body = "compare"          -> zeroIfXmm(compare(c, x.op, up))
    [] x.body = "ignoring"         -> zeroIfXmm(ignoring(c, x.op, up))
    [] x.body = "ignoringClearing" -> clear(ignoring(c, x.op, up))
    [] x.body = "copy"             -> zeroIfXmm(Plain(c, x.op, up))
    [] x.body = "copyClearing"     -> clear(Plain(c, x.op, up))
    [] x.body = "plain"            -> Plain(c, x.op, up)
    [] x.body = "plainXmm"         -> PlainXmm(c, x.op, up)
    [] x.body = "moveScalar"       -> zeroIfXmm(moveScalar(c, x.op, up))
    [] x.body = "moveHigh"         -> moveHigh(c, x.op, up)
    [] x.body = "blendv"           -> blendv(c, x.op, up)
    [] x.body = "shiftByRegister"  -> shiftByRegister(c, x.op, up)
    [] x.body = "ANDN"             -> ANDN_implementation(c, up)
    [] x.body = "BLSR"             -> BLSR_implementation(c, up)
    [] x.body = "VBROADCASTSS"     -> VBROADCASTSS_implementation(c, up)
    [] x.body = "VPBROADCASTB"     -> VPBROADCASTB_implementation(c, up)
    [] x.body = "VCVTPS2PH"        -> VCVTPS2PH_implementation(c, up)
    [] x.body = "VEXTRACTF128"     -> VEXTRACTF128_implementation(c, up)
    [] x.body = "VINSERTF128"      -> VINSERTF128_implementation(c, up)
    [] x.body = "VINSERTPS"        -> VINSERTPS_implementation(c, up)
    [] x.body = "VPERMILPS"        -> VPERMILPS_implementation(c, up)
    [] x.body = "VPMOVMSKB"        -> VPMOVMSKB_implementation(c, up)
    [] x.body = "VFMADD231PS"      -> VFMADD231PS_implementation(c, up)
    [] x.body = "VFMSUB231PS"      -> VFMSUB231PS_implementation(c, up)

Implementation(c, up) == implementationOf(ClassOf(c.iclass), c, up)

(* The lower half is compiled as it is, the upper half between the swaps   *)
(* of with_upper_ymm.                                                      *)
enterHalf(c, up) == IF up THEN swap_in_upper_ymm(c, YmmOperands(c)) ELSE c
leaveHalf(c, up) == IF up THEN swap_out_upper_ymm(c, YmmOperands(c)) ELSE c

compileHalf(c, up) == leaveHalf(Implementation(enterHalf(c, up), up), up)

compile(c, strategy) ==
  LET low == compileHalf([c EXCEPT !.rspOffset = StartOffset(strategy)], FALSE)
  IN  IF usesYmm(c) THEN compileHalf(low, TRUE) ELSE low

CompileInstruction(i, rip, strategy) ==
  LET c == Instruction(i, rip)
  IN  IF i.iclass = "VPERM2F128" THEN VPERM2F128_compile(c, strategy)
      ELSE compile(c, strategy)

===============================================================================
