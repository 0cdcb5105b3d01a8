------------------------------- MODULE RspProofs -------------------------------
(***************************************************************************)
(* For every block of supported instructions, and either strategy: at each *)
(* emitted instruction RSP is as far from the application's RSP as         *)
(* rspOffset says, whatever was pushed, borrowed and swapped in between,   *)
(* and after the block it is where the application left it.  If the block  *)
(* can address the memory it writes, then nothing else is written, and     *)
(* after the block every general register the block does not name as a     *)
(* destination holds what it held before.                                  *)
(***************************************************************************)
EXTENDS LoweringProofs

Memory == {"M8", "M16", "M32", "M64", "M128", "M256"}

(* o is an operand of that kind.                                           *)
Matches(o, kind) ==
  \/ kind = "X" /\ o = RegOp(Xmm(o.reg.n))
  \/ kind = "Y" /\ o = RegOp(Ymm(o.reg.n))
  \/ kind = "R32" /\ o = RegOp(R32(o.reg.n))
  \/ kind = "R64" /\ o = RegOp(R64(o.reg.n))
  \/ kind = "I" /\ o = ImmOp(o.imm)
  \/ kind \in Memory /\ o = MemOp(o.base, o.index, o.disp, o.width)

(* decodeInstructions takes AND in any form.                               *)
OtherAnds == {<<"R32", "I">>, <<"R64", "I">>, <<"M32", "R32">>, <<"M64", "R64">>,
              <<"M32", "I">>, <<"M64", "I">>}

Conforms(i, forms) ==
  \E f \in forms : /\ Len(i.operands) = Len(f)
                   /\ \A k \in 1 .. Len(f) : Matches(i.operands[k], f[k])

(* An instruction the compiler supports, with operands its Metadata lists; *)
(* its destination is not RSP or ESP: AND RSP, imm moves RSP for good.     *)
Supported(i) ==
  LET x == ClassOf(i.iclass)
  IN  /\ \E y \in iclassMapping : y.iclass = i.iclass
      /\ Conforms(i, IF x = AND THEN x.forms \cup OtherAnds ELSE x.forms)
      /\ i.operands[1].reg \notin {RSP, R32(RSP.n)}

SupportedBlocks(blocks) ==
  \A b \in blocks : Len(b) \in Nat /\ \A j \in 1 .. Len(b) : Supported(b[j])

-----------------------------------------------------------------------------
(***************************************************************************)
(* The classes.                                                            *)
(***************************************************************************)

(* What the operand forms of a class have in common: the number of their   *)
(* operands, and what is written.                                          *)
Destined(forms, kinds) == \A f \in forms : Len(f) \in 1 .. 4 /\ f[1] \in kinds
Overwritten(forms) == \A f \in forms : Len(f) \in 2 .. 4 /\ {f[1], f[2]} \subseteq {"X", "Y"}
AnyKind == {"X", "Y", "R32", "R64"} \cup Memory
VectorKind == {"X", "Y"}
RegisterKind == {"R32", "R64"}
GeneralKind == RegisterKind \cup Memory
Moved(forms) ==
  /\ Destined(forms, AnyKind)
  /\ \A f \in forms : Len(f) \in 2 .. 4 /\ (Len(f) # 2 => {f[1], f[2]} \subseteq {"X", "Y"})

Bodies == [two |-> {"three", "threeClearing", "threeImm", "threeImmBy2", "threeImmBy4", "compare",
                    "ignoring", "ignoringClearing"},
           one |-> {"copy", "copyClearing", "plain", "plainXmm"},
           own |-> {"blendv", "VBROADCASTSS", "VPBROADCASTB", "VCVTPS2PH", "VINSERTF128",
                    "VPERMILPS", "VFMADD231PS", "VFMSUB231PS"},
           general |-> {"ANDN", "BLSR", "VPMOVMSKB"}]

(* A class has a body that suits its instruction and its forms.            *)
Suits(x) ==
  \/ x.body \in Bodies.two /\ Vector(x.op) /\ Overwritten(x.forms)
  \/ x.body \in Bodies.one /\ Vector(x.op) /\ Destined(x.forms, AnyKind)
  \/ x.body \in Bodies.own /\ Vector(x.op) /\ Destined(x.forms, VectorKind)
  \/ x.body = "VEXTRACTF128" /\ Destined(x.forms, AnyKind)
  \/ x.body \in Bodies.general /\ Destined(x.forms, RegisterKind)
  \/ x.body = "shiftByRegister" /\ x.op \notin Special /\ x.iclass \in Shifts /\ x.forms = IntegerShift
  \/ x.body = "VINSERTPS" /\ Overwritten(x.forms)
  \/ x.body \in {"moveScalar", "moveHigh"} /\ Vector(x.op) /\ Moved(x.forms)
  \/ x = AND
  \/ x.body = "VPERM2F128" /\ x.iclass = "VPERM2F128" /\ Destined(x.forms, AnyKind)

LEMMA ClassSuits ==
  ASSUME NEW iclass, NEW op, NEW forms, NEW body
  PROVE  /\ body \in Bodies.two /\ Vector(op) /\ Overwritten(forms)
              => Suits(Class(iclass, op, forms, body))
         /\ body \in Bodies.one /\ Vector(op) /\ Destined(forms, AnyKind)
              => Suits(Class(iclass, op, forms, body))
         /\ body \in Bodies.own /\ Vector(op) /\ Destined(forms, VectorKind)
              => Suits(Class(iclass, op, forms, body))
         /\ body = "VEXTRACTF128" /\ Destined(forms, AnyKind)
              => Suits(Class(iclass, op, forms, body))
         /\ body \in Bodies.general /\ Destined(forms, RegisterKind)
              => Suits(Class(iclass, op, forms, body))
         /\ body = "shiftByRegister" /\ op \notin Special /\ iclass \in Shifts /\ forms = IntegerShift
              => Suits(Class(iclass, op, forms, body))
         /\ body = "VINSERTPS" /\ Overwritten(forms) => Suits(Class(iclass, op, forms, body))
         /\ body \in {"moveScalar", "moveHigh"} /\ Vector(op) /\ Moved(forms)
              => Suits(Class(iclass, op, forms, body))
         /\ body = "VPERM2F128" /\ iclass = "VPERM2F128" /\ Destined(forms, AnyKind)
              => Suits(Class(iclass, op, forms, body))
<1> DEFINE x == Class(iclass, op, forms, body)
<1>1. x.iclass = iclass /\ x.op = op /\ x.forms = forms /\ x.body = body
  BY DEF Class
<1> HIDE DEF x
<1>2. /\ body \in Bodies.two /\ Vector(op) /\ Overwritten(forms) => Suits(x)
      /\ body \in Bodies.one /\ Vector(op) /\ Destined(forms, AnyKind) => Suits(x)
      /\ body \in Bodies.own /\ Vector(op) /\ Destined(forms, VectorKind) => Suits(x)
      /\ body \in Bodies.general /\ Destined(forms, RegisterKind) => Suits(x)
      /\ body = "VEXTRACTF128" /\ Destined(forms, AnyKind) => Suits(x)
      /\ body = "shiftByRegister" /\ op \notin Special /\ iclass \in Shifts /\ forms = IntegerShift
           => Suits(x)
  BY <1>1 DEF Suits
<1>3. /\ body = "VINSERTPS" /\ Overwritten(forms) => Suits(x)
      /\ body \in {"moveScalar", "moveHigh"} /\ Vector(op) /\ Moved(forms) => Suits(x)
      /\ body = "VPERM2F128" /\ iclass = "VPERM2F128" /\ Destined(forms, AnyKind) => Suits(x)
  BY <1>1 DEF Suits
<1>4. QED BY <1>2, <1>3 DEF x

LEMMA BodyKinds ==
  /\ \A b \in {"three", "threeClearing", "threeImm", "threeImmBy2", "threeImmBy4", "compare",
               "ignoring", "ignoringClearing"} : b \in Bodies.two
  /\ \A b \in {"copy", "copyClearing", "plain", "plainXmm"} : b \in Bodies.one
  /\ \A b \in {"blendv", "VBROADCASTSS", "VPBROADCASTB", "VCVTPS2PH", "VINSERTF128",
               "VPERMILPS", "VFMADD231PS", "VFMSUB231PS"} : b \in Bodies.own
  /\ \A b \in {"ANDN", "BLSR", "VPMOVMSKB"} : b \in Bodies.general
BY DEF Bodies

(* The forms that several classes have.                                    *)
LEMMA AppendForm ==
  ASSUME NEW a, NEW b, NEW c, NEW x
  PROVE  /\ Len(Append(<<a, b, c>>, x)) = 4
         /\ Append(<<a, b, c>>, x)[1] = a /\ Append(<<a, b, c>>, x)[2] = b
OBVIOUS

LEMMA AppendForm2 ==
  ASSUME NEW a, NEW b, NEW x
  PROVE  /\ Len(Append(<<a, b>>, x)) = 3
         /\ Append(<<a, b>>, x)[1] = a /\ Append(<<a, b>>, x)[2] = b
OBVIOUS

LEMMA PackedForms ==
  /\ Overwritten(Packed) /\ Overwritten(PackedImm) /\ Overwritten(PackedMask)
  /\ Overwritten(Scalar64) /\ Overwritten(Scalar32) /\ Overwritten(Shift) /\ Overwritten(FromInteger)
<1>1. \A a \in {"X", "Y"} : \A c, x : /\ Len(<<a, a, c>>) \in 2 .. 4
                                     /\ <<a, a, c>>[1] = a /\ <<a, a, c>>[2] = a
                                     /\ Len(Append(<<a, a, c>>, x)) \in 2 .. 4
                                     /\ Append(<<a, a, c>>, x)[1] = a
                                     /\ Append(<<a, a, c>>, x)[2] = a
  BY AppendForm
<1>2. Overwritten(Packed) /\ Overwritten(Scalar64) /\ Overwritten(Scalar32)
  BY <1>1 DEF Overwritten, Packed, Scalar64, Scalar32
<1>3. Overwritten(PackedImm) /\ Overwritten(PackedMask)
  <2>1. \A f \in Packed : \E a \in {"X", "Y"} : \E c : f = <<a, a, c>>
    BY DEF Packed
  <2>2. \A g \in PackedImm \cup PackedMask :
          \E a \in {"X", "Y"} : \E c, x : g = Append(<<a, a, c>>, x)
    BY <2>1 DEF PackedImm, PackedMask
  <2>3. \A g \in PackedImm \cup PackedMask : Len(g) \in 2 .. 4 /\ {g[1], g[2]} \subseteq {"X", "Y"}
    <3>1. TAKE g \in PackedImm \cup PackedMask
    <3>2. PICK a \in {"X", "Y"} : \E c, x : g = Append(<<a, a, c>>, x)
      BY <2>2
    <3>3. PICK c, x : g = Append(<<a, a, c>>, x)
      BY <3>2
    <3> DEFINE h == Append(<<a, a, c>>, x)
    <3>4. Len(h) \in 2 .. 4 /\ h[1] = a /\ h[2] = a /\ a \in {"X", "Y"} /\ g = h
      BY <1>1, <3>3
    <3> HIDE DEF h
    <3>5. QED BY <3>4
  <2>4. QED BY <2>3 DEF Overwritten
<1>4. Overwritten(Shift) /\ Overwritten(FromInteger)
  BY <1>1 DEF Overwritten, Shift, FromInteger
<1>5. QED BY <1>2, <1>3, <1>4

LEMMA OverwrittenDestined ==
  \A forms : Overwritten(forms) => Destined(forms, VectorKind) /\ Destined(forms, AnyKind)
BY DEF Overwritten, Destined, AnyKind, VectorKind

LEMMA MoveForms ==
  /\ Destined(Copy, AnyKind) /\ Destined(Load, AnyKind) /\ Destined(Spill, AnyKind)
  /\ Destined(Round, AnyKind)
  /\ \A mem : Destined(ToInteger(mem), AnyKind)
  /\ \A reg \in AnyKind, mem \in AnyKind : Destined(Transfer(reg, mem), AnyKind)
<1>1. \A a, b, x : /\ Len(<<a, b>>) \in 1 .. 4 /\ <<a, b>>[1] = a
                   /\ Len(Append(<<a, b>>, x)) \in 1 .. 4 /\ Append(<<a, b>>, x)[1] = a
  BY AppendForm2
<1>2. {"X", "Y", "R32", "R64", "M128", "M256"} \subseteq AnyKind
  BY DEF AnyKind, Memory
<1>3. Destined(Copy, AnyKind) /\ Destined(Load, AnyKind) /\ Destined(Spill, AnyKind)
  BY <1>1, <1>2 DEF Destined, Copy, Load, Spill
<1>4. Destined(Round, AnyKind)
  <2>1. \A f \in Copy \cup Load : \E a \in AnyKind : \E b : f = <<a, b>>
    BY <1>2 DEF Copy, Load
  <2>2. \A g \in Round : \E a \in AnyKind : \E b : g = Append(<<a, b>>, "I")
    <3>1. TAKE g \in Round
    <3>2. PICK f \in Copy \cup Load : g = Append(f, "I")
      BY DEF Round
    <3>3. PICK a, b : a \in AnyKind /\ f = <<a, b>>
      BY <2>1, <3>2
    <3>4. QED BY <3>2, <3>3
  <2>3. \A g \in Round : Len(g) \in 1 .. 4 /\ g[1] \in AnyKind
    <3>1. TAKE g \in Round
    <3>2. PICK a, b : a \in AnyKind /\ g = Append(<<a, b>>, "I")
      BY <2>2
    <3>3. QED BY <1>1, <3>2
  <2>4. QED BY <2>3 DEF Destined
<1>5. \A mem : Destined(ToInteger(mem), AnyKind)
  BY <1>1, <1>2 DEF Destined, ToInteger
<1>6. \A reg \in AnyKind, mem \in AnyKind : Destined(Transfer(reg, mem), AnyKind)
  BY <1>1, <1>2 DEF Destined, Transfer
<1>7. QED BY <1>3, <1>4, <1>5, <1>6

LEMMA IntegerForms ==
  /\ Destined(Integer2, RegisterKind) /\ Destined(IntegerNot, RegisterKind)
  /\ Destined(IntegerShift, RegisterKind)
<1>1. \A w \in Widths : w[1] \in RegisterKind
  BY DEF Widths, RegisterKind
<1>2. \A a, b, c : /\ Len(<<a, b>>) \in 1 .. 4 /\ <<a, b>>[1] = a
                   /\ Len(<<a, b, c>>) \in 1 .. 4 /\ <<a, b, c>>[1] = a
  OBVIOUS
<1>3. QED BY <1>1, <1>2 DEF Destined, Integer2, IntegerNot, IntegerShift

(* The instructions that classes emit neither push nor pop, nor compute with   *)
(* general registers, but for those of BMI.                                *)
LEMMA ClassOps ==
  /\ \A op \in {
       "ADDPD", "ADDPS", "ADDSD", "ADDSS", "ANDNPD", "ANDNPS", "ANDPD", "ANDPS", "BLENDPD",
       "BLENDPS", "BLENDVPD", "BLENDVPS", "CMPPD", "CMPPS", "CMPSD", "COMISD", "COMISS",
       "CVTSD2SS", "CVTSI2SD", "CVTSS2SD", "CVTTPS2DQ", "CVTTSD2SI", "CVTTSS2SI", "DIVSD",
       "DIVSS", "DPPD", "DPPS", "EXTRACTPS", "HADDPD", "HADDPS", "LDMXCSR", "MAXSD", "MAXSS",
       "MINSD", "MINSS", "MOVAPD", "MOVAPS", "MOVD", "MOVDQA", "MOVDQU", "MOVHPD", "MOVHPS",
       "MOVLHPS", "MOVMSKPD", "MOVMSKPS", "MOVQ", "MOVSD", "MOVSS", "MOVUPD", "MOVUPS",
       "MULPD", "MULPS", "MULSD", "MULSS", "ORPD", "ORPS", "PADDB", "PADDD", "PADDQ", "PADDW",
       "PAND", "PANDN", "PCMPEQB", "PCMPEQD", "PCMPEQQ", "PCMPEQW", "PCMPGTB", "PCMPGTD",
       "PCMPGTQ", "PCMPGTW", "PEXTRB", "PEXTRD", "PEXTRQ", "PEXTRW", "PINSRB", "PINSRD",
       "PINSRQ", "PSHUFB", "PSIGNB", "PSIGND", "PSIGNW", "PSLLQ", "PSRLDQ", "PSRLQ", "PSUBB",
       "PSUBD", "PSUBQ", "PSUBW", "PTEST", "PXOR", "RCPPS", "ROUNDPD", "ROUNDPS", "RSQRTPS",
       "RSQRTSS", "SHUFPD", "SHUFPS", "SQRTPD", "SQRTPS", "STMXCSR", "SUBPD", "SUBPS", "SUBSD",
       "SUBSS", "UCOMISD", "UCOMISS", "UNPCKHPS", "UNPCKLPS", "XORPD", "XORPS"} : Vector(op)
  /\ \A op \in {"BROADCASTSS", "PBROADCASTB", "CVTPS2PH", "INSERTF128", "PERMILPS", "FMADD231PS",
                "FMSUB231PS"} : Vector(op)
  /\ \A op \in {"SAR", "SHL", "SHR"} : op \notin Special
BY DEF Vector, Special, Pushes, Pops, Integer, Alu

(* The forms that one class has, or two.                                   *)
LEMMA ListedOverwritten ==
  /\ Overwritten({<<"X", "X", "M64", "I">>, <<"X", "X", "X", "I">>})
  /\ Overwritten({<<"X", "X", "X", "I">>, <<"X", "X", "M128", "I">>})
  /\ Overwritten({<<"X", "X", "X">>})
  /\ Overwritten({<<"X", "X", "R32", "I">>, <<"X", "X", "M8", "I">>})
  /\ Overwritten({<<"X", "X", "R32", "I">>, <<"X", "X", "M32", "I">>})
  /\ Overwritten({<<"X", "X", "R64", "I">>, <<"X", "X", "M64", "I">>})
  /\ Overwritten({<<"X", "X", "I">>, <<"Y", "Y", "I">>})
  /\ Overwritten({<<"X", "X", "X", "I">>, <<"X", "X", "M32", "I">>})
BY DEF Overwritten

LEMMA ListedDestined ==
  /\ Destined({<<"X", "M64">>, <<"X", "X">>}, AnyKind)
  /\ Destined({<<"X", "M32">>, <<"X", "X">>}, AnyKind)
  /\ Destined({<<"R32", "X", "I">>, <<"M32", "X", "I">>}, AnyKind)
  /\ Destined({<<"M32">>}, AnyKind)
  /\ Destined({<<"R32", "X">>}, AnyKind)
  /\ Destined({<<"M8", "X", "I">>}, AnyKind)
  /\ Destined({<<"R64", "X", "I">>, <<"M64", "X", "I">>}, AnyKind)
  /\ Destined({<<"M16", "X", "I">>}, AnyKind)
  /\ Destined({<<"X", "M32">>, <<"Y", "M32">>, <<"X", "X">>, <<"Y", "X">>}, VectorKind)
  /\ Destined({<<"X", "X", "I">>}, VectorKind)
  /\ Destined({<<"X", "Y", "I">>, <<"M128", "Y", "I">>}, AnyKind)
  /\ Destined({<<"Y", "Y", "X", "I">>, <<"Y", "Y", "M128", "I">>}, VectorKind)
  /\ Destined({<<"X", "M8">>, <<"X", "X">>, <<"Y", "M8">>, <<"Y", "X">>}, VectorKind)
  /\ Destined({<<"X", "X", "I">>, <<"Y", "Y", "I">>}, VectorKind)
  /\ Destined({<<"Y", "Y", "Y", "I">>, <<"Y", "Y", "M256", "I">>}, AnyKind)
BY DEF Destined, AnyKind, VectorKind, Memory

LEMMA ListedMoved ==
  /\ Moved({<<"X", "X", "M64">>, <<"M64", "X">>})
  /\ Moved({<<"X", "X", "X">>, <<"X", "M64">>, <<"M64", "X">>})
  /\ Moved({<<"X", "X", "X">>, <<"X", "M32">>, <<"M32", "X">>})
BY DEF Moved, Destined, AnyKind, Memory

LEMMA ListedGeneral ==
  /\ Destined({<<"R32", "X">>, <<"R32", "Y">>}, RegisterKind)
BY DEF Destined, RegisterKind

LEMMA CopyForms ==
  /\ Destined(PackedMask, VectorKind)
  /\ Destined(Load \cup Copy, AnyKind)
  /\ Destined(ToInteger("M64"), AnyKind)
  /\ Destined(ToInteger("M32"), AnyKind)
  /\ Destined(Load \cup Copy \cup Spill, AnyKind)
  /\ Destined(Transfer("R32", "M32"), AnyKind)
  /\ Destined(Transfer("R64", "M64"), AnyKind)
  /\ Destined(Load \cup Spill, AnyKind)
  /\ Destined(Round, AnyKind)
<1>1. {"R32", "R64", "M32", "M64"} \subseteq AnyKind
  BY DEF AnyKind, Memory
<1>2. \A F, G : Destined(F, AnyKind) /\ Destined(G, AnyKind) => Destined(F \cup G, AnyKind)
  BY DEF Destined
<1>3. QED BY <1>1, <1>2, MoveForms, PackedForms, OverwrittenDestined

(* One class after the other.                                              *)
LEMMA OverwritingClasses1 ==
  /\ Suits(VADDPD) /\ Suits(VADDPS) /\ Suits(VADDSD) /\ Suits(VADDSS) /\ Suits(VANDNPD)
  /\ Suits(VANDNPS) /\ Suits(VANDPD) /\ Suits(VANDPS) /\ Suits(VBLENDPD) /\ Suits(VBLENDPS)
  /\ Suits(VCMPPD) /\ Suits(VCMPPS)
BY ClassSuits, BodyKinds, ClassOps, PackedForms
  DEF VADDPD, VADDPS, VADDSD, VADDSS, VANDNPD, VANDNPS, VANDPD, VANDPS, VBLENDPD, VBLENDPS,
      VCMPPD, VCMPPS

LEMMA OverwritingClasses2 ==
  /\ Suits(VCVTSD2SS) /\ Suits(VCVTSI2SD) /\ Suits(VCVTSI2SS) /\ Suits(VCVTSS2SD)
  /\ Suits(VDIVSD) /\ Suits(VDIVSS) /\ Suits(VDPPS) /\ Suits(VHADDPD) /\ Suits(VHADDPS)
  /\ Suits(VMAXSD) /\ Suits(VMAXSS) /\ Suits(VMINSD)
BY ClassSuits, BodyKinds, ClassOps, PackedForms
  DEF VCVTSD2SS, VCVTSI2SD, VCVTSI2SS, VCVTSS2SD, VDIVSD, VDIVSS, VDPPS, VHADDPD, VHADDPS,
      VMAXSD, VMAXSS, VMINSD

LEMMA OverwritingClasses3 ==
  /\ Suits(VMINSS) /\ Suits(VMULPD) /\ Suits(VMULPS) /\ Suits(VMULSD) /\ Suits(VMULSS)
  /\ Suits(VORPD) /\ Suits(VORPS) /\ Suits(VPADDB) /\ Suits(VPADDD) /\ Suits(VPADDQ)
  /\ Suits(VPADDW) /\ Suits(VPAND)
BY ClassSuits, BodyKinds, ClassOps, PackedForms
  DEF VMINSS, VMULPD, VMULPS, VMULSD, VMULSS, VORPD, VORPS, VPADDB, VPADDD, VPADDQ, VPADDW,
      VPAND

LEMMA OverwritingClasses4 ==
  /\ Suits(VPANDN) /\ Suits(VPCMPEQB) /\ Suits(VPCMPEQD) /\ Suits(VPCMPEQQ) /\ Suits(VPCMPEQW)
  /\ Suits(VPCMPGTB) /\ Suits(VPCMPGTD) /\ Suits(VPCMPGTQ) /\ Suits(VPCMPGTW) /\ Suits(VPSHUFB)
  /\ Suits(VPSIGNB) /\ Suits(VPSIGND)
BY ClassSuits, BodyKinds, ClassOps, PackedForms
  DEF VPANDN, VPCMPEQB, VPCMPEQD, VPCMPEQQ, VPCMPEQW, VPCMPGTB, VPCMPGTD, VPCMPGTQ, VPCMPGTW,
      VPSHUFB, VPSIGNB, VPSIGND

LEMMA OverwritingClasses5 ==
  /\ Suits(VPSIGNW) /\ Suits(VPSLLQ) /\ Suits(VPSRLQ) /\ Suits(VPSUBB) /\ Suits(VPSUBD)
  /\ Suits(VPSUBQ) /\ Suits(VPSUBW) /\ Suits(VPXOR) /\ Suits(VRSQRTSS) /\ Suits(VSHUFPD)
  /\ Suits(VSHUFPS) /\ Suits(VSUBPD)
BY ClassSuits, BodyKinds, ClassOps, PackedForms
  DEF VPSIGNW, VPSLLQ, VPSRLQ, VPSUBB, VPSUBD, VPSUBQ, VPSUBW, VPXOR, VRSQRTSS, VSHUFPD,
      VSHUFPS, VSUBPD

LEMMA OverwritingClasses6 ==
  /\ Suits(VSUBPS) /\ Suits(VSUBSD) /\ Suits(VSUBSS) /\ Suits(VUNPCKHPS) /\ Suits(VUNPCKLPS)
  /\ Suits(VXORPD) /\ Suits(VXORPS)
BY ClassSuits, BodyKinds, ClassOps, PackedForms
  DEF VSUBPS, VSUBSD, VSUBSS, VUNPCKHPS, VUNPCKLPS, VXORPD, VXORPS

LEMMA ListedClasses ==
  /\ Suits(VCMPSD) /\ Suits(VDPPD) /\ Suits(VMOVLHPS) /\ Suits(VPINSRB) /\ Suits(VPINSRD)
  /\ Suits(VPINSRQ) /\ Suits(VPSRLDQ) /\ Suits(VINSERTPS)
BY ClassSuits, BodyKinds, ClassOps, ListedOverwritten
  DEF VCMPSD, VDPPD, VMOVLHPS, VPINSRB, VPINSRD, VPINSRQ, VPSRLDQ, VINSERTPS

LEMMA MovingClasses1 ==
  /\ Suits(VCOMISD) /\ Suits(VCOMISS) /\ Suits(VEXTRACTPS) /\ Suits(VLDMXCSR)
  /\ Suits(VMOVMSKPD) /\ Suits(VMOVMSKPS) /\ Suits(VPEXTRB) /\ Suits(VPEXTRD) /\ Suits(VPEXTRQ)
  /\ Suits(VPEXTRW) /\ Suits(VSTMXCSR) /\ Suits(VUCOMISD)
BY ClassSuits, BodyKinds, ClassOps, ListedDestined
  DEF VCOMISD, VCOMISS, VEXTRACTPS, VLDMXCSR, VMOVMSKPD, VMOVMSKPS, VPEXTRB, VPEXTRD, VPEXTRQ,
      VPEXTRW, VSTMXCSR, VUCOMISD

LEMMA MovingClasses2 ==
  /\ Suits(VUCOMISS)
BY ClassSuits, BodyKinds, ClassOps, ListedDestined
  DEF VUCOMISS

LEMMA CopyingClasses1 ==
  /\ Suits(VBLENDVPD) /\ Suits(VBLENDVPS) /\ Suits(VCVTTPS2DQ) /\ Suits(VCVTTSD2SI)
  /\ Suits(VCVTTSS2SI) /\ Suits(VMOVAPD) /\ Suits(VMOVAPS) /\ Suits(VMOVD) /\ Suits(VMOVDQA)
  /\ Suits(VMOVDQU) /\ Suits(VMOVQ) /\ Suits(VMOVUPD)
BY ClassSuits, BodyKinds, ClassOps, CopyForms
  DEF VBLENDVPD, VBLENDVPS, VCVTTPS2DQ, VCVTTSD2SI, VCVTTSS2SI, VMOVAPD, VMOVAPS, VMOVD,
      VMOVDQA, VMOVDQU, VMOVQ, VMOVUPD

LEMMA CopyingClasses2 ==
  /\ Suits(VMOVUPS) /\ Suits(VPTEST) /\ Suits(VRCPPS) /\ Suits(VROUNDPD) /\ Suits(VROUNDPS)
  /\ Suits(VRSQRTPS) /\ Suits(VSQRTPD) /\ Suits(VSQRTPS)
BY ClassSuits, BodyKinds, ClassOps, CopyForms
  DEF VMOVUPS, VPTEST, VRCPPS, VROUNDPD, VROUNDPS, VRSQRTPS, VSQRTPD, VSQRTPS

LEMMA OwnClasses ==
  /\ Suits(VBROADCASTSS) /\ Suits(VCVTPS2PH) /\ Suits(VEXTRACTF128) /\ Suits(VFMADD231PS)
  /\ Suits(VFMSUB231PS) /\ Suits(VINSERTF128) /\ Suits(VPBROADCASTB) /\ Suits(VPERMILPS)
  /\ Suits(VPERM2F128)
BY ClassSuits, BodyKinds, ClassOps, ListedDestined, PackedForms, OverwrittenDestined
  DEF VBROADCASTSS, VCVTPS2PH, VEXTRACTF128, VFMADD231PS, VFMSUB231PS, VINSERTF128,
      VPBROADCASTB, VPERMILPS, VPERM2F128

LEMMA ScalarClasses ==
  /\ Suits(VMOVHPD) /\ Suits(VMOVHPS) /\ Suits(VMOVSD) /\ Suits(VMOVSS)
BY ClassSuits, BodyKinds, ClassOps, ListedMoved
  DEF VMOVHPD, VMOVHPS, VMOVSD, VMOVSS

LEMMA GeneralClasses ==
  /\ Suits(ANDN) /\ Suits(BLSR) /\ Suits(SARX) /\ Suits(SHLX) /\ Suits(SHRX)
  /\ Suits(VPMOVMSKB)
BY ClassSuits, BodyKinds, ClassOps, IntegerForms, ListedGeneral
  DEF ANDN, BLSR, SARX, SHLX, SHRX, VPMOVMSKB, Shifts

LEMMA EveryClassSuits == \A x \in iclassMapping : Suits(x)
<1>1. Suits(AND)
  BY DEF Suits
<1>2. QED
  BY <1>1, OverwritingClasses1, OverwritingClasses2, OverwritingClasses3, OverwritingClasses4,
     OverwritingClasses5, OverwritingClasses6, ListedClasses, MovingClasses1, MovingClasses2,
     CopyingClasses1, CopyingClasses2, OwnClasses, ScalarClasses, GeneralClasses
  DEF iclassMapping


-----------------------------------------------------------------------------
(***************************************************************************)
(* A supported instruction.                                                *)
(***************************************************************************)

(* The destination of an instruction when its compilation begins: memory   *)
(* that may be written, or a register of which nothing is known.           *)
Fits(S, i) ==
  LET o == i.operands[1]
  IN  S.sure => IF isMemoryOperand(o)
                THEN /\ o.width \in {8, 16, 32, 64, 128, 256}
                     /\ \A up : Target(S, i, toEncoderOperand(o, up))
                ELSE isXmm(o) \/ isYmm(o) \/ Bare(S, o.reg.n)

LEMMA MatchesKinds ==
  ASSUME NEW o, NEW kind, Matches(o, kind)
  PROVE  /\ IsOperand(o)
         /\ kind \in VectorKind => Safe(o)
         /\ kind \in RegisterKind => ~isMemoryOperand(o) /\ o.reg \in {R32(o.reg.n), R64(o.reg.n)}
         /\ kind \in Memory => o = MemOp(o.base, o.index, o.disp, o.width)
<1>1. IsOperand(o)
  BY DEF Matches, IsOperand
<1>2. ASSUME kind \in VectorKind PROVE Safe(o)
  <2>1. kind = "X" => o = RegOp(Xmm(o.reg.n))
    BY DEF Matches, Memory
  <2>2. kind = "Y" => o = RegOp(Ymm(o.reg.n))
    BY DEF Matches, Memory
  <2>3. \E r \in {Xmm(o.reg.n), Ymm(o.reg.n)} : o = RegOp(r)
    BY <1>2, <2>1, <2>2 DEF VectorKind
  <2>4. o.reg \in {Xmm(o.reg.n), Ymm(o.reg.n)} /\ ~isMemoryOperand(o)
    BY <2>3, RegOpReg
  <2>5. isXmm(o) \/ isYmm(o)
    BY <2>4 DEF isXmm, isYmm, Xmm, Ymm, Reg
  <2>6. QED BY <1>1, <2>4, <2>5 DEF Safe
<1>3. ASSUME kind \in RegisterKind
      PROVE  ~isMemoryOperand(o) /\ o.reg \in {R32(o.reg.n), R64(o.reg.n)}
  <2>1. kind = "R32" => o = RegOp(R32(o.reg.n))
    BY DEF Matches, Memory
  <2>2. kind = "R64" => o = RegOp(R64(o.reg.n))
    BY DEF Matches, Memory
  <2>3. \E r \in {R32(o.reg.n), R64(o.reg.n)} : o = RegOp(r)
    BY <1>3, <2>1, <2>2 DEF RegisterKind
  <2>4. QED BY <2>3, RegOpReg
<1>4. kind \in Memory => o = MemOp(o.base, o.index, o.disp, o.width)
  BY DEF Matches, Memory
<1>5. QED BY <1>1, <1>2, <1>3, <1>4

LEMMA MemOpFields ==
  \A base, index, d, w : LET o == MemOp(base, index, d, w)
                         IN  /\ o.base = base /\ o.index = index /\ o.disp = d /\ o.width = w
                             /\ isMemoryOperand(o) /\ o.reg = INVALID /\ o.kind = "mem"
BY DEF MemOp, isMemoryOperand

(* A memory operand of one half.                                           *)
HalfDisp(d, up) == IF up THEN d + 16 ELSE d
HalfWidth(w) == IF w = 256 THEN 128 ELSE w

LEMMA HalfOfMemory ==
  ASSUME NEW base, NEW index, NEW d, NEW w, NEW o, o = MemOp(base, index, d, w), NEW up
  PROVE  /\ toEncoderOperand(o, up) = MemOp(base, index, HalfDisp(d, up), HalfWidth(w))
         /\ isMemoryOperand(o) /\ o.reg = INVALID
<1> DEFINE disp == HalfDisp(d, up)
           width == HalfWidth(w)
           p == toEncoderOperand(o, up)
<1>1. isMemoryOperand(o) /\ o.reg = INVALID /\ o.disp = d /\ o.width = w
  BY MemOpFields
<1>2. ~isXmm(o) /\ ~isYmm(o)
  BY <1>1 DEF isXmm, isYmm, INVALID, Reg
<1>3. p = [o EXCEPT !.disp = disp, !.width = width]
  <2>1. p = [o EXCEPT !.disp = IF up THEN @ + 16 ELSE @, !.width = IF @ = 256 THEN 128 ELSE @]
    BY <1>1, <1>2 DEF toEncoderOperand
  <2>2. disp = (IF up THEN o.disp + 16 ELSE o.disp) /\ width = IF o.width = 256 THEN 128 ELSE o.width
    BY <1>1 DEF HalfDisp, HalfWidth
  <2> HIDE DEF disp, width, p
  <2>3. QED BY <2>1, <2>2
<1> HIDE DEF disp, width, p
<1>4. p = MemOp(base, index, disp, width)
  BY <1>3 DEF MemOp
<1>5. QED BY <1>1, <1>4 DEF disp, width, p

LEMMA FittingReady ==
  ASSUME NEW i, NEW S, Fits(S, i), NEW kind \in AnyKind, Matches(i.operands[1], kind),
         i.operands[1].reg \notin {RSP, R32(RSP.n)}
  PROVE  /\ \A op, up : Vector(op) => Ready(S, i, op, up)
         /\ kind \in GeneralKind => \A up : Ready(S, i, "AND", up)
         /\ kind \in RegisterKind => General(S, i.operands[1])
<1> DEFINE o == i.operands[1]
<1>1. "AND" \notin Special /\ "AND" # "MOV" /\ \A op : Vector(op) => op \notin Special \cup Integer /\ op # "MOV"
  BY DEF Special, Pushes, Pops, Vector, Integer
<1>2. CASE kind \in VectorKind
  <2>1. Safe(o)
    BY <1>2, MatchesKinds
  <2>2. kind \notin GeneralKind /\ kind \notin RegisterKind
    BY <1>2 DEF VectorKind, GeneralKind, RegisterKind, Memory
  <2>3. QED BY <2>1, <2>2, SafeReady
<1>3. CASE kind \in RegisterKind
  <2>1. ~isMemoryOperand(o) /\ o.reg \in {R32(o.reg.n), R64(o.reg.n)} /\ IsOperand(o)
    BY <1>3, MatchesKinds
  <2>2. ~isXmm(o) /\ ~isYmm(o)
    BY <2>1 DEF isXmm, isYmm, R32, R64, Reg
  <2>3. RSP = R64(RSP.n)
    BY DEF RSP, R64, Reg
  <2>4. o.reg.n # RSP.n
    BY <2>1, <2>3
  <2>5. Bare(S, o.reg.n)
    BY <2>1, <2>2 DEF Fits, Bare
  <2>6. General(S, o)
    BY <2>1, <2>2, <2>4, <2>5 DEF General
  <2>7. \A op, up : op \notin Special => Ready(S, i, op, up)
    BY <2>6, GeneralWritable DEF Ready
  <2>8. QED BY <1>1, <2>6, <2>7
<1>4. CASE kind \in Memory
  <2>1. PICK base, index, d, w : o = MemOp(base, index, d, w)
    BY <1>4, MatchesKinds
  <2>2. isMemoryOperand(o) /\ o.width = w
    BY <2>1, MemOpFields
  <2>3. S.sure => /\ w \in {8, 16, 32, 64, 128, 256}
                  /\ \A up : Target(S, i, toEncoderOperand(o, up))
    BY <2>2 DEF Fits
  <2>4. ASSUME NEW op, op \notin Special, op # "MOV", NEW up PROVE Ready(S, i, op, up)
    <3> DEFINE p == toEncoderOperand(o, up)
               disp == HalfDisp(d, up)
               width == HalfWidth(w)
    <3>1. p = MemOp(base, index, disp, width)
      BY <2>1, HalfOfMemory
    <3>2. S.sure => width \in {8, 16, 32, 64, 128} /\ Target(S, i, p)
      BY <2>3 DEF HalfWidth
    <3> HIDE DEF p, disp, width
    <3>3. IsOperand(p) /\ isMemoryOperand(p) /\ ~isXmm(p) /\ p.reg.n = 0 /\ p.width = width
      BY <3>1 DEF IsOperand, MemOp, isMemoryOperand, isXmm, INVALID, Reg
    <3>4. NotRsp(p) /\ NotGprRsp(p)
      BY <3>3, RspFacts DEF NotRsp, NotGprRsp
    <3>5. Writable(S, i, op, p)
      BY <2>4, <3>2, <3>3, <3>4 DEF Writable
    <3>6. QED BY <3>5 DEF Ready, p
  <2>5. kind \notin RegisterKind
    BY <1>4 DEF RegisterKind, Memory
  <2>6. QED BY <1>1, <2>4, <2>5
<1>5. QED BY <1>2, <1>3, <1>4 DEF AnyKind, VectorKind, RegisterKind

(* The registers an operand occupies are two at most.                      *)
LEMMA UsedPair ==
  ASSUME NEW o, IsOperand(o)
  PROVE  \E a, b : getUsedReg(o) \subseteq {a, b}
<1>1. CASE isMemoryOperand(o)
  BY <1>1 DEF getUsedReg, isMemoryOperand, isImmediate
<1>2. CASE ~isMemoryOperand(o)
  BY <1>2 DEF getUsedReg
<1>3. QED BY <1>1, <1>2

LEMMA RoomPair ==
  ASSUME NEW S, NEW n \in Nat, Room(S, n), NEW a, NEW b
  PROVE  Room((S \cup {a}) \cup {b}, n + 2)
<1> DEFINE k == n + 1
<1>1. k \in Nat /\ k + 1 = n + 2
  OBVIOUS
<1>2. Room(S \cup {a}, k)
  BY RoomMore
<1> HIDE DEF k
<1>3. Room((S \cup {a}) \cup {b}, k + 1)
  BY <1>1, <1>2, RoomMore
<1>4. QED BY <1>1, <1>3

LEMMA RoomEight ==
  ASSUME NEW S1, NEW S2, NEW S3, NEW S4,
         NEW a1, NEW b1, NEW a2, NEW b2, NEW a3, NEW b3, NEW a4, NEW b4,
         S1 = ({} \cup {a1}) \cup {b1}, S2 = (S1 \cup {a2}) \cup {b2},
         S3 = (S2 \cup {a3}) \cup {b3}, S4 = (S3 \cup {a4}) \cup {b4}
  PROVE  Room(S4, 8)
<1>1. 0 + 2 = 2 /\ 2 + 2 = 4 /\ 4 + 2 = 6 /\ 6 + 2 = 8
  OBVIOUS
<1>2. Room({}, 0)
  BY FS_EmptySet DEF Room
<1>3. Room(S1, 0 + 2)
  BY <1>2, RoomPair
<1>4. Room(S2, 2 + 2)
  BY <1>1, <1>3, RoomPair
<1>5. Room(S3, 4 + 2)
  BY <1>1, <1>4, RoomPair
<1>6. Room(S4, 6 + 2)
  BY <1>1, <1>5, RoomPair
<1>7. QED BY <1>1, <1>6

(* Four operands occupy eight, and one register may be reserved.           *)
LEMMA UsedRoom ==
  ASSUME NEW ops, Len(ops) \in 1 .. 4, \A k \in 1 .. Len(ops) : IsOperand(ops[k]), NEW iclass
  PROVE  \E used : /\ Room(used, 9)
                   /\ reservedRegs(iclass) \cup UNION {getUsedReg(ops[k]) : k \in 1 .. Len(ops)}
                        \subseteq used
<1> DEFINE U == UNION {getUsedReg(ops[k]) : k \in 1 .. Len(ops)}
           P(k, a, b) == k \in 1 .. Len(ops) => getUsedReg(ops[k]) \subseteq {a, b}
<1>1. \A k : \E a, b : P(k, a, b)
  BY UsedPair
<1>2. PICK a1, b1 : P(1, a1, b1)
  BY <1>1
<1>3. PICK a2, b2 : P(2, a2, b2)
  BY <1>1
<1>4. PICK a3, b3 : P(3, a3, b3)
  BY <1>1
<1>5. PICK a4, b4 : P(4, a4, b4)
  BY <1>1
<1> DEFINE S1 == ({} \cup {a1}) \cup {b1}
           S2 == (S1 \cup {a2}) \cup {b2}
           S3 == (S2 \cup {a3}) \cup {b3}
           S4 == (S3 \cup {a4}) \cup {b4}
<1>6. \A k \in 1 .. Len(ops) : k \in {1, 2, 3, 4}
  OBVIOUS
<1>7. \A k \in 1 .. Len(ops) : getUsedReg(ops[k]) \subseteq S4
  BY <1>2, <1>3, <1>4, <1>5, <1>6
<1>8. U \subseteq S4
  <2> HIDE DEF S4
  <2>1. QED BY <1>7
<1>9. Room(S4, 8)
  BY RoomEight
<1> HIDE DEF S4
<1>10. Room(S4 \cup {RCX}, 9)
  <2>1. Room(S4 \cup {RCX}, 8 + 1)
    BY <1>9, RoomMore
  <2>2. QED BY <2>1
<1>11. reservedRegs(iclass) \subseteq {RCX}
  BY DEF reservedRegs
<1>12. reservedRegs(iclass) \cup U \subseteq S4 \cup {RCX}
  <2> HIDE DEF U
  <2>1. QED BY <1>8, <1>11
<1> DEFINE S5 == S4 \cup {RCX}
<1>13. Room(S5, 9) /\ reservedRegs(iclass) \cup U \subseteq S5
  BY <1>10, <1>12
<1> HIDE DEF S5
<1>14. QED BY <1>13

LEMMA SupportedClass ==
  ASSUME NEW i, Supported(i), NEW x, x = ClassOf(i.iclass)
  PROVE  /\ x.iclass = i.iclass /\ Suits(x)
         /\ Conforms(i, IF x = AND THEN x.forms \cup OtherAnds ELSE x.forms)
<1>1. PICK y \in iclassMapping : y.iclass = i.iclass
  BY DEF Supported
<1>2. x \in iclassMapping /\ x.iclass = i.iclass
  BY <1>1 DEF ClassOf
<1>3. Suits(x)
  BY <1>2, EveryClassSuits
<1>4. QED BY <1>2, <1>3 DEF Supported

(* AND, in any form.                                                       *)
LEMMA AndForms == Destined(AND.forms \cup OtherAnds, GeneralKind)
<1>1. AND.forms = Integer2
  BY DEF AND, Class
<1>2. Destined(OtherAnds, GeneralKind)
  BY DEF Destined, OtherAnds, GeneralKind, RegisterKind, Memory
<1>3. RegisterKind \subseteq GeneralKind
  BY DEF GeneralKind
<1>4. QED BY <1>1, <1>2, <1>3, IntegerForms DEF Destined

LEMMA SuitsDestined ==
  ASSUME NEW x, Suits(x), x # AND
  PROVE  Destined(x.forms, AnyKind)
<1>1. VectorKind \subseteq AnyKind /\ RegisterKind \subseteq AnyKind
  BY DEF VectorKind, RegisterKind, AnyKind
<1>2. \A forms : Destined(forms, VectorKind) \/ Destined(forms, RegisterKind) => Destined(forms, AnyKind)
  BY <1>1 DEF Destined
<1>3. \A forms : Overwritten(forms) \/ Moved(forms) => Destined(forms, AnyKind)
  BY OverwrittenDestined DEF Moved
<1>4. Destined(IntegerShift, AnyKind)
  BY <1>2, IntegerForms
<1>5. QED BY <1>2, <1>3, <1>4 DEF Suits

(* What the compilation of an instruction needs of its operands.           *)
LEMMA SupportedOperands ==
  ASSUME NEW i, Supported(i), NEW x, x = ClassOf(i.iclass)
  PROVE  /\ Len(i.operands) \in 1 .. 4
         /\ \A k \in 1 .. Len(i.operands) : IsOperand(i.operands[k])
         /\ x # AND /\ Overwritten(x.forms) => Safe(i.operands[1]) /\ Safe(i.operands[2])
         /\ x # AND /\ Moved(x.forms) /\ Len(i.operands) # 2
              => Safe(i.operands[1]) /\ Safe(i.operands[2])
         /\ x # AND /\ Destined(x.forms, VectorKind) => Safe(i.operands[1])
         /\ \A S : Fits(S, i) =>
              /\ \A op, up : Vector(op) => Ready(S, i, op, up)
              /\ x = AND => \A up : Ready(S, i, "AND", up)
              /\ x # AND /\ Destined(x.forms, RegisterKind) => General(S, i.operands[1])
<1> DEFINE forms == IF x = AND THEN x.forms \cup OtherAnds ELSE x.forms
           o == i.operands[1]
<1>1. o.reg \notin {RSP, R32(RSP.n)} /\ Suits(x) /\ Conforms(i, forms)
  BY SupportedClass DEF Supported
<1>2. PICK f \in forms : /\ Len(i.operands) = Len(f)
                         /\ \A k \in 1 .. Len(f) : Matches(i.operands[k], f[k])
  BY <1>1 DEF Conforms
<1>3. /\ x = AND => Destined(forms, GeneralKind) /\ Destined(forms, AnyKind)
      /\ x # AND => forms = x.forms /\ Destined(forms, AnyKind)
  <2>1. GeneralKind \subseteq AnyKind
    BY DEF GeneralKind, AnyKind, RegisterKind
  <2>2. x = AND => forms = AND.forms \cup OtherAnds
    OBVIOUS
  <2>3. x # AND => forms = x.forms
    OBVIOUS
  <2> HIDE DEF forms
  <2>4. Destined(AND.forms \cup OtherAnds, AnyKind)
    BY <2>1, AndForms DEF Destined
  <2>5. QED BY <1>1, <2>2, <2>3, <2>4, AndForms, SuitsDestined
<1> HIDE DEF forms
<1>4. \A kinds : Destined(forms, kinds) => Len(f) \in 1 .. 4 /\ f[1] \in kinds
  BY <1>2 DEF Destined
<1>5. Len(f) \in 1 .. 4 /\ f[1] \in AnyKind /\ (x = AND => f[1] \in GeneralKind)
  BY <1>3, <1>4
<1>6. 1 \in 1 .. Len(f) /\ Matches(o, f[1])
  BY <1>2, <1>5
<1>7. \A k \in 1 .. Len(f) : IsOperand(i.operands[k]) /\ (f[k] \in VectorKind => Safe(i.operands[k]))
  BY <1>2, MatchesKinds
<1>8. ASSUME Len(f) \in 2 .. 4, {f[1], f[2]} \subseteq {"X", "Y"}
      PROVE  Safe(o) /\ Safe(i.operands[2])
  <2>1. 2 \in 1 .. Len(f)
    BY <1>8
  <2>2. QED BY <1>6, <1>7, <1>8, <2>1 DEF VectorKind
<1>9. ASSUME x # AND, Overwritten(x.forms) PROVE Safe(o) /\ Safe(i.operands[2])
  BY <1>2, <1>3, <1>8, <1>9 DEF Overwritten
<1>10. ASSUME x # AND, Moved(x.forms), Len(i.operands) # 2 PROVE Safe(o) /\ Safe(i.operands[2])
  BY <1>2, <1>3, <1>8, <1>10 DEF Moved
<1>11. ASSUME x # AND, Destined(x.forms, VectorKind) PROVE Safe(o)
  BY <1>3, <1>4, <1>6, <1>7, <1>11
<1>12. ASSUME NEW S, Fits(S, i)
       PROVE  /\ \A op, up : Vector(op) => Ready(S, i, op, up)
              /\ x = AND => \A up : Ready(S, i, "AND", up)
              /\ x # AND /\ Destined(x.forms, RegisterKind) => General(S, o)
  <2>1. /\ \A op, up : Vector(op) => Ready(S, i, op, up)
        /\ f[1] \in GeneralKind => \A up : Ready(S, i, "AND", up)
        /\ f[1] \in RegisterKind => General(S, o)
    BY <1>1, <1>5, <1>6, <1>12, FittingReady
  <2>2. x # AND /\ Destined(x.forms, RegisterKind) => f[1] \in RegisterKind
    BY <1>3, <1>4
  <2>3. QED BY <1>5, <2>1, <2>2
<1>13. Len(i.operands) \in 1 .. 4 /\ \A k \in 1 .. Len(i.operands) : IsOperand(i.operands[k])
  BY <1>2, <1>5, <1>7
<1>14. QED BY <1>9, <1>10, <1>11, <1>12, <1>13

(* No instruction has been emitted yet, and the operands are in use.       *)
Beginning(i, rip, at) == [Instruction(i, rip) EXCEPT !.rspOffset = at.offset]

LEMMA Starts ==
  ASSUME NEW i, Supported(i), NEW from, NEW at, Level(from), Level(at), Weaker(from, at)
  PROVE  \E used : /\ Room(used, 9)
                   /\ Underway(Beginning(i, at.rip, at), i, from, at, used)
                   /\ Beginning(i, at.rip, at).usedRegs
                        = reservedRegs(i.iclass)
                          \cup UNION {getUsedReg(i.operands[k]) : k \in 1 .. Len(i.operands)}
<1> DEFINE ops == i.operands
           regs == reservedRegs(i.iclass) \cup UNION {getUsedReg(ops[k]) : k \in 1 .. Len(ops)}
           rip == at.rip
           offset == at.offset
           none == <<>>
           no == FALSE
           c == Beginning(i, rip, at)
<1>1. Len(ops) \in 1 .. 4 /\ \A k \in 1 .. Len(ops) : IsOperand(ops[k])
  BY SupportedOperands
<1>2. PICK used : Room(used, 9) /\ regs \subseteq used
  BY <1>1, UsedRoom
<1>3. Instruction(i, rip) = [iclass |-> i.iclass, operands |-> i.operands, opWidth |-> i.opWidth,
                             rip |-> rip, rspOffset |-> 0, requests |-> none, exited |-> no,
                             usedRegs |-> regs]
  BY DEF Instruction
<1>4. Tracked(none, from, at)
  BY TrackedEmpty
<1>5. c = [Instruction(i, rip) EXCEPT !.rspOffset = offset]
  BY DEF Beginning
<1> HIDE DEF regs, none, no, rip, offset, c
<1>6. c = [iclass |-> i.iclass, operands |-> i.operands, opWidth |-> i.opWidth,
           rip |-> rip, rspOffset |-> offset, requests |-> none, exited |-> no, usedRegs |-> regs]
  BY <1>3, <1>5
<1>7. Underway(c, i, from, at, used)
  BY <1>2, <1>4, <1>6, Zenon DEF Underway, rip, offset
<1>8. c.usedRegs = regs
  BY <1>6
<1>9. QED BY <1>2, <1>7, <1>8 DEF rip, regs, c

-----------------------------------------------------------------------------
(***************************************************************************)
(* The compilation of an instruction.                                      *)
(***************************************************************************)
LEMMA BodyImplementations ==
  ASSUME NEW x, NEW c, NEW up, NEW d, d = implementationOf(x, c, up)
  PROVE  /\ x.body = "three" => d = zeroIfXmm(three(c, x.op, up))
         /\ x.body = "threeClearing" => d = clear(three(c, x.op, up))
         /\ x.body = "threeImm" => \E n : d = zeroIfXmm(threeImm(c, x.op, up, n))
         /\ x.body = "threeImmBy2" => d = zeroIfXmm(splitImm(c, x.op, up, 2))
         /\ x.body = "threeImmBy4" => d = zeroIfXmm(splitImm(c, x.op, up, 4))
         /\ x.body = "compare" => d = zeroIfXmm(compare(c, x.op, up))
         /\ x.body = "ignoring" => d = zeroIfXmm(ignoring(c, x.op, up))
         /\ x.body = "ignoringClearing" => d = clear(ignoring(c, x.op, up))
         /\ x.body = "copy" => d = zeroIfXmm(Plain(c, x.op, up))
         /\ x.body = "copyClearing" => d = clear(Plain(c, x.op, up))
         /\ x.body = "plain" => d = Plain(c, x.op, up)
         /\ x.body = "plainXmm" => d = PlainXmm(c, x.op, up)
         /\ x.body = "blendv" => d = blendv(c, x.op, up)
         /\ x.body = "VBROADCASTSS" => d = VBROADCASTSS_implementation(c, up)
         /\ x.body = "VPBROADCASTB" => d = VPBROADCASTB_implementation(c, up)
         /\ x.body = "VCVTPS2PH" => d = VCVTPS2PH_implementation(c, up)
         /\ x.body = "VEXTRACTF128" => d = VEXTRACTF128_implementation(c, up)
         /\ x.body = "VINSERTF128" => d = VINSERTF128_implementation(c, up)
         /\ x.body = "VPERMILPS" => d = VPERMILPS_implementation(c, up)
         /\ x.body = "VFMADD231PS" => d = VFMADD231PS_implementation(c, up)
         /\ x.body = "VFMSUB231PS" => d = VFMSUB231PS_implementation(c, up)
         /\ x.body = "shiftByRegister" => d = shiftByRegister(c, x.op, up)
         /\ x.body = "ANDN" => d = ANDN_implementation(c, up)
         /\ x.body = "BLSR" => d = BLSR_implementation(c, up)
         /\ x.body = "VPMOVMSKB" => d = VPMOVMSKB_implementation(c, up)
         /\ x.body = "VINSERTPS" => d = VINSERTPS_implementation(c, up)
         /\ x.body = "moveScalar" => d = zeroIfXmm(moveScalar(c, x.op, up))
         /\ x.body = "moveHigh" => d = moveHigh(c, x.op, up)
<1>1. ASSUME x.body = "three" PROVE d = zeroIfXmm(three(c, x.op, up))
  BY <1>1 DEF implementationOf
<1>2. ASSUME x.body = "threeClearing" PROVE d = clear(three(c, x.op, up))
  BY <1>2 DEF implementationOf
<1>3. ASSUME x.body = "threeImm" PROVE \E n : d = zeroIfXmm(threeImm(c, x.op, up, n))
  BY <1>3 DEF implementationOf
<1>4. ASSUME x.body = "threeImmBy2" PROVE d = zeroIfXmm(splitImm(c, x.op, up, 2))
  BY <1>4 DEF implementationOf
<1>5. ASSUME x.body = "threeImmBy4" PROVE d = zeroIfXmm(splitImm(c, x.op, up, 4))
  BY <1>5 DEF implementationOf
<1>6. ASSUME x.body = "compare" PROVE d = zeroIfXmm(compare(c, x.op, up))
  BY <1>6 DEF implementationOf
<1>7. ASSUME x.body = "ignoring" PROVE d = zeroIfXmm(ignoring(c, x.op, up))
  BY <1>7 DEF implementationOf
<1>8. ASSUME x.body = "ignoringClearing" PROVE d = clear(ignoring(c, x.op, up))
  BY <1>8 DEF implementationOf
<1>9. ASSUME x.body = "copy" PROVE d = zeroIfXmm(Plain(c, x.op, up))
  BY <1>9 DEF implementationOf
<1>10. ASSUME x.body = "copyClearing" PROVE d = clear(Plain(c, x.op, up))
  BY <1>10 DEF implementationOf
<1>11. ASSUME x.body = "plain" PROVE d = Plain(c, x.op, up)
  BY <1>11 DEF implementationOf
<1>12. ASSUME x.body = "plainXmm" PROVE d = PlainXmm(c, x.op, up)
  BY <1>12 DEF implementationOf
<1>13. ASSUME x.body = "blendv" PROVE d = blendv(c, x.op, up)
  BY <1>13 DEF implementationOf
<1>14. ASSUME x.body = "VBROADCASTSS" PROVE d = VBROADCASTSS_implementation(c, up)
  BY <1>14 DEF implementationOf
<1>15. ASSUME x.body = "VPBROADCASTB" PROVE d = VPBROADCASTB_implementation(c, up)
  BY <1>15 DEF implementationOf
<1>16. ASSUME x.body = "VCVTPS2PH" PROVE d = VCVTPS2PH_implementation(c, up)
  BY <1>16 DEF implementationOf
<1>17. ASSUME x.body = "VEXTRACTF128" PROVE d = VEXTRACTF128_implementation(c, up)
  BY <1>17 DEF implementationOf
<1>18. ASSUME x.body = "VINSERTF128" PROVE d = VINSERTF128_implementation(c, up)
  BY <1>18 DEF implementationOf
<1>19. ASSUME x.body = "VPERMILPS" PROVE d = VPERMILPS_implementation(c, up)
  BY <1>19 DEF implementationOf
<1>20. ASSUME x.body = "VFMADD231PS" PROVE d = VFMADD231PS_implementation(c, up)
  BY <1>20 DEF implementationOf
<1>21. ASSUME x.body = "VFMSUB231PS" PROVE d = VFMSUB231PS_implementation(c, up)
  BY <1>21 DEF implementationOf
<1>22. ASSUME x.body = "shiftByRegister" PROVE d = shiftByRegister(c, x.op, up)
  BY <1>22 DEF implementationOf
<1>23. ASSUME x.body = "ANDN" PROVE d = ANDN_implementation(c, up)
  BY <1>23 DEF implementationOf
<1>24. ASSUME x.body = "BLSR" PROVE d = BLSR_implementation(c, up)
  BY <1>24 DEF implementationOf
<1>25. ASSUME x.body = "VPMOVMSKB" PROVE d = VPMOVMSKB_implementation(c, up)
  BY <1>25 DEF implementationOf
<1>26. ASSUME x.body = "VINSERTPS" PROVE d = VINSERTPS_implementation(c, up)
  BY <1>26 DEF implementationOf
<1>27. ASSUME x.body = "moveScalar" PROVE d = zeroIfXmm(moveScalar(c, x.op, up))
  BY <1>27 DEF implementationOf
<1>28. ASSUME x.body = "moveHigh" PROVE d = moveHigh(c, x.op, up)
  BY <1>28 DEF implementationOf
<1>29. QED BY <1>1, <1>2, <1>3, <1>4, <1>5, <1>6, <1>7, <1>8, <1>9, <1>10, <1>11, <1>12, <1>13,
  <1>14, <1>15, <1>16, <1>17, <1>18, <1>19, <1>20, <1>21, <1>22, <1>23, <1>24, <1>25, <1>26,
  <1>27, <1>28

(* A body compiled for an instruction, by the operands it needs.           *)
LEMMA TwoKeeps ==
  ASSUME NEW i, NEW from, NEW at, NEW used, Room(used, 13),
         NEW c, Underway(c, i, from, at, used), NEW up,
         Safe(i.operands[1]), Safe(i.operands[2]),
         NEW x, x.body \in Bodies.two, Vector(x.op)
  PROVE  Underway(implementationOf(x, c, up), i, from, at, used)
<1> DEFINE op == x.op
           d == implementationOf(x, c, up)
<1>1. /\ Underway(three(c, op, up), i, from, at, used)
      /\ \A n : Underway(threeImm(c, op, up, n), i, from, at, used)
      /\ \A bits : Underway(splitImm(c, op, up, bits), i, from, at, used)
      /\ Underway(compare(c, op, up), i, from, at, used)
      /\ Underway(ignoring(c, op, up), i, from, at, used)
  BY ThreeKeeps
<1>2. \A e : Underway(e, i, from, at, used) => /\ Underway(zeroIfXmm(e), i, from, at, used)
                                             /\ Underway(clear(e), i, from, at, used)
  BY Zeroes
<1>3. x.body \in {"three", "threeClearing", "threeImm", "threeImmBy2", "threeImmBy4", "compare",
                  "ignoring", "ignoringClearing"}
  BY DEF Bodies
<1>4. /\ x.body = "three" => d = zeroIfXmm(three(c, x.op, up))
      /\ x.body = "threeClearing" => d = clear(three(c, x.op, up))
      /\ x.body = "threeImm" => \E n : d = zeroIfXmm(threeImm(c, x.op, up, n))
      /\ x.body = "threeImmBy2" => d = zeroIfXmm(splitImm(c, x.op, up, 2))
      /\ x.body = "threeImmBy4" => d = zeroIfXmm(splitImm(c, x.op, up, 4))
      /\ x.body = "compare" => d = zeroIfXmm(compare(c, x.op, up))
      /\ x.body = "ignoring" => d = zeroIfXmm(ignoring(c, x.op, up))
      /\ x.body = "ignoringClearing" => d = clear(ignoring(c, x.op, up))
  BY BodyImplementations
<1> HIDE DEF d
<1>5. Underway(d, i, from, at, used)
  BY <1>1, <1>2, <1>3, <1>4
<1>6. QED BY <1>5 DEF d

LEMMA OneKeeps ==
  ASSUME NEW i, NEW from, NEW at, NEW used, Room(used, 13),
         NEW c, Underway(c, i, from, at, used), NEW up,
         Len(i.operands) \in Nat, Len(i.operands) >= 1,
         NEW x, x.body \in Bodies.one, Ready(at, i, x.op, up)
  PROVE  Underway(implementationOf(x, c, up), i, from, at, used)
<1> DEFINE op == x.op
           d == implementationOf(x, c, up)
<1>1. Underway(Plain(c, op, up), i, from, at, used) /\ Underway(PlainXmm(c, op, up), i, from, at, used)
  BY PlainKeeps
<1>2. \A e : Underway(e, i, from, at, used) => /\ Underway(zeroIfXmm(e), i, from, at, used)
                                               /\ Underway(clear(e), i, from, at, used)
  BY Zeroes
<1>3. x.body \in {"copy", "copyClearing", "plain", "plainXmm"}
  BY DEF Bodies
<1>4. /\ x.body = "copy" => d = zeroIfXmm(Plain(c, x.op, up))
      /\ x.body = "copyClearing" => d = clear(Plain(c, x.op, up))
      /\ x.body = "plain" => d = Plain(c, x.op, up)
      /\ x.body = "plainXmm" => d = PlainXmm(c, x.op, up)
  BY BodyImplementations
<1> HIDE DEF d
<1>5. Underway(d, i, from, at, used)
  BY <1>1, <1>2, <1>3, <1>4
<1>6. QED BY <1>5 DEF d

LEMMA OwnKeeps ==
  ASSUME NEW i, NEW from, NEW at, NEW used, Room(used, 9),
         NEW c, Underway(c, i, from, at, used), NEW up, Safe(i.operands[1]),
         Len(i.operands) \in Nat, Len(i.operands) >= 1,
         NEW x, x.body \in Bodies.own, Vector(x.op)
  PROVE  Underway(implementationOf(x, c, up), i, from, at, used)
<1> DEFINE d == implementationOf(x, c, up)
           op == x.op
<1>1. Room(used, 13)
  BY RoomFor
<1>2. /\ Underway(VBROADCASTSS_implementation(c, up), i, from, at, used)
      /\ Underway(VPBROADCASTB_implementation(c, up), i, from, at, used)
      /\ Underway(VCVTPS2PH_implementation(c, up), i, from, at, used)
      /\ Underway(VPERMILPS_implementation(c, up), i, from, at, used)
  BY <1>1, BroadcastKeeps, BroadcastByteKeeps, HalfPrecisionKeeps, PermuteKeeps
<1>3. /\ Underway(VINSERTF128_implementation(c, up), i, from, at, used)
      /\ Underway(VFMADD231PS_implementation(c, up), i, from, at, used)
      /\ Underway(VFMSUB231PS_implementation(c, up), i, from, at, used)
  BY <1>1, LanesKeep, FusedKeeps
<1>4. Underway(blendv(c, op, up), i, from, at, used)
  BY BlendKeeps
<1>5. x.body \in {"blendv", "VBROADCASTSS", "VPBROADCASTB", "VCVTPS2PH", "VINSERTF128",
                  "VPERMILPS", "VFMADD231PS", "VFMSUB231PS"}
  BY DEF Bodies
<1>6. /\ x.body = "blendv" => d = blendv(c, x.op, up)
      /\ x.body = "VBROADCASTSS" => d = VBROADCASTSS_implementation(c, up)
      /\ x.body = "VPBROADCASTB" => d = VPBROADCASTB_implementation(c, up)
      /\ x.body = "VCVTPS2PH" => d = VCVTPS2PH_implementation(c, up)
      /\ x.body = "VINSERTF128" => d = VINSERTF128_implementation(c, up)
      /\ x.body = "VPERMILPS" => d = VPERMILPS_implementation(c, up)
      /\ x.body = "VFMADD231PS" => d = VFMADD231PS_implementation(c, up)
      /\ x.body = "VFMSUB231PS" => d = VFMSUB231PS_implementation(c, up)
  BY BodyImplementations
<1> HIDE DEF d
<1>7. Underway(d, i, from, at, used)
  BY <1>2, <1>3, <1>4, <1>5, <1>6
<1>8. QED BY <1>7 DEF d

LEMMA GeneralKeeps ==
  ASSUME NEW i, NEW from, NEW at, NEW used, Room(used, 9),
         NEW c, Underway(c, i, from, at, used), NEW up,
         General(at, i.operands[1]), Len(i.operands) \in Nat, Len(i.operands) >= 1,
         NEW x, x.body \in Bodies.general
  PROVE  Underway(implementationOf(x, c, up), i, from, at, used)
<1> DEFINE d == implementationOf(x, c, up)
<1>1. /\ Underway(ANDN_implementation(c, up), i, from, at, used)
      /\ Underway(BLSR_implementation(c, up), i, from, at, used)
      /\ Underway(VPMOVMSKB_implementation(c, up), i, from, at, used)
  BY AndNotKeeps, ResetLowestKeeps, MaskKeeps
<1>2. x.body \in {"ANDN", "BLSR", "VPMOVMSKB"}
  BY DEF Bodies
<1>3. /\ x.body = "ANDN" => d = ANDN_implementation(c, up)
      /\ x.body = "BLSR" => d = BLSR_implementation(c, up)
      /\ x.body = "VPMOVMSKB" => d = VPMOVMSKB_implementation(c, up)
  BY BodyImplementations
<1> HIDE DEF d
<1>4. Underway(d, i, from, at, used)
  BY <1>1, <1>2, <1>3
<1>5. QED BY <1>4 DEF d

(* A shift needs its count in RCX, and the registers it may not take.      *)
LEMMA ImplementationKeeps ==
  ASSUME NEW i, Supported(i), i.iclass # "VPERM2F128", NEW from, NEW at, Fits(at, i),
         NEW used, Room(used, 9), NEW c, Underway(c, i, from, at, used), NEW up,
         ClassOf(i.iclass).body = "shiftByRegister" /\ CountsInRcx(i) => Spares(at, i, c)
  PROVE  Underway(Implementation(c, up), i, from, at, used)
<1> DEFINE x == ClassOf(i.iclass)
           d == implementationOf(x, c, up)
<1>1. x.iclass = i.iclass /\ Suits(x)
  BY SupportedClass
<1>2. /\ Len(i.operands) \in 1 .. 4
      /\ x # AND /\ Overwritten(x.forms) => Safe(i.operands[1]) /\ Safe(i.operands[2])
      /\ x # AND /\ Moved(x.forms) /\ Len(i.operands) # 2 => Safe(i.operands[1]) /\ Safe(i.operands[2])
      /\ x # AND /\ Destined(x.forms, VectorKind) => Safe(i.operands[1])
      /\ \A op, u : Vector(op) => Ready(at, i, op, u)
      /\ x = AND => \A u : Ready(at, i, "AND", u)
      /\ x # AND /\ Destined(x.forms, RegisterKind) => General(at, i.operands[1])
  BY SupportedOperands
<1>3. Len(i.operands) \in Nat /\ Len(i.operands) >= 1
  <2>1. \A n : n \in 1 .. 4 => n \in Nat /\ n >= 1
    OBVIOUS
  <2>2. QED BY <1>2, <2>1, Zenon
<1>4. Room(used, 13)
  BY RoomFor
<1>5. Implementation(c, up) = d
  BY Fields DEF Implementation
<1>6. x.body = "shiftByRegister" /\ CountsInRcx(i) => Spares(at, i, c)
  OBVIOUS
<1> HIDE DEF x
<1>7. AND.body = "plain" /\ AND.op = "AND" /\ "plain" \in Bodies.one
  BY DEF AND, Class, Bodies
<1>8. AND.body # "shiftByRegister" /\ AND.body \notin Bodies.two \cup Bodies.own \cup Bodies.general
  BY <1>7 DEF Bodies
<1>9. Underway(d, i, from, at, used)
  <2>1. CASE x = AND
    BY <1>2, <1>3, <1>4, <1>7, <2>1, OneKeeps
  <2>2. CASE x # AND /\ x.body \in Bodies.two /\ Vector(x.op) /\ Overwritten(x.forms)
    BY <1>2, <1>4, <2>2, TwoKeeps
  <2>3. CASE x.body \in Bodies.one /\ Vector(x.op)
    BY <1>2, <1>3, <1>4, <2>3, OneKeeps
  <2>4. CASE x # AND /\ x.body \in Bodies.own /\ Vector(x.op) /\ Destined(x.forms, VectorKind)
    BY <1>2, <1>3, <2>4, OwnKeeps
  <2>5. CASE x # AND /\ x.body \in Bodies.general /\ Destined(x.forms, RegisterKind)
    BY <1>2, <1>3, <2>5, GeneralKeeps
  <2>6. CASE x # AND /\ x.body = "VINSERTPS" /\ Overwritten(x.forms)
    <3>1. d = VINSERTPS_implementation(c, up)
      BY <2>6, BodyImplementations
    <3>2. QED BY <1>2, <1>4, <2>6, <3>1, InsertKeeps
  <2>7. CASE x # AND /\ x.body \in {"moveScalar", "moveHigh"} /\ Vector(x.op) /\ Moved(x.forms)
    <3>1. /\ Underway(moveScalar(c, x.op, up), i, from, at, used)
          /\ Underway(moveHigh(c, x.op, up), i, from, at, used)
      BY <1>2, <1>3, <1>4, <2>7, MovesKeep
    <3>2. /\ x.body = "moveScalar" => d = zeroIfXmm(moveScalar(c, x.op, up))
          /\ x.body = "moveHigh" => d = moveHigh(c, x.op, up)
      BY BodyImplementations
    <3> HIDE DEF d
    <3>3. QED BY <2>7, <3>1, <3>2, Zeroes
  <2>8. CASE x.body = "VEXTRACTF128"
    <3>1. d = VEXTRACTF128_implementation(c, up)
      BY <2>8, BodyImplementations
    <3>2. Vector("MOVUPS")
      BY VectorOps
    <3>3. QED BY <1>2, <1>4, <3>1, <3>2, LanesKeep
  <2>9. CASE x # AND /\ x.body = "shiftByRegister" /\ x.op \notin Special /\ x.forms = IntegerShift
    <3>1. d = shiftByRegister(c, x.op, up)
      BY <2>9, BodyImplementations
    <3>2. General(at, i.operands[1])
      BY <1>2, <2>9, IntegerForms
    <3>3. QED BY <1>6, <2>9, <3>1, <3>2, ShiftKeeps
  <2>10. x.body # "VPERM2F128" \/ x.iclass # "VPERM2F128"
    BY <1>1
  <2>11. QED BY <1>1, <1>7, <1>8, <2>1, <2>2, <2>3, <2>4, <2>5, <2>6, <2>7, <2>8, <2>9, <2>10 DEF Suits
<1>10. QED BY <1>5, <1>9

(* The vector registers of four operands are finitely many.                *)
LEMMA YmmOperandsFinite ==
  ASSUME NEW c, Len(c.operands) \in 1 .. 4
  PROVE  IsFiniteSet(YmmOperands(c))
<1> DEFINE n(k) == c.operands[k].reg.n
           Four == (({n(1)} \cup {n(2)}) \cup {n(3)}) \cup {n(4)}
<1>1. \A k \in 1 .. Len(c.operands) : k \in {1, 2, 3, 4}
  <2>1. \A m \in 1 .. 4 : \A k \in 1 .. m : k \in {1, 2, 3, 4}
    OBVIOUS
  <2>2. QED BY <2>1, Zenon
<1>2. \A y \in YmmOperands(c) : \E k \in 1 .. Len(c.operands) : y = n(k)
  BY DEF YmmOperands
<1>3. YmmOperands(c) \subseteq Four
  BY <1>1, <1>2
<1>4. \A S, a : IsFiniteSet(S) => IsFiniteSet(S \cup {a})
  BY FS_AddElement
<1>5. IsFiniteSet({n(1)})
  BY FS_Singleton
<1>6. IsFiniteSet(Four)
  BY <1>4, <1>5
<1>7. QED BY <1>3, <1>6, FS_Subset

LEMMA HalfKeeps ==
  ASSUME NEW i, Supported(i), i.iclass # "VPERM2F128", NEW from, NEW at, Fits(at, i),
         NEW used, Room(used, 9), NEW c, Underway(c, i, from, at, used), NEW up,
         ClassOf(i.iclass).body = "shiftByRegister" => ~up /\ (CountsInRcx(i) => Spares(at, i, c))
  PROVE  Underway(compileHalf(c, up), i, from, at, used)
<1> DEFINE d == enterHalf(c, up)
           e == Implementation(d, up)
<1>1. Len(i.operands) \in 1 .. 4
  BY SupportedOperands
<1>2. \A w : Underway(w, i, from, at, used) => IsFiniteSet(YmmOperands(w))
  <2>1. ASSUME NEW w, Underway(w, i, from, at, used) PROVE IsFiniteSet(YmmOperands(w))
    <3>1. w.operands = i.operands
      BY <2>1, Fields
    <3>2. QED BY <1>1, <3>1, YmmOperandsFinite
  <2>2. QED BY <2>1
<1>3. \A w : Underway(w, i, from, at, used) => /\ Underway(enterHalf(w, up), i, from, at, used)
                                               /\ Underway(leaveHalf(w, up), i, from, at, used)
  BY <1>2, Swaps DEF enterHalf, leaveHalf
<1>4. compileHalf(c, up) = leaveHalf(e, up)
  BY DEF compileHalf
<1>5. Underway(d, i, from, at, used)
  BY <1>3
<1>6. ~up => d = c
  BY DEF enterHalf
<1> HIDE DEF d
<1>7. ClassOf(i.iclass).body = "shiftByRegister" /\ CountsInRcx(i) => Spares(at, i, d)
  BY <1>6
<1>8. Underway(e, i, from, at, used)
  BY <1>5, <1>7, ImplementationKeeps
<1> HIDE DEF e
<1>9. QED BY <1>3, <1>4, <1>8

(* An instruction has one operand in memory, addressed by RIP alone or by  *)
(* registers other than RIP; RSP has no scale.                             *)
Encodable(i) ==
  \A k \in 1 .. Len(i.operands) :
    LET o == i.operands[k]
    IN  isMemoryOperand(o) =>
          /\ o.index \notin {RIP, RSP} /\ (o.base = RIP => o.index = INVALID)
          /\ \A l \in 1 .. Len(i.operands) : isMemoryOperand(i.operands[l]) => l = k

LEMMA ShiftClass ==
  ASSUME NEW i, Supported(i), ClassOf(i.iclass).body = "shiftByRegister"
  PROVE  i.iclass \in Shifts /\ Conforms(i, IntegerShift)
<1> DEFINE x == ClassOf(i.iclass)
<1>1. /\ x.iclass = i.iclass /\ Suits(x)
      /\ Conforms(i, IF x = AND THEN x.forms \cup OtherAnds ELSE x.forms)
  BY SupportedClass
<1>2. x.body = "shiftByRegister"
  OBVIOUS
<1> HIDE DEF x
<1>3. x # AND
  BY <1>2 DEF AND, Class
<1>4. x.body \notin Bodies.two \cup Bodies.one \cup Bodies.own \cup Bodies.general
  BY <1>2 DEF Bodies
<1>5. x.iclass \in Shifts /\ x.forms = IntegerShift
  BY <1>1, <1>2, <1>3, <1>4 DEF Suits
<1>6. QED BY <1>1, <1>3, <1>5

LEMMA ShiftOperands ==
  ASSUME NEW i, Conforms(i, IntegerShift)
  PROVE  /\ Len(i.operands) = 3
         /\ \E kind \in RegisterKind : /\ Matches(i.operands[1], kind) /\ Matches(i.operands[3], kind)
                                       /\ \E k2 \in {kind} \cup Memory : Matches(i.operands[2], k2)
<1>1. PICK f \in IntegerShift : /\ Len(i.operands) = Len(f)
                                /\ \A k \in 1 .. Len(f) : Matches(i.operands[k], f[k])
  BY DEF Conforms
<1>2. PICK w \in Widths, n \in {1, 2} : f = <<w[1], w[n], w[1]>>
  BY DEF IntegerShift
<1>3. Len(f) = 3 /\ f[1] = w[1] /\ f[2] = w[n] /\ f[3] = w[1]
  BY <1>2
<1>4. w[1] \in RegisterKind /\ w[2] \in Memory
  BY DEF Widths, RegisterKind, Memory
<1>5. w[n] \in {w[1]} \cup Memory
  BY <1>4
<1>6. 1 \in 1 .. 3 /\ 2 \in 1 .. 3 /\ 3 \in 1 .. 3
  OBVIOUS
<1>7. /\ Matches(i.operands[1], w[1]) /\ Matches(i.operands[2], w[n]) /\ Matches(i.operands[3], w[1])
  BY <1>1, <1>3, <1>6
<1>8. QED BY <1>1, <1>3, <1>4, <1>5, <1>7

LEMMA MatchesRegister ==
  ASSUME NEW o, NEW kind \in RegisterKind, Matches(o, kind)
  PROVE  /\ o.reg = IF kind = "R32" THEN R32(o.reg.n) ELSE R64(o.reg.n)
         /\ o.base = INVALID /\ ~isMemoryOperand(o) /\ ~isYmm(o) /\ getUsedReg(o) = {o.reg}
         /\ o.reg.class = IF kind = "R32" THEN "r32" ELSE "r64"
<1> DEFINE r == IF kind = "R32" THEN R32(o.reg.n) ELSE R64(o.reg.n)
<1>1. o = RegOp(r)
  <2>1. kind = "R32" => o = RegOp(R32(o.reg.n))
    BY DEF Matches, Memory
  <2>2. kind = "R64" => o = RegOp(R64(o.reg.n))
    BY DEF Matches, Memory
  <2>3. kind = "R32" \/ kind = "R64"
    BY DEF RegisterKind
  <2>4. kind = "R32" => r = R32(o.reg.n)
    OBVIOUS
  <2>5. kind # "R32" => r = R64(o.reg.n)
    OBVIOUS
  <2> HIDE DEF r
  <2>6. QED BY <2>1, <2>2, <2>3, <2>4, <2>5
<1>2. r.class = IF kind = "R32" THEN "r32" ELSE "r64"
  BY DEF R32, R64, Reg
<1> HIDE DEF r
<1>3. PICK q : o = RegOp(q) /\ q = r
  BY <1>1
<1>4. o.reg = q /\ o.base = INVALID /\ o.kind = "reg"
  BY <1>3 DEF RegOp
<1>5. ~isMemoryOperand(o) /\ ~isYmm(o) /\ ~isImmediate(o)
  BY <1>2, <1>3, <1>4 DEF isMemoryOperand, isYmm, isImmediate, RegisterKind
<1>6. getUsedReg(o) = {o.reg}
  BY <1>5 DEF getUsedReg
<1>7. o.reg = r /\ o.reg.class = IF kind = "R32" THEN "r32" ELSE "r64"
  BY <1>2, <1>3, <1>4
<1>8. QED BY <1>4, <1>5, <1>6, <1>7 DEF r

LEMMA ShiftSpares ==
  ASSUME NEW i, Conforms(i, IntegerShift), i.iclass \in Shifts, NEW at,
         \A n \in Written(i) : Bare(at, n),
         NEW c, c.usedRegs = reservedRegs(i.iclass)
                             \cup UNION {getUsedReg(i.operands[k]) : k \in 1 .. Len(i.operands)},
         CountsInRcx(i)
  PROVE  Spares(at, i, c)
<1> DEFINE o(k) == i.operands[k]
<1>1. PICK kind \in RegisterKind :
        /\ Len(i.operands) = 3 /\ Matches(o(1), kind) /\ Matches(o(3), kind)
        /\ \E k2 \in {kind} \cup Memory : Matches(o(2), k2)
  BY ShiftOperands
<1>2. ASSUME NEW k \in {1, 3}
      PROVE  /\ o(k).reg = IF kind = "R32" THEN R32(o(k).reg.n) ELSE R64(o(k).reg.n)
             /\ o(k).base = INVALID /\ ~isMemoryOperand(o(k)) /\ getUsedReg(o(k)) = {o(k).reg}
             /\ o(k).reg.class = IF kind = "R32" THEN "r32" ELSE "r64"
  BY <1>1, MatchesRegister
<1>3. CASE ~at.sure
  BY <1>3 DEF Spares, Bare
<1>4. CASE kind = "R32"
  <2>1. o(1).reg.class = "r32"
    BY <1>2, <1>4
  <2>2. RCX.n \in Written(i)
    BY <2>1 DEF Written, CountsInRcx
  <2>3. QED BY <2>2 DEF Spares
<1>5. CASE at.sure /\ kind = "R64"
  <2>1. \A k \in 1 .. 3 : getUsedReg(o(k)) \subseteq c.usedRegs
    BY <1>1
  <2>2. R64(o(1).reg.n) \in c.usedRegs
    BY <1>2, <1>5, <2>1
  <2>3. RCX \in c.usedRegs
    <3>1. reservedRegs(i.iclass) = {RCX}
      BY DEF reservedRegs, Shifts
    <3>2. reservedRegs(i.iclass) \subseteq c.usedRegs
      OBVIOUS
    <3>3. QED BY <3>1, <3>2
  <2>4. QED BY <2>2, <2>3 DEF Spares
<1>6. QED BY <1>3, <1>4, <1>5 DEF RegisterKind, Bare

LEMMA ShiftLow ==
  ASSUME NEW i, Conforms(i, IntegerShift), NEW c, c.operands = i.operands
  PROVE  ~usesYmm(c)
<1>1. PICK kind \in RegisterKind :
        /\ Len(i.operands) = 3 /\ Matches(i.operands[1], kind) /\ Matches(i.operands[3], kind)
        /\ \E k2 \in {kind} \cup Memory : Matches(i.operands[2], k2)
  BY ShiftOperands
<1>2. \A k2 \in Memory : Matches(i.operands[2], k2) => ~isYmm(i.operands[2])
  <2>1. ASSUME NEW k2 \in Memory, Matches(i.operands[2], k2) PROVE ~isYmm(i.operands[2])
    <3>1. PICK b, x, d, w : i.operands[2] = MemOp(b, x, d, w)
      BY <2>1, MatchesKinds
    <3>2. QED BY <3>1, MemOpFields DEF isYmm, INVALID, Reg
  <2>2. QED BY <2>1
<1>3. \A k \in {1, 2, 3} : ~isYmm(i.operands[k])
  BY <1>1, <1>2, MatchesRegister
<1>4. \A k \in 1 .. 3 : k \in {1, 2, 3}
  OBVIOUS
<1>5. QED BY <1>1, <1>3, <1>4 DEF usesYmm

(* The instructions emitted for one instruction leave RSP where it was,    *)
(* and what is known as it was.                                            *)
LEMMA CompiledTracked ==
  ASSUME NEW i, Supported(i), NEW from, NEW at, Level(from), Level(at), Weaker(from, at),
         Fits(at, i), \A n \in Written(i) : Bare(at, n),
         NEW s, StartOffset(s) = at.offset
  PROVE  Tracked(CompileInstruction(i, at.rip, s).requests, from, at)
<1> DEFINE c == Instruction(i, at.rip)
           d == [c EXCEPT !.rspOffset = at.offset]
           body == ClassOf(i.iclass).body
<1>1. Beginning(i, at.rip, at) = d
  BY DEF Beginning
<1>2. PICK used : /\ Room(used, 9) /\ Underway(d, i, from, at, used)
                  /\ d.usedRegs = reservedRegs(i.iclass)
                                  \cup UNION {getUsedReg(i.operands[k]) : k \in 1 .. Len(i.operands)}
  <2> HIDE DEF c, d
  <2>1. \E used : /\ Room(used, 9)
                  /\ Underway(Beginning(i, at.rip, at), i, from, at, used)
                  /\ Beginning(i, at.rip, at).usedRegs
                       = reservedRegs(i.iclass)
                         \cup UNION {getUsedReg(i.operands[k]) : k \in 1 .. Len(i.operands)}
    BY Starts
  <2>2. QED BY <1>1, <2>1
<1>3. CASE i.iclass = "VPERM2F128"
  <2>1. CompileInstruction(i, at.rip, s) = VPERM2F128_compile(c, s)
    BY <1>3 DEF CompileInstruction
  <2> HIDE DEF c
  <2>2. Underway(VPERM2F128_compile(c, s), i, from, at, used)
    BY <1>2, PermuteHalvesKeeps
  <2>3. QED BY <2>1, <2>2, Fields
<1>4. CASE i.iclass # "VPERM2F128"
  <2> DEFINE low == compileHalf(d, FALSE)
             high == compileHalf(low, TRUE)
  <2>1. CompileInstruction(i, at.rip, s) = IF usesYmm(c) THEN high ELSE low
    BY <1>4 DEF CompileInstruction, compile
  <2>2. c.operands = i.operands
    BY DEF Instruction
  <2> HIDE DEF c, d, body
  <2>3. body = "shiftByRegister" => /\ CountsInRcx(i) => Spares(at, i, d)
                                    /\ ~usesYmm(c)
    BY <1>2, <2>2, ShiftClass, ShiftSpares, ShiftLow DEF body
  <2>4. Underway(low, i, from, at, used)
    BY <1>2, <1>4, <2>3, HalfKeeps DEF body
  <2> HIDE DEF low
  <2>5. usesYmm(c) => Underway(high, i, from, at, used)
    BY <1>2, <1>4, <2>3, <2>4, HalfKeeps DEF body
  <2> HIDE DEF high
  <2>6. QED BY <2>1, <2>4, <2>5, Fields
<1>5. QED BY <1>3, <1>4

-----------------------------------------------------------------------------
(***************************************************************************)
(* What is known between the instructions of a block.                      *)
(***************************************************************************)

(* What register n holds before the block.                                 *)
App(n) == <<"gpr", <<Sym("n", n)>>, 0>>

(* No instruction before the j-th writes register n.                       *)
Unwritten(b, j, n) == \A k \in 1 .. j - 1 : n \notin Written(b[k])
Kept(b, j) == [n \in Gprs |-> IF Unwritten(b, j, n) THEN {App(n)} ELSE {}]

(* The return address of the function that a test calls.                   *)
Saved(s) == [k \in Int |-> IF s = "DirectCall" /\ k = -8 THEN {ReturnAddress} ELSE {}]

(* The lanes of memory an instruction followed by rip may write.           *)
Place(i, rip) ==
  LET d == i.operands[1]
  IN  IF ~isMemoryOperand(d) THEN {}
      ELSE {At(EA([Before EXCEPT !.rip = rip], d), k) : k \in {0, 4, 8, 12, 16, 20, 24, 28}}
Places(b) == UNION {Place(b[j], Rip(j)) : j \in 1 .. Len(b)}

(* After the instructions before the j-th, while the k-th is executed.     *)
Known(s, b, j, k, sure) ==
  [offset |-> StartOffset(s), regs |-> Kept(b, j), words |-> Saved(s), dest |-> Places(b),
   rip |-> Rip(k), target |-> {}, sure |-> sure]

LEMMA KnownFields ==
  ASSUME NEW s, NEW b, NEW j, NEW k, NEW sure
  PROVE  LET S == Known(s, b, j, k, sure)
         IN  /\ S.offset = StartOffset(s) /\ S.regs = Kept(b, j) /\ S.words = Saved(s)
             /\ S.dest = Places(b) /\ S.rip = Rip(k) /\ S.target = {} /\ S.sure = sure
<1> DEFINE offset == StartOffset(s)
           regs == Kept(b, j)
           words == Saved(s)
           dest == Places(b)
           rip == Rip(k)
           none == {}
           S == Known(s, b, j, k, sure)
<1>1. S = [offset |-> offset, regs |-> regs, words |-> words, dest |-> dest,
           rip |-> rip, target |-> none, sure |-> sure]
  BY DEF Known
<1> HIDE DEF offset, regs, words, dest, rip, none, S
<1>2. /\ S.offset = offset /\ S.regs = regs /\ S.words = words /\ S.dest = dest
      /\ S.rip = rip /\ S.target = none /\ S.sure = sure
  BY <1>1
<1>3. QED BY <1>2 DEF offset, regs, words, dest, rip, none, S

LEMMA KnownLevel ==
  ASSUME NEW s \in {"FarJump", "DirectCall"}, NEW b, NEW j, NEW k, NEW sure \in BOOLEAN
  PROVE  Level(Known(s, b, j, k, sure))
<1> DEFINE S == Known(s, b, j, k, sure)
<1>1. S.offset = StartOffset(s) /\ S.rip = Rip(k) /\ S.sure = sure
  BY KnownFields
<1>2. StartOffset(s) \in Int /\ StartOffset(s) <= 0
  BY DEF StartOffset
<1>3. Whole64(Rip(k))
  BY SymWhole DEF Rip, Sym
<1> HIDE DEF S
<1>4. Level(S)
  BY <1>1, <1>2, <1>3 DEF Level
<1>5. QED BY <1>4 DEF S

LEMMA KeptLess ==
  ASSUME NEW b, NEW j \in Nat, NEW n \in Gprs
  PROVE  /\ Kept(b, j + 1)[n] \subseteq Kept(b, j)[n]
         /\ j >= 1 /\ n \in Written(b[j]) => Kept(b, j + 1)[n] = {}
<1>1. Unwritten(b, j + 1, n) => Unwritten(b, j, n)
  <2>1. \A k \in 1 .. j - 1 : k \in 1 .. (j + 1) - 1
    OBVIOUS
  <2>2. QED BY <2>1, Zenon DEF Unwritten
<1>2. j >= 1 /\ n \in Written(b[j]) => ~Unwritten(b, j + 1, n)
  <2>1. j >= 1 => j \in 1 .. (j + 1) - 1
    OBVIOUS
  <2>2. QED BY <2>1, Zenon DEF Unwritten
<1>3. QED BY <1>1, <1>2 DEF Kept

LEMMA KnownWeaker ==
  ASSUME NEW s, NEW b, NEW j, NEW k, NEW i, NEW h, NEW sure,
         \A n \in Gprs : Kept(b, i)[n] \subseteq Kept(b, j)[n]
  PROVE  Weaker(Known(s, b, j, k, sure), Known(s, b, i, h, sure))
<1> DEFINE S == Known(s, b, j, k, sure)
           T == Known(s, b, i, h, sure)
<1>1. /\ S.offset = StartOffset(s) /\ S.regs = Kept(b, j) /\ S.words = Saved(s)
      /\ S.dest = Places(b) /\ S.target = {} /\ S.sure = sure
  BY KnownFields
<1>2. /\ T.offset = StartOffset(s) /\ T.regs = Kept(b, i) /\ T.words = Saved(s)
      /\ T.dest = Places(b) /\ T.target = {} /\ T.sure = sure
  BY KnownFields
<1> HIDE DEF S, T
<1>3. Implied(S, T) /\ Same(S, T)
  BY <1>1, <1>2 DEF Implied, Same
<1>4. Weaker(S, T)
  BY <1>3, ImpliedWeaker
<1>5. QED BY <1>4 DEF S, T

-----------------------------------------------------------------------------
(***************************************************************************)
(* Memory that is written through registers the block has not written.     *)
(***************************************************************************)
LEMMA PlainAddress ==
  ASSUME NEW m, NEW b, NEW d, NEW w
  PROVE  EA(m, MemOp(b, INVALID, d, w)) = At(RegVal(m, b), d)
<1> DEFINE x == INVALID
           o == MemOp(b, x, d, w)
<1>1. o.base = b /\ o.index = x /\ o.disp = d
  BY MemOpFields
<1> HIDE DEF o
<1>2. EA(m, o) = At(RegVal(m, b), d)
  BY <1>1 DEF EA
<1>3. QED BY <1>2 DEF o

LEMMA IndexedAddress ==
  ASSUME NEW m, NEW b, NEW x, x # INVALID, NEW d, NEW w
  PROVE  EA(m, MemOp(b, x, d, w))
           = <<"sum", <<At(RegVal(m, b), -(RegVal(m, b)[3])), At(RegVal(m, x), -(RegVal(m, x)[3]))>>,
               RegVal(m, b)[3] + RegVal(m, x)[3] + d>>
<1> DEFINE o == MemOp(b, x, d, w)
<1>1. o.base = b /\ o.index = x /\ o.disp = d
  BY MemOpFields
<1> HIDE DEF o
<1>2. EA(m, o) = <<"sum", <<At(RegVal(m, b), -(RegVal(m, b)[3])), At(RegVal(m, x), -(RegVal(m, x)[3]))>>,
                   RegVal(m, b)[3] + RegVal(m, x)[3] + d>>
  BY <1>1 DEF EA
<1>3. QED BY <1>2 DEF o

(* An address of a block, and the same address k bytes on.                 *)
LEMMA AtParts == \A f, t, k, d : At(<<f, t, k>>, d) = <<f, t, k + d>>
BY DEF At

(* The base holds what it held before the block, k bytes on, the index     *)
(* what it held; the displacement is k less, and e more for the half.      *)
Shifted(m, n, b, c, x, f, t, h, k, d, e, q) ==
  /\ h \in Int /\ k \in Int /\ d \in Int /\ e \in Int /\ q = d + e - k
  /\ RegVal(n, c) = <<f, t, h>> /\ RegVal(m, b) = <<f, t, h + k>>
  /\ x # INVALID => RegVal(m, x) = RegVal(n, x) /\ RegVal(n, x)[3] \in Int

LEMMA SameAddress ==
  ASSUME NEW m, NEW n, NEW b, NEW c, NEW x, NEW f, NEW t, NEW h, NEW k, NEW d, NEW e, NEW q,
         Shifted(m, n, b, c, x, f, t, h, k, d, e, q),
         NEW v, NEW w, NEW o, o = MemOp(b, x, q, w), NEW p, p = MemOp(c, x, d, v)
  PROVE  /\ EA(m, o) = At(EA(n, p), e)
         /\ x = INVALID => EA(n, p) = <<f, t, h + d>>
         /\ x # INVALID => EA(n, p)[1] = "sum"
         /\ EA(n, p)[3] \in Int
<1> USE DEF Shifted
<1>1. CASE x = INVALID
  <2>1. EA(m, o) = At(<<f, t, h + k>>, q) /\ EA(n, p) = At(<<f, t, h>>, d)
    BY <1>1, PlainAddress
  <2>2. (h + k) + q = (h + d) + e /\ h + d \in Int
    OBVIOUS
  <2>3. EA(m, o) = <<f, t, (h + d) + e>> /\ EA(n, p) = <<f, t, h + d>>
    BY <2>1, <2>2, AtParts
  <2>4. EA(n, p)[3] = h + d
    BY <2>3
  <2>5. At(EA(n, p), e) = EA(m, o)
    BY <2>3, AtParts
  <2>6. QED BY <1>1, <2>2, <2>3, <2>4, <2>5
<1>2. CASE x # INVALID
  <2> DEFINE g == RegVal(n, x)
             i == At(g, -(g[3]))
             z == <<f, t, 0>>
  <2>1. /\ At(<<f, t, h + k>>, -(<<f, t, h + k>>[3])) = z
        /\ At(<<f, t, h>>, -(<<f, t, h>>[3])) = z
    <3>1. <<f, t, h + k>>[3] = h + k /\ <<f, t, h>>[3] = h
      OBVIOUS
    <3>2. (h + k) + -(h + k) = 0 /\ h + -h = 0
      OBVIOUS
    <3>3. QED BY <3>1, <3>2, AtParts
  <2>2. /\ EA(m, o) = <<"sum", <<z, i>>, (h + k) + g[3] + q>>
        /\ EA(n, p) = <<"sum", <<z, i>>, h + g[3] + d>>
    <3>1. <<f, t, h + k>>[3] = h + k /\ <<f, t, h>>[3] = h
      OBVIOUS
    <3>2. RegVal(m, x) = g
      BY <1>2
    <3> HIDE DEF g, i, z
    <3>3. EA(m, o) = <<"sum", <<At(RegVal(m, b), -(RegVal(m, b)[3])), At(RegVal(m, x), -(RegVal(m, x)[3]))>>,
                       RegVal(m, b)[3] + RegVal(m, x)[3] + q>>
      BY <1>2, IndexedAddress
    <3>4. EA(n, p) = <<"sum", <<At(RegVal(n, c), -(RegVal(n, c)[3])), At(RegVal(n, x), -(RegVal(n, x)[3]))>>,
                       RegVal(n, c)[3] + RegVal(n, x)[3] + d>>
      BY <1>2, IndexedAddress
    <3>5. At(g, -(g[3])) = i /\ RegVal(n, x) = g
      BY DEF i, g
    <3>6. QED BY <2>1, <3>1, <3>2, <3>3, <3>4, <3>5
  <2>3. g[3] \in Int
    BY <1>2
  <2> DEFINE u == g[3]
  <2>4. (h + k) + u + q = (h + u + d) + e /\ h + u + d \in Int
    BY <2>3
  <2> DEFINE l == h + u + d
             r == <<z, i>>
  <2>5. EA(m, o) = <<"sum", r, l + e>> /\ EA(n, p) = <<"sum", r, l>> /\ l \in Int
    BY <2>2, <2>4
  <2> HIDE DEF l, r, u, g, i, z
  <2>6. At(EA(n, p), e) = EA(m, o)
    BY <2>5, AtParts
  <2>7. EA(n, p)[3] = l /\ EA(n, p)[1] = "sum"
    BY <2>5
  <2>8. QED BY <1>2, <2>5, <2>6, <2>7
<1>3. QED BY <1>1, <1>2

BeforeAt(j) == [Before EXCEPT !.rip = Rip(j)]

LEMMA BeforeValues ==
  ASSUME NEW j
  PROVE  /\ RegVal(BeforeAt(j), RIP) = <<"rip", <<>>, 16 * j>>
         /\ \A n \in Gprs : RegVal(BeforeAt(j), R64(n)) = App(n)
<1> DEFINE regs == Application.gpr
           xmms == Application.xmm
           none == <<>>
           upper == [n \in Xmms |-> Lanes(<<>>, Upper(n), 4)]
           f == Application.flags
           x == Application.mxcsr
           ip == Rip(1)
           rip == Rip(j)
           m == BeforeAt(j)
<1>1. Before = [gpr |-> regs, xmm |-> xmms, mem |-> none, upper |-> upper, flags |-> f, mxcsr |-> x,
                rip |-> ip]
  BY DEF Before
<1>2. m = [Before EXCEPT !.rip = rip]
  BY DEF BeforeAt
<1>3. \A n \in Gprs : regs[n] = App(n)
  BY DEF Application, App
<1>4. rip = <<"rip", <<>>, 16 * j>>
  BY DEF Rip, Sym
<1> HIDE DEF regs, xmms, none, upper, f, x, ip, rip, m
<1>5. m.gpr = regs /\ m.rip = rip
  BY <1>1, <1>2
<1>6. RIP.class = "rip" /\ \A n : R64(n).class = "r64" /\ R64(n).n = n
  BY DEF RIP, R64, Reg
<1>7. RegVal(m, RIP) = m.rip
  BY <1>6 DEF RegVal
<1>8. \A n : RegVal(m, R64(n)) = m.gpr[n]
  BY <1>6 DEF RegVal
<1>9. QED BY <1>3, <1>4, <1>5, <1>7, <1>8 DEF m

(* One of the lanes of the place an instruction writes.                    *)
Here(b, j, v) ==
  /\ j \in 1 .. Len(b) /\ isMemoryOperand(b[j].operands[1])
  /\ v = EA(BeforeAt(j), b[j].operands[1]) /\ v[3] \in Int

LEMMA LanesOfPlace ==
  ASSUME NEW b, NEW j, NEW v, Here(b, j, v)
  PROVE  \A e \in {0, 16} : \A y \in {0, 4, 8, 12} :
           At(At(v, e), y) \in Places(b) /\ \E z \in Nat : At(At(v, e), y) = At(v, z)
<1> SUFFICES ASSUME NEW e \in {0, 16}, NEW y \in {0, 4, 8, 12}
             PROVE  At(At(v, e), y) \in Places(b) /\ \E z \in Nat : At(At(v, e), y) = At(v, z)
  OBVIOUS
<1> DEFINE z == e + y
<1>1. z \in {0, 4, 8, 12, 16, 20, 24, 28} /\ z \in Nat
  OBVIOUS
<1>2. At(At(v, e), y) = At(v, z)
  <2> DEFINE k == v[3]
  <2>1. k \in Int /\ (k + e) + y = k + z
    BY DEF Here
  <2>2. At(v, e) = <<v[1], v[2], k + e>> /\ At(v, z) = <<v[1], v[2], k + z>>
    BY DEF At
  <2> HIDE DEF k, z
  <2>3. At(At(v, e), y) = <<v[1], v[2], (k + e) + y>>
    BY <2>2, AtParts
  <2>4. QED BY <2>1, <2>2, <2>3
<1>3. Place(b[j], Rip(j)) = {At(v, k) : k \in {0, 4, 8, 12, 16, 20, 24, 28}}
  BY DEF Place, BeforeAt, Here
<1> HIDE DEF z
<1>4. At(v, z) \in Place(b[j], Rip(j))
  BY <1>1, <1>3
<1>5. Place(b[j], Rip(j)) \subseteq Places(b)
  BY DEF Places, Here
<1>6. QED BY <1>1, <1>2, <1>4, <1>5

(* An operand of emitted code that is where the destination of the         *)
(* instruction is, or half a YMM register further on.                      *)
Points(T, n, base, was, x, k) ==
  \E f, t : \E h \in Int :
    /\ RegVal(n, was) = <<f, t, h>>
    /\ x # INVALID => RegVal(n, x)[3] \in Int
    /\ \A m : Sat(m, T) => /\ RegVal(m, base) = <<f, t, h + k>>
                           /\ x # INVALID => RegVal(m, x) = RegVal(n, x)

Landing(T, b, j, was, x, d, v, base, k, e, q) ==
  /\ j \in 1 .. Len(b) /\ d \in Int /\ b[j].operands[1] = MemOp(was, x, d, v)
  /\ T.sure /\ T.dest = Places(b)
  /\ k \in Int /\ e \in {0, 16} /\ q = d + e - k /\ Points(T, BeforeAt(j), base, was, x, k)
  /\ \A z \in Nat : ~InWord(T, At(EA(BeforeAt(j), b[j].operands[1]), z))

LEMMA LandsThere ==
  ASSUME NEW b, NEW j, NEW was, NEW x, NEW d, NEW v, NEW T, NEW base, NEW k, NEW e, NEW q,
         Landing(T, b, j, was, x, d, v, base, k, e, q), NEW w
  PROVE  Lands(T, MemOp(base, x, q, w))
<1> DEFINE o == MemOp(base, x, q, w)
           p == MemOp(was, x, d, v)
           n == BeforeAt(j)
<1> USE DEF Landing
<1>1. PICK f, t : \E h \in Int :
        /\ RegVal(n, was) = <<f, t, h>>
        /\ x # INVALID => RegVal(n, x)[3] \in Int
        /\ \A m : Sat(m, T) => /\ RegVal(m, base) = <<f, t, h + k>>
                               /\ x # INVALID => RegVal(m, x) = RegVal(n, x)
  BY Zenon DEF Points
<1>2. PICK h \in Int :
        /\ RegVal(n, was) = <<f, t, h>>
        /\ x # INVALID => RegVal(n, x)[3] \in Int
        /\ \A m : Sat(m, T) => /\ RegVal(m, base) = <<f, t, h + k>>
                               /\ x # INVALID => RegVal(m, x) = RegVal(n, x)
  BY <1>1
<1>3. isMemoryOperand(b[j].operands[1]) /\ p = b[j].operands[1]
  BY MemOpFields
<1>4. ASSUME NEW m, Sat(m, T), NEW y \in {0, 4, 8, 12} PROVE Free(T, At(EA(m, o), y))
  <2>1. RegVal(m, base) = <<f, t, h + k>> /\ (x # INVALID => RegVal(m, x) = RegVal(n, x))
    BY <1>2, <1>4
  <2>2. e \in Int
    OBVIOUS
  <2>3. o = MemOp(base, x, q, w) /\ p = MemOp(was, x, d, v) /\ q = d + e - k
    OBVIOUS
  <2> HIDE DEF o, p
  <2>4. EA(m, o) = At(EA(n, p), e) /\ EA(n, p)[3] \in Int
    <3>1. Shifted(m, n, base, was, x, f, t, h, k, d, e, q)
      BY <1>2, <2>1, <2>2, <2>3 DEF Shifted
    <3>2. QED BY <2>3, <3>1, SameAddress
  <2>5. e \in {0, 16} /\ T.dest = Places(b)
    OBVIOUS
  <2>6. \A z \in Nat : ~InWord(T, At(EA(n, p), z))
    BY <1>3 DEF n
  <2> DEFINE a == EA(n, p)
  <2>7. Here(b, j, a)
    BY <1>3, <2>4 DEF Here
  <2> HIDE DEF Landing, n, a
  <2>8. At(At(a, e), y) \in Places(b) /\ \E z \in Nat : At(At(a, e), y) = At(a, z)
    BY <2>5, <2>7, LanesOfPlace
  <2>9. Free(T, At(At(EA(n, p), e), y))
    BY <2>5, <2>6, <2>8 DEF Free, Allowed, a
  <2>10. QED BY <2>4, <2>9
<1> HIDE DEF o, p, n
<1>5. Lands(T, o)
  BY <1>4 DEF Lands
<1>6. QED BY <1>5 DEF o

LEMMA NotStacked ==
  ASSUME NEW v, v[1] # "gpr" \/ v[2] # <<Sym("n", RSP.n)>>, NEW T, NEW z
  PROVE  ~InWord(T, At(v, z))
<1> DEFINE a == At(v, z)
<1>1. a[1] = v[1] /\ a[2] = v[2]
  BY DEF At
<1>2. \A k : Stk(k)[1] = "gpr" /\ Stk(k)[2] = <<Sym("n", RSP.n)>>
  BY DEF Stk
<1> HIDE DEF a
<1>3. \A k : a # Stk(k)
  BY <1>1, <1>2
<1>4. ~InWord(T, a)
  BY <1>3 DEF InWord
<1>5. QED BY <1>4 DEF a

LEMMA HeldValue ==
  ASSUME NEW T, T.sure, NEW n \in Gprs \ {RSP.n}, NEW v \in T.regs[n], NEW m, Sat(m, T)
  PROVE  RegVal(m, R64(n)) = v
<1>1. m.gpr[n] = v
  BY DEF Sat, Claims, GprClaims
<1>2. R64(n).class = "r64" /\ R64(n).n = n
  BY DEF R64, Reg
<1>3. QED BY <1>1, <1>2 DEF RegVal

(* A destination relative to RIP, through the register that RIP is put in. *)
LEMMA RipLands ==
  ASSUME NEW s, NEW b, NEW j \in 1 .. Len(b), NEW d \in Int, NEW v,
         b[j].operands[1] = MemOp(RIP, INVALID, d, v),
         NEW h, NEW sure, NEW S, S = Known(s, b, h, j, sure), S.sure, NEW n \in Gprs \ {RSP.n}, NEW e \in {0, 16}, NEW w
  PROVE  Lands(Holding(Taken(S, n), n, {S.rip}), MemOp(R64(n), INVALID, d + e, w))
<1> DEFINE x == INVALID
           T == Holding(Taken(S, n), n, {S.rip})
           B == BeforeAt(j)
<1>1. S.dest = Places(b) /\ S.rip = Rip(j)
  BY KnownFields
<1>2. T.dest = Places(b) /\ T.sure /\ Rip(j) \in T.regs[n]
  <2> DEFINE U == Taken(S, n)
             V == {S.rip}
  <2>1. T = Holding(U, n, V)
    OBVIOUS
  <2>2. U.dest = S.dest /\ U.sure = S.sure
    BY TakenFields
  <2>3. Rip(j) \in V
    BY <1>1
  <2> HIDE DEF T, U, V
  <2>4. T.dest = U.dest /\ T.sure = U.sure
    BY <2>1, HoldingFields
  <2>5. T.regs[n] = V
    BY <2>1, HoldingFields
  <2>6. QED BY <1>1, <2>2, <2>3, <2>4, <2>5
<1> HIDE DEF T, x, B
<1>3. RegVal(B, RIP) = <<"rip", <<>>, 16 * j>> /\ Rip(j) = <<"rip", <<>>, 16 * j>>
  BY BeforeValues DEF B, Rip, Sym
<1>4. Points(T, B, R64(n), RIP, x, 0)
  <2>1. 16 * j \in Int /\ 16 * j + 0 = 16 * j
    OBVIOUS
  <2>2. \A m : Sat(m, T) => RegVal(m, R64(n)) = <<"rip", <<>>, 16 * j>>
    BY <1>2, <1>3, HeldValue
  <2> DEFINE g == 16 * j
             k == 0
  <2>3. g \in Int /\ g + k = g /\ RegVal(B, RIP) = <<"rip", <<>>, g>>
        /\ \A m : Sat(m, T) => RegVal(m, R64(n)) = <<"rip", <<>>, g + k>>
    BY <1>3, <2>1, <2>2
  <2>4. x = INVALID
    BY DEF x
  <2> HIDE DEF g, k
  <2>5. Points(T, B, R64(n), RIP, x, k)
    BY <2>3, <2>4, Zenon DEF Points
  <2>6. QED BY <2>5 DEF k
<1>5. ASSUME NEW z \in Nat PROVE ~InWord(T, At(EA(B, b[j].operands[1]), z))
  <2>1. EA(B, MemOp(RIP, INVALID, d, v)) = At(<<"rip", <<>>, 16 * j>>, d)
    BY <1>3, PlainAddress
  <2>2. At(<<"rip", <<>>, 16 * j>>, d)[1] = "rip"
    BY DEF At
  <2>3. EA(B, b[j].operands[1])[1] # "gpr"
    BY <2>1, <2>2
  <2>4. QED BY <2>3, NotStacked
<1>6. b[j].operands[1] = MemOp(RIP, x, d, v)
  BY DEF x
<1>7. Lands(T, MemOp(R64(n), x, d + e - 0, w))
  <2> DEFINE k == 0
             q == d + e - k
  <2>1. k \in Int /\ q = d + e - k
    OBVIOUS
  <2>2. Points(T, BeforeAt(j), R64(n), RIP, x, k)
    BY <1>4 DEF B
  <2>3. \A z \in Nat : ~InWord(T, At(EA(BeforeAt(j), b[j].operands[1]), z))
    BY <1>5 DEF B
  <2> HIDE DEF k, q
  <2>4. Landing(T, b, j, RIP, x, d, v, R64(n), k, e, q)
    BY <1>2, <1>6, <2>1, <2>2, <2>3 DEF Landing
  <2>5. Lands(T, MemOp(R64(n), x, q, w))
    BY <2>4, LandsThere
  <2>6. QED BY <2>5 DEF q, k
<1>8. d + e - 0 = d + e
  OBVIOUS
<1>9. QED BY <1>7, <1>8 DEF T, x

(* A lane of the stack from the application's RSP up is in no saved word.  *)
LEMMA AboveSaved ==
  ASSUME NEW S, NEW s, S.words = Saved(s), NEW y \in Int, s = "DirectCall" => y >= 0
  PROVE  ~InWord(S, Stk(y))
<1> SUFFICES ASSUME InWord(S, Stk(y)) PROVE FALSE
  OBVIOUS
<1>1. PICK k \in Int : Saved(s)[k] # {} /\ Stk(y) \in {Stk(k), Stk(k + 4)}
  BY DEF InWord
<1>2. s = "DirectCall" /\ k = -8
  BY <1>1 DEF Saved
<1>3. y = k \/ y = k + 4
  BY <1>1, StkSame
<1>4. QED BY <1>2, <1>3

(* A destination through registers the block has not written.              *)
Indexes(S, x) == x = INVALID \/ \E y \in Gprs \ {RSP.n} : x = R64(y) /\ App(y) \in S.regs[y]

Reached(S, s, b, j, n, x, d, v) ==
  /\ s \in {"FarJump", "DirectCall"} /\ j \in 1 .. Len(b) /\ d \in Int /\ n \in Gprs
  /\ b[j].operands[1] = MemOp(R64(n), x, d, v)
  /\ S.sure /\ S.offset = StartOffset(s) /\ S.words = Saved(s) /\ S.dest = Places(b)
  /\ Indexes(S, x) /\ (n # RSP.n => App(n) \in S.regs[n])
  /\ x = INVALID /\ n = RSP.n /\ s = "DirectCall" => d >= 0

LEMMA RegisterLands ==
  ASSUME NEW S, NEW s, NEW b, NEW j, NEW n, NEW x, NEW d, NEW v, Reached(S, s, b, j, n, x, d, v),
         NEW k, k = IF n = RSP.n THEN S.offset ELSE 0, NEW e \in {0, 16}, NEW q, q = d + e - k, NEW w
  PROVE  Lands(S, MemOp(R64(n), x, q, w))
<1> USE DEF Reached
<1> DEFINE B == BeforeAt(j)
           t == <<Sym("n", n)>>
           zero == 0
<1>1. S.offset = StartOffset(s) /\ S.words = Saved(s) /\ S.dest = Places(b)
  OBVIOUS
<1>2. k \in Int /\ zero \in Int /\ zero + k = k
  BY <1>1 DEF StartOffset
<1>3. RegVal(B, R64(n)) = <<"gpr", t, zero>> /\ App(n) = <<"gpr", t, zero>>
  BY BeforeValues DEF App
<1>4. ASSUME x # INVALID
      PROVE  RegVal(B, x)[3] \in Int /\ \A m : Sat(m, S) => RegVal(m, x) = RegVal(B, x)
  <2>1. PICK y \in Gprs \ {RSP.n} : x = R64(y) /\ App(y) \in S.regs[y]
    BY <1>4 DEF Indexes
  <2>2. RegVal(B, x) = App(y)
    BY <2>1, BeforeValues
  <2>3. App(y)[3] = 0
    BY DEF App
  <2>4. \A m : Sat(m, S) => RegVal(m, x) = App(y)
    BY <2>1, HeldValue
  <2>5. QED BY <2>2, <2>3, <2>4
<1>5. ASSUME NEW m, Sat(m, S) PROVE RegVal(m, R64(n)) = <<"gpr", t, zero + k>>
  <2>1. CASE n = RSP.n
    <3>1. m.gpr[n] = <<"gpr", t, k>>
      BY <1>5, <2>1 DEF Sat, RspAt
    <3>2. RegVal(m, R64(n)) = m.gpr[n]
      BY DEF RegVal, R64, Reg
    <3>3. QED BY <1>2, <3>1, <3>2
  <2>2. CASE n # RSP.n
    <3>1. RegVal(m, R64(n)) = App(n)
      BY <1>5, <2>2, HeldValue
    <3>2. zero + k = zero
      BY <2>2
    <3>3. QED BY <1>3, <3>1, <3>2
  <2>3. QED BY <2>1, <2>2
<1> HIDE DEF t, zero
<1>6. Points(S, B, R64(n), R64(n), x, k)
  <2>1. x # INVALID => RegVal(B, x)[3] \in Int
    BY <1>4
  <2>2. \A m : Sat(m, S) => /\ RegVal(m, R64(n)) = <<"gpr", t, zero + k>>
                            /\ x # INVALID => RegVal(m, x) = RegVal(B, x)
    BY <1>4, <1>5
  <2> HIDE DEF B
  <2>3. QED BY <1>2, <1>3, <2>1, <2>2, Zenon DEF Points
<1>7. ASSUME NEW z \in Nat PROVE ~InWord(S, At(EA(B, b[j].operands[1]), z))
  <2> DEFINE a == EA(B, b[j].operands[1])
  <2>1. CASE x # INVALID
    <3>1. EA(B, MemOp(R64(n), x, d, v))[1] = "sum"
      <4> HIDE DEF B
      <4>1. EA(B, MemOp(R64(n), x, d, v))
              = <<"sum", <<At(RegVal(B, R64(n)), -(RegVal(B, R64(n))[3])), At(RegVal(B, x), -(RegVal(B, x)[3]))>>,
                  RegVal(B, R64(n))[3] + RegVal(B, x)[3] + d>>
        BY <2>1, IndexedAddress
      <4>2. QED BY <4>1
    <3>2. a[1] # "gpr"
      BY <3>1
    <3>3. QED BY <3>2, NotStacked
  <2>2. CASE x = INVALID
    <3>1. EA(B, MemOp(R64(n), x, d, v)) = At(<<"gpr", t, zero>>, d)
      BY <1>3, <2>2, PlainAddress
    <3>2. zero + d = d
      BY DEF zero
    <3>3. a = <<"gpr", t, d>>
      BY <3>1, <3>2, AtParts
    <3> HIDE DEF a
    <3>4. CASE n # RSP.n
      <4>1. t # <<Sym("n", RSP.n)>>
        BY <3>4 DEF t, Sym
      <4>2. a[2] = t
        BY <3>3
      <4>3. QED BY <4>1, <4>2, NotStacked DEF a
    <3>5. CASE n = RSP.n
      <4>1. a = Stk(d)
        BY <3>3, <3>5 DEF Stk, t
      <4>2. At(a, z) = Stk(d + z)
        BY <4>1, AtStk
      <4>3. d + z \in Int /\ (s = "DirectCall" => d + z >= 0)
        BY <2>2, <3>5
      <4>4. QED BY <1>1, <4>2, <4>3, AboveSaved DEF a
    <3>6. QED BY <3>4, <3>5
  <2>3. QED BY <2>1, <2>2
<1>8. Landing(S, b, j, R64(n), x, d, v, R64(n), k, e, q)
  <2>1. \A z \in Nat : ~InWord(S, At(EA(BeforeAt(j), b[j].operands[1]), z))
    BY <1>7 DEF B
  <2>2. QED BY <1>1, <1>2, <1>6, <2>1 DEF Landing, B
<1>9. QED BY <1>8, LandsThere

-----------------------------------------------------------------------------
(***************************************************************************)
(* The destinations of a block.                                            *)
(***************************************************************************)

(* An instruction writes to memory it can address, as it could before the  *)
(* block.  A function a test calls does not write to its return address.   *)
AddressedBy(b, j, s, n, o) ==
  /\ o.base = R64(n) /\ Unwritten(b, j, n)
  /\ \/ o.index = INVALID /\ (n = RSP.n /\ s = "DirectCall" => o.disp >= 0)
     \/ \E x \in Gprs \ {RSP.n} : o.index = R64(x) /\ Unwritten(b, j, x)
Addressed(b, s) ==
  \A j \in 1 .. Len(b) :
    LET o == b[j].operands[1]
    IN  /\ Encodable(b[j])
        /\ isMemoryOperand(o) =>
             /\ o.disp \in Int /\ o.width \in {8, 16, 32, 64, 128, 256}
             /\ o.base = RIP \/ \E n \in Gprs : AddressedBy(b, j, s, n, o)

LEMMA SupportedFirst ==
  ASSUME NEW i, Supported(i)
  PROVE  1 \in 1 .. Len(i.operands) /\ \E kind \in AnyKind : Matches(i.operands[1], kind)
<1> DEFINE x == ClassOf(i.iclass)
           forms == IF x = AND THEN x.forms \cup OtherAnds ELSE x.forms
<1>1. Suits(x) /\ Conforms(i, forms)
  BY SupportedClass
<1> HIDE DEF x
<1>2. Destined(forms, AnyKind)
  <2>1. GeneralKind \subseteq AnyKind
    BY DEF GeneralKind, AnyKind, RegisterKind
  <2>2. Destined(AND.forms \cup OtherAnds, AnyKind)
    BY <2>1, AndForms DEF Destined
  <2>3. x = AND => forms = AND.forms \cup OtherAnds
    OBVIOUS
  <2>4. x # AND => forms = x.forms
    OBVIOUS
  <2> HIDE DEF forms
  <2>5. QED BY <1>1, <2>2, <2>3, <2>4, SuitsDestined
<1>3. PICK f \in forms : /\ Len(i.operands) = Len(f)
                         /\ \A k \in 1 .. Len(f) : Matches(i.operands[k], f[k])
  BY <1>1 DEF Conforms
<1> HIDE DEF forms
<1>4. Len(f) \in 1 .. 4 /\ f[1] \in AnyKind
  BY <1>2, <1>3 DEF Destined
<1>5. 1 \in 1 .. Len(f)
  BY <1>4
<1>6. QED BY <1>3, <1>4, <1>5

(* The first operand, and what its instruction writes.                     *)
LEMMA SupportedDestination ==
  ASSUME NEW i, Supported(i), NEW o, o = i.operands[1]
  PROVE  /\ isMemoryOperand(o) => Written(i) = {} /\ o = MemOp(o.base, o.index, o.disp, o.width)
         /\ ~isMemoryOperand(o) => isXmm(o) \/ isYmm(o) \/ {o.reg.n} \cap Gprs \subseteq Written(i)
<1>1. PICK kind \in AnyKind : Matches(o, kind)
  BY SupportedFirst
<1>2. CASE kind \in VectorKind
  <2>1. Safe(o)
    BY <1>1, <1>2, MatchesKinds
  <2>2. QED BY <2>1 DEF Safe
<1>3. CASE kind \in RegisterKind
  <2>1. ~isMemoryOperand(o) /\ o.reg \in {R32(o.reg.n), R64(o.reg.n)}
    BY <1>1, <1>3, MatchesKinds
  <2>2. {o.reg.n} \cap Gprs \subseteq Written(i)
    BY <2>1 DEF Written
  <2>3. QED BY <2>1, <2>2
<1>4. CASE kind \in Memory
  <2>1. o = MemOp(o.base, o.index, o.disp, o.width)
    BY <1>1, <1>4, MatchesKinds
  <2>2. PICK base, index, d, w : o = MemOp(base, index, d, w)
    BY <2>1
  <2>3. isMemoryOperand(o) /\ o.reg = INVALID
    BY <2>2, MemOpFields
  <2>4. INVALID.class # "r32" /\ \A n : INVALID # R32(n) /\ INVALID # R64(n)
    BY DEF INVALID, R32, R64, Reg
  <2>5. Written(i) = {}
    BY <2>3, <2>4 DEF Written
  <2>6. QED BY <2>1, <2>3, <2>5
<1>5. QED BY <1>2, <1>3, <1>4 DEF AnyKind, VectorKind, RegisterKind

LEMMA SubstitutedOperands ==
  ASSUME NEW base, NEW x, NEW q, NEW w, NEW o, o = MemOp(base, x, q, w)
  PROVE  /\ \A r : base = RIP /\ x = INVALID => substRip(o, r) = MemOp(r, INVALID, q, w)
         /\ \A k : base = RSP => offsetRsp(o, k) = MemOp(base, x, q - k, w)
<1>1. isMemoryOperand(o) /\ o.base = base /\ o.index = x /\ o.disp = q
  BY MemOpFields
<1>2. RIP # INVALID
  BY DEF RIP, INVALID, Reg
<1>3. ASSUME NEW r, base = RIP, x = INVALID PROVE substRip(o, r) = MemOp(r, INVALID, q, w)
  <2> DEFINE p == substRip(o, r)
             was == INVALID
  <2>1. p = [o EXCEPT !.base = r, !.index = was]
    <3>1. p = [o EXCEPT !.base = IF @ = RIP THEN r ELSE @, !.index = IF @ = RIP THEN r ELSE @]
      BY <1>1 DEF substRip
    <3>2. (IF o.base = RIP THEN r ELSE o.base) = r /\ (IF o.index = RIP THEN r ELSE o.index) = was
      BY <1>1, <1>2, <1>3
    <3> HIDE DEF p, was
    <3>3. QED BY <3>1, <3>2
  <2> HIDE DEF p
  <2>2. p = MemOp(r, was, q, w)
    <3> HIDE DEF was
    <3>1. QED BY <2>1 DEF MemOp
  <2>3. QED BY <2>2 DEF p
<1>4. ASSUME NEW k, base = RSP PROVE offsetRsp(o, k) = MemOp(base, x, q - k, w)
  <2> DEFINE p == offsetRsp(o, k)
             d == q - k
  <2>1. p = [o EXCEPT !.disp = d]
    BY <1>1, <1>4 DEF offsetRsp
  <2> HIDE DEF p, d
  <2>2. p = MemOp(base, x, d, w)
    BY <2>1 DEF MemOp
  <2>3. QED BY <2>2 DEF p, d
<1>5. QED BY <1>3, <1>4

LEMMA StillUnwritten ==
  ASSUME NEW b, NEW j \in Nat, Written(b[j]) = {}, NEW h, h = j + 1, NEW n \in Gprs, Unwritten(b, j, n)
  PROVE  App(n) \in Kept(b, h)[n]
<1>1. \A k \in 1 .. h - 1 : k \in 1 .. j - 1 \/ k = j
  OBVIOUS
<1>2. Unwritten(b, h, n)
  BY <1>1, Zenon DEF Unwritten
<1>3. QED BY <1>2 DEF Kept

(* An operand relative to RIP, and one relative to a register.             *)
LEMMA RipTarget ==
  ASSUME NEW s, NEW b, NEW j \in 1 .. Len(b), NEW d \in Int, NEW v,
         b[j].operands[1] = MemOp(RIP, INVALID, d, v), 1 \in 1 .. Len(b[j].operands),
         NEW h, NEW sure, NEW S, S = Known(s, b, h, j, sure), S.sure, NEW up
  PROVE  Target(S, b[j], toEncoderOperand(b[j].operands[1], up))
<1> DEFINE o == b[j].operands[1]
           p == toEncoderOperand(o, up)
           q == HalfDisp(d, up)
           w == HalfWidth(v)
<1>1. PICK e \in {0, 16} : q = d + e
  BY DEF HalfDisp
<1>2. p = MemOp(RIP, INVALID, q, w)
  BY HalfOfMemory
<1>3. usesRipAddressing(b[j])
  <2>1. o.base = RIP /\ isMemoryOperand(o)
    BY MemOpFields
  <2>2. QED BY <2>1 DEF usesRipAddressing, hasRipBase
<1> HIDE DEF p, q, w
<1>4. ASSUME NEW n \in Gprs \ {RSP.n}
      PROVE  Lands(Holding(Taken(S, n), n, {S.rip}), substRip(p, R64(n)))
  <2> DEFINE T == Holding(Taken(S, n), n, {S.rip})
             r == R64(n)
             x == INVALID
             base == RIP
  <2>1. Lands(T, MemOp(r, x, d + e, w))
    BY RipLands
  <2>2. p = MemOp(base, x, q, w) /\ base = RIP /\ x = INVALID
    BY <1>2
  <2> HIDE DEF T, r, x, base
  <2>3. substRip(p, r) = MemOp(r, INVALID, q, w)
    BY <2>2, SubstitutedOperands
  <2>4. QED BY <1>1, <2>1, <2>2, <2>3 DEF T, r
<1>5. Target(S, b[j], p)
  BY <1>3, <1>4, Zenon DEF Target
<1>6. QED BY <1>5 DEF p

LEMMA RegisterTarget ==
  ASSUME NEW S, NEW s, NEW b, NEW j, NEW n, NEW x, NEW d, NEW v, Reached(S, s, b, j, n, x, d, v),
         1 \in 1 .. Len(b[j].operands), Encodable(b[j]), NEW up
  PROVE  Target(S, b[j], toEncoderOperand(b[j].operands[1], up))
<1> DEFINE o == b[j].operands[1]
           p == toEncoderOperand(o, up)
           q == HalfDisp(d, up)
           w == HalfWidth(v)
           r == R64(n)
<1>1. PICK e \in {0, 16} : q = d + e
  BY DEF HalfDisp, Reached
<1>2. o = MemOp(r, x, d, v) /\ d \in Int
  BY DEF Reached
<1> HIDE DEF o
<1>3. p = MemOp(r, x, q, w)
  BY <1>2, HalfOfMemory
<1> HIDE DEF p, q, w
<1>4. o.base = r /\ o.index = x /\ isMemoryOperand(o)
  <2> HIDE DEF r
  <2>1. QED BY <1>2, MemOpFields
<1>5. x \notin {RIP, RSP} /\ \A l \in 1 .. Len(b[j].operands) : isMemoryOperand(b[j].operands[l]) => l = 1
  BY <1>4 DEF Encodable, o
<1>6. r # RIP /\ (r = RSP <=> n = RSP.n)
  BY DEF RIP, RSP, R64, Reg
<1> HIDE DEF r
<1>7. ~usesRipAddressing(b[j]) /\ (usesRspAddressing(b[j]) <=> n = RSP.n)
  BY <1>4, <1>5, <1>6 DEF usesRipAddressing, usesRspAddressing, hasRipBase, hasRspBase, o
<1>8. \A k : k = (IF n = RSP.n THEN S.offset ELSE 0) => Lands(S, MemOp(r, x, d + e - k, w))
  <2>1. ASSUME NEW k, k = IF n = RSP.n THEN S.offset ELSE 0, NEW a, a = d + e - k
        PROVE  Lands(S, MemOp(r, x, a, w))
    BY <2>1, RegisterLands DEF r
  <2>2. QED BY <2>1
<1>9. CASE n = RSP.n
  <2> DEFINE k == S.offset
  <2>1. k = IF n = RSP.n THEN S.offset ELSE 0
    BY <1>9
  <2>2. q - k = d + e - k
    <3>1. k \in Int
      BY DEF Reached, StartOffset
    <3> HIDE DEF k
    <3>2. QED BY <1>1, <1>2, <3>1
  <2>3. Lands(S, MemOp(r, x, q - k, w))
    BY <1>8, <2>1, <2>2
  <2>4. r = RSP
    BY <1>6, <1>9
  <2>5. offsetRsp(p, k) = MemOp(r, x, q - k, w)
    BY <1>3, <2>4, SubstitutedOperands
  <2>6. Target(S, b[j], p)
    BY <1>7, <1>9, <2>3, <2>5 DEF Target
  <2>7. QED BY <2>6 DEF p, o
<1>10. CASE n # RSP.n
  <2> DEFINE k == 0
  <2>1. q = d + e - k /\ k = IF n = RSP.n THEN S.offset ELSE 0
    BY <1>1, <1>2, <1>10
  <2> HIDE DEF k
  <2>2. Lands(S, p)
    BY <1>3, <1>8, <2>1
  <2>3. Target(S, b[j], p)
    BY <1>7, <1>10, <2>2 DEF Target
  <2>4. QED BY <2>3 DEF p, o
<1>11. QED BY <1>9, <1>10

LEMMA StateFits ==
  ASSUME NEW s \in {"FarJump", "DirectCall"}, NEW b, Len(b) \in Nat, NEW j \in 1 .. Len(b),
         Supported(b[j]), NEW h, h = j + 1, NEW sure, NEW S, S = Known(s, b, h, j, sure),
         S.sure => Addressed(b, s)
  PROVE  Fits(S, b[j]) /\ \A n \in Written(b[j]) : Bare(S, n)
<1> DEFINE o == b[j].operands[1]
           i == b[j]
<1>1. S.regs = Kept(b, h)
  BY KnownFields
<1>2. \A n \in Written(i) : Bare(S, n)
  <2>1. j \in Nat /\ j >= 1
    OBVIOUS
  <2>2. \A n \in Gprs : n \in Written(b[j]) => Kept(b, j + 1)[n] = {}
    BY <2>1, KeptLess
  <2>3. QED BY <1>1, <2>2 DEF Bare
<1>3. /\ isMemoryOperand(o) => Written(i) = {} /\ o = MemOp(o.base, o.index, o.disp, o.width)
      /\ ~isMemoryOperand(o) => isXmm(o) \/ isYmm(o) \/ {o.reg.n} \cap Gprs \subseteq Written(i)
  BY SupportedDestination
<1>4. CASE ~isMemoryOperand(o)
  <2>1. isXmm(o) \/ isYmm(o) \/ Bare(S, o.reg.n)
    BY <1>2, <1>3, <1>4 DEF Bare
  <2>2. Fits(S, i)
    BY <1>4, <2>1 DEF Fits
  <2>3. QED BY <1>2, <2>2
<1>5. CASE isMemoryOperand(o) /\ S.sure
  <2>1. /\ Encodable(i) /\ o.disp \in Int /\ o.width \in {8, 16, 32, 64, 128, 256}
        /\ o.base = RIP \/ \E n \in Gprs : AddressedBy(b, j, s, n, o)
    BY <1>5 DEF Addressed
  <2>2. 1 \in 1 .. Len(i.operands)
    BY SupportedFirst
  <2>3. PICK base, x, d, v : o = MemOp(base, x, d, v) /\ base = o.base /\ x = o.index /\ d = o.disp
    BY <1>3, <1>5
  <2>4. d \in Int
    BY <2>1, <2>3
  <2>5. ASSUME NEW up PROVE Target(S, i, toEncoderOperand(o, up))
    <3>1. CASE base = RIP
      <4>1. \A k \in 1 .. Len(i.operands) :
              isMemoryOperand(i.operands[k]) /\ i.operands[k].base = RIP => i.operands[k].index = INVALID
        BY <2>1 DEF Encodable
      <4>2. x = INVALID
        BY <1>5, <2>2, <2>3, <3>1, <4>1
      <4>3. b[j].operands[1] = MemOp(RIP, INVALID, d, v)
        BY <2>3, <3>1, <4>2
      <4>4. QED BY <1>5, <2>2, <2>4, <4>3, RipTarget
    <3>2. CASE base # RIP
      <4>1. PICK n \in Gprs : AddressedBy(b, j, s, n, o)
        BY <2>1, <2>3, <3>2
      <4>2. /\ base = R64(n) /\ Unwritten(b, j, n)
            /\ \/ x = INVALID /\ (n = RSP.n /\ s = "DirectCall" => d >= 0)
               \/ \E y \in Gprs \ {RSP.n} : x = R64(y) /\ Unwritten(b, j, y)
        BY <2>3, <4>1 DEF AddressedBy
      <4>3. \A y \in Gprs : Unwritten(b, j, y) => App(y) \in S.regs[y]
        BY <1>1, <1>3, <1>5, StillUnwritten
      <4>4. Indexes(S, x)
        BY <4>2, <4>3 DEF Indexes
      <4>5. x = INVALID /\ n = RSP.n /\ s = "DirectCall" => d >= 0
        <5>1. \A y : R64(y) # INVALID
          BY DEF R64, INVALID, Reg
        <5>2. QED BY <4>2, <5>1
      <4>6. b[j].operands[1] = MemOp(R64(n), x, d, v) /\ App(n) \in S.regs[n]
        BY <2>3, <4>2, <4>3
      <4>7. S.offset = StartOffset(s) /\ S.words = Saved(s) /\ S.dest = Places(b)
        BY KnownFields
      <4>8. Reached(S, s, b, j, n, x, d, v)
        BY <1>5, <2>4, <4>4, <4>5, <4>6, <4>7 DEF Reached
      <4>9. QED BY <2>1, <2>2, <4>8, RegisterTarget
    <3>3. QED BY <3>1, <3>2
  <2>6. Fits(S, i)
    BY <1>5, <2>1, <2>5 DEF Fits
  <2>7. QED BY <1>2, <2>6
<1>6. CASE ~S.sure
  BY <1>2, <1>6 DEF Fits
<1>7. QED BY <1>4, <1>5, <1>6

-----------------------------------------------------------------------------
(***************************************************************************)
(* The code of a block.                                                    *)
(***************************************************************************)

(* As the block is entered: with RAX pushed, or the return address.        *)
Entry(s, b, sure) ==
  IF s = "FarJump" THEN Taken(Known(s, b, 1, 1, sure), RAX.n) ELSE Known(s, b, 1, 1, sure)

(* After the n-th instruction, and once the code has ended.                *)
Done(s, b, n, sure) == Known(s, b, n, n, sure)
Left(S) == Holding(Taken(S, RAX.n), RAX.n, {ReturnAddress})
End(s, S) == IF s = "FarJump" THEN Going(Left(S), Left(S).offset, Left(S).regs[RAX.n])
             ELSE Going(S, S.offset + 8, S.words[S.offset])

LEMMA RaxFacts == RAX.n = 0 /\ RAX = R64(RAX.n) /\ RAX.n \in Gprs \ {RSP.n} /\ RAX.class = "r64"
BY RegistersAssumption DEF RAX, RSP, R64, Reg

LEMMA StartsAt ==
  ASSUME NEW s \in {"FarJump", "DirectCall"}, NEW b, NEW j, NEW k, NEW sure \in BOOLEAN
  PROVE  /\ Level(Known(s, b, j, k, sure))
         /\ Known(s, b, j, k, sure).offset = IF s = "FarJump" THEN 0 ELSE -8
<1>1. Known(s, b, j, k, sure).offset = StartOffset(s)
  BY KnownFields
<1>2. QED BY <1>1, KnownLevel DEF StartOffset

LEMMA PrologueTracked ==
  ASSUME NEW s \in {"FarJump", "DirectCall"}, NEW b, NEW sure \in BOOLEAN, NEW n, n = 1
  PROVE  Tracked(prologue(s), Entry(s, b, sure), Done(s, b, n, sure))
<1> DEFINE S == Known(s, b, 1, 1, sure)
           r == Request("POP", <<RegOp(RAX)>>, -8)
<1>1. Level(S) /\ S.offset = (IF s = "FarJump" THEN 0 ELSE -8) /\ Done(s, b, n, sure) = S
  BY StartsAt DEF Done
<1>2. CASE s = "FarJump"
  <2>1. prologue(s) = <<r>> /\ Entry(s, b, sure) = Taken(S, RAX.n)
    BY <1>2 DEF prologue, Entry
  <2>2. r.op = "POP" /\ r.args[1] = RegOp(R64(RAX.n)) /\ r.rspOffset = -8
    BY RaxFacts DEF Request
  <2> HIDE DEF S, r
  <2>3. r.rspOffset = S.offset - 8
    BY <1>1, <1>2, <2>2
  <2>4. Leads(Taken(S, RAX.n), r, S)
    BY <1>1, <2>2, <2>3, PopLeads, RaxFacts
  <2>5. QED BY <1>1, <2>1, <2>4, TrackedOne
<1>3. CASE s = "DirectCall"
  <2>1. prologue(s) = <<>> /\ Entry(s, b, sure) = S
    BY <1>3 DEF prologue, Entry
  <2> HIDE DEF S, r
  <2>2. QED BY <1>1, <2>1, TrackedEmpty, WeakerSelf
<1>4. QED BY <1>2, <1>3

LEMMA EpilogueTracked ==
  ASSUME NEW s \in {"FarJump", "DirectCall"}, NEW b, NEW n, NEW sure \in BOOLEAN,
         NEW S, S = Done(s, b, n, sure)
  PROVE  Tracked(epilogue(s), S, End(s, S))
<1> DEFINE p == Request("PUSH", <<RegOp(RAX)>>, 0)
           m == Request("MOV", <<RegOp(RAX), ImmOp(ReturnAddress)>>, -8)
           j == Request("JMP", <<RegOp(RAX)>>, -8)
           r == Request("RET", <<>>, -8)
           T == Taken(S, RAX.n)
           U == Left(S)
<1>1. Level(S) /\ S.offset = (IF s = "FarJump" THEN 0 ELSE -8)
  BY StartsAt DEF Done
<1>2. /\ p.op = "PUSH" /\ p.args[1] = RegOp(R64(RAX.n)) /\ p.rspOffset = 0
      /\ m.op = "MOV" /\ m.args[1] = RegOp(R64(RAX.n)) /\ m.args[2] = ImmOp(ReturnAddress)
      /\ m.rspOffset = -8
      /\ j.op = "JMP" /\ j.args[1] = RegOp(R64(RAX.n)) /\ j.rspOffset = -8
      /\ r.op = "RET" /\ r.rspOffset = -8
  BY RaxFacts DEF Request
<1>3. CASE s = "FarJump"
  <2>1. epilogue(s) = (<<p>> \o <<m>>) \o <<j>>
    BY <1>3 DEF epilogue
  <2>2. Level(T) /\ T.offset = S.offset - 8
    BY <1>1, ChangedLevel, TakenFields
  <2>3. U = Holding(T, RAX.n, {ReturnAddress})
    BY DEF Left
  <2> HIDE DEF p, m, j, r, T, U
  <2>4. Level(U) /\ U.offset = T.offset
    BY <2>2, <2>3, ChangedLevel, HoldingFields
  <2>5. S.offset = 0 /\ T.offset = -8 /\ U.offset = -8
    BY <1>1, <1>3, <2>2, <2>4
  <2>6. Leads(S, p, T)
    BY <1>1, <1>2, <2>5, PushLeads, RaxFacts DEF T
  <2>7. Leads(T, m, U)
    <3>1. Whole64(ReturnAddress)
      BY SymWhole DEF ReturnAddress, Sym
    <3>2. QED BY <1>2, <2>2, <2>3, <2>5, <3>1, MovImmLeads, RaxFacts
  <2>8. Leads(U, j, Going(U, U.offset, U.regs[RAX.n]))
    BY <1>2, <2>4, <2>5, JumpLeads, RaxFacts
  <2>9. End(s, S) = Going(U, U.offset, U.regs[RAX.n])
    BY <1>3 DEF End, U
  <2>10. Tracked(<<p>>, S, T) /\ Tracked(<<m>>, T, U) /\ Tracked(<<j>>, U, End(s, S))
    BY <2>6, <2>7, <2>8, <2>9, TrackedOne
  <2>11. Tracked(<<p>> \o <<m>>, S, U)
    BY <2>10, TrackedConcat
  <2>12. QED BY <2>1, <2>10, <2>11, TrackedConcat
<1>4. CASE s = "DirectCall"
  <2>1. epilogue(s) = <<r>> /\ End(s, S) = Going(S, S.offset + 8, S.words[S.offset])
    BY <1>4 DEF epilogue, End
  <2> HIDE DEF p, m, j, r, T, U
  <2>2. S.offset <= -8 /\ r.rspOffset = S.offset
    BY <1>1, <1>2, <1>4
  <2>3. Leads(S, r, End(s, S))
    BY <1>1, <1>2, <2>1, <2>2, RetLeads
  <2>4. QED BY <2>1, <2>3, TrackedOne
<1>5. QED BY <1>3, <1>4

(* One instruction of the block.                                           *)
LEMMA PieceTracked ==
  ASSUME NEW b, Len(b) \in Nat, NEW j \in 1 .. Len(b), Supported(b[j]),
         NEW s \in {"FarJump", "DirectCall"}, NEW sure \in BOOLEAN,
         sure = TRUE => Addressed(b, s), NEW h, h = j + 1
  PROVE  Tracked(CompileInstruction(b[j], Rip(j), s).requests, Done(s, b, j, sure), Done(s, b, h, sure))
<1> DEFINE from == Known(s, b, j, j, sure)
           at == Known(s, b, h, j, sure)
           to == Known(s, b, h, h, sure)
<1>1. at.rip = Rip(j) /\ StartOffset(s) = at.offset /\ at.sure = sure
  BY KnownFields
<1>2. Level(from) /\ Level(at)
  BY KnownLevel
<1>3. Weaker(from, at)
  <2>1. j \in Nat
    OBVIOUS
  <2>2. \A n \in Gprs : Kept(b, h)[n] \subseteq Kept(b, j)[n]
    BY <2>1, KeptLess
  <2>3. QED BY <2>2, KnownWeaker
<1>4. Weaker(at, to)
  <2>1. \A n \in Gprs : Kept(b, h)[n] \subseteq Kept(b, h)[n]
    OBVIOUS
  <2>2. QED BY <2>1, KnownWeaker
<1>5. at.sure => Addressed(b, s)
  <2> HIDE DEF at
  <2>1. QED BY <1>1
<1>6. Fits(at, b[j]) /\ \A n \in Written(b[j]) : Bare(at, n)
  <2> DEFINE S == at
  <2>1. S = Known(s, b, h, j, sure) /\ (S.sure => Addressed(b, s))
    BY <1>5
  <2> HIDE DEF S
  <2>2. Fits(S, b[j]) /\ \A n \in Written(b[j]) : Bare(S, n)
    BY <2>1, StateFits
  <2>3. QED BY <2>2 DEF S
<1>7. Done(s, b, j, sure) = from /\ Done(s, b, h, sure) = to
  BY DEF Done
<1> HIDE DEF from, at, to
<1>8. Tracked(CompileInstruction(b[j], at.rip, s).requests, from, at)
  BY <1>1, <1>2, <1>3, <1>6, CompiledTracked
<1>9. QED BY <1>1, <1>4, <1>7, <1>8, TrackedWeaker, WeakerSelf

LEMMA BlockTracked ==
  ASSUME NEW b, Len(b) \in Nat, \A j \in 1 .. Len(b) : Supported(b[j]),
         NEW s \in {"FarJump", "DirectCall"}, NEW sure \in BOOLEAN, sure = TRUE => Addressed(b, s),
         NEW compiled, compiled = Compiled(b, s), NEW k, k = Len(b) + 1
  PROVE  Tracked(prologue(s) \o FlattenSeq([j \in 1 .. Len(compiled) |-> compiled[j].requests])
                             \o epilogue(s), Entry(s, b, sure), End(s, Done(s, b, k, sure)))
<1> DEFINE n == Len(b)
           st == [j \in 1 .. n + 1 |-> Done(s, b, j, sure)]
           pieces == [j \in 1 .. n |-> CompileInstruction(b[j], Rip(j), s).requests]
           body == FlattenSeq(pieces)
<1>1. [j \in 1 .. Len(compiled) |-> compiled[j].requests] = pieces
  <2>1. Len(compiled) = n /\ \A j \in 1 .. n : compiled[j] = CompileInstruction(b[j], Rip(j), s)
    BY DEF Compiled
  <2>2. QED BY <2>1
<1>2. \A j \in 1 .. n : Tracked(pieces[j], st[j], st[j + 1])
  <2>1. ASSUME NEW j \in 1 .. n, NEW h, h = j + 1 PROVE Tracked(pieces[j], st[j], st[h])
    <3>1. Supported(b[j])
      OBVIOUS
    <3>2. Tracked(CompileInstruction(b[j], Rip(j), s).requests, Done(s, b, j, sure), Done(s, b, h, sure))
      BY <2>1, <3>1, PieceTracked
    <3>3. j \in 1 .. n + 1 /\ h \in 1 .. n + 1
      BY <2>1
    <3>4. st[j] = Done(s, b, j, sure) /\ st[h] = Done(s, b, h, sure)
      BY <3>3
    <3>5. pieces[j] = CompileInstruction(b[j], Rip(j), s).requests
      OBVIOUS
    <3> HIDE DEF st, pieces
    <3>6. QED BY <3>2, <3>4, <3>5
  <2> HIDE DEF st, pieces
  <2>2. QED BY <2>1
<1>3. 1 \in 1 .. n + 1 /\ n + 1 \in 1 .. n + 1
  OBVIOUS
<1>4. st[1] = Done(s, b, 1, sure) /\ st[n + 1] = Done(s, b, k, sure)
  BY <1>3
<1>5. pieces = [j \in 1 .. n |-> pieces[j]] /\ n \in Nat
  OBVIOUS
<1>6. Level(st[1])
  BY <1>4, KnownLevel DEF Done
<1> HIDE DEF pieces, st, n
<1>7. Tracked(body, st[1], st[n + 1])
  BY <1>2, <1>5, <1>6, TrackedFlatten
<1> HIDE DEF body
<1>8. Tracked(prologue(s), Entry(s, b, sure), st[1])
  <2> DEFINE o == 1
  <2>1. o = 1
    OBVIOUS
  <2> HIDE DEF o
  <2>2. Tracked(prologue(s), Entry(s, b, sure), Done(s, b, o, sure))
    BY <2>1, PrologueTracked
  <2>3. QED BY <1>4, <2>1, <2>2
<1>9. Tracked(epilogue(s), st[n + 1], End(s, st[n + 1]))
  BY <1>4, EpilogueTracked
<1>10. Tracked(prologue(s) \o body, Entry(s, b, sure), st[n + 1])
  BY <1>7, <1>8, TrackedConcat
<1>11. Tracked((prologue(s) \o body) \o epilogue(s), Entry(s, b, sure), End(s, st[n + 1]))
  BY <1>9, <1>10, TrackedConcat
<1>12. QED BY <1>1, <1>4, <1>11 DEF body

-----------------------------------------------------------------------------
(***************************************************************************)
(* The invariant.                                                          *)
(***************************************************************************)

(* The CPU before the block.                                               *)
LEMMA CpuRecord ==
  ASSUME NEW regs, NEW xmms, NEW mem, NEW f, NEW x, NEW ip, NEW t, NEW no,
         regs = [n \in Gprs |-> regs[n]], regs[RSP.n] = <<"gpr", <<Sym("n", RSP.n)>>, 0>>
  PROVE  RspAt([gpr |-> regs, xmm |-> xmms, mem |-> mem, flags |-> f, mxcsr |-> x,
                rip |-> ip, target |-> t, fault |-> no], 0)
BY DEF RspAt, Cpu

LEMMA ApplicationFields ==
  ASSUME NEW mem, NEW app, app = [Application EXCEPT !.mem = mem]
  PROVE  /\ RspAt(app, 0) /\ app.mem = mem
         /\ \A n \in Gprs : app.gpr[n] = App(n) /\ Application.gpr[n] = App(n)
<1> DEFINE regs == [n \in Gprs |-> <<"gpr", <<Sym("n", n)>>, 0>>]
           xmms == [n \in Xmms |-> [k \in 1 .. 4 |-> <<"xmm", <<Sym("n", n)>>, k>>]]
           none == <<>>
           no == FALSE
           f == Sym("flags", 0)
           x == Sym("mxcsr", 0)
           ip == Rip(1)
           t == Sym("none", 0)
<1>1. Application = [gpr |-> regs, xmm |-> xmms, mem |-> none, flags |-> f, mxcsr |-> x,
                     rip |-> ip, target |-> t, fault |-> no]
  BY DEF Application
<1>2. regs = [n \in Gprs |-> regs[n]] /\ regs[RSP.n] = <<"gpr", <<Sym("n", RSP.n)>>, 0>>
  BY RspFacts
<1>3. \A n \in Gprs : regs[n] = App(n)
  BY DEF App
<1> HIDE DEF regs, xmms, none, no, f, x, ip, t
<1>4. app = [gpr |-> regs, xmm |-> xmms, mem |-> mem, flags |-> f, mxcsr |-> x,
             rip |-> ip, target |-> t, fault |-> no]
  BY <1>1
<1>5. RspAt(app, 0)
  <2>1. RspAt([gpr |-> regs, xmm |-> xmms, mem |-> mem, flags |-> f, mxcsr |-> x,
               rip |-> ip, target |-> t, fault |-> no], 0)
    BY <1>2, CpuRecord, Zenon
  <2>2. QED BY <1>4, <2>1, Zenon
<1>6. app.mem = mem /\ app.gpr = regs /\ Application.gpr = regs
  BY <1>1, <1>4
<1>7. QED BY <1>3, <1>5, <1>6

LEMMA MembersConfined == ASSUME NEW f PROVE \A a \in DOMAIN Members(f) : IsMember(a)
<1> DEFINE v == Zeros(4)
           c == Sym("shufConst", 0)
           none == <<>>
<1>1. DOMAIN none = {}
  OBVIOUS
<1>2. c[1] = "shufConst"
  BY DEF Sym
<1>3. Members(f) = (IF f = "kept" THEN Store(none, c, v) ELSE none)
  BY DEF Members
<1> HIDE DEF v, c, none
<1>4. \A a \in DOMAIN Store(none, c, v) : IsMember(a)
  <2>1. DOMAIN Store(none, c, v) = {At(c, 4 * (i - 1)) : i \in 1 .. Len(v)} \cup DOMAIN none
    BY StoreDomain
  <2>2. \A k : At(c, k)[1] = "shufConst"
    BY <1>2 DEF At
  <2>3. QED BY <1>1, <2>1, <2>2 DEF IsMember
<1>5. QED BY <1>1, <1>3, <1>4

LEMMA ApplicationSat ==
  ASSUME NEW f, NEW app, app = [Application EXCEPT !.mem = Members(f)], NEW b, NEW sure \in BOOLEAN
  PROVE  Sat(app, Known("FarJump", b, 1, 1, sure))
<1> DEFINE S == Known("FarJump", b, 1, 1, sure)
<1>1. /\ S.offset = StartOffset("FarJump") /\ S.regs = Kept(b, 1) /\ S.words = Saved("FarJump")
      /\ S.target = {}
  BY KnownFields
<1> HIDE DEF S
<1>2. /\ RspAt(app, 0) /\ app.mem = Members(f) /\ \A n \in Gprs : app.gpr[n] = App(n)
  BY ApplicationFields
<1>3. S.offset = 0
  BY <1>1 DEF StartOffset
<1>4. GprClaims(app, S)
  <2>1. \A n \in Gprs : S.regs[n] \subseteq {App(n)}
    BY <1>1 DEF Kept
  <2>2. \A n : Whole64(App(n))
    BY SymWhole DEF App
  <2>3. QED BY <1>2, <2>1, <2>2 DEF GprClaims
<1>5. WordClaims(app.mem, S)
  BY <1>1 DEF WordClaims, Saved
<1>6. Confined(app.mem, S)
  BY <1>2, MembersConfined DEF Confined, Allowed
<1>7. Sat(app, S)
  BY <1>1, <1>2, <1>3, <1>4, <1>5, <1>6 DEF Sat, Claims
<1>8. QED BY <1>7 DEF S

LEMMA EnteredSat ==
  ASSUME NEW f, NEW s \in {"FarJump", "DirectCall"}, NEW b, NEW sure \in BOOLEAN
  PROVE  Sat(Entered(s, [Application EXCEPT !.mem = Members(f)]), Entry(s, b, sure))
<1> DEFINE app == [Application EXCEPT !.mem = Members(f)]
           S == Known("FarJump", b, 1, 1, sure)
<1>1. Sat(app, S)
  BY ApplicationSat
<1>2. Level(S) /\ S.offset = 0
  <2> DEFINE far == "FarJump"
  <2>1. far = "FarJump" /\ far \in {"FarJump", "DirectCall"}
    OBVIOUS
  <2>2. S = Known(far, b, 1, 1, sure)
    OBVIOUS
  <2> HIDE DEF far, S
  <2>3. QED BY <2>1, <2>2, StartsAt
<1>3. S.words = Saved("FarJump") /\ S.regs = Kept(b, 1) /\ S.dest = Places(b) /\ S.sure = sure
  BY KnownFields
<1> HIDE DEF app
<1>4. CASE s = "FarJump"
  <2> DEFINE n == RAX.n
             v == app.gpr[n]
             T == Taken(S, n)
             m == PushVal(app, v)
             c == Sym("chunk", 0)
             none == {}
  <2>1. Entered(s, app) = SetGpr(m, RAX, c)
    BY <1>4, RaxFacts DEF Entered, SetGpr
  <2>2. Entry(s, b, sure) = T
    BY <1>4 DEF Entry
  <2> HIDE DEF S
  <2>3. Sat(m, T)
    <3> DEFINE regs == Without(S, n)
               V == S.regs[n]
    <3>1. \A k \in Gprs \ {RSP.n} : regs[k] \subseteq S.regs[k]
      BY DEF Without
    <3>2. S.sure => \A u \in V : u = v /\ Whole64(u)
      BY <1>1, RaxFacts DEF Sat, Claims, GprClaims
    <3>3. T = Changed(S, S.offset - 8, regs, Above(S, V))
      BY DEF Taken
    <3> HIDE DEF T, regs, V, m, v
    <3>4. Sat(PushVal(app, v), Changed(S, S.offset - 8, regs, Above(S, V)))
      BY <1>1, <1>2, <3>1, <3>2, PushSat
    <3>5. QED BY <3>3, <3>4 DEF m
  <2> HIDE DEF T, m, c
  <2>4. Sat(SetGpr(m, RAX, c), Holding(T, n, none))
    BY <2>3, RaxFacts, SetGprSat
  <2>5. Implied(Holding(T, n, none), T)
    <3> DEFINE U == Holding(T, n, none)
    <3>1. /\ U.offset = T.offset /\ U.words = T.words /\ U.dest = T.dest /\ U.target = T.target
          /\ U.sure = T.sure /\ \A x \in Gprs : U.regs[x] = IF x = n THEN none ELSE T.regs[x]
      <4> HIDE DEF none
      <4>1. QED BY HoldingFields
    <3>2. T.regs[n] = {}
      BY TakenFields, RaxFacts DEF T
    <3> HIDE DEF U
    <3>3. Implied(U, T)
      BY <3>1, <3>2 DEF Implied
    <3>4. QED BY <3>3 DEF U
  <2>6. Sat(SetGpr(m, RAX, c), T)
    BY <2>4, <2>5, Weakens
  <2>7. QED BY <2>1, <2>2, <2>6 DEF app
<1>5. CASE s = "DirectCall"
  <2> DEFINE V == {ReturnAddress}
             T == Known(s, b, 1, 1, sure)
             P == Changed(S, S.offset - 8, S.regs, Above(S, V))
  <2>1. Entered(s, app) = PushVal(app, ReturnAddress) /\ Entry(s, b, sure) = T
    BY <1>5 DEF Entered, Entry
  <2>2. T.offset = -8 /\ T.words = Saved(s) /\ T.regs = Kept(b, 1) /\ T.dest = Places(b)
        /\ T.target = {} /\ T.sure = sure
    <3>1. T.offset = StartOffset(s)
      BY KnownFields
    <3>2. T.offset = -8
      BY <1>5, <3>1 DEF StartOffset
    <3>3. QED BY <3>2, KnownFields
  <2> HIDE DEF S, T
  <2>3. Sat(PushVal(app, ReturnAddress), P)
    <3>1. \A u \in V : u = ReturnAddress /\ Whole64(u)
      BY SymWhole DEF ReturnAddress, Sym
    <3>2. \A n \in Gprs \ {RSP.n} : S.regs[n] \subseteq S.regs[n]
      OBVIOUS
    <3> DEFINE regs == S.regs
    <3> HIDE DEF V, regs
    <3>3. Sat(PushVal(app, ReturnAddress), Changed(S, S.offset - 8, regs, Above(S, V)))
      BY <1>1, <1>2, <3>1, <3>2, PushSat DEF regs
    <3>4. QED BY <3>3 DEF regs
  <2>4. P.offset = S.offset - 8 /\ P.regs = S.regs /\ P.words = Above(S, V) /\ P.dest = S.dest
        /\ P.sure = S.sure
    <3> HIDE DEF V
    <3>1. QED BY ChangedFields
  <2> HIDE DEF P
  <2>5. Implied(P, T)
    <3>1. P.offset = -8 /\ P.regs = T.regs /\ P.dest = T.dest /\ P.sure = T.sure
      BY <1>2, <1>3, <2>2, <2>4
    <3>2. \A k \in Int : k >= -8 => T.words[k] \subseteq P.words[k]
      <4>1. S.offset - 8 = -8
        BY <1>2
      <4>2. Above(S, V)[-8] = V
        BY <1>2, <4>1, AboveFields
      <4>3. \A k \in Int : T.words[k] = IF k = -8 THEN V ELSE {}
        BY <1>5, <2>2 DEF Saved
      <4>4. QED BY <2>4, <4>2, <4>3
    <3>3. QED BY <2>2, <3>1, <3>2 DEF Implied
  <2>6. QED BY <2>1, <2>3, <2>5, Weakens DEF app
<1>6. QED BY <1>4, <1>5

(* Once the block is over: RSP is the application's; and, of a block whose *)
(* destinations are addressed, where it goes on and what it has kept.      *)
Finished(m, b, sure) ==
  /\ RspAt(m, 0)
  /\ sure = TRUE => /\ m.target = ReturnAddress
                    /\ \A n \in Gprs \ {RSP.n} : Unwritten(b, Len(b) + 1, n) => m.gpr[n] = App(n)

Finish(s, b, sure) == End(s, Done(s, b, Len(b) + 1, sure))

(* What is known of the CPU before the code runs, where the code that is   *)
(* left leads from there, and what is known after it.                      *)
Entering(sure) == phase = "compile" => Sat(machine, Entry(strategy, block, sure))
Executing(sure) ==
  phase = "run" =>
    \E A : /\ Level(A) /\ A.sure = sure /\ A.dest = Places(block) /\ Sat(machine, A)
           /\ machine.fault \/ Tracked(code, A, Finish(strategy, block, sure))
Returning(sure) == phase = "resumed" => machine.fault \/ Finished(machine, block, sure)

Emulated(sure) == /\ block \in Blocks /\ strategy \in Strategies
                  /\ Entering(sure) /\ Executing(sure) /\ Returning(sure)

AddressedBlocks(blocks, strategies) == \A b \in blocks : \A s \in strategies : Addressed(b, s)

LEMMA InitEmulated == ASSUME NEW sure \in BOOLEAN, Init PROVE Emulated(sure)
<1>1. block \in Blocks /\ strategy \in Strategies /\ phase = "compile"
  BY DEF Init
<1>2. PICK f : machine = Entered(strategy, [Application EXCEPT !.mem = Members(f)])
  BY DEF Init
<1>3. Sat(machine, Entry(strategy, block, sure))
  BY <1>1, <1>2, EnteredSat, StrategiesAssumption
<1>4. QED BY <1>1, <1>3 DEF Emulated, Entering, Executing, Returning

(* An emitted instruction that faults changes nothing but fault.           *)
LEMMA FaultKeeps ==
  ASSUME NEW m, NEW S, Sat(m, S), NEW r, Faults(m, r)
  PROVE  Sat(Exec(m, r), S) /\ Exec(m, r).fault
<1> DEFINE yes == TRUE
           w == [m EXCEPT !.fault = yes]
           k == S.offset
<1>1. Exec(m, r) = w /\ yes
  BY DEF Exec
<1>2. RspAt(m, k) /\ Claims(m, S)
  BY DEF Sat
<1> HIDE DEF yes, k
<1>3. /\ RspAt(w, k) /\ w.fault = yes /\ w.gpr = m.gpr /\ w.mem = m.mem /\ w.target = m.target
  BY <1>2 DEF RspAt, Cpu
<1> HIDE DEF w
<1>4. Claims(w, S)
  BY <1>2, <1>3, SameClaims
<1>5. Sat(w, S)
  BY <1>3, <1>4 DEF Sat, k
<1>6. QED BY <1>1, <1>3, <1>5

(* When no code is left, all that is known at the end is known.            *)
LEMMA TrackedNone ==
  ASSUME NEW A, NEW E, Tracked(<<>>, A, E), NEW m, Sat(m, A)
  PROVE  Sat(m, E)
<1> DEFINE none == <<>>
<1>1. Len(none) + 1 = 1
  OBVIOUS
<1>2. Tracked(none, A, E)
  OBVIOUS
<1> HIDE DEF none
<1>3. PICK st : Weaker(A, st[1]) /\ Weaker(st[Len(none) + 1], E)
  BY <1>2 DEF Tracked
<1>4. QED BY <1>1, <1>3 DEF Weaker

LEMMA GoingFields ==
  ASSUME NEW S, NEW k, NEW V
  PROVE  LET T == Going(S, k, V)
         IN  /\ T.offset = k /\ T.regs = S.regs /\ T.words = S.words /\ T.dest = S.dest
             /\ T.target = V /\ T.sure = S.sure
BY DEF Going

(* The state at the end of the code, after the POP RAX of a trampoline.    *)
LEMMA FinishedAt ==
  ASSUME NEW b, NEW k, k = Len(b) + 1, NEW sure, NEW m, NEW F, Sat(m, F), F.offset = 0,
         F.sure = sure, F.target = {ReturnAddress},
         \A n \in Gprs \ {RSP.n} : F.regs[n] = Kept(b, k)[n]
  PROVE  Finished(m, b, sure)
<1>1. RspAt(m, 0)
  BY DEF Sat
<1>2. ASSUME sure = TRUE
      PROVE  /\ m.target = ReturnAddress
             /\ \A n \in Gprs \ {RSP.n} : Unwritten(b, Len(b) + 1, n) => m.gpr[n] = App(n)
  <2>1. F.sure
    BY <1>2
  <2>2. m.target = ReturnAddress /\ GprClaims(m, F)
    BY <2>1 DEF Sat, Claims
  <2>3. \A n \in Gprs \ {RSP.n} : Unwritten(b, k, n) => App(n) \in F.regs[n]
    BY DEF Kept
  <2>4. QED BY <2>2, <2>3 DEF GprClaims
<1>3. QED BY <1>1, <1>2 DEF Finished

LEMMA FarFinished ==
  ASSUME NEW b, NEW sure \in BOOLEAN, NEW m, Sat(m, Finish("FarJump", b, sure))
  PROVE  Finished(DropTop(SetGpr(m, RAX, TopOfStack(m))), b, sure)
<1> DEFINE far == "FarJump"
           k == Len(b) + 1
           S == Done(far, b, k, sure)
           T == Taken(S, RAX.n)
           U == Left(S)
           E == Going(U, U.offset, U.regs[RAX.n])
           v == TopOfStack(m)
           V == S.regs[RAX.n]
           G == Holding(E, RAX.n, V)
           F == Changed(G, G.offset + 8, G.regs, G.words)
           w == SetGpr(m, RAX, v)
           R == {ReturnAddress}
<1>1. Finish(far, b, sure) = E
  BY DEF Finish, End
<1>2. far = "FarJump" /\ far \in {"FarJump", "DirectCall"} /\ k = Len(b) + 1
  OBVIOUS
<1>3. U = Holding(T, RAX.n, R)
  BY DEF Left
<1>4. S = Known(far, b, k, k, sure)
  BY DEF Done
<1> HIDE DEF far, k, S, T, U, E, V, G, F, w, R, v
<1>5. Level(S) /\ S.offset = 0 /\ S.regs = Kept(b, k) /\ S.sure = sure
  BY <1>2, <1>4, KnownFields, StartsAt
<1>6. Level(T) /\ T.offset = -8 /\ T.sure = sure /\ T.words = Above(S, V)
      /\ \A x \in Gprs : T.regs[x] = IF x = RAX.n THEN {} ELSE S.regs[x]
  <2>1. Level(T)
    BY <1>5, ChangedLevel DEF T
  <2>2. T.offset = S.offset - 8 /\ T.sure = S.sure /\ T.words = Above(S, V)
    BY TakenFields DEF T, V
  <2>3. \A x \in Gprs : T.regs[x] = IF x = RAX.n THEN {} ELSE S.regs[x]
    BY TakenFields DEF T
  <2>4. S.offset - 8 = -8
    BY <1>5
  <2>5. QED BY <1>5, <2>1, <2>2, <2>3, <2>4
<1>7. Level(U) /\ U.offset = -8 /\ U.sure = sure /\ U.words = Above(S, V)
      /\ \A x \in Gprs : U.regs[x] = IF x = RAX.n THEN R ELSE T.regs[x]
  BY <1>3, <1>6, ChangedLevel, HoldingFields
<1>8. /\ E.offset = -8 /\ E.regs = U.regs /\ E.words = Above(S, V) /\ E.sure = sure
      /\ E.target = U.regs[RAX.n]
  BY <1>7, GoingFields DEF E
<1>9. E.target = R
  BY <1>7, <1>8, RaxFacts
<1>10. Above(S, V)[-8] = V
  <2>1. S.offset - 8 = -8
    BY <1>5
  <2>2. QED BY <1>5, <2>1, AboveFields
<1>11. Sat(m, E)
  BY <1>1 DEF far
<1>12. E.sure => \A u \in V : u = v /\ Whole64(u)
  <2>1. Level(E)
    <3>1. E.rip = U.rip
      BY DEF E, Going
    <3>2. QED BY <1>7, <1>8, <3>1 DEF Level
  <2>2. E.words[E.offset] = V
    BY <1>8, <1>10
  <2>3. QED BY <1>11, <2>1, <2>2, TopKnown DEF v
<1>13. Sat(w, G)
  BY <1>11, <1>12, RaxFacts, SetGprSat DEF G, w
<1>14. /\ G.offset = -8 /\ G.words = E.words /\ G.target = R /\ G.sure = sure
       /\ \A x \in Gprs : G.regs[x] = IF x = RAX.n THEN V ELSE E.regs[x]
  BY <1>8, <1>9, HoldingFields DEF G
<1>15. Level(G)
  <2>1. G.rip = E.rip /\ E.rip = U.rip
    BY HoldingFields DEF G, E, Going
  <2>2. QED BY <1>7, <1>14, <2>1 DEF Level
<1>16. Sat(DropTop(w), F)
  BY <1>13, <1>15, DropSat DEF F
<1>17. F.offset = 0 /\ F.regs = G.regs /\ F.target = R /\ F.sure = sure
  <2>1. F.offset = G.offset + 8 /\ F.regs = G.regs /\ F.target = G.target /\ F.sure = G.sure
    BY ChangedFields DEF F
  <2>2. G.offset + 8 = 0
    BY <1>14
  <2>3. QED BY <1>14, <2>1, <2>2
<1>18. \A n \in Gprs \ {RSP.n} : F.regs[n] = Kept(b, k)[n]
  BY <1>5, <1>6, <1>7, <1>8, <1>14, <1>17 DEF V
<1>19. Finished(DropTop(w), b, sure)
  BY <1>2, <1>16, <1>17, <1>18, FinishedAt DEF R
<1>20. QED BY <1>19 DEF w, v

LEMMA CallFinished ==
  ASSUME NEW b, NEW sure \in BOOLEAN, NEW m, Sat(m, Finish("DirectCall", b, sure))
  PROVE  Finished(m, b, sure)
<1> DEFINE byCall == "DirectCall"
           k == Len(b) + 1
           S == Done(byCall, b, k, sure)
           E == Going(S, S.offset + 8, S.words[S.offset])
<1>1. Finish(byCall, b, sure) = E
  BY DEF Finish, End
<1>2. byCall = "DirectCall" /\ byCall \in {"FarJump", "DirectCall"} /\ k = Len(b) + 1
  OBVIOUS
<1>3. S = Known(byCall, b, k, k, sure)
  BY DEF Done
<1> HIDE DEF byCall, k, S, E
<1>4. S.offset = -8 /\ S.regs = Kept(b, k) /\ S.sure = sure /\ S.words = Saved(byCall)
  BY <1>2, <1>3, KnownFields, StartsAt
<1>5. S.words[S.offset] = {ReturnAddress}
  BY <1>2, <1>4 DEF Saved
<1>6. S.offset + 8 = 0
  BY <1>4
<1>7. E.offset = 0 /\ E.regs = S.regs /\ E.sure = sure /\ E.target = {ReturnAddress}
  BY <1>4, <1>5, <1>6, GoingFields DEF E
<1>8. Sat(m, E)
  BY <1>1 DEF byCall
<1>9. QED BY <1>2, <1>4, <1>7, <1>8, FinishedAt

LEMMA EntryFields ==
  ASSUME NEW s \in {"FarJump", "DirectCall"}, NEW b, NEW sure \in BOOLEAN
  PROVE  /\ Level(Entry(s, b, sure)) /\ Entry(s, b, sure).sure = sure
         /\ Entry(s, b, sure).dest = Places(b)
<1> DEFINE S == Known(s, b, 1, 1, sure)
<1>1. Level(S) /\ S.sure = sure /\ S.dest = Places(b)
  BY KnownLevel, KnownFields
<1>2. Entry(s, b, sure) = IF s = "FarJump" THEN Taken(S, RAX.n) ELSE S
  BY DEF Entry
<1> HIDE DEF S
<1>3. Level(Taken(S, RAX.n)) /\ Taken(S, RAX.n).sure = S.sure /\ Taken(S, RAX.n).dest = S.dest
  BY <1>1, ChangedLevel, TakenFields
<1>4. QED BY <1>1, <1>2, <1>3

(* The POP RAX of a trampoline does not clear a fault.                     *)
LEMMA ResumeFault ==
  ASSUME NEW m, NEW S, Sat(m, S), NEW v
  PROVE  DropTop(SetGpr(m, RAX, v)).fault = m.fault
<1> DEFINE n == SetGpr(m, RAX, v)
<1>1. RspAt(n, S.offset)
  BY RspFacts, SetGprKeeps DEF Sat
<1>2. n.fault = m.fault
  BY DEF SetGpr, RspAt, Cpu, Sat
<1> HIDE DEF n
<1>3. DropTop(n).fault = n.fault
  BY <1>1 DEF DropTop, SetRsp, RspAt, Cpu
<1>4. QED BY <1>2, <1>3 DEF n

LEMMA NextEmulated ==
  ASSUME NEW sure \in BOOLEAN, SupportedBlocks(Blocks),
         sure = TRUE => AddressedBlocks(Blocks, Strategies), Emulated(sure), [Next]_vars
  PROVE  Emulated(sure)'
<1>1. block \in Blocks /\ strategy \in Strategies /\ strategy \in {"FarJump", "DirectCall"}
  BY StrategiesAssumption DEF Emulated
<1>2. CASE Compile
  <2>1. PICK compiled \in {Compiled(block, strategy)} :
          IF \E j \in 1 .. Len(compiled) : compiled[j].exited
          THEN phase' = "exited" /\ code' = <<>>
          ELSE /\ phase' = "run"
               /\ code' = prologue(strategy)
                          \o FlattenSeq([j \in 1 .. Len(compiled) |-> compiled[j].requests])
                          \o epilogue(strategy)
    BY <1>2 DEF Compile
  <2>2. phase = "compile" /\ UNCHANGED <<block, strategy, machine>>
    BY <1>2 DEF Compile
  <2>3. CASE phase' = "exited"
    BY <1>1, <2>2, <2>3 DEF Emulated, Entering, Executing, Returning
  <2>4. CASE phase' # "exited"
    <3> DEFINE A == Entry(strategy, block, sure)
               k == Len(block) + 1
    <3>1. /\ phase' = "run"
          /\ code' = prologue(strategy)
                     \o FlattenSeq([j \in 1 .. Len(compiled) |-> compiled[j].requests])
                     \o epilogue(strategy)
      BY <2>1, <2>4
    <3>2. Sat(machine, A)
      BY <2>2 DEF Emulated, Entering
    <3>3. Len(block) \in Nat /\ \A j \in 1 .. Len(block) : Supported(block[j])
      BY <1>1 DEF SupportedBlocks
    <3>4. sure = TRUE => Addressed(block, strategy)
      BY <1>1 DEF AddressedBlocks
    <3>5. compiled = Compiled(block, strategy) /\ k = Len(block) + 1
      OBVIOUS
    <3>6. Finish(strategy, block, sure) = End(strategy, Done(strategy, block, k, sure))
      BY DEF Finish
    <3>7. Level(A) /\ A.sure = sure /\ A.dest = Places(block)
      BY <1>1, EntryFields
    <3> HIDE DEF A, k
    <3>8. Tracked(code', Entry(strategy, block, sure), Finish(strategy, block, sure))
      BY <1>1, <3>1, <3>3, <3>4, <3>5, <3>6, BlockTracked
    <3>9. Executing(sure)'
      <4>1. Tracked(code', A, Finish(strategy, block, sure))
        BY <3>8 DEF A
      <4>2. Sat(machine', A) /\ A.dest = Places(block') /\ Finish(strategy', block', sure) = Finish(strategy, block, sure)
        BY <2>2, <3>2, <3>7
      <4>3. QED BY <3>7, <4>1, <4>2 DEF Executing
    <3>10. QED BY <1>1, <2>2, <3>1, <3>9 DEF Emulated, Entering, Returning
  <2>5. QED BY <2>3, <2>4
<1>3. CASE Step
  <2>1. /\ phase = "run" /\ code # <<>> /\ ~machine.fault
        /\ machine' = Exec(machine, Head(code)) /\ code' = Tail(code)
        /\ UNCHANGED <<block, strategy, phase>>
    BY <1>3 DEF Step
  <2> DEFINE E == Finish(strategy, block, sure)
             r == Head(code)
  <2>2. PICK A : /\ Level(A) /\ A.sure = sure /\ A.dest = Places(block) /\ Sat(machine, A)
                 /\ Tracked(code, A, E)
    BY <2>1 DEF Emulated, Executing
  <2> HIDE DEF E
  <2>3. PICK T : /\ Level(T) /\ Same(A, T) /\ Tracked(Tail(code), T, E)
                 /\ \A m : Sat(m, A) /\ ~Faults(m, r) => Sat(Exec(m, r), T)
    BY <2>1, <2>2, TrackedTail
  <2>4. T.sure = sure /\ T.dest = Places(block)
    BY <2>2, <2>3 DEF Same
  <2>5. E = Finish(strategy', block', sure) /\ Places(block') = Places(block)
    BY <2>1 DEF E
  <2>6. CASE Faults(machine, r)
    <3>1. Sat(machine', A) /\ machine'.fault
      BY <2>1, <2>2, <2>6, FaultKeeps
    <3>2. Executing(sure)'
      BY <2>2, <2>5, <3>1 DEF Executing
    <3>3. QED BY <1>1, <2>1, <3>2 DEF Emulated, Entering, Returning
  <2>7. CASE ~Faults(machine, r)
    <3>1. Sat(machine', T)
      BY <2>1, <2>2, <2>3, <2>7
    <3>2. Executing(sure)'
      <4>1. Tracked(code', T, E)
        BY <2>1, <2>3
      <4>2. QED BY <2>3, <2>4, <2>5, <3>1, <4>1 DEF Executing
    <3>3. QED BY <1>1, <2>1, <3>2 DEF Emulated, Entering, Returning
  <2>8. QED BY <2>6, <2>7
<1>4. CASE Resume
  <2>1. /\ phase = "run" /\ code = <<>> /\ phase' = "resumed"
        /\ UNCHANGED <<block, strategy, code>>
    BY <1>4 DEF Resume
  <2> DEFINE E == Finish(strategy, block, sure)
  <2>2. PICK A : Level(A) /\ Sat(machine, A) /\ (machine.fault \/ Tracked(code, A, E))
    BY <2>1 DEF Emulated, Executing
  <2> HIDE DEF E
  <2>3. machine.fault \/ Sat(machine, E)
    BY <2>1, <2>2, TrackedNone
  <2>4. machine'.fault \/ Finished(machine', block, sure)
    <3>1. CASE strategy = "FarJump"
      <4>1. machine' = DropTop(SetGpr(machine, RAX, TopOfStack(machine)))
        BY <1>4, <3>1 DEF Resume
      <4>2. CASE machine.fault
        BY <2>2, <4>1, <4>2, ResumeFault
      <4>3. CASE Sat(machine, E)
        <5>1. Sat(machine, Finish("FarJump", block, sure))
          BY <3>1, <4>3 DEF E
        <5>2. QED BY <4>1, <5>1, FarFinished
      <4>4. QED BY <2>3, <4>2, <4>3
    <3>2. CASE strategy = "DirectCall"
      <4>1. machine' = machine
        BY <1>4, <3>2 DEF Resume
      <4>2. CASE Sat(machine, E)
        <5>1. Sat(machine, Finish("DirectCall", block, sure))
          BY <3>2, <4>2 DEF E
        <5>2. QED BY <4>1, <5>1, CallFinished
      <4>3. QED BY <2>3, <4>1, <4>2
    <3>3. QED BY <1>1, <3>1, <3>2
  <2>5. Returning(sure)'
    BY <2>1, <2>4 DEF Returning
  <2>6. QED BY <1>1, <2>1, <2>5 DEF Emulated, Entering, Executing
<1>5. CASE Stopped \/ UNCHANGED vars
  BY <1>5 DEF Stopped, vars, Emulated, Entering, Executing, Returning
<1>6. QED BY <1>2, <1>3, <1>4, <1>5 DEF Next

(* After a block RSP is the application's.                                 *)
RspRestored ==
  phase = "resumed" /\ ~machine.fault => machine.gpr[RSP.n] = Application.gpr[RSP.n]

LEMMA EmulatedTracked == ASSUME NEW sure, Emulated(sure) PROVE RspTracked
<1> SUFFICES ASSUME phase = "run", code # <<>>, ~machine.fault
             PROVE  machine.gpr[RSP.n] = At(Application.gpr[RSP.n], Head(code).rspOffset)
  BY DEF RspTracked
<1>1. PICK A : Level(A) /\ Sat(machine, A) /\ Tracked(code, A, Finish(strategy, block, sure))
  BY DEF Emulated, Executing
<1>2. Head(code).rspOffset = A.offset
  BY <1>1, TrackedTail
<1>3. Application.gpr[RSP.n] = Stk(0)
  BY RspFacts, ApplicationFields DEF App, Stk
<1>4. At(Stk(0), A.offset) = Stk(A.offset)
  <2> DEFINE zero == 0
  <2>1. A.offset \in Int /\ zero \in Int /\ zero + A.offset = A.offset
    BY <1>1 DEF Level
  <2> HIDE DEF zero
  <2>2. At(Stk(zero), A.offset) = Stk(A.offset)
    BY <2>1, AtStk
  <2>3. QED BY <2>2 DEF zero
<1>5. QED BY <1>1, <1>2, <1>3, <1>4 DEF Sat, RspAt, Stk

LEMMA EmulatedRestored == ASSUME NEW sure, Emulated(sure) PROVE RspRestored
<1>1. Application.gpr[RSP.n] = App(RSP.n)
  BY RspFacts, ApplicationFields
<1>2. QED BY <1>1 DEF Emulated, Returning, Finished, RspRestored, RspAt, App

LEMMA EmulatedConfined == ASSUME NEW sure, sure = TRUE, Emulated(sure) PROVE StoresConfined
<1> SUFFICES ASSUME phase = "run", Len(block) = 1, NEW a \in DOMAIN machine.mem
             PROVE  InStorage(a) \/ IsMember(a) \/ OnStack(a) \/ a \in Destination(block[1])
  BY DEF StoresConfined
<1>1. PICK A : A.sure = sure /\ A.dest = Places(block) /\ Sat(machine, A)
  BY DEF Emulated, Executing
<1>2. A.sure
  BY <1>1
<1>3. Allowed(A, a)
  BY <1>1, <1>2 DEF Sat, Claims, Confined
<1>4. Places(block) = Destination(block[1])
  <2>1. [Before EXCEPT !.rip = Rip(1)] = Before
    <3> DEFINE gpr == Application.gpr
               xmm == Application.xmm
               none == <<>>
               upper == [n \in Xmms |-> Lanes(<<>>, Upper(n), 4)]
               flags == Application.flags
               mxcsr == Application.mxcsr
               rip == Rip(1)
    <3>1. Before = [gpr |-> gpr, xmm |-> xmm, mem |-> none, upper |-> upper, flags |-> flags,
                    mxcsr |-> mxcsr, rip |-> rip]
      BY DEF Before
    <3> HIDE DEF gpr, xmm, none, upper, flags, mxcsr, rip
    <3>2. [Before EXCEPT !.rip = rip] = Before
      BY <3>1
    <3>3. QED BY <3>2 DEF rip
  <2>2. Place(block[1], Rip(1)) = Destination(block[1])
    BY <2>1 DEF Place, Destination
  <2>3. \A j \in 1 .. Len(block) : j = 1
    OBVIOUS
  <2>4. 1 \in 1 .. Len(block)
    OBVIOUS
  <2>5. QED BY <2>2, <2>3, <2>4 DEF Places
<1>5. QED BY <1>1, <1>3, <1>4 DEF Allowed

LEMMA EmulatedKept ==
  ASSUME SupportedBlocks(Blocks), NEW sure, sure = TRUE, Emulated(sure)
  PROVE  GprsKept
<1> SUFFICES ASSUME phase = "resumed", ~machine.fault
             PROVE  /\ machine.target = ReturnAddress
                    /\ \A n \in Gprs : (\A j \in 1 .. Len(block) : n \notin Written(block[j]))
                                         => machine.gpr[n] = Application.gpr[n]
  BY DEF GprsKept
<1>1. Finished(machine, block, sure)
  BY DEF Emulated, Returning
<1>2. ASSUME NEW n \in Gprs, \A j \in 1 .. Len(block) : n \notin Written(block[j])
      PROVE  machine.gpr[n] = Application.gpr[n]
  <2>1. Len(block) \in Nat
    BY DEF Emulated, SupportedBlocks
  <2>2. \A k \in 1 .. (Len(block) + 1) - 1 : k \in 1 .. Len(block)
    BY <2>1
  <2>3. Unwritten(block, Len(block) + 1, n)
    BY <1>2, <2>2, Zenon DEF Unwritten
  <2>4. Application.gpr[n] = App(n)
    BY ApplicationFields
  <2>5. CASE n = RSP.n
    BY <1>1, <2>4, <2>5 DEF Finished, RspAt, App
  <2>6. CASE n # RSP.n
    BY <1>1, <2>3, <2>4, <2>6 DEF Finished
  <2>7. QED BY <2>5, <2>6
<1>3. QED BY <1>1, <1>2 DEF Finished

(* The invariant holds of every block of supported instructions; what it   *)
(* says of registers and memory, when the block's destinations are         *)
(* addressed by registers that it has not written.                         *)
THEOREM SpecEmulated ==
  ASSUME NEW sure \in BOOLEAN, SupportedBlocks(Blocks),
         sure = TRUE => AddressedBlocks(Blocks, Strategies)
  PROVE  Spec => []Emulated(sure)
<1>1. Init => Emulated(sure)
  BY InitEmulated
<1>2. Emulated(sure) /\ [Next]_vars => Emulated(sure)'
  BY NextEmulated
<1>3. QED BY <1>1, <1>2, PTL DEF Spec

(* Whatever registers its instructions name and its classes borrow, and    *)
(* with whatever values, rspOffset is how far RSP is from the              *)
(* application's at each instruction emitted for a block.                  *)
THEOREM SpecRspTracked == ASSUME SupportedBlocks(Blocks) PROVE Spec => []RspTracked
<1>1. PICK sure \in BOOLEAN : sure = FALSE
  OBVIOUS
<1>2. Spec => []Emulated(sure)
  BY <1>1, SpecEmulated
<1>3. Emulated(sure) => RspTracked
  BY EmulatedTracked
<1>4. QED BY <1>2, <1>3, PTL

(* The code of a block gives the application its RSP back: each PUSH has   *)
(* its POP, each SUB its ADD, in the trampoline as in a function that is   *)
(* called.                                                                 *)
THEOREM SpecRspRestored == ASSUME SupportedBlocks(Blocks) PROVE Spec => []RspRestored
<1>1. PICK sure \in BOOLEAN : sure = FALSE
  OBVIOUS
<1>2. Spec => []Emulated(sure)
  BY <1>1, SpecEmulated
<1>3. Emulated(sure) => RspRestored
  BY EmulatedRestored
<1>4. QED BY <1>2, <1>3, PTL

(* At every instruction emitted for a block of one instruction, memory has *)
(* been written in the thread's storage, below the application's RSP and   *)
(* at the destination only, whatever registers are borrowed and whatever   *)
(* values they hold.                                                       *)
THEOREM SpecStoresConfined ==
  ASSUME SupportedBlocks(Blocks), AddressedBlocks(Blocks, Strategies)
  PROVE  Spec => []StoresConfined
<1>1. PICK sure \in BOOLEAN : sure = TRUE
  OBVIOUS
<1>2. Spec => []Emulated(sure)
  BY SpecEmulated
<1>3. Emulated(sure) => StoresConfined
  BY <1>1, EmulatedConfined, Zenon
<1>4. QED BY <1>2, <1>3, PTL

(* After a block every general register that no instruction of the block   *)
(* writes is the application's, and execution goes on where the block was  *)
(* left: each register that is borrowed is saved before and restored       *)
(* after, and no store of the code lands on a saved value.                 *)
THEOREM SpecGprsKept ==
  ASSUME SupportedBlocks(Blocks), AddressedBlocks(Blocks, Strategies)
  PROVE  Spec => []GprsKept
<1>1. PICK sure \in BOOLEAN : sure = TRUE
  OBVIOUS
<1>2. Spec => []Emulated(sure)
  BY SpecEmulated
<1>3. Emulated(sure) => GprsKept
  BY <1>1, EmulatedKept, Zenon
<1>4. QED BY <1>2, <1>3, PTL

================================================================================
