-------------------------------- MODULE AvxIsa --------------------------------
(***************************************************************************)
(* What the CPU does with one of the supported instructions where it has   *)
(* AVX: the native run the translated one is compared with.  The machine   *)
(* is that of SseMachine with a second function of vector halves, upper.   *)
(* A lane-wise instruction does in each half what its SSE form does; the   *)
(* product and the sum of a fused instruction are not told apart from the  *)
(* same two instructions with a rounding between them.                     *)
(***************************************************************************)
EXTENDS SseMachine

Sse(iclass) == SubSeq(iclass, 2, Len(iclass))

(* Four lanes of operand o: of its low or of its high half.                *)
HalfOf(s, o, up) ==
  CASE isMemoryOperand(o) -> Lanes(s.mem, At(EA(s, o), IF up THEN 16 ELSE 0), 4)
    [] isXmm(o) \/ isYmm(o) -> IF up THEN s.upper[o.reg.n] ELSE s.xmm[o.reg.n]
    [] OTHER -> Lanes32(s, o, IF isImmediate(o) THEN 1 ELSE 2)

(* A vector result; what an XMM destination leaves above it is zero.       *)
SetVec(s, o, low, high) ==
  CASE isMemoryOperand(o) ->
         [s EXCEPT !.mem = Store(@, EA(s, o), IF o.width = 256 THEN low \o high ELSE low)]
    [] isYmm(o) -> [s EXCEPT !.xmm[o.reg.n] = low, !.upper[o.reg.n] = high]
    [] OTHER    -> [s EXCEPT !.xmm[o.reg.n] = low, !.upper[o.reg.n] = Zeros(4)]

(* The bits of an immediate that rule the high half of a vector.           *)
HighImm(iclass, imm) ==
  CASE iclass \in {"VBLENDPD", "VSHUFPD"} -> imm \div 4
    [] iclass = "VBLENDPS" -> imm \div 16
    [] OTHER -> imm

Comparisons == {"VCMPPD", "VCMPPS", "VCMPSD"}
Fused == {"VFMADD231PS", "VFMSUB231PS"}
Counted == {"VPSLLQ", "VPSRLQ", "VPSRLDQ"}
Masked == {"VBLENDVPD", "VBLENDVPS"}
WithImmediate == {"VROUNDPS", "VROUNDPD", "VPEXTRB", "VPEXTRW", "VPEXTRD",
                  "VPEXTRQ", "VEXTRACTPS"}
Shifts == {"SARX", "SHLX", "SHRX"}

(* Predicate 16H differs from 6 in the exception a NaN raises.             *)
Predicate(iclass, imm) == IF iclass \in Comparisons /\ imm = 22 THEN 6 ELSE imm

LaneWise(s, i, up) ==
  LET sse == Sse(i.iclass)
      o == i.operands
      last == o[Len(o)]
      hasImm == Len(o) = 4 \/ i.iclass \in WithImmediate
      imm == IF hasImm THEN Predicate(i.iclass, immValue(last)) ELSE 0
      n == IF Len(o) = 2 \/ i.iclass \in WithImmediate THEN 2 ELSE 3
      v(k) == HalfOf(s, o[k], up)
      src == SubSeq(HalfOf(s, o[n], IF i.iclass \in Counted THEN FALSE ELSE up), 1,
                    IF isImmediate(o[n]) THEN 1 ELSE SourceWidth(sse, o[n]))
      first == IF n = 3 THEN v(2) ELSE Zeros(4)
  IN  CASE i.iclass = "VFMADD231PS" ->
             Result("ADDPS", v(1), Result("MULPS", v(2), v(3), 0, FALSE), 0, FALSE)
        [] i.iclass = "VFMSUB231PS" ->
             Result("SUBPS", Result("MULPS", v(2), v(3), 0, FALSE), v(1), 0, FALSE)
        [] i.iclass \in Masked -> Result(sse, v(2), v(3) \o v(4), 0, FALSE)
        [] i.iclass = "VPERMILPS" -> Result("SHUFPS", v(2), v(2), immValue(last), FALSE)
        [] i.iclass = "VBROADCASTSS" -> [k \in 1 .. 4 |-> HalfOf(s, o[2], FALSE)[1]]
        [] i.iclass = "VPBROADCASTB" -> [k \in 1 .. 4 |-> <<"byte0", <<HalfOf(s, o[2], FALSE)[1]>>, 0>>]
        [] OTHER -> Result(sse, first, src, IF up THEN HighImm(i.iclass, imm) ELSE imm,
                           isMemoryOperand(o[n]))

(* One of the four halves of two vectors, or zero.                         *)
Selected(s, o, sel) ==
  IF (sel \div 8) % 2 = 1 THEN Zeros(4)
  ELSE HalfOf(s, IF sel % 4 \in {0, 1} THEN o[2] ELSE o[3], sel % 2 = 1)

(* An instruction whose destination is not a vector register.              *)
TakesApart(s, i) ==
  LET o == i.operands
      imm == IF i.iclass \in WithImmediate THEN immValue(o[3]) ELSE 0
      low == Extracted(Sse(i.iclass), HalfOf(s, o[2], FALSE), imm)
      high == Extracted(Sse(i.iclass), HalfOf(s, o[2], TRUE), imm)
      v(k) == Val64(s, o[k])
      class == o[1].reg.class
  IN  CASE i.iclass = "VPMOVMSKB" /\ isYmm(o[2]) ->
             SetGpr(s, o[1].reg, AluResult("OR", "r32", <<ZeroExtend(low[1]),
               AluResult("SHL", "r32", <<ZeroExtend(high[1]), Sym("imm", 16)>>)>>))
        [] i.iclass = "VSTMXCSR" -> Put(s, o[1], <<s.mxcsr>>)
        [] i.iclass = "VLDMXCSR" -> [s EXCEPT !.mxcsr = Lane(s.mem, EA(s, o[1]))]
        [] i.iclass = "AND" -> [SetAlu(s, o[1], AluResult("AND", AluClass(o[1]), <<v(1), v(2)>>))
                                EXCEPT !.flags = FlagsOf("AND", <<v(1), v(2)>>)]
        [] i.iclass = "ANDN" ->
             LET not == AluResult("NOT", class, <<v(2)>>)
             IN  [SetGpr(s, o[1].reg, AluResult("AND", class, <<not, v(3)>>))
                  EXCEPT !.flags = FlagsOf("AND", <<not, v(3)>>)]
        [] i.iclass = "BLSR" ->
             LET less == AluResult("SUB", class, <<v(2), Sym("imm", 1)>>)
             IN  [SetGpr(s, o[1].reg, AluResult("AND", class, <<less, v(2)>>))
                  EXCEPT !.flags = <<"flags", <<less, v(2)>>, 1>>]
        [] i.iclass \in Shifts ->
             SetGpr(s, o[1].reg, AluResult(SubSeq(i.iclass, 1, 3), class, <<v(2), v(3)>>))
        [] isMemoryOperand(o[1]) /\ o[1].width < 128 -> Put(s, o[1], low)
        [] isMemoryOperand(o[1]) -> SetVec(s, o[1], low, high)
        [] OTHER -> Put(s, o[1], low)

AvxStep(s, i) ==
  LET o == i.operands
      sse == Sse(i.iclass)
  IN  CASE sse \in Compares ->
             [s EXCEPT !.flags = FlagsOf(sse,
                IF isYmm(o[1]) THEN <<HalfOf(s, o[1], FALSE), HalfOf(s, o[2], FALSE),
                                      HalfOf(s, o[1], TRUE), HalfOf(s, o[2], TRUE)>>
                ELSE SubSeq(HalfOf(s, o[1], FALSE), 1, Width(sse))
                     \o SubSeq(HalfOf(s, o[2], FALSE), 1, SourceWidth(sse, o[2])))]
        [] i.iclass = "VEXTRACTF128" ->
             SetVec(s, o[1], HalfOf(s, o[2], immValue(o[3]) # 0), Zeros(4))
        [] i.iclass = "VINSERTF128" ->
             LET v == HalfOf(s, o[3], FALSE)
             IN  IF immValue(o[4]) # 0 THEN SetVec(s, o[1], HalfOf(s, o[2], FALSE), v)
                 ELSE SetVec(s, o[1], v, HalfOf(s, o[2], TRUE))
        [] i.iclass = "VPERM2F128" ->
             LET imm == immValue(o[4])
             IN  SetVec(s, o[1], Selected(s, o, imm % 16), Selected(s, o, imm \div 16))
        [] sse \notin Compares /\ ~isXmm(o[1]) /\ ~isYmm(o[1]) -> TakesApart(s, i)
        [] OTHER -> SetVec(s, o[1], LaneWise(s, i, FALSE), LaneWise(s, i, TRUE))

===============================================================================
