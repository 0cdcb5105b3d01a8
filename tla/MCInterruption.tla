--------------------------- MODULE MCInterruption ---------------------------
(***************************************************************************)
(* Blocks of one and two instructions, on YMM and XMM registers and on     *)
(* memory, and handlers that use the registers of the block.               *)
(***************************************************************************)
EXTENDS Interruption

Y(n) == RegOp(Ymm(n))
X(n) == RegOp(Xmm(n))
OnStackFrame(w) == MemOp(RSP, INVALID, 16, w)
Code(iclass, ops) == [iclass |-> iclass, operands |-> ops, opWidth |-> 64]

Packed3 == Code("VADDPS", <<Y(1), Y(2), Y(3)>>)
InPlace == Code("VADDPS", <<Y(2), Y(2), Y(1)>>)
SecondSource == Code("VSUBPS", <<Y(1), Y(2), Y(1)>>)
OnXmm == Code("VADDSD", <<X(1), X(2), X(3)>>)
LoadFrame == Code("VMOVUPS", <<Y(1), OnStackFrame(256)>>)
StoreFrame == Code("VMOVUPS", <<OnStackFrame(256), Y(2)>>)
TakeHigh == Code("VEXTRACTF128", <<X(1), Y(2), ImmOp(Sym("imm", 1))>>)
InsertHigh == Code("VINSERTF128", <<Y(1), Y(2), X(3), ImmOp(Sym("imm", 1))>>)
Multiply == Code("VFMADD231PS", <<Y(1), Y(2), Y(3)>>)
Mask == Code("VPMOVMSKB", <<RegOp(R32(1)), Y(2)>>)

ShortBlocks == {<<i>> : i \in {Packed3, InPlace, SecondSource, OnXmm, LoadFrame, StoreFrame,
                               TakeHigh, InsertHigh, Multiply, Mask}}
               \cup {<<LoadFrame, InPlace>>, <<Packed3, StoreFrame>>, <<OnXmm, Packed3>>}

Handlers == {Code("VADDPS", <<Y(1), Y(1), Y(1)>>), Code("VADDPS", <<Y(2), Y(2), Y(2)>>),
             Code("VMULSD", <<X(1), X(1), X(1)>>), Code("VMULSD", <<X(2), X(2), X(2)>>)}

FarJump == {"FarJump"}
SixXmms == 0 .. 5
AllGprs == 0 .. 15

===============================================================================
