------------------------------ MODULE MCRewriter ------------------------------
(* Small programs for TLC.  Lengths are bytes: 15 and more make a far jump,  *)
(* 19 and more one with a JMP over the slide.                                *)
EXTENDS Rewriter, TLC

CONSTANTS t1, t2

RECURSIVE Offsets(_, _)
Offsets(lens, i) == IF i = 1 THEN 0 ELSE Offsets(lens, i - 1) + lens[i - 1]
Starts(lens) == [i \in 1 .. Len(lens) + 1 |-> Offsets(lens, i)]

(* A far jump, an INT3 and native code between them.                         *)
MixedLens == <<2, 8, 11, 3, 5, 4>>
MixedKind == <<"plain", "avx", "avx", "plain", "avx", "both">>
MixedStart == Starts(MixedLens)

(* Control also enters in the middle of a block, and a block ends because    *)
(* it is full rather than at an instruction the translator does not know.    *)
InnerLens == <<5, 4, 7, 5, 2>>
InnerKind == <<"avx", "both", "avx", "avx", "plain">>
InnerStart == Starts(InnerLens)

(* A full block of fifteen long instructions: 165 bytes.                     *)
LongStart == [i \in 1 .. 16 |-> (i - 1) * 11]
LongKind == [i \in 1 .. 15 |-> "avx"]

===============================================================================
