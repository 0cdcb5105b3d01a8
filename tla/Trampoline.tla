------------------------------ MODULE Trampoline ------------------------------
(***************************************************************************)
(* The bytes Encoder::emitInstructions leaves in the application's code,   *)
(* and the order in which it stores them.  A byte is a cell: the opcode    *)
(* byte's value, or the kind of immediate the byte belongs to, with the    *)
(* value of that immediate.  "orig" is a byte of the application that was  *)
(* never overwritten.                                                      *)
(*                                                                         *)
(* A chunk is named by what it was compiled from; chunk memory is written  *)
(* once, before its address is handed out, and never freed, so the record  *)
(* stands for its address as well as for its contents.                     *)
(***************************************************************************)
EXTENDS Integers

trampolineSize == 14    \* 1 + 10 + 2 + 1, Encoder.cpp:120

Opcodes == {"orig", "90", "eb", "disp8", "e9", "disp32", "50", "48", "b8",
            "imm64", "ff", "e0", "58", "cc"}

(* far: FarJump chunk, otherwise DirectCall.  base, len: the bytes the     *)
(* block occupied.  first, n: the instructions it was decoded from.        *)
Chunk == [far : BOOLEAN, base : Nat, len : Nat, first : Nat, n : Nat]

NULL == [far |-> FALSE, base |-> 0, len |-> 0, first |-> 0, n |-> 0]

Cells == [op : Opcodes, disp : Int, chunk : Chunk]

Byte(op) == [op |-> op, disp |-> 0, chunk |-> NULL]
Disp(op, d) == [op |-> op, disp |-> d, chunk |-> NULL]
Imm64(c) == [op |-> "imm64", disp |-> 0, chunk |-> c]

Orig == Byte("orig")

(* A block longer than the trampoline gets a far jump, a shorter one an    *)
(* INT3 that the SIGTRAP handler resolves.                                 *)
IsFar(len) == len > trampolineSize

freeSpace(len) == len - trampolineSize - 1
nopSlideEnd(len) == len - trampolineSize

(* The jump over the NOP slide, taken only when it fits: JMP rel8 while    *)
(* the distance fits its operand, JMP rel32 above that.                    *)
ShortJump(len) == freeSpace(len) >= 4 /\ freeSpace(len) < 127
LongJump(len) == ~ShortJump(len) /\ freeSpace(len) >= 7

shortDisp(len) == freeSpace(len) - 2
longDisp(len) == nopSlideEnd(len) - 5

SlideByte(len, o) ==
  IF ShortJump(len) /\ o = 1 THEN Byte("eb")
  ELSE IF ShortJump(len) /\ o = 2 THEN Disp("disp8", shortDisp(len))
  ELSE IF LongJump(len) /\ o = 1 THEN Byte("e9")
  ELSE IF LongJump(len) /\ o \in 2 .. 5 THEN Disp("disp32", longDisp(len))
  ELSE Byte("90")

(* PUSH RAX; MOV RAX, chunk; JMP RAX; POP RAX, byte k of the 14.           *)
TrampolineByte(c, k) ==
  IF k \in 3 .. 10 THEN Imm64(c)
  ELSE Byte(IF k = 0 THEN "50" ELSE IF k = 1 THEN "48" ELSE IF k = 2 THEN "b8"
            ELSE IF k = 11 THEN "ff" ELSE IF k = 12 THEN "e0" ELSE "58")

FarByte(c, o) ==
  IF o < nopSlideEnd(c.len) THEN SlideByte(c.len, o)
                            ELSE TrampolineByte(c, o - nopSlideEnd(c.len))

TrapByte(c, o) == IF o = c.len - 1 THEN Byte("cc") ELSE Byte("90")

PatchByte(c, o) == IF c.far THEN FarByte(c, o) ELSE TrapByte(c, o)

(* Immediates are stored by one assignment through a wider pointer.        *)
StoreWidth(cell) ==
  IF cell.op = "imm64" THEN 8 ELSE IF cell.op = "disp32" THEN 4 ELSE 1

(* Mutant: one byte too early.                                             *)
returnAddress_Early(c) == c.base + c.len - 2

(* Where the far chunk jumps back to: the POP RAX that ends the block.     *)
returnAddress(c) == c.base + c.len - 1

===============================================================================
