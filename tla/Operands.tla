------------------------------- MODULE Operands -------------------------------
(***************************************************************************)
(* Registers and operands as class Operand sees them (Operand.cpp).  XED's *)
(* decoder supplies a decoded operand and its encoder takes an encoder     *)
(* operand; both are one record here.                                      *)
(***************************************************************************)
EXTENDS Integers, Sequences

(* General registers are numbered as the CPU numbers them.                 *)
Reg(class, n) == [class |-> class, n |-> n]
R64(n) == Reg("r64", n)
R32(n) == Reg("r32", n)
Xmm(n) == Reg("xmm", n)
Ymm(n) == Reg("ymm", n)
RIP == Reg("rip", 0)
INVALID == Reg("invalid", 0)

RAX == R64(0)
RCX == R64(1)
RBX == R64(3)
RSP == R64(4)

(* A value is a term: the name of what computed it, of which terms, and a  *)
(* number (a displacement, an immediate, the index of a 32-bit lane).      *)
Sym(name, k) == <<name, <<>>, k>>

(* kind "reg", "mem" or "imm"; width is a memory operand's, in bits.       *)
RegOp(r) == [kind |-> "reg", reg |-> r, base |-> INVALID, index |-> INVALID,
             disp |-> 0, width |-> 0, imm |-> Sym("none", 0)]
MemOp(base, index, disp, width) ==
  [kind |-> "mem", reg |-> INVALID, base |-> base, index |-> index,
   disp |-> disp, width |-> width, imm |-> Sym("none", 0)]
ImmOp(v) == [RegOp(INVALID) EXCEPT !.kind = "imm", !.imm = v]

isMemoryOperand(o) == o.kind = "mem"
isImmediate(o) == o.kind = "imm"
isXmm(o) == o.reg.class = "xmm"
isYmm(o) == o.reg.class = "ymm"

to64BitRegister(o) == IF o.reg.class = "r32" THEN R64(o.reg.n) ELSE o.reg
toXmmReg(o) == Xmm(o.reg.n)
immValue(o) == o.imm[3]

hasRipBase(o) == isMemoryOperand(o) /\ RIP \in {o.base, o.index}
hasRspBase(o) == isMemoryOperand(o) /\ RSP \in {o.base, o.index}

(* The registers an operand occupies, by the name it uses: EAX is not RAX. *)
getUsedReg(o) ==
  CASE isMemoryOperand(o) -> {o.base, o.index}
    [] isImmediate(o)     -> {}
    [] OTHER              -> {o.reg}

(* Mutant: both halves of memory are at the same address.                  *)
toEncoderOperand_SameHalf(o, upper) ==
  CASE isMemoryOperand(o) -> [o EXCEPT !.width = IF @ = 256 THEN 128 ELSE @]
    [] isXmm(o) \/ isYmm(o) -> RegOp(toXmmReg(o))
    [] OTHER -> o

(* The operand of the SSE instruction that works on one half: the upper    *)
(* half of memory is 16 bytes on, the upper half of a YMM register is in   *)
(* the XMM register of that number once it has been swapped in.            *)
toEncoderOperand(o, upper) ==
  CASE isMemoryOperand(o) ->
         [o EXCEPT !.disp = IF upper THEN @ + 16 ELSE @,
                   !.width = IF @ = 256 THEN 128 ELSE @]
    [] isXmm(o) \/ isYmm(o) -> RegOp(toXmmReg(o))
    [] OTHER -> o

===============================================================================
