------------------------------- MODULE Lowering -------------------------------
(***************************************************************************)
(* What every instruction class is compiled with (Instruction.cpp,         *)
(* CompilableInstruction.h).  A compilation in progress is a record:       *)
(*   iclass, operands, opWidth   the decoded instruction                   *)
(*   rip        the address of the next instruction, rip + ilen            *)
(*   usedRegs   the registers getUnusedReg must not hand out               *)
(*   rspOffset  how far RSP is from the application's RSP by now           *)
(*   requests   internal_requests, the SSE instructions emitted so far;    *)
(*              each remembers the rspOffset it was emitted at             *)
(*   exited     exit(1) was called                                         *)
(***************************************************************************)
EXTENDS Operands, SequencesExt

(* The constructors of the shifts by a register put RCX, where the count   *)
(* of the SSE shift goes, among the registers in use.                      *)
(* Mutant: none is reserved.                                               *)
reservedRegs_None(iclass) == {}
reservedRegs(iclass) == IF iclass \in {"SARX", "SHLX", "SHRX"} THEN {RCX} ELSE {}

Instruction(i, rip) ==
  [iclass |-> i.iclass, operands |-> i.operands, opWidth |-> i.opWidth,
   rip |-> rip, rspOffset |-> 0, requests |-> <<>>, exited |-> FALSE,
   usedRegs |-> reservedRegs(i.iclass)
                \cup UNION {getUsedReg(i.operands[k]) : k \in 1 .. Len(i.operands)}]

Request(op, args, offset) == [op |-> op, args |-> args, rspOffset |-> offset]

Emit(c, op, args) ==
  [c EXCEPT !.requests = Append(@, Request(op, args, c.rspOffset))]

Exit(c) == [c EXCEPT !.exited = TRUE]

(* Mutants: a POP that is not counted; flags that are dropped.             *)
pop_Uncounted(c, r) == Emit(c, "POP", <<RegOp(r)>>)
popf_Dropped(c) ==
  [Emit(c, "ADD", <<RegOp(RSP), ImmOp(Sym("imm", 8))>>) EXCEPT !.rspOffset = @ + 8]

push(c, r) == [Emit(c, "PUSH", <<RegOp(r)>>) EXCEPT !.rspOffset = @ - 8]
pop(c, r) == [Emit(c, "POP", <<RegOp(r)>>) EXCEPT !.rspOffset = @ + 8]
pushf(c) == [Emit(c, "PUSHF", <<>>) EXCEPT !.rspOffset = @ - 8]
popf(c) == [Emit(c, "POPF", <<>>) EXCEPT !.rspOffset = @ + 8]

MovConst(c, r, v) == Emit(c, "MOV", <<RegOp(r), ImmOp(v)>>)
call(c, r) == Emit(c, "CALL", <<RegOp(r)>>)

sub(c, r, n) ==
  LET d == Emit(c, "SUB", <<RegOp(r), ImmOp(Sym("imm", n))>>)
  IN  IF r = RSP THEN [d EXCEPT !.rspOffset = @ - n] ELSE d
add(c, r, n) ==
  LET d == Emit(c, "ADD", <<RegOp(r), ImmOp(Sym("imm", n))>>)
  IN  IF r = RSP THEN [d EXCEPT !.rspOffset = @ + n] ELSE d

-----------------------------------------------------------------------------
usesYmm(c) == \E k \in 1 .. Len(c.operands) : isYmm(c.operands[k])
usesRipAddressing(c) == \E k \in 1 .. Len(c.operands) : hasRipBase(c.operands[k])
usesRspAddressing(c) == \E k \in 1 .. Len(c.operands) : hasRspBase(c.operands[k])

gprs == <<0, 3, 1, 2, 6, 7, 8, 9, 10, 11, 12, 13, 14, 15>>

getUnusedReg(c) ==
  R64(gprs[CHOOSE k \in 1 .. Len(gprs) :
             /\ R64(gprs[k]) \notin c.usedRegs
             /\ \A j \in 1 .. k - 1 : R64(gprs[j]) \in c.usedRegs])

getUnusedXmmReg(c) ==
  LET free(n) == Xmm(n) \notin c.usedRegs /\ Ymm(n) \notin c.usedRegs
  IN  Xmm(CHOOSE n \in 0 .. 15 : free(n) /\ \A k \in 0 .. n - 1 : ~free(k))

use(c, r) == [c EXCEPT !.usedRegs = @ \cup {r}]
returnReg(c, r) == [c EXCEPT !.usedRegs = @ \ {r}]

(* withReg and withFreeReg emit their lambda's code between these two.     *)
(* returnReg also forgets a register that was in use before.               *)
takeReg(c, r) == push(use(c, r), r)
giveBackReg(c, r) == returnReg(pop(c, r), r)

substRip(o, r) ==
  IF ~isMemoryOperand(o) THEN o
  ELSE [o EXCEPT !.base = IF @ = RIP THEN r ELSE @,
                 !.index = IF @ = RIP THEN r ELSE @]
offsetRsp(o, offset) ==
  IF isMemoryOperand(o) /\ o.base = RSP THEN [o EXCEPT !.disp = @ - offset] ELSE o

ripInReg(c, op, args, r) ==
  giveBackReg(Emit(MovConst(takeReg(c, r), r, c.rip), op,
                   [k \in 1 .. Len(args) |-> substRip(args[k], r)]), r)

(* The operands are substituted and the instruction is emitted.  The third *)
(* branch of the code, RIP and RSP together, cannot be reached.            *)
withRipSubstitution(c, op, args) ==
  CASE usesRipAddressing(c) -> ripInReg(c, op, args, getUnusedReg(c))
    [] ~usesRipAddressing(c) /\ usesRspAddressing(c) ->
         Emit(c, op, [k \in 1 .. Len(args) |-> offsetRsp(args[k], c.rspOffset)])
    [] OTHER -> Emit(c, op, args)

mov(c, a, b) == withRipSubstitution(c, "MOV", <<a, b>>)
op1(c, op, a) == withRipSubstitution(c, op, <<a>>)
op2(c, op, a, b) == withRipSubstitution(c, op, <<a, b>>)
op3(c, op, a, b, i) == withRipSubstitution(c, op, <<a, b, i>>)
movups(c, a, b) == op2(c, "MOVUPS", a, b)
movups_raw(c, a, b) == Emit(c, "MOVUPS", <<a, b>>)

-----------------------------------------------------------------------------
(***************************************************************************)
(* The upper halves.  Slot n of the thread's storage is a place for XMMn   *)
(* while its upper half, slot 16 + n, is in the register.                  *)
(***************************************************************************)
Slot(n) == MemOp(RAX, INVALID, 16 * n, 128)

(* Call get_ymm_storage; its result stays in RAX until leaveStorage.       *)
enterStorage(c) ==
  LET d == MovConst(takeReg(c, RBX), RBX, Sym("get_ymm_storage", 0))
  IN  call(takeReg(d, RAX), RBX)

(* Mutant: the two registers are given back in the order they were taken.  *)
leaveStorage_Swapped(c) == giveBackReg(giveBackReg(c, RBX), RAX)

leaveStorage(c) == giveBackReg(giveBackReg(c, RAX), RBX)

(* Save the register in one slot and load it from the other.               *)
Exchange(c, n, save, load) ==
  movups_raw(movups_raw(c, Slot(save), RegOp(Xmm(n))), RegOp(Xmm(n)), Slot(load))

(* The exchanges of several registers, numbered from their own slot.       *)
ExchangeAll(c, regs, save, load) ==
  LET alone == [c EXCEPT !.requests = <<>>]
      each(n) == Exchange(alone, n, n + save, n + load).requests
      order == SetToSeq(regs)
  IN  [c EXCEPT !.requests = @ \o FlattenSeq([k \in 1 .. Len(order) |-> each(order[k])])]

swap_in_upper_ymm(c, regs) == leaveStorage(ExchangeAll(enterStorage(c), regs, 0, 16))

(* Mutant: both exchanges go the same way.                                 *)
swap_out_upper_ymm_AsIn(c, regs) == swap_in_upper_ymm(c, regs)

swap_out_upper_ymm(c, regs) == leaveStorage(ExchangeAll(enterStorage(c), regs, 16, 0))

YmmOperands(c) ==
  {c.operands[k].reg.n : k \in {j \in 1 .. Len(c.operands) : isYmm(c.operands[j])}}

zeroupperInternal(c, o) ==
  LET n == o.reg.n
      x == RegOp(Xmm(n))
      upper == Exchange(enterStorage(c), n, n, n + 16)
  IN  leaveStorage(Exchange(Emit(upper, "XORPS", <<x, x>>), n, n + 16, n))

(* if (operands[0].isXmm()) zeroupperInternal(operands[0]);                *)
zeroIfXmm(c) ==
  IF isXmm(c.operands[1]) THEN zeroupperInternal(c, c.operands[1]) ELSE c

(* Mutants: half the room for an XMM register; a move that must be aligned.*)
XmmRoom_Short == 8
XmmMove_Aligned == "MOVDQA"

XmmRoom == 16
XmmMove == "MOVDQU"
XmmTop == MemOp(RSP, INVALID, 0, 128)

(* withPreserveXmmReg emits its lambda's code between these two.           *)
preserveXmmReg(c, n) == Emit(sub(c, RSP, XmmRoom), XmmMove, <<XmmTop, RegOp(Xmm(n))>>)
restoreXmmReg(c, n) == add(Emit(c, XmmMove, <<RegOp(Xmm(n)), XmmTop>>), RSP, XmmRoom)

-----------------------------------------------------------------------------
(***************************************************************************)
(* VEX dst, src1, src2 by an SSE instruction that overwrites its first     *)
(* operand.                                                                *)
(***************************************************************************)
Operand(c, k, upper) == toEncoderOperand(c.operands[k], upper)

(* Mutant: the destination is overwritten although it is the second source.*)
OnlySecondSource_Overlooked(c) == FALSE

OnlySecondSource(c) ==
  LET reg(k) == c.operands[k].reg IN reg(1) # reg(2) /\ reg(1) = reg(3)

(* The operands map3opto2op hands to its lambda ...                        *)
TwoOperands(c, upper) ==
  <<Operand(c, IF OnlySecondSource(c) THEN 2 ELSE 1, upper), Operand(c, 3, upper)>>

(* ... which emits op with args.                                           *)
map3opto2op(c, op, upper, args) ==
  LET dst  == Operand(c, 1, upper)
      src1 == Operand(c, 2, upper)
      n == c.operands[2].reg.n
      inSource == withRipSubstitution(preserveXmmReg(c, n), op, args)
  IN  CASE OnlySecondSource(c) -> restoreXmmReg(movups(inSource, dst, src1), n)
        [] c.operands[1].reg = c.operands[2].reg -> withRipSubstitution(c, op, args)
        [] OTHER -> withRipSubstitution(movups(c, dst, src1), op, args)

StartOffset(strategy) == IF strategy = "DirectCall" THEN -8 ELSE 0

===============================================================================
