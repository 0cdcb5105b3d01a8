------------------------------- MODULE Emulation -------------------------------
(***************************************************************************)
(* A block of AVX instructions compiled (Compiler.cpp) and executed, one   *)
(* emitted instruction at a time.  With FarJump the code is a chunk that   *)
(* the trampoline has entered with RAX pushed and the chunk's address in   *)
(* RAX; with DirectCall it is a function the tests call.                   *)
(***************************************************************************)
EXTENDS InstructionClasses, AvxIsa

CONSTANTS
  Blocks,       \* the sequences of instructions that are compiled
  Strategies,   \* subset of {"FarJump", "DirectCall"}
  Xmms,         \* numbers of the vector registers looked at
  Gprs,         \* numbers of the general registers looked at
  Freed         \* what becomes of a freed Instruction: {"kept", "reused"}

ASSUME StrategiesAssumption == Strategies \subseteq {"FarJump", "DirectCall"}
ASSUME RegistersAssumption == Xmms \subseteq 0 .. 15 /\ 0 .. 15 \subseteq Gprs

VARIABLES
  block,      \* the instructions
  strategy,   \* how they are compiled
  phase,      \* "compile", "run", "resumed" or "exited"
  code,       \* what is left to execute of the emitted instructions
  machine     \* the CPU, the stack, the application's memory and the storage
vars == <<block, strategy, phase, code, machine>>

-----------------------------------------------------------------------------
Rip(j) == Sym("rip", 16 * j)
ReturnAddress == Sym("return", 0)
Upper(n) == Sym("storage", 16 * (16 + n))

(* The application's registers and memory before the block.                *)
Application ==
  [gpr |-> [n \in Gprs |-> <<"gpr", <<Sym("n", n)>>, 0>>],
   xmm |-> [n \in Xmms |-> [k \in 1 .. 4 |-> <<"xmm", <<Sym("n", n)>>, k>>]],
   mem |-> <<>>, flags |-> Sym("flags", 0), mxcsr |-> Sym("mxcsr", 0),
   rip |-> Rip(1), target |-> Sym("none", 0), fault |-> FALSE]

(* Emitted code refers to shufConst, a member of an Instruction that is    *)
(* freed when the block has been compiled.                                 *)
Members(f) == IF f = "kept" THEN Store(<<>>, Sym("shufConst", 0), Zeros(4)) ELSE <<>>

(* PUSH RAX; MOV RAX, chunk of the trampoline, or the CALL of a test.      *)
Entered(s, m) ==
  IF s = "FarJump" THEN [PushVal(m, m.gpr[RAX.n]) EXCEPT !.gpr[RAX.n] = Sym("chunk", 0)]
  ELSE PushVal(m, ReturnAddress)

Compiled(b, s) == [j \in 1 .. Len(b) |-> CompileInstruction(b[j], Rip(j), s)]

(* POP RAX comes first in a chunk ...                                      *)
prologue(s) == IF s = "FarJump" THEN <<Request("POP", <<RegOp(RAX)>>, -8)>> ELSE <<>>

(* ... and the way back last.                                              *)
epilogue(s) ==
  IF s = "FarJump"
  THEN <<Request("PUSH", <<RegOp(RAX)>>, 0),
         Request("MOV", <<RegOp(RAX), ImmOp(ReturnAddress)>>, -8),
         Request("JMP", <<RegOp(RAX)>>, -8)>>
  ELSE <<Request("RET", <<>>, -8)>>

Init == /\ block \in Blocks
        /\ strategy \in Strategies
        /\ phase = "compile"
        /\ code = <<>>
        /\ \E f \in Freed :
             /\ f = "reused" => \E j \in 1 .. Len(block) : block[j].iclass = "VPBROADCASTB"
             /\ machine = Entered(strategy, [Application EXCEPT !.mem = Members(f)])

Compile ==
  /\ phase = "compile"
  /\ \E compiled \in {Compiled(block, strategy)} :
       IF \E j \in 1 .. Len(compiled) : compiled[j].exited
       THEN phase' = "exited" /\ code' = <<>>
       ELSE /\ phase' = "run"
            /\ code' = prologue(strategy)
                       \o FlattenSeq([j \in 1 .. Len(compiled) |-> compiled[j].requests])
                       \o epilogue(strategy)
  /\ UNCHANGED <<block, strategy, machine>>

(* The CPU executes the next emitted instruction.                          *)
Step ==
  /\ phase = "run"
  /\ code # <<>>
  /\ ~machine.fault
  /\ machine' = Exec(machine, Head(code))
  /\ code' = Tail(code)
  /\ UNCHANGED <<block, strategy, phase>>

(* The application is back at the target of the last jump, after the POP   *)
(* RAX with which a trampoline ends.                                       *)
Resume ==
  /\ phase = "run"
  /\ code = <<>>
  /\ phase' = "resumed"
  /\ machine' = IF strategy = "FarJump"
                THEN DropTop(SetGpr(machine, RAX, TopOfStack(machine))) ELSE machine
  /\ UNCHANGED <<block, strategy, code>>

Stopped == (phase \in {"resumed", "exited"} \/ machine.fault) /\ UNCHANGED vars

Next == Compile \/ Step \/ Resume \/ Stopped
Spec == Init /\ [][Next]_vars

-----------------------------------------------------------------------------
(* The same block on a CPU with AVX.                                       *)
Before ==
  [gpr |-> Application.gpr, xmm |-> Application.xmm, mem |-> <<>>,
   upper |-> [n \in Xmms |-> Lanes(<<>>, Upper(n), 4)],
   flags |-> Application.flags, mxcsr |-> Application.mxcsr, rip |-> Rip(1)]

NativeResult ==
  FoldLeft(LAMBDA s, j : AvxStep([s EXCEPT !.rip = Rip(j)], block[j]), Before,
           [j \in 1 .. Len(block) |-> j])

InStorage(a) == a[1] = "storage"
IsMember(a) == a[1] = "shufConst"
OnStack(a) == At(a, -a[3]) = Application.gpr[RSP.n] /\ a[3] < 0

(* The lanes of memory an instruction may write.                           *)
Destination(i) ==
  LET d == i.operands[1]
  IN  IF ~isMemoryOperand(d) THEN {}
      ELSE {At(EA(Before, d), k) : k \in {0, 4, 8, 12, 16, 20, 24, 28}}

(* The general registers an instruction may change.  A shift that names    *)
(* ECX replaces it by a register that can be EAX: it looks for RAX among   *)
(* the registers in use, and the destination is there as EAX.              *)
NamesRcx(o) == {o.reg, o.base} \cap {RCX, R32(RCX.n)} # {}
Written(i) ==
  LET d == i.operands[1].reg
  IN  {n \in Gprs : d \in {R32(n), R64(n)}}
      \cup {n \in {RCX.n} : /\ i.iclass \in Shifts /\ d.class = "r32"
                            /\ \E k \in 1 .. 3 : NamesRcx(i.operands[k])}

(* The machine agrees with the state r of a CPU with AVX.                  *)
VectorsAgree(r) ==
  \A n \in Xmms : /\ machine.xmm[n] = r.xmm[n]
                  /\ Lanes(machine.mem, Upper(n), 4) = r.upper[n]
GprsAgree(r) ==
  machine.gpr = r.gpr /\ machine.mxcsr = r.mxcsr /\ machine.target = ReturnAddress
MemoryAgrees(r) ==
  \A a \in {x \in DOMAIN machine.mem : ~InStorage(x) /\ ~IsMember(x) /\ ~OnStack(x)}
             \cup DOMAIN r.mem :
    Lane(machine.mem, a) = Lane(r.mem, a)

(***************************************************************************)
(* Properties.                                                             *)
(***************************************************************************)

(* The registers looked at exist, and a machine that has not faulted has   *)
(* every one of them.                                                      *)
TypeOK ==
  /\ strategy \in Strategies
  /\ phase \in {"compile", "run", "resumed", "exited"}
  /\ DOMAIN machine.gpr = Gprs /\ DOMAIN machine.xmm = Xmms
  /\ \A n \in Xmms : Len(machine.xmm[n]) = 4
  /\ machine.fault \in BOOLEAN

(* After the block every vector register, low and upper half, is what the  *)
(* AVX instructions make of it: also those the block does not name, which  *)
(* the emitted code borrows.                                               *)
VectorsMatch ==
  phase = "resumed" => \E r \in {NativeResult} : VectorsAgree(r)

(* After the block every general register is what the instructions make of *)
(* it, the borrowed ones and RSP included, and execution goes on where the *)
(* block was left.                                                         *)
GprsMatch ==
  phase = "resumed" => \E r \in {NativeResult} : GprsAgree(r)

(* After the block memory is what the instructions make of it, except what *)
(* is below the application's stack.                                       *)
MemoryMatches ==
  phase = "resumed" => \E r \in {NativeResult} : MemoryAgrees(r)

(* After the block the flags are what the instructions make of them.       *)
FlagsMatch == phase = "resumed" => machine.flags = NativeResult.flags

(* While the emitted code runs it writes to the thread's storage, to the   *)
(* stack below the application's RSP and to the destination of the         *)
(* instruction, nowhere else: the registers it saves never land on data.   *)
StoresConfined ==
  phase = "run" /\ Len(block) = 1 =>
    \A a \in DOMAIN machine.mem : InStorage(a) \/ IsMember(a) \/ OnStack(a) \/ a \in Destination(block[1])

(* After a block the application goes on where it left, with every general *)
(* register that no instruction of the block writes as it was: those the   *)
(* instructions borrow are saved before and restored after, in an order    *)
(* that withReg, withFreeReg and the swaps of the upper halves nest in.    *)
GprsKept ==
  phase = "resumed" /\ ~machine.fault =>
    /\ machine.target = ReturnAddress
    /\ \A n \in Gprs : (\A j \in 1 .. Len(block) : n \notin Written(block[j]))
                         => machine.gpr[n] = Application.gpr[n]

(* rspOffset, by which a compiled instruction corrects operands relative   *)
(* to RSP, is at each emitted instruction how far RSP is from the          *)
(* application's.                                                          *)
RspTracked ==
  phase = "run" /\ code # <<>> /\ ~machine.fault =>
    machine.gpr[RSP.n] = At(Application.gpr[RSP.n], Head(code).rspOffset)

===============================================================================
