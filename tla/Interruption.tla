----------------------------- MODULE Interruption -----------------------------
(***************************************************************************)
(* A signal of the application (a timer, a child that ends) between two    *)
(* emitted instructions of a block.  Its handler executes one AVX          *)
(* instruction, which is translated too and uses the same storage, for     *)
(* gYmmStorage is one array per thread.  When the handler returns the      *)
(* kernel puts every register back; nothing puts the storage back.         *)
(***************************************************************************)
EXTENDS Emulation

CONSTANT HandlerCode     \* the instructions a handler may execute

VARIABLE signal          \* what the handler did to the storage, if it ran
interruptedVars == <<vars, signal>>

NoSignal == [came |-> FALSE]

(* Slot n keeps the low half of a register while the high half is in it,   *)
(* slot 16 + n the high half while the low half is in the register.        *)
LowSlot(n) == Slot(n)
HighSlot(n) == Slot(16 + n)
Lower(n) == Sym("storage", 16 * n)

(* The frame of a handler is below the 128 bytes under RSP that the        *)
(* application may use.                                                    *)
HandlerEntered(m) == Entered("FarJump", [m EXCEPT !.gpr[RSP.n] = Sym("frame", 0)])

HandlerRuns(m, i) ==
  FoldLeft(Exec, HandlerEntered(m),
           prologue("FarJump") \o CompileInstruction(i, Rip(9), "FarJump").requests
           \o epilogue("FarJump"))

(* A slot matters if the code that is left reads it before it writes it;   *)
(* the high half of a register also after the last instruction.            *)
ReadNext(slot, atEnd) ==
  LET uses == {k \in 1 .. Len(code) : \E j \in 1 .. Len(code[k].args) : code[k].args[j] = slot}
  IN  IF uses = {} THEN atEnd
      ELSE code[CHOOSE k \in uses : \A l \in uses : k <= l].args[2] = slot

Interrupt(i) ==
  /\ phase = "run"
  /\ code # <<>>
  /\ ~signal.came
  /\ \E h \in {HandlerRuns(machine, i)}, n \in {i.operands[1].reg.n} :
       /\ machine' = [machine EXCEPT !.mem =
            [a \in {x \in DOMAIN h.mem : InStorage(x)} |-> h.mem[a]] @@ @]
       /\ signal' = [came |-> TRUE, n |-> n,
                     low |-> Lanes(h.mem, Lower(n), 4), high |-> Lanes(h.mem, Upper(n), 4),
                     losesLow |-> ReadNext(LowSlot(n), FALSE),
                     losesHigh |-> ReadNext(HighSlot(n), TRUE)]
  /\ UNCHANGED <<block, strategy, phase, code>>

InterruptedInit == Init /\ signal = NoSignal
Undisturbed == (Compile \/ Step \/ Resume \/ Stopped) /\ UNCHANGED signal
InterruptedNext == Undisturbed \/ \E i \in HandlerCode : Interrupt(i)
InterruptedSpec == InterruptedInit /\ [][InterruptedNext]_interruptedVars

-----------------------------------------------------------------------------
(***************************************************************************)
(* Property.                                                               *)
(***************************************************************************)

(* The block on a CPU with AVX, where the low half of one register is lost *)
(* after kl instructions and the high half after kh, if they are lost.     *)
Losing(s, k, kl, kh) ==
  LET n == signal.n
      t == IF signal.losesLow /\ k = kl THEN [s EXCEPT !.xmm[n] = signal.low] ELSE s
  IN  IF signal.losesHigh /\ k = kh THEN [t EXCEPT !.upper[n] = signal.high] ELSE t

LossyResult(kl, kh) ==
  FoldLeft(LAMBDA s, j : Losing(AvxStep([s EXCEPT !.rip = Rip(j)], block[j]), j, kl, kh),
           Losing(Before, 0, kl, kh), [j \in 1 .. Len(block) |-> j])

Agrees(r) == VectorsAgree(r) /\ GprsAgree(r) /\ MemoryAgrees(r)

(* A signal handler that uses AVX costs the interrupted block the halves   *)
(* of one register that are in the storage at that moment, and nothing     *)
(* else: between two instructions the high half, between swap_in_upper_ymm *)
(* and swap_out_upper_ymm the low half, for one emitted instruction of     *)
(* each exchange both.  Everything the block leaves, in registers and in   *)
(* memory, is what the AVX instructions make of the rest.                  *)
OnlyLiveSlotsLost ==
  phase = "resumed" =>
    IF ~signal.came THEN \E r \in {NativeResult} : Agrees(r)
    ELSE \E kl, kh \in 0 .. Len(block) : \E r \in {LossyResult(kl, kh)} : Agrees(r)

===============================================================================
