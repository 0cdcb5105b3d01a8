-------------------------- MODULE RewriterTypeProofs --------------------------
(***************************************************************************)
(* Type correctness of Rewriter for every program.  Most of it is about    *)
(* control: that RIP stays inside the code needs every relative jump of a  *)
(* patch to land in its own block, and every address a thread goes back    *)
(* to, from a chunk or out of a handler, to have come from the code.       *)
(***************************************************************************)
EXTENDS RewriterProofs

(* What a register or the stack may hold: chunk addresses come from the    *)
(* trampolines, return addresses lie in the code.                          *)
Words ==
  {w \in Word : /\ w.kind = "chunk" => IsBlock(w.chunk) /\ w.chunk.far
                /\ w.kind = "ret" => w.to \in Addr}

InChunk(t) ==
  /\ IsBlock(cur[t])
  /\ cur[t].far => /\ idx[t] \in 0 .. cur[t].n + 3
                   /\ idx[t] = cur[t].n + 3 => rax[t].kind = "ret"
  /\ ~cur[t].far => /\ idx[t] \in 1 .. cur[t].n + 1
                    /\ stack[t] # <<>> /\ Head(stack[t]).kind = "ret"

Control(t) ==
  /\ pc[t] \in Pc
  /\ rip[t] \in Addr
  /\ pc[t] = "trap" => rip[t] - 1 \in Addr
  /\ result[t] \in {0, 1}
  /\ pc[t] \in Emitting => result[t] = 0
  /\ (pc[t] = "unlock" /\ result[t] = 1) => rip[t] + 1 \in Addr
  /\ rax[t] \in Words
  /\ stack[t] \in Seq(Words)
  /\ cur[t] \in Chunk
  /\ idx[t] \in Nat
  /\ pc[t] = "chunk" => InChunk(t)
  /\ ran[t] \in 0 .. N
  /\ astray[t] \in BOOLEAN
  /\ rounds[t] \in Nat

Threaded(f) == f = [t \in Threads |-> f[t]]

TInv ==
  /\ \A t \in Threads : Control(t)
  /\ Threaded(pc) /\ Threaded(rip) /\ Threaded(rax) /\ Threaded(stack)
  /\ Threaded(cur) /\ Threaded(idx) /\ Threaded(result)
  /\ Threaded(ran) /\ Threaded(astray) /\ Threaded(rounds)
  /\ proc \in {"up", "exited", "derailed", "corrupt"}
  /\ jumptable \in [Addr -> Chunk]

(* Nothing of another thread's changes.                                    *)
Same(f, g, t) == Threaded(g) /\ \A u \in Threads : u # t => g[u] = f[u]

Own(t) ==
  /\ Same(pc, pc', t) /\ Same(rip, rip', t) /\ Same(rax, rax', t)
  /\ Same(stack, stack', t) /\ Same(cur, cur', t) /\ Same(idx, idx', t)
  /\ Same(result, result', t) /\ Same(ran, ran', t)
  /\ Same(astray, astray', t) /\ Same(rounds, rounds', t)

-----------------------------------------------------------------------------
(***************************************************************************)
(* Addresses, and what the bytes of a patch make of them.                  *)
(***************************************************************************)
LEMMA AddrFacts ==
  /\ Addr \subseteq Nat
  /\ \A i \in Instrs : Start[i] \in Addr /\ Start[i + 1] \in Addr
  /\ \A i \in Instrs : Start[i] + 1 \in Addr
<1>1. Start[1] \in Nat /\ Start[N + 1] \in Nat
  BY StartType, SizeAssumption
<1>2. ASSUME NEW j \in 1 .. N + 1 PROVE Start[j] \in Addr
  <2>1. Start[j] \in Nat
    BY StartType
  <2>2. Start[1] <= Start[j]
    BY <1>1, <2>1, StartIncreases, SizeAssumption
  <2>3. Start[j] <= Start[N + 1]
    BY <1>1, <2>1, StartIncreases, SizeAssumption
  <2>4. QED BY <1>1, <2>1, <2>2, <2>3 DEF Addr
<1>3. ASSUME NEW i \in Instrs PROVE Start[i] \in Addr /\ Start[i + 1] \in Addr
  <2>1. i \in 1 .. N + 1 /\ i + 1 \in 1 .. N + 1
    BY SizeAssumption DEF Instrs
  <2>2. QED BY <1>2, <2>1
<1>4. ASSUME NEW i \in Instrs PROVE Start[i] + 1 \in Addr
  <2>1. i \in 1 .. N + 1 /\ i + 1 \in 1 .. N + 1 /\ i < i + 1
    BY SizeAssumption DEF Instrs
  <2>2. Start[i] < Start[i + 1]
    BY <2>1, StartIncreases
  <2>3. QED BY <1>1, <1>3, <2>2 DEF Addr
<1>5. QED BY <1>1, <1>3, <1>4 DEF Addr

(* A byte that is not original belongs to one patch, and is that patch's.  *)
LEMMA ByteOfPatch ==
  ASSUME IInv, NEW a \in Addr, mem[a] # Orig
  PROVE  \E c \in patches : a \in Span(c) /\ mem[a] = PatchByte(c, a - c.base)
<1>1. PICK c \in patches : a \in Span(c)
  BY DEF IInv, RewritesConfined
<1>2. CASE Writing(c)
  BY <1>1, <1>2 DEF Writing, IInv, Hand, Emitting, HandByte
<1>3. CASE ~Writing(c)
  BY <1>1, <1>3 DEF IInv, PatchComplete
<1>4. QED BY <1>1, <1>2, <1>3

(* Two bytes of the same patch.                                            *)
LEMMA SamePatch ==
  ASSUME IInv, NEW c \in patches, NEW a \in Span(c), mem[a] # Orig
  PROVE  a \in Addr /\ mem[a] = PatchByte(c, a - c.base)
<1>1. a \in Addr
  BY BlockFacts DEF IInv
<1>2. PICK d \in patches : a \in Span(d) /\ mem[a] = PatchByte(d, a - d.base)
  BY <1>1, ByteOfPatch
<1>3. d = c
  BY <1>2 DEF IInv, PatchesDisjoint
<1>4. QED BY <1>1, <1>2, <1>3

LEMMA OrigOp == Orig.op = "orig"
  BY DEF Orig, Byte

(* Behind a rewritten byte there is more code.                             *)
LEMMA NextAddr ==
  ASSUME IInv, NEW a \in Addr, mem[a].op # "orig"
  PROVE  a + 1 \in Addr
<1>1. PICK c \in patches : a \in Span(c)
  BY ByteOfPatch, OrigOp
<1>2. Span(c) \subseteq Addr /\ Start[N + 1] \notin Span(c)
  BY BlockFacts DEF IInv
<1>3. Start[1] \in Nat /\ Start[N + 1] \in Nat
  BY StartType, SizeAssumption
<1>4. QED BY <1>1, <1>2, <1>3 DEF Addr

(* Where each opcode of a patch can be in its block.                       *)
LEMMA OpcodePlaces ==
  ASSUME NEW c, IsBlock(c), NEW a \in Span(c)
  PROVE  LET o == a - c.base
             op == PatchByte(c, o).op
             s == nopSlideEnd(c.len)
         IN  /\ op = "eb" => c.far /\ ShortJump(c.len) /\ o = 1
             /\ op = "e9" => c.far /\ LongJump(c.len) /\ o = 1
             /\ op = "48" => c.far /\ o = s + 1
             /\ op = "imm64" => c.far /\ PatchByte(c, o).chunk = c
<1>1. c.base \in Nat /\ c.len \in Nat /\ a - c.base \in 0 .. c.len - 1
  BY BlockFacts DEF Span
<1>2. CASE ~c.far
  BY <1>2 DEF PatchByte, TrapByte, Byte
<1>3. CASE c.far /\ a - c.base < nopSlideEnd(c.len)
  BY <1>1, <1>3 DEF PatchByte, FarByte, SlideByte, Byte, Disp
<1>4. CASE c.far /\ ~(a - c.base < nopSlideEnd(c.len))
  BY <1>1, <1>4 DEF PatchByte, FarByte, TrampolineByte, Byte, Imm64, nopSlideEnd,
                    trampolineSize
<1>5. QED BY <1>2, <1>3, <1>4

(* JMP rel8 lands on the PUSH RAX of its block.                            *)
LEMMA ShortTarget ==
  ASSUME IInv, NEW a \in Addr, mem[a].op = "eb", mem[a + 1].op = "disp8"
  PROVE  \E c \in patches :
           /\ a + 2 + mem[a + 1].disp = c.base + nopSlideEnd(c.len)
           /\ a + 2 + mem[a + 1].disp \in Addr
<1>1. PICK c \in patches : a \in Span(c) /\ mem[a] = PatchByte(c, a - c.base)
  BY ByteOfPatch, OrigOp
<1>2. IsBlock(c)
  BY DEF IInv
<1>3. c.far /\ ShortJump(c.len) /\ a = c.base + 1 /\ c.len > 18
      /\ c.base \in Nat /\ c.len \in Nat
  <2>1. c.far /\ ShortJump(c.len) /\ a - c.base = 1
    BY <1>1, <1>2, OpcodePlaces
  <2>2. c.base \in Nat /\ c.len \in Nat /\ a \in Nat
    BY <1>2, BlockFacts, AddrFacts
  <2>3. QED BY <2>1, <2>2 DEF ShortJump, freeSpace, trampolineSize
<1>4. a + 1 \in Span(c) /\ (a + 1) - c.base = 2
  BY <1>3 DEF Span
<1>5. mem[a + 1] = PatchByte(c, 2)
  BY <1>4, SamePatch, OrigOp
<1>6. PatchByte(c, 2) = Disp("disp8", shortDisp(c.len))
  BY <1>3 DEF PatchByte, FarByte, SlideByte, nopSlideEnd, trampolineSize
<1>7. mem[a + 1].disp = c.len - 17
  BY <1>3, <1>5, <1>6 DEF Disp, shortDisp, freeSpace, trampolineSize
<1>8. a + 2 + mem[a + 1].disp = c.base + nopSlideEnd(c.len)
  BY <1>3, <1>7 DEF nopSlideEnd, trampolineSize
<1>9. c.base + nopSlideEnd(c.len) \in Span(c)
  BY <1>3 DEF Span, nopSlideEnd, trampolineSize
<1>10. QED BY <1>2, <1>8, <1>9, BlockFacts

(* JMP rel32 lands one byte behind the PUSH RAX of its block.              *)
LEMMA LongTarget ==
  ASSUME IInv, NEW a \in Addr, mem[a].op = "e9", mem[a + 1].op = "disp32"
  PROVE  \E c \in patches :
           /\ a + 5 + mem[a + 1].disp = c.base + nopSlideEnd(c.len) + 1
           /\ a + 5 + mem[a + 1].disp \in Addr
<1>1. PICK c \in patches : a \in Span(c) /\ mem[a] = PatchByte(c, a - c.base)
  BY ByteOfPatch, OrigOp
<1>2. IsBlock(c)
  BY DEF IInv
<1>3. c.far /\ LongJump(c.len) /\ ~ShortJump(c.len) /\ a = c.base + 1 /\ c.len > 21
      /\ c.base \in Nat /\ c.len \in Nat
  <2>1. c.far /\ LongJump(c.len) /\ a - c.base = 1
    BY <1>1, <1>2, OpcodePlaces
  <2>2. c.base \in Nat /\ c.len \in Nat /\ a \in Nat
    BY <1>2, BlockFacts, AddrFacts
  <2>3. QED BY <2>1, <2>2 DEF LongJump, freeSpace, trampolineSize
<1>4. a + 1 \in Span(c) /\ (a + 1) - c.base = 2
  BY <1>3 DEF Span
<1>5. mem[a + 1] = PatchByte(c, 2)
  BY <1>4, SamePatch, OrigOp
<1>6. PatchByte(c, 2) = Disp("disp32", longDisp(c.len))
  BY <1>3 DEF PatchByte, FarByte, SlideByte, nopSlideEnd, trampolineSize
<1>7. mem[a + 1].disp = c.len - 19
  BY <1>3, <1>5, <1>6 DEF Disp, longDisp, nopSlideEnd, trampolineSize
<1>8. a + 5 + mem[a + 1].disp = c.base + nopSlideEnd(c.len) + 1
  BY <1>3, <1>7 DEF nopSlideEnd, trampolineSize
<1>9. c.base + nopSlideEnd(c.len) + 1 \in Span(c)
  BY <1>3 DEF Span, nopSlideEnd, trampolineSize
<1>10. QED BY <1>2, <1>8, <1>9, BlockFacts

(* MOV RAX, imm64 loads the far chunk of its own block.                    *)
LEMMA MovTarget ==
  ASSUME IInv, NEW a \in Addr, mem[a].op = "48", mem[a + 2].op = "imm64"
  PROVE  /\ a + 10 \in Addr
         /\ IsBlock(mem[a + 2].chunk) /\ mem[a + 2].chunk.far
<1>1. PICK c \in patches : a \in Span(c) /\ mem[a] = PatchByte(c, a - c.base)
  BY ByteOfPatch, OrigOp
<1>2. IsBlock(c)
  BY DEF IInv
<1>3. c.far /\ a = c.base + c.len - 13 /\ c.len > 14 /\ c.base \in Nat /\ c.len \in Nat
  <2>1. c.far /\ a - c.base = nopSlideEnd(c.len) + 1
    BY <1>1, <1>2, OpcodePlaces
  <2>2. c.base \in Nat /\ c.len \in Nat /\ a \in Nat /\ (c.far => c.len > 14)
    BY <1>2, BlockFacts, AddrFacts
  <2>3. QED BY <2>1, <2>2 DEF nopSlideEnd, trampolineSize
<1>4. a + 10 \in Span(c) /\ a + 2 \in Span(c)
  BY <1>3 DEF Span
<1>5. a + 10 \in Addr
  BY <1>2, <1>4, BlockFacts
<1>6. mem[a + 2] = PatchByte(c, (a + 2) - c.base)
  BY <1>4, SamePatch, OrigOp
<1>7. mem[a + 2].chunk = c
  BY <1>2, <1>4, <1>6, OpcodePlaces
<1>8. QED BY <1>2, <1>3, <1>5, <1>7

-----------------------------------------------------------------------------
(***************************************************************************)
(* Every step changes one thread's own state, and keeps it well typed.     *)
(***************************************************************************)
LEMMA InitTInv == Init => TInv
<1> SUFFICES ASSUME Init PROVE TInv
  OBVIOUS
<1>1. PICK entry \in [Threads -> Entries] :
        /\ rip = [t \in Threads |-> Start[entry[t]]]
        /\ ran = [t \in Threads |-> entry[t] - 1]
  BY DEF Init
<1>2. NULL \in Chunk /\ App \in Words /\ CallerTop \in Words
  BY DEF NULL, Chunk, App, CallerTop, Words, Word
<1>3. <<CallerTop>> \in Seq(Words)
  BY <1>2
<1>4. ASSUME NEW t \in Threads PROVE Control(t)
  <2>1. rip[t] = Start[entry[t]] /\ ran[t] = entry[t] - 1 /\ entry[t] \in Instrs
    BY <1>1, EntryAssumption
  <2>2. rip[t] \in Addr /\ ran[t] \in 0 .. N
    BY <2>1, AddrFacts, SizeAssumption DEF Instrs
  <2>3. QED BY <1>2, <1>3, <2>2 DEF Init, Control, Pc, Emitting
<1>5. QED BY <1>1, <1>2, <1>4 DEF Init, TInv, Threaded

LEMMA OwnTInv ==
  ASSUME TInv, NEW t \in Threads, Own(t), Control(t)',
         proc' \in {"up", "exited", "derailed", "corrupt"},
         jumptable' \in [Addr -> Chunk]
  PROVE  TInv'
<1>1. ASSUME NEW u \in Threads, u # t PROVE Control(u)'
  <2>1. /\ pc'[u] = pc[u] /\ rip'[u] = rip[u] /\ rax'[u] = rax[u]
        /\ stack'[u] = stack[u] /\ cur'[u] = cur[u] /\ idx'[u] = idx[u]
        /\ result'[u] = result[u] /\ ran'[u] = ran[u]
        /\ astray'[u] = astray[u] /\ rounds'[u] = rounds[u]
    BY <1>1 DEF Own, Same
  <2>2. Control(u)
    BY DEF TInv
  <2>3. QED BY <2>1, <2>2 DEF Control, InChunk
<1>2. QED BY <1>1 DEF Own, Same, TInv, Threaded

(* Popping into RAX leaves RAX and the stack with words.                   *)
LEMMA PopTypes ==
  ASSUME TInv, NEW t \in Threads, PopRax(t)
  PROVE  /\ Same(rax, rax', t) /\ Same(stack, stack', t)
         /\ rax'[t] \in Words /\ stack'[t] \in Seq(Words)
<1>1. Control(t) /\ CallerTop \in Words
  BY DEF TInv, CallerTop, Words, Word, Chunk, NULL
<1>2. CASE stack[t] = <<>>
  BY <1>1, <1>2 DEF PopRax, Same, TInv, Threaded, Control
<1>3. CASE stack[t] # <<>>
  <2>1. Head(stack[t]) \in Words /\ Tail(stack[t]) \in Seq(Words)
    BY <1>1, <1>3 DEF Control
  <2>2. QED BY <1>3, <2>1 DEF PopRax, Same, TInv, Threaded
<1>4. QED BY <1>2, <1>3

(* The steps of a thread that only moves: RIP and its place in the code.   *)
LEMMA ApplicationTInv ==
  ASSUME IInv, TInv, NEW t \in Threads, Application(t)
  PROVE  Own(t) /\ Control(t)'
<1>0. Control(t) /\ Caught(t)
  BY DEF TInv, Application
<1>1. Same(astray, astray', t) /\ astray'[t] \in BOOLEAN
  BY <1>0 DEF Caught, Same, Threaded, TInv, Control
<1>2. ASSUME NEW i \in Instrs, NativeInstr(t, i) PROVE Own(t) /\ Control(t)'
  <2>1. Start[i + 1] \in Addr /\ i \in 0 .. N
    BY AddrFacts, SizeAssumption DEF Instrs
  <2>2. Own(t)
    BY <1>1, <1>2 DEF NativeInstr, Goto, Own, Same, TInv, Threaded
  <2>3. Control(t)'
    BY <1>0, <1>1, <1>2, <2>1 DEF NativeInstr, Goto, Control, TInv, Threaded
  <2>4. QED BY <2>2, <2>3
<1>3. ASSUME NEW i \in Instrs, Sigill(t, i) PROVE Own(t) /\ Control(t)'
  <2>1. Own(t)
    BY <1>1, <1>3 DEF Sigill, Become, Own, Same, TInv, Threaded
  <2>2. Control(t)'
    BY <1>0, <1>1, <1>3 DEF Sigill, Become, Control, TInv, Threaded, Pc, Emitting
  <2>3. QED BY <2>1, <2>2
<1>4. CASE Sigtrap(t)
  <2>1. rip[t] + 1 \in Addr
    BY <1>0, <1>4, NextAddr, AddrFacts DEF Sigtrap, InstrAt, Control
  <2>2. Own(t)
    BY <1>1, <1>4 DEF Sigtrap, Goto, Become, Own, Same, TInv, Threaded
  <2>3. (rip[t] + 1) - 1 = rip[t]
    <3>1. rip[t] \in Nat
      BY <1>0, AddrFacts DEF Control
    <3>2. QED BY <3>1
  <2>4. Control(t)'
    BY <1>0, <1>1, <1>4, <2>1, <2>3 DEF Sigtrap, Goto, Become, Control, TInv, Threaded, Pc, Emitting
  <2>5. QED BY <2>2, <2>4
<1>5. CASE Nop(t)
  <2>1. rip[t] + 1 \in Addr
    BY <1>0, <1>5, NextAddr DEF Nop, Control
  <2>2. Own(t)
    BY <1>1, <1>5 DEF Nop, Goto, Own, Same, TInv, Threaded
  <2>3. Control(t)'
    BY <1>0, <1>1, <1>5, <2>1 DEF Nop, Goto, Control, TInv, Threaded
  <2>4. QED BY <2>2, <2>3
<1>6. CASE JumpShort(t)
  <2>1. rip[t] + 2 + mem[rip[t] + 1].disp \in Addr
    BY <1>0, <1>6, ShortTarget DEF JumpShort, Control
  <2>2. Own(t)
    BY <1>1, <1>6 DEF JumpShort, Goto, Own, Same, TInv, Threaded
  <2>3. Control(t)'
    BY <1>0, <1>1, <1>6, <2>1 DEF JumpShort, Goto, Control, TInv, Threaded
  <2>4. QED BY <2>2, <2>3
<1>7. CASE JumpLong(t)
  <2>1. rip[t] + 5 + mem[rip[t] + 1].disp \in Addr
    BY <1>0, <1>7, LongTarget DEF JumpLong, Control
  <2>2. Own(t)
    BY <1>1, <1>7 DEF JumpLong, Goto, Own, Same, TInv, Threaded
  <2>3. Control(t)'
    BY <1>0, <1>1, <1>7, <2>1 DEF JumpLong, Goto, Control, TInv, Threaded
  <2>4. QED BY <2>2, <2>3
<1>8. CASE TrampolinePush(t)
  <2>1. rip[t] + 1 \in Addr
    BY <1>0, <1>8, NextAddr DEF TrampolinePush, Control
  <2>2. <<rax[t]>> \o stack[t] \in Seq(Words)
    BY <1>0 DEF Control
  <2>3. Own(t)
    BY <1>1, <1>8 DEF TrampolinePush, PushRax, Goto, Own, Same, TInv, Threaded
  <2>4. Control(t)'
    BY <1>0, <1>1, <1>8, <2>1, <2>2
    DEF TrampolinePush, PushRax, Goto, Control, TInv, Threaded
  <2>5. QED BY <2>3, <2>4
<1>9. CASE TrampolineMov(t)
  <2> DEFINE c == mem[rip[t] + 2].chunk
  <2>1. rip[t] + 10 \in Addr /\ IsBlock(c) /\ c.far
    BY <1>0, <1>9, MovTarget DEF TrampolineMov, Control
  <2>2. Ptr(c) \in Words
    BY <2>1, BlockFacts DEF Ptr, Words, Word
  <2>3. rax' = [rax EXCEPT ![t] = Ptr(c)] /\ rip' = [rip EXCEPT ![t] = rip[t] + 10]
        /\ pc[t] = "run" /\ UNCHANGED <<pc, stack, cur, idx, result, ran, rounds>>
    BY <1>9 DEF TrampolineMov, Goto
  <2>4. Own(t)
    BY <1>1, <2>3 DEF Own, Same, TInv, Threaded
  <2>5. Control(t)'
    BY <1>0, <1>1, <2>1, <2>2, <2>3 DEF Control, TInv, Threaded
  <2>6. QED BY <2>4, <2>5
<1>10. CASE TrampolineJump(t)
  <2> DEFINE c == rax[t].chunk
  <2>1. IsBlock(c) /\ c.far /\ c \in Chunk /\ c.n \in Nat
    BY <1>0, <1>10, BlockFacts DEF TrampolineJump, Control, Words
  <2>2. /\ pc' = [pc EXCEPT ![t] = "chunk"] /\ cur' = [cur EXCEPT ![t] = c]
        /\ idx' = [idx EXCEPT ![t] = 0]
        /\ UNCHANGED <<rip, rax, stack, result, ran, rounds>>
    BY <1>10, <2>1 DEF TrampolineJump, EnterChunk, Become
  <2>3. Own(t)
    BY <1>1, <2>2 DEF Own, Same, TInv, Threaded
  <2>4. InChunk(t)'
    BY <2>1, <2>2 DEF InChunk, TInv, Threaded
  <2>5. Control(t)'
    BY <1>0, <1>1, <2>1, <2>2, <2>4 DEF Control, TInv, Threaded, Pc, Emitting
  <2>6. QED BY <2>3, <2>5
<1>11. CASE TrampolinePop(t)
  <2>1. rip[t] + 1 \in Addr
    BY <1>0, <1>11, NextAddr DEF TrampolinePop, Control
  <2>2. Same(rax, rax', t) /\ Same(stack, stack', t)
        /\ rax'[t] \in Words /\ stack'[t] \in Seq(Words)
    BY <1>11, PopTypes DEF TrampolinePop
  <2>3. Own(t)
    BY <1>1, <1>11, <2>2 DEF TrampolinePop, Goto, Own, Same, TInv, Threaded
  <2>4. Control(t)'
    BY <1>0, <1>1, <1>11, <2>1, <2>2 DEF TrampolinePop, Goto, Control, TInv, Threaded
  <2>5. QED BY <2>3, <2>4
<1>12. CASE Derail(t)
  <2>1. Own(t)
    BY <1>1, <1>12 DEF Derail, thread, Own, Same, TInv
  <2>2. Control(t)'
    BY <1>0, <1>1, <1>12 DEF Derail, thread, Control, Emitting
  <2>3. QED BY <2>1, <2>2
<1>13. CASE Finish(t)
  <2>1. Own(t)
    BY <1>1, <1>13 DEF Finish, Become, Own, Same, TInv, Threaded
  <2>2. Control(t)'
    BY <1>0, <1>1, <1>13 DEF Finish, Become, Control, TInv, Threaded, Pc, Emitting
  <2>3. QED BY <2>1, <2>2
<1>14. QED
  BY <1>2, <1>3, <1>4, <1>5, <1>6, <1>7, <1>8, <1>9, <1>10, <1>11, <1>12, <1>13
  DEF Application

(* The steps of a chunk.                                                   *)
LEMMA ChunksTInv ==
  ASSUME IInv, TInv, NEW t \in Threads, Chunks(t)
  PROVE  Own(t) /\ Control(t)'
<1> DEFINE c == cur[t]
<1>1. Control(t) /\ pc[t] = "chunk" /\ InChunk(t)
  BY DEF TInv, Control, Chunks, ChunkPop, ChunkInstr, ChunkPush, ChunkMov, ChunkJump,
         ChunkRet
<1>2. /\ IsBlock(c) /\ c.n \in Nat \ {0} /\ c.first \in Instrs
      /\ c.first + c.n - 1 \in Instrs /\ returnAddress(c) \in Addr
  BY <1>1, BlockFacts DEF InChunk
<1>3. idx[t] \in Nat
  BY <1>1 DEF Control
<1>4. CASE ChunkPop(t)
  <2>1. c.far
    BY <1>1, <1>4 DEF ChunkPop, InChunk
  <2>2. Same(rax, rax', t) /\ Same(stack, stack', t)
        /\ rax'[t] \in Words /\ stack'[t] \in Seq(Words)
    BY <1>4, PopTypes DEF ChunkPop
  <2>3. Own(t)
    BY <1>4, <2>2 DEF ChunkPop, history, Own, Same, TInv, Threaded
  <2>4. idx'[t] = 1 /\ cur'[t] = c
    BY <1>4 DEF ChunkPop, TInv, Threaded
  <2>5. InChunk(t)'
    BY <1>1, <1>2, <2>1, <2>4 DEF InChunk
  <2>6. Control(t)'
    BY <1>1, <1>4, <2>2, <2>4, <2>5 DEF ChunkPop, history, Control
  <2>7. QED BY <2>3, <2>6
<1>5. CASE ChunkInstr(t)
  <2>1. c.first + idx[t] - 1 \in 0 .. N
    BY <1>2, <1>5, SizeAssumption DEF ChunkInstr, Instrs
  <2>2. Own(t)
    BY <1>5 DEF ChunkInstr, Own, Same, TInv, Threaded
  <2>3. idx'[t] = idx[t] + 1 /\ cur'[t] = c /\ stack' = stack
        /\ idx[t] + 1 \in 1 .. c.n + 1 /\ idx[t] + 1 \in Nat
    BY <1>2, <1>5 DEF ChunkInstr, TInv, Threaded
  <2>4. InChunk(t)'
    BY <1>1, <1>2, <2>3 DEF InChunk
  <2>5. Control(t)'
    BY <1>1, <1>5, <2>1, <2>3, <2>4 DEF ChunkInstr, Control, TInv, Threaded
  <2>6. QED BY <2>2, <2>5
<1>6. CASE ChunkPush(t)
  <2>1. <<rax[t]>> \o stack[t] \in Seq(Words)
    BY <1>1 DEF Control
  <2>2. stack' = [stack EXCEPT ![t] = <<rax[t]>> \o stack[t]]
    BY <1>6 DEF ChunkPush, PushRax
  <2>3. Own(t)
    BY <1>6, <2>2 DEF ChunkPush, history, Own, Same, TInv, Threaded
  <2>4. idx'[t] = c.n + 2 /\ cur'[t] = c /\ c.far
    BY <1>2, <1>6 DEF ChunkPush, TInv, Threaded
  <2>5. InChunk(t)'
    BY <1>1, <1>2, <2>4 DEF InChunk
  <2>6. stack'[t] \in Seq(Words)
    BY <2>1, <2>2 DEF TInv, Threaded
  <2>7. Control(t)'
    BY <1>1, <1>2, <1>6, <2>4, <2>5, <2>6 DEF ChunkPush, history, Control
  <2>8. QED BY <2>3, <2>7
<1>7. CASE ChunkMov(t)
  <2> DEFINE r == Ret(returnAddress(c))
  <2>1. r \in Words /\ r.kind = "ret"
    BY <1>2, AddrFacts DEF Ret, Words, Word, NULL, Chunk
  <2>2. rax' = [rax EXCEPT ![t] = r]
    BY <1>7 DEF ChunkMov
  <2>3. Own(t)
    BY <1>7, <2>2 DEF ChunkMov, history, Own, Same, TInv, Threaded
  <2>4. idx'[t] = c.n + 3 /\ cur'[t] = c /\ c.far /\ rax'[t] = r
    BY <1>2, <1>7, <2>2 DEF ChunkMov, TInv, Threaded
  <2>5. InChunk(t)'
    BY <1>2, <2>1, <2>4 DEF InChunk
  <2>6. Control(t)'
    BY <1>1, <1>2, <1>7, <2>1, <2>4, <2>5 DEF ChunkMov, history, Control
  <2>7. QED BY <2>3, <2>6
<1>8. CASE ChunkJump(t)
  <2>1. rax[t].to \in Addr
    BY <1>1, <1>8 DEF ChunkJump, InChunk, Control, Words
  <2>2. /\ rip' = [rip EXCEPT ![t] = rax[t].to] /\ pc' = [pc EXCEPT ![t] = "run"]
        /\ UNCHANGED <<rax, stack, cur, idx, result, ran, astray, rounds>>
    BY <1>8 DEF ChunkJump, Goto, Become, history
  <2>3. Own(t)
    BY <2>2 DEF Own, Same, TInv, Threaded
  <2>4. Control(t)'
    BY <1>1, <2>1, <2>2 DEF Control, TInv, Threaded, Pc, Emitting
  <2>5. QED BY <2>3, <2>4
<1>9. CASE ChunkRet(t)
  <2>1. Head(stack[t]).to \in Addr /\ Tail(stack[t]) \in Seq(Words)
    <3>1. stack[t] \in Seq(Words) /\ stack[t] # <<>> /\ Head(stack[t]).kind = "ret"
      BY <1>1, <1>9 DEF ChunkRet, InChunk, Control
    <3>2. Head(stack[t]) \in Words
      BY <3>1
    <3>3. QED BY <3>1, <3>2 DEF Words
  <2>2. /\ rip' = [rip EXCEPT ![t] = Head(stack[t]).to]
        /\ stack' = [stack EXCEPT ![t] = Tail(stack[t])]
        /\ pc' = [pc EXCEPT ![t] = "run"]
        /\ UNCHANGED <<rax, cur, idx, result, ran, astray, rounds>>
    BY <1>9 DEF ChunkRet, Goto, Become, history
  <2>3. Own(t)
    BY <2>2 DEF Own, Same, TInv, Threaded
  <2>4. Control(t)'
    BY <1>1, <2>1, <2>2 DEF Control, TInv, Threaded, Pc, Emitting
  <2>5. QED BY <2>3, <2>4
<1>10. QED
  BY <1>4, <1>5, <1>6, <1>7, <1>8, <1>9 DEF Chunks

(* The steps of both handlers.                                             *)
LEMMA HandlerTInv ==
  ASSUME IInv, TInv, NEW t \in Threads, Handler(t)
  PROVE  Own(t) /\ Control(t)'
<1>0. Control(t)
  BY DEF TInv
<1>1. CASE ReencodeLock(t)
  <2>1. /\ pc' = [pc EXCEPT ![t] = "decode"]
        /\ astray' = [astray EXCEPT ![t] = astray[t] \/ InsideBlock(t)]
        /\ UNCHANGED <<rip, rax, stack, cur, idx, result, ran, rounds>>
    BY <1>1 DEF ReencodeLock, Become
  <2>2. Own(t)
    BY <2>1 DEF Own, Same, TInv, Threaded
  <2>3. Control(t)'
    BY <1>0, <2>1 DEF Control, TInv, Threaded, Pc, Emitting
  <2>4. QED BY <2>2, <2>3
<1>2. CASE DecodeNopTrap(t)
  <2>1. rip[t] + 1 \in Addr
    BY <1>0, <1>2, NextAddr DEF DecodeNopTrap, Control
  <2>2. Own(t)
    BY <1>2 DEF DecodeNopTrap, Become, history, Own, Same, TInv, Threaded
  <2>3. Control(t)'
    BY <1>0, <1>2, <2>1 DEF DecodeNopTrap, Become, history, Control, TInv, Threaded, Pc, Emitting
  <2>4. QED BY <2>2, <2>3
<1>3. ASSUME NEW i \in Instrs, NEW n \in 1 .. MaxBlock, DecodeBlock(t, i, n)
      PROVE  Own(t) /\ Control(t)'
  <2>1. Block(i, n) \in Chunk
    <3>1. i + n - 1 \in Instrs
      BY <1>3 DEF DecodeBlock, Decodes, Instrs
    <3>2. QED BY <3>1, BlockFacts DEF IsBlock
  <2>2. /\ pc' = [pc EXCEPT ![t] = "emit"] /\ cur' = [cur EXCEPT ![t] = Block(i, n)]
        /\ result' = [result EXCEPT ![t] = 0]
        /\ UNCHANGED <<rip, rax, stack, idx, ran, astray, rounds>>
    BY <1>3 DEF DecodeBlock, Become, history
  <2>3. Own(t)
    BY <2>2 DEF Own, Same, TInv, Threaded
  <2>4. Control(t)'
    BY <1>0, <2>1, <2>2 DEF Control, TInv, Threaded, Pc, Emitting
  <2>5. QED BY <2>3, <2>4
<1>4. CASE DecodeUnsupported(t) \/ DecodeGarbage(t)
  <2>1. Own(t)
    BY <1>4 DEF DecodeUnsupported, DecodeGarbage, thread, history, Own, Same, TInv
  <2>2. Control(t)'
    BY <1>0, <1>4 DEF DecodeUnsupported, DecodeGarbage, thread, history, Control, InChunk
  <2>3. QED BY <2>1, <2>2
<1>5. CASE EmitChunk(t)
  <2>1. Own(t)
    BY <1>5 DEF EmitChunk, Become, history, Own, Same, TInv, Threaded
  <2>2. Control(t)'
    BY <1>0, <1>5 DEF EmitChunk, Become, history, Control, TInv, Threaded, Pc, Emitting
  <2>3. QED BY <2>1, <2>2
<1>6. CASE EmitStore(t)
  <2> DEFINE c == cur[t]
             w == StoreWidth(PatchByte(c, idx[t]))
             s == IF idx[t] + w < c.len THEN "write" ELSE IF c.far THEN "unlock" ELSE "add"
  <2>1. pc[t] = "write" /\ IsBlock(c) /\ idx[t] \in 0 .. c.len - 1 /\ Aligned(c, idx[t])
    BY <1>6 DEF EmitStore, IInv, Hand, Emitting
  <2>2. idx[t] + w \in Nat
    BY <2>1, StoreFacts
  <2>3. /\ pc' = [pc EXCEPT ![t] = s] /\ idx' = [idx EXCEPT ![t] = idx[t] + w]
        /\ UNCHANGED <<rip, rax, stack, cur, result, ran, astray, rounds>>
    BY <1>6 DEF EmitStore, Become, history
  <2>4. Own(t)
    BY <2>3 DEF Own, Same, TInv, Threaded
  <2>5. result[t] = 0
    BY <1>0, <2>1 DEF Control, Emitting
  <2>6. Control(t)'
    BY <1>0, <2>2, <2>3, <2>5 DEF Control, TInv, Threaded, Pc, Emitting
  <2>7. QED BY <2>4, <2>6
<1>7. CASE JumptableAddBegin(t)
  <2>1. Own(t)
    BY <1>7 DEF JumptableAddBegin, Become, history, Own, Same, TInv, Threaded
  <2>2. Control(t)'
    BY <1>0, <1>7 DEF JumptableAddBegin, Become, history, Control, TInv, Threaded, Pc, Emitting
  <2>3. QED BY <2>1, <2>2
<1>8. CASE JumptableAddEnd(t)
  <2>1. Own(t)
    BY <1>8 DEF JumptableAddEnd, Become, history, Own, Same, TInv, Threaded
  <2>2. Control(t)'
    BY <1>0, <1>8 DEF JumptableAddEnd, Become, history, Control, TInv, Threaded, Pc, Emitting
  <2>3. QED BY <2>1, <2>2
<1>9. CASE ReencodeReturn(t)
  <2>1. rip[t] + result[t] \in Addr
    <3>1. rip[t] \in Addr /\ rip[t] \in Nat /\ result[t] \in {0, 1}
          /\ (result[t] = 1 => rip[t] + 1 \in Addr)
      BY <1>0, <1>9, AddrFacts DEF ReencodeReturn, Control
    <3>2. QED BY <3>1
  <2>2. Own(t)
    BY <1>9 DEF ReencodeReturn, Become, Goto, history, Own, Same, TInv, Threaded
  <2>3. Control(t)'
    BY <1>0, <1>9, <2>1
    DEF ReencodeReturn, Become, Goto, history, Control, TInv, Threaded, Pc, Emitting
  <2>4. QED BY <2>2, <2>3
<1>10. CASE SigtrapFound(t)
  <2> DEFINE c == jumptable[rip[t] - 1]
             r == Ret(rip[t])
  <2>1. rip[t] - 1 \in Addr /\ c # NULL
    BY <1>0, <1>10 DEF SigtrapFound, jumptable_get_chunk, Control
  <2>2. IsBlock(c) /\ c \in Chunk /\ c.n \in Nat \ {0}
    BY <2>1, BlockFacts DEF IInv, TableInv
  <2>3. r \in Words /\ r.kind = "ret"
    BY <1>0, AddrFacts DEF Ret, Words, Word, NULL, Chunk, Control
  <2>4. <<r>> \o stack[t] \in Seq(Words) /\ <<r>> \o stack[t] # <<>>
        /\ Head(<<r>> \o stack[t]) = r
    BY <1>0, <2>3 DEF Control
  <2>5. /\ stack' = [stack EXCEPT ![t] = <<r>> \o stack[t]]
        /\ pc' = [pc EXCEPT ![t] = "chunk"]
        /\ cur' = [cur EXCEPT ![t] = c]
        /\ idx' = [idx EXCEPT ![t] = IF c.far THEN 0 ELSE 1]
        /\ UNCHANGED <<rip, rax, result, ran, astray, rounds>>
    BY <1>10 DEF SigtrapFound, jumptable_get_chunk, EnterChunk, Become, history
  <2>6. Own(t)
    BY <2>5 DEF Own, Same, TInv, Threaded
  <2>7. stack'[t] = <<r>> \o stack[t] /\ cur'[t] = c /\ pc'[t] = "chunk"
        /\ idx'[t] = IF c.far THEN 0 ELSE 1
    BY <2>5 DEF TInv, Threaded
  <2>8. InChunk(t)'
    BY <2>2, <2>3, <2>4, <2>7 DEF InChunk
  <2>9. Control(t)'
    BY <1>0, <2>2, <2>4, <2>5, <2>7, <2>8 DEF Control, Pc, Emitting
  <2>10. QED BY <2>6, <2>9
<1>11. CASE SigtrapMissing(t)
  <2>1. Own(t)
    BY <1>11 DEF SigtrapMissing, Become, history, Own, Same, TInv, Threaded
  <2>2. Control(t)'
    BY <1>0, <1>11 DEF SigtrapMissing, Become, history, Control, TInv, Threaded, Pc, Emitting
  <2>3. QED BY <2>1, <2>2
<1>12. QED
  BY <1>1, <1>2, <1>3, <1>4, <1>5, <1>6, <1>7, <1>8, <1>9, <1>10, <1>11 DEF Handler

(* The environment's steps.                                                *)
LEMMA OutsideTInv ==
  ASSUME IInv, TInv, NEW t \in Threads, Outside(t)
  PROVE  Own(t) /\ Control(t)'
<1>0. Control(t)
  BY DEF TInv
<1>1. CASE EmitFails(t) \/ \E u \in Threads : MapRace(t, u)
  <2>1. UNCHANGED <<pc, rip, rax, stack, cur, idx, result, ran, astray, rounds>>
    BY <1>1 DEF EmitFails, MapRace, thread, history
  <2>2. Own(t)
    BY <2>1 DEF Own, Same, TInv
  <2>3. Control(t)'
    BY <1>0, <2>1 DEF Control, InChunk
  <2>4. QED BY <2>2, <2>3
<1>2. CASE KeyPress(t)
  <2>1. PICK i \in Instrs : IF Intact(i) THEN ran' = [ran EXCEPT ![t] = i]
                                        ELSE UNCHANGED ran
    BY <1>2 DEF KeyPress
  <2>2. i \in 0 .. N
    BY SizeAssumption DEF Instrs
  <2>3. /\ pc' = [pc EXCEPT ![t] = "run"]
        /\ UNCHANGED <<rip, rax, stack, cur, idx, result, astray, rounds>>
    BY <1>2 DEF KeyPress, Become
  <2>4. Same(ran, ran', t) /\ ran'[t] \in 0 .. N
    BY <1>0, <2>1, <2>2 DEF Same, TInv, Threaded, Control
  <2>5. Own(t)
    BY <2>3, <2>4 DEF Own, Same, TInv, Threaded
  <2>6. Control(t)'
    BY <1>0, <2>3, <2>4 DEF Control, TInv, Threaded, Pc, Emitting
  <2>7. QED BY <2>5, <2>6
<1>3. ASSUME NEW e \in Entries, Restart(t, e) PROVE Own(t) /\ Control(t)'
  <2>1. Start[e] \in Addr /\ e - 1 \in 0 .. N
    BY AddrFacts, EntryAssumption, SizeAssumption DEF Instrs
  <2>2. App \in Words /\ <<CallerTop>> \in Seq(Words)
    <3>1. App \in Words /\ CallerTop \in Words
      BY DEF App, CallerTop, Words, Word, Chunk, NULL
    <3>2. QED BY <3>1
  <2>3. /\ rounds' = [rounds EXCEPT ![t] = rounds[t] + 1]
        /\ pc' = [pc EXCEPT ![t] = "run"]
        /\ rip' = [rip EXCEPT ![t] = Start[e]]
        /\ ran' = [ran EXCEPT ![t] = e - 1]
        /\ astray' = [astray EXCEPT ![t] = FALSE]
        /\ rax' = [rax EXCEPT ![t] = App]
        /\ stack' = [stack EXCEPT ![t] = <<CallerTop>>]
        /\ UNCHANGED <<cur, idx, result>>
    BY <1>3 DEF Restart, Become, Goto
  <2>4. Own(t)
    BY <2>3 DEF Own, Same, TInv, Threaded
  <2>5. Control(t)'
    BY <1>0, <2>1, <2>2, <2>3 DEF Control, TInv, Threaded, Pc, Emitting
  <2>6. QED BY <2>4, <2>5
<1>4. QED BY <1>1, <1>2, <1>3 DEF Outside

(* The process and the table.                                              *)
LEMMA SharedTypes ==
  ASSUME IInv, TInv, Next
  PROVE  /\ proc' \in {"up", "exited", "derailed", "corrupt"}
         /\ jumptable' \in [Addr -> Chunk]
<1>1. PICK t \in Threads : Application(t) \/ Chunks(t) \/ Handler(t) \/ Outside(t)
  BY DEF Next
<1>2. CASE JumptableAddEnd(t)
  <2>1. IsBlock(cur[t])
    BY <1>2 DEF JumptableAddEnd, IInv, Hand, Emitting
  <2>2. QED BY <1>2, <2>1, BlockFacts DEF JumptableAddEnd, TInv
<1>3. CASE Application(t)
  BY <1>3 DEF Application, NativeInstr, Sigill, Sigtrap, Nop, JumpShort, JumpLong,
     TrampolinePush, TrampolineMov, TrampolineJump, TrampolinePop, Derail, Finish, TInv
<1>4. CASE Chunks(t)
  BY <1>4 DEF Chunks, ChunkPop, ChunkInstr, ChunkPush, ChunkMov, ChunkJump, ChunkRet, TInv
<1>5. CASE Outside(t)
  BY <1>5 DEF Outside, EmitFails, KeyPress, MapRace, Restart, TInv
<1>6. CASE Handler(t) /\ ~JumptableAddEnd(t)
  BY <1>6 DEF Handler, ReencodeLock, DecodeNopTrap, DecodeUnsupported, DecodeGarbage,
     DecodeBlock, EmitChunk, EmitStore, JumptableAddBegin, ReencodeReturn,
     SigtrapFound, SigtrapMissing, TInv
<1>7. QED BY <1>1, <1>2, <1>3, <1>4, <1>5, <1>6

LEMMA NextTInv == IInv /\ TInv /\ [Next]_vars => TInv'
<1>1. ASSUME IInv, TInv, Next PROVE TInv'
  <2>1. PICK t \in Threads : Application(t) \/ Chunks(t) \/ Handler(t) \/ Outside(t)
    BY <1>1 DEF Next
  <2>2. Own(t) /\ Control(t)'
    BY <1>1, <2>1, ApplicationTInv, ChunksTInv, HandlerTInv, OutsideTInv
  <2>3. QED BY <1>1, <2>2, SharedTypes, OwnTInv
<1>2. ASSUME TInv, UNCHANGED vars PROVE TInv'
  BY <1>2 DEF vars, thread, history, TInv, Control, InChunk, Threaded
<1>3. QED BY <1>1, <1>2

-----------------------------------------------------------------------------
LEMMA TypesOfInvs == IInv /\ TInv => TypeOK
<1> SUFFICES ASSUME IInv, TInv PROVE TypeOK
  OBVIOUS
<1>1. Words \subseteq Word
  BY DEF Words
<1>2. \A t \in Threads : stack[t] \in Seq(Word)
  BY <1>1 DEF TInv, Control
<1>3. patches \subseteq Chunk
  BY BlockFacts DEF IInv
<1>4. \A t \in Threads : rip[t] \in Nat /\ rax[t] \in Word
  BY <1>1, AddrFacts DEF TInv, Control
<1>5. QED
  BY <1>2, <1>3, <1>4 DEF TypeOK, TInv, Control, Threaded, IInv, CoreType

(* Every variable keeps its type in every execution of every program: in   *)
(* particular no thread's RIP ever leaves the code except into a chunk.    *)
THEOREM SpecTypeOK == Spec => []TypeOK
<1>1. Init => IInv /\ TInv
  BY InitIInv, InitTInv
<1>2. IInv /\ TInv /\ [Next]_vars => IInv' /\ TInv'
  BY NextIInv, NextTInv
<1>3. QED BY <1>1, <1>2, TypesOfInvs, PTL DEF Spec

===============================================================================
