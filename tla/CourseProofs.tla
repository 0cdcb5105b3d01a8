----------------------------- MODULE CourseProofs -----------------------------
(***************************************************************************)
(* Theorems about what a thread of Rewriter executes, for every program.   *)
(* A thread that no rewriting has caught half-way is always where the      *)
(* application would be: before its next instruction, or on the one way    *)
(* there is through a patch and its chunk.  From this follow that Rewriter *)
(* implements NativeAvx, and that the way through a patch leaves RAX and   *)
(* the stack as they were.                                                 *)
(***************************************************************************)
EXTENDS RewriterTypeProofs, SequenceTheorems

(* No block the translator may decode gets the JMP rel32, which skips the  *)
(* trampoline's PUSH: blocks have fewer than 142 bytes.                    *)
ShortBlocks ==
  \A i \in Instrs, n \in 1 .. MaxBlock :
    i .. i + n - 1 \subseteq {k \in Instrs : Kind[k] \in {"avx", "both"}}
      => ~LongJump(Start[i + n] - Start[i])

(* What has been decoded: a block starts with an instruction that trapped. *)
Known(c) ==
  /\ Kind[c.first] = "avx"
  /\ \A k \in c.first .. c.first + c.n - 1 : Kind[k] \in {"avx", "both"}

(* A thread that goes into sigill_handler has trapped on a VEX instruction. *)
Trap(t) ==
  /\ pc[t] = "emit" => Known(cur[t])
  /\ pc[t] \in {"ill", "decode"} =>
       \E i \in Instrs : rip[t] = Start[i] /\ Kind[i] \in {"avx", "bad"}

KInv ==
  /\ \A c \in patches : Known(c)
  /\ \A t \in Threads : Trap(t)

(* A patch that is in place, and will be for ever.                         *)
Settled(c) == c \in patches /\ ~Writing(c)

(* What RAX and the stack hold, in a program of short blocks.              *)
Nominal(t) == ShortBlocks => rax[t] = App /\ stack[t] = <<CallerTop>>
Saved(t) == ShortBlocks => stack[t] = <<App, CallerTop>>

AtNext(t) == rip[t] = Start[ran[t] + 1] /\ Nominal(t)

(* In a patch, at the opcode of one of the instructions before its chunk.  *)
Entering(t, c) ==
  LET op == PatchByte(c, rip[t] - c.base).op
  IN  /\ Settled(c) /\ ran[t] = c.first - 1 /\ rip[t] \in Span(c)
      /\ \/ op \in {"90", "eb", "e9", "50", "cc"} /\ Nominal(t)
         \/ op = "48" /\ (ShortBlocks => rax[t] = App) /\ Saved(t)
         \/ op = "ff" /\ rax[t] = Ptr(c) /\ Saved(t)

(* At the POP RAX behind the chunk.                                        *)
Leaving(t, c) ==
  /\ Settled(c) /\ c.far /\ ran[t] = c.first + c.n - 1
  /\ rip[t] = returnAddress(c) /\ Saved(t)

InCode(t) == AtNext(t) \/ \E c \in patches : Entering(t, c) \/ Leaving(t, c)

(* Behind an INT3 of the application's own.                                *)
OwnInt3(t) ==
  ran[t] + 1 \in Instrs /\ Kind[ran[t] + 1] = "brk" /\ rip[t] = Start[ran[t] + 2]

Trapped(t) ==
  /\ Nominal(t)
  /\ \/ OwnInt3(t)
     \/ \E c \in patches : /\ Settled(c) /\ ~c.far /\ ran[t] = c.first - 1
                           /\ rip[t] = returnAddress(c) + 1

InFarChunk(t, c) ==
  /\ idx[t] = 0 => ran[t] = c.first - 1 /\ Saved(t)
  /\ idx[t] \in 1 .. c.n + 1 => ran[t] = c.first + idx[t] - 2 /\ Nominal(t)
  /\ idx[t] > c.n + 1 => ran[t] = c.first + c.n - 1 /\ Saved(t)
  /\ idx[t] = c.n + 2 => (ShortBlocks => rax[t] = App)
  /\ idx[t] = c.n + 3 => rax[t] = Ret(returnAddress(c))

InTrapChunk(t, c) ==
  /\ ran[t] = c.first + idx[t] - 2
  /\ Head(stack[t]) = Ret(returnAddress(c) + 1)
  /\ ShortBlocks => rax[t] = App /\ stack[t] = <<Ret(returnAddress(c) + 1), CallerTop>>

Course(t) ==
  /\ pc[t] = "run" => InCode(t)
  /\ pc[t] \in {"ill", "decode", "emit", "write", "add", "adding", "unlock"} => AtNext(t)
  /\ pc[t] = "decode" => ~InsideBlock(t)
  /\ pc[t] = "unlock" /\ result[t] = 1 =>
       \E c \in patches : Settled(c) /\ ran[t] = c.first - 1
  /\ pc[t] = "trap" => Trapped(t)
  /\ pc[t] = "getchar" => OwnInt3(t) /\ Nominal(t)
  /\ pc[t] = "chunk" =>
       Settled(cur[t]) /\ IF cur[t].far THEN InFarChunk(t, cur[t]) ELSE InTrapChunk(t, cur[t])
  /\ pc[t] = "done" => ran[t] = N

CInv == KInv /\ \A t \in Threads : ~astray[t] => Course(t)

-----------------------------------------------------------------------------
(***************************************************************************)
(* Blocks, their instructions and the instructions of their patches.       *)
(***************************************************************************)

(* Where the instructions start and end; no two start at the same address. *)
LEMMA StartFacts ==
  /\ \A i \in 1 .. N + 1 : Start[i] \in Nat
  /\ \A i, j \in 1 .. N + 1 : Start[i] = Start[j] => i = j
  /\ \A i, j \in 1 .. N + 1 : Start[i] <= Start[j] <=> i <= j
  /\ \A i \in Instrs : i \in Nat /\ i \in 1 .. N + 1 /\ i + 1 \in 1 .. N + 1
<1>1. \A i \in 1 .. N + 1 : Start[i] \in Nat
  BY StartType
<1>2. ASSUME NEW i \in 1 .. N + 1, NEW j \in 1 .. N + 1
      PROVE  /\ Start[i] = Start[j] => i = j
             /\ Start[i] <= Start[j] <=> i <= j
  <2>1. i \in Int /\ j \in Int /\ Start[i] \in Nat /\ Start[j] \in Nat
    BY <1>1, SizeAssumption
  <2>2. (i < j => Start[i] < Start[j]) /\ (j < i => Start[j] < Start[i])
    BY StartIncreases
  <2>3. QED BY <2>1, <2>2
<1>3. \A i \in Instrs : i \in Nat /\ i \in 1 .. N + 1 /\ i + 1 \in 1 .. N + 1
  BY SizeAssumption DEF Instrs
<1>4. QED BY <1>1, <1>2, <1>3

(* A block covers whole instructions: it holds every byte of those it was  *)
(* decoded from and none of any other, and what follows it is the next.    *)
LEMMA BlockCovers ==
  ASSUME NEW c, IsBlock(c)
  PROVE  /\ c.first \in Instrs /\ c.n \in Nat \ {0}
         /\ c.first + c.n \in 1 .. N + 1
         /\ Start[c.first] = c.base
         /\ Start[c.first + c.n] = returnAddress(c) + 1
         /\ \A i \in Instrs, a \in Span(c) :
              a \in Bytes(i) => i \in c.first .. c.first + c.n - 1 /\ Start[i] \in Span(c)
         /\ \A i \in 1 .. N + 1 : Start[i] \in Span(c) <=> i \in c.first .. c.first + c.n - 1
<1>1. PICK i \in Instrs, n \in 1 .. MaxBlock :
             i + n - 1 \in Instrs /\ c = Block(i, n)
  BY DEF IsBlock
<1>2. c.first = i /\ c.n = n /\ c.base = Start[i] /\ c.len = Start[i + n] - Start[i]
  BY <1>1 DEF Block
<1>3. i \in 1 .. N + 1 /\ i + n \in 1 .. N + 1 /\ n \in Nat \ {0} /\ i \in Nat
  BY <1>1, SizeAssumption DEF Instrs
<1>4. Start[i] \in Nat /\ Start[i + n] \in Nat
  BY <1>3, StartFacts
<1>5. \A a : a \in Span(c) <=> a \in Start[i] .. Start[i + n] - 1
  BY <1>2, <1>4 DEF Span
<1>6. \A j \in 1 .. N + 1 : Start[j] \in Span(c) <=> j \in i .. i + n - 1
  <2>1. ASSUME NEW j \in 1 .. N + 1
        PROVE  Start[j] \in Span(c) <=> j \in i .. i + n - 1
    <3>1. Start[j] \in Nat /\ (Start[i] <= Start[j] <=> i <= j)
          /\ (Start[i + n] <= Start[j] <=> i + n <= j) /\ j \in Int
      BY <1>3, StartFacts, SizeAssumption
    <3>2. QED BY <1>3, <1>4, <1>5, <3>1
  <2>2. QED BY <2>1
<1>7. ASSUME NEW j \in Instrs, NEW a \in Span(c), a \in Bytes(j)
      PROVE  j \in i .. i + n - 1
  <2>1. j \in 1 .. N + 1 /\ j + 1 \in 1 .. N + 1 /\ j \in Nat
    BY SizeAssumption DEF Instrs
  <2>2. Start[j] \in Nat /\ Start[j + 1] \in Nat
    BY <2>1, StartFacts
  <2>3. Start[j] < Start[i + n] /\ Start[i] < Start[j + 1]
    BY <1>4, <1>5, <1>7, <2>2 DEF Bytes
  <2>4. ~(Start[i + n] <= Start[j]) /\ ~(Start[j + 1] <= Start[i])
    BY <1>4, <2>2, <2>3
  <2>5. ~(i + n <= j) /\ ~(j + 1 <= i)
    BY <1>3, <2>1, <2>4, StartFacts
  <2>6. QED BY <1>3, <2>1, <2>5
<1>8. \A j \in Instrs : j \in 1 .. N + 1
  BY SizeAssumption DEF Instrs
<1>9. Start[c.first + c.n] = returnAddress(c) + 1
  BY <1>2, <1>4 DEF returnAddress
<1>10. QED BY <1>1, <1>2, <1>3, <1>6, <1>7, <1>8, <1>9

(* A decoded block has two bytes at least, and in a program of short       *)
(* blocks no JMP rel32.                                                    *)
LEMMA KnownFacts ==
  ASSUME NEW c, IsBlock(c), Known(c)
  PROVE  c.len >= 2 /\ (ShortBlocks => ~LongJump(c.len))
<1>1. PICK i \in Instrs, n \in 1 .. MaxBlock :
             i + n - 1 \in Instrs /\ c = Block(i, n)
  BY DEF IsBlock
<1>2. c.first = i /\ c.n = n /\ c.len = Start[i + n] - Start[i]
  BY <1>1 DEF Block
<1>3. /\ i \in 1 .. N + 1 /\ i + 1 \in 1 .. N + 1 /\ i + n \in 1 .. N + 1
      /\ i + 1 <= i + n /\ i \in Nat /\ n \in Nat
  BY <1>1, SizeAssumption DEF Instrs
<1>4. Start[i] \in Nat /\ Start[i + 1] \in Nat /\ Start[i + n] \in Nat
  BY <1>3, StartFacts
<1>5. Start[i + 1] <= Start[i + n]
  BY <1>3, StartFacts
<1>6. Start[i + 1] >= Start[i] + 2
  BY <1>1, <1>2, LengthAssumption DEF Known
<1>7. c.len >= 2
  BY <1>2, <1>4, <1>5, <1>6
<1>8. i .. i + n - 1 \subseteq {k \in Instrs : Kind[k] \in {"avx", "both"}}
  BY <1>1, <1>2, <1>3, SizeAssumption DEF Known, Instrs
<1>9. ShortBlocks => ~LongJump(c.len)
  BY <1>1, <1>2, <1>8 DEF ShortBlocks
<1>10. QED BY <1>7, <1>9

(* From which instruction of a patch to which the CPU goes: o is the place *)
(* of an opcode, and what has to follow it does.                           *)
LEMMA OpcodeSteps ==
  ASSUME NEW c, IsBlock(c), Known(c), NEW o \in 0 .. c.len - 1
  PROVE  LET op == PatchByte(c, o).op
             s == nopSlideEnd(c.len)
         IN  /\ o = 0 => op = "90"
             /\ o = c.len - 1 => op = (IF c.far THEN "58" ELSE "cc")
             /\ op = "90" => o + 1 < c.len
                  /\ PatchByte(c, o + 1).op \in {"90", "eb", "e9", "50", "cc"}
             /\ op = "eb" => o + 1 < c.len /\ PatchByte(c, o + 1).op = "disp8"
                  /\ c.far /\ o + 2 + PatchByte(c, o + 1).disp = s
             /\ op = "e9" => o + 1 < c.len /\ PatchByte(c, o + 1).op = "disp32"
                  /\ c.far /\ LongJump(c.len) /\ o + 5 + PatchByte(c, o + 1).disp = s + 1
             /\ op = "50" => o + 1 < c.len /\ PatchByte(c, o + 1).op = "48"
             /\ op = "48" => o + 10 < c.len /\ PatchByte(c, o + 1).op = "b8"
                  /\ PatchByte(c, o + 2) = Imm64(c) /\ PatchByte(c, o + 10).op = "ff"
             /\ op = "ff" => o + 1 < c.len /\ PatchByte(c, o + 1).op = "e0" /\ c.far
             /\ op = "58" => c.far /\ o = c.len - 1
             /\ op = "cc" => ~c.far /\ o = c.len - 1
             /\ c.far => s \in 1 .. c.len - 1 /\ s + 1 < c.len
                  /\ PatchByte(c, s).op = "50" /\ PatchByte(c, s + 1).op = "48"
<1>1. c.len \in Nat /\ c.len >= 2 /\ (c.far => c.len > 14)
  BY BlockFacts, KnownFacts
<1>2. CASE ~c.far
  BY <1>1, <1>2 DEF PatchByte, TrapByte, Byte
<1> DEFINE s == nopSlideEnd(c.len)
<1>3. ASSUME c.far, NEW k \in 0 .. c.len - 1
      PROVE  PatchByte(c, k) = IF k < s THEN SlideByte(c.len, k) ELSE TrampolineByte(c, k - s)
  BY <1>3 DEF PatchByte, FarByte
<1>4. c.far => c.len \in Nat /\ s = c.len - 14 /\ s \in Nat \ {0}
  BY <1>1 DEF nopSlideEnd, trampolineSize
<1>5. ASSUME c.far, o < s
      PROVE  LET op == PatchByte(c, o).op
             IN  /\ op \in {"90", "eb", "disp8", "e9", "disp32"}
                 /\ o = 0 => op = "90"
                 /\ op = "eb" => o = 1 /\ ShortJump(c.len)
                 /\ op = "e9" => o = 1 /\ LongJump(c.len)
                 /\ op = "90" => (ShortJump(c.len) => o \notin {1, 2})
                                 /\ (LongJump(c.len) => o \notin 1 .. 5)
  BY <1>3, <1>4, <1>5 DEF SlideByte, Byte, Disp
<1>6. ASSUME c.far, NEW k \in 0 .. 13
      PROVE  /\ s + k < c.len /\ s + k \in 0 .. c.len - 1
             /\ PatchByte(c, s + k) = TrampolineByte(c, k)
  <2>1. s + k \in 0 .. c.len - 1 /\ ~(s + k < s) /\ (s + k) - s = k
    BY <1>4, <1>6
  <2>2. QED BY <1>3, <1>6, <2>1, <1>4
<1>7. /\ \A k \in 3 .. 10 : TrampolineByte(c, k) = Imm64(c)
      /\ TrampolineByte(c, 0) = Byte("50") /\ TrampolineByte(c, 1) = Byte("48")
      /\ TrampolineByte(c, 2) = Byte("b8") /\ TrampolineByte(c, 11) = Byte("ff")
      /\ TrampolineByte(c, 12) = Byte("e0") /\ TrampolineByte(c, 13) = Byte("58")
  BY DEF TrampolineByte
<1>8. \A op \in Opcodes : Byte(op).op = op
  BY DEF Byte
<1>9. Imm64(c).op = "imm64"
  BY DEF Imm64
<1>10. ASSUME c.far
       PROVE  /\ s + 1 < c.len /\ s \in 1 .. c.len - 1
              /\ PatchByte(c, s).op = "50" /\ PatchByte(c, s + 1).op = "48"
  <2>1. s + 0 = s
    BY <1>4, <1>10
  <2>2. 0 \in 0 .. 13 /\ 1 \in 0 .. 13 /\ "50" \in Opcodes /\ "48" \in Opcodes
    BY DEF Opcodes
  <2>3. s + 1 < c.len /\ PatchByte(c, s + 1).op = "48"
    BY <1>6, <1>7, <1>8, <1>10, <2>2
  <2>4. PatchByte(c, s).op = "50"
    BY <1>6, <1>7, <1>8, <1>10, <2>1, <2>2
  <2>5. QED BY <1>4, <1>10, <2>3, <2>4
<1>11. CASE c.far /\ o < s
  <2>1. CASE PatchByte(c, o).op = "90"
    <3>1. CASE o + 1 = s
      BY <1>4, <1>5, <1>10, <1>11, <2>1, <3>1
    <3>2. CASE o + 1 < s
      <4>1. PatchByte(c, o + 1) = SlideByte(c.len, o + 1)
        BY <1>3, <1>4, <1>11, <3>2
      <4>2. ShortJump(c.len) => o + 1 # 2
        BY <1>5, <1>11, <2>1
      <4>3. LongJump(c.len) => o + 1 \notin 2 .. 5
        BY <1>5, <1>11, <2>1
      <4>4. SlideByte(c.len, o + 1).op \in {"90", "eb", "e9"}
        BY <4>2, <4>3 DEF SlideByte, Byte
      <4>5. QED BY <1>4, <1>10, <1>11, <2>1, <3>2, <4>1, <4>4
    <3>3. QED BY <1>4, <1>11, <3>1, <3>2
  <2>2. CASE PatchByte(c, o).op = "eb"
    <3>1. o = 1 /\ ShortJump(c.len) /\ 2 < s
      BY <1>4, <1>5, <1>11, <2>2 DEF ShortJump, freeSpace, trampolineSize
    <3>2. PatchByte(c, 2) = SlideByte(c.len, 2)
      BY <1>3, <1>4, <1>11, <3>1
    <3>3. PatchByte(c, o + 1) = Disp("disp8", s - 3)
      BY <1>4, <1>11, <3>1, <3>2 DEF SlideByte, shortDisp, freeSpace, trampolineSize
    <3>4. QED BY <1>4, <1>10, <1>11, <2>2, <3>1, <3>3 DEF Disp
  <2>3. CASE PatchByte(c, o).op = "e9"
    <3>1. o = 1 /\ LongJump(c.len) /\ 2 < s
      BY <1>4, <1>5, <1>11, <2>3 DEF LongJump, freeSpace, trampolineSize
    <3>2. PatchByte(c, 2) = SlideByte(c.len, 2)
      BY <1>3, <1>4, <1>11, <3>1
    <3>3. PatchByte(c, o + 1) = Disp("disp32", s - 5)
      BY <1>4, <1>11, <3>1, <3>2 DEF SlideByte, LongJump, longDisp, nopSlideEnd, trampolineSize
    <3>4. QED BY <1>4, <1>10, <1>11, <2>3, <3>1, <3>3 DEF Disp
  <2>4. QED BY <1>4, <1>5, <1>10, <1>11, <2>1, <2>2, <2>3
<1>12. CASE c.far /\ ~(o < s)
  <2>1. PICK k \in 0 .. 13 : o = s + k
    <3>1. o - s \in 0 .. 13 /\ o = s + (o - s)
      BY <1>4, <1>12
    <3>2. QED BY <3>1
  <2>2. PatchByte(c, o) = TrampolineByte(c, k)
    BY <1>6, <1>12, <2>1
  <2>3. k = 0 \/ k = 1 \/ k = 2 \/ k \in 3 .. 10 \/ k = 11 \/ k = 12 \/ k = 13
    BY <2>1
  <2>4. CASE k = 0
    BY <1>4, <1>7, <1>8, <1>10, <1>12, <2>1, <2>2, <2>4 DEF Byte
  <2>5. CASE k = 1
    <3>1. o + 1 = s + 2 /\ o + 2 = s + 3 /\ o + 10 = s + 11
      BY <1>4, <1>12, <2>1, <2>5
    <3>2. PatchByte(c, o + 1).op = "b8" /\ PatchByte(c, o + 2) = Imm64(c)
          /\ PatchByte(c, o + 10).op = "ff" /\ o + 10 < c.len
      BY <1>6, <1>7, <1>12, <3>1 DEF Byte
    <3>3. PatchByte(c, o).op = "48"
      BY <1>7, <2>2, <2>5 DEF Byte
    <3>4. QED BY <1>4, <1>10, <1>12, <2>1, <2>5, <3>2, <3>3
  <2>6. CASE k = 11
    <3>1. o + 1 = s + 12
      BY <1>4, <1>12, <2>1, <2>6
    <3>2. PatchByte(c, o + 1).op = "e0" /\ o + 1 < c.len
      BY <1>6, <1>7, <1>12, <3>1 DEF Byte
    <3>3. PatchByte(c, o).op = "ff"
      BY <1>7, <2>2, <2>6 DEF Byte
    <3>4. QED BY <1>4, <1>10, <1>12, <2>1, <2>6, <3>2, <3>3
  <2>7. CASE k = 13
    BY <1>4, <1>7, <1>8, <1>10, <1>12, <2>1, <2>2, <2>7 DEF Byte
  <2>8. CASE k = 2 \/ k \in 3 .. 10 \/ k = 12
    <3>1. PatchByte(c, o).op \in {"b8", "imm64", "e0"}
      BY <1>7, <1>9, <2>2, <2>8 DEF Byte
    <3>2. o # 0 /\ o # c.len - 1
      BY <1>4, <1>12, <2>1, <2>8
    <3>3. QED BY <1>10, <1>12, <3>1, <3>2
  <2>9. QED BY <2>3, <2>4, <2>5, <2>6, <2>7, <2>8
<1>13. QED BY <1>2, <1>11, <1>12

-----------------------------------------------------------------------------
(***************************************************************************)
(* Every patch starts with an instruction that trapped.                    *)
(***************************************************************************)
LEMMA InitKInv == Init => KInv
  BY DEF Init, KInv, Trap

LEMMA NextKInv == IInv /\ TInv /\ KInv /\ [Next]_vars => KInv'
<1>1. ASSUME KInv, UNCHANGED vars PROVE KInv'
  BY <1>1 DEF vars, thread, KInv, Trap
<1>2. ASSUME IInv, TInv, KInv, NEW t \in Threads,
             Application(t) \/ Chunks(t) \/ Handler(t) \/ Outside(t)
      PROVE  KInv'
  <2> USE <1>2 DEF Become, Threaded
  <2>1. \A u \in Threads : u # t => pc'[u] = pc[u] /\ rip'[u] = rip[u] /\ cur'[u] = cur[u]
    BY ApplicationTInv, ChunksTInv, HandlerTInv, OutsideTInv DEF Own, Same
  <2>2. \A u \in Threads : u # t => Trap(u)'
    BY <2>1 DEF KInv, Trap
  <2>3. Threaded(pc) /\ Threaded(rip) /\ Threaded(cur)
    BY DEF TInv
  <2>4. ASSUME patches' = patches, pc'[t] \notin {"emit", "ill", "decode"} PROVE KInv'
    BY <2>2, <2>4 DEF KInv, Trap
  <2>5. ASSUME UNCHANGED <<patches, pc, rip, cur>> PROVE KInv'
    BY <2>5 DEF KInv, Trap
  <2>6. ASSUME NEW i \in Instrs, Sigill(t, i) PROVE KInv'
    <3>1. patches' = patches /\ pc'[t] = "ill" /\ rip'[t] = Start[i]
          /\ Kind[i] \in {"avx", "bad"}
      BY <2>3, <2>6 DEF Sigill, InstrAt
    <3>2. QED BY <2>2, <3>1 DEF KInv, Trap
  <2>7. CASE Application(t) /\ ~\E i \in Instrs : Sigill(t, i)
    <3>1. patches' = patches /\ pc[t] = "run"
      BY <2>7 DEF Application, NativeInstr, Sigtrap, Nop, JumpShort, JumpLong,
         TrampolinePush, TrampolineMov, TrampolineJump, TrampolinePop, Derail, Finish
    <3>2. pc'[t] \in {"run", "trap", "chunk", "done"}
      BY <2>3, <2>7 DEF Application, NativeInstr, Sigtrap, Nop, JumpShort, JumpLong,
         TrampolinePush, TrampolineMov, TrampolineJump, TrampolinePop, EnterChunk, Derail,
         Finish, thread
    <3>3. QED BY <2>4, <3>1, <3>2
  <2>8. CASE Chunks(t)
    <3>1. patches' = patches /\ pc'[t] \in {"run", "chunk"}
      BY <2>3, <2>8 DEF Chunks, ChunkPop, ChunkInstr, ChunkPush, ChunkMov, ChunkJump, ChunkRet
    <3>2. QED BY <2>4, <3>1
  <2>9. CASE Outside(t)
    <3>1. CASE KeyPress(t) \/ \E e \in Entries : Restart(t, e)
      BY <2>3, <2>4, <3>1 DEF KeyPress, Restart
    <3>2. CASE EmitFails(t) \/ \E u \in Threads : MapRace(t, u)
      BY <2>5, <3>2 DEF EmitFails, MapRace, thread
    <3>3. QED BY <2>9, <3>1, <3>2 DEF Outside
  <2>10. ASSUME NEW i \in Instrs, NEW n \in 1 .. MaxBlock, DecodeBlock(t, i, n)
         PROVE  KInv'
    <3>1. PICK j \in Instrs : rip[t] = Start[j] /\ Kind[j] \in {"avx", "bad"}
      BY <2>10 DEF KInv, Trap, DecodeBlock
    <3>2. i = j
      <4>1. Start[i] = Start[j]
        BY <2>10, <3>1 DEF DecodeBlock
      <4>2. QED BY <4>1, StartFacts
    <3>3. \A k \in i .. i + n - 1 : Kind[k] \in {"avx", "both"}
      BY <2>10 DEF DecodeBlock, Decodes
    <3>4. i \in i .. i + n - 1
      BY SizeAssumption DEF Instrs
    <3>5. Known(Block(i, n))
      BY <3>1, <3>2, <3>3, <3>4 DEF Known, Block
    <3>6. cur'[t] = Block(i, n) /\ pc'[t] = "emit" /\ patches' = patches
      BY <2>3, <2>10 DEF DecodeBlock
    <3>7. QED BY <2>2, <3>5, <3>6 DEF KInv, Trap
  <2>11. CASE EmitChunk(t)
    <3>1. Known(cur[t]) /\ patches' = patches \cup {cur[t]} /\ pc'[t] = "write"
      BY <2>3, <2>11 DEF EmitChunk, KInv, Trap
    <3>2. QED BY <2>2, <3>1 DEF KInv, Trap
  <2>12. CASE ReencodeLock(t)
    <3>1. patches' = patches /\ pc[t] = "ill" /\ pc'[t] = "decode" /\ rip' = rip
      BY <2>3, <2>12 DEF ReencodeLock
    <3>2. QED BY <2>2, <3>1 DEF KInv, Trap
  <2>13. CASE DecodeUnsupported(t) \/ DecodeGarbage(t)
    BY <2>5, <2>13 DEF DecodeUnsupported, DecodeGarbage, thread
  <2>14. CASE EmitStore(t)
    <3>1. patches' = patches /\ pc'[t] \in {"write", "add", "unlock"}
      BY <2>3, <2>14 DEF EmitStore
    <3>2. QED BY <2>4, <3>1
  <2>15. CASE \/ DecodeNopTrap(t) \/ JumptableAddBegin(t) \/ JumptableAddEnd(t)
              \/ ReencodeReturn(t) \/ SigtrapMissing(t)
    BY <2>3, <2>4, <2>15 DEF DecodeNopTrap, JumptableAddBegin, JumptableAddEnd,
       ReencodeReturn, SigtrapMissing
  <2>16. CASE SigtrapFound(t)
    BY <2>3, <2>4, <2>16 DEF SigtrapFound, EnterChunk
  <2>17. QED
    BY <2>6, <2>7, <2>8, <2>9, <2>10, <2>11, <2>12, <2>13, <2>14, <2>15, <2>16 DEF Handler
<1>3. QED BY <1>1, <1>2 DEF Next

-----------------------------------------------------------------------------
(***************************************************************************)
(* Patches that are in place.                                              *)
(***************************************************************************)

(* A thread that is about to emit has a block that has no patch yet.       *)
LEMMA NotYetPatched ==
  ASSUME IInv, NEW t \in Threads, pc[t] = "emit"
  PROVE  cur[t] \notin patches
<1>1. IsBlock(cur[t]) /\ \A a \in Span(cur[t]) : mem[a] = Orig
  BY DEF IInv, Hand, Emitting, HandByte
<1>2. cur[t].base \in Span(cur[t]) /\ cur[t] \in Chunk /\ cur[t].base \in Nat
  BY <1>1, BlockFacts
<1>3. ~Writing(cur[t])
  BY ThreadAssumption DEF IInv, MutualExclusion, InCritical, Writing
<1>4. mem[cur[t].base] # PatchByte(cur[t], cur[t].base - cur[t].base)
  BY <1>1, <1>2, PatchByteFacts
<1>5. QED BY <1>2, <1>3, <1>4 DEF IInv, PatchComplete

LEMMA SettledStays ==
  ASSUME IInv, NEW t \in Threads,
         Application(t) \/ Chunks(t) \/ Handler(t) \/ Outside(t),
         NEW c, Settled(c)
  PROVE  Settled(c)'
<1>1. CoreType
  BY DEF IInv
<1>2. CASE Application(t) \/ Chunks(t)
  <2>1. Quiet(t)
    BY <1>2, ApplicationQuiet, ChunksQuiet
  <2>2. patches' = patches /\ pc'[t] \notin Critical
        /\ \A u \in Threads : u # t => pc'[u] = pc[u] /\ cur'[u] = cur[u]
    BY <1>1, <2>1 DEF Quiet, CoreType
  <2>3. QED BY <2>2 DEF Settled, Writing, Critical
<1>3. CASE Outside(t)
  <2>1. patches' = patches /\ cur' = cur /\ (pc' = pc \/ pc' = [pc EXCEPT ![t] = "run"])
    BY <1>3 DEF Outside, EmitFails, KeyPress, MapRace, Restart, Become, thread
  <2>2. QED BY <1>1, <2>1 DEF Settled, Writing, CoreType
<1>4. CASE Handler(t)
  <2>1. CASE EmitChunk(t)
    <3>1. cur[t] # c
      BY <2>1, NotYetPatched DEF EmitChunk, Settled
    <3>2. QED BY <1>1, <2>1, <3>1 DEF EmitChunk, Become, Settled, Writing, CoreType
  <2>2. CASE EmitStore(t) \/ JumptableAddBegin(t) \/ JumptableAddEnd(t)
    <3>1. pc[t] \in {"write", "add", "adding"} /\ patches' = patches /\ cur' = cur
      BY <2>2 DEF EmitStore, JumptableAddBegin, JumptableAddEnd
    <3>2. \A u \in Threads : u # t => pc'[u] = pc[u]
      BY <1>1, <2>2 DEF EmitStore, JumptableAddBegin, JumptableAddEnd, Become, CoreType
    <3>3. QED BY <3>1, <3>2 DEF Settled, Writing
  <2>3. CASE ~(EmitChunk(t) \/ EmitStore(t) \/ JumptableAddBegin(t) \/ JumptableAddEnd(t))
    <3>1. patches' = patches /\ pc'[t] \notin {"write", "add", "adding"}
          /\ \A u \in Threads : u # t => pc'[u] = pc[u] /\ cur'[u] = cur[u]
      <4>1. CASE SigtrapFound(t)
        BY <1>1, <4>1 DEF SigtrapFound, EnterChunk, Become, CoreType
      <4>2. CASE \E i \in Instrs, n \in 1 .. MaxBlock : DecodeBlock(t, i, n)
        BY <1>1, <4>2 DEF DecodeBlock, Become, CoreType
      <4>3. CASE DecodeUnsupported(t) \/ DecodeGarbage(t)
        BY <4>3 DEF DecodeUnsupported, DecodeGarbage, thread
      <4>4. CASE ReencodeLock(t) \/ DecodeNopTrap(t) \/ ReencodeReturn(t) \/ SigtrapMissing(t)
        BY <1>1, <4>4 DEF ReencodeLock, DecodeNopTrap, ReencodeReturn, SigtrapMissing,
           Become, CoreType
      <4>5. QED BY <1>4, <2>3, <4>1, <4>2, <4>3, <4>4 DEF Handler
    <3>2. QED BY <3>1 DEF Settled, Writing
  <2>4. QED BY <2>1, <2>2, <2>3
<1>5. QED BY <1>2, <1>3, <1>4

(* The bytes of a settled patch.                                           *)
LEMMA SettledFacts ==
  ASSUME IInv, KInv, NEW c, Settled(c)
  PROVE  /\ IsBlock(c) /\ Known(c) /\ c \in patches
         /\ \A a \in Span(c) : mem[a] = PatchByte(c, a - c.base) /\ mem[a] # Orig
         /\ ~c.far => jumptable[returnAddress(c)] = c
<1>1. IsBlock(c) /\ Known(c) /\ c \in patches
  BY DEF Settled, IInv, KInv
<1>2. \A a \in Span(c) : mem[a] = PatchByte(c, a - c.base)
  BY DEF Settled, IInv, PatchComplete
<1>3. c \in Chunk /\ \A a \in Span(c) : a - c.base \in Int
  BY <1>1, BlockFacts DEF Span
<1>4. ~c.far => jumptable[returnAddress(c)] = c
  BY DEF Settled, IInv, PatchComplete
<1>5. QED BY <1>1, <1>2, <1>3, <1>4, PatchByteFacts

(* A thread that is not racing finds the patch it is in settled, if any of *)
(* it has been stored.                                                     *)
LEMMA NotRacing ==
  ASSUME IInv, NEW t \in Threads, ~Racing(t), NEW c \in patches, rip[t] \in Span(c),
         NEW a \in Span(c), mem[a] # Orig
  PROVE  Settled(c)
<1>1. SUFFICES ASSUME NEW u \in Threads, pc[u] \in {"write", "add", "adding"}, cur[u] = c
               PROVE  FALSE
  BY DEF Settled, Writing
<1>2. pc[u] = "write" /\ ~(idx[u] > 0)
  BY <1>1 DEF Racing
<1>3. idx[u] \in 0 .. c.len - 1 /\ c.base \in Nat /\ c.len \in Nat
  BY <1>1, <1>2, BlockFacts DEF IInv, Hand, Emitting
<1>4. idx[u] = 0
  BY <1>2, <1>3
<1>5. a >= c.base + idx[u]
  BY <1>3, <1>4 DEF Span
<1>6. mem[a] = Orig
  BY <1>1, <1>2, <1>5 DEF IInv, Hand, Emitting, HandByte
<1>7. QED BY <1>6

-----------------------------------------------------------------------------
(***************************************************************************)
(* Where a thread can be that executes the application's code, and what it *)
(* can do there.                                                           *)
(***************************************************************************)

(* No instruction of the application starts at a rewritten byte.           *)
LEMMA NoInstrAt ==
  ASSUME NEW a, mem[a] # Orig, NEW i \in Instrs
  PROVE  ~InstrAt(a, i)
<1>1. Start[i] \in Nat /\ Start[i + 1] \in Nat /\ Start[i] < Start[i + 1]
  BY StartFacts, StartIncreases, SizeAssumption DEF Instrs
<1>2. Start[i] \in Bytes(i)
  BY <1>1 DEF Bytes
<1>3. QED BY <1>2 DEF InstrAt, Intact

(* At original code there is an instruction to execute, or none.           *)
LEMMA HomeSteps ==
  ASSUME NEW t \in Threads, Application(t), mem[rip[t]].op = "orig"
  PROVE  \/ \E i \in Instrs : NativeInstr(t, i) \/ Sigill(t, i)
         \/ Sigtrap(t) /\ \E i \in Instrs : InstrAt(rip[t], i) /\ Kind[i] = "brk"
         \/ Finish(t)
         \/ Derail(t) /\ ~Whole(rip[t])
BY DEF Application, Sigtrap, Nop, JumpShort, JumpLong, TrampolinePush, TrampolineMov,
       TrampolineJump, TrampolinePop, Derail

(* At a rewritten byte the opcode alone says what the CPU does.            *)
LEMMA PatchSteps ==
  ASSUME NEW t \in Threads, Application(t), mem[rip[t]] # Orig, rip[t] # Start[N + 1],
         Whole(rip[t]), mem[rip[t]].op = "ff" => rax[t].kind = "chunk"
  PROVE  LET op == mem[rip[t]].op
         IN  /\ op = "90" => Nop(t)
             /\ op = "eb" => JumpShort(t)
             /\ op = "e9" => JumpLong(t)
             /\ op = "50" => TrampolinePush(t)
             /\ op = "48" => TrampolineMov(t)
             /\ op = "ff" => TrampolineJump(t)
             /\ op = "58" => TrampolinePop(t)
             /\ op = "cc" => Sigtrap(t)
<1>1. \A i \in Instrs : ~NativeInstr(t, i) /\ ~Sigill(t, i) /\ ~InstrAt(rip[t], i)
  BY NoInstrAt DEF NativeInstr, Sigill
<1>2. ~Finish(t) /\ ~Derail(t)
  BY DEF Finish, Derail
<1>3. \/ Sigtrap(t) \/ Nop(t) \/ JumpShort(t) \/ JumpLong(t) \/ TrampolinePush(t)
      \/ TrampolineMov(t) \/ TrampolineJump(t) \/ TrampolinePop(t)
  BY <1>1, <1>2 DEF Application
<1>4. Sigtrap(t) => mem[rip[t]].op = "cc"
  BY <1>1 DEF Sigtrap
<1>5. QED
  BY <1>3, <1>4 DEF Nop, JumpShort, JumpLong, TrampolinePush, TrampolineMov,
     TrampolineJump, TrampolinePop

(* The bytes of an instruction are in the code.                            *)
LEMMA BytesInCode ==
  ASSUME NEW i \in Instrs
  PROVE  Bytes(i) \subseteq Addr
<1>1. Start[1] \in Nat /\ Start[N + 1] \in Nat /\ Start[i] \in Nat /\ Start[i + 1] \in Nat
  BY StartFacts, SizeAssumption
<1>2. Start[1] <= Start[i] /\ Start[i + 1] <= Start[N + 1]
  BY <1>1, AddrFacts DEF Addr
<1>3. QED BY <1>1, <1>2 DEF Bytes, Addr

(* Behind the last instruction nothing is ever written.                    *)
LEMMA EndIsOrig ==
  ASSUME IInv
  PROVE  mem[Start[N + 1]] = Orig
<1>1. Start[N + 1] \in Addr
  BY AddrFacts, SizeAssumption DEF Instrs
<1>2. QED BY <1>1, BlockFacts DEF IInv, RewritesConfined

(* A thread that is not caught is before an instruction that is whole, in  *)
(* a settled patch on the way to its chunk, or on the way back.            *)
LEMMA Whereabouts ==
  ASSUME IInv, TInv, KInv, NEW t \in Threads, InCode(t), ~Racing(t), ~InsideBlock(t)
  PROVE  \/ /\ AtNext(t) /\ mem[rip[t]] = Orig
            /\ ran[t] + 1 = N + 1 \/ (ran[t] + 1 \in Instrs /\ Intact(ran[t] + 1))
         \/ \E c : Entering(t, c)
         \/ \E c : Leaving(t, c)
<1>1. SUFFICES ASSUME AtNext(t), ran[t] + 1 # N + 1,
                      ~(ran[t] + 1 \in Instrs /\ Intact(ran[t] + 1))
               PROVE  \E c : Entering(t, c)
  <2>1. rip[t] = Start[ran[t] + 1] => (ran[t] + 1 = N + 1 => mem[rip[t]] = Orig)
    BY EndIsOrig
  <2>2. ran[t] + 1 \in Instrs /\ Intact(ran[t] + 1) /\ AtNext(t) => mem[rip[t]] = Orig
    BY NoInstrAt DEF InstrAt, AtNext
  <2>3. QED BY <1>1, <2>1, <2>2 DEF InCode, AtNext
<1> DEFINE i == ran[t] + 1
<1>2. i \in Instrs /\ rip[t] = Start[i] /\ ran[t] = i - 1 /\ ran[t] \in Nat
  BY <1>1, SizeAssumption DEF TInv, Control, Instrs, AtNext
<1>3. PICK a \in Bytes(i) : mem[a] # Orig
  BY <1>1, <1>2 DEF Intact
<1>4. a \in Addr
  BY <1>2, <1>3, BytesInCode
<1>5. PICK c \in patches : a \in Span(c)
  BY <1>3, <1>4 DEF IInv, RewritesConfined
<1>6. IsBlock(c) /\ i \in c.first .. c.first + c.n - 1 /\ rip[t] \in Span(c)
  BY <1>2, <1>3, <1>5, BlockCovers DEF IInv
<1>7. Settled(c)
  BY <1>3, <1>5, <1>6, NotRacing
<1>8. i = c.first
  <2>1. ran[t] \notin c.first .. c.first + c.n - 2
    BY <1>5 DEF InsideBlock
  <2>2. c.first \in Nat /\ c.n \in Nat \ {0}
    BY <1>6, BlockFacts DEF Instrs
  <2>3. QED BY <1>2, <1>6, <2>1, <2>2
<1>9. rip[t] - c.base = 0 /\ 0 \in 0 .. c.len - 1
  <2>1. rip[t] = c.base /\ c.base \in Nat /\ c.len \in Nat \ {0}
    BY <1>2, <1>6, <1>8, BlockFacts, BlockCovers
  <2>2. QED BY <2>1
<1>10. PatchByte(c, rip[t] - c.base).op = "90"
  BY <1>6, <1>7, <1>9, OpcodeSteps, SettledFacts
<1>11. ran[t] = c.first - 1 /\ Nominal(t)
  BY <1>1, <1>2, <1>8 DEF AtNext
<1>12. QED BY <1>6, <1>7, <1>10, <1>11 DEF Entering

(* What a step of a thread that is on course shows of it.                  *)
Executes(t) ==
  /\ ran[t] + 1 \in Instrs /\ ran' = [ran EXCEPT ![t] = ran[t] + 1]
  /\ pc[t] # "done" /\ pc'[t] # "done"
Leaves(t) == ran[t] = N /\ ran' = ran /\ pc[t] # "done" /\ pc'[t] = "done"
Silent(t) == ran' = ran /\ (pc[t] = "done" <=> pc'[t] = "done")
Tracks(t) == proc' = proc /\ (Executes(t) \/ Leaves(t) \/ Silent(t))

LEMMA HomeCourse ==
  ASSUME IInv, TInv, KInv, NEW t \in Threads, Application(t), AtNext(t), mem[rip[t]] = Orig,
         ran[t] + 1 = N + 1 \/ (ran[t] + 1 \in Instrs /\ Intact(ran[t] + 1))
  PROVE  Course(t)' /\ Tracks(t)
<1> DEFINE j == ran[t] + 1
<1>0. /\ Threaded(pc) /\ Threaded(rip) /\ Threaded(ran)
      /\ ran[t] \in 0 .. N /\ rip[t] = Start[j] /\ j \in 1 .. N + 1 /\ ran[t] \in Nat
  BY SizeAssumption DEF TInv, Control, AtNext
<1>1. ASSUME NEW i \in Instrs, InstrAt(rip[t], i) PROVE i = j
  <2>1. Start[i] = Start[j]
    BY <1>0, <1>1 DEF InstrAt
  <2>2. QED BY <1>0, <2>1, StartFacts
<1>2. UNCHANGED <<rax, stack>> => (Nominal(t) <=> Nominal(t)')
  BY DEF Nominal
<1>3. ASSUME NEW i \in Instrs, NativeInstr(t, i) PROVE Course(t)' /\ Tracks(t)
  <2>1. i = j
    BY <1>1, <1>3 DEF NativeInstr
  <2>2. /\ pc[t] = "run" /\ pc' = pc /\ rip'[t] = Start[i + 1] /\ proc' = proc
        /\ ran' = [ran EXCEPT ![t] = ran[t] + 1] /\ UNCHANGED <<rax, stack>> /\ ran'[t] = i
    BY <1>0, <1>3, <2>1 DEF NativeInstr, Goto, Threaded
  <2>3. AtNext(t)'
    BY <1>2, <2>2 DEF AtNext
  <2>4. QED BY <1>0, <2>1, <2>2, <2>3 DEF Course, InCode, Tracks, Executes
<1>4. ASSUME NEW i \in Instrs, Sigill(t, i) PROVE Course(t)' /\ Tracks(t)
  <2>1. pc[t] = "run" /\ pc'[t] = "ill" /\ proc' = proc /\ UNCHANGED <<ran, rip, rax, stack>>
    BY <1>0, <1>4 DEF Sigill, Become, Threaded
  <2>2. AtNext(t)'
    BY <1>2, <2>1 DEF AtNext
  <2>3. QED BY <2>1, <2>2 DEF Course, Tracks, Silent
<1>5. ASSUME Sigtrap(t), NEW i \in Instrs, InstrAt(rip[t], i), Kind[i] = "brk"
      PROVE  Course(t)' /\ Tracks(t)
  <2>1. i = j
    BY <1>1, <1>5
  <2>2. pc[t] = "run" /\ pc'[t] = "trap" /\ rip'[t] = rip[t] + 1 /\ proc' = proc
        /\ UNCHANGED <<ran, rax, stack>>
    BY <1>0, <1>5 DEF Sigtrap, Goto, Become, Threaded
  <2>3. rip'[t] = Start[ran[t] + 2] /\ j + 1 = ran[t] + 2
    BY <1>0, <1>5, <2>1, <2>2, LengthAssumption
  <2>4. OwnInt3(t)'
    BY <1>5, <2>1, <2>2, <2>3 DEF OwnInt3
  <2>5. Trapped(t)'
    BY <1>2, <2>2, <2>4 DEF Trapped, AtNext
  <2>6. QED BY <2>2, <2>5 DEF Course, Tracks, Silent
<1>6. CASE Finish(t)
  <2>1. pc[t] = "run" /\ pc'[t] = "done" /\ proc' = proc /\ ran' = ran
        /\ rip[t] = Start[N + 1]
    BY <1>0, <1>6 DEF Finish, Become, Threaded
  <2>2. N + 1 \in 1 .. N + 1 /\ N \in Nat
    BY SizeAssumption
  <2>3. j = N + 1
    BY <1>0, <2>1, <2>2, StartFacts
  <2>4. ran[t] = N
    BY <1>0, <2>2, <2>3
  <2>5. QED BY <2>1, <2>4 DEF Course, Tracks, Leaves
<1>7. ASSUME Derail(t), ~Whole(rip[t]) PROVE FALSE
  <2>1. j \in Instrs /\ Intact(j)
    BY <1>0, <1>7 DEF Derail
  <2>2. InstrAt(rip[t], j)
    BY <1>0, <2>1 DEF InstrAt
  <2>3. QED BY <1>7, <2>1, <2>2 DEF Whole
<1>8. QED BY <1>3, <1>4, <1>5, <1>6, <1>7, HomeSteps, OrigOp

LEMMA LeavingCourse ==
  ASSUME IInv, TInv, KInv, NEW t \in Threads, Application(t), NEW c, Leaving(t, c)
  PROVE  Course(t)' /\ Tracks(t)
<1>0. Threaded(pc) /\ Threaded(rip) /\ Threaded(rax) /\ Threaded(stack)
  BY DEF TInv
<1>1. /\ Settled(c) /\ IsBlock(c) /\ Known(c) /\ c.far
      /\ ran[t] = c.first + c.n - 1 /\ rip[t] = returnAddress(c)
  BY SettledFacts DEF Leaving
<1>2. /\ rip[t] \in Span(c) /\ rip[t] # Start[N + 1] /\ c.len \in Nat \ {0}
      /\ rip[t] - c.base = c.len - 1 /\ c.len - 1 \in 0 .. c.len - 1
  BY <1>1, BlockFacts DEF returnAddress
<1>3. mem[rip[t]] # Orig /\ mem[rip[t]].op = "58"
  BY <1>1, <1>2, SettledFacts, OpcodeSteps
<1>4. TrampolinePop(t)
  BY <1>2, <1>3, PatchSteps DEF Whole
<1>5. pc[t] = "run" /\ pc' = pc /\ rip'[t] = rip[t] + 1 /\ ran' = ran /\ proc' = proc
  BY <1>0, <1>4 DEF TrampolinePop, Goto, Threaded
<1>6. rip'[t] = Start[ran'[t] + 1]
  <2>1. c.first \in Nat /\ c.n \in Nat
    BY <1>1, BlockFacts, StartFacts
  <2>2. ran[t] + 1 = c.first + c.n
    BY <1>1, <2>1
  <2>3. QED BY <1>1, <1>5, <2>2, BlockCovers
<1>7. Nominal(t)'
  <2>1. ASSUME ShortBlocks PROVE rax'[t] = App /\ stack'[t] = <<CallerTop>>
    <3>1. stack[t] = <<App, CallerTop>>
      BY <2>1 DEF Leaving, Saved
    <3>2. <<App, CallerTop>> # <<>> /\ Head(<<App, CallerTop>>) = App
          /\ Tail(<<App, CallerTop>>) = <<CallerTop>>
      OBVIOUS
    <3>3. QED BY <1>0, <1>4, <3>1, <3>2 DEF TrampolinePop, PopRax, Threaded
  <2>2. QED BY <2>1 DEF Nominal
<1>8. AtNext(t)'
  BY <1>6, <1>7 DEF AtNext
<1>9. QED BY <1>5, <1>8 DEF Course, InCode, Tracks, Silent

(* One word pushed on one word.                                            *)
LEMMA PushOne ==
  ASSUME NEW v, NEW w
  PROVE  <<v>> \o <<w>> = <<v, w>>
<1> DEFINE a == <<v>>
           b == <<w>>
           d == <<v, w>>
           S == {v, w}
<1>1. /\ a \in Seq(S) /\ Len(a) = 1 /\ a[1] = v
      /\ b \in Seq(S) /\ Len(b) = 1 /\ b[1] = w
      /\ d \in Seq(S) /\ Len(d) = 2 /\ d[1] = v /\ d[2] = w
  OBVIOUS
<1> HIDE DEF a, b, d, S
<1>2. a \o b \in Seq(S) /\ Len(a \o b) = 2 /\ (a \o b)[1] = v /\ (a \o b)[2] = w
  BY <1>1, ConcatProperties
<1>3. \A i \in 1 .. 2 : (a \o b)[i] = d[i]
  BY <1>1, <1>2
<1>4. a \o b = d
  BY <1>1, <1>2, <1>3, SeqEqual
<1>5. QED BY <1>4 DEF a, b, d

(* Each instruction of a patch leads to the next one, and the last one     *)
(* into the patch's own chunk, or to sigtrap_handler.                      *)
LEMMA EnteringCourse ==
  ASSUME IInv, TInv, KInv, NEW t \in Threads, Application(t), pc[t] = "run",
         NEW c, Entering(t, c)
  PROVE  Course(t)' /\ Tracks(t)
<1> DEFINE o == rip[t] - c.base
           s == nopSlideEnd(c.len)
           op == PatchByte(c, o).op
<1>0. Threaded(pc) /\ Threaded(rip) /\ Threaded(rax) /\ Threaded(stack)
      /\ Threaded(cur) /\ Threaded(idx)
  BY DEF TInv
<1>1. /\ Settled(c) /\ IsBlock(c) /\ Known(c) /\ ran[t] = c.first - 1 /\ rip[t] \in Span(c)
      /\ \/ op \in {"90", "eb", "e9", "50", "cc"} /\ Nominal(t)
         \/ op = "48" /\ (ShortBlocks => rax[t] = App) /\ Saved(t)
         \/ op = "ff" /\ rax[t] = Ptr(c) /\ Saved(t)
  BY SettledFacts DEF Entering
<1>2. /\ c.base \in Nat /\ c.len \in Nat \ {0} /\ o \in 0 .. c.len - 1
      /\ rip[t] = c.base + o /\ rip[t] \in Nat /\ rip[t] # Start[N + 1]
  BY <1>1, BlockFacts DEF Span
<1>3. ASSUME NEW k \in Nat, o + k < c.len
      PROVE  mem[rip[t] + k] = PatchByte(c, o + k) /\ mem[rip[t] + k] # Orig
  <2>1. rip[t] + k \in Span(c) /\ (rip[t] + k) - c.base = o + k
    BY <1>2, <1>3 DEF Span
  <2>2. QED BY <1>1, <2>1, SettledFacts
<1>4. mem[rip[t]] = PatchByte(c, o) /\ mem[rip[t]] # Orig
  BY <1>1, SettledFacts
<1>5. Settled(c)'
  BY <1>1, SettledStays
<1>6. Whole(rip[t]) /\ (op = "ff" => rax[t].kind = "chunk")
  <2>1. o + 1 < c.len => mem[rip[t] + 1] = PatchByte(c, o + 1)
    BY <1>3
  <2>2. o + 2 < c.len => mem[rip[t] + 2] = PatchByte(c, o + 2)
    BY <1>3
  <2>3. op = "48" => o + 2 < c.len /\ PatchByte(c, o + 2).op = "imm64"
    <3>1. op = "48" => o + 10 < c.len /\ PatchByte(c, o + 2) = Imm64(c)
      BY <1>1, <1>2, OpcodeSteps
    <3>2. QED BY <1>2, <3>1 DEF Imm64
  <2>4. op = "ff" => rax[t].kind = "chunk"
    BY <1>1 DEF Ptr
  <2>5. QED BY <1>1, <1>2, <1>4, <2>1, <2>2, <2>3, <2>4, OpcodeSteps DEF Whole
<1>7. ASSUME NEW p \in 0 .. c.len - 1, rip'[t] = c.base + p,
             pc' = pc, ran' = ran, proc' = proc,
             \/ PatchByte(c, p).op \in {"90", "eb", "e9", "50", "cc"} /\ Nominal(t)'
             \/ PatchByte(c, p).op = "48" /\ (ShortBlocks => rax'[t] = App) /\ Saved(t)'
             \/ PatchByte(c, p).op = "ff" /\ rax'[t] = Ptr(c) /\ Saved(t)'
      PROVE  Course(t)' /\ Tracks(t)
  <2>1. rip'[t] \in Span(c) /\ rip'[t] - c.base = p
    BY <1>2, <1>7 DEF Span
  <2>2. Entering(t, c)'
    BY <1>1, <1>5, <1>7, <2>1 DEF Entering
  <2>3. c \in patches'
    BY <1>5 DEF Settled
  <2>4. QED BY <1>7, <2>2, <2>3 DEF Course, InCode, Tracks, Silent
<1>8. UNCHANGED <<rax, stack>> => (Nominal(t) <=> Nominal(t)')
  BY DEF Nominal
<1>9. CASE op = "90"
  <2>1. Nop(t)
    BY <1>2, <1>4, <1>6, <1>9, PatchSteps
  <2>2. rip'[t] = rip[t] + 1 /\ pc' = pc /\ ran' = ran /\ proc' = proc
        /\ UNCHANGED <<rax, stack>>
    BY <1>0, <2>1 DEF Nop, Goto, Threaded
  <2>3. o + 1 \in 0 .. c.len - 1 /\ rip'[t] = c.base + (o + 1)
        /\ PatchByte(c, o + 1).op \in {"90", "eb", "e9", "50", "cc"}
    BY <1>1, <1>2, <1>9, <2>2, OpcodeSteps
  <2>4. QED BY <1>1, <1>7, <1>8, <1>9, <2>2, <2>3
<1>10. CASE op = "eb"
  <2>1. JumpShort(t)
    BY <1>2, <1>4, <1>6, <1>10, PatchSteps
  <2>2. mem[rip[t] + 1] = PatchByte(c, o + 1) /\ c.far
        /\ o + 2 + PatchByte(c, o + 1).disp = s
        /\ s \in 1 .. c.len - 1 /\ PatchByte(c, s).op = "50"
    BY <1>1, <1>2, <1>3, <1>10, OpcodeSteps
  <2>3. rip'[t] = rip[t] + 2 + PatchByte(c, o + 1).disp /\ pc' = pc /\ ran' = ran
        /\ proc' = proc /\ UNCHANGED <<rax, stack>>
    BY <1>0, <2>1, <2>2 DEF JumpShort, Goto, Threaded
  <2>4. PatchByte(c, o + 1).disp \in Int
    BY <1>1, <1>2, BlockFacts, PatchByteFacts DEF Cells
  <2>5. rip'[t] = c.base + s
    BY <1>2, <2>2, <2>3, <2>4
  <2>6. QED BY <1>1, <1>7, <1>8, <1>10, <2>2, <2>3, <2>5
<1>11. CASE op = "e9"
  <2>1. JumpLong(t)
    BY <1>2, <1>4, <1>6, <1>11, PatchSteps
  <2>2. mem[rip[t] + 1] = PatchByte(c, o + 1) /\ c.far /\ LongJump(c.len)
        /\ o + 5 + PatchByte(c, o + 1).disp = s + 1
        /\ s \in 1 .. c.len - 1 /\ s + 1 < c.len /\ PatchByte(c, s + 1).op = "48"
    BY <1>1, <1>2, <1>3, <1>11, OpcodeSteps
  <2>3. rip'[t] = rip[t] + 5 + PatchByte(c, o + 1).disp /\ pc' = pc /\ ran' = ran
        /\ proc' = proc
    BY <1>0, <2>1, <2>2 DEF JumpLong, Goto, Threaded
  <2>4. PatchByte(c, o + 1).disp \in Int
    BY <1>1, <1>2, BlockFacts, PatchByteFacts DEF Cells
  <2>5. rip'[t] = c.base + (s + 1) /\ s + 1 \in 0 .. c.len - 1
    BY <1>2, <2>2, <2>3, <2>4
  <2>6. ~ShortBlocks
    BY <1>1, <2>2, KnownFacts
  <2>7. QED BY <1>7, <2>2, <2>3, <2>5, <2>6 DEF Saved
<1>12. CASE op = "50"
  <2>1. TrampolinePush(t)
    BY <1>2, <1>4, <1>6, <1>12, PatchSteps
  <2>2. rip'[t] = rip[t] + 1 /\ pc' = pc /\ ran' = ran /\ proc' = proc /\ rax' = rax
        /\ stack'[t] = <<rax[t]>> \o stack[t]
    BY <1>0, <2>1 DEF TrampolinePush, PushRax, Goto, Threaded
  <2>3. o + 1 < c.len /\ PatchByte(c, o + 1).op = "48"
    BY <1>1, <1>2, <1>12, OpcodeSteps
  <2>4. o + 1 \in 0 .. c.len - 1 /\ rip'[t] = c.base + (o + 1)
    <3>1. o + 1 \in 0 .. c.len - 1
      BY <1>2, <2>3
    <3>2. rip'[t] = c.base + (o + 1)
      <4>1. rip'[t] = rip[t] + 1
        BY <2>2
      <4>2. QED BY <1>2, <4>1
    <3>3. QED BY <3>1, <3>2
  <2>5. (ShortBlocks => rax'[t] = App) /\ Saved(t)'
    BY <1>1, <1>12, <2>2, PushOne DEF Nominal, Saved
  <2>6. QED BY <1>7, <2>2, <2>3, <2>4, <2>5
<1>13. CASE op = "48"
  <2>1. TrampolineMov(t)
    BY <1>2, <1>4, <1>6, <1>13, PatchSteps
  <2>2. /\ o + 10 < c.len /\ PatchByte(c, o + 2) = Imm64(c)
        /\ PatchByte(c, o + 10).op = "ff"
    BY <1>1, <1>2, <1>13, OpcodeSteps
  <2>3. mem[rip[t] + 2] = Imm64(c)
    BY <1>2, <1>3, <2>2
  <2>4. rip'[t] = rip[t] + 10 /\ pc' = pc /\ ran' = ran /\ proc' = proc
        /\ stack' = stack /\ rax'[t] = Ptr(c)
    BY <1>0, <2>1, <2>3 DEF TrampolineMov, Goto, Threaded, Imm64
  <2>5. o + 10 \in 0 .. c.len - 1 /\ rip'[t] = c.base + (o + 10)
    BY <1>2, <2>2, <2>4
  <2>6. QED BY <1>1, <1>7, <1>13, <2>2, <2>4, <2>5 DEF Saved
<1>14. CASE op = "ff"
  <2>1. TrampolineJump(t)
    BY <1>2, <1>4, <1>6, <1>14, PatchSteps
  <2>2. c.far /\ rax[t] = Ptr(c) /\ rax[t].chunk = c
    BY <1>1, <1>2, <1>14, OpcodeSteps DEF Ptr
  <2>3. pc'[t] = "chunk" /\ cur'[t] = c /\ idx'[t] = 0 /\ ran' = ran /\ proc' = proc
        /\ stack' = stack
    BY <1>0, <2>1, <2>2 DEF TrampolineJump, EnterChunk, Become, Threaded
  <2>4. c.n \in Nat
    BY <1>1, BlockFacts
  <2>5. InFarChunk(t, c)'
    BY <1>1, <1>14, <2>3, <2>4 DEF InFarChunk, Saved
  <2>6. QED BY <1>1, <1>5, <2>1, <2>2, <2>3, <2>5 DEF Course, Tracks, Silent, TrampolineJump
<1>15. CASE op = "cc"
  <2>1. Sigtrap(t)
    BY <1>2, <1>4, <1>6, <1>15, PatchSteps
  <2>2. ~c.far /\ o = c.len - 1 /\ c.len \in Nat
    BY <1>1, <1>2, <1>15, OpcodeSteps
  <2>3. pc'[t] = "trap" /\ rip'[t] = rip[t] + 1 /\ ran' = ran /\ proc' = proc
        /\ UNCHANGED <<rax, stack>>
    BY <1>0, <2>1 DEF Sigtrap, Goto, Become, Threaded
  <2>4. rip'[t] = returnAddress(c) + 1
    BY <1>2, <2>2, <2>3 DEF returnAddress
  <2>5. c \in patches'
    BY <1>5 DEF Settled
  <2>6. Trapped(t)'
    BY <1>1, <1>5, <1>8, <1>15, <2>2, <2>3, <2>4, <2>5 DEF Trapped
  <2>7. QED BY <2>1, <2>3, <2>6 DEF Course, Tracks, Silent, Sigtrap
<1>16. QED BY <1>1, <1>9, <1>10, <1>11, <1>12, <1>13, <1>14, <1>15

LEMMA ApplicationCourse ==
  ASSUME IInv, TInv, KInv, NEW t \in Threads, Application(t), Course(t), ~astray'[t]
  PROVE  Course(t)' /\ Tracks(t)
<1>1. pc[t] = "run"
  BY DEF Application, NativeInstr, Sigill, Sigtrap, Nop, JumpShort, JumpLong,
     TrampolinePush, TrampolineMov, TrampolineJump, TrampolinePop, Derail, Finish
<1>2. InCode(t)
  BY <1>1 DEF Course
<1>3. ~Racing(t) /\ ~InsideBlock(t)
  BY DEF Application, Caught, TInv, Threaded
<1>4. QED
  BY <1>1, <1>2, <1>3, Whereabouts, HomeCourse, EnteringCourse, LeavingCourse

(* In a chunk: the block's instructions in order, then back behind it.     *)
LEMMA ChunksCourse ==
  ASSUME IInv, TInv, KInv, NEW t \in Threads, Chunks(t), Course(t)
  PROVE  Course(t)' /\ Tracks(t)
<1> SUFFICES ASSUME NEW c, c = cur[t]
             PROVE  Course(t)' /\ Tracks(t)
  OBVIOUS
<1>0. /\ Threaded(pc) /\ Threaded(rip) /\ Threaded(rax) /\ Threaded(stack)
      /\ Threaded(cur) /\ Threaded(idx) /\ Threaded(ran)
      /\ ran[t] \in 0 .. N /\ idx[t] \in Nat /\ (pc[t] = "chunk" => InChunk(t))
  BY DEF TInv, Control
<1>1. pc[t] = "chunk" /\ proc' = proc /\ patches' = patches /\ cur' = cur
  BY DEF Chunks, ChunkPop, ChunkInstr, ChunkPush, ChunkMov, ChunkJump, ChunkRet
<1>2. /\ Settled(c) /\ IsBlock(c) /\ c \in patches' /\ Settled(c)' /\ cur'[t] = c
      /\ c.far => InFarChunk(t, c)
      /\ ~c.far => InTrapChunk(t, c)
  <2>1. Settled(c) /\ IF c.far THEN InFarChunk(t, c) ELSE InTrapChunk(t, c)
    BY <1>1 DEF Course
  <2>2. QED BY <1>1, <2>1, SettledFacts, SettledStays DEF Settled
<1>3. /\ c.n \in Nat \ {0} /\ c.first \in Nat \ {0} /\ c.first + c.n - 1 <= N
      /\ Start[c.first + c.n] = returnAddress(c) + 1 /\ N \in Nat
      /\ ~c.far => idx[t] \in 1 .. c.n + 1
  <2>1. c.n \in Nat \ {0} /\ c.first \in Instrs /\ c.first + c.n - 1 \in Instrs
        /\ Start[c.first + c.n] = returnAddress(c) + 1
    BY <1>2, BlockFacts, BlockCovers
  <2>2. ~c.far => idx[t] \in 1 .. c.n + 1
    BY <1>0, <1>1 DEF InChunk
  <2>3. QED BY <2>1, <2>2, SizeAssumption DEF Instrs
<1>4. UNCHANGED <<rax, stack>> => (Nominal(t) <=> Nominal(t)')
  BY DEF Nominal
<1>5. ASSUME pc'[t] = "chunk", IF c.far THEN InFarChunk(t, c)' ELSE InTrapChunk(t, c)'
      PROVE  Course(t)'
  BY <1>2, <1>5 DEF Course
<1>6. CASE ChunkPop(t)
  <2>1. c.far /\ pc' = pc /\ idx'[t] = 1 /\ ran' = ran
    BY <1>0, <1>2, <1>3, <1>6 DEF ChunkPop, Threaded, history
  <2>2. ran[t] = c.first - 1 /\ Saved(t)
    BY <1>2, <1>6, <2>1 DEF ChunkPop, InFarChunk
  <2>3. ASSUME ShortBlocks PROVE rax'[t] = App /\ stack'[t] = <<CallerTop>>
    <3>1. stack[t] = <<App, CallerTop>>
      BY <2>2, <2>3 DEF Saved
    <3>2. <<App, CallerTop>> # <<>> /\ Head(<<App, CallerTop>>) = App
          /\ Tail(<<App, CallerTop>>) = <<CallerTop>>
      OBVIOUS
    <3>3. QED BY <1>0, <1>6, <3>1, <3>2 DEF ChunkPop, PopRax, Threaded
  <2>4. Nominal(t)'
    BY <2>3 DEF Nominal
  <2>5. InFarChunk(t, c)'
    BY <1>3, <2>1, <2>2, <2>4 DEF InFarChunk
  <2>6. QED BY <1>1, <1>5, <2>1, <2>5 DEF Tracks, Silent
<1>7. CASE ChunkInstr(t)
  <2>1. /\ idx[t] \in 1 .. c.n /\ pc' = pc /\ idx'[t] = idx[t] + 1 /\ UNCHANGED <<rax, stack>>
        /\ ran' = [ran EXCEPT ![t] = c.first + idx[t] - 1]
        /\ ran'[t] = c.first + idx[t] - 1
    BY <1>0, <1>7 DEF ChunkInstr, Threaded
  <2>2. ran[t] = c.first + idx[t] - 2
    BY <1>0, <1>2, <1>3, <2>1 DEF InFarChunk, InTrapChunk
  <2>3. ran[t] + 1 = c.first + idx[t] - 1 /\ ran[t] + 1 \in Instrs
    BY <1>3, <2>1, <2>2 DEF Instrs
  <2>4. ASSUME c.far PROVE InFarChunk(t, c)'
    <3>1. idx'[t] \in 1 .. c.n + 1 /\ ran'[t] = c.first + idx'[t] - 2 /\ Nominal(t)'
      BY <1>2, <1>3, <1>4, <2>1, <2>4 DEF InFarChunk
    <3>2. idx'[t] # 0 /\ ~(idx'[t] > c.n + 1) /\ idx'[t] # c.n + 2 /\ idx'[t] # c.n + 3
      BY <1>3, <2>1
    <3>3. QED BY <3>1, <3>2 DEF InFarChunk
  <2>5. ASSUME ~c.far PROVE InTrapChunk(t, c)'
    <3>1. ran'[t] = c.first + idx'[t] - 2
      BY <1>3, <2>1
    <3>2. QED BY <1>2, <2>1, <2>5, <3>1 DEF InTrapChunk
  <2>6. Executes(t)
    BY <1>1, <2>1, <2>3 DEF Executes
  <2>7. QED BY <1>1, <1>5, <2>1, <2>4, <2>5, <2>6 DEF Tracks
<1>8. CASE ChunkPush(t)
  <2>1. c.far /\ idx[t] = c.n + 1 /\ idx'[t] = c.n + 2 /\ pc' = pc /\ ran' = ran
        /\ rax' = rax /\ stack'[t] = <<rax[t]>> \o stack[t]
    BY <1>0, <1>3, <1>8 DEF ChunkPush, PushRax, Threaded, history
  <2>2. ran[t] = c.first + c.n - 1 /\ Nominal(t)
    BY <1>2, <1>3, <2>1 DEF InFarChunk
  <2>3. (ShortBlocks => rax'[t] = App) /\ Saved(t)'
    BY <2>1, <2>2, PushOne DEF Nominal, Saved
  <2>4. InFarChunk(t, c)'
    BY <1>3, <2>1, <2>2, <2>3 DEF InFarChunk
  <2>5. QED BY <1>1, <1>5, <2>1, <2>4 DEF Tracks, Silent
<1>9. CASE ChunkMov(t)
  <2>1. c.far /\ idx[t] = c.n + 2 /\ idx'[t] = c.n + 3 /\ pc' = pc /\ ran' = ran
        /\ stack' = stack /\ rax'[t] = Ret(returnAddress(c))
    BY <1>0, <1>3, <1>9 DEF ChunkMov, Threaded, history
  <2>2. ran[t] = c.first + c.n - 1 /\ Saved(t)
    BY <1>2, <1>3, <2>1 DEF InFarChunk
  <2>3. InFarChunk(t, c)'
    BY <1>3, <2>1, <2>2 DEF InFarChunk, Saved
  <2>4. QED BY <1>1, <1>5, <2>1, <2>3 DEF Tracks, Silent
<1>10. CASE ChunkJump(t)
  <2>1. c.far /\ idx[t] = c.n + 3 /\ pc'[t] = "run" /\ ran' = ran /\ stack' = stack
        /\ rip'[t] = rax[t].to
    BY <1>0, <1>3, <1>10 DEF ChunkJump, Goto, Become, Threaded, history
  <2>2. ran[t] = c.first + c.n - 1 /\ Saved(t) /\ rax[t] = Ret(returnAddress(c))
    BY <1>2, <1>3, <2>1 DEF InFarChunk
  <2>3. rip'[t] = returnAddress(c)
    BY <2>1, <2>2 DEF Ret
  <2>4. Leaving(t, c)'
    BY <1>2, <2>1, <2>2, <2>3 DEF Leaving, Saved
  <2>5. InCode(t)'
    BY <1>2, <2>4 DEF InCode
  <2>6. QED BY <1>1, <2>1, <2>5 DEF Course, Tracks, Silent
<1>11. CASE ChunkRet(t)
  <2>1. ~c.far /\ idx[t] = c.n + 1 /\ pc'[t] = "run" /\ ran' = ran /\ rax' = rax
        /\ rip'[t] = Head(stack[t]).to /\ stack'[t] = Tail(stack[t])
    BY <1>0, <1>3, <1>11 DEF ChunkRet, Goto, Become, Threaded, history
  <2>2. ran[t] = c.first + c.n - 1 /\ Head(stack[t]) = Ret(returnAddress(c) + 1)
        /\ (ShortBlocks => rax[t] = App /\ stack[t] = <<Ret(returnAddress(c) + 1), CallerTop>>)
    BY <1>2, <1>3, <2>1 DEF InTrapChunk
  <2>3. rip'[t] = Start[ran'[t] + 1]
    BY <1>3, <2>1, <2>2 DEF Ret
  <2>4. \A w : Tail(<<w, CallerTop>>) = <<CallerTop>>
    OBVIOUS
  <2>5. AtNext(t)'
    BY <2>1, <2>2, <2>3, <2>4 DEF AtNext, Nominal
  <2>6. QED BY <1>1, <2>1, <2>5 DEF Course, InCode, Tracks, Silent
<1>12. QED BY <1>6, <1>7, <1>8, <1>9, <1>10, <1>11 DEF Chunks

(* A thread that stays where it is stays on course.                        *)
LEMMA StillCourse ==
  ASSUME NEW t \in Threads, Course(t), UNCHANGED <<patches, thread, ran>>
  PROVE  Course(t)'
<1>1. \A c : Settled(c) <=> Settled(c)'
  BY DEF Settled, Writing, thread
<1>2. /\ Nominal(t) <=> Nominal(t)'
      /\ Saved(t) <=> Saved(t)'
  BY DEF Nominal, Saved, thread
<1>3. AtNext(t) <=> AtNext(t)'
  BY <1>2 DEF AtNext, thread
<1>4. \A c : (Entering(t, c) <=> Entering(t, c)') /\ (Leaving(t, c) <=> Leaving(t, c)')
  BY <1>1, <1>2 DEF Entering, Leaving, thread
<1>5. InCode(t) <=> InCode(t)'
  BY <1>3, <1>4 DEF InCode
<1>6. Trapped(t) <=> Trapped(t)'
  BY <1>1, <1>2 DEF Trapped, OwnInt3, thread
<1>7. \A c : (InFarChunk(t, c) <=> InFarChunk(t, c)') /\ (InTrapChunk(t, c) <=> InTrapChunk(t, c)')
  BY <1>2 DEF InFarChunk, InTrapChunk, thread
<1>8. UNCHANGED <<pc, cur, result, patches, ran, rip>>
  BY DEF thread
<1>9. QED
  BY <1>1, <1>2, <1>3, <1>5, <1>6, <1>7, <1>8 DEF Course, InsideBlock, OwnInt3

(* Nothing is being written while this thread is inside csMutex, unless it *)
(* writes itself.                                                          *)
LEMMA NobodyWrites ==
  ASSUME IInv, NEW t \in Threads, pc[t] \in {"decode", "unlock"}, NEW c \in patches
  PROVE  Settled(c)
BY Alone DEF Settled, Writing, Critical

(* What decodeInstructions finds at the instruction a thread trapped on:   *)
(* the first NOP of a patch, or that instruction, whole.                   *)
LEMMA DecodesWhole ==
  ASSUME IInv, TInv, KInv, NEW t \in Threads, pc[t] = "decode", AtNext(t), ~InsideBlock(t)
  PROVE  /\ Whole(rip[t])
         /\ mem[rip[t]] # Orig => \E c : Settled(c) /\ ran[t] = c.first - 1 /\ rip[t] = c.base
<1> DEFINE i == ran[t] + 1
<1>1. rip[t] = Start[i] /\ i \in 1 .. N + 1 /\ ran[t] = i - 1 /\ rip[t] \in Addr
      /\ ran[t] \in Nat
  BY SizeAssumption DEF TInv, Control, AtNext
<1>2. i \in Instrs
  <2>1. PICK k \in Instrs : rip[t] = Start[k]
    BY DEF KInv, Trap
  <2>2. k = i
    BY <1>1, <2>1, StartFacts
  <2>3. QED BY <2>1, <2>2
<1>3. CASE mem[rip[t]] # Orig
  <2>1. PICK c \in patches : rip[t] \in Span(c)
    BY <1>1, <1>3 DEF IInv, RewritesConfined
  <2>2. Settled(c) /\ IsBlock(c) /\ Known(c)
    BY <2>1, NobodyWrites, SettledFacts
  <2>3. i \in c.first .. c.first + c.n - 1
    BY <1>1, <2>1, <2>2, BlockCovers
  <2>4. i = c.first
    <3>1. ran[t] \notin c.first .. c.first + c.n - 2
      BY <2>1 DEF InsideBlock
    <3>2. c.first \in Nat /\ c.n \in Nat \ {0}
      BY <2>2, BlockFacts DEF Instrs
    <3>3. QED BY <1>1, <2>3, <3>1, <3>2
  <2>5. rip[t] = c.base /\ c.base \in Span(c) /\ c.base - c.base = 0 /\ 0 \in 0 .. c.len - 1
    <3>1. c.base \in Nat /\ c.len \in Nat \ {0} /\ c.base \in Span(c)
      BY <2>2, BlockFacts
    <3>2. QED BY <1>1, <2>2, <2>4, <3>1, BlockCovers
  <2>6. mem[rip[t]].op = "90"
    BY <2>2, <2>5, SettledFacts, OpcodeSteps
  <2>7. QED BY <1>1, <2>2, <2>4, <2>5, <2>6 DEF Whole
<1>4. CASE mem[rip[t]] = Orig
  <2>1. ASSUME NEW a \in Bytes(i), mem[a] # Orig PROVE FALSE
    <3>1. a \in Addr
      BY <1>2, <2>1, BytesInCode
    <3>2. PICK c \in patches : a \in Span(c)
      BY <2>1, <3>1 DEF IInv, RewritesConfined
    <3>3. Settled(c) /\ IsBlock(c)
      BY <3>2, NobodyWrites, SettledFacts
    <3>4. rip[t] \in Span(c)
      BY <1>1, <1>2, <2>1, <3>2, <3>3, BlockCovers
    <3>5. QED BY <1>4, <3>3, <3>4, SettledFacts
  <2>2. InstrAt(rip[t], i)
    BY <1>1, <2>1 DEF InstrAt, Intact
  <2>3. QED BY <1>2, <1>4, <2>2 DEF Whole
<1>5. QED BY <1>3, <1>4

(* An INT3 of the application's own has no entry in the jump table, and    *)
(* one that ends a patch has the entry of that patch.                      *)
LEMMA TrapFacts ==
  ASSUME IInv, TInv, KInv, NEW t \in Threads, Trapped(t), ~OwnInt3(t) \/ jumptable[rip[t] - 1] # NULL
  PROVE  \E c : /\ Settled(c) /\ ~c.far /\ ran[t] = c.first - 1
                /\ rip[t] = returnAddress(c) + 1 /\ jumptable[rip[t] - 1] = c
<1>1. SUFFICES ASSUME OwnInt3(t), jumptable[rip[t] - 1] # NULL PROVE FALSE
  <2>1. ASSUME NEW c, Settled(c), ~c.far, rip[t] = returnAddress(c) + 1
        PROVE  jumptable[rip[t] - 1] = c
    <3>1. returnAddress(c) \in Nat
      BY <2>1, SettledFacts, BlockFacts, AddrFacts
    <3>2. rip[t] - 1 = returnAddress(c)
      BY <2>1, <3>1
    <3>3. QED BY <2>1, <3>2, SettledFacts
  <2>2. QED BY <1>1, <2>1 DEF Trapped
<1> DEFINE i == ran[t] + 1
<1>2. i \in Instrs /\ Kind[i] = "brk" /\ i \in 1 .. N + 1 /\ Start[i] \in Addr
      /\ Start[i] \in Nat /\ ran[t] + 2 = i + 1
  BY <1>1, StartFacts, AddrFacts DEF OwnInt3, TInv, Control
<1>3. rip[t] - 1 = Start[i]
  <2>1. rip[t] = Start[i] + 1
    BY <1>1, <1>2, LengthAssumption DEF OwnInt3
  <2>2. QED BY <1>2, <2>1
<1>4. PICK c \in patches : Start[i] = returnAddress(c)
  BY <1>1, <1>2, <1>3 DEF IInv, TableInv
<1>5. IsBlock(c) /\ Known(c)
  BY <1>4 DEF IInv, KInv
<1>6. i \in c.first .. c.first + c.n - 1
  BY <1>2, <1>4, <1>5, BlockFacts, BlockCovers
<1>7. QED BY <1>2, <1>5, <1>6 DEF Known

(* What a step shows that ends the process.                                *)
Halts == proc' \in {"exited", "corrupt"} /\ UNCHANGED <<patches, thread, history>>

(* The handlers take a thread back to where it trapped, to the second byte *)
(* of a patch that was there before it, or into the chunk of its patch.    *)
LEMMA HandlerCourse ==
  ASSUME IInv, TInv, KInv, NEW t \in Threads, Handler(t), Course(t), ~astray'[t]
  PROVE  Course(t)' /\ (Tracks(t) \/ Halts)
<1>0. /\ Threaded(pc) /\ Threaded(rip) /\ Threaded(rax) /\ Threaded(stack)
      /\ Threaded(cur) /\ Threaded(idx) /\ Threaded(result) /\ Threaded(astray)
      /\ Control(t)
  BY DEF TInv
<1>1. UNCHANGED <<rax, stack>> => (Nominal(t) <=> Nominal(t)')
  BY DEF Nominal
<1>2. ASSUME UNCHANGED <<rip, rax, stack, ran>> PROVE AtNext(t) <=> AtNext(t)'
  BY <1>1, <1>2 DEF AtNext
<1>3. ASSUME pc'[t] \in {"emit", "write", "add", "adding", "unlock"}, proc' = proc,
             pc[t] \in {"decode", "emit", "write", "add", "adding"},
             UNCHANGED <<rip, rax, stack, ran>>,
             pc'[t] = "unlock" => result'[t] = 0
      PROVE  Course(t)' /\ Tracks(t)
  <2>1. AtNext(t)'
    BY <1>2, <1>3 DEF Course
  <2>2. QED BY <1>3, <2>1 DEF Course, Tracks, Silent
<1>4. CASE ReencodeLock(t)
  <2>1. pc[t] = "ill" /\ pc'[t] = "decode" /\ UNCHANGED <<rip, rax, stack, ran, patches, proc>>
        /\ ~InsideBlock(t)
    BY <1>0, <1>4 DEF ReencodeLock, Become, Threaded
  <2>2. AtNext(t)' /\ ~InsideBlock(t)'
    BY <1>2, <2>1 DEF Course, InsideBlock
  <2>3. QED BY <2>1, <2>2 DEF Course, Tracks, Silent
<1>5. CASE DecodeNopTrap(t)
  <2>1. pc[t] = "decode" /\ pc'[t] = "unlock" /\ UNCHANGED <<rip, rax, stack, ran, proc>>
        /\ mem[rip[t]].op = "90"
    BY <1>0, <1>5 DEF DecodeNopTrap, Become, Threaded, history
  <2>2. PICK c : Settled(c) /\ ran[t] = c.first - 1
    BY <2>1, DecodesWhole, OrigOp DEF Course
  <2>3. Settled(c)' /\ c \in patches'
    BY <2>2, SettledStays DEF Settled
  <2>4. AtNext(t)'
    BY <1>2, <2>1 DEF Course
  <2>5. QED BY <2>1, <2>2, <2>3, <2>4 DEF Course, Tracks, Silent
<1>6. CASE \E i \in Instrs, n \in 1 .. MaxBlock : DecodeBlock(t, i, n)
  BY <1>0, <1>3, <1>6 DEF DecodeBlock, Become, Threaded, history
<1>7. CASE DecodeUnsupported(t)
  BY <1>7, StillCourse DEF DecodeUnsupported, Halts, history
<1>8. CASE DecodeGarbage(t)
  BY <1>8, DecodesWhole DEF DecodeGarbage, Course
<1>9. CASE EmitChunk(t) \/ EmitStore(t)
  <2>1. result[t] = 0 /\ result' = result /\ UNCHANGED <<rip, rax, stack, ran, proc>>
    BY <1>0, <1>9 DEF EmitChunk, EmitStore, history, Control, Emitting
  <2>2. pc[t] \in {"emit", "write"} /\ pc'[t] \in {"write", "add", "unlock"}
    BY <1>0, <1>9 DEF EmitChunk, EmitStore, Become, Threaded
  <2>3. QED BY <1>3, <2>1, <2>2
<1>10. CASE JumptableAddBegin(t) \/ JumptableAddEnd(t)
  <2>1. result[t] = 0 /\ result' = result /\ UNCHANGED <<rip, rax, stack, ran, proc>>
    BY <1>0, <1>10 DEF JumptableAddBegin, JumptableAddEnd, history, Control, Emitting
  <2>2. pc[t] \in {"add", "adding"} /\ pc'[t] \in {"adding", "unlock"}
    BY <1>0, <1>10 DEF JumptableAddBegin, JumptableAddEnd, Become, Threaded
  <2>3. QED BY <1>3, <2>1, <2>2
<1>11. CASE ReencodeReturn(t)
  <2>1. pc[t] = "unlock" /\ pc'[t] = "run" /\ rip'[t] = rip[t] + result[t]
        /\ UNCHANGED <<rax, stack, ran, proc, patches>> /\ AtNext(t)
    BY <1>0, <1>11 DEF ReencodeReturn, Goto, Become, Threaded, history, Course
  <2>2. CASE result[t] = 0
    <3>1. rip'[t] = rip[t]
      <4>1. rip[t] \in Nat
        BY <1>0, AddrFacts DEF Control
      <4>2. QED BY <2>1, <2>2, <4>1
    <3>2. AtNext(t)'
      BY <1>1, <2>1, <3>1 DEF AtNext
    <3>3. QED BY <2>1, <3>2 DEF Course, InCode, Tracks, Silent
  <2>3. CASE result[t] = 1
    <3>1. PICK c \in patches : Settled(c) /\ ran[t] = c.first - 1
      BY <2>1, <2>3 DEF Course
    <3>2. /\ IsBlock(c) /\ Known(c) /\ Settled(c)' /\ c \in patches'
          /\ c.base \in Nat /\ c.len \in Nat \ {0} /\ c.first \in Instrs
          /\ Start[c.first] = c.base
      BY <3>1, SettledFacts, SettledStays, BlockFacts, BlockCovers DEF Settled
    <3>3. rip[t] = c.base
      <4>1. ran[t] + 1 = c.first
        BY <3>1, <3>2 DEF Instrs
      <4>2. QED BY <2>1, <3>2, <4>1 DEF AtNext
    <3>4. 1 < c.len /\ PatchByte(c, 1).op \in {"90", "eb", "e9", "50", "cc"}
      <4>1. 0 \in 0 .. c.len - 1 /\ 0 + 1 = 1
        BY <3>2
      <4>2. QED BY <3>2, <4>1, OpcodeSteps
    <3>5. rip'[t] = c.base + 1 /\ rip'[t] - c.base = 1 /\ rip'[t] \in Span(c)
      BY <2>1, <2>3, <3>2, <3>3, <3>4 DEF Span
    <3>6. Nominal(t)'
      BY <1>1, <2>1 DEF AtNext
    <3>7. Entering(t, c)'
      BY <2>1, <3>1, <3>2, <3>4, <3>5, <3>6 DEF Entering
    <3>8. QED BY <2>1, <3>2, <3>7 DEF Course, InCode, Tracks, Silent
  <2>4. QED BY <1>0, <2>2, <2>3 DEF Control
<1>12. CASE SigtrapFound(t)
  <2>1. pc[t] = "trap" /\ jumptable[rip[t] - 1] # NULL /\ Trapped(t)
    BY <1>12 DEF SigtrapFound, jumptable_get_chunk, Course
  <2>2. PICK c : /\ Settled(c) /\ ~c.far /\ ran[t] = c.first - 1
                 /\ rip[t] = returnAddress(c) + 1 /\ jumptable[rip[t] - 1] = c
    BY <2>1, TrapFacts
  <2>3. /\ pc'[t] = "chunk" /\ cur'[t] = c /\ idx'[t] = 1 /\ stack'[t] = <<Ret(rip[t])>> \o stack[t]
        /\ UNCHANGED <<rax, ran, proc>>
    BY <1>0, <1>12, <2>2
    DEF SigtrapFound, EnterChunk, Become, Threaded, history, jumptable_get_chunk
  <2>4. Settled(c)'
    BY <2>2, SettledStays
  <2>5. ran'[t] = c.first + idx'[t] - 2
    <3>1. c.first \in Nat
      BY <2>2, SettledFacts, BlockFacts DEF Instrs
    <3>2. QED BY <2>2, <2>3, <3>1
  <2>6. Head(stack'[t]) = Ret(returnAddress(c) + 1)
    BY <1>0, <2>2, <2>3 DEF Control
  <2>7. ShortBlocks => rax'[t] = App /\ stack'[t] = <<Ret(returnAddress(c) + 1), CallerTop>>
    BY <2>1, <2>2, <2>3, PushOne DEF Trapped, Nominal
  <2>8. InTrapChunk(t, c)'
    BY <2>5, <2>6, <2>7 DEF InTrapChunk
  <2>9. QED BY <2>1, <2>2, <2>3, <2>4, <2>8 DEF Course, Tracks, Silent
<1>13. CASE SigtrapMissing(t)
  <2>1. pc[t] = "trap" /\ jumptable[rip[t] - 1] = NULL /\ Trapped(t)
    BY <1>13 DEF SigtrapMissing, jumptable_get_chunk, Course
  <2>2. OwnInt3(t)
    BY <2>1, TrapFacts, SettledFacts, BlockFacts
  <2>3. pc'[t] = "getchar" /\ UNCHANGED <<rip, rax, stack, ran, proc>>
    BY <1>0, <1>13 DEF SigtrapMissing, Become, Threaded, history
  <2>4. OwnInt3(t)' /\ Nominal(t)'
    BY <1>1, <2>1, <2>2, <2>3 DEF OwnInt3, Trapped
  <2>5. QED BY <2>1, <2>3, <2>4 DEF Course, Tracks, Silent
<1>14. QED
  BY <1>4, <1>5, <1>6, <1>7, <1>8, <1>9, <1>10, <1>11, <1>12, <1>13 DEF Handler

LEMMA OutsideCourse ==
  ASSUME IInv, TInv, KInv, NEW t \in Threads, Course(t),
         EmitFails(t) \/ KeyPress(t) \/ \E u \in Threads : MapRace(t, u)
  PROVE  Course(t)' /\ (Tracks(t) \/ Halts)
<1>1. CASE EmitFails(t) \/ \E u \in Threads : MapRace(t, u)
  BY <1>1, StillCourse DEF EmitFails, MapRace, Halts, history
<1>2. CASE KeyPress(t)
  <2>1. PICK i \in Instrs : /\ rip[t] = Start[i + 1]
                            /\ IF Intact(i) THEN ran' = [ran EXCEPT ![t] = i]
                                            ELSE UNCHANGED ran
    BY <1>2 DEF KeyPress
  <2>2. pc[t] = "getchar" /\ pc'[t] = "run" /\ UNCHANGED <<rip, rax, stack, proc>>
        /\ Nominal(t) /\ OwnInt3(t) /\ ran[t] \in 0 .. N /\ Threaded(ran)
    BY <1>2 DEF KeyPress, Become, TInv, Threaded, Course, Control
  <2>3. i = ran[t] + 1 /\ Kind[i] = "brk" /\ i \in 1 .. N + 1
    <3>1. ran[t] + 1 \in Instrs /\ rip[t] = Start[ran[t] + 2] /\ Kind[ran[t] + 1] = "brk"
      BY <2>2 DEF OwnInt3
    <3>2. i \in Nat /\ i + 1 \in 1 .. N + 1 /\ (ran[t] + 1) + 1 \in 1 .. N + 1 /\ i \in 1 .. N + 1
      BY <3>1, StartFacts
    <3>3. (ran[t] + 1) + 1 = ran[t] + 2
      BY <2>2
    <3>4. Start[i + 1] = Start[(ran[t] + 1) + 1]
      BY <2>1, <3>1, <3>3
    <3>5. i + 1 = (ran[t] + 1) + 1
      BY <3>2, <3>4, StartFacts
    <3>6. i = ran[t] + 1
      BY <2>2, <3>2, <3>5
    <3>7. QED BY <3>1, <3>2, <3>6
  <2>4. Intact(i)
    <3>1. SUFFICES ASSUME NEW a \in Bytes(i), mem[a] # Orig PROVE FALSE
      BY DEF Intact
    <3>2. PICK c \in patches : a \in Span(c)
      BY <3>1, BytesInCode DEF IInv, RewritesConfined
    <3>3. i \in c.first .. c.first + c.n - 1
      BY <3>1, <3>2, BlockCovers DEF IInv
    <3>4. QED BY <2>3, <3>2, <3>3 DEF KInv, Known
  <2>5. ran' = [ran EXCEPT ![t] = ran[t] + 1] /\ ran'[t] = i
    BY <2>1, <2>2, <2>3, <2>4 DEF Threaded
  <2>6. Executes(t)
    BY <2>2, <2>3, <2>5 DEF Executes
  <2>7. AtNext(t)'
    BY <2>1, <2>2, <2>5 DEF AtNext, Nominal
  <2>8. QED BY <2>2, <2>6, <2>7 DEF Course, InCode, Tracks
<1>3. QED BY <1>1, <1>2

(* A thread that is called again starts on course.                         *)
LEMMA RestartCourse ==
  ASSUME TInv, NEW t \in Threads, NEW e \in Entries, Restart(t, e)
  PROVE  Course(t)'
<1>1. pc'[t] = "run" /\ rip'[t] = Start[e] /\ ran'[t] = e - 1 /\ rax'[t] = App
      /\ stack'[t] = <<CallerTop>>
  BY DEF Restart, Become, Goto, TInv, Threaded
<1>2. ran'[t] + 1 = e
  BY <1>1, EntryAssumption DEF Instrs
<1>3. AtNext(t)'
  BY <1>1, <1>2 DEF AtNext, Nominal
<1>4. QED BY <1>1, <1>3 DEF Course, InCode

(* No step of another thread takes a thread off its course: what it is in  *)
(* the middle of is settled, and stays so.                                 *)
LEMMA OtherCourse ==
  ASSUME IInv, TInv, KInv, NEW t \in Threads, NEW u \in Threads, u # t, Course(u),
         Application(t) \/ Chunks(t) \/ Handler(t) \/ Outside(t)
  PROVE  Course(u)'
<1>1. Own(t)
  BY ApplicationTInv, ChunksTInv, HandlerTInv, OutsideTInv
<1>2. /\ pc'[u] = pc[u] /\ rip'[u] = rip[u] /\ rax'[u] = rax[u] /\ stack'[u] = stack[u]
      /\ cur'[u] = cur[u] /\ idx'[u] = idx[u] /\ result'[u] = result[u] /\ ran'[u] = ran[u]
  BY <1>1 DEF Own, Same
<1>3. \A c : Settled(c) => Settled(c)' /\ c \in patches'
  BY SettledStays DEF Settled
<1>4. /\ Nominal(u) <=> Nominal(u)'
      /\ Saved(u) <=> Saved(u)'
      /\ OwnInt3(u) <=> OwnInt3(u)'
  BY <1>2 DEF Nominal, Saved, OwnInt3
<1>5. AtNext(u) <=> AtNext(u)'
  BY <1>2, <1>4 DEF AtNext
<1>6. \A c : (Entering(u, c) => Entering(u, c)') /\ (Leaving(u, c) => Leaving(u, c)')
  BY <1>2, <1>3, <1>4 DEF Entering, Leaving
<1>7. InCode(u) => InCode(u)'
  BY <1>3, <1>5, <1>6 DEF InCode, Entering, Leaving
<1>8. Trapped(u) => Trapped(u)'
  BY <1>2, <1>3, <1>4 DEF Trapped
<1>9. \A c : (InFarChunk(u, c) => InFarChunk(u, c)') /\ (InTrapChunk(u, c) => InTrapChunk(u, c)')
  BY <1>2, <1>4 DEF InFarChunk, InTrapChunk
<1>10. pc[u] = "decode" => patches' = patches
  <2>1. ASSUME pc[u] = "decode" PROVE pc[t] # "emit"
    BY <2>1, Alone DEF Critical
  <2>2. CASE Application(t) \/ Chunks(t)
    BY <2>2, ApplicationQuiet, ChunksQuiet DEF Quiet
  <2>3. CASE Outside(t)
    BY <2>3 DEF Outside, EmitFails, KeyPress, MapRace, Restart
  <2>4. CASE Handler(t)
    BY <2>1, <2>4 DEF Handler, ReencodeLock, DecodeNopTrap, DecodeUnsupported, DecodeGarbage,
       DecodeBlock, EmitChunk, EmitStore, JumptableAddBegin, JumptableAddEnd,
       ReencodeReturn, SigtrapFound, SigtrapMissing
  <2>5. QED BY <2>2, <2>3, <2>4
<1>11. pc[u] = "decode" /\ ~InsideBlock(u) => ~InsideBlock(u)'
  BY <1>2, <1>10 DEF InsideBlock
<1>12. QED
  BY <1>2, <1>3, <1>4, <1>5, <1>7, <1>8, <1>9, <1>11 DEF Course

-----------------------------------------------------------------------------
(***************************************************************************)
(* The invariant.                                                          *)
(***************************************************************************)

(* Only a new call brings back a thread that is astray, and only one that  *)
(* is astray, or goes astray in that step, can derail the process.         *)
LEMMA AstrayFacts ==
  ASSUME TInv, NEW t \in Threads,
         Application(t) \/ Chunks(t) \/ Handler(t) \/ Outside(t)
  PROVE  \/ \E e \in Entries : Restart(t, e)
         \/ Halts
         \/ (astray[t] => astray'[t]) /\ proc' \in {proc, "derailed"}
<1>1. Threaded(astray)
  BY DEF TInv
<1>2. CASE Application(t)
  <2>1. astray[t] => astray'[t]
    BY <1>1, <1>2 DEF Application, Caught, Threaded
  <2>2. proc' \in {proc, "derailed"}
    BY <1>2 DEF Application, NativeInstr, Sigill, Sigtrap, Nop, JumpShort, JumpLong,
       TrampolinePush, TrampolineMov, TrampolineJump, TrampolinePop, Derail, Finish
  <2>3. QED BY <2>1, <2>2
<1>3. CASE Chunks(t)
  BY <1>3 DEF Chunks, ChunkPop, ChunkInstr, ChunkPush, ChunkMov, ChunkJump, ChunkRet, history
<1>4. CASE Handler(t)
  <2>1. CASE ReencodeLock(t)
    BY <1>1, <2>1 DEF ReencodeLock, Threaded
  <2>2. CASE DecodeUnsupported(t)
    BY <2>2 DEF DecodeUnsupported, Halts
  <2>3. CASE \E i \in Instrs, n \in 1 .. MaxBlock : DecodeBlock(t, i, n)
    BY <2>3 DEF DecodeBlock, history
  <2>4. CASE \/ DecodeNopTrap(t) \/ DecodeGarbage(t) \/ EmitChunk(t) \/ EmitStore(t)
             \/ JumptableAddBegin(t) \/ JumptableAddEnd(t) \/ ReencodeReturn(t)
             \/ SigtrapFound(t) \/ SigtrapMissing(t)
    BY <2>4 DEF DecodeNopTrap, DecodeGarbage, EmitChunk, EmitStore, JumptableAddBegin,
       JumptableAddEnd, ReencodeReturn, SigtrapFound, SigtrapMissing, history
  <2>5. QED BY <1>4, <2>1, <2>2, <2>3, <2>4 DEF Handler
<1>5. CASE Outside(t)
  BY <1>5 DEF Outside, EmitFails, KeyPress, MapRace, Halts
<1>6. QED BY <1>2, <1>3, <1>4, <1>5

(* What a step does to the thread that takes it.                           *)
LEMMA StepCourse ==
  ASSUME IInv, TInv, CInv, NEW t \in Threads,
         Application(t) \/ Chunks(t) \/ Handler(t) \/ Outside(t)
  PROVE  /\ ~astray'[t] => Course(t)'
         /\ \/ \E e \in Entries : Restart(t, e)
            \/ Halts
            \/ astray'[t] /\ proc' \in {proc, "derailed"}
            \/ ~astray[t] /\ ~astray'[t] /\ Course(t) /\ Course(t)' /\ Tracks(t)
<1>1. KInv /\ (~astray[t] => Course(t))
  BY DEF CInv
<1>2. CASE \E e \in Entries : Restart(t, e)
  BY <1>2, RestartCourse
<1>3. CASE ~\E e \in Entries : Restart(t, e)
  <2>1. CASE astray'[t]
    BY <1>3, <2>1, AstrayFacts
  <2>2. CASE ~astray'[t]
    <3>1. astray[t] => Halts
      BY <1>3, <2>2, AstrayFacts
    <3>2. ~astray[t]
      BY <2>2, <3>1 DEF Halts, history
    <3>3. Course(t)' /\ (Tracks(t) \/ Halts)
      BY <1>1, <1>3, <2>2, <3>2, ApplicationCourse, ChunksCourse, HandlerCourse,
         OutsideCourse DEF Outside
    <3>4. QED BY <1>1, <2>2, <3>2, <3>3
  <2>3. QED BY <2>1, <2>2
<1>4. QED BY <1>2, <1>3

LEMMA InitCInv == Init => CInv
<1> SUFFICES ASSUME Init PROVE CInv
  OBVIOUS
<1>1. ASSUME NEW t \in Threads PROVE Course(t)
  <2>1. PICK entry \in [Threads -> Entries] :
          /\ rip = [u \in Threads |-> Start[entry[u]]]
          /\ ran = [u \in Threads |-> entry[u] - 1]
    BY DEF Init
  <2>2. pc[t] = "run" /\ rax[t] = App /\ stack[t] = <<CallerTop>>
    BY DEF Init
  <2>3. ran[t] + 1 = entry[t] /\ rip[t] = Start[entry[t]]
    <3>1. entry[t] \in Entries /\ ran[t] = entry[t] - 1 /\ rip[t] = Start[entry[t]]
      BY <2>1
    <3>2. entry[t] \in Nat
      BY <3>1, EntryAssumption, StartFacts
    <3>3. QED BY <3>1, <3>2
  <2>4. AtNext(t)
    BY <2>2, <2>3 DEF AtNext, Nominal
  <2>5. QED BY <2>2, <2>4 DEF Course, InCode
<1>2. QED BY <1>1, InitKInv DEF CInv

LEMMA NextCInv == IInv /\ TInv /\ CInv /\ [Next]_vars => CInv'
<1>1. ASSUME IInv, TInv, CInv, Next PROVE CInv'
  <2>1. PICK t \in Threads : Application(t) \/ Chunks(t) \/ Handler(t) \/ Outside(t)
    BY <1>1 DEF Next
  <2>2. Own(t)
    BY <1>1, <2>1, ApplicationTInv, ChunksTInv, HandlerTInv, OutsideTInv
  <2>3. ~astray'[t] => Course(t)'
    BY <1>1, <2>1, StepCourse
  <2>4. ASSUME NEW u \in Threads, u # t, ~astray'[u] PROVE Course(u)'
    <3>1. KInv /\ Course(u)
      BY <1>1, <2>2, <2>4 DEF CInv, Own, Same
    <3>2. QED BY <1>1, <2>1, <2>4, <3>1, OtherCourse
  <2>5. KInv'
    BY <1>1, NextKInv DEF CInv
  <2>6. QED BY <2>3, <2>4, <2>5 DEF CInv
<1>2. ASSUME IInv, TInv, CInv, UNCHANGED vars PROVE CInv'
  <2>1. KInv'
    BY <1>2, NextKInv DEF CInv
  <2>2. UNCHANGED <<patches, thread, ran, astray>>
    BY <1>2 DEF vars, history
  <2>3. ASSUME NEW u \in Threads, ~astray'[u] PROVE Course(u)'
    BY <1>2, <2>2, <2>3, StillCourse DEF CInv
  <2>4. QED BY <2>1, <2>3 DEF CInv
<1>3. QED BY <1>1, <1>2

(* In every execution of every program, a thread that no rewriting caught  *)
(* half-way is before its next instruction or on the way through a patch   *)
(* that is in place, wherever the other threads are.                       *)
THEOREM SpecCInv == Spec => [](IInv /\ TInv /\ CInv)
<1>1. Init => IInv /\ TInv /\ CInv
  BY InitIInv, InitTInv, InitCInv
<1>2. IInv /\ TInv /\ CInv /\ [Next]_vars => IInv' /\ TInv' /\ CInv'
  BY NextIInv, NextTInv, NextCInv
<1>3. QED BY <1>1, <1>2, PTL DEF Spec

-----------------------------------------------------------------------------
(***************************************************************************)
(* What follows from it.                                                   *)
(***************************************************************************)
LEMMA ContextOfCourse ==
  ASSUME ShortBlocks, IInv, TInv, CInv
  PROVE  ContextIntact
<1> SUFFICES ASSUME NEW t \in Threads, ~astray[t]
             PROVE  /\ pc[t] = "run" /\ (\E i \in Instrs : InstrAt(rip[t], i))
                         => rax[t] = App /\ stack[t] = <<CallerTop>>
                    /\ pc[t] = "chunk" /\ idx[t] \in 1 .. cur[t].n
                         => /\ rax[t] = App
                            /\ stack[t] = (IF cur[t].far THEN <<>>
                                           ELSE <<Ret(returnAddress(cur[t]) + 1)>>)
                                          \o <<CallerTop>>
  BY DEF ContextIntact
<1>1. KInv /\ Course(t)
  BY DEF CInv
<1>2. ASSUME pc[t] = "run", NEW i \in Instrs, InstrAt(rip[t], i)
      PROVE  rax[t] = App /\ stack[t] = <<CallerTop>>
  <2>1. mem[rip[t]] = Orig
    BY <1>2, NoInstrAt
  <2>2. ASSUME NEW c, Entering(t, c) \/ Leaving(t, c) PROVE FALSE
    <3>1. Settled(c) /\ IsBlock(c) /\ rip[t] \in Span(c)
      BY <1>1, <2>2, SettledFacts, BlockFacts DEF Entering, Leaving
    <3>2. QED BY <1>1, <2>1, <3>1, SettledFacts
  <2>3. AtNext(t)
    BY <1>1, <1>2, <2>2 DEF Course, InCode
  <2>4. QED BY <2>3 DEF AtNext, Nominal
<1>3. ASSUME pc[t] = "chunk", idx[t] \in 1 .. cur[t].n
      PROVE  rax[t] = App
             /\ stack[t] = (IF cur[t].far THEN <<>> ELSE <<Ret(returnAddress(cur[t]) + 1)>>)
                           \o <<CallerTop>>
  <2>1. IsBlock(cur[t]) /\ cur[t].n \in Nat
    BY <1>1, <1>3, SettledFacts, BlockFacts DEF Course
  <2>2. CASE cur[t].far
    <3>1. Nominal(t)
      BY <1>1, <1>3, <2>1, <2>2 DEF Course, InFarChunk
    <3>2. <<>> \o <<CallerTop>> = <<CallerTop>>
      <4>1. <<CallerTop>> \in Seq({CallerTop})
        OBVIOUS
      <4>2. QED BY <4>1, ConcatEmptySeq
    <3>3. QED BY <2>2, <3>1, <3>2 DEF Nominal
  <2>3. CASE ~cur[t].far
    <3>1. rax[t] = App /\ stack[t] = <<Ret(returnAddress(cur[t]) + 1), CallerTop>>
      BY <1>1, <1>3, <2>3 DEF Course, InTrapChunk
    <3>2. QED BY <2>3, <3>1, PushOne
  <2>4. QED BY <2>2, <2>3
<1>4. QED BY <1>2, <1>3

(* In every program whose decodable runs are shorter than the JMP rel32    *)
(* needs, the trampoline, the chunk's prologue and epilogue and the INT3's *)
(* pushed return address cancel out, in every execution: no instruction of *)
(* a thread that was not caught sees a changed RAX or stack.               *)
THEOREM SpecContextIntact ==
  ASSUME ShortBlocks
  PROVE  Spec => []ContextIntact
<1>1. IInv /\ TInv /\ CInv => ContextIntact
  BY ContextOfCourse
<1>2. QED BY <1>1, SpecCInv, PTL

(* NativeAvx's step for each of Rewriter's.                                *)
LEMMA StepImplementsNative ==
  ASSUME IInv, TInv, CInv, Next, TInv'
  PROVE  [Native!Next]_Native!vars
<1> DEFINE next == [u \in Threads |-> ran[u] + 1]
           stateOf(u) == CASE astray[u] -> "astray"
                           [] ~astray[u] /\ pc[u] = "done" -> "done"
                           [] OTHER -> "running"
           state == [u \in Threads |-> stateOf(u)]
<1>1. proc = "up"
  BY DEF Next
<1>2. PICK t \in Threads : Application(t) \/ Chunks(t) \/ Handler(t) \/ Outside(t)
  BY DEF Next
<1>3. Own(t)
  BY <1>2, ApplicationTInv, ChunksTInv, HandlerTInv, OutsideTInv
<1>4. \A u \in Threads : u # t => ran'[u] = ran[u] /\ stateOf(u)' = stateOf(u)
  BY <1>3 DEF Own, Same
<1>5. ran[t] \in 0 .. N /\ ran'[t] \in 0 .. N /\ Threaded(ran) /\ N \in Nat
  BY SizeAssumption DEF TInv, Control
<1>6. next' = [next EXCEPT ![t] = ran'[t] + 1]
  BY <1>4
<1>7. state' = [state EXCEPT ![t] = stateOf(t)']
  BY <1>4
<1> HIDE DEF next, state
<1>8. CASE \E e \in Entries : Restart(t, e)
  <2>1. PICK e \in Entries : Restart(t, e)
    BY <1>8
  <2>2. pc[t] = "done" /\ pc'[t] = "run" /\ ran'[t] = e - 1 /\ ~astray'[t] /\ proc' = proc
    BY <2>1 DEF Restart, Become, TInv, Threaded
  <2>3. ran'[t] + 1 = e /\ stateOf(t)' = "running" /\ stateOf(t) \in {"done", "astray"}
    BY <2>2, EntryAssumption DEF Instrs
  <2>4. state[t] \in {"done", "astray"}
    BY <2>3 DEF state
  <2>5. Native!Call(t, e)
    BY <1>6, <1>7, <2>2, <2>3, <2>4 DEF Native!Call, next, state
  <2>6. QED BY <1>1, <2>1, <2>5 DEF Native!Next
<1>9. CASE Halts
  <2>1. Native!Stop
    BY <1>9 DEF Halts, Native!Stop, thread, history
  <2>2. QED BY <1>1, <2>1 DEF Native!Next
<1>10. CASE astray'[t] /\ proc' \in {proc, "derailed"}
  <2>1. stateOf(t)' = "astray" /\ ran'[t] + 1 \in 1 .. N + 1
    BY <1>5, <1>10
  <2>2. Native!GoAstray(t)
    BY <1>6, <1>7, <1>10, <2>1 DEF Native!GoAstray, next, state
  <2>3. QED BY <1>1, <2>2 DEF Native!Next
<1>11. CASE ~astray[t] /\ ~astray'[t] /\ Tracks(t)
  <2>1. CASE Executes(t)
    <3>1. ran'[t] = ran[t] + 1 /\ ran[t] + 1 <= N /\ stateOf(t) = "running"
          /\ stateOf(t)' = "running" /\ proc' = proc
      BY <1>5, <1>11, <2>1 DEF Executes, Tracks, Instrs, Threaded
    <3>2. Native!Execute(t)
      BY <1>6, <1>7, <3>1 DEF Native!Execute, next, state
    <3>3. QED BY <1>1, <3>2 DEF Native!Next
  <2>2. CASE Leaves(t)
    <3>1. ran' = ran /\ ran[t] = N /\ stateOf(t) = "running" /\ stateOf(t)' = "done"
          /\ proc' = proc
      BY <1>11, <2>2 DEF Leaves, Tracks
    <3>2. Native!Leave(t)
      BY <1>6, <1>7, <3>1 DEF Native!Leave, next, state
    <3>3. QED BY <1>1, <3>2 DEF Native!Next
  <2>3. CASE Silent(t)
    <3>1. ran' = ran /\ stateOf(t)' = stateOf(t) /\ proc' = proc
      BY <1>11, <2>3 DEF Silent, Tracks
    <3>2. UNCHANGED Native!vars
      BY <1>4, <3>1 DEF Native!vars
    <3>3. QED BY <3>2
  <2>4. QED BY <1>11, <2>1, <2>2, <2>3 DEF Tracks
<1>12. QED BY <1>2, <1>8, <1>9, <1>10, <1>11, StepCourse

(* Rewriter implements NativeAvx, for every program, any number of threads *)
(* and any interleaving of their faults with each other's rewriting: to a  *)
(* thread that was not caught half-way each instruction is executed once,  *)
(* in order, natively, in a chunk or behind an INT3 of its own.            *)
THEOREM SpecImplementsNative == Spec => ImplementsNative
<1>1. Init => Native!Init
  <2> SUFFICES ASSUME Init PROVE Native!Init
    OBVIOUS
  <2>1. PICK entry \in [Threads -> Entries] : ran = [u \in Threads |-> entry[u] - 1]
    BY DEF Init
  <2>2. \A u \in Threads : ran[u] + 1 = entry[u]
    <3>1. ASSUME NEW u \in Threads PROVE ran[u] + 1 = entry[u]
      <4>1. entry[u] \in Entries /\ ran[u] = entry[u] - 1
        BY <2>1
      <4>2. entry[u] \in Nat
        BY <4>1, EntryAssumption, StartFacts
      <4>3. QED BY <4>1, <4>2
    <3>2. QED BY <3>1
  <2>3. [u \in Threads |-> ran[u] + 1] \in [Threads -> Entries]
    BY <2>1, <2>2
  <2>4. \A u \in Threads : ~astray[u] /\ pc[u] = "run"
    BY DEF Init
  <2>5. QED BY <2>3, <2>4 DEF Init, Native!Init
<1>2. UNCHANGED vars => UNCHANGED Native!vars
  BY DEF vars, thread, history, Native!vars
<1>3. IInv /\ TInv /\ CInv /\ [Next]_vars /\ TInv' => [Native!Next]_Native!vars
  BY <1>2, StepImplementsNative
<1>4. QED
  BY <1>1, <1>3, SpecCInv, PTL DEF Spec, ImplementsNative, Native!Spec

==============================================================================
