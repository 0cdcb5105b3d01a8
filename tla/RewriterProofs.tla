---------------------------- MODULE RewriterProofs ----------------------------
(***************************************************************************)
(* Theorems about Rewriter for every program, number of threads, block     *)
(* limit and number of rounds.  The inductive invariant says how far the   *)
(* one thread inside csMutex has got: what it decoded is still original    *)
(* code, and what it has stored is a prefix of its patch.                  *)
(***************************************************************************)
EXTENDS Rewriter, TLAPS

Critical == {"decode", "emit", "write", "add", "adding", "unlock"}

(* The states in which a thread has a decoded block in hand.               *)
Emitting == {"emit", "write", "add", "adding"}

IsBlock(c) ==
  \E i \in Instrs, n \in 1 .. MaxBlock : i + n - 1 \in Instrs /\ c = Block(i, n)

CoreType ==
  /\ mem \in [Addr -> Cells]
  /\ csMutex \in Threads \cup {NoThread}
  /\ jumptable = [a \in Addr |-> jumptable[a]]
  /\ pc \in [Threads -> Pc]
  /\ cur = [t \in Threads |-> cur[t]]
  /\ idx = [t \in Threads |-> idx[t]]

(* EmitStore never stops inside an immediate.                              *)
Aligned(c, o) ==
  c.far => /\ o \notin nopSlideEnd(c.len) + 4 .. nopSlideEnd(c.len) + 10
           /\ LongJump(c.len) => o \notin 3 .. 5

(* A byte of a block the thread has in hand.                               *)
HandByte(t, a) ==
  IF pc[t] = "emit" \/ (pc[t] = "write" /\ a >= cur[t].base + idx[t])
  THEN Orig ELSE PatchByte(cur[t], a - cur[t].base)

Hand(t) ==
  pc[t] \in Emitting =>
    /\ IsBlock(cur[t])
    /\ \A a \in Span(cur[t]) : mem[a] = HandByte(t, a)
    /\ pc[t] # "emit" => cur[t] \in patches
    /\ pc[t] = "write" => /\ idx[t] \in 0 .. cur[t].len - 1
                          /\ Aligned(cur[t], idx[t])
    /\ pc[t] \in {"add", "adding"} => ~cur[t].far

TableInv ==
  \A a \in Addr : jumptable[a] # NULL =>
    /\ jumptable[a] \in patches
    /\ a = returnAddress(jumptable[a])

IInv ==
  /\ CoreType
  /\ MutualExclusion
  /\ \A t \in Threads : Hand(t)
  /\ \A c \in patches : IsBlock(c)
  /\ PatchesDisjoint
  /\ PatchComplete
  /\ RewritesConfined
  /\ TableInv

-----------------------------------------------------------------------------
(***************************************************************************)
(* Blocks and their patches.                                               *)
(***************************************************************************)

(* A block is a non-empty interval of the code, below its last address,    *)
(* and far exactly when it is longer than the trampoline.                  *)
LEMMA BlockFacts ==
  ASSUME NEW c, IsBlock(c)
  PROVE  /\ c \in Chunk /\ c # NULL
         /\ c.base \in Nat /\ c.len \in Nat \ {0} /\ c.n \in Nat \ {0}
         /\ c.first \in Instrs /\ c.first + c.n - 1 \in Instrs
         /\ c.far = (c.len > 14)
         /\ Span(c) \subseteq Addr /\ Start[N + 1] \notin Span(c)
         /\ c.base \in Span(c) /\ returnAddress(c) \in Span(c)
<1>1. PICK i \in Instrs, n \in 1 .. MaxBlock :
             i + n - 1 \in Instrs /\ c = Block(i, n)
  BY DEF IsBlock
<1>2. i \in 1 .. N /\ i + n \in 1 .. N + 1 /\ i < i + n /\ n \in Nat \ {0}
  BY <1>1, SizeAssumption DEF Instrs
<1>3. Start[i] \in Nat /\ Start[i + n] \in Nat /\ Start[1] \in Nat
      /\ Start[N + 1] \in Nat
  BY <1>2, StartType, SizeAssumption
<1>4. Start[i] < Start[i + n]
  BY <1>2, StartIncreases, SizeAssumption
<1>5. Start[1] <= Start[i]
  BY <1>2, <1>3, StartIncreases, SizeAssumption
<1>6. Start[i + n] <= Start[N + 1]
  BY <1>2, <1>3, StartIncreases, SizeAssumption
<1>7. /\ c.base = Start[i] /\ c.len = Start[i + n] - Start[i]
      /\ c.first = i /\ c.n = n
      /\ c.far = (Start[i + n] - Start[i] > 14)
      /\ c = [far |-> c.far, base |-> c.base, len |-> c.len,
              first |-> c.first, n |-> c.n]
  BY <1>1 DEF Block, IsFar, trampolineSize
<1>8. c.len \in Nat \ {0}
  BY <1>3, <1>4, <1>7
<1>9. c \in Chunk /\ c # NULL
  <2>1. c.far \in BOOLEAN
    BY <1>3, <1>7
  <2>2. c.base \in Nat /\ c.len \in Nat /\ c.first \in Nat /\ c.n \in Nat
    BY <1>2, <1>3, <1>7, <1>8 DEF Instrs
  <2>3. c \in Chunk
    BY <1>7, <2>1, <2>2 DEF Chunk
  <2>4. QED BY <1>8, <2>3 DEF NULL
<1>10. QED
  BY <1>1, <1>2, <1>3, <1>4, <1>5, <1>6, <1>7, <1>8, <1>9
  DEF Span, Addr, returnAddress, Instrs

(* A patch leaves no original byte in its block, and its bytes are cells.  *)
LEMMA PatchByteFacts ==
  ASSUME NEW c \in Chunk, NEW o \in Int
  PROVE  PatchByte(c, o) \in Cells /\ PatchByte(c, o) # Orig
<1>1. \A op \in Opcodes : Byte(op) \in Cells
  BY DEF Byte, Cells, NULL, Chunk
<1>2. \A op \in Opcodes, d \in Int : Disp(op, d) \in Cells
  BY DEF Disp, Cells, NULL, Chunk
<1>3. Imm64(c) \in Cells
  BY DEF Imm64, Cells, Opcodes
<1>4. shortDisp(c.len) \in Int /\ longDisp(c.len) \in Int
  BY DEF Chunk, shortDisp, longDisp, freeSpace, nopSlideEnd, trampolineSize
<1>5. SlideByte(c.len, o) \in Cells /\ SlideByte(c.len, o).op # "orig"
  BY <1>1, <1>2, <1>4 DEF SlideByte, Opcodes, Byte, Disp
<1>6. \A k : TrampolineByte(c, k) \in Cells /\ TrampolineByte(c, k).op # "orig"
  BY <1>1, <1>3 DEF TrampolineByte, Opcodes, Byte, Imm64
<1>7. TrapByte(c, o) \in Cells /\ TrapByte(c, o).op # "orig"
  BY <1>1 DEF TrapByte, Opcodes, Byte
<1>8. QED
  BY <1>5, <1>6, <1>7 DEF PatchByte, FarByte, Orig, Byte

(* One store stays inside the block and stops at a whole field.            *)
LEMMA StoreFacts ==
  ASSUME NEW c, IsBlock(c), NEW o \in 0 .. c.len - 1, Aligned(c, o)
  PROVE  LET w == StoreWidth(PatchByte(c, o))
         IN  w \in Nat \ {0} /\ o + w <= c.len /\ Aligned(c, o + w)
<1> USE BlockFacts DEF trampolineSize, nopSlideEnd, freeSpace, ShortJump, LongJump
<1>1. CASE ~c.far
  <2>1. PatchByte(c, o).op \in {"cc", "90"}
    BY <1>1 DEF PatchByte, TrapByte, Byte
  <2>2. StoreWidth(PatchByte(c, o)) = 1
    BY <2>1 DEF StoreWidth
  <2>3. QED BY <1>1, <2>2 DEF Aligned
<1>2. CASE c.far /\ o < nopSlideEnd(c.len)
  <2>1. PatchByte(c, o) = SlideByte(c.len, o)
    BY <1>2 DEF PatchByte, FarByte
  <2>2. CASE o \in 2 .. 5 /\ LongJump(c.len)
    <3>1. o = 2
      BY <1>2, <2>2 DEF Aligned
    <3>2. StoreWidth(PatchByte(c, o)) = 4
      BY <2>1, <2>2, <3>1 DEF SlideByte, Disp, StoreWidth
    <3>3. c.len >= 22
      BY <2>2
    <3>4. QED BY <3>1, <3>2, <3>3 DEF Aligned
  <2>3. CASE ~(o \in 2 .. 5 /\ LongJump(c.len))
    <3>1. SlideByte(c.len, o).op \in {"eb", "disp8", "e9", "90"}
      BY <1>2, <2>3 DEF SlideByte, Byte, Disp
    <3>2. StoreWidth(PatchByte(c, o)) = 1
      BY <2>1, <3>1 DEF StoreWidth
    <3>3. LongJump(c.len) => o + 1 \notin 3 .. 5
      BY <2>3
    <3>4. QED BY <1>2, <3>2, <3>3 DEF Aligned
  <2>4. QED BY <2>2, <2>3
<1>3. CASE c.far /\ ~(o < nopSlideEnd(c.len))
  <2> DEFINE k == o - nopSlideEnd(c.len)
  <2>1. PatchByte(c, o) = TrampolineByte(c, k) /\ k \in 0 .. 13
    BY <1>3 DEF PatchByte, FarByte
  <2>2. k \notin 4 .. 10
    BY <1>3, <2>1 DEF Aligned
  <2>3. CASE k = 3
    <3>1. StoreWidth(PatchByte(c, o)) = 8
      BY <2>1, <2>3 DEF TrampolineByte, Imm64, StoreWidth
    <3>2. QED BY <1>3, <2>1, <2>3, <3>1 DEF Aligned
  <2>4. CASE k # 3
    <3>1. TrampolineByte(c, k).op \in {"50", "48", "b8", "ff", "e0", "58"}
      BY <2>1, <2>2, <2>4 DEF TrampolineByte, Byte
    <3>2. StoreWidth(PatchByte(c, o)) = 1
      BY <2>1, <3>1 DEF StoreWidth
    <3>3. QED BY <1>3, <2>1, <2>2, <2>4, <3>2 DEF Aligned
  <2>5. QED BY <2>3, <2>4
<1>4. QED BY <1>1, <1>2, <1>3

-----------------------------------------------------------------------------
(***************************************************************************)
(* The invariant holds initially and every step keeps it.                  *)
(***************************************************************************)
LEMMA InitIInv == Init => IInv
<1> SUFFICES ASSUME Init PROVE IInv
  OBVIOUS
<1> USE DEF Init
<1>1. CoreType
  <2>1. Orig \in Cells
    BY DEF Orig, Byte, Cells, Opcodes, NULL, Chunk
  <2>2. QED BY <2>1 DEF CoreType, Pc
<1>2. MutualExclusion
  BY ThreadAssumption DEF MutualExclusion, InCritical
<1>3. \A t \in Threads : Hand(t)
  BY DEF Hand, Emitting
<1>4. PatchesDisjoint /\ PatchComplete /\ RewritesConfined /\ TableInv
  BY DEF PatchesDisjoint, PatchComplete, RewritesConfined, TableInv
<1>5. QED BY <1>1, <1>2, <1>3, <1>4 DEF IInv

(* A step that changes neither code, lock nor table, of a thread that is   *)
(* outside csMutex before and after.                                       *)
Quiet(t) ==
  /\ UNCHANGED <<mem, csMutex, jumptable, patches>>
  /\ pc[t] \notin Critical
  /\ \E s \in Pc \ Critical : pc' = [pc EXCEPT ![t] = s]
  /\ \E c : cur' = [cur EXCEPT ![t] = c]
  /\ \E k : idx' = [idx EXCEPT ![t] = k]

LEMMA QuietIInv ==
  ASSUME IInv, NEW t \in Threads, Quiet(t)
  PROVE  IInv'
<1> USE DEF IInv
<1>1. PICK s \in Pc \ Critical : pc' = [pc EXCEPT ![t] = s]
  BY DEF Quiet
<1>2. PICK c : cur' = [cur EXCEPT ![t] = c]
  BY DEF Quiet
<1>3. PICK k : idx' = [idx EXCEPT ![t] = k]
  BY DEF Quiet
<1>4. mem' = mem /\ csMutex' = csMutex /\ jumptable' = jumptable
      /\ patches' = patches /\ pc[t] \notin Critical
  BY DEF Quiet
<1>5. CoreType'
  BY <1>1, <1>2, <1>3, <1>4 DEF CoreType
<1>6. \A u \in Threads : u # t => pc'[u] = pc[u] /\ cur'[u] = cur[u] /\ idx'[u] = idx[u]
  BY <1>1, <1>2, <1>3 DEF CoreType
<1>7. pc'[t] = s /\ s \notin Critical
  BY <1>1 DEF CoreType
<1>8. MutualExclusion'
  BY <1>4, <1>6, <1>7 DEF MutualExclusion, InCritical, Critical
<1>9. ASSUME NEW u \in Threads PROVE Hand(u)'
  <2>1. CASE u = t
    BY <1>7, <2>1 DEF Hand, Emitting, Critical
  <2>2. CASE u # t
    BY <1>4, <1>6, <2>2 DEF Hand, HandByte, Span
  <2>3. QED BY <2>1, <2>2
<1>10. \A d \in patches : Writing(d)' <=> Writing(d)
  BY <1>4, <1>6, <1>7 DEF Writing, Critical
<1>11. PatchComplete'
  BY <1>4, <1>10 DEF PatchComplete, Span, returnAddress
<1>12. (\A d \in patches : IsBlock(d))' /\ PatchesDisjoint' /\ RewritesConfined' /\ TableInv'
  BY <1>4 DEF PatchesDisjoint, RewritesConfined, TableInv, Span, returnAddress
<1>13. QED BY <1>5, <1>8, <1>9, <1>11, <1>12

(* Inside csMutex a thread is alone: no other one has a block in hand.     *)
LEMMA Alone ==
  ASSUME IInv, NEW t \in Threads, pc[t] \in Critical
  PROVE  /\ csMutex = t
         /\ \A u \in Threads : u # t => pc[u] \notin Critical
  BY DEF IInv, MutualExclusion, InCritical, Critical

(* A step of the thread inside csMutex that only moves it along, or takes  *)
(* or gives back csMutex, with no block in hand before or after.           *)
LEMMA MoveIInv ==
  ASSUME IInv, NEW t \in Threads, NEW s \in Pc,
         UNCHANGED <<mem, jumptable, patches, idx, cur>>,
         pc' = [pc EXCEPT ![t] = s],
         pc[t] \notin {"write", "add", "adding"}, s \notin Emitting,
         csMutex' = (IF s \in Critical THEN t ELSE NoThread),
         \A u \in Threads : u # t => pc[u] \notin Critical
  PROVE  IInv'
<1> USE DEF IInv
<1>1. CoreType'
  BY DEF CoreType
<1>2. pc'[t] = s /\ \A u \in Threads : u # t => pc'[u] = pc[u]
  BY DEF CoreType
<1>3. MutualExclusion'
  BY <1>2, ThreadAssumption DEF MutualExclusion, InCritical, Critical
<1>4. \A u \in Threads : Hand(u)'
  BY <1>2 DEF Hand, Emitting, Critical
<1>5. \A d : Writing(d)' <=> Writing(d)
  BY <1>2 DEF Writing, Critical, Emitting
<1>6. PatchComplete'
  BY <1>5 DEF PatchComplete, Span, returnAddress
<1>7. (\A d \in patches : IsBlock(d))' /\ PatchesDisjoint' /\ RewritesConfined' /\ TableInv'
  BY DEF PatchesDisjoint, RewritesConfined, TableInv, Span, returnAddress
<1>8. QED BY <1>1, <1>3, <1>4, <1>6, <1>7

LEMMA DecodeBlockIInv ==
  ASSUME IInv, NEW t \in Threads, NEW i \in Instrs, NEW n \in 1 .. MaxBlock,
         DecodeBlock(t, i, n)
  PROVE  IInv'
<1> USE DEF IInv, DecodeBlock, Become
<1>1. csMutex = t /\ \A u \in Threads : u # t => pc[u] \notin Critical
  BY Alone DEF Critical
<1>2. CoreType'
  BY DEF CoreType, Pc
<1>3. pc'[t] = "emit" /\ cur'[t] = Block(i, n)
      /\ \A u \in Threads : u # t => pc'[u] = pc[u]
  BY DEF CoreType
<1>4. MutualExclusion'
  BY <1>1, <1>3 DEF MutualExclusion, InCritical, Critical
<1>5. i + n - 1 \in Instrs
  BY DEF Decodes, Instrs
<1>6. IsBlock(Block(i, n))
  BY <1>5 DEF IsBlock
<1>7. Start[i] \in Nat /\ Start[i + n] \in Nat
  BY <1>5, StartType, SizeAssumption DEF Instrs
<1>8. ASSUME NEW a \in Span(Block(i, n)) PROVE mem[a] = Orig
  BY <1>7 DEF Span, Block, Decodes
<1>9. ASSUME NEW u \in Threads PROVE Hand(u)'
  <2>1. CASE u = t
    BY <1>3, <1>6, <1>8, <2>1 DEF Hand, HandByte
  <2>2. CASE u # t
    BY <1>1, <1>3, <2>2 DEF Hand, Emitting, Critical
  <2>3. QED BY <2>1, <2>2
<1>10. \A d : ~Writing(d) /\ ~Writing(d)'
  BY <1>1, <1>3 DEF Writing, Critical
<1>11. PatchComplete'
  BY <1>10 DEF PatchComplete, Span, returnAddress
<1>12. (\A d \in patches : IsBlock(d))' /\ PatchesDisjoint' /\ RewritesConfined' /\ TableInv'
  BY DEF PatchesDisjoint, RewritesConfined, TableInv, Span, returnAddress
<1>13. QED BY <1>2, <1>4, <1>9, <1>11, <1>12

LEMMA EmitChunkIInv ==
  ASSUME IInv, NEW t \in Threads, EmitChunk(t)
  PROVE  IInv'
<1> USE DEF IInv, EmitChunk, Become
<1> DEFINE c == cur[t]
<1>1. csMutex = t /\ \A u \in Threads : u # t => pc[u] \notin Critical
  BY Alone DEF Critical
<1>2. IsBlock(c) /\ \A a \in Span(c) : mem[a] = Orig
  BY DEF Hand, Emitting, HandByte
<1>3. CoreType'
  BY DEF CoreType, Pc
<1>4. pc'[t] = "write" /\ idx'[t] = 0 /\ cur' = cur
      /\ \A u \in Threads : u # t => pc'[u] = pc[u]
  BY DEF CoreType
<1>5. MutualExclusion'
  BY <1>1, <1>4 DEF MutualExclusion, InCritical, Critical
<1>6. Hand(t)'
  <2>1. 0 \in 0 .. c.len - 1 /\ c.base + 0 = c.base /\ c.base \in Nat /\ c.len \in Nat
    BY <1>2, BlockFacts
  <2>2. Aligned(c, 0)
    <3>1. c.len \in Nat /\ (c.far => c.len > 14)
      BY <1>2, BlockFacts
    <3>2. c.far => 0 \notin nopSlideEnd(c.len) + 4 .. nopSlideEnd(c.len) + 10
      BY <3>1 DEF nopSlideEnd, trampolineSize
    <3>3. QED BY <3>2 DEF Aligned
  <2>3. \A a \in Span(c) : a >= c.base + 0
    BY <2>1 DEF Span
  <2>4. QED BY <1>2, <1>4, <2>1, <2>2, <2>3 DEF Hand, HandByte
<1>7. \A u \in Threads : Hand(u)'
  BY <1>1, <1>4, <1>6 DEF Hand, Emitting, Critical
<1>8. \A d : ~Writing(d)
  BY <1>1 DEF Writing, Critical
<1>9. \A d : d # c => ~Writing(d)'
  BY <1>1, <1>4 DEF Writing, Critical
<1>10. ASSUME NEW d \in patches PROVE Span(d) \cap Span(c) = {}
  (* All of d's bytes are rewritten, none of c's is.                       *)
  <2>1. \A a \in Span(d) : mem[a] = PatchByte(d, a - d.base)
    BY <1>8 DEF PatchComplete
  <2>2. d \in Chunk /\ \A a \in Span(d) : a - d.base \in Int
    BY BlockFacts DEF Span
  <2>3. \A a \in Span(d) : mem[a] # Orig
    BY <2>1, <2>2, PatchByteFacts
  <2>4. QED BY <1>2, <2>3
<1>11. PatchesDisjoint'
  BY <1>10 DEF PatchesDisjoint, Span
<1>12. PatchComplete'
  <2>1. Writing(c)'
    BY <1>4 DEF Writing
  <2>2. QED BY <1>8, <2>1 DEF PatchComplete, Span, returnAddress
<1>13. (\A d \in patches : IsBlock(d))' /\ RewritesConfined' /\ TableInv'
  BY <1>2 DEF RewritesConfined, TableInv, Span, returnAddress
<1>14. QED BY <1>3, <1>5, <1>7, <1>11, <1>12, <1>13

LEMMA EmitStoreIInv ==
  ASSUME IInv, NEW t \in Threads, EmitStore(t)
  PROVE  IInv'
<1> USE DEF IInv
<1> DEFINE c == cur[t]
           w == StoreWidth(PatchByte(c, idx[t]))
           a0 == c.base + idx[t]
           s == IF idx[t] + w < c.len THEN "write" ELSE IF c.far THEN "unlock" ELSE "add"
<1>0. /\ pc[t] = "write"
      /\ mem' = [b \in Addr |-> IF b \in a0 .. a0 + w - 1
                                THEN PatchByte(c, b - c.base) ELSE mem[b]]
      /\ idx' = [idx EXCEPT ![t] = idx[t] + w]
      /\ pc' = [pc EXCEPT ![t] = s]
      /\ UNCHANGED <<csMutex, jumptable, patches, cur>>
  BY DEF EmitStore, Become
<1>1. csMutex = t /\ \A u \in Threads : u # t => pc[u] \notin Critical
  BY <1>0, Alone DEF Critical
<1>2. /\ IsBlock(c) /\ c \in patches
      /\ idx[t] \in 0 .. c.len - 1 /\ Aligned(c, idx[t])
      /\ \A a \in Span(c) : mem[a] = IF a >= a0 THEN Orig ELSE PatchByte(c, a - c.base)
  BY <1>0 DEF Hand, Emitting, HandByte
<1>3. c \in Chunk /\ c.base \in Nat /\ c.len \in Nat /\ Span(c) \subseteq Addr
  BY <1>2, BlockFacts
<1>4. w \in Nat \ {0} /\ idx[t] + w <= c.len /\ Aligned(c, idx[t] + w)
  BY <1>2, StoreFacts
<1>5. \A b \in Int : PatchByte(c, b - c.base) \in Cells /\ PatchByte(c, b - c.base) # Orig
  BY <1>3, PatchByteFacts
<1>6. CoreType'
  <2>1. \A b \in Addr : b \in Int
    BY StartType, SizeAssumption DEF Addr
  <2>2. mem' \in [Addr -> Cells]
    BY <1>0, <1>5, <2>1 DEF CoreType
  <2>3. s \in Pc
    BY DEF Pc
  <2>4. QED BY <1>0, <2>2, <2>3 DEF CoreType
<1>7. pc'[t] = s /\ idx'[t] = idx[t] + w /\ cur' = cur
      /\ \A u \in Threads : u # t => pc'[u] = pc[u]
  BY <1>0 DEF CoreType
<1>8. MutualExclusion'
  BY <1>0, <1>1, <1>7 DEF MutualExclusion, InCritical, Critical
<1>9. a0 .. a0 + w - 1 \subseteq Span(c)
  BY <1>2, <1>3, <1>4 DEF Span
<1>10. ASSUME NEW a \in Span(c)
       PROVE  mem'[a] = IF a >= a0 + w THEN Orig ELSE PatchByte(c, a - c.base)
  BY <1>0, <1>2, <1>3, <1>4 DEF Span
<1>11. (idx[t] + w = c.len) => \A a \in Span(c) : mem'[a] = PatchByte(c, a - c.base)
  BY <1>2, <1>3, <1>4, <1>10 DEF Span
<1>12. ASSUME NEW a \in Addr, a \notin Span(c) PROVE mem'[a] = mem[a]
  BY <1>0, <1>9, <1>12
<1>13. Hand(t)'
  <2>1. CASE s = "write"
    <3>1. idx[t] + w \in 0 .. c.len - 1
      BY <1>2, <1>3, <1>4, <2>1
    <3>2. c.base + (idx[t] + w) = a0 + w
      BY <1>2, <1>3, <1>4
    <3>3. QED
      BY <1>2, <1>4, <1>7, <1>10, <2>1, <3>1, <3>2, <1>0 DEF Hand, HandByte, Span
  <2>2. CASE s = "add"
    <3>1. idx[t] + w = c.len /\ ~c.far
      BY <1>2, <1>3, <1>4, <2>2
    <3>2. QED
      BY <1>0, <1>2, <1>7, <1>11, <2>2, <3>1 DEF Hand, HandByte, Span
  <2>3. CASE s = "unlock"
    BY <1>7, <2>3 DEF Hand, Emitting
  <2>4. QED BY <2>1, <2>2, <2>3
<1>14. \A u \in Threads : Hand(u)'
  BY <1>1, <1>7, <1>13 DEF Hand, Emitting, Critical
<1>15. \A d : d # c => ~Writing(d) /\ ~Writing(d)'
  BY <1>1, <1>7 DEF Writing, Critical
<1>16. ASSUME NEW d \in patches, ~Writing(d)'
       PROVE  /\ \A a \in Span(d) : mem'[a] = PatchByte(d, a - d.base)
              /\ ~d.far => jumptable[returnAddress(d)] = d
  <2>1. CASE d = c
    <3>1. s = "unlock" /\ c.far
      BY <1>7, <1>16, <2>1 DEF Writing
    <3>2. idx[t] + w = c.len
      BY <1>2, <1>3, <1>4, <3>1
    <3>3. QED BY <1>11, <2>1, <3>1, <3>2
  <2>2. CASE d # c
    <3>1. Span(d) \subseteq Addr /\ Span(d) \cap Span(c) = {}
      BY <1>2, <2>2, BlockFacts DEF PatchesDisjoint
    <3>2. QED BY <1>12, <1>15, <2>2, <3>1 DEF PatchComplete
  <2>3. QED BY <2>1, <2>2
<1>17. PatchComplete'
  BY <1>0, <1>16 DEF PatchComplete, Span, returnAddress
<1>18. RewritesConfined'
  BY <1>0, <1>2, <1>12 DEF RewritesConfined, Span
<1>19. (\A d \in patches : IsBlock(d))' /\ PatchesDisjoint' /\ TableInv'
  BY <1>0 DEF PatchesDisjoint, TableInv, Span, returnAddress
<1>20. QED BY <1>6, <1>8, <1>14, <1>17, <1>18, <1>19

LEMMA JumptableAddBeginIInv ==
  ASSUME IInv, NEW t \in Threads, JumptableAddBegin(t)
  PROVE  IInv'
<1> USE DEF IInv, JumptableAddBegin, Become
<1>1. CoreType'
  BY DEF CoreType, Pc
<1>2. pc[t] = "add" /\ pc'[t] = "adding" /\ \A u \in Threads : u # t => pc'[u] = pc[u]
  BY DEF CoreType
<1>3. MutualExclusion'
  BY <1>2 DEF MutualExclusion, InCritical
<1>4. \A u \in Threads : Hand(u)'
  BY <1>2 DEF Hand, Emitting, HandByte, Span
<1>5. \A d : Writing(d)' <=> Writing(d)
  BY <1>2 DEF Writing
<1>6. PatchComplete'
  BY <1>5 DEF PatchComplete, Span, returnAddress
<1>7. (\A d \in patches : IsBlock(d))' /\ PatchesDisjoint' /\ RewritesConfined' /\ TableInv'
  BY DEF PatchesDisjoint, RewritesConfined, TableInv, Span, returnAddress
<1>8. QED BY <1>1, <1>3, <1>4, <1>6, <1>7

LEMMA JumptableAddEndIInv ==
  ASSUME IInv, NEW t \in Threads, JumptableAddEnd(t)
  PROVE  /\ IInv'
         /\ \A a \in Addr : jumptable[a] # NULL => jumptable'[a] = jumptable[a]
<1> USE DEF IInv, JumptableAddEnd, Become
<1> DEFINE c == cur[t]
<1>1. csMutex = t /\ \A u \in Threads : u # t => pc[u] \notin Critical
  BY Alone DEF Critical
<1>2. /\ IsBlock(c) /\ c \in patches /\ ~c.far
      /\ \A a \in Span(c) : mem[a] = PatchByte(c, a - c.base)
  BY DEF Hand, Emitting, HandByte
<1>3. returnAddress(c) \in Span(c) /\ Span(c) \subseteq Addr
  BY <1>2, BlockFacts
<1>4. jumptable' = [jumptable EXCEPT ![returnAddress(c)] = c]
  BY DEF returnAddress
<1>5. \A a \in Addr : jumptable'[a] = IF a = returnAddress(c) THEN c ELSE jumptable[a]
  BY <1>3, <1>4 DEF CoreType
<1>6. CoreType'
  BY <1>4 DEF CoreType, Pc
<1>7. pc'[t] = "unlock" /\ \A u \in Threads : u # t => pc'[u] = pc[u]
  BY DEF CoreType
<1>8. MutualExclusion'
  BY <1>7 DEF MutualExclusion, InCritical
<1>9. \A u \in Threads : Hand(u)'
  BY <1>1, <1>7 DEF Hand, Emitting, Critical
<1>10. \A d : d # c => ~Writing(d)
  BY <1>1 DEF Writing, Critical
<1>11. \A d \in patches : d # c => returnAddress(d) # returnAddress(c)
  BY <1>2, <1>3, BlockFacts DEF PatchesDisjoint
<1>12. \A d \in patches : returnAddress(d) \in Addr
  BY BlockFacts
<1>13. PatchComplete'
  BY <1>2, <1>5, <1>10, <1>11, <1>12 DEF PatchComplete, Span, returnAddress
<1>14. TableInv'
  BY <1>2, <1>5 DEF TableInv, returnAddress
<1>15. (\A d \in patches : IsBlock(d))' /\ PatchesDisjoint' /\ RewritesConfined'
  BY DEF PatchesDisjoint, RewritesConfined, Span
<1>16. IInv'
  BY <1>6, <1>8, <1>9, <1>13, <1>14, <1>15
<1>17. \A a \in Addr : jumptable[a] # NULL => jumptable'[a] = jumptable[a]
  BY <1>5, <1>11 DEF TableInv
<1>18. QED BY <1>16, <1>17

(* Steps that change none of the variables the invariant is about.         *)
LEMMA StutterIInv ==
  ASSUME IInv, UNCHANGED <<mem, csMutex, jumptable, patches, pc, cur, idx>>
  PROVE  IInv'
<1> USE DEF IInv
<1>1. CoreType' /\ MutualExclusion' /\ \A t \in Threads : Hand(t)'
  BY DEF CoreType, MutualExclusion, InCritical, Hand, HandByte, Span
<1>2. \A d : Writing(d)' <=> Writing(d)
  BY DEF Writing
<1>3. (\A d \in patches : IsBlock(d))' /\ PatchesDisjoint' /\ PatchComplete'
      /\ RewritesConfined' /\ TableInv'
  BY <1>2 DEF PatchesDisjoint, PatchComplete, RewritesConfined, TableInv,
              Span, returnAddress
<1>4. QED BY <1>1, <1>3

LEMMA ApplicationQuiet ==
  ASSUME IInv, NEW t \in Threads, Application(t)
  PROVE  Quiet(t)
<1> USE DEF IInv, CoreType, Become, Critical, Pc, Quiet
<1>1. ASSUME NEW i \in Instrs, NativeInstr(t, i) PROVE Quiet(t)
  BY <1>1 DEF NativeInstr
<1>2. ASSUME NEW i \in Instrs, Sigill(t, i) PROVE Quiet(t)
  BY <1>2 DEF Sigill
<1>3. CASE Sigtrap(t)
  BY <1>3 DEF Sigtrap
<1>4. CASE Nop(t)
  BY <1>4 DEF Nop
<1>5. CASE JumpShort(t)
  BY <1>5 DEF JumpShort
<1>6. CASE JumpLong(t)
  BY <1>6 DEF JumpLong
<1>7. CASE TrampolinePush(t)
  BY <1>7 DEF TrampolinePush
<1>8. CASE TrampolineMov(t)
  <2>1. pc[t] = "run" /\ UNCHANGED <<mem, csMutex, jumptable, patches, pc, cur, idx>>
    BY <1>8 DEF TrampolineMov
  <2>2. QED BY <2>1
<1>9. CASE TrampolineJump(t)
  <2>1. \E c, k : EnterChunk(t, c) /\ cur' = [cur EXCEPT ![t] = c]
                 /\ idx' = [idx EXCEPT ![t] = k]
    BY <1>9 DEF TrampolineJump, EnterChunk
  <2>2. pc' = [pc EXCEPT ![t] = "chunk"]
    BY <2>1 DEF EnterChunk
  <2>3. QED BY <1>9, <2>1, <2>2 DEF TrampolineJump
<1>10. CASE TrampolinePop(t)
  BY <1>10 DEF TrampolinePop
<1>11. CASE Derail(t)
  BY <1>11 DEF Derail, thread
<1>12. CASE Finish(t)
  BY <1>12 DEF Finish
<1>13. QED
  BY <1>1, <1>2, <1>3, <1>4, <1>5, <1>6, <1>7, <1>8, <1>9, <1>10, <1>11, <1>12
  DEF Application

LEMMA ChunksQuiet ==
  ASSUME IInv, NEW t \in Threads, Chunks(t)
  PROVE  Quiet(t)
<1> USE DEF IInv, CoreType, Become, Critical, Pc, Quiet
<1>1. CASE ChunkPop(t)
  BY <1>1 DEF ChunkPop
<1>2. CASE ChunkInstr(t)
  BY <1>2 DEF ChunkInstr
<1>3. CASE ChunkPush(t)
  BY <1>3 DEF ChunkPush
<1>4. CASE ChunkMov(t)
  BY <1>4 DEF ChunkMov
<1>5. CASE ChunkJump(t)
  BY <1>5 DEF ChunkJump
<1>6. CASE ChunkRet(t)
  BY <1>6 DEF ChunkRet
<1>7. QED BY <1>1, <1>2, <1>3, <1>4, <1>5, <1>6 DEF Chunks

LEMMA HandlerIInv ==
  ASSUME IInv, NEW t \in Threads, Handler(t)
  PROVE  IInv'
<1>1. CASE ReencodeLock(t)
  <2>1. \A u \in Threads : pc[u] \notin Critical
    BY <1>1, ThreadAssumption
    DEF ReencodeLock, IInv, MutualExclusion, InCritical, Critical
  <2>2. QED
    BY <1>1, <2>1, MoveIInv, "decode" \in Pc DEF ReencodeLock, Become, Critical, Emitting, Pc
<1>2. CASE DecodeNopTrap(t)
  BY <1>2, Alone, MoveIInv, "unlock" \in Pc DEF DecodeNopTrap, Become, Critical, Emitting, Pc
<1>3. CASE ReencodeReturn(t)
  BY <1>3, Alone, MoveIInv, "run" \in Pc DEF ReencodeReturn, Become, Critical, Emitting, Pc
<1>4. CASE DecodeUnsupported(t)
  BY <1>4, StutterIInv DEF DecodeUnsupported, thread
<1>5. CASE DecodeGarbage(t)
  BY <1>5, StutterIInv DEF DecodeGarbage, thread
<1>6. ASSUME NEW i \in Instrs, NEW n \in 1 .. MaxBlock, DecodeBlock(t, i, n)
      PROVE  IInv'
  BY <1>6, DecodeBlockIInv
<1>7. CASE EmitChunk(t)
  BY <1>7, EmitChunkIInv
<1>8. CASE EmitStore(t)
  BY <1>8, EmitStoreIInv
<1>9. CASE JumptableAddBegin(t)
  BY <1>9, JumptableAddBeginIInv
<1>10. CASE JumptableAddEnd(t)
  BY <1>10, JumptableAddEndIInv
<1>11. CASE SigtrapFound(t)
  <2>1. pc' = [pc EXCEPT ![t] = "chunk"]
        /\ \E c, k : cur' = [cur EXCEPT ![t] = c] /\ idx' = [idx EXCEPT ![t] = k]
    BY <1>11 DEF SigtrapFound, EnterChunk, Become
  <2>2. Quiet(t)
    BY <1>11, <2>1 DEF SigtrapFound, Quiet, Critical, Pc
  <2>3. QED BY <2>2, QuietIInv
<1>12. CASE SigtrapMissing(t)
  <2>1. Quiet(t)
    BY <1>12 DEF SigtrapMissing, Quiet, Become, Critical, Pc, IInv, CoreType
  <2>2. QED BY <2>1, QuietIInv
<1>13. QED
  BY <1>1, <1>2, <1>3, <1>4, <1>5, <1>6, <1>7, <1>8, <1>9, <1>10, <1>11, <1>12
  DEF Handler

LEMMA OutsideIInv ==
  ASSUME IInv, NEW t \in Threads, Outside(t)
  PROVE  IInv'
<1>1. CASE EmitFails(t)
  BY <1>1, StutterIInv DEF EmitFails, thread
<1>2. ASSUME NEW u \in Threads, MapRace(t, u) PROVE IInv'
  BY <1>2, StutterIInv DEF MapRace, thread
<1>3. CASE KeyPress(t)
  <2>1. Quiet(t)
    BY <1>3 DEF KeyPress, Quiet, Become, Critical, Pc, IInv, CoreType
  <2>2. QED BY <2>1, QuietIInv
<1>4. ASSUME NEW e \in Entries, Restart(t, e) PROVE IInv'
  <2>1. pc[t] = "done" /\ pc' = [pc EXCEPT ![t] = "run"]
        /\ UNCHANGED <<mem, csMutex, jumptable, patches, cur, idx>>
    BY <1>4 DEF Restart, Become
  <2>2. /\ pc[t] \notin Critical /\ "run" \in Pc \ Critical
        /\ cur' = [cur EXCEPT ![t] = cur[t]] /\ idx' = [idx EXCEPT ![t] = idx[t]]
    BY <1>4, <2>1 DEF Critical, Pc, IInv, CoreType
  <2>3. Quiet(t)
    BY <2>1, <2>2 DEF Quiet
  <2>4. QED BY <1>4, <2>3, QuietIInv
<1>5. QED BY <1>1, <1>2, <1>3, <1>4 DEF Outside

LEMMA NextIInv == IInv /\ [Next]_vars => IInv'
<1>1. ASSUME IInv, NEW t \in Threads,
             Application(t) \/ Chunks(t) \/ Handler(t) \/ Outside(t)
      PROVE  IInv'
  BY <1>1, ApplicationQuiet, ChunksQuiet, QuietIInv, HandlerIInv, OutsideIInv
<1>2. ASSUME IInv, UNCHANGED vars PROVE IInv'
  BY <1>2, StutterIInv DEF vars, thread
<1>3. QED BY <1>1, <1>2 DEF Next

-----------------------------------------------------------------------------
(***************************************************************************)
(* Theorems.                                                               *)
(***************************************************************************)

(* The inductive invariant is an invariant of the rewriter.                *)
THEOREM SpecIInv == Spec => []IInv
  BY InitIInv, NextIInv, PTL DEF Spec

(* csMutex serialises decoding, emitting and the table update, for any     *)
(* number of threads and on every path through reencodeInstruction.        *)
THEOREM SpecMutualExclusion == Spec => []MutualExclusion
<1>1. IInv => MutualExclusion
  BY DEF IInv
<1>2. QED BY <1>1, SpecIInv, PTL

(* Blocks never overlap, for any program, any entries into it and any      *)
(* order of traps.                                                         *)
THEOREM SpecPatchesDisjoint == Spec => []PatchesDisjoint
<1>1. IInv => PatchesDisjoint
  BY DEF IInv
<1>2. QED BY <1>1, SpecIInv, PTL

(* A block that emitInstructions has finished stays as it was written, and *)
(* its INT3 resolves to its chunk, for ever.                               *)
THEOREM SpecPatchComplete == Spec => []PatchComplete
<1>1. IInv => PatchComplete
  BY DEF IInv
<1>2. QED BY <1>1, SpecIInv, PTL

(* Code outside the decoded blocks is never written.                       *)
THEOREM SpecRewritesConfined == Spec => []RewritesConfined
<1>1. IInv => RewritesConfined
  BY DEF IInv
<1>2. QED BY <1>1, SpecIInv, PTL

(* A resolved INT3 is never resolved differently.                          *)
THEOREM SpecJumptableStable == Spec => JumptableStable
<1> DEFINE Stable == \A a \in Addr : jumptable[a] # NULL => jumptable'[a] = jumptable[a]
<1>1. IInv /\ [Next]_vars => [Stable]_vars
  <2> SUFFICES ASSUME IInv, Next PROVE Stable
    OBVIOUS
  <2>1. PICK t \in Threads : Application(t) \/ Chunks(t) \/ Handler(t) \/ Outside(t)
    BY DEF Next
  <2>2. CASE JumptableAddEnd(t)
    BY <2>2, JumptableAddEndIInv
  <2>3. CASE Application(t) \/ Chunks(t)
    BY <2>3, ApplicationQuiet, ChunksQuiet DEF Quiet
  <2>4. CASE Outside(t)
    BY <2>4 DEF Outside, EmitFails, KeyPress, MapRace, Restart
  <2>5. CASE Handler(t) /\ ~JumptableAddEnd(t)
    BY <2>5 DEF Handler, ReencodeLock, DecodeNopTrap, DecodeUnsupported, DecodeGarbage,
       DecodeBlock, EmitChunk, EmitStore, JumptableAddBegin, ReencodeReturn,
       SigtrapFound, SigtrapMissing
  <2>6. QED BY <2>1, <2>2, <2>3, <2>4, <2>5
<1>2. QED BY <1>1, SpecIInv, PTL DEF Spec, JumptableStable

(* No block is ever compiled a second time: what a thread has decoded      *)
(* under csMutex is original code, and a finished patch has none of it.    *)
THEOREM SpecCompiledOnce == Spec => CompiledOnce
<1> DEFINE Once == \A t \in Threads :
                     pc[t] = "emit" /\ pc'[t] = "write" => cur[t] \notin patches
<1>1. ASSUME IInv, NEW t \in Threads, pc[t] = "emit" PROVE cur[t] \notin patches
  <2>1. IsBlock(cur[t]) /\ \A a \in Span(cur[t]) : mem[a] = Orig
    BY <1>1 DEF IInv, Hand, Emitting, HandByte
  <2>2. cur[t].base \in Span(cur[t]) /\ cur[t] \in Chunk /\ cur[t].base \in Nat
    BY <2>1, BlockFacts
  <2>3. ~Writing(cur[t])
    BY <1>1, ThreadAssumption DEF IInv, MutualExclusion, InCritical, Writing
  <2>4. mem[cur[t].base] # PatchByte(cur[t], cur[t].base - cur[t].base)
    BY <2>1, <2>2, PatchByteFacts
  <2>5. QED BY <1>1, <2>2, <2>3, <2>4 DEF IInv, PatchComplete
<1>2. IInv => [Once]_vars
  BY <1>1
<1>3. QED BY <1>2, SpecIInv, PTL DEF CompiledOnce

===============================================================================
