------------------------------ MODULE ClaimProofs ------------------------------
(***************************************************************************)
(* What is known of the CPU between two emitted instructions, whatever the *)
(* values it holds: where RSP is, which values of the application are in   *)
(* registers and on the stack, and where memory has been written.  One     *)
(* lemma for each kind of emitted instruction; emitted code is Tracked     *)
(* from what is known before it to what is known after it.                 *)
(***************************************************************************)
EXTENDS StackProofs

(* Ops that do not write their first operand.                              *)
Special == Pushes \cup Pops \cup {"CALL", "JMP"}

(* A value that is what its halves make up, on the stack and off it again. *)
Whole64(v) == Whole(Half(v, 0), Half(v, 1)) = v

(* The stack, k bytes on from the application's RSP.                       *)
Stk(k) == <<"gpr", <<Sym("n", RSP.n)>>, k>>

(***************************************************************************)
(* A state S of emitted code:                                              *)
(*   offset   how far RSP is from the application's                        *)
(*   regs     of each general register, the values it is known to hold     *)
(*   words    of each 64-bit word of the stack, by its distance from the   *)
(*            application's RSP, the values it is known to hold            *)
(*   dest     the lanes of memory the block may write                      *)
(*   rip      the address of the next instruction of the block             *)
(*   target   the values the target of the last jump is known to be        *)
(*   sure     whether anything but offset is known at all                  *)
(* Only words at RSP and above it are kept.                                *)
(***************************************************************************)
Level(S) == S.offset \in Int /\ S.offset <= 0 /\ Whole64(S.rip) /\ S.sure \in BOOLEAN

GprClaims(m, S) == \A n \in Gprs \ {RSP.n} : \A v \in S.regs[n] : m.gpr[n] = v /\ Whole64(v)

HoldsWord(mem, k, v) ==
  Whole64(v) /\ Lane(mem, Stk(k)) = Half(v, 0) /\ Lane(mem, Stk(k + 4)) = Half(v, 1)
WordClaims(mem, S) == \A k \in Int : k >= S.offset => \A v \in S.words[k] : HoldsWord(mem, k, v)

Allowed(S, a) == InStorage(a) \/ IsMember(a) \/ OnStack(a) \/ a \in S.dest
Confined(mem, S) == \A a \in DOMAIN mem : Allowed(S, a)

Claims(m, S) ==
  S.sure => /\ GprClaims(m, S) /\ WordClaims(m.mem, S) /\ Confined(m.mem, S)
            /\ \A v \in S.target : m.target = v

Sat(m, S) == RspAt(m, S.offset) /\ Claims(m, S)

(* A lane that may be written and is in no word that is known.             *)
InWord(S, a) == \E k \in Int : k >= S.offset /\ S.words[k] # {} /\ a \in {Stk(k), Stk(k + 4)}
Free(S, a) == Allowed(S, a) /\ ~InWord(S, a)

(* Wherever the operand is, it may be written.                             *)
Lands(S, o) == \A m : Sat(m, S) => \A j \in {0, 4, 8, 12} : Free(S, At(EA(m, o), j))

(* A register of which nothing is known.                                   *)
Bare(S, n) == S.sure /\ n \in Gprs => S.regs[n] = {}

(* Emitted with this first operand, op writes nothing that is known.       *)
Emits(S, op, o) ==
  /\ NotRsp(o) /\ op \notin Special
  /\ op \in Integer => NotGprRsp(o)
  /\ S.sure => /\ isMemoryOperand(o) => /\ op # "MOV" /\ Lands(S, o)
                                        /\ o.width \in {8, 16, 32, 64, 128}
               /\ ~isMemoryOperand(o) /\ isXmm(o) => op \notin Integer
               /\ ~isMemoryOperand(o) /\ ~isXmm(o) => Bare(S, o.reg.n)

-----------------------------------------------------------------------------
(***************************************************************************)
(* Memory.                                                                 *)
(***************************************************************************)
LEMMA AtStk == ASSUME NEW k \in Int, NEW d \in Int PROVE At(Stk(k), d) = Stk(k + d)
BY DEF At, Stk

LEMMA StkSame == ASSUME NEW j, NEW k, Stk(j) = Stk(k) PROVE j = k
BY DEF Stk

LEMMA StkOnStack == ASSUME NEW k \in Int, k < 0 PROVE OnStack(Stk(k))
<1>1. Application.gpr[RSP.n] = Stk(0)
  BY RspFacts DEF Application, Stk
<1>2. k + (-k) = 0 /\ -k \in Int
  OBVIOUS
<1> DEFINE a == Stk(k)
<1>3. a[3] = k
  BY DEF Stk
<1>4. At(a, -k) = Stk(0)
  BY <1>2, AtStk
<1> HIDE DEF a
<1>5. OnStack(a)
  BY <1>1, <1>3, <1>4 DEF OnStack
<1>6. QED BY <1>5 DEF a

LEMMA StoreDomain ==
  ASSUME NEW mem, NEW a, NEW v
  PROVE  /\ DOMAIN Store(mem, a, v) = {At(a, 4 * (i - 1)) : i \in 1 .. Len(v)} \cup DOMAIN mem
         /\ \A x : x \notin {At(a, 4 * (i - 1)) : i \in 1 .. Len(v)}
                   => Lane(Store(mem, a, v), x) = Lane(mem, x)
BY DEF Store, Lane

LEMMA FewLanes ==
  ASSUME NEW a, NEW v, Len(v) \in 0 .. 4
  PROVE  {At(a, 4 * (i - 1)) : i \in 1 .. Len(v)} \subseteq {At(a, j) : j \in {0, 4, 8, 12}}
<1>1. \A i \in 1 .. 4 : 4 * (i - 1) \in {0, 4, 8, 12}
  OBVIOUS
<1> DEFINE n == Len(v)
<1>2. n \in 0 .. 4
  OBVIOUS
<1> HIDE DEF n
<1>3. \A i \in 1 .. n : i \in 1 .. 4
  BY <1>2
<1>4. QED BY <1>1, <1>3 DEF n

(* A word is kept by what is stored outside it.                            *)
LEMMA StoreKeeps ==
  ASSUME NEW S, NEW mem, NEW a, NEW v, Len(v) \in 0 .. 4,
         \A j \in {0, 4, 8, 12} : Free(S, At(a, j)), WordClaims(mem, S), Confined(mem, S)
  PROVE  WordClaims(Store(mem, a, v), S) /\ Confined(Store(mem, a, v), S)
<1> DEFINE lanes == {At(a, 4 * (i - 1)) : i \in 1 .. Len(v)}
<1>1. \A x \in lanes : Free(S, x)
  BY FewLanes
<1>2. DOMAIN Store(mem, a, v) = lanes \cup DOMAIN mem
  BY StoreDomain
<1>3. \A x : x \notin lanes => Lane(Store(mem, a, v), x) = Lane(mem, x)
  BY StoreDomain
<1> HIDE DEF lanes
<1>4. Confined(Store(mem, a, v), S)
  BY <1>1, <1>2 DEF Confined, Free
<1>5. ASSUME NEW k \in Int, k >= S.offset, NEW w \in S.words[k]
      PROVE  HoldsWord(Store(mem, a, v), k, w)
  <2>1. Stk(k) \notin lanes /\ Stk(k + 4) \notin lanes
    BY <1>1, <1>5 DEF Free, InWord
  <2>2. HoldsWord(mem, k, w)
    BY <1>5 DEF WordClaims
  <2>3. QED BY <1>3, <2>1, <2>2 DEF HoldsWord
<1>6. QED BY <1>4, <1>5 DEF WordClaims

-----------------------------------------------------------------------------
(***************************************************************************)
(* An instruction that writes its first operand.                           *)
(***************************************************************************)
LEMMA SameClaims ==
  ASSUME NEW S, NEW m, NEW w, Claims(m, S), w.gpr = m.gpr, w.mem = m.mem, w.target = m.target
  PROVE  Claims(w, S)
BY DEF Claims, GprClaims

LEMMA SetGprClaims ==
  ASSUME NEW S, NEW m, Cpu(m), Claims(m, S), NEW r, Bare(S, r.n), NEW v
  PROVE  Claims(SetGpr(m, r, v), S)
<1> DEFINE x == IF r.class = "r32" THEN ZeroExtend(Half(v, 0)) ELSE v
           w == [m EXCEPT !.gpr[r.n] = x]
<1>1. SetGpr(m, r, v) = w
  BY DEF SetGpr
<1> HIDE DEF x
<1>2. w.mem = m.mem /\ w.target = m.target
  BY DEF Cpu
<1>3. \A n \in Gprs : n # r.n => w.gpr[n] = m.gpr[n]
  BY DEF Cpu
<1> HIDE DEF w
<1>4. ASSUME S.sure PROVE GprClaims(w, S)
  <2>1. GprClaims(m, S)
    BY <1>4 DEF Claims
  <2>2. SUFFICES ASSUME NEW n \in Gprs \ {RSP.n}, NEW u \in S.regs[n]
                 PROVE  w.gpr[n] = u /\ Whole64(u)
    BY DEF GprClaims
  <2>3. n # r.n
    BY <1>4, <2>2 DEF Bare
  <2>4. m.gpr[n] = u /\ Whole64(u)
    BY <2>1, <2>2 DEF GprClaims
  <2>5. QED BY <1>3, <2>2, <2>3, <2>4
<1>5. S.sure => WordClaims(w.mem, S) /\ Confined(w.mem, S) /\ \A u \in S.target : w.target = u
  BY <1>2 DEF Claims
<1>6. Claims(w, S)
  BY <1>4, <1>5 DEF Claims
<1>7. QED BY <1>1, <1>6

LEMMA StoreClaims ==
  ASSUME NEW S, NEW m, Cpu(m), Claims(m, S), NEW a, NEW v, Len(v) \in 0 .. 4,
         S.sure => \A j \in {0, 4, 8, 12} : Free(S, At(a, j))
  PROVE  Claims([m EXCEPT !.mem = Store(m.mem, a, v)], S)
<1> DEFINE stored == Store(m.mem, a, v)
           w == [m EXCEPT !.mem = stored]
<1>1. S.sure => WordClaims(stored, S) /\ Confined(stored, S)
  BY StoreKeeps DEF Claims
<1> HIDE DEF stored
<1>2. w.mem = stored /\ w.gpr = m.gpr /\ w.target = m.target
  BY DEF Cpu
<1> HIDE DEF w
<1>3. Claims(w, S)
  BY <1>1, <1>2 DEF Claims, GprClaims
<1>4. QED BY <1>3 DEF w, stored

(* Put, of at most four lanes.                                             *)
LEMMA PutClaims ==
  ASSUME NEW S, NEW m, Cpu(m), Sat(m, S), NEW op, NEW o, Emits(S, op, o), NEW lanes,
         isMemoryOperand(o) => Len(lanes) \in 0 .. 4
  PROVE  Claims(Put(m, o, lanes), S)
<1>0. Claims(m, S)
  BY DEF Sat
<1>1. CASE isMemoryOperand(o)
  <2> DEFINE a == EA(m, o)
             one == <<"narrow", <<Lane(m.mem, a), lanes[1]>>, o.width>>
             v == IF o.width < 32 THEN <<one>> ELSE lanes
  <2>1. Len(v) \in 0 .. 4
    <3> HIDE DEF one
    <3>1. Len(<<one>>) = 1
      OBVIOUS
    <3>2. QED BY <1>1, <3>1
  <2>2. Put(m, o, lanes) = [m EXCEPT !.mem = Store(m.mem, a, v)]
    BY <1>1 DEF Put, Emits, NotRsp
  <2> HIDE DEF v
  <2>3. S.sure => \A j \in {0, 4, 8, 12} : Free(S, At(a, j))
    BY <1>1 DEF Emits, Lands
  <2> HIDE DEF a
  <2>4. QED BY <1>0, <2>1, <2>2, <2>3, StoreClaims
<1>2. CASE ~isMemoryOperand(o) /\ isXmm(o)
  <2> DEFINE w == [m EXCEPT !.xmm[o.reg.n] = lanes]
  <2>1. Put(m, o, lanes) = w
    BY <1>2 DEF Put
  <2>2. w.gpr = m.gpr /\ w.mem = m.mem /\ w.target = m.target
    BY DEF Cpu
  <2> HIDE DEF w
  <2>3. QED BY <1>0, <2>1, <2>2, SameClaims
<1>3. CASE ~isMemoryOperand(o) /\ ~isXmm(o)
  <2>1. \E v : Put(m, o, lanes) = SetGpr(m, o.reg, v)
    BY <1>3 DEF Put
  <2>2. S.sure => Bare(S, o.reg.n)
    BY <1>3 DEF Emits
  <2>3. Bare(S, o.reg.n)
    BY <2>2 DEF Bare
  <2>4. QED BY <1>0, <2>1, <2>3, SetGprClaims
<1>4. QED BY <1>1, <1>2, <1>3

LEMMA FourLanes == \A m, o : Len(Lanes32(m, o, 4)) \in 0 .. 4
<1> TAKE m, o
<1>1. \A f : Len([k \in 1 .. 4 |-> f[k]]) = 4
  OBVIOUS
<1>2. Len(<<o.imm>>) = 1
  OBVIOUS
<1>3. \A mem, a : Len(Lanes(mem, a, 4)) = 4
  BY DEF Lanes
<1>4. \/ Lanes32(m, o, 4) = Lanes(m.mem, EA(m, o), 4)
      \/ Lanes32(m, o, 4) = <<o.imm>>
      \/ Lanes32(m, o, 4) = [k \in 1 .. 4 |-> m.xmm[o.reg.n][k]]
      \/ Lanes32(m, o, 4) = [k \in 1 .. 4 |-> Half(RegVal(m, o.reg), k - 1)]
  BY DEF Lanes32
<1>5. Len([k \in 1 .. 4 |-> m.xmm[o.reg.n][k]]) = 4
  OBVIOUS
<1>6. Len([k \in 1 .. 4 |-> Half(RegVal(m, o.reg), k - 1)]) = 4
  OBVIOUS
<1>7. QED BY <1>2, <1>3, <1>4, <1>5, <1>6

LEMMA ExtractedLen ==
  ASSUME NEW op, NEW s, Len(s) \in 0 .. 4, NEW imm
  PROVE  Len(Extracted(op, s, imm)) \in 0 .. 4
<1>1. \A x, y : Len(<<x>>) = 1 /\ Len(<<x, y>>) = 2
  OBVIOUS
<1>2. \/ \E x : Extracted(op, s, imm) = <<x>>
      \/ \E x, y : Extracted(op, s, imm) = <<x, y>>
      \/ Extracted(op, s, imm) = s
  BY DEF Extracted
<1>3. QED BY <1>1, <1>2

LEMMA EmitsTame ==
  ASSUME NEW S, NEW r, Emits(S, r.op, r.args[1])
  PROVE  Tame(r) /\ ~MovesRsp(r) /\ Displacement(r) = 0
<1>1. Tame(r)
  BY DEF Tame, Emits
<1>2. ~MovesRsp(r)
  BY DEF MovesRsp, Emits, Integer, Alu, NotGprRsp
<1>3. Displacement(r) = 0
  BY <1>2 DEF Displacement, Emits, Special
<1>4. QED BY <1>1, <1>2, <1>3

(* What was known stays known.                                             *)
LEMMA WriteKeeps ==
  ASSUME NEW S, Level(S), NEW m, Sat(m, S), NEW r, Emits(S, r.op, r.args[1]), ~Faults(m, r)
  PROVE  Sat(Exec(m, r), S)
<1> DEFINE a == r.args
           k == S.offset
<1>1. Exec(m, r) = Executed(m, r)
  BY DEF Exec
<1>2. r.op \notin {"PUSH", "PUSHF", "POP", "POPF", "CALL", "RET", "JMP"} /\ ~MovesRsp(r)
  BY EmitsTame DEF Emits, Special, Pushes, Pops
<1>3. RspAt(Exec(m, r), k)
  <2>1. RspAt(Exec(m, r), k + Displacement(r))
    BY EmitsTame, ExecMoves DEF Sat, Level
  <2>2. k + Displacement(r) = k
    BY EmitsTame DEF Level
  <2>3. QED BY <2>1, <2>2
<1>4. Cpu(m) /\ Claims(m, S)
  BY DEF Sat, RspAt
<1> SUFFICES ASSUME S.sure PROVE Claims(Exec(m, r), S)
  BY <1>3 DEF Sat, Claims
<1>5. /\ isMemoryOperand(a[1]) => r.op # "MOV" /\ a[1].width \in {8, 16, 32, 64, 128} /\ ~isXmm(a[1])
      /\ ~isMemoryOperand(a[1]) => (isXmm(a[1]) /\ r.op \notin Integer) \/ Bare(S, a[1].reg.n)
  BY DEF Emits, NotRsp
<1>6. CASE r.op = "MOV"
  <2>1. Exec(m, r) = SetGpr(m, a[1].reg, Val64(m, a[2]))
    BY <1>1, <1>2, <1>6 DEF Executed, Alu, Compares
  <2>2. Bare(S, a[1].reg.n)
    BY <1>5, <1>6 DEF Integer
  <2>3. QED BY <1>4, <2>1, <2>2, SetGprClaims
<1>7. CASE r.op \in Alu
  <2> DEFINE v == [i \in 1 .. Len(a) |-> Val64(m, a[i])]
             x == AluResult(r.op, AluClass(a[1]), v)
             set == SetAlu(m, a[1], x)
  <2>1. Exec(m, r) = [set EXCEPT !.flags = IF r.op = "NOT" THEN @ ELSE FlagsOf(r.op, v)]
    BY <1>1, <1>2, <1>7 DEF Executed, Alu, Compares
  <2> HIDE DEF v, x
  <2>2. RspAt(set, k)
    BY <1>7, SetAluKeeps DEF Emits, Integer, Sat
  <2>3. Claims(set, S)
    <3>1. CASE isMemoryOperand(a[1])
      <4> DEFINE n == a[1].width \div 32
                 lanes == [i \in 1 .. n |-> Half(x, i - 1)]
      <4>1. set = Put(m, a[1], lanes)
        BY <3>1 DEF SetAlu
      <4>2. n \in 0 .. 4
        BY <1>5, <3>1
      <4> HIDE DEF n
      <4>3. Len(lanes) \in 0 .. 4
        BY <4>2
      <4> HIDE DEF lanes, set
      <4>4. QED BY <1>4, <4>1, <4>3, PutClaims
    <3>2. CASE ~isMemoryOperand(a[1])
      <4>1. set = SetGpr(m, a[1].reg, x)
        BY <3>2 DEF SetAlu
      <4>2. Bare(S, a[1].reg.n)
        BY <1>5, <1>7, <3>2 DEF Integer
      <4>3. QED BY <1>4, <4>1, <4>2, SetGprClaims
    <3>3. QED BY <3>1, <3>2
  <2> HIDE DEF set
  <2>4. Exec(m, r).gpr = set.gpr /\ Exec(m, r).mem = set.mem /\ Exec(m, r).target = set.target
    BY <2>1, <2>2 DEF RspAt, Cpu
  <2>5. QED BY <2>3, <2>4, SameClaims
<1>8. CASE r.op \in Compares \cup {"LDMXCSR"}
  <2>1. \/ \E f : Exec(m, r) = [m EXCEPT !.flags = f]
        \/ \E f : Exec(m, r) = [m EXCEPT !.mxcsr = f]
    BY <1>1, <1>2, <1>8 DEF Executed, Alu, Compares
  <2>2. Exec(m, r).gpr = m.gpr /\ Exec(m, r).mem = m.mem /\ Exec(m, r).target = m.target
    BY <1>4, <2>1 DEF Cpu
  <2>3. QED BY <1>4, <2>2, SameClaims
<1>9. CASE r.op = "STMXCSR"
  <2> DEFINE lanes == <<m.mxcsr>>
  <2>1. Exec(m, r) = Put(m, a[1], lanes) /\ Len(lanes) = 1
    BY <1>1, <1>2, <1>9 DEF Executed, Alu, Compares
  <2> HIDE DEF lanes
  <2>2. QED BY <1>4, <2>1, PutClaims
<1>10. CASE r.op \notin {"MOV", "LDMXCSR", "STMXCSR"} \cup Alu \cup Compares
  <2>1. \E v : /\ Exec(m, r) = Put(m, a[1], v)
               /\ ~isXmm(a[1]) => \E imm : v = Extracted(r.op, Lanes32(m, a[2], 4), imm)
    BY <1>1, <1>2, <1>10 DEF Executed
  <2>2. PICK v : /\ Exec(m, r) = Put(m, a[1], v)
                 /\ ~isXmm(a[1]) => \E imm : v = Extracted(r.op, Lanes32(m, a[2], 4), imm)
    BY <2>1
  <2>3. isMemoryOperand(a[1]) => Len(v) \in 0 .. 4
    BY <1>5, <2>2, FourLanes, ExtractedLen
  <2>4. QED BY <1>4, <2>2, <2>3, PutClaims
<1>11. QED BY <1>6, <1>7, <1>8, <1>9, <1>10

-----------------------------------------------------------------------------
(***************************************************************************)
(* The stack.                                                              *)
(***************************************************************************)

(* S with other registers, and other words from RSP up.                    *)
Changed(S, offset, regs, words) ==
  [offset |-> offset, regs |-> regs, words |-> words, dest |-> S.dest, rip |-> S.rip,
   target |-> S.target, sure |-> S.sure]

(* A word is pushed of which V is known; register n is pushed, and nothing *)
(* is known of it until it is popped; room is made for an XMM register;    *)
(* V is what is known of register n.                                       *)
Above(S, V) == [k \in Int |-> IF k >= S.offset THEN S.words[k]
                              ELSE IF k = S.offset - 8 THEN V ELSE {}]
Without(S, n) == [x \in Gprs |-> IF x = n THEN {} ELSE S.regs[x]]
Pushed(S, V) == Changed(S, S.offset - 8, S.regs, Above(S, V))
Taken(S, n) == Changed(S, S.offset - 8, Without(S, n), Above(S, S.regs[n]))
Lowered(S) == Changed(S, S.offset - 16, S.regs, Above(S, {}))
Holding(S, n, V) ==
  Changed(S, S.offset, [x \in Gprs |-> IF x = n THEN V ELSE S.regs[x]], S.words)

LEMMA ChangedFields ==
  ASSUME NEW S, NEW offset, NEW regs, NEW words
  PROVE  LET T == Changed(S, offset, regs, words)
         IN  /\ T.offset = offset /\ T.regs = regs /\ T.words = words /\ T.dest = S.dest
             /\ T.rip = S.rip /\ T.target = S.target /\ T.sure = S.sure
BY DEF Changed

LEMMA AboveFields ==
  ASSUME NEW S, Level(S), NEW V
  PROVE  /\ \A k \in Int : k >= S.offset => Above(S, V)[k] = S.words[k]
         /\ Above(S, V)[S.offset - 8] = V
         /\ \A k \in Int : k < S.offset /\ k # S.offset - 8 => Above(S, V)[k] = {}
BY DEF Above, Level

(* What does not change along emitted code.                                *)
Same(S, T) == T.dest = S.dest /\ T.sure = S.sure

LEMMA ChangedLevel ==
  ASSUME NEW S, Level(S), NEW n, NEW V
  PROVE  /\ Level(Pushed(S, V)) /\ Level(Taken(S, n)) /\ Level(Lowered(S)) /\ Level(Holding(S, n, V))
         /\ Same(S, Pushed(S, V)) /\ Same(S, Taken(S, n)) /\ Same(S, Lowered(S))
         /\ Same(S, Holding(S, n, V))
<1> DEFINE k == S.offset
<1>1. k - 8 \in Int /\ k - 16 \in Int /\ k \in Int /\ k - 8 <= 0 /\ k - 16 <= 0 /\ k <= 0
  BY DEF Level
<1> HIDE DEF k
<1>2. ASSUME NEW offset \in Int, NEW regs, NEW words, offset <= 0
      PROVE  Level(Changed(S, offset, regs, words)) /\ Same(S, Changed(S, offset, regs, words))
  <2> DEFINE T == Changed(S, offset, regs, words)
  <2>1. T.offset = offset /\ T.rip = S.rip /\ T.sure = S.sure /\ T.dest = S.dest
    BY ChangedFields
  <2> HIDE DEF T
  <2>2. Level(T) /\ Same(S, T)
    BY <1>2, <2>1 DEF Level, Same
  <2>3. QED BY <2>2 DEF T
<1>3. Level(Pushed(S, V)) /\ Same(S, Pushed(S, V))
  BY <1>1, <1>2 DEF Pushed, k
<1>4. Level(Taken(S, n)) /\ Same(S, Taken(S, n))
  BY <1>1, <1>2 DEF Taken, k
<1>5. Level(Lowered(S)) /\ Same(S, Lowered(S))
  BY <1>1, <1>2 DEF Lowered, k
<1>6. Level(Holding(S, n, V)) /\ Same(S, Holding(S, n, V))
  BY <1>1, <1>2 DEF Holding, k
<1>7. QED BY <1>3, <1>4, <1>5, <1>6

(* new is mem with the pair v stored k bytes on from the application's RSP. *)
Laid(mem, new, k, v) ==
  /\ Lane(new, Stk(k)) = v[1] /\ Lane(new, Stk(k + 4)) = v[2]
  /\ \A a : a # Stk(k) /\ a # Stk(k + 4) => Lane(new, a) = Lane(mem, a)
  /\ DOMAIN new = {Stk(k), Stk(k + 4)} \cup DOMAIN mem

LEMMA PairStored ==
  ASSUME NEW mem, NEW k \in Int, NEW v, Len(v) = 2
  PROVE  Laid(mem, Store(mem, Stk(k), v), k, v)
<1> DEFINE a == Stk(k)
           b == Stk(k + 4)
           written == {At(a, 4 * (i - 1)) : i \in 1 .. Len(v)}
           stored == Store(mem, a, v)
<1>2. At(a, 0) = a /\ At(a, 4) = b
  <2>1. k + 0 = k /\ 0 \in Int /\ 4 \in Int
    OBVIOUS
  <2>2. At(Stk(k), 0) = Stk(k + 0) /\ At(Stk(k), 4) = Stk(k + 4)
    BY ONLY k \in Int, <2>1, AtStk
  <2>3. QED BY <2>1, <2>2
<1>3. written = {At(a, 0), At(a, 4)}
  <2> HIDE DEF a
  <2>1. written = {At(a, 4 * (i - 1)) : i \in 1 .. 2}
    OBVIOUS
  <2>2. 4 * (1 - 1) = 0 /\ 4 * (2 - 1) = 4 /\ 1 .. 2 = {1, 2}
    OBVIOUS
  <2>3. {At(a, 4 * (i - 1)) : i \in {1, 2}} = {At(a, 4 * (1 - 1)), At(a, 4 * (2 - 1))}
    OBVIOUS
  <2> HIDE DEF written
  <2>4. QED BY <2>1, <2>2, <2>3
<1>4. a[3] = k /\ b[3] = k + 4
  BY DEF Stk
<1>5. stored = [z \in {a, b} \cup DOMAIN mem |->
                  IF z \in {a, b} THEN v[1 + ((z[3] - a[3]) \div 4)] ELSE mem[z]]
  BY <1>2, <1>3 DEF Store
<1>6. 1 + ((k - k) \div 4) = 1 /\ 1 + ((k + 4 - k) \div 4) = 2
  <2>1. k - k = 0 /\ k + 4 - k = 4 /\ 1 + (0 \div 4) = 1 /\ 1 + (4 \div 4) = 2
    OBVIOUS
  <2>2. QED BY <2>1
<1> HIDE DEF a, b, written, stored
<1>7. stored[a] = v[1] /\ stored[b] = v[2]
  <2>1. stored[a] = v[1 + ((a[3] - a[3]) \div 4)] /\ stored[b] = v[1 + ((b[3] - a[3]) \div 4)]
    BY <1>5
  <2>2. a[3] - a[3] = k - k /\ b[3] - a[3] = k + 4 - k
    BY <1>4
  <2>3. QED BY <1>6, <2>1, <2>2
<1>8. DOMAIN stored = {a, b} \cup DOMAIN mem
  BY <1>5
<1>9. \A z : z # a /\ z # b => Lane(stored, z) = Lane(mem, z)
  BY <1>5 DEF Lane
<1>10. Lane(stored, a) = v[1] /\ Lane(stored, b) = v[2]
  BY <1>7, <1>8 DEF Lane
<1>11. QED BY <1>8, <1>9, <1>10 DEF stored, a, b, Laid

(* A value is pushed.                                                      *)
LEMMA PushSat ==
  ASSUME NEW S, Level(S), NEW m, Sat(m, S), NEW v, NEW regs, NEW V,
         \A n \in Gprs \ {RSP.n} : regs[n] \subseteq S.regs[n],
         S.sure => \A u \in V : u = v /\ Whole64(u)
  PROVE  Sat(PushVal(m, v), Changed(S, S.offset - 8, regs, Above(S, V)))
<1> DEFINE k == S.offset
           j == k - 8
           T == Changed(S, j, regs, Above(S, V))
           rsp == At(m.gpr[RSP.n], -8)
           h == Half(v, 0)
           g == Half(v, 1)
           stored == Store(m.mem, rsp, <<h, g>>)
           w == PushVal(m, v)
<1>1. k \in Int /\ j \in Int /\ j < 0 /\ j + 4 < 0 /\ j + 4 \in Int /\ j + 4 < k /\ j < k
  <2>1. k \in Int /\ k <= 0
    BY DEF Level
  <2> HIDE DEF k
  <2>2. QED BY <2>1
<1>2. RspAt(w, j)
  BY <1>1, PushMoves DEF Sat
<1>3. rsp = Stk(j)
  <2>1. m.gpr[RSP.n] = Stk(k)
    BY DEF Sat, RspAt, Stk
  <2> HIDE DEF k
  <2>2. k \in Int /\ -8 \in Int /\ k + -8 = k - 8
    BY <1>1 DEF k
  <2>3. At(Stk(k), -8) = Stk(k + -8)
    BY <2>2, AtStk
  <2>4. QED BY <2>1, <2>2, <2>3
<1>4. w.mem = stored /\ w.target = m.target /\ \A n \in Gprs : n # RSP.n => w.gpr[n] = m.gpr[n]
  <2> DEFINE new == [m.gpr EXCEPT ![RSP.n] = rsp]
  <2>1. PushVal(m, v) = [m EXCEPT !.gpr = new, !.mem = stored]
    BY DEF PushVal
  <2>2. \A n \in Gprs : n # RSP.n => new[n] = m.gpr[n]
    BY DEF Sat, RspAt, Cpu
  <2> HIDE DEF new, stored
  <2>3. QED BY <2>1, <2>2 DEF Sat, RspAt, Cpu
<1>5. /\ T.offset = j /\ T.regs = regs /\ T.words = Above(S, V) /\ T.dest = S.dest
      /\ T.target = S.target /\ T.sure = S.sure
  BY ChangedFields
<1> SUFFICES ASSUME S.sure PROVE Claims(w, T)
  BY <1>2, <1>5 DEF Sat, Claims
<1>6. GprClaims(m, S) /\ WordClaims(m.mem, S) /\ Confined(m.mem, S) /\ \A u \in S.target : m.target = u
  BY DEF Sat, Claims
<1>7. /\ Lane(stored, Stk(j)) = h /\ Lane(stored, Stk(j + 4)) = g
      /\ \A a : a # Stk(j) /\ a # Stk(j + 4) => Lane(stored, a) = Lane(m.mem, a)
      /\ DOMAIN stored = {Stk(j), Stk(j + 4)} \cup DOMAIN m.mem
  <2>1. stored = Store(m.mem, Stk(j), <<h, g>>)
    BY <1>3
  <2>2. j \in Int
    BY <1>1
  <2> DEFINE pair == <<h, g>>
  <2>3. Len(pair) = 2 /\ pair[1] = h /\ pair[2] = g
    OBVIOUS
  <2> HIDE DEF stored, j, h, g, pair
  <2>4. stored = Store(m.mem, Stk(j), pair)
    BY <2>1 DEF pair
  <2>5. Laid(m.mem, stored, j, pair)
    BY <2>2, <2>3, <2>4, PairStored
  <2>6. QED BY <2>3, <2>5 DEF Laid
<1>8. /\ \A i \in Int : i >= k => Above(S, V)[i] = S.words[i]
      /\ Above(S, V)[j] = V
      /\ \A i \in Int : i < k /\ i # j => Above(S, V)[i] = {}
  BY AboveFields
<1> HIDE DEF stored, T, w, rsp, j, k
<1>9. GprClaims(w, T)
  BY <1>4, <1>5, <1>6 DEF GprClaims
<1>10. Confined(w.mem, T)
  BY <1>1, <1>4, <1>5, <1>6, <1>7, StkOnStack DEF Confined, Allowed
<1>11. WordClaims(w.mem, T)
  <2> SUFFICES ASSUME NEW i \in Int, i >= j, NEW u \in Above(S, V)[i]
               PROVE  HoldsWord(stored, i, u)
    BY <1>4, <1>5 DEF WordClaims
  <2>1. CASE i = j
    <3>1. u = v /\ Whole64(u)
      BY <1>8, <2>1
    <3>2. QED BY <1>7, <2>1, <3>1 DEF HoldsWord, h, g
  <2>2. CASE i >= k
    <3>1. HoldsWord(m.mem, i, u)
      BY <1>6, <1>8, <2>2 DEF WordClaims, k
    <3>2. i # j /\ i # j + 4 /\ i + 4 # j /\ i + 4 # j + 4
      BY <1>1, <2>2
    <3>3. /\ Stk(i) # Stk(j) /\ Stk(i) # Stk(j + 4)
          /\ Stk(i + 4) # Stk(j) /\ Stk(i + 4) # Stk(j + 4)
      BY <3>2, StkSame
    <3>4. QED BY <1>7, <3>1, <3>3 DEF HoldsWord
  <2>3. CASE i # j /\ ~(i >= k)
    BY <1>1, <1>8, <2>3
  <2>4. QED BY <2>1, <2>2, <2>3
<1>12. QED BY <1>4, <1>5, <1>6, <1>9, <1>10, <1>11 DEF Claims

(* What is still on the stack when RSP moves.                              *)
LEMMA ForgetLanes ==
  ASSUME NEW mem, NEW k \in Int, NEW i \in Int, i >= k
  PROVE  /\ Lane(Forget(mem, Stk(k)), Stk(i)) = Lane(mem, Stk(i))
         /\ DOMAIN Forget(mem, Stk(k)) \subseteq DOMAIN mem
<1> DEFINE rsp == Stk(k)
           a == Stk(i)
           kept == {x \in DOMAIN mem : ~(x[1] = rsp[1] /\ x[2] = rsp[2] /\ x[3] < rsp[3])}
           new == Forget(mem, rsp)
<1>1. new = [x \in kept |-> mem[x]]
  BY DEF Forget
<1>2. ~(a[3] < rsp[3])
  <2>1. a[3] = i /\ rsp[3] = k
    BY DEF Stk
  <2>2. ~(i < k)
    OBVIOUS
  <2>3. QED BY <2>1, <2>2
<1> HIDE DEF rsp, a
<1>3. a \in kept <=> a \in DOMAIN mem
  BY <1>2
<1>4. kept \subseteq DOMAIN mem
  OBVIOUS
<1> HIDE DEF kept, new
<1>5. Lane(new, a) = Lane(mem, a) /\ DOMAIN new \subseteq DOMAIN mem
  BY <1>1, <1>3, <1>4 DEF Lane
<1>6. QED BY <1>5 DEF new, rsp, a

LEMMA RspSat ==
  ASSUME NEW S, Level(S), NEW m, Sat(m, S), NEW d \in Int, NEW words,
         \A k \in Int : k >= S.offset + d
           => words[k] = {} \/ (k >= S.offset /\ words[k] = S.words[k])
  PROVE  Sat(SetRsp(m, At(m.gpr[RSP.n], d)), Changed(S, S.offset + d, S.regs, words))
<1> DEFINE k == S.offset
           j == k + d
           T == Changed(S, j, S.regs, words)
           rsp == At(m.gpr[RSP.n], d)
           kept == Forget(m.mem, rsp)
           w == SetRsp(m, rsp)
<1>1. k \in Int /\ j \in Int /\ j = k + d
  BY DEF Level
<1>2. RspAt(w, j)
  BY <1>1, SetRspMoves DEF Sat
<1>3. rsp = Stk(j)
  <2>1. m.gpr[RSP.n] = Stk(k)
    BY DEF Sat, RspAt, Stk
  <2> HIDE DEF k
  <2>2. QED BY <1>1, <2>1, AtStk
<1>4. w.mem = kept /\ w.target = m.target /\ \A n \in Gprs : n # RSP.n => w.gpr[n] = m.gpr[n]
  <2> DEFINE new == [m.gpr EXCEPT ![RSP.n] = rsp]
  <2>1. w = [m EXCEPT !.gpr = new, !.mem = kept]
    BY DEF SetRsp
  <2>2. \A n \in Gprs : n # RSP.n => new[n] = m.gpr[n]
    BY DEF Sat, RspAt, Cpu
  <2> HIDE DEF new, kept, w
  <2>3. QED BY <2>1, <2>2 DEF Sat, RspAt, Cpu
<1>5. /\ T.offset = j /\ T.regs = S.regs /\ T.words = words /\ T.dest = S.dest
      /\ T.target = S.target /\ T.sure = S.sure
  BY ChangedFields
<1>6. \A i \in Int : i >= j => words[i] = {} \/ (i >= k /\ words[i] = S.words[i])
  OBVIOUS
<1> SUFFICES ASSUME S.sure PROVE Claims(w, T)
  BY <1>2, <1>5 DEF Sat, Claims
<1>7. GprClaims(m, S) /\ WordClaims(m.mem, S) /\ Confined(m.mem, S) /\ \A u \in S.target : m.target = u
  BY DEF Sat, Claims
<1> HIDE DEF T, w, rsp, j, kept
<1>8. \A i \in Int : i >= j => /\ Lane(kept, Stk(i)) = Lane(m.mem, Stk(i))
                               /\ DOMAIN kept \subseteq DOMAIN m.mem
  BY <1>1, <1>3, ForgetLanes DEF kept
<1>9. GprClaims(w, T)
  BY <1>4, <1>5, <1>7 DEF GprClaims
<1>10. Confined(w.mem, T)
  <2>1. j >= j
    BY <1>1
  <2>2. DOMAIN kept \subseteq DOMAIN m.mem
    BY <1>1, <1>8, <2>1
  <2>3. QED BY <1>4, <1>5, <1>7, <2>2 DEF Confined, Allowed
<1>11. WordClaims(w.mem, T)
  <2> SUFFICES ASSUME NEW i \in Int, i >= j, NEW u \in words[i]
               PROVE  HoldsWord(kept, i, u)
    BY <1>4, <1>5 DEF WordClaims
  <2>1. i >= k /\ u \in S.words[i]
    BY <1>6
  <2>2. HoldsWord(m.mem, i, u)
    BY <1>7, <2>1 DEF WordClaims
  <2>3. i + 4 \in Int /\ i + 4 >= j
    BY <1>1
  <2>4. Lane(kept, Stk(i)) = Lane(m.mem, Stk(i)) /\ Lane(kept, Stk(i + 4)) = Lane(m.mem, Stk(i + 4))
    BY <1>8, <2>3
  <2>5. QED BY <2>2, <2>4 DEF HoldsWord
<1>12. QED BY <1>4, <1>5, <1>7, <1>9, <1>10, <1>11 DEF Claims

(* The word at RSP is what is known of it.                                 *)
LEMMA TopKnown ==
  ASSUME NEW S, Level(S), NEW m, Sat(m, S), S.sure, NEW v \in S.words[S.offset]
  PROVE  TopOfStack(m) = v /\ Whole64(v)
<1> DEFINE k == S.offset
<1>1. m.gpr[RSP.n] = Stk(k)
  BY DEF Sat, RspAt, Stk
<1>2. k \in Int /\ k >= k /\ 4 \in Int
  BY DEF Level
<1>3. HoldsWord(m.mem, k, v)
  BY <1>2 DEF Sat, Claims, WordClaims
<1> HIDE DEF k
<1>4. At(Stk(k), 4) = Stk(k + 4)
  BY <1>2, AtStk
<1>5. QED BY <1>1, <1>3, <1>4 DEF TopOfStack, HoldsWord, Whole64
(* What S knows, T knows too.                                              *)
Implied(S, T) ==
  /\ T.offset = S.offset
  /\ T.sure => /\ S.sure
               /\ \A n \in Gprs \ {RSP.n} : T.regs[n] \subseteq S.regs[n]
               /\ \A k \in Int : k >= S.offset => T.words[k] \subseteq S.words[k]
               /\ T.target \subseteq S.target /\ S.dest \subseteq T.dest

LEMMA Weakens ==
  ASSUME NEW S, NEW T, Implied(S, T), NEW m, Sat(m, S)
  PROVE  Sat(m, T)
<1>1. RspAt(m, T.offset)
  BY DEF Sat, Implied
<1>2. ASSUME T.sure PROVE Claims(m, T)
  <2>1. GprClaims(m, S) /\ WordClaims(m.mem, S) /\ Confined(m.mem, S) /\ \A u \in S.target : m.target = u
    BY <1>2 DEF Sat, Claims, Implied
  <2>2. GprClaims(m, T)
    BY <1>2, <2>1 DEF GprClaims, Implied
  <2>3. WordClaims(m.mem, T)
    BY <1>2, <2>1 DEF WordClaims, Implied
  <2>4. Confined(m.mem, T)
    BY <1>2, <2>1 DEF Confined, Allowed, Implied
  <2>5. \A u \in T.target : m.target = u
    BY <1>2, <2>1 DEF Implied
  <2>6. QED BY <2>2, <2>3, <2>4, <2>5 DEF Claims
<1>3. QED BY <1>1, <1>2 DEF Sat, Claims

(* A value is left in a general register.                                  *)
LEMMA SetGprSat ==
  ASSUME NEW S, NEW m, Sat(m, S), NEW r, r.class = "r64", r.n # RSP.n, NEW v, NEW V,
         S.sure => \A u \in V : u = v /\ Whole64(u)
  PROVE  Sat(SetGpr(m, r, v), Holding(S, r.n, V))
<1> DEFINE n == r.n
           w == [m EXCEPT !.gpr[n] = v]
           regs == [x \in Gprs |-> IF x = n THEN V ELSE S.regs[x]]
           T == Changed(S, S.offset, regs, S.words)
<1>1. SetGpr(m, r, v) = w
  BY DEF SetGpr
<1>2. /\ T.offset = S.offset /\ T.regs = regs /\ T.words = S.words /\ T.dest = S.dest
      /\ T.target = S.target /\ T.sure = S.sure
  BY ChangedFields
<1>3. RspAt(w, T.offset)
  BY <1>1, <1>2, SetGprKeeps DEF Sat
<1>4. /\ w.mem = m.mem /\ w.target = m.target
      /\ \A x \in Gprs : w.gpr[x] = IF x = n THEN v ELSE m.gpr[x]
  BY DEF Sat, RspAt, Cpu
<1>5. \A x \in Gprs : regs[x] = IF x = n THEN V ELSE S.regs[x]
  OBVIOUS
<1> HIDE DEF w, T, regs
<1> SUFFICES ASSUME S.sure PROVE Claims(w, T)
  BY <1>1, <1>2, <1>3 DEF Sat, Claims, Holding, T, regs
<1>6. GprClaims(m, S) /\ WordClaims(m.mem, S) /\ Confined(m.mem, S) /\ \A u \in S.target : m.target = u
  BY DEF Sat, Claims
<1>7. GprClaims(w, T)
  <2> SUFFICES ASSUME NEW x \in Gprs \ {RSP.n}, NEW u \in regs[x] PROVE w.gpr[x] = u /\ Whole64(u)
    BY <1>2 DEF GprClaims
  <2>1. CASE x = n
    BY <1>4, <1>5, <2>1
  <2>2. CASE x # n
    BY <1>4, <1>5, <1>6, <2>2 DEF GprClaims
  <2>3. QED BY <2>1, <2>2
<1>8. WordClaims(w.mem, T) /\ Confined(w.mem, T)
  BY <1>2, <1>4, <1>6 DEF WordClaims, Confined, Allowed
<1>9. QED BY <1>2, <1>4, <1>6, <1>7, <1>8 DEF Claims

(* The word at RSP is popped.                                              *)
LEMMA DropSat ==
  ASSUME NEW S, Level(S), NEW m, Sat(m, S)
  PROVE  Sat(DropTop(m), Changed(S, S.offset + 8, S.regs, S.words))
<1>1. \A k \in Int : k >= S.offset + 8 => k >= S.offset
  BY DEF Level
<1>2. 8 \in Int
  OBVIOUS
<1>3. QED BY <1>1, <1>2, RspSat DEF DropTop

-----------------------------------------------------------------------------
(***************************************************************************)
(* One lemma for each kind of emitted instruction: r leads from S to T.    *)
(***************************************************************************)
Leads(S, r, T) ==
  /\ r.rspOffset = S.offset /\ Level(S) /\ Level(T) /\ Same(S, T)
  /\ \A m : Sat(m, S) /\ ~Faults(m, r) => Sat(Exec(m, r), T)

LEMMA WriteLeads ==
  ASSUME NEW S, Level(S), NEW r, r.rspOffset = S.offset, Emits(S, r.op, r.args[1])
  PROVE  Leads(S, r, S)
BY WriteKeeps DEF Leads, Same

LEMMA RegValue ==
  ASSUME NEW m, NEW n
  PROVE  Val64(m, RegOp(R64(n))) = m.gpr[n] /\ RegOp(R64(n)).reg = R64(n)
         /\ R64(n).n = n /\ R64(n).class = "r64"
BY DEF Val64, RegOp, isImmediate, isMemoryOperand, RegVal, R64, Reg

LEMMA ImmValue == ASSUME NEW m, NEW v PROVE Val64(m, ImmOp(v)) = v
<1> DEFINE o == ImmOp(v)
<1>1. o.kind = "imm" /\ o.imm = v
  BY DEF ImmOp, RegOp
<1> HIDE DEF o
<1>2. Val64(m, o) = v
  BY <1>1 DEF Val64, isImmediate, isMemoryOperand
<1>3. QED BY <1>2 DEF o

(* A symbol is what its halves make up.                                    *)
LEMMA SymWhole == ASSUME NEW v, v[1] \notin {"zx", "pair"} PROVE Whole64(v)
<1>1. Half(v, 0) = <<"half", <<v>>, 0>> /\ Half(v, 1) = <<"half", <<v>>, 1>>
  BY DEF Half
<1>2. <<"half", <<v>>, 1>> # Zero
  BY DEF Zero, Sym
<1>3. QED BY <1>1, <1>2 DEF Whole64, Whole

LEMMA PushLeads ==
  ASSUME NEW S, Level(S), NEW n \in Gprs \ {RSP.n}, NEW r, r.rspOffset = S.offset,
         r.op = "PUSH", r.args[1] = RegOp(R64(n))
  PROVE  Leads(S, r, Taken(S, n))
<1> DEFINE V == S.regs[n]
<1>1. ASSUME NEW m, Sat(m, S), ~Faults(m, r) PROVE Sat(Exec(m, r), Taken(S, n))
  <2> DEFINE v == Val64(m, r.args[1])
             regs == Without(S, n)
  <2>1. Exec(m, r) = PushVal(m, v)
    BY <1>1 DEF Exec, Executed, MovesRsp, Alu, Compares
  <2>2. v = m.gpr[n]
    BY RegValue
  <2>3. S.sure => \A u \in V : u = v /\ Whole64(u)
    BY <1>1, <2>2 DEF Sat, Claims, GprClaims
  <2>4. \A x \in Gprs \ {RSP.n} : regs[x] \subseteq S.regs[x]
    BY DEF Without
  <2> HIDE DEF v, regs, V
  <2>5. Sat(PushVal(m, v), Changed(S, S.offset - 8, regs, Above(S, V)))
    BY <1>1, <2>3, <2>4, PushSat
  <2>6. QED BY <2>1, <2>5 DEF Taken, regs, V
<1>2. QED BY <1>1, ChangedLevel DEF Leads

LEMMA PushFlagsLeads ==
  ASSUME NEW S, Level(S), NEW r, r.rspOffset = S.offset, r.op = "PUSHF"
  PROVE  Leads(S, r, Pushed(S, {}))
<1>1. ASSUME NEW m, Sat(m, S), ~Faults(m, r) PROVE Sat(Exec(m, r), Pushed(S, {}))
  <2>1. Exec(m, r) = PushVal(m, m.flags)
    BY <1>1 DEF Exec, Executed, MovesRsp, Alu, Compares
  <2>2. Sat(PushVal(m, m.flags), Changed(S, S.offset - 8, S.regs, Above(S, {})))
    BY <1>1, PushSat
  <2>3. QED BY <2>1, <2>2 DEF Pushed
<1>2. QED BY <1>1, ChangedLevel DEF Leads

LEMMA PopLeads ==
  ASSUME NEW S, Level(S), NEW n \in Gprs \ {RSP.n}, NEW r, r.rspOffset = S.offset - 8,
         r.op = "POP", r.args[1] = RegOp(R64(n))
  PROVE  Leads(Taken(S, n), r, S)
<1> DEFINE V == S.regs[n]
           T == Taken(S, n)
           H == Holding(T, n, V)
           U == Changed(H, H.offset + 8, H.regs, H.words)
<1>1. Level(T) /\ Level(H)
  BY ChangedLevel
<1>2. /\ T.offset = S.offset - 8 /\ T.regs = Without(S, n) /\ T.words = Above(S, V)
      /\ T.dest = S.dest /\ T.target = S.target /\ T.sure = S.sure
  BY ChangedFields DEF Taken
<1>3. /\ H.offset = T.offset /\ H.regs = [x \in Gprs |-> IF x = n THEN V ELSE T.regs[x]]
      /\ H.words = T.words /\ H.dest = T.dest /\ H.target = T.target /\ H.sure = T.sure
  BY ChangedFields DEF Holding
<1>4. /\ U.offset = H.offset + 8 /\ U.regs = H.regs /\ U.words = H.words
      /\ U.dest = H.dest /\ U.target = H.target /\ U.sure = H.sure
  BY ChangedFields
<1>5. T.words[T.offset] = V
  BY <1>2, AboveFields
<1> HIDE DEF T, H, U
<1>6. Implied(U, S)
  <2>1. U.offset = S.offset
    BY <1>2, <1>3, <1>4 DEF Level
  <2>2. \A x \in Gprs : U.regs[x] = S.regs[x]
    BY <1>2, <1>3, <1>4 DEF Without
  <2>3. \A k \in Int : k >= S.offset => U.words[k] = S.words[k]
    BY <1>2, <1>3, <1>4, AboveFields
  <2>4. QED BY <1>2, <1>3, <1>4, <2>1, <2>2, <2>3 DEF Implied
<1>7. ASSUME NEW m, Sat(m, T), ~Faults(m, r) PROVE Sat(Exec(m, r), S)
  <2> DEFINE top == TopOfStack(m)
             w == SetGpr(m, R64(n), top)
  <2>1. Exec(m, r) = DropTop(w)
    <3>1. Exec(m, r) = DropTop(SetGpr(m, r.args[1].reg, top))
      BY <1>7 DEF Exec, Executed, MovesRsp, Alu, Compares
    <3>2. QED BY <3>1, RegValue
  <2>2. T.sure => \A u \in V : u = top /\ Whole64(u)
    BY <1>1, <1>5, <1>7, TopKnown
  <2>3. R64(n).n = n /\ R64(n).class = "r64"
    BY RegValue
  <2> HIDE DEF top, V
  <2>4. Sat(w, H)
    BY <1>7, <2>2, <2>3, SetGprSat DEF H
  <2> HIDE DEF w
  <2>5. Sat(DropTop(w), U)
    BY <1>1, <2>4, DropSat DEF U
  <2>6. QED BY <1>6, <2>1, <2>5, Weakens
<1>8. QED BY <1>1, <1>2, <1>7 DEF Leads, Same, T

LEMMA PopFlagsLeads ==
  ASSUME NEW S, Level(S), NEW V, NEW r, r.rspOffset = S.offset - 8, r.op = "POPF"
  PROVE  Leads(Pushed(S, V), r, S)
<1> DEFINE T == Pushed(S, V)
           U == Changed(T, T.offset + 8, T.regs, T.words)
<1>1. Level(T)
  BY ChangedLevel
<1>2. /\ T.offset = S.offset - 8 /\ T.regs = S.regs /\ T.words = Above(S, V)
      /\ T.dest = S.dest /\ T.target = S.target /\ T.sure = S.sure
  BY ChangedFields DEF Pushed
<1>3. /\ U.offset = T.offset + 8 /\ U.regs = T.regs /\ U.words = T.words
      /\ U.dest = T.dest /\ U.target = T.target /\ U.sure = T.sure
  BY ChangedFields
<1> HIDE DEF T, U
<1>4. Implied(U, S)
  <2>1. U.offset = S.offset
    BY <1>2, <1>3 DEF Level
  <2>2. \A k \in Int : k >= S.offset => U.words[k] = S.words[k]
    BY <1>2, <1>3, AboveFields
  <2>3. QED BY <1>2, <1>3, <2>1, <2>2 DEF Implied
<1>5. ASSUME NEW m, Sat(m, T), ~Faults(m, r) PROVE Sat(Exec(m, r), S)
  <2> DEFINE top == TopOfStack(m)
             w == [m EXCEPT !.flags = top]
  <2>1. Exec(m, r) = DropTop(w)
    BY <1>5 DEF Exec, Executed, MovesRsp, Alu, Compares
  <2> HIDE DEF top
  <2>2. Cpu(w) /\ w.gpr = m.gpr /\ w.mem = m.mem /\ w.target = m.target
    BY <1>5 DEF Sat, RspAt, Cpu
  <2> HIDE DEF w
  <2>3. Sat(w, T)
    BY <1>5, <2>2, SameClaims DEF Sat, RspAt
  <2>4. Sat(DropTop(w), U)
    BY <1>1, <2>3, DropSat DEF U
  <2>5. QED BY <1>4, <2>1, <2>4, Weakens
<1>6. QED BY <1>1, <1>2, <1>5 DEF Leads, Same, T

(* RSP is moved, and the flags are lost.                                   *)
LEMMA MovesRspSat ==
  ASSUME NEW S, Level(S), NEW m, Sat(m, S), NEW r, MovesRsp(r), ~Faults(m, r),
         NEW d \in Int, d = IF r.op = "ADD" THEN immValue(r.args[2]) ELSE -immValue(r.args[2]),
         NEW words,
         \A k \in Int : k >= S.offset + d
           => words[k] = {} \/ (k >= S.offset /\ words[k] = S.words[k])
  PROVE  Sat(Exec(m, r), Changed(S, S.offset + d, S.regs, words))
<1> DEFINE moved == SetRsp(m, At(m.gpr[RSP.n], d))
           T == Changed(S, S.offset + d, S.regs, words)
           flags == FlagsOf(r.op, <<m.gpr[RSP.n]>>)
<1>1. Exec(m, r) = [moved EXCEPT !.flags = flags]
  BY DEF Exec, Executed, MovesRsp, Alu, Compares
<1> HIDE DEF flags
<1>2. Sat(moved, T)
  BY RspSat
<1> HIDE DEF moved, T
<1> DEFINE w == [moved EXCEPT !.flags = flags]
<1>3. Cpu(w) /\ w.gpr = moved.gpr /\ w.mem = moved.mem /\ w.target = moved.target
  BY <1>2 DEF Sat, RspAt, Cpu
<1> HIDE DEF w
<1>4. Sat(w, T)
  BY <1>2, <1>3, SameClaims DEF Sat, RspAt
<1>5. QED BY <1>1, <1>4 DEF w, T

LEMMA SubLeads ==
  ASSUME NEW S, Level(S), NEW r, r.rspOffset = S.offset, r.op = "SUB",
         r.args[1].reg = RSP, immValue(r.args[2]) = 16
  PROVE  Leads(S, r, Lowered(S))
<1> DEFINE words == Above(S, {})
           d == -16
<1>1. MovesRsp(r) /\ d \in Int /\ d = -immValue(r.args[2]) /\ r.op # "ADD"
  BY DEF MovesRsp
<1>2. S.offset + d = S.offset - 16
  BY DEF Level
<1>3. \A k \in Int : k >= S.offset => words[k] = S.words[k]
  BY AboveFields
<1>4. \A k \in Int : ~(k >= S.offset) => words[k] = {}
  <2> SUFFICES ASSUME NEW k \in Int, ~(k >= S.offset) PROVE words[k] = {}
    OBVIOUS
  <2>1. words[k] = IF k = S.offset - 8 THEN {} ELSE {}
    BY DEF Above
  <2>2. QED BY <2>1
<1> HIDE DEF words, d
<1>5. \A k \in Int : words[k] = {} \/ (k >= S.offset /\ words[k] = S.words[k])
  BY <1>3, <1>4
<1>6. ASSUME NEW m, Sat(m, S), ~Faults(m, r)
      PROVE  Sat(Exec(m, r), Changed(S, S.offset + d, S.regs, words))
  BY <1>1, <1>5, <1>6, MovesRspSat
<1>7. Changed(S, S.offset + d, S.regs, words) = Lowered(S)
  BY <1>2 DEF Lowered, words
<1>8. QED BY <1>6, <1>7, ChangedLevel DEF Leads

LEMMA AddLeads ==
  ASSUME NEW S, Level(S), NEW r, r.rspOffset = S.offset - 16, r.op = "ADD",
         r.args[1].reg = RSP, immValue(r.args[2]) = 16
  PROVE  Leads(Lowered(S), r, S)
<1> DEFINE T == Lowered(S)
           words == Above(S, {})
           d == 16
           U == Changed(T, T.offset + d, T.regs, words)
<1>1. MovesRsp(r) /\ d \in Int /\ d = immValue(r.args[2])
  BY DEF MovesRsp
<1>2. /\ T.offset = S.offset - 16 /\ T.regs = S.regs /\ T.words = words
      /\ T.dest = S.dest /\ T.target = S.target /\ T.sure = S.sure
  BY ChangedFields DEF Lowered
<1>3. /\ U.offset = T.offset + 16 /\ U.regs = T.regs /\ U.words = words
      /\ U.dest = T.dest /\ U.target = T.target /\ U.sure = T.sure
  BY ChangedFields
<1>4. Level(T)
  BY ChangedLevel
<1>5. \A k \in Int : k >= S.offset => words[k] = S.words[k]
  BY AboveFields
<1> HIDE DEF T, U, words
<1>6. Implied(U, S)
  <2>1. U.offset = S.offset
    BY <1>2, <1>3 DEF Level
  <2>2. QED BY <1>2, <1>3, <1>5, <2>1 DEF Implied
<1>7. \A k \in Int : k >= T.offset + d => k >= T.offset
  BY <1>4 DEF Level
<1> HIDE DEF d
<1>8. ASSUME NEW m, Sat(m, T), ~Faults(m, r) PROVE Sat(Exec(m, r), S)
  <2>1. Sat(Exec(m, r), U)
    BY <1>1, <1>2, <1>4, <1>7, <1>8, MovesRspSat DEF U
  <2>2. QED BY <1>6, <2>1, Weakens
<1>9. QED BY <1>2, <1>4, <1>8 DEF Leads, Same, T

LEMMA HoldingFields ==
  ASSUME NEW S, NEW n, NEW V
  PROVE  LET T == Holding(S, n, V)
         IN  /\ T.offset = S.offset /\ T.words = S.words /\ T.dest = S.dest
             /\ T.rip = S.rip /\ T.target = S.target /\ T.sure = S.sure
             /\ \A x \in Gprs : T.regs[x] = IF x = n THEN V ELSE S.regs[x]
BY ChangedFields DEF Holding

(* A register is given a value, of another register or of the instruction. *)
LEMMA MovLeads ==
  ASSUME NEW S, Level(S), NEW n, n # RSP.n, NEW r, r.rspOffset = S.offset,
         r.op = "MOV", r.args[1] = RegOp(R64(n)), NEW V,
         \A m : Sat(m, S) /\ S.sure => \A u \in V : u = Val64(m, r.args[2]) /\ Whole64(u)
  PROVE  Leads(S, r, Holding(S, n, V))
<1>1. ASSUME NEW m, Sat(m, S), ~Faults(m, r) PROVE Sat(Exec(m, r), Holding(S, n, V))
  <2> DEFINE v == Val64(m, r.args[2])
  <2>1. Exec(m, r) = SetGpr(m, r.args[1].reg, v)
    BY <1>1 DEF Exec, Executed, MovesRsp, Alu, Compares
  <2>2. r.args[1].reg = R64(n) /\ R64(n).n = n /\ R64(n).class = "r64"
    BY RegValue
  <2>3. S.sure => \A u \in V : u = v /\ Whole64(u)
    BY <1>1
  <2> HIDE DEF v
  <2>4. QED BY <1>1, <2>1, <2>2, <2>3, SetGprSat
<1>2. QED BY <1>1, ChangedLevel DEF Leads

LEMMA MovImmLeads ==
  ASSUME NEW S, Level(S), NEW n, n # RSP.n, NEW r, r.rspOffset = S.offset, NEW v,
         r.op = "MOV", r.args[1] = RegOp(R64(n)), r.args[2] = ImmOp(v), S.sure => Whole64(v)
  PROVE  Leads(S, r, Holding(S, n, {v}))
<1>1. \A m : Sat(m, S) /\ S.sure => \A u \in {v} : u = Val64(m, r.args[2]) /\ Whole64(u)
  BY ImmValue
<1>2. QED BY <1>1, MovLeads

LEMMA MovRegLeads ==
  ASSUME NEW S, Level(S), NEW n, n # RSP.n, NEW k \in Gprs \ {RSP.n}, NEW r,
         r.rspOffset = S.offset, r.op = "MOV", r.args[1] = RegOp(R64(n)), r.args[2] = RegOp(R64(k))
  PROVE  Leads(S, r, Holding(S, n, S.regs[k]))
<1> DEFINE V == S.regs[k]
<1>1. \A m : Sat(m, S) /\ S.sure => \A u \in V : u = Val64(m, r.args[2]) /\ Whole64(u)
  BY RegValue DEF Sat, Claims, GprClaims
<1> HIDE DEF V
<1>2. Leads(S, r, Holding(S, n, V))
  BY <1>1, MovLeads
<1>3. QED BY <1>2 DEF V

(* The thread's storage is in RAX.                                         *)
LEMMA CallLeads ==
  ASSUME NEW S, Level(S), NEW r, r.rspOffset = S.offset, r.op = "CALL"
  PROVE  Leads(S, r, Holding(S, 0, {Sym("storage", 0)}))
<1> DEFINE v == Sym("storage", 0)
           V == {v}
           T == Holding(S, 0, V)
<1>1. Level(T) /\ Same(S, T)
  BY ChangedLevel
<1>2. Whole64(v)
  BY SymWhole DEF Sym
<1>3. \A u \in V : u = v /\ Whole64(u)
  BY <1>2
<1>4. RAX.n = 0 /\ RAX.class = "r64" /\ 0 # RSP.n
  BY RspFacts
<1>5. ASSUME NEW m, Sat(m, S), ~Faults(m, r) PROVE Sat(Exec(m, r), T)
  <2> DEFINE set == SetGpr(m, RAX, v)
             flags == Sym("call", 0)
             w == [set EXCEPT !.flags = flags]
  <2>1. Exec(m, r) = [m EXCEPT !.gpr[RAX.n] = v, !.flags = flags]
    BY <1>5 DEF Exec, Executed, MovesRsp, Alu, Compares
  <2> HIDE DEF v, flags
  <2>2. set = [m EXCEPT !.gpr[RAX.n] = v]
    BY <1>4 DEF SetGpr
  <2>3. Exec(m, r) = w
    BY <2>1, <2>2
  <2> HIDE DEF V, set
  <2>4. Sat(set, Holding(S, RAX.n, V))
    BY <1>3, <1>4, <1>5, SetGprSat DEF set
  <2>5. Sat(set, T)
    BY <1>4, <2>4
  <2>6. Cpu(w) /\ w.gpr = set.gpr /\ w.mem = set.mem /\ w.target = set.target
    BY <2>5 DEF Sat, RspAt, Cpu
  <2> HIDE DEF w, T
  <2>7. Sat(w, T)
    BY <2>5, <2>6, SameClaims DEF Sat, RspAt
  <2>8. QED BY <2>3, <2>7
<1>6. QED BY <1>1, <1>5 DEF Leads

(* The way out: the target of a jump is known.                             *)
Going(S, offset, V) ==
  [offset |-> offset, regs |-> S.regs, words |-> S.words, dest |-> S.dest, rip |-> S.rip,
   target |-> V, sure |-> S.sure]

LEMMA GoingSat ==
  ASSUME NEW S, NEW m, Sat(m, S), NEW v, NEW V, S.sure => \A u \in V : u = v
  PROVE  Sat([m EXCEPT !.target = v], Going(S, S.offset, V))
<1> DEFINE w == [m EXCEPT !.target = v]
           T == Going(S, S.offset, V)
<1>1. /\ T.offset = S.offset /\ T.regs = S.regs /\ T.words = S.words /\ T.dest = S.dest
      /\ T.target = V /\ T.sure = S.sure
  BY DEF Going
<1>2. RspAt(w, S.offset) /\ w.gpr = m.gpr /\ w.mem = m.mem /\ w.target = v
  BY DEF Sat, RspAt, Cpu
<1> HIDE DEF w, T
<1>3. ASSUME S.sure PROVE Claims(w, T)
  <2>1. GprClaims(m, S) /\ WordClaims(m.mem, S) /\ Confined(m.mem, S)
    BY <1>3 DEF Sat, Claims
  <2>2. GprClaims(w, T) /\ WordClaims(w.mem, T) /\ Confined(w.mem, T)
    BY <1>1, <1>2, <2>1 DEF GprClaims, WordClaims, Confined, Allowed
  <2>3. QED BY <1>1, <1>2, <1>3, <2>2 DEF Claims
<1>4. QED BY <1>1, <1>2, <1>3 DEF Sat, Claims, w, T

LEMMA JumpLeads ==
  ASSUME NEW S, Level(S), NEW n \in Gprs \ {RSP.n}, NEW r, r.rspOffset = S.offset,
         r.op = "JMP", r.args[1] = RegOp(R64(n))
  PROVE  Leads(S, r, Going(S, S.offset, S.regs[n]))
<1> DEFINE V == S.regs[n]
           T == Going(S, S.offset, V)
<1>1. Level(T) /\ Same(S, T)
  BY DEF Level, Same, Going
<1>2. ASSUME NEW m, Sat(m, S), ~Faults(m, r) PROVE Sat(Exec(m, r), T)
  <2> DEFINE v == Val64(m, r.args[1])
  <2>1. Exec(m, r) = [m EXCEPT !.target = v]
    BY <1>2 DEF Exec, Executed, MovesRsp, Alu, Compares
  <2>2. S.sure => \A u \in V : u = v
    BY <1>2, RegValue DEF Sat, Claims, GprClaims
  <2> HIDE DEF v, V
  <2>3. QED BY <1>2, <2>1, <2>2, GoingSat
<1>3. QED BY <1>1, <1>2 DEF Leads

LEMMA RetLeads ==
  ASSUME NEW S, Level(S), S.offset <= -8, NEW r, r.rspOffset = S.offset, r.op = "RET"
  PROVE  Leads(S, r, Going(S, S.offset + 8, S.words[S.offset]))
<1> DEFINE k == S.offset
           V == S.words[k]
           T == Going(S, k, V)
           U == Changed(T, T.offset + 8, T.regs, T.words)
<1>1. /\ T.offset = k /\ T.regs = S.regs /\ T.words = S.words /\ T.dest = S.dest
      /\ T.rip = S.rip /\ T.target = V /\ T.sure = S.sure
  BY DEF Going
<1>2. k + 8 \in Int /\ k + 8 <= 0 /\ k <= 0 /\ k \in Int
  BY DEF Level
<1>3. U = Going(S, k + 8, V)
  BY <1>1 DEF Changed, Going
<1>4. Level(T)
  BY <1>1 DEF Level
<1>5. Level(Going(S, k + 8, V)) /\ Same(S, Going(S, k + 8, V))
  BY <1>2 DEF Level, Same, Going
<1>6. ASSUME NEW m, Sat(m, S), ~Faults(m, r) PROVE Sat(Exec(m, r), U)
  <2> DEFINE top == TopOfStack(m)
             w == [m EXCEPT !.target = top]
  <2>1. Exec(m, r) = DropTop(w)
    BY <1>6 DEF Exec, Executed, MovesRsp, Alu, Compares
  <2>2. S.sure => \A u \in V : u = top
    BY <1>6, TopKnown
  <2> HIDE DEF top, V, k
  <2>3. Sat(w, T)
    BY <1>6, <2>2, GoingSat DEF k
  <2> HIDE DEF w, T
  <2>4. QED BY <1>4, <2>1, <2>3, DropSat
<1>7. QED BY <1>3, <1>5, <1>6 DEF Leads

-----------------------------------------------------------------------------
(***************************************************************************)
(* Emitted code.                                                           *)
(***************************************************************************)
Weaker(S, T) ==
  T.offset = S.offset /\ Same(S, T) /\ \A m : Sat(m, S) => Sat(m, T)

(* Every instruction of s was emitted at the rspOffset where those before  *)
(* it, from state from on, leave RSP, and from the last one on what to     *)
(* says is known.                                                          *)
Tracked(s, from, to) ==
  /\ \E X : s \in Seq(X)
  /\ \E st : /\ Level(st[1]) /\ Weaker(from, st[1]) /\ Weaker(st[Len(s) + 1], to)
             /\ \A k \in 1 .. Len(s) : Leads(st[k], s[k], st[k + 1])

LEMMA WeakerSelf == ASSUME NEW S PROVE Weaker(S, S)
BY DEF Weaker, Same

LEMMA WeakerTrans ==
  ASSUME NEW S, NEW T, NEW U, Weaker(S, T), Weaker(T, U) PROVE Weaker(S, U)
BY DEF Weaker, Same

LEMMA ImpliedWeaker ==
  ASSUME NEW S, NEW T, Implied(S, T), Same(S, T) PROVE Weaker(S, T)
BY Weakens DEF Weaker, Implied

LEMMA TrackedEmpty ==
  ASSUME NEW S, Level(S), NEW T, Weaker(S, T) PROVE Tracked(<<>>, S, T)
<1> DEFINE st == [k \in 1 .. 1 |-> S]
           s == <<>>
<1>1. s \in Seq({}) /\ Len(s) = 0
  BY EmptySeq
<1>2. st[1] = S
  OBVIOUS
<1>3. st[Len(s) + 1] = S
  <2> HIDE DEF s, st
  <2>1. 0 + 1 = 1
    OBVIOUS
  <2>2. QED BY <1>1, <1>2, <2>1
<1> HIDE DEF s, st
<1>4. \A k \in 1 .. Len(s) : Leads(st[k], s[k], st[k + 1])
  BY <1>1
<1>5. Tracked(s, S, T)
  BY <1>1, <1>2, <1>3, <1>4, WeakerSelf DEF Tracked
<1>6. QED BY <1>5 DEF s

LEMMA TrackedOne ==
  ASSUME NEW r, NEW S, NEW T, Leads(S, r, T) PROVE Tracked(<<r>>, S, T)
<1> DEFINE st == <<S, T>>
           s == <<r>>
<1>1. s \in Seq({r}) /\ Len(s) = 1 /\ s[1] = r
  OBVIOUS
<1>2. st[1] = S /\ st[2] = T
  OBVIOUS
<1> HIDE DEF s, st
<1>3. Len(s) + 1 = 2
  BY <1>1
<1>4. \A k \in 1 .. Len(s) : k = 1 /\ k + 1 = 2
  BY <1>1
<1>5. \A k \in 1 .. Len(s) : Leads(st[k], s[k], st[k + 1])
  BY <1>1, <1>2, <1>4
<1>6. Level(S)
  BY DEF Leads
<1>7. Tracked(s, S, T)
  BY <1>1, <1>2, <1>3, <1>5, <1>6, WeakerSelf DEF Tracked
<1>8. QED BY <1>7 DEF s

LEMMA TrackedWeaker ==
  ASSUME NEW s, NEW A, NEW B, Tracked(s, A, B), NEW C, Weaker(C, A), NEW D, Weaker(B, D)
  PROVE  Tracked(s, C, D)
<1>1. PICK st : /\ Level(st[1]) /\ Weaker(A, st[1]) /\ Weaker(st[Len(s) + 1], B)
                /\ \A k \in 1 .. Len(s) : Leads(st[k], s[k], st[k + 1])
  BY DEF Tracked
<1>2. Weaker(C, st[1]) /\ Weaker(st[Len(s) + 1], D)
  BY <1>1, WeakerTrans
<1>3. QED BY <1>1, <1>2 DEF Tracked

LEMMA TrackedConcat ==
  ASSUME NEW s, NEW t, NEW from, NEW via, NEW to, Tracked(s, from, via), Tracked(t, via, to)
  PROVE  Tracked(s \o t, from, to)
<1> DEFINE n == Len(s)
           p == Len(t)
           u == s \o t
<1>1. PICK X, Y : s \in Seq(X) /\ t \in Seq(Y)
  BY DEF Tracked
<1>2. s \in Seq(X \cup Y) /\ t \in Seq(X \cup Y) /\ n \in Nat /\ p \in Nat
  BY <1>1, SeqMonotonic, LenProperties
<1>3. /\ u \in Seq(X \cup Y) /\ Len(u) = n + p
      /\ \A i \in 1 .. n + p : u[i] = IF i <= n THEN s[i] ELSE t[i - n]
  BY <1>2, ConcatProperties
<1>4. PICK a : /\ Level(a[1]) /\ Weaker(from, a[1]) /\ Weaker(a[n + 1], via)
               /\ \A k \in 1 .. n : Leads(a[k], s[k], a[k + 1])
  BY DEF Tracked
<1>5. PICK b : /\ Level(b[1]) /\ Weaker(via, b[1]) /\ Weaker(b[p + 1], to)
               /\ \A k \in 1 .. p : Leads(b[k], t[k], b[k + 1])
  BY DEF Tracked
<1> DEFINE st == [k \in 1 .. n + p + 1 |-> IF k <= n THEN a[k] ELSE b[k - n]]
<1> HIDE DEF n, p, u
<1>6. \A k \in 1 .. n : st[k] = a[k]
  BY <1>2
<1>7. \A k \in 1 .. p + 1 : st[n + k] = b[k]
  <2> SUFFICES ASSUME NEW k \in 1 .. p + 1 PROVE st[n + k] = b[k]
    OBVIOUS
  <2> DEFINE j == n + k
  <2>1. j \in 1 .. n + p + 1 /\ ~(j <= n) /\ j - n = k
    BY <1>2
  <2> HIDE DEF j
  <2>2. st[j] = b[k]
    BY <2>1
  <2>3. QED BY <2>2 DEF j
<1> HIDE DEF st
<1>8. Weaker(a[n + 1], b[1])
  BY <1>4, <1>5, WeakerTrans
<1>9. Level(st[1]) /\ Weaker(from, st[1])
  <2>1. CASE n = 0
    <3>1. n + 1 = 1 /\ 1 \in 1 .. p + 1
      BY <1>2, <2>1
    <3>2. st[1] = b[1] /\ a[n + 1] = a[1]
      BY <1>7, <3>1
    <3>3. QED BY <1>4, <1>5, <1>8, <3>2, WeakerTrans
  <2>2. CASE n # 0
    <3>1. 1 \in 1 .. n
      BY <1>2, <2>2
    <3>2. QED BY <1>4, <1>6, <3>1
  <2>3. QED BY <2>1, <2>2
<1>10. Weaker(st[Len(u) + 1], to)
  <2>1. p + 1 \in 1 .. p + 1 /\ n + (p + 1) = n + p + 1
    BY <1>2
  <2>2. st[n + p + 1] = b[p + 1]
    BY <1>7, <2>1
  <2>3. QED BY <1>3, <1>5, <2>2
<1>11. ASSUME NEW k \in 1 .. n + p PROVE Leads(st[k], u[k], st[k + 1])
  <2>1. CASE k < n
    <3>1. k \in 1 .. n /\ k + 1 \in 1 .. n /\ k <= n
      BY <1>2, <2>1
    <3>2. st[k] = a[k] /\ st[k + 1] = a[k + 1] /\ u[k] = s[k]
      BY <1>3, <1>6, <3>1
    <3>3. QED BY <1>4, <3>1, <3>2
  <2>2. CASE k = n
    <3>1. k \in 1 .. n /\ k <= n /\ 1 \in 1 .. p + 1
      BY <1>2, <2>2
    <3>2. st[k] = a[k] /\ u[k] = s[k] /\ st[n + 1] = b[1]
      BY <1>3, <1>6, <1>7, <3>1
    <3>3. Leads(a[n], s[n], a[n + 1])
      BY <1>4, <2>2, <3>1
    <3>4. Leads(a[n], s[n], b[1])
      BY <1>5, <1>8, <3>3 DEF Leads, Weaker, Same
    <3>5. QED BY <2>2, <3>2, <3>4
  <2>3. CASE k > n
    <3> DEFINE j == k - n
    <3>1. j \in 1 .. p /\ j \in 1 .. p + 1 /\ j + 1 \in 1 .. p + 1 /\ ~(k <= n)
          /\ n + j = k /\ n + (j + 1) = k + 1
      BY <1>2, <2>3
    <3>2. u[k] = t[j]
      BY <1>3, <3>1
    <3> HIDE DEF j
    <3>3. st[k] = b[j] /\ st[k + 1] = b[j + 1]
      BY <1>7, <3>1
    <3>4. QED BY <1>5, <3>1, <3>2, <3>3
  <2>4. QED BY <1>2, <2>1, <2>2, <2>3
<1>12. Tracked(u, from, to)
  BY <1>3, <1>9, <1>10, <1>11 DEF Tracked
<1>13. QED BY <1>12 DEF u

LEMMA TrackedTail ==
  ASSUME NEW s, NEW from, NEW to, Tracked(s, from, to), s # <<>>
  PROVE  /\ Head(s).rspOffset = from.offset
         /\ \E T : /\ Level(T) /\ Same(from, T) /\ Tracked(Tail(s), T, to)
                   /\ \A m : Sat(m, from) /\ ~Faults(m, Head(s)) => Sat(Exec(m, Head(s)), T)
<1>1. PICK X : s \in Seq(X)
  BY DEF Tracked
<1> DEFINE n == Len(s)
           t == Tail(s)
<1>2. /\ n \in Nat /\ n > 0 /\ Head(s) = s[1]
      /\ t \in Seq(X) /\ Len(t) = n - 1 /\ \A i \in 1 .. n - 1 : t[i] = s[i + 1]
  <2>1. n \in Nat /\ n > 0
    BY <1>1, LenProperties, EmptySeq
  <2>2. Head(s) = s[1]
    BY <1>1
  <2>3. t \in Seq(X) /\ Len(t) = n - 1 /\ \A i \in 1 .. Len(t) : t[i] = s[i + 1]
    BY <1>1, HeadTailProperties
  <2>4. QED BY <2>1, <2>2, <2>3
<1>3. PICK a : /\ Level(a[1]) /\ Weaker(from, a[1]) /\ Weaker(a[n + 1], to)
               /\ \A k \in 1 .. n : Leads(a[k], s[k], a[k + 1])
  BY DEF Tracked
<1> DEFINE b == [k \in 1 .. n |-> a[k + 1]]
<1> HIDE DEF n, t
<1>4. Leads(a[1], s[1], a[2])
  <2>1. 1 \in 1 .. n /\ 1 + 1 = 2
    BY <1>2
  <2>2. QED BY <1>3, <2>1
<1>5. b[1] = a[2] /\ b[n - 1 + 1] = a[n + 1]
  <2>1. 1 \in 1 .. n /\ 1 + 1 = 2 /\ n \in 1 .. n /\ n - 1 + 1 = n
    BY <1>2
  <2>2. QED BY <2>1
<1>6. ASSUME NEW k \in 1 .. n - 1 PROVE Leads(b[k], t[k], b[k + 1])
  <2>1. k \in 1 .. n /\ k + 1 \in 1 .. n
    BY <1>2
  <2>2. b[k] = a[k + 1] /\ b[k + 1] = a[k + 1 + 1] /\ t[k] = s[k + 1]
    BY <1>2, <2>1
  <2>3. QED BY <1>3, <2>1, <2>2
<1> HIDE DEF b
<1>7. Tracked(t, a[2], to)
  <2>1. Level(b[1]) /\ Weaker(a[2], b[1])
    BY <1>4, <1>5, WeakerSelf DEF Leads
  <2>2. Weaker(b[Len(t) + 1], to)
    BY <1>2, <1>3, <1>5
  <2>3. QED BY <1>2, <1>6, <2>1, <2>2 DEF Tracked
<1>8. Head(s).rspOffset = from.offset
  BY <1>2, <1>3, <1>4 DEF Leads, Weaker
<1>9. /\ Level(a[2]) /\ Same(from, a[2])
      /\ \A m : Sat(m, from) /\ ~Faults(m, Head(s)) => Sat(Exec(m, Head(s)), a[2])
  BY <1>2, <1>3, <1>4 DEF Leads, Weaker, Same
<1>10. QED BY <1>7, <1>8, <1>9 DEF t

(* Pieces that lead from each state to the next.                           *)
LEMMA TrackedFlatten ==
  ASSUME NEW n \in Nat, NEW pieces, pieces = [k \in 1 .. n |-> pieces[k]], NEW st, Level(st[1]),
         \A k \in 1 .. n : Tracked(pieces[k], st[k], st[k + 1])
  PROVE  Tracked(FlattenSeq(pieces), st[1], st[n + 1])
<1>1. pieces \in Seq({pieces[k] : k \in 1 .. n}) /\ Len(pieces) = n
  OBVIOUS
<1>2. CASE n = 0
  <2>1. pieces = <<>> /\ FlattenSeq(pieces) = pieces
    BY <1>1, <1>2, EmptySeq DEF FlattenSeq
  <2>2. n + 1 = 1
    BY <1>2
  <2>3. QED BY <2>1, <2>2, TrackedEmpty, WeakerSelf
<1>3. CASE n > 0
  <2>1. PICK g : Flattens(g, pieces, n) /\ FlattenSeq(pieces) = g[n]
    BY <1>1, <1>3, FlattenSeqFlattens
  <2> DEFINE S == {k \in 0 .. n : k = 0 \/ Tracked(g[k], st[1], st[k + 1])}
  <2>2. 0 \in S
    OBVIOUS
  <2>3. ASSUME NEW k \in 0 .. n - 1, k \in S PROVE k + 1 \in S
    <3>1. k + 1 \in 1 .. n /\ k + 1 \in 0 .. n
      OBVIOUS
    <3>2. k + 1 - 1 = k /\ (k + 1 = 1 <=> k = 0)
      OBVIOUS
    <3> DEFINE j == k + 1
    <3> HIDE DEF j
    <3>3. g[j] = IF j = 1 THEN pieces[j] ELSE g[j - 1] \o pieces[j]
      BY <2>1, <3>1 DEF Flattens, j
    <3>4. Tracked(pieces[j], st[j], st[j + 1])
      BY <3>1 DEF j
    <3>5. Tracked(g[j], st[1], st[j + 1])
      <4>1. CASE k = 0
        BY <3>2, <3>3, <3>4, <4>1 DEF j
      <4>2. CASE k # 0
        <5>1. j # 1 /\ j - 1 = k /\ j = k + 1
          BY <3>2, <4>2 DEF j
        <5>2. g[j] = g[k] \o pieces[j]
          BY <3>3, <5>1
        <5>3. Tracked(g[k], st[1], st[j])
          BY <2>3, <4>2, <5>1
        <5>4. QED BY <3>4, <5>2, <5>3, TrackedConcat
      <4>3. QED BY <4>1, <4>2
    <3>6. QED BY <3>1, <3>5 DEF j
  <2> HIDE DEF S
  <2>4. \A k \in 0 .. n : k \in S
    BY <2>2, <2>3, UpTo
  <2>5. n \in S
    BY <2>4
  <2>6. QED BY <1>3, <2>1, <2>5 DEF S
<1>4. QED BY <1>2, <1>3
================================================================================
