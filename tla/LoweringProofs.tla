---------------------------- MODULE LoweringProofs ----------------------------
(***************************************************************************)
(* What every step of a compilation adds to the emitted code: one lemma    *)
(* for each function the instruction classes are compiled with, one for    *)
(* each implementation.  Each instruction is emitted at the rspOffset that *)
(* those before it make; what is borrowed is given back, with the value it *)
(* had; nothing is written but what the instruction writes, the storage    *)
(* and the stack.                                                          *)
(***************************************************************************)
EXTENDS ClaimProofs

IsOperand(o) ==
  \/ \E r : o = RegOp(r)
  \/ \E base, index, disp, width : o = MemOp(base, index, disp, width)
  \/ \E v : o = ImmOp(v)

(* Wherever instruction i's operand o is when it is emitted, with its RIP  *)
(* or RSP substituted, it may be written.                                  *)
Target(S, i, o) ==
  /\ usesRipAddressing(i) =>
       \A n \in Gprs \ {RSP.n} : Lands(Holding(Taken(S, n), n, {S.rip}), substRip(o, R64(n)))
  /\ ~usesRipAddressing(i) /\ usesRspAddressing(i) => Lands(S, offsetRsp(o, S.offset))
  /\ ~usesRipAddressing(i) /\ ~usesRspAddressing(i) => Lands(S, o)

(* An operand that op may write in the compilation of i: neither RSP nor   *)
(* anything that is known.                                                 *)
Writable(S, i, op, o) ==
  /\ IsOperand(o) /\ NotRsp(o)
  /\ op \notin Special
  /\ op \in Integer => NotGprRsp(o)
  /\ S.sure => /\ isMemoryOperand(o) => /\ op # "MOV" /\ Target(S, i, o)
                                        /\ o.width \in {8, 16, 32, 64, 128}
               /\ ~isMemoryOperand(o) /\ isXmm(o) => op \notin Integer
               /\ ~isMemoryOperand(o) /\ ~isXmm(o) => Bare(S, o.reg.n)

(* Compilation c of instruction i: what it has emitted leads from the      *)
(* first state to at, and the registers in use are among used.             *)
Underway(c, i, from, at, used) ==
  \E requests, exited, usedRegs :
    /\ c = [iclass |-> i.iclass, operands |-> i.operands, opWidth |-> i.opWidth,
            rip |-> at.rip, rspOffset |-> at.offset, requests |-> requests,
            exited |-> exited, usedRegs |-> usedRegs]
    /\ Level(at)
    /\ Tracked(requests, from, at)
    /\ usedRegs \subseteq used

(* At most n registers are in use.                                         *)
Room(used, n) == IsFiniteSet(used) /\ Cardinality(used) <= n

-----------------------------------------------------------------------------
(***************************************************************************)
(* Emission.                                                               *)
(***************************************************************************)
LEMMA AppendTracked ==
  ASSUME NEW s, NEW from, NEW at, Tracked(s, from, at), NEW r, NEW to, Leads(at, r, to)
  PROVE  Tracked(Append(s, r), from, to)
<1>1. PICK S : s \in Seq(S)
  BY DEF Tracked
<1>2. Append(s, r) = s \o <<r>>
  <2>1. s \in Seq(S \cup {r}) /\ r \in S \cup {r}
    BY <1>1, SeqMonotonic
  <2>2. QED BY <2>1, AppendIsConcat
<1>3. Tracked(<<r>>, at, to)
  BY TrackedOne
<1>4. QED BY <1>2, <1>3, TrackedConcat

(* An instruction whose effect on RSP is counted.                          *)
LEMMA EmitLeads ==
  ASSUME NEW i, NEW from, NEW at, NEW used, NEW c, Underway(c, i, from, at, used),
         NEW op, NEW args, NEW to, to.rip = at.rip, Leads(at, Request(op, args, at.offset), to)
  PROVE  Underway([Emit(c, op, args) EXCEPT !.rspOffset = to.offset], i, from, to, used)
<1> DEFINE k == at.offset
           j == to.offset
           rip == at.rip
<1>1. PICK requests, exited, usedRegs :
        /\ c = [iclass |-> i.iclass, operands |-> i.operands, opWidth |-> i.opWidth, rip |-> rip,
                rspOffset |-> k, requests |-> requests, exited |-> exited, usedRegs |-> usedRegs]
        /\ Tracked(requests, from, at)
        /\ usedRegs \subseteq used
  BY DEF Underway
<1> DEFINE r == Request(op, args, k)
           more == Append(requests, r)
           w == [Emit(c, op, args) EXCEPT !.rspOffset = j]
<1>2. Level(to)
  BY DEF Leads
<1>3. Tracked(more, from, to)
  BY <1>1, AppendTracked
<1>4. c.rspOffset = k /\ c.requests = requests
  BY <1>1
<1>5. Emit(c, op, args) = [c EXCEPT !.requests = more]
  BY <1>4 DEF Emit
<1> HIDE DEF more, k, rip
<1>6. Emit(c, op, args) =
        [iclass |-> i.iclass, operands |-> i.operands, opWidth |-> i.opWidth, rip |-> rip,
         rspOffset |-> k, requests |-> more, exited |-> exited, usedRegs |-> usedRegs]
  BY <1>1, <1>5
<1> HIDE DEF j
<1>7. w = [iclass |-> i.iclass, operands |-> i.operands, opWidth |-> i.opWidth, rip |-> rip,
           rspOffset |-> j, requests |-> more, exited |-> exited, usedRegs |-> usedRegs]
  BY <1>6
<1>8. rip = to.rip /\ j = to.offset
  BY DEF rip, j
<1> HIDE DEF w
<1>9. Underway(w, i, from, to, used)
  BY <1>1, <1>2, <1>3, <1>7, <1>8 DEF Underway
<1>10. QED BY <1>9 DEF w, j

LEMMA Fields ==
  ASSUME NEW i, NEW from, NEW at, NEW used, NEW c, Underway(c, i, from, at, used)
  PROVE  /\ c.rspOffset = at.offset /\ c.operands = i.operands /\ c.opWidth = i.opWidth
         /\ c.iclass = i.iclass /\ c.rip = at.rip /\ Tracked(c.requests, from, at)
         /\ c.usedRegs \subseteq used /\ Level(at)
BY DEF Underway

(* Something that is known is forgotten.                                   *)
LEMMA UnderwayWeaker ==
  ASSUME NEW i, NEW from, NEW at, NEW used, NEW c, Underway(c, i, from, at, used),
         NEW to, Weaker(at, to), Level(to), to.rip = at.rip
  PROVE  Underway(c, i, from, to, used)
<1>1. to.offset = at.offset
  BY DEF Weaker
<1>2. \A s : Tracked(s, from, at) => Tracked(s, from, to)
  BY TrackedWeaker, WeakerSelf
<1>3. QED BY <1>1, <1>2 DEF Underway

LEMMA EmitOffset ==
  ASSUME NEW i, NEW from, NEW at, NEW used, NEW c, Underway(c, i, from, at, used),
         NEW op, NEW args
  PROVE  /\ Emit(c, op, args) = [Emit(c, op, args) EXCEPT !.rspOffset = at.offset]
         /\ Emit(c, op, args).rspOffset = at.offset
<1> DEFINE k == at.offset
           rip == at.rip
<1>1. PICK requests, exited, usedRegs :
        c = [iclass |-> i.iclass, operands |-> i.operands, opWidth |-> i.opWidth, rip |-> rip,
             rspOffset |-> k, requests |-> requests, exited |-> exited, usedRegs |-> usedRegs]
  BY DEF Underway
<1> DEFINE more == Append(requests, Request(op, args, k))
<1> HIDE DEF k, rip
<1>2. Emit(c, op, args) = [c EXCEPT !.requests = more]
  BY <1>1 DEF Emit
<1> HIDE DEF more
<1>3. Emit(c, op, args) = [Emit(c, op, args) EXCEPT !.rspOffset = k] /\ Emit(c, op, args).rspOffset = k
  BY <1>1, <1>2
<1>4. QED BY <1>3 DEF k

LEMMA RegOpReg == \A r : RegOp(r).reg = r /\ ~isMemoryOperand(RegOp(r))
BY DEF RegOp, isMemoryOperand

LEMMA IsOperandRegOp == \A r : IsOperand(RegOp(r))
BY DEF IsOperand

(* A vector register is never one of those of which something is known.    *)
LEMMA WritableXmm ==
  ASSUME NEW S, NEW i, NEW n, NEW op, op \notin Special \cup Integer
  PROVE  Writable(S, i, op, RegOp(Xmm(n)))
BY RegOpReg, IsOperandRegOp DEF Writable, NotRsp, isXmm, Xmm, Reg

LEMMA WritableGpr ==
  ASSUME NEW S, NEW i, NEW r, r.class # "xmm", r.n # RSP.n, Bare(S, r.n), NEW op, op \notin Special
  PROVE  Writable(S, i, op, RegOp(r))
BY RegOpReg, IsOperandRegOp DEF Writable, NotRsp, NotGprRsp, isXmm

LEMMA EmitsXmm ==
  ASSUME NEW S, NEW n, NEW op, op \notin Special \cup Integer
  PROVE  Emits(S, op, RegOp(Xmm(n)))
BY RegOpReg DEF Emits, NotRsp, isXmm, Xmm, Reg

LEMMA EmitKeeps ==
  ASSUME NEW i, NEW from, NEW at, NEW used, NEW c, Underway(c, i, from, at, used),
         NEW op, NEW args, Emits(at, op, args[1])
  PROVE  Underway(Emit(c, op, args), i, from, at, used)
<1> DEFINE r == Request(op, args, at.offset)
<1>1. r.op = op /\ r.args = args /\ r.rspOffset = at.offset
  BY DEF Request
<1>2. Level(at)
  BY Fields
<1> HIDE DEF r
<1>3. Leads(at, r, at)
  BY <1>1, <1>2, WriteLeads
<1>4. Underway([Emit(c, op, args) EXCEPT !.rspOffset = at.offset], i, from, at, used)
  BY <1>3, EmitLeads DEF r
<1>5. QED BY <1>4, EmitOffset

LEMMA PushEmits ==
  ASSUME NEW i, NEW from, NEW at, NEW used, NEW c, Underway(c, i, from, at, used)
  PROVE  /\ Underway(pushf(c), i, from, Pushed(at, {}), used)
         /\ \A n \in Gprs \ {RSP.n} : Underway(push(c, R64(n)), i, from, Taken(at, n), used)
<1>1. Level(at) /\ \A op, args : Emit(c, op, args).rspOffset = at.offset
  BY EmitOffset, Fields
<1>2. Underway(pushf(c), i, from, Pushed(at, {}), used)
  <2> DEFINE args == <<>>
             r == Request("PUSHF", args, at.offset)
             none == {}
             to == Pushed(at, none)
  <2>1. r.op = "PUSHF" /\ r.rspOffset = at.offset
    BY DEF Request
  <2>2. to.offset = at.offset - 8 /\ to.rip = at.rip
    BY ChangedFields DEF Pushed
  <2>3. pushf(c) = [Emit(c, "PUSHF", args) EXCEPT !.rspOffset = at.offset - 8]
    BY <1>1 DEF pushf
  <2> HIDE DEF r, args
  <2>4. Leads(at, r, to)
    BY <1>1, <2>1, PushFlagsLeads
  <2> HIDE DEF to
  <2>5. Underway([Emit(c, "PUSHF", args) EXCEPT !.rspOffset = to.offset], i, from, to, used)
    BY <2>2, <2>4, EmitLeads DEF r
  <2>6. QED BY <2>2, <2>3, <2>5 DEF to
<1>3. ASSUME NEW n \in Gprs \ {RSP.n} PROVE Underway(push(c, R64(n)), i, from, Taken(at, n), used)
  <2> DEFINE args == <<RegOp(R64(n))>>
             r == Request("PUSH", args, at.offset)
             to == Taken(at, n)
  <2>1. r.op = "PUSH" /\ r.rspOffset = at.offset /\ r.args[1] = RegOp(R64(n))
    BY DEF Request
  <2>2. to.offset = at.offset - 8 /\ to.rip = at.rip
    BY ChangedFields DEF Taken
  <2>3. push(c, R64(n)) = [Emit(c, "PUSH", args) EXCEPT !.rspOffset = at.offset - 8]
    BY <1>1 DEF push
  <2> HIDE DEF r, args
  <2>4. Leads(at, r, to)
    BY <1>1, <2>1, PushLeads
  <2> HIDE DEF to
  <2>5. Underway([Emit(c, "PUSH", args) EXCEPT !.rspOffset = to.offset], i, from, to, used)
    BY <2>2, <2>4, EmitLeads DEF r
  <2>6. QED BY <2>2, <2>3, <2>5 DEF to
<1>4. QED BY <1>2, <1>3

LEMMA PopEmits ==
  ASSUME NEW i, NEW from, NEW at, Level(at), NEW used, NEW c
  PROVE  /\ \A V : Underway(c, i, from, Pushed(at, V), used) => Underway(popf(c), i, from, at, used)
         /\ \A n \in Gprs \ {RSP.n} :
              Underway(c, i, from, Taken(at, n), used) => Underway(pop(c, R64(n)), i, from, at, used)
<1>0. at.offset - 8 + 8 = at.offset
  BY DEF Level
<1>1. ASSUME NEW V, Underway(c, i, from, Pushed(at, V), used)
      PROVE  Underway(popf(c), i, from, at, used)
  <2> DEFINE args == <<>>
             r == Request("POPF", args, at.offset - 8)
             S == Pushed(at, V)
  <2>1. r.op = "POPF" /\ r.rspOffset = at.offset - 8
    BY DEF Request
  <2>2. S.offset = at.offset - 8 /\ S.rip = at.rip
    BY ChangedFields DEF Pushed
  <2>3. Leads(S, r, at)
    <3> HIDE DEF r
    <3>1. QED BY <2>1, PopFlagsLeads
  <2> HIDE DEF S
  <2>4. Emit(c, "POPF", args).rspOffset = at.offset - 8
    BY <1>1, <2>2, EmitOffset DEF S
  <2>5. popf(c) = [Emit(c, "POPF", args) EXCEPT !.rspOffset = at.offset]
    BY <1>0, <2>4 DEF popf
  <2> HIDE DEF args
  <2>6. QED BY <1>1, <2>2, <2>3, <2>5, EmitLeads DEF S
<1>2. ASSUME NEW n \in Gprs \ {RSP.n}, Underway(c, i, from, Taken(at, n), used)
      PROVE  Underway(pop(c, R64(n)), i, from, at, used)
  <2> DEFINE args == <<RegOp(R64(n))>>
             r == Request("POP", args, at.offset - 8)
             S == Taken(at, n)
  <2>1. r.op = "POP" /\ r.rspOffset = at.offset - 8 /\ r.args[1] = RegOp(R64(n))
    BY DEF Request
  <2>2. S.offset = at.offset - 8 /\ S.rip = at.rip
    BY ChangedFields DEF Taken
  <2>3. Leads(S, r, at)
    <3> HIDE DEF r
    <3>1. QED BY <2>1, PopLeads
  <2> HIDE DEF S
  <2>4. Emit(c, "POP", args).rspOffset = at.offset - 8
    BY <1>2, <2>2, EmitOffset DEF S
  <2>5. pop(c, R64(n)) = [Emit(c, "POP", args) EXCEPT !.rspOffset = at.offset]
    BY <1>0, <2>4 DEF pop
  <2> HIDE DEF args
  <2>6. QED BY <1>2, <2>2, <2>3, <2>5, EmitLeads DEF S
<1>3. QED BY <1>1, <1>2

(* Room is made on the stack, and given back.                              *)
LEMMA SubEmits ==
  ASSUME NEW i, NEW from, NEW at, NEW used, NEW c, Underway(c, i, from, at, used)
  PROVE  Underway(sub(c, RSP, 16), i, from, Lowered(at), used)
<1> DEFINE args == <<RegOp(RSP), ImmOp(Sym("imm", 16))>>
           r == Request("SUB", args, at.offset)
           to == Lowered(at)
<1>1. Level(at) /\ Emit(c, "SUB", args).rspOffset = at.offset
  BY EmitOffset, Fields
<1>2. sub(c, RSP, 16) = [Emit(c, "SUB", args) EXCEPT !.rspOffset = at.offset - 16]
  BY <1>1 DEF sub
<1>3. to.offset = at.offset - 16 /\ to.rip = at.rip
  BY ChangedFields DEF Lowered
<1>4. args[1].reg = RSP /\ immValue(args[2]) = 16
  BY DEF immValue, ImmOp, Sym, RegOp
<1> HIDE DEF args
<1>5. r.op = "SUB" /\ r.rspOffset = at.offset /\ r.args = args
  BY DEF Request
<1> HIDE DEF r
<1>6. Leads(at, r, to)
  BY <1>1, <1>4, <1>5, SubLeads
<1> HIDE DEF to
<1>7. Underway([Emit(c, "SUB", args) EXCEPT !.rspOffset = to.offset], i, from, to, used)
  BY <1>3, <1>6, EmitLeads DEF r
<1>8. QED BY <1>2, <1>3, <1>7 DEF to

LEMMA AddEmits ==
  ASSUME NEW i, NEW from, NEW at, Level(at), NEW used, NEW c, Underway(c, i, from, Lowered(at), used)
  PROVE  Underway(add(c, RSP, 16), i, from, at, used)
<1> DEFINE args == <<RegOp(RSP), ImmOp(Sym("imm", 16))>>
           S == Lowered(at)
           r == Request("ADD", args, at.offset - 16)
<1>1. S.offset = at.offset - 16 /\ S.rip = at.rip /\ at.offset - 16 + 16 = at.offset
  BY ChangedFields DEF Lowered, Level
<1>2. args[1].reg = RSP /\ immValue(args[2]) = 16
  BY DEF immValue, ImmOp, Sym, RegOp
<1>3. r.op = "ADD" /\ r.rspOffset = at.offset - 16 /\ r.args = args
  BY DEF Request
<1>4. Leads(S, r, at)
  <2> HIDE DEF r, args
  <2>1. QED BY <1>2, <1>3, AddLeads
<1> HIDE DEF S
<1>5. Emit(c, "ADD", args).rspOffset = at.offset - 16
  BY <1>1, EmitOffset DEF S
<1>6. add(c, RSP, 16) = [Emit(c, "ADD", args) EXCEPT !.rspOffset = at.offset]
  BY <1>1, <1>5 DEF add
<1> HIDE DEF args
<1>7. QED BY <1>1, <1>4, <1>6, EmitLeads DEF S

(* A register is given a value, or loses what it had.                      *)
LEMMA MovConstEmits ==
  ASSUME NEW i, NEW from, NEW at, NEW used, NEW c, Underway(c, i, from, at, used),
         NEW n, n # RSP.n, NEW v, at.sure => Whole64(v)
  PROVE  Underway(MovConst(c, R64(n), v), i, from, Holding(at, n, {v}), used)
<1> DEFINE args == <<RegOp(R64(n)), ImmOp(v)>>
           r == Request("MOV", args, at.offset)
           V == {v}
           to == Holding(at, n, V)
<1>1. Level(at)
  BY Fields
<1>2. r.op = "MOV" /\ r.rspOffset = at.offset /\ r.args[1] = RegOp(R64(n)) /\ r.args[2] = ImmOp(v)
  BY DEF Request
<1>3. to.offset = at.offset /\ to.rip = at.rip
  BY HoldingFields
<1> HIDE DEF r, args
<1>4. Leads(at, r, to)
  BY <1>1, <1>2, MovImmLeads
<1> HIDE DEF to
<1>5. Underway([Emit(c, "MOV", args) EXCEPT !.rspOffset = to.offset], i, from, to, used)
  BY <1>3, <1>4, EmitLeads DEF r
<1>6. MovConst(c, R64(n), v) = Emit(c, "MOV", args)
  BY DEF MovConst, args
<1>7. QED BY <1>3, <1>5, <1>6, EmitOffset DEF to

LEMMA MovRegEmits ==
  ASSUME NEW i, NEW from, NEW at, NEW used, NEW c, Underway(c, i, from, at, used),
         NEW n, n # RSP.n, NEW k \in Gprs \ {RSP.n}, NEW args,
         args[1] = RegOp(R64(n)), args[2] = RegOp(R64(k))
  PROVE  Underway(Emit(c, "MOV", args), i, from, Holding(at, n, at.regs[k]), used)
<1> DEFINE r == Request("MOV", args, at.offset)
           V == at.regs[k]
           to == Holding(at, n, V)
<1>1. Level(at)
  BY Fields
<1>2. r.op = "MOV" /\ r.rspOffset = at.offset /\ r.args = args
  BY DEF Request
<1>3. to.offset = at.offset /\ to.rip = at.rip
  BY HoldingFields
<1> HIDE DEF r
<1>4. Leads(at, r, to)
  BY <1>1, <1>2, MovRegLeads
<1> HIDE DEF to
<1>5. Underway([Emit(c, "MOV", args) EXCEPT !.rspOffset = to.offset], i, from, to, used)
  BY <1>3, <1>4, EmitLeads DEF r
<1>6. QED BY <1>3, <1>5, EmitOffset DEF to

LEMMA CallEmits ==
  ASSUME NEW i, NEW from, NEW at, NEW used, NEW c, Underway(c, i, from, at, used), NEW r
  PROVE  Underway(call(c, r), i, from, Holding(at, 0, {Sym("storage", 0)}), used)
<1> DEFINE args == <<RegOp(r)>>
           s == Request("CALL", args, at.offset)
           V == {Sym("storage", 0)}
           to == Holding(at, 0, V)
<1>1. Level(at)
  BY Fields
<1>2. s.op = "CALL" /\ s.rspOffset = at.offset
  BY DEF Request
<1>3. to.offset = at.offset /\ to.rip = at.rip
  BY HoldingFields
<1> HIDE DEF s, args
<1>4. Leads(at, s, to)
  BY <1>1, <1>2, CallLeads
<1> HIDE DEF to
<1>5. Underway([Emit(c, "CALL", args) EXCEPT !.rspOffset = to.offset], i, from, to, used)
  BY <1>3, <1>4, EmitLeads DEF s
<1>6. QED BY <1>3, <1>5, EmitOffset DEF to, call, args

-----------------------------------------------------------------------------
(***************************************************************************)
(* Scratch registers.                                                      *)
(***************************************************************************)
LEMMA UseReturns ==
  ASSUME NEW i, NEW from, NEW at, NEW used, NEW c, NEW r
  PROVE  /\ Underway(c, i, from, at, used) => Underway(use(c, r), i, from, at, used \cup {r})
         /\ Underway(c, i, from, at, used \cup {r}) => Underway(returnReg(c, r), i, from, at, used)
<1> DEFINE k == at.offset
           rip == at.rip
<1> HIDE DEF k, rip
<1>1. ASSUME NEW d, NEW requests, NEW exited, NEW regs, NEW more,
             d = [iclass |-> i.iclass, operands |-> i.operands, opWidth |-> i.opWidth, rip |-> rip,
                  rspOffset |-> k, requests |-> requests, exited |-> exited, usedRegs |-> regs],
             Level(at), Tracked(requests, from, at), NEW among, more \subseteq among
      PROVE  Underway([d EXCEPT !.usedRegs = more], i, from, at, among)
  <2>1. [d EXCEPT !.usedRegs = more] =
          [iclass |-> i.iclass, operands |-> i.operands, opWidth |-> i.opWidth, rip |-> rip,
           rspOffset |-> k, requests |-> requests, exited |-> exited, usedRegs |-> more]
    BY <1>1
  <2>2. QED BY <1>1, <2>1 DEF Underway, k, rip
<1>2. ASSUME Underway(c, i, from, at, used)
      PROVE  Underway(use(c, r), i, from, at, used \cup {r})
  <2>1. PICK requests, exited, regs :
          /\ c = [iclass |-> i.iclass, operands |-> i.operands, opWidth |-> i.opWidth, rip |-> rip,
                  rspOffset |-> k, requests |-> requests, exited |-> exited, usedRegs |-> regs]
          /\ Level(at)
          /\ Tracked(requests, from, at)
          /\ regs \subseteq used
    BY <1>2 DEF Underway, k, rip
  <2> DEFINE more == regs \cup {r}
  <2>2. use(c, r) = [c EXCEPT !.usedRegs = more] /\ more \subseteq used \cup {r}
    BY <2>1 DEF use
  <2> HIDE DEF more
  <2>3. QED BY <1>1, <2>1, <2>2
<1>3. ASSUME Underway(c, i, from, at, used \cup {r})
      PROVE  Underway(returnReg(c, r), i, from, at, used)
  <2>1. PICK requests, exited, regs :
          /\ c = [iclass |-> i.iclass, operands |-> i.operands, opWidth |-> i.opWidth, rip |-> rip,
                  rspOffset |-> k, requests |-> requests, exited |-> exited, usedRegs |-> regs]
          /\ Level(at)
          /\ Tracked(requests, from, at)
          /\ regs \subseteq used \cup {r}
    BY <1>3 DEF Underway, k, rip
  <2> DEFINE more == regs \ {r}
  <2>2. returnReg(c, r) = [c EXCEPT !.usedRegs = more] /\ more \subseteq used
    BY <2>1 DEF returnReg
  <2> HIDE DEF more
  <2>3. QED BY <1>1, <2>1, <2>2
<1>4. QED BY <1>2, <1>3

LEMMA Takes ==
  ASSUME NEW i, NEW from, NEW at, NEW used, NEW c, Underway(c, i, from, at, used),
         NEW n \in Gprs \ {RSP.n}
  PROVE  Underway(takeReg(c, R64(n)), i, from, Taken(at, n), used \cup {R64(n)})
BY UseReturns, PushEmits DEF takeReg

LEMMA GivesBack ==
  ASSUME NEW i, NEW from, NEW at, Level(at), NEW used, NEW n \in Gprs \ {RSP.n}, NEW c,
         Underway(c, i, from, Taken(at, n), used \cup {R64(n)})
  PROVE  Underway(giveBackReg(c, R64(n)), i, from, at, used)
BY UseReturns, PopEmits DEF giveBackReg

LEMMA RoomMore ==
  ASSUME NEW used, NEW n \in Nat, Room(used, n), NEW r
  PROVE  Room(used \cup {r}, n + 1)
<1>1. Cardinality(used) \in Nat
  BY FS_CardinalityType DEF Room
<1>2. QED BY <1>1, FS_AddElement DEF Room

(* The fourteen registers getUnusedReg chooses from: there is one to       *)
(* spare, and RSP is not among them.                                       *)
LEMMA UnusedReg ==
  ASSUME NEW i, NEW from, NEW at, NEW used, NEW c, Underway(c, i, from, at, used), Room(used, 13)
  PROVE  \E n \in Gprs \ {RSP.n} : getUnusedReg(c) = R64(n) /\ R64(n) \notin c.usedRegs
<1> DEFINE regs == c.usedRegs
           gpr(k) == R64(gprs[k])
           Open(k) == gpr(k) \notin regs /\ \A j \in 1 .. k - 1 : gpr(j) \in regs
<1>1. Len(gprs) = 14 /\ \A k \in 1 .. 14 : gprs[k] \in 0 .. 15 /\ gprs[k] # 4
  BY DEF gprs
<1>2. \A j, k \in 1 .. 14 : gpr(j) = gpr(k) => j = k
  <2>1. \A j, k \in 1 .. 14 : gprs[j] = gprs[k] => j = k
    BY DEF gprs
  <2>2. \A m, n : R64(m) = R64(n) => m = n
    BY DEF R64, Reg
  <2>3. QED BY <2>1, <2>2
<1>3. \E k \in 1 .. 14 : Open(k)
  <2> SUFFICES ASSUME \A k \in 1 .. 14 : ~Open(k) PROVE FALSE
    OBVIOUS
  <2> DEFINE S == {k \in 0 .. 14 : \A j \in 1 .. k : gpr(j) \in regs}
  <2>1. 0 \in S
    OBVIOUS
  <2>2. ASSUME NEW k \in 0 .. 14 - 1, k \in S PROVE k + 1 \in S
    <3>1. k + 1 \in 1 .. 14 /\ k + 1 - 1 = k /\ \A j \in 1 .. k + 1 : j = k + 1 \/ j \in 1 .. k
      OBVIOUS
    <3>2. gpr(k + 1) \in regs
      BY <2>2, <3>1
    <3>3. QED BY <2>2, <3>1, <3>2
  <2>3. 14 \in S
    <3> HIDE DEF S
    <3>1. \A k \in 0 .. 14 : k \in S
      BY <2>1, <2>2, UpTo
    <3>2. QED BY <3>1
  <2>4. \A k \in 1 .. 14 : gpr(k) \in used
    <3>1. regs \subseteq used
      BY Fields
    <3>2. \A k \in 1 .. 14 : gpr(k) \in regs
      BY <2>3
    <3> HIDE DEF regs
    <3>3. QED BY <3>1, <3>2
  <2> DEFINE f == [k \in 1 .. 14 |-> gpr(k)]
  <2>5. f \in Injection(1 .. 14, used)
    BY <1>2, <2>4 DEF Injection, IsInjective
  <2>6. Cardinality(1 .. 14) = 14
    <3>1. \A n \in Nat : Cardinality(1 .. n) = n
      <4>1. TAKE n \in Nat
      <4>2. Cardinality(1 .. n) = IF 1 > n THEN 0 ELSE n - 1 + 1
        BY FS_Interval
      <4>3. QED BY <4>2
    <3>2. QED BY <3>1
  <2> HIDE DEF f
  <2>7. 14 <= Cardinality(used)
    BY <2>5, <2>6, FS_Injection DEF Room
  <2>8. QED BY <2>7, FS_CardinalityType DEF Room
<1> DEFINE chosen == CHOOSE k \in 1 .. Len(gprs) : Open(k)
<1>4. getUnusedReg(c) = gpr(chosen)
  BY DEF getUnusedReg
<1>5. chosen \in 1 .. 14 /\ Open(chosen)
  BY <1>1, <1>3
<1> HIDE DEF chosen
<1>6. gpr(chosen) = R64(gprs[chosen]) /\ gprs[chosen] \in 0 .. 15 /\ gprs[chosen] # RSP.n
  BY <1>1, <1>5, RspFacts
<1>7. 0 .. 15 \subseteq Gprs
  BY RegistersAssumption
<1> HIDE DEF gpr, Open
<1>8. R64(gprs[chosen]) \notin regs
  BY <1>5, <1>6 DEF Open
<1>9. QED BY <1>4, <1>6, <1>7, <1>8

-----------------------------------------------------------------------------
(***************************************************************************)
(* Operands.                                                               *)
(***************************************************************************)

(* A substituted operand is a destination if the operand was one.          *)
LEMMA Substituted ==
  ASSUME NEW o, IsOperand(o), NotRsp(o), NEW r, NEW d, NEW p, p \in {substRip(o, r), offsetRsp(o, d)}
  PROVE  /\ NotRsp(p) /\ (NotGprRsp(o) => NotGprRsp(p))
         /\ isMemoryOperand(p) = isMemoryOperand(o)
         /\ isMemoryOperand(o) => p.width = o.width
         /\ ~isMemoryOperand(o) => p = o
<1>1. CASE ~isMemoryOperand(o)
  <2>1. substRip(o, r) = o /\ offsetRsp(o, d) = o
    BY <1>1 DEF substRip, offsetRsp
  <2>2. QED BY <1>1, <2>1
<1>2. CASE isMemoryOperand(o)
  <2>1. PICK base, index, disp, width : o = MemOp(base, index, disp, width)
    <3>1. \A x : RegOp(x).kind = "reg" /\ ImmOp(x).kind = "imm"
      BY DEF RegOp, ImmOp
    <3>2. QED BY <1>2, <3>1 DEF IsOperand, isMemoryOperand
  <2>2. \A b, x, n : LET q == MemOp(b, x, n, width)
                     IN  NotRsp(q) /\ (NotGprRsp(o) => NotGprRsp(q)) /\ isMemoryOperand(q) /\ q.width = o.width
    <3>1. \A b, x, n, w : LET q == MemOp(b, x, n, w)
                          IN  q.kind = "mem" /\ q.reg = INVALID /\ q.width = w
      BY DEF MemOp
    <3>2. o.kind = "mem" /\ o.reg = INVALID /\ o.width = width
      BY <2>1, <3>1
    <3>3. QED BY <3>1, <3>2 DEF NotRsp, NotGprRsp, isMemoryOperand, isXmm
  <2>3. \E b, x, n : substRip(o, r) = MemOp(b, x, n, width)
    <3> DEFINE b == IF base = RIP THEN r ELSE base
               x == IF index = RIP THEN r ELSE index
    <3>1. o.base = base /\ o.index = index
      BY <2>1 DEF MemOp
    <3>2. substRip(o, r) = [o EXCEPT !.base = b, !.index = x]
      BY <1>2, <3>1 DEF substRip
    <3> HIDE DEF b, x
    <3>3. substRip(o, r) = MemOp(b, x, disp, width)
      BY <2>1, <3>2 DEF MemOp
    <3>4. QED BY <3>3
  <2>4. \E b, x, n : offsetRsp(o, d) = MemOp(b, x, n, width)
    <3> DEFINE n == o.disp - d
    <3>1. offsetRsp(o, d) \in {o, [o EXCEPT !.disp = n]}
      BY DEF offsetRsp
    <3> HIDE DEF n
    <3>2. [o EXCEPT !.disp = n] = MemOp(base, index, n, width)
      BY <2>1, <3>1 DEF MemOp
    <3>3. QED BY <2>1, <3>1, <3>2
  <2>5. \E b, x, n : p = MemOp(b, x, n, width)
    BY <2>3, <2>4
  <2>6. QED BY <1>2, <2>2, <2>5
<1>3. QED BY <1>1, <1>2

LEMMA WritableEmits ==
  ASSUME NEW S, NEW i, NEW op, NEW o, Writable(S, i, op, o), NEW r, NEW d,
         NEW p, p \in {o, substRip(o, r), offsetRsp(o, d)}, NEW T, T.sure = S.sure,
         S.sure => /\ isMemoryOperand(o) => Lands(T, p)
                   /\ ~isMemoryOperand(o) => \A n : Bare(S, n) => Bare(T, n)
  PROVE  Emits(T, op, p)
<1>1. /\ NotRsp(p) /\ (NotGprRsp(o) => NotGprRsp(p))
      /\ isMemoryOperand(p) = isMemoryOperand(o)
      /\ isMemoryOperand(o) => p.width = o.width
      /\ ~isMemoryOperand(o) => p = o
  <2>1. IsOperand(o) /\ NotRsp(o)
    BY DEF Writable
  <2>2. CASE p = o
    BY <2>1, <2>2
  <2>3. CASE p \in {substRip(o, r), offsetRsp(o, d)}
    BY <2>1, <2>3, Substituted
  <2>4. QED BY <2>2, <2>3
<1>2. CASE isMemoryOperand(o)
  BY <1>1, <1>2 DEF Writable, Emits
<1>3. CASE ~isMemoryOperand(o)
  BY <1>1, <1>3 DEF Writable, Emits
<1>4. QED BY <1>2, <1>3

(* The general registers that are known while R64(n) is borrowed.          *)
LEMMA TakenFields ==
  ASSUME NEW S, NEW n
  PROVE  LET T == Taken(S, n)
         IN  /\ T.offset = S.offset - 8 /\ T.words = Above(S, S.regs[n]) /\ T.dest = S.dest
             /\ T.rip = S.rip /\ T.target = S.target /\ T.sure = S.sure
             /\ \A x \in Gprs : T.regs[x] = IF x = n THEN {} ELSE S.regs[x]
<1> DEFINE T == Taken(S, n)
           regs == Without(S, n)
<1>1. /\ T.offset = S.offset - 8 /\ T.words = Above(S, S.regs[n]) /\ T.dest = S.dest
      /\ T.rip = S.rip /\ T.target = S.target /\ T.sure = S.sure /\ T.regs = regs
  BY ChangedFields DEF Taken
<1>2. \A x \in Gprs : regs[x] = IF x = n THEN {} ELSE S.regs[x]
  BY DEF Without
<1> HIDE DEF T, regs
<1>3. \A x \in Gprs : T.regs[x] = IF x = n THEN {} ELSE S.regs[x]
  BY <1>1, <1>2
<1>4. QED BY <1>1, <1>3 DEF T

LEMMA TakenBare ==
  ASSUME NEW S, NEW n
  PROVE  /\ Bare(Taken(S, n), n)
         /\ \A k : Bare(S, k) => Bare(Taken(S, n), k)
<1> DEFINE T == Taken(S, n)
<1>1. T.sure = S.sure /\ \A x \in Gprs : T.regs[x] = IF x = n THEN {} ELSE S.regs[x]
  BY TakenFields
<1> HIDE DEF T
<1>2. QED BY <1>1 DEF Bare, T

LEMMA HeldForgotten ==
  ASSUME NEW S, Level(S), NEW n, NEW V, Bare(S, n)
  PROVE  Weaker(Holding(S, n, V), S)
<1> DEFINE T == Holding(S, n, V)
<1>1. /\ T.offset = S.offset /\ T.words = S.words /\ T.dest = S.dest
      /\ T.target = S.target /\ T.sure = S.sure
      /\ \A x \in Gprs : T.regs[x] = IF x = n THEN V ELSE S.regs[x]
  BY HoldingFields
<1> HIDE DEF T
<1>2. Implied(T, S)
  BY <1>1 DEF Implied, Bare
<1>3. QED BY <1>1, <1>2, ImpliedWeaker DEF Same, T

LEMMA SubstitutionKeeps ==
  ASSUME NEW i, NEW from, NEW at, NEW used, Room(used, 13),
         NEW c, Underway(c, i, from, at, used),
         NEW op, NEW args, Len(args) \in Nat, Len(args) >= 1, Writable(at, i, op, args[1])
  PROVE  Underway(withRipSubstitution(c, op, args), i, from, at, used)
<1>1. 1 \in 1 .. Len(args)
  OBVIOUS
<1>2. c.rip = at.rip /\ c.rspOffset = at.offset /\ Level(at)
      /\ usesRipAddressing(c) = usesRipAddressing(i) /\ usesRspAddressing(c) = usesRspAddressing(i)
  BY Fields DEF usesRipAddressing, usesRspAddressing
<1> DEFINE o == args[1]
<1>3. CASE usesRipAddressing(c)
  <2>1. PICK n \in Gprs \ {RSP.n} : getUnusedReg(c) = R64(n)
    BY UnusedReg
  <2> DEFINE r == R64(n)
             rip == at.rip
             V == {rip}
             subst == [k \in 1 .. Len(args) |-> substRip(args[k], r)]
             d == takeReg(c, r)
             e == MovConst(d, r, rip)
             f == Emit(e, op, subst)
             S == Taken(at, n)
             T == Holding(S, n, V)
             more == used \cup {r}
  <2>2. withRipSubstitution(c, op, args) = giveBackReg(f, r)
    BY <1>2, <1>3, <2>1 DEF withRipSubstitution, ripInReg
  <2>3. subst[1] = substRip(o, r)
    BY <1>1
  <2>4. Underway(d, i, from, S, more)
    BY Takes
  <2>5. Level(S) /\ Bare(S, n) /\ S.sure = at.sure /\ S.rip = at.rip
    BY <1>2, ChangedLevel, TakenBare, TakenFields
  <2>6. T.sure = S.sure /\ T.rip = S.rip
    BY HoldingFields
  <2>7. Weaker(T, S)
    BY <2>5, HeldForgotten
  <2> HIDE DEF d
  <2>8. Underway(e, i, from, T, more)
    BY <1>2, <2>4, <2>5, MovConstEmits DEF Level
  <2>9. at.sure => (isMemoryOperand(o) => Lands(T, substRip(o, r)))
    BY <1>2, <1>3 DEF Writable, Target
  <2>10. \A k : Bare(at, k) => Bare(S, k)
    BY TakenBare
  <2> HIDE DEF S, T, V, e, subst, o
  <2>11. Underway(f, i, from, S, more)
    <3>1. CASE isMemoryOperand(o)
      <4>1. Emits(T, op, subst[1])
        BY <2>3, <2>5, <2>6, <2>9, <3>1, WritableEmits DEF o
      <4>2. Underway(f, i, from, T, more)
        BY <2>8, <4>1, EmitKeeps
      <4> HIDE DEF f
      <4>3. QED BY <2>5, <2>6, <2>7, <4>2, UnderwayWeaker
    <3>2. CASE ~isMemoryOperand(o)
      <4>1. Emits(S, op, subst[1])
        BY <2>3, <2>5, <2>10, <3>2, WritableEmits DEF o
      <4>2. Underway(e, i, from, S, more)
        BY <2>5, <2>6, <2>7, <2>8, UnderwayWeaker
      <4>3. QED BY <4>1, <4>2, EmitKeeps
    <3>3. QED BY <3>1, <3>2
  <2> HIDE DEF f
  <2>12. QED BY <1>2, <2>2, <2>11, GivesBack DEF S
<1>4. CASE ~usesRipAddressing(c) /\ usesRspAddressing(c)
  <2> DEFINE offset == [k \in 1 .. Len(args) |-> offsetRsp(args[k], at.offset)]
  <2>1. withRipSubstitution(c, op, args) = Emit(c, op, offset)
    BY <1>2, <1>4 DEF withRipSubstitution
  <2>2. offset[1] = offsetRsp(o, at.offset)
    BY <1>1
  <2>3. at.sure => (isMemoryOperand(o) => Lands(at, offsetRsp(o, at.offset)))
    BY <1>2, <1>4 DEF Writable, Target
  <2> HIDE DEF offset
  <2>4. Emits(at, op, offset[1])
    BY <2>2, <2>3, WritableEmits
  <2>5. QED BY <2>1, <2>4, EmitKeeps
<1>5. CASE ~usesRipAddressing(c) /\ ~usesRspAddressing(c)
  <2>1. at.sure => (isMemoryOperand(o) => Lands(at, o))
    BY <1>2, <1>5 DEF Writable, Target
  <2>2. Emits(at, op, o)
    BY <2>1, WritableEmits
  <2>3. QED BY <1>5, <2>2, EmitKeeps DEF withRipSubstitution
<1>6. QED BY <1>3, <1>4, <1>5

LEMMA OpKeeps ==
  ASSUME NEW i, NEW from, NEW at, NEW used, Room(used, 13),
         NEW c, Underway(c, i, from, at, used), NEW op, NEW a, Writable(at, i, op, a), NEW b, NEW imm
  PROVE  /\ Underway(op1(c, op, a), i, from, at, used)
         /\ Underway(op2(c, op, a, b), i, from, at, used)
         /\ Underway(op3(c, op, a, b, imm), i, from, at, used)
<1>1. /\ Len(<<a>>) = 1 /\ <<a>>[1] = a
      /\ Len(<<a, b>>) = 2 /\ <<a, b>>[1] = a
      /\ Len(<<a, b, imm>>) = 3 /\ <<a, b, imm>>[1] = a
  OBVIOUS
<1>2. Underway(withRipSubstitution(c, op, <<a>>), i, from, at, used)
  BY <1>1, SubstitutionKeeps
<1>3. Underway(withRipSubstitution(c, op, <<a, b>>), i, from, at, used)
  BY <1>1, SubstitutionKeeps
<1>4. Underway(withRipSubstitution(c, op, <<a, b, imm>>), i, from, at, used)
  BY <1>1, SubstitutionKeeps
<1>5. QED BY <1>2, <1>3, <1>4 DEF op1, op2, op3

LEMMA MovKeeps ==
  ASSUME NEW i, NEW from, NEW at, NEW used, Room(used, 13),
         NEW c, Underway(c, i, from, at, used), NEW a, NEW b
  PROVE  /\ Writable(at, i, "MOV", a) => Underway(mov(c, a, b), i, from, at, used)
         /\ Writable(at, i, "MOVUPS", a) => Underway(movups(c, a, b), i, from, at, used)
<1>1. mov(c, a, b) = op2(c, "MOV", a, b) /\ movups(c, a, b) = op2(c, "MOVUPS", a, b)
  BY DEF mov, movups, op2
<1>2. QED BY <1>1, OpKeeps

LEMMA MovupsRawKeeps ==
  ASSUME NEW i, NEW from, NEW at, NEW used, NEW c, Underway(c, i, from, at, used),
         NEW a, Emits(at, "MOVUPS", a), NEW b
  PROVE  Underway(movups_raw(c, a, b), i, from, at, used)
<1> DEFINE args == <<a, b>>
<1>1. movups_raw(c, a, b) = Emit(c, "MOVUPS", args) /\ args[1] = a
  BY DEF movups_raw
<1> HIDE DEF args
<1>2. QED BY <1>1, EmitKeeps

-----------------------------------------------------------------------------
(***************************************************************************)
(* What the implementations share.                                         *)
(***************************************************************************)
LEMMA MoveOps ==
  /\ "MOVUPS" \notin Special \cup Integer
  /\ "MOVDQU" \notin Special \cup Integer
  /\ "XORPS" \notin Special \cup Integer
  /\ "MOV" \notin Special
BY DEF Special, Pushes, Pops, Integer, Alu

LEMMA MemoryEmits ==
  ASSUME NEW S, NEW op \in {"MOVUPS", "MOVDQU"}, NEW base, NEW index, NEW disp,
         S.sure => Lands(S, MemOp(base, index, disp, 128))
  PROVE  Emits(S, op, MemOp(base, index, disp, 128))
<1> DEFINE o == MemOp(base, index, disp, 128)
<1>1. isMemoryOperand(o) /\ o.reg = INVALID /\ o.width = 128
  BY DEF MemOp, isMemoryOperand
<1>2. INVALID.class = "invalid" /\ INVALID.n = 0
  BY DEF INVALID, Reg
<1> HIDE DEF o
<1>3. ~isXmm(o) /\ o.reg.n # RSP.n
  BY <1>1, <1>2, RspFacts DEF isXmm
<1>4. op \notin Special \cup Integer
  BY MoveOps
<1>5. Emits(S, op, o)
  BY <1>1, <1>3, <1>4 DEF Emits, NotRsp, NotGprRsp, o
<1>6. QED BY <1>5 DEF o

(* What is saved below RSP overwrites nothing.                             *)
LEMMA XmmTopEmits ==
  ASSUME NEW S, Level(S)
  PROVE  Emits(Lowered(S), "MOVDQU", XmmTop)
<1> DEFINE T == Lowered(S)
<1>1. T.offset = S.offset - 16 /\ T.words = Above(S, {}) /\ T.dest = S.dest /\ S.offset \in Int
      /\ S.offset <= 0
  BY ChangedFields DEF Lowered, Level
<1>2. \A k \in Int : ~(k >= S.offset) => T.words[k] = {}
  <2> SUFFICES ASSUME NEW k \in Int, ~(k >= S.offset) PROVE Above(S, {})[k] = {}
    BY <1>1
  <2>1. Above(S, {})[k] = IF k = S.offset - 8 THEN {} ELSE {}
    BY DEF Above
  <2>2. QED BY <2>1
<1> HIDE DEF T
<1>3. ASSUME NEW m, Sat(m, T), NEW j \in {0, 4, 8, 12} PROVE Free(T, At(EA(m, XmmTop), j))
  <2> DEFINE k == S.offset - 16
             a == Stk(k + j)
  <2>1. m.gpr[RSP.n] = Stk(k)
    BY <1>1, <1>3 DEF Sat, RspAt, Stk
  <2>2. EA(m, XmmTop) = At(Stk(k), 0)
    <3>1. XmmTop.base = RSP /\ XmmTop.index = INVALID /\ XmmTop.disp = 0
      BY DEF XmmTop, MemOp
    <3>2. RegVal(m, RSP) = Stk(k)
      BY <2>1, RspFacts DEF RegVal
    <3>3. QED BY <3>1, <3>2 DEF EA
  <2>3. k \in Int /\ k + 0 = k /\ j \in Int /\ k + j \in Int /\ k + j < 0 /\ k + j < S.offset
    BY <1>1
  <2>4. At(EA(m, XmmTop), j) = a
    <3> HIDE DEF k
    <3>1. At(Stk(k), 0) = Stk(k + 0)
      BY <2>3, AtStk
    <3>2. At(Stk(k), j) = Stk(k + j)
      BY <2>3, AtStk
    <3>3. QED BY <2>2, <2>3, <3>1, <3>2
  <2>5. OnStack(a)
    BY <2>3, StkOnStack
  <2>6. ASSUME InWord(T, a) PROVE FALSE
    <3>1. PICK x \in Int : T.words[x] # {} /\ a \in {Stk(x), Stk(x + 4)}
      BY <2>6 DEF InWord
    <3>2. x >= S.offset
      BY <1>2, <3>1
    <3> HIDE DEF k
    <3>3. k + j = x \/ k + j = x + 4
      BY <3>1, StkSame
    <3>4. QED BY <1>1, <2>3, <3>2, <3>3
  <2>7. QED BY <2>4, <2>5, <2>6 DEF Free, Allowed
<1>4. Lands(T, XmmTop)
  BY <1>3 DEF Lands
<1>5. QED BY <1>4, MemoryEmits DEF XmmTop, T

LEMMA Preserves ==
  ASSUME NEW i, NEW from, NEW at, NEW used, NEW c, Underway(c, i, from, at, used), NEW n
  PROVE  Underway(preserveXmmReg(c, n), i, from, Lowered(at), used)
<1> DEFINE d == sub(c, RSP, XmmRoom)
           args == <<XmmTop, RegOp(Xmm(n))>>
<1>1. Underway(d, i, from, Lowered(at), used)
  BY SubEmits DEF XmmRoom
<1>2. args[1] = XmmTop
  OBVIOUS
<1> HIDE DEF d, args
<1>3. Emits(Lowered(at), "MOVDQU", args[1])
  BY <1>2, XmmTopEmits, Fields
<1>4. Underway(Emit(d, "MOVDQU", args), i, from, Lowered(at), used)
  BY <1>1, <1>3, EmitKeeps
<1>5. QED BY <1>4 DEF preserveXmmReg, XmmMove, d, args

LEMMA Restores ==
  ASSUME NEW i, NEW from, NEW at, Level(at), NEW used, NEW c, Underway(c, i, from, Lowered(at), used),
         NEW n
  PROVE  Underway(restoreXmmReg(c, n), i, from, at, used)
<1> DEFINE args == <<RegOp(Xmm(n)), XmmTop>>
           d == Emit(c, "MOVDQU", args)
<1>1. args[1] = RegOp(Xmm(n))
  OBVIOUS
<1> HIDE DEF args
<1>2. Emits(Lowered(at), "MOVDQU", args[1])
  BY <1>1, EmitsXmm, MoveOps
<1>3. Underway(d, i, from, Lowered(at), used)
  BY <1>2, EmitKeeps
<1>4. restoreXmmReg(c, n) = add(d, RSP, 16)
  BY DEF restoreXmmReg, XmmMove, XmmRoom, args
<1> HIDE DEF d
<1>5. QED BY <1>3, <1>4, AddEmits

(* RBX and RAX are borrowed, and the thread's storage is in RAX.           *)
Stored(S) == Holding(Taken(Taken(S, 3), 0), 0, {Sym("storage", 0)})

LEMMA StorageRegs == RBX = R64(3) /\ RAX = R64(0) /\ 3 \in Gprs \ {RSP.n} /\ 0 \in Gprs \ {RSP.n}
BY RspFacts, RegistersAssumption DEF RBX, RAX

LEMMA StoredFields ==
  ASSUME NEW S, Level(S)
  PROVE  /\ Level(Stored(S)) /\ Stored(S).rip = S.rip /\ Stored(S).sure = S.sure
         /\ Stored(S).regs[0] = {Sym("storage", 0)}
<1> DEFINE A == Taken(S, 3)
           B == Taken(A, 0)
           V == {Sym("storage", 0)}
           T == Holding(B, 0, V)
<1>1. Level(A) /\ A.rip = S.rip /\ A.sure = S.sure
  BY ChangedLevel, TakenFields
<1> HIDE DEF A
<1>2. Level(B) /\ B.rip = A.rip /\ B.sure = A.sure
  BY <1>1, ChangedLevel, TakenFields
<1> HIDE DEF B
<1>3. Level(T)
  BY <1>2, ChangedLevel
<1>4. T.rip = B.rip /\ T.sure = B.sure /\ \A x \in Gprs : T.regs[x] = IF x = 0 THEN V ELSE B.regs[x]
  BY HoldingFields
<1> HIDE DEF T
<1>5. T.regs[0] = V
  BY <1>4, StorageRegs
<1>6. QED BY <1>1, <1>2, <1>3, <1>4, <1>5 DEF Stored, T, B, A

LEMMA EntersStorage ==
  ASSUME NEW i, NEW from, NEW at, NEW used, NEW c, Underway(c, i, from, at, used)
  PROVE  Underway(enterStorage(c), i, from, Stored(at), (used \cup {RBX}) \cup {RAX})
<1> DEFINE s == Sym("get_ymm_storage", 0)
           t == takeReg(c, RBX)
           d == MovConst(t, RBX, s)
           e == takeReg(d, RAX)
           V == {s}
           A == Taken(at, 3)
           H == Holding(A, 3, V)
           B == Taken(A, 0)
           inB == used \cup {RBX}
           inA == inB \cup {RAX}
<1>1. enterStorage(c) = call(e, RBX)
  BY DEF enterStorage
<1>2. Whole64(s)
  BY SymWhole DEF Sym
<1>3. Level(at)
  BY Fields
<1>4. Level(A) /\ Bare(A, 3)
  BY <1>3, ChangedLevel, TakenBare
<1>5. Underway(t, i, from, A, inB)
  BY StorageRegs, Takes
<1>6. H.rip = A.rip
  BY HoldingFields
<1>7. Weaker(H, A)
  BY <1>4, HeldForgotten
<1> HIDE DEF t, A, inB, s
<1>8. Underway(d, i, from, H, inB)
  BY <1>2, <1>5, StorageRegs, MovConstEmits
<1> HIDE DEF d, H
<1>9. Underway(d, i, from, A, inB)
  BY <1>4, <1>6, <1>7, <1>8, UnderwayWeaker
<1>10. Underway(e, i, from, B, inA)
  BY <1>9, StorageRegs, Takes
<1> HIDE DEF e, inA, B
<1>11. Underway(call(e, RBX), i, from, Holding(B, 0, {Sym("storage", 0)}), inA)
  BY <1>10, CallEmits
<1>12. QED BY <1>1, <1>11 DEF inA, inB, Stored, B, A

LEMMA LeavesStorage ==
  ASSUME NEW i, NEW from, NEW at, Level(at), NEW used, NEW c,
         Underway(c, i, from, Stored(at), (used \cup {RBX}) \cup {RAX})
  PROVE  Underway(leaveStorage(c), i, from, at, used)
<1> DEFINE d == giveBackReg(c, RAX)
           A == Taken(at, 3)
           B == Taken(A, 0)
           V == {Sym("storage", 0)}
           H == Holding(B, 0, V)
           inB == used \cup {RBX}
           inA == inB \cup {RAX}
<1>1. leaveStorage(c) = giveBackReg(d, RBX)
  BY DEF leaveStorage
<1>2. Level(A)
  BY ChangedLevel
<1>3. Underway(c, i, from, H, inA)
  BY DEF Stored
<1> HIDE DEF A, inA
<1>4. Level(B) /\ Bare(B, 0)
  BY <1>2, ChangedLevel, TakenBare
<1>5. H.rip = B.rip
  BY HoldingFields
<1>6. Weaker(H, B)
  BY <1>4, HeldForgotten
<1> HIDE DEF B, H
<1>7. Underway(c, i, from, B, inA)
  BY <1>3, <1>4, <1>5, <1>6, UnderwayWeaker
<1>8. Underway(d, i, from, A, inB)
  BY <1>2, <1>7, StorageRegs, GivesBack DEF B, inA
<1> HIDE DEF d
<1>9. QED BY <1>1, <1>8, StorageRegs, GivesBack DEF A

(* The slots are apart from everything that is known.                      *)
LEMMA SlotEmits ==
  ASSUME NEW S, Level(S), NEW k
  PROVE  Emits(Stored(S), "MOVUPS", Slot(k))
<1> DEFINE T == Stored(S)
           v == Sym("storage", 0)
<1>1. T.sure = S.sure /\ T.regs[0] = {v}
  BY StoredFields
<1> HIDE DEF T
<1>2. ASSUME NEW m, Sat(m, T), T.sure, NEW j \in {0, 4, 8, 12} PROVE Free(T, At(EA(m, Slot(k)), j))
  <2> DEFINE a == At(EA(m, Slot(k)), j)
  <2>1. m.gpr[0] = v
    BY <1>1, <1>2, StorageRegs DEF Sat, Claims, GprClaims
  <2>2. EA(m, Slot(k)) = At(v, 16 * k)
    <3>1. Slot(k).base = RAX /\ Slot(k).index = INVALID /\ Slot(k).disp = 16 * k
      BY DEF Slot, MemOp
    <3>2. RegVal(m, RAX) = v
      BY <2>1, RspFacts DEF RegVal
    <3>3. QED BY <3>1, <3>2 DEF EA
  <2>3. a[1] = "storage"
    BY <2>2 DEF At, Sym
  <2>4. \A x : Stk(x)[1] = "gpr"
    BY DEF Stk
  <2> HIDE DEF a
  <2>5. ~InWord(T, a)
    BY <2>3, <2>4 DEF InWord
  <2>6. QED BY <2>3, <2>5 DEF Free, Allowed, InStorage, a
<1>3. T.sure => Lands(T, Slot(k))
  BY <1>2 DEF Lands
<1>4. QED BY <1>3, MemoryEmits DEF Slot, T

LEMMA Exchanges ==
  ASSUME NEW i, NEW from, NEW at, NEW used, NEW c, Underway(c, i, from, at, used),
         \A k : Emits(at, "MOVUPS", Slot(k)), NEW n, NEW save, NEW load
  PROVE  Underway(Exchange(c, n, save, load), i, from, at, used)
<1> DEFINE d == movups_raw(c, Slot(save), RegOp(Xmm(n)))
<1>1. Emits(at, "MOVUPS", RegOp(Xmm(n)))
  BY EmitsXmm, MoveOps
<1>2. Underway(d, i, from, at, used)
  BY MovupsRawKeeps
<1>3. Exchange(c, n, save, load) = movups_raw(d, RegOp(Xmm(n)), Slot(load))
  BY DEF Exchange
<1> HIDE DEF d
<1>4. QED BY <1>1, <1>2, <1>3, MovupsRawKeeps

LEMMA SetToSeqLen ==
  ASSUME NEW S, IsFiniteSet(S)
  PROVE  Len(SetToSeq(S)) \in Nat
<1> DEFINE n == Cardinality(S)
<1>1. n \in Nat /\ ExistsBijection(1 .. n, S)
  BY FS_CardinalityType
<1>2. PICK f \in Bijection(1 .. n, S) : TRUE
  BY <1>1 DEF ExistsBijection
<1>3. f \in [1 .. n -> S] /\ IsInjective(f)
  BY <1>2 DEF Bijection, Injection
<1>4. SetToSeq(S) \in [1 .. n -> S]
  BY <1>3 DEF SetToSeq
<1> HIDE DEF n
<1>5. \A s \in [1 .. n -> S] : Len(s) = n
  BY <1>1
<1>6. QED BY <1>1, <1>4, <1>5

LEMMA ExchangesAll ==
  ASSUME NEW i, NEW from, NEW at, NEW used, NEW c, Underway(c, i, from, at, used),
         \A k : Emits(at, "MOVUPS", Slot(k)), NEW regs, IsFiniteSet(regs), NEW save, NEW load
  PROVE  Underway(ExchangeAll(c, regs, save, load), i, from, at, used)
<1> DEFINE none == <<>>
           alone == [c EXCEPT !.requests = none]
           each(n) == Exchange(alone, n, n + save, n + load).requests
           order == SetToSeq(regs)
           pieces == [j \in 1 .. Len(order) |-> each(order[j])]
           flat == FlattenSeq(pieces)
           k == at.offset
           rip == at.rip
           st == [j \in Nat |-> at]
<1>1. PICK requests, exited, usedRegs :
        /\ c = [iclass |-> i.iclass, operands |-> i.operands, opWidth |-> i.opWidth, rip |-> rip,
                rspOffset |-> k, requests |-> requests, exited |-> exited, usedRegs |-> usedRegs]
        /\ Tracked(requests, from, at)
        /\ usedRegs \subseteq used
        /\ Level(at)
  BY DEF Underway
<1> HIDE DEF k, rip
<1>2. Underway(alone, i, at, at, used)
  <2>1. Tracked(none, at, at)
    BY <1>1, TrackedEmpty, WeakerSelf
  <2> HIDE DEF none
  <2>2. alone = [iclass |-> i.iclass, operands |-> i.operands, opWidth |-> i.opWidth, rip |-> rip,
                 rspOffset |-> k, requests |-> none, exited |-> exited, usedRegs |-> usedRegs]
    BY <1>1
  <2> HIDE DEF alone
  <2>3. QED BY <1>1, <2>1, <2>2 DEF Underway, k, rip
<1>3. ExchangeAll(c, regs, save, load) = [c EXCEPT !.requests = c.requests \o flat]
  BY DEF ExchangeAll
<1>4. Len(order) \in Nat
  BY SetToSeqLen
<1> HIDE DEF none, alone, order
<1>5. \A n : Tracked(each(n), at, at)
  BY <1>2, Exchanges, Fields
<1> HIDE DEF each
<1>6. /\ DOMAIN pieces = 1 .. Len(order) /\ pieces = [j \in 1 .. Len(order) |-> pieces[j]]
      /\ \A j \in 1 .. Len(order) : Tracked(pieces[j], at, at)
  BY <1>5
<1> HIDE DEF pieces
<1>7. Tracked(flat, at, at)
  <2> DEFINE n == Len(order)
  <2>1. st[1] = at /\ \A j \in 1 .. n : st[j] = at /\ st[j + 1] = at
    OBVIOUS
  <2>2. n + 1 \in Nat /\ st[n + 1] = at
    BY <1>4
  <2> HIDE DEF st, n
  <2>3. Level(st[1]) /\ \A j \in 1 .. n : Tracked(pieces[j], st[j], st[j + 1])
    BY <1>1, <1>6, <2>1 DEF n
  <2>4. Tracked(FlattenSeq(pieces), st[1], st[n + 1])
    BY <1>4, <1>6, <2>3, TrackedFlatten DEF n
  <2>5. QED BY <2>1, <2>2, <2>4
<1> HIDE DEF flat
<1>8. Tracked(requests \o flat, from, at)
  BY <1>1, <1>7, TrackedConcat
<1> DEFINE more == requests \o flat
<1>9. ExchangeAll(c, regs, save, load) = [c EXCEPT !.requests = more]
  BY <1>1, <1>3
<1>10. Tracked(more, from, at)
  BY <1>8
<1> HIDE DEF more
<1>11. ExchangeAll(c, regs, save, load) =
         [iclass |-> i.iclass, operands |-> i.operands, opWidth |-> i.opWidth, rip |-> rip,
          rspOffset |-> k, requests |-> more, exited |-> exited, usedRegs |-> usedRegs]
  BY <1>1, <1>9
<1>12. QED BY <1>1, <1>10, <1>11 DEF Underway, k, rip

LEMMA Swaps ==
  ASSUME NEW i, NEW from, NEW at, NEW used, NEW c, Underway(c, i, from, at, used),
         NEW regs, IsFiniteSet(regs)
  PROVE  /\ Underway(swap_in_upper_ymm(c, regs), i, from, at, used)
         /\ Underway(swap_out_upper_ymm(c, regs), i, from, at, used)
<1> DEFINE d == enterStorage(c)
           a == Stored(at)
           in == (used \cup {RBX}) \cup {RAX}
<1>1. Underway(d, i, from, a, in)
  BY EntersStorage
<1>2. Level(at) /\ \A k : Emits(a, "MOVUPS", Slot(k))
  BY Fields, SlotEmits
<1> HIDE DEF d, a
<1>3. \A save, load : Underway(ExchangeAll(d, regs, save, load), i, from, a, in)
  BY <1>1, <1>2, ExchangesAll
<1>4. \A save, load : Underway(leaveStorage(ExchangeAll(d, regs, save, load)), i, from, at, used)
  BY <1>2, <1>3, LeavesStorage DEF a
<1>5. QED BY <1>4 DEF swap_in_upper_ymm, swap_out_upper_ymm, d

LEMMA Zeroes ==
  ASSUME NEW i, NEW from, NEW at, NEW used, NEW c, Underway(c, i, from, at, used)
  PROVE  /\ \A o : Underway(zeroupperInternal(c, o), i, from, at, used)
         /\ Underway(zeroIfXmm(c), i, from, at, used)
         /\ Underway(clear(c), i, from, at, used)
<1>1. ASSUME NEW o PROVE Underway(zeroupperInternal(c, o), i, from, at, used)
  <2> DEFINE n == o.reg.n
             x == RegOp(Xmm(n))
             d == enterStorage(c)
             upper == Exchange(d, n, n, n + 16)
             args == <<x, x>>
             zeroed == Emit(upper, "XORPS", args)
             back == Exchange(zeroed, n, n + 16, n)
             a == Stored(at)
             in == (used \cup {RBX}) \cup {RAX}
  <2>1. zeroupperInternal(c, o) = leaveStorage(back)
    BY DEF zeroupperInternal
  <2>2. Underway(d, i, from, a, in)
    BY EntersStorage
  <2>3. Level(at) /\ \A k : Emits(a, "MOVUPS", Slot(k))
    BY Fields, SlotEmits
  <2> HIDE DEF d, a
  <2>4. Underway(upper, i, from, a, in)
    BY <2>2, <2>3, Exchanges
  <2>5. Emits(a, "XORPS", args[1])
    BY EmitsXmm, MoveOps
  <2> HIDE DEF upper, args
  <2>6. Underway(zeroed, i, from, a, in)
    BY <2>4, <2>5, EmitKeeps
  <2> HIDE DEF zeroed
  <2>7. Underway(back, i, from, a, in)
    BY <2>3, <2>6, Exchanges
  <2> HIDE DEF back
  <2>8. QED BY <2>1, <2>3, <2>7, LeavesStorage DEF a
<1>2. QED BY <1>1 DEF zeroIfXmm, clear

-----------------------------------------------------------------------------
(* A vector register, to be overwritten in any state.                      *)
Safe(o) == IsOperand(o) /\ ~isMemoryOperand(o) /\ (isXmm(o) \/ isYmm(o))
AlwaysWritable(i, op, o) == \A S : Writable(S, i, op, o)

(* An instruction that moves neither RSP nor a general register, unless it *)
(* is told to.                                                             *)
Vector(op) == op \notin Special \cup Integer

LEMMA OperandWritable ==
  ASSUME NEW i, NEW from, NEW at, NEW used, NEW c, Underway(c, i, from, at, used),
         NEW k, Safe(i.operands[k]), NEW op, Vector(op), NEW upper
  PROVE  AlwaysWritable(i, op, Operand(c, k, upper))
<1>1. \E n : Operand(c, k, upper) = RegOp(Xmm(n))
  BY Fields DEF Operand, Safe, toEncoderOperand, toXmmReg
<1>2. QED BY <1>1, WritableXmm DEF AlwaysWritable, Vector

(* op is given operands to write that it may.                              *)
LEMMA MapKeeps ==
  ASSUME NEW i, NEW from, NEW at, NEW used, Room(used, 13),
         NEW c, Underway(c, i, from, at, used), Safe(i.operands[1]),
         NEW op, NEW upper, NEW args, Len(args) \in Nat, Len(args) >= 1, AlwaysWritable(i, op, args[1])
  PROVE  Underway(map3opto2op(c, op, upper, args), i, from, at, used)
<1> DEFINE dst == Operand(c, 1, upper)
           src1 == Operand(c, 2, upper)
           n == c.operands[2].reg.n
<1>1. AlwaysWritable(i, "MOVUPS", dst) /\ Level(at)
  BY OperandWritable, MoveOps, Fields DEF Vector
<1> HIDE DEF dst
<1>2. CASE OnlySecondSource(c)
  <2> DEFINE d == preserveXmmReg(c, n)
             inSource == withRipSubstitution(d, op, args)
             e == movups(inSource, dst, src1)
             a == Lowered(at)
  <2>1. map3opto2op(c, op, upper, args) = restoreXmmReg(e, n)
    BY <1>2 DEF map3opto2op, OnlySecondSource, dst
  <2>2. Underway(d, i, from, a, used)
    BY Preserves
  <2> HIDE DEF d, a
  <2>4. Underway(inSource, i, from, a, used)
    BY <2>2, SubstitutionKeeps DEF AlwaysWritable
  <2> HIDE DEF inSource
  <2>5. Underway(e, i, from, a, used)
    BY <1>1, <2>4, MovKeeps DEF AlwaysWritable
  <2> HIDE DEF e
  <2>6. QED BY <1>1, <2>1, <2>5, Restores DEF a
<1>3. CASE c.operands[1].reg = c.operands[2].reg
  <2>1. map3opto2op(c, op, upper, args) = withRipSubstitution(c, op, args)
    BY <1>3 DEF map3opto2op, OnlySecondSource
  <2>2. QED BY <2>1, SubstitutionKeeps DEF AlwaysWritable
<1>4. CASE ~OnlySecondSource(c) /\ c.operands[1].reg # c.operands[2].reg
  <2> DEFINE d == movups(c, dst, src1)
  <2>1. map3opto2op(c, op, upper, args) = withRipSubstitution(d, op, args)
    BY <1>4 DEF map3opto2op, dst
  <2>2. Underway(d, i, from, at, used)
    BY <1>1, MovKeeps DEF AlwaysWritable
  <2> HIDE DEF d
  <2>3. QED BY <2>1, <2>2, SubstitutionKeeps DEF AlwaysWritable
<1>5. QED BY <1>2, <1>3, <1>4

-----------------------------------------------------------------------------
(***************************************************************************)
(* The implementations.                                                    *)
(***************************************************************************)
LEMMA RoomLess ==
  ASSUME NEW used, NEW m \in Nat, NEW n \in Nat, m <= n, Room(used, m)
  PROVE  Room(used, n)
<1>1. Cardinality(used) \in Nat
  BY FS_CardinalityType DEF Room
<1>2. QED BY <1>1 DEF Room

LEMMA ExitKeeps ==
  ASSUME NEW i, NEW from, NEW at, NEW used, NEW c, Underway(c, i, from, at, used)
  PROVE  Underway(Exit(c), i, from, at, used)
<1> DEFINE k == at.offset
           rip == at.rip
<1>1. PICK requests, exited, usedRegs :
        /\ c = [iclass |-> i.iclass, operands |-> i.operands, opWidth |-> i.opWidth, rip |-> rip,
                rspOffset |-> k, requests |-> requests, exited |-> exited, usedRegs |-> usedRegs]
        /\ Tracked(requests, from, at)
        /\ usedRegs \subseteq used
        /\ Level(at)
  BY DEF Underway
<1> HIDE DEF k, rip
<1> DEFINE yes == TRUE
<1>2. Exit(c) = [c EXCEPT !.exited = yes]
  BY DEF Exit
<1> HIDE DEF yes
<1>3. Exit(c) =
        [iclass |-> i.iclass, operands |-> i.operands, opWidth |-> i.opWidth, rip |-> rip,
         rspOffset |-> k, requests |-> requests, exited |-> yes, usedRegs |-> usedRegs]
  BY <1>1, <1>2
<1>4. QED BY <1>1, <1>3 DEF Underway, k, rip

(* The destination of i, in the half up of its operand.                    *)
Ready(S, i, op, up) == Writable(S, i, op, toEncoderOperand(i.operands[1], up))

LEMMA SafeReady ==
  ASSUME NEW i, Safe(i.operands[1]), NEW op, Vector(op), NEW up, NEW S
  PROVE  Ready(S, i, op, up)
<1>1. \E n : toEncoderOperand(i.operands[1], up) = RegOp(Xmm(n))
  BY DEF Safe, toEncoderOperand, toXmmReg
<1>2. QED BY <1>1, WritableXmm DEF Ready, Vector

LEMMA PlainKeeps ==
  ASSUME NEW i, NEW from, NEW at, NEW used, Room(used, 13),
         NEW c, Underway(c, i, from, at, used), Len(i.operands) \in Nat, Len(i.operands) >= 1,
         NEW op, NEW up, Ready(at, i, op, up)
  PROVE  /\ Underway(Plain(c, op, up), i, from, at, used)
         /\ Underway(PlainXmm(c, op, up), i, from, at, used)
<1> DEFINE n == Len(i.operands)
           args == [k \in 1 .. n |-> Operand(c, k, up)]
<1>1. Operands(c, up) = args
  BY Fields DEF Operands
<1>2. Len(args) = n /\ args[1] = Operand(c, 1, up)
  <2>1. n \in Nat /\ 1 \in 1 .. n
    OBVIOUS
  <2> HIDE DEF n
  <2>2. QED BY <2>1
<1>3. Writable(at, i, op, Operand(c, 1, up))
  BY Fields DEF Operand, Ready
<1> HIDE DEF args
<1>4. Len(args) \in Nat /\ Len(args) >= 1 /\ Writable(at, i, op, args[1])
  BY <1>2, <1>3
<1> HIDE DEF n
<1>5. Underway(withRipSubstitution(c, op, args), i, from, at, used)
  BY <1>4, SubstitutionKeeps
<1>6. QED BY <1>1, <1>5, ExitKeeps DEF Plain, PlainXmm

LEMMA AppendFirst ==
  ASSUME NEW a, NEW b, NEW x
  PROVE  Len(Append(<<a, b>>, x)) = 3 /\ Append(<<a, b>>, x)[1] = a
OBVIOUS

LEMMA ThreeKeeps ==
  ASSUME NEW i, NEW from, NEW at, NEW used, Room(used, 13),
         NEW c, Underway(c, i, from, at, used), Safe(i.operands[1]), Safe(i.operands[2]),
         NEW op, Vector(op), NEW up
  PROVE  /\ Underway(three(c, op, up), i, from, at, used)
         /\ \A n : Underway(threeImm(c, op, up, n), i, from, at, used)
         /\ \A bits : Underway(splitImm(c, op, up, bits), i, from, at, used)
         /\ Underway(compare(c, op, up), i, from, at, used)
         /\ Underway(ignoring(c, op, up), i, from, at, used)
<1>1. AlwaysWritable(i, op, Operand(c, 1, up)) /\ AlwaysWritable(i, op, Operand(c, 2, up))
  BY OperandWritable
<1> DEFINE a == Operand(c, IF OnlySecondSource(c) THEN 2 ELSE 1, up)
           d == Operand(c, 1, up)
           b == Operand(c, 3, up)
           two == <<a, b>>
<1>2. TwoOperands(c, up) = two /\ AlwaysWritable(i, op, a) /\ AlwaysWritable(i, op, d)
  BY <1>1 DEF TwoOperands
<1>3. ignoring(c, op, up) = map3opto2op(c, op, up, <<d, b>>)
  BY DEF ignoring
<1> HIDE DEF a, b, d
<1>4. Underway(three(c, op, up), i, from, at, used)
  <2>1. Len(two) = 2 /\ two[1] = a
    OBVIOUS
  <2> HIDE DEF two
  <2>2. QED BY <1>2, <2>1, MapKeeps DEF three
<1>5. ASSUME NEW n PROVE Underway(threeImm(c, op, up, n), i, from, at, used)
  <2> DEFINE imm == ImmOp(Sym("imm", n))
             args == Append(two, imm)
  <2>1. threeImm(c, op, up, n) = map3opto2op(c, op, up, args)
    BY <1>2 DEF threeImm
  <2> HIDE DEF imm
  <2>2. Len(args) = 3 /\ args[1] = a
    BY AppendFirst
  <2> HIDE DEF args
  <2>3. Len(args) \in Nat /\ Len(args) >= 1 /\ AlwaysWritable(i, op, args[1])
    BY <1>2, <2>2
  <2>4. QED BY <2>1, <2>3, MapKeeps
<1>6. Underway(ignoring(c, op, up), i, from, at, used)
  <2> DEFINE args == <<d, b>>
  <2>1. Len(args) = 2 /\ args[1] = d
    OBVIOUS
  <2>2. ignoring(c, op, up) = map3opto2op(c, op, up, args)
    BY <1>3
  <2> HIDE DEF args
  <2>3. Len(args) \in Nat /\ Len(args) >= 1 /\ AlwaysWritable(i, op, args[1])
    BY <1>2, <2>1
  <2>4. QED BY <2>2, <2>3, MapKeeps
<1>7. Underway(compare(c, op, up), i, from, at, used)
  <2> DEFINE mode == immValue(c.operands[4])
  <2>1. \/ \E n : compare(c, op, up) = threeImm(c, op, up, n)
        \/ compare(c, op, up) = Exit(c)
    <3>1. ~(22 <= 7)
      OBVIOUS
    <3> HIDE DEF mode
    <3>2. mode = 22 => ~(mode <= 7)
      BY <3>1
    <3>3. compare(c, op, up) = CASE mode <= 7 -> threeImm(c, op, up, mode)
                                 [] mode = 22 -> threeImm(c, op, up, 6)
                                 [] OTHER -> Exit(c)
      BY DEF compare, mode
    <3>4. CASE mode <= 7
      BY <3>2, <3>3, <3>4
    <3>5. CASE mode = 22
      BY <3>2, <3>3, <3>5
    <3>6. CASE ~(mode <= 7) /\ mode # 22
      BY <3>3, <3>6
    <3>7. QED BY <3>4, <3>5, <3>6
  <2>2. QED BY <1>5, <2>1, ExitKeeps
<1>8. \A bits : Underway(splitImm(c, op, up, bits), i, from, at, used)
  BY <1>5 DEF splitImm
<1>9. QED BY <1>4, <1>5, <1>6, <1>7, <1>8

LEMMA MovesKeep ==
  ASSUME NEW i, NEW from, NEW at, NEW used, Room(used, 13),
         NEW c, Underway(c, i, from, at, used),
         Len(i.operands) \in Nat, Len(i.operands) >= 1, NEW op, NEW up,
         Len(i.operands) = 2 => Ready(at, i, op, up),
         Len(i.operands) # 2 => Safe(i.operands[1]) /\ Safe(i.operands[2]) /\ Vector(op)
  PROVE  /\ Underway(moveScalar(c, op, up), i, from, at, used)
         /\ Underway(moveHigh(c, op, up), i, from, at, used)
<1>1. c.operands = i.operands
  BY Fields
<1>2. CASE Len(i.operands) = 2
  BY <1>1, <1>2, PlainKeeps DEF moveScalar, moveHigh
<1>3. CASE Len(i.operands) # 2
  <2>1. Underway(three(c, op, up), i, from, at, used)
    BY <1>3, ThreeKeeps
  <2>2. QED BY <1>1, <1>3, <2>1, Zeroes DEF moveScalar, moveHigh
<1>4. QED BY <1>2, <1>3

(* Nine registers are in use at most; three more can be borrowed.          *)
LEMMA RoomFor ==
  ASSUME NEW used, Room(used, 9), NEW q, NEW r, NEW s
  PROVE  /\ Room(used, 13) /\ Room(used \cup {q}, 13) /\ Room((used \cup {q}) \cup {r}, 13)
         /\ Room(((used \cup {q}) \cup {r}) \cup {s}, 13)
<1>1. Room(used \cup {q}, 10)
  <2>1. Room(used \cup {q}, 9 + 1)
    BY RoomMore
  <2>2. QED BY <2>1
<1>2. Room((used \cup {q}) \cup {r}, 11)
  <2>1. Room((used \cup {q}) \cup {r}, 10 + 1)
    BY <1>1, RoomMore
  <2>2. QED BY <2>1
<1>3. Room(((used \cup {q}) \cup {r}) \cup {s}, 12)
  <2>1. Room(((used \cup {q}) \cup {r}) \cup {s}, 11 + 1)
    BY <1>2, RoomMore
  <2>2. QED BY <2>1
<1>4. 9 <= 13 /\ 10 <= 13 /\ 11 <= 13 /\ 12 <= 13 /\ 13 \in Nat
  OBVIOUS
<1>5. \A among : Room(among, 9) \/ Room(among, 10) \/ Room(among, 11) \/ Room(among, 12)
                => Room(among, 13)
  BY RoomLess, <1>4
<1>6. QED BY <1>1, <1>2, <1>3, <1>5

LEMMA RoomOne ==
  ASSUME NEW used, Room(used, 9), NEW r
  PROVE  Room(used \cup {r}, 13)
BY RoomFor

LEMMA VectorOps ==
  \A op \in {"INSERTPS", "SHUFPS", "MOVQ", "PSHUFB", "PMOVMSKB", "MULPS", "ADDPS", "SUBPS",
             "PAND", "PSRLD", "POR", "PSHUFHW", "PSHUFLW", "XORPS", "MOVUPS"} : Vector(op)
BY DEF Vector, Special, Pushes, Pops, Integer, Alu

LEMMA InsertKeeps ==
  ASSUME NEW i, NEW from, NEW at, NEW used, Room(used, 13),
         NEW c, Underway(c, i, from, at, used), Safe(i.operands[1]), Safe(i.operands[2]), NEW up
  PROVE  Underway(VINSERTPS_implementation(c, up), i, from, at, used)
<1> DEFINE n == c.operands[2].reg.n
           a == Operand(c, 1, up)
           b == Operand(c, 2, up)
           x == Operand(c, 3, up)
           y == Operand(c, 4, up)
           d == preserveXmmReg(c, n)
           e == op3(d, "INSERTPS", b, x, y)
           f == movups(e, a, b)
           g == restoreXmmReg(f, n)
           h == op3(c, "INSERTPS", a, x, y)
           down == Lowered(at)
<1>1. VINSERTPS_implementation(c, up) \in {clear(h), clear(g)}
  BY DEF VINSERTPS_implementation
<1>2. AlwaysWritable(i, "INSERTPS", a) /\ AlwaysWritable(i, "INSERTPS", b) /\ AlwaysWritable(i, "MOVUPS", a)
  BY OperandWritable, VectorOps
<1> HIDE DEF a, b, x, y
<1>3. Underway(clear(h), i, from, at, used)
  BY <1>2, OpKeeps, Zeroes DEF AlwaysWritable
<1>4. Underway(d, i, from, down, used)
  BY Preserves
<1>5. Level(at)
  BY Fields
<1> HIDE DEF d, down
<1>6. Underway(e, i, from, down, used)
  BY <1>2, <1>4, <1>5, OpKeeps DEF AlwaysWritable
<1> HIDE DEF e
<1>7. Underway(f, i, from, down, used)
  BY <1>2, <1>5, <1>6, MovKeeps DEF AlwaysWritable
<1> HIDE DEF f
<1>8. Underway(g, i, from, at, used)
  BY <1>5, <1>7, Restores DEF down
<1> HIDE DEF g
<1>9. Underway(clear(g), i, from, at, used)
  BY <1>8, Zeroes
<1>10. QED BY <1>1, <1>3, <1>9

LEMMA PermuteKeeps ==
  ASSUME NEW i, NEW from, NEW at, NEW used, Room(used, 13),
         NEW c, Underway(c, i, from, at, used), Safe(i.operands[1]), NEW up
  PROVE  Underway(VPERMILPS_implementation(c, up), i, from, at, used)
<1> DEFINE a == Operand(c, 1, up)
           b == Operand(c, 2, up)
           x == Operand(c, 3, up)
           d == movups(c, a, b)
           e == op3(d, "SHUFPS", a, b, x)
<1>1. VPERMILPS_implementation(c, up) \in {Exit(c), zeroIfXmm(e)}
  BY DEF VPERMILPS_implementation
<1>2. AlwaysWritable(i, "SHUFPS", a) /\ AlwaysWritable(i, "MOVUPS", a)
  BY OperandWritable, VectorOps
<1> HIDE DEF a, b, x
<1>3. Underway(d, i, from, at, used)
  BY <1>2, MovKeeps DEF AlwaysWritable
<1> HIDE DEF d
<1>4. Underway(e, i, from, at, used)
  BY <1>2, <1>3, OpKeeps DEF AlwaysWritable
<1> HIDE DEF e
<1>5. Underway(zeroIfXmm(e), i, from, at, used)
  BY <1>4, Zeroes
<1>6. QED BY <1>1, <1>5, ExitKeeps

LEMMA BroadcastKeeps ==
  ASSUME NEW i, NEW from, NEW at, NEW used, Room(used, 13),
         NEW c, Underway(c, i, from, at, used), Safe(i.operands[1]), NEW up
  PROVE  Underway(VBROADCASTSS_implementation(c, up), i, from, at, used)
<1> DEFINE a == Operand(c, 1, up)
           b == Operand(c, 2, FALSE)
           insert(d, k) == op3(d, "INSERTPS", a, b, ImmOp(Sym("imm", 16 * k)))
           d0 == insert(c, 0)
           d1 == insert(d0, 1)
           d2 == insert(d1, 2)
           d3 == insert(d2, 3)
<1>1. VBROADCASTSS_implementation(c, up) = zeroIfXmm(d3)
  BY DEF VBROADCASTSS_implementation
<1>2. AlwaysWritable(i, "INSERTPS", a)
  BY OperandWritable, VectorOps
<1> HIDE DEF a, b
<1>3. \A d, k : Underway(d, i, from, at, used) => Underway(insert(d, k), i, from, at, used)
  BY <1>2, OpKeeps DEF AlwaysWritable
<1> HIDE DEF insert
<1>4. Underway(d3, i, from, at, used)
  BY <1>3
<1> HIDE DEF d3
<1>5. QED BY <1>1, <1>4, Zeroes

(* A constant goes to a register of which nothing is known.                *)
LEMMA ScratchKeeps ==
  ASSUME NEW i, NEW from, NEW at, NEW used, NEW c, Underway(c, i, from, at, used),
         NEW n, n # RSP.n, Bare(at, n), NEW v, at.sure => Whole64(v)
  PROVE  Underway(MovConst(c, R64(n), v), i, from, at, used)
<1> DEFINE V == {v}
           H == Holding(at, n, V)
<1>1. Level(at)
  BY Fields
<1>2. Weaker(H, at) /\ H.rip = at.rip
  BY <1>1, HeldForgotten, HoldingFields
<1> HIDE DEF V
<1>3. Underway(MovConst(c, R64(n), v), i, from, H, used)
  BY MovConstEmits DEF V
<1>4. QED BY <1>1, <1>2, <1>3, UnderwayWeaker

LEMMA BroadcastByteKeeps ==
  ASSUME NEW i, NEW from, NEW at, NEW used, Room(used, 9),
         NEW c, Underway(c, i, from, at, used), Safe(i.operands[1]), NEW up
  PROVE  Underway(VPBROADCASTB_implementation(c, up), i, from, at, used)
<1> DEFINE src == Operand(c, 2, FALSE)
           a == Operand(c, 1, up)
           wide == IF isMemoryOperand(src) THEN [src EXCEPT !.width = 64] ELSE src
           d == op2(c, "MOVQ", a, wide)
<1>1. AlwaysWritable(i, "MOVQ", a) /\ AlwaysWritable(i, "PSHUFB", a)
  BY OperandWritable, VectorOps
<1> HIDE DEF a, wide
<1>2. Underway(d, i, from, at, used)
  BY <1>1, OpKeeps, RoomFor DEF AlwaysWritable
<1> HIDE DEF d
<1>3. PICK n \in Gprs \ {RSP.n} : getUnusedReg(d) = R64(n)
  BY <1>2, UnusedReg, RoomFor
<1> DEFINE r == R64(n)
           t == takeReg(d, r)
           s == Sym("shufConst", 0)
           e == MovConst(t, r, s)
           m == MemOp(r, INVALID, 0, 128)
           f == op2(e, "PSHUFB", a, m)
           down == Taken(at, n)
           more == used \cup {r}
<1>4. VPBROADCASTB_implementation(c, up) = zeroIfXmm(giveBackReg(f, r))
  BY <1>3 DEF VPBROADCASTB_implementation, d, a, wide
<1>5. Level(at) /\ Level(down) /\ Bare(down, n) /\ Whole64(s)
  BY Fields, ChangedLevel, TakenBare, SymWhole DEF Sym
<1> HIDE DEF s, m
<1>6. Underway(t, i, from, down, more)
  BY <1>2, Takes
<1> HIDE DEF t, down
<1>7. Underway(e, i, from, down, more)
  BY <1>5, <1>6, ScratchKeeps
<1> HIDE DEF e
<1>8. Room(more, 13)
  BY RoomFor
<1>9. Underway(f, i, from, down, more)
  BY <1>1, <1>7, <1>8, OpKeeps DEF AlwaysWritable
<1> HIDE DEF f
<1>10. Underway(giveBackReg(f, r), i, from, at, used)
  BY <1>5, <1>9, GivesBack DEF down
<1>11. QED BY <1>4, <1>10, Zeroes

LEMMA LanesKeep ==
  ASSUME NEW i, NEW from, NEW at, NEW used, Room(used, 13),
         NEW c, Underway(c, i, from, at, used), NEW up
  PROVE  /\ Ready(at, i, "MOVUPS", FALSE)
              => Underway(VEXTRACTF128_implementation(c, up), i, from, at, used)
         /\ Safe(i.operands[1]) => Underway(VINSERTF128_implementation(c, up), i, from, at, used)
<1>1. ASSUME Ready(at, i, "MOVUPS", FALSE)
      PROVE  Underway(VEXTRACTF128_implementation(c, up), i, from, at, used)
  <2>1. Writable(at, i, "MOVUPS", Operand(c, 1, FALSE))
    <3>1. c.operands = i.operands
      BY Fields
    <3>2. Operand(c, 1, FALSE) = toEncoderOperand(i.operands[1], FALSE)
      BY <3>1 DEF Operand
    <3>3. QED BY <1>1, <3>2 DEF Ready
  <2>2. \A b : Underway(movups(c, Operand(c, 1, FALSE), b), i, from, at, used)
    BY <2>1, MovKeeps
  <2>3. \E d : Underway(d, i, from, at, used) /\ VEXTRACTF128_implementation(c, up) = zeroIfXmm(d)
    BY <2>2 DEF VEXTRACTF128_implementation
  <2>4. QED BY <2>3, Zeroes
<1>2. ASSUME Safe(i.operands[1])
      PROVE  Underway(VINSERTF128_implementation(c, up), i, from, at, used)
  <2>1. AlwaysWritable(i, "MOVUPS", Operand(c, 1, up))
    BY <1>2, OperandWritable, VectorOps
  <2>2. \A b : Underway(movups(c, Operand(c, 1, up), b), i, from, at, used)
    BY <2>1, MovKeeps DEF AlwaysWritable
  <2>3. \E b : VINSERTF128_implementation(c, up) = movups(c, Operand(c, 1, up), b)
    BY DEF VINSERTF128_implementation
  <2>4. QED BY <2>2, <2>3
<1>3. QED BY <1>1, <1>2

LEMMA AlwaysXmm ==
  ASSUME NEW i, NEW n, NEW op, Vector(op)
  PROVE  AlwaysWritable(i, op, RegOp(Xmm(n)))
BY WritableXmm DEF AlwaysWritable, Vector

LEMMA UnusedXmm == \A c : \E n : getUnusedXmmReg(c) = Xmm(n)
BY DEF getUnusedXmmReg

LEMMA ProductKeeps ==
  ASSUME NEW i, NEW from, NEW at, NEW used, Room(used, 9),
         NEW c, Underway(c, i, from, at, used), NEW n, NEW up
  PROVE  Underway(product(c, up, Xmm(n)), i, from, Lowered(at), used \cup {Xmm(n)})
<1> DEFINE r == Xmm(n)
           t == RegOp(r)
           b == Operand(c, 2, up)
           x == Operand(c, 3, up)
           d == use(c, r)
           e == preserveXmmReg(d, r.n)
           f == movups(e, t, b)
           down == Lowered(at)
           more == used \cup {r}
<1>1. product(c, up, r) = op2(f, "MULPS", t, x)
  BY DEF product
<1>2. AlwaysWritable(i, "MOVUPS", t) /\ AlwaysWritable(i, "MULPS", t)
  BY AlwaysXmm, VectorOps
<1>3. Underway(d, i, from, at, more)
  BY UseReturns
<1>4. Room(more, 13)
  BY RoomFor
<1> HIDE DEF r, t, b, x, d, more
<1>5. Underway(e, i, from, down, more)
  BY <1>3, Preserves
<1> HIDE DEF e, down
<1>6. Underway(f, i, from, down, more)
  BY <1>2, <1>4, <1>5, MovKeeps DEF AlwaysWritable
<1> HIDE DEF f
<1>7. Underway(op2(f, "MULPS", t, x), i, from, down, more)
  BY <1>2, <1>4, <1>6, OpKeeps DEF AlwaysWritable
<1>8. QED BY <1>1, <1>7 DEF r, more, down

LEMMA ForgetKeeps ==
  ASSUME NEW i, NEW from, NEW at, Level(at), NEW used, NEW r, NEW c,
         Underway(c, i, from, Lowered(at), used \cup {r})
  PROVE  Underway(forgetProduct(c, r), i, from, at, used)
<1> DEFINE more == used \cup {r}
           d == restoreXmmReg(c, r.n)
<1>1. Underway(d, i, from, at, more)
  BY Restores
<1> HIDE DEF d
<1>2. QED BY <1>1, UseReturns DEF forgetProduct, d

LEMMA FusedKeeps ==
  ASSUME NEW i, NEW from, NEW at, NEW used, Room(used, 9),
         NEW c, Underway(c, i, from, at, used), Safe(i.operands[1]), NEW up
  PROVE  /\ Underway(VFMADD231PS_implementation(c, up), i, from, at, used)
         /\ Underway(VFMSUB231PS_implementation(c, up), i, from, at, used)
<1> DEFINE a == Operand(c, 1, up)
           r == getUnusedXmmReg(c)
           t == RegOp(r)
           p == product(c, up, r)
           d == op2(p, "ADDPS", a, t)
           e == op2(p, "SUBPS", t, a)
           f == movups(e, a, t)
           down == Lowered(at)
           more == used \cup {r}
<1>1. /\ VFMADD231PS_implementation(c, up) = zeroIfXmm(forgetProduct(d, r))
      /\ VFMSUB231PS_implementation(c, up) = zeroIfXmm(forgetProduct(f, r))
  BY DEF VFMADD231PS_implementation, VFMSUB231PS_implementation
<1>2. PICK n : r = Xmm(n)
  BY UnusedXmm
<1>3. AlwaysWritable(i, "ADDPS", a) /\ AlwaysWritable(i, "MOVUPS", a) /\ AlwaysWritable(i, "SUBPS", t)
  <2>1. AlwaysWritable(i, "ADDPS", a) /\ AlwaysWritable(i, "MOVUPS", a)
    BY OperandWritable, VectorOps
  <2>2. AlwaysWritable(i, "SUBPS", t)
    BY <1>2, AlwaysXmm, VectorOps
  <2>3. QED BY <2>1, <2>2
<1>4. Underway(p, i, from, down, more)
  BY <1>2, ProductKeeps
<1>5. Room(more, 13) /\ Level(at)
  BY RoomFor, Fields
<1> HIDE DEF a, r, t, p
<1>6. Underway(d, i, from, down, more) /\ Underway(e, i, from, down, more)
  <2> HIDE DEF down, more
  <2>1. QED BY <1>3, <1>4, <1>5, OpKeeps DEF AlwaysWritable
<1> HIDE DEF d, e
<1>7. Underway(f, i, from, down, more)
  <2> HIDE DEF down, more
  <2>1. QED BY <1>3, <1>5, <1>6, MovKeeps DEF AlwaysWritable
<1> HIDE DEF f
<1>8. Underway(forgetProduct(d, r), i, from, at, used) /\ Underway(forgetProduct(f, r), i, from, at, used)
  BY <1>5, <1>6, <1>7, ForgetKeeps
<1>9. QED BY <1>1, <1>8, Zeroes

-----------------------------------------------------------------------------
(***************************************************************************)
(* The implementations that borrow vector registers.                       *)
(***************************************************************************)
LEMMA MaskedBlendKeeps ==
  ASSUME NEW i, NEW from, NEW at, NEW used, Room(used, 13),
         NEW c, Underway(c, i, from, at, used), NEW op, NEW dst, AlwaysWritable(i, op, dst),
         NEW src, NEW mask, NEW n
  PROVE  Underway(restoreXmmReg(op2(movups(preserveXmmReg(c, n), RegOp(Xmm(n)), mask),
                                    op, dst, src), n),
                  i, from, at, used)
<1> DEFINE d == preserveXmmReg(c, n)
           e == movups(d, RegOp(Xmm(n)), mask)
           f == op2(e, op, dst, src)
           down == Lowered(at)
<1>1. Underway(d, i, from, down, used)
  BY Preserves
<1>2. Level(at)
  BY Fields
<1>3. AlwaysWritable(i, "MOVUPS", RegOp(Xmm(n)))
  BY AlwaysXmm, VectorOps
<1> HIDE DEF d, down
<1>4. Underway(e, i, from, down, used)
  BY <1>1, <1>3, MovKeeps DEF AlwaysWritable
<1> HIDE DEF e
<1>5. Underway(f, i, from, down, used)
  BY <1>4, OpKeeps DEF AlwaysWritable
<1> HIDE DEF f
<1>6. Underway(restoreXmmReg(f, n), i, from, at, used)
  BY <1>2, <1>5, Restores DEF down
<1>7. QED BY <1>6 DEF f, e, d

(* A vector register is borrowed for what is emitted in between.           *)
LEMMA BorrowsXmm ==
  ASSUME NEW i, NEW from, NEW at, NEW used,
         NEW c, Underway(c, i, from, at, used), NEW r
  PROVE  Underway(preserveXmmReg(use(c, r), r.n), i, from, Lowered(at), used \cup {r})
<1> DEFINE d == use(c, r)
           more == used \cup {r}
<1>1. Underway(d, i, from, at, more)
  BY UseReturns
<1> HIDE DEF d, more
<1>2. Underway(preserveXmmReg(d, r.n), i, from, Lowered(at), more)
  BY <1>1, Preserves
<1>3. QED BY <1>2 DEF d, more

LEMMA BlendKeeps ==
  ASSUME NEW i, NEW from, NEW at, NEW used, Room(used, 9),
         NEW c, Underway(c, i, from, at, used), Safe(i.operands[1]),
         Len(i.operands) \in Nat, Len(i.operands) >= 1, NEW op, Vector(op), NEW up
  PROVE  Underway(blendv(c, op, up), i, from, at, used)
<1> DEFINE matches == {k \in 1 .. 4 : (isXmm(c.operands[k]) \/ isYmm(c.operands[k]))
                                      /\ c.operands[k].reg.n = 0}
           xmm0operand == Cardinality(matches)
           x0 == RegOp(Xmm(0))
           temp == getUnusedXmmReg(c)
           args == [Operands(c, up) EXCEPT ![xmm0operand] = RegOp(temp)]
           o(k) == Operand(c, k, up)
           blend(d, dst, src) ==
             restoreXmmReg(op2(movups(preserveXmmReg(d, 0), x0, o(4)), op, dst, src), 0)
           d0 == preserveXmmReg(use(c, temp), temp.n)
           e == movups(d0, RegOp(temp), o(xmm0operand))
           copied == movups(e, args[1], args[2])
           f == IF c.operands[1].reg = c.operands[2].reg THEN e ELSE copied
           g == blend(f, args[1], args[3])
           back == movups(g, o(1), args[1])
           replaced == IF xmm0operand = 1 THEN back ELSE g
           down == Lowered(at)
           more == used \cup {temp}
<1>1. blendv(c, op, up) \in {zeroIfXmm(blend(c, o(1), o(3))),
                             zeroIfXmm(forgetProduct(replaced, temp))}
  BY DEF blendv, forgetProduct
<1>2. PICK n : temp = Xmm(n)
  BY UnusedXmm
<1>3. AlwaysWritable(i, op, o(1)) /\ AlwaysWritable(i, "MOVUPS", o(1))
  BY OperandWritable, VectorOps
<1>4. AlwaysWritable(i, op, RegOp(temp)) /\ AlwaysWritable(i, "MOVUPS", RegOp(temp))
  BY <1>2, AlwaysXmm, VectorOps
<1>5. args[1] \in {o(1), RegOp(temp)}
  <2> DEFINE m == Len(i.operands)
  <2>1. Operands(c, up) = [k \in 1 .. m |-> o(k)]
    BY Fields DEF Operands
  <2>2. 1 \in 1 .. m
    OBVIOUS
  <2> HIDE DEF m, xmm0operand, temp, o
  <2>3. QED BY <2>1, <2>2
<1>6. AlwaysWritable(i, op, args[1]) /\ AlwaysWritable(i, "MOVUPS", args[1])
  <2> HIDE DEF args, o, temp
  <2>1. QED BY <1>3, <1>4, <1>5
<1>7. Room(used, 13) /\ Room(more, 13)
  BY RoomFor
<1>8. Level(at)
  BY Fields
<1>9. Underway(d0, i, from, down, more)
  BY BorrowsXmm
<1> HIDE DEF args, o, temp, down, d0, more, xmm0operand
<1>10. Underway(blend(c, o(1), o(3)), i, from, at, used)
  BY <1>3, <1>7, MaskedBlendKeeps
<1>11. Underway(e, i, from, down, more)
  BY <1>4, <1>7, <1>9, MovKeeps DEF AlwaysWritable
<1> HIDE DEF e
<1>12. Underway(copied, i, from, down, more)
  BY <1>6, <1>7, <1>11, MovKeeps DEF AlwaysWritable
<1> HIDE DEF copied
<1>13. Underway(f, i, from, down, more)
  BY <1>11, <1>12
<1> HIDE DEF f
<1>14. Underway(g, i, from, down, more)
  BY <1>6, <1>7, <1>13, MaskedBlendKeeps
<1> HIDE DEF blend, g
<1>15. Underway(back, i, from, down, more)
  BY <1>3, <1>7, <1>14, MovKeeps DEF AlwaysWritable
<1> HIDE DEF back
<1>16. Underway(replaced, i, from, down, more)
  BY <1>14, <1>15
<1> HIDE DEF replaced
<1>17. Underway(forgetProduct(replaced, temp), i, from, at, used)
  BY <1>8, <1>16, ForgetKeeps DEF more, down
<1> DEFINE plain == blend(c, o(1), o(3))
           forgot == forgetProduct(replaced, temp)
<1>18. blendv(c, op, up) \in {zeroIfXmm(plain), zeroIfXmm(forgot)}
  BY <1>1
<1>19. Underway(plain, i, from, at, used) /\ Underway(forgot, i, from, at, used)
  BY <1>10, <1>17
<1> HIDE DEF plain, forgot
<1>20. Underway(zeroIfXmm(plain), i, from, at, used) /\ Underway(zeroIfXmm(forgot), i, from, at, used)
  BY <1>19, Zeroes
<1>21. QED BY <1>18, <1>20

(* One field of the half precision numbers.                                *)
LEMMA HalfFieldKeeps ==
  ASSUME NEW i, NEW from, NEW at, NEW used, Room(used, 13),
         NEW c, Underway(c, i, from, at, used), NEW k, k # RSP.n, Bare(at, k),
         NEW q, q = R64(k), NEW n, NEW input, NEW output, AlwaysWritable(i, "POR", output),
         NEW mask, Whole64(mask), NEW m, NEW shift
  PROVE  Underway(op2(op2(op2(MovConst(movups(c, RegOp(Xmm(n)), input), q, mask),
                              "PAND", RegOp(Xmm(n)), m),
                          "PSRLD", RegOp(Xmm(n)), shift),
                      "POR", output, RegOp(Xmm(n))),
                  i, from, at, used)
<1> DEFINE temp == RegOp(Xmm(n))
           d == movups(c, temp, input)
           e == MovConst(d, q, mask)
           f == op2(e, "PAND", temp, m)
           g == op2(f, "PSRLD", temp, shift)
<1>1. AlwaysWritable(i, "MOVUPS", temp) /\ AlwaysWritable(i, "PAND", temp) /\ AlwaysWritable(i, "PSRLD", temp)
  <2>1. Vector("MOVUPS") /\ Vector("PAND") /\ Vector("PSRLD")
    BY VectorOps
  <2>2. QED BY <2>1, AlwaysXmm
<1> HIDE DEF temp
<1>2. Underway(d, i, from, at, used)
  BY <1>1, MovKeeps DEF AlwaysWritable
<1> HIDE DEF d
<1>3. Underway(e, i, from, at, used)
  BY <1>2, ScratchKeeps
<1> HIDE DEF e
<1>4. Underway(f, i, from, at, used)
  BY <1>1, <1>3, OpKeeps DEF AlwaysWritable
<1> HIDE DEF f
<1>5. Underway(g, i, from, at, used)
  BY <1>1, <1>4, OpKeeps DEF AlwaysWritable
<1> HIDE DEF g
<1>6. Underway(op2(g, "POR", output, temp), i, from, at, used)
  BY <1>5, OpKeeps DEF AlwaysWritable
<1>7. QED BY <1>6 DEF g, f, e, d, temp

LEMMA HalfPrecisionKeeps ==
  ASSUME NEW i, NEW from, NEW at, NEW used, Room(used, 9),
         NEW c, Underway(c, i, from, at, used), Safe(i.operands[1]), NEW up
  PROVE  Underway(VCVTPS2PH_implementation(c, up), i, from, at, used)
<1> DEFINE output == Operand(c, 1, up)
           inputReg == getUnusedXmmReg(c)
           d == use(c, inputReg)
           tempReg == getUnusedXmmReg(d)
           input == RegOp(inputReg)
           temp == RegOp(tempReg)
           imm(n) == ImmOp(Sym("imm", n))
           field(h, q, mask, shift) ==
             op2(op2(op2(MovConst(movups(h, temp, input), q, Sym(mask, 0)), "PAND", temp,
                         MemOp(q, INVALID, 0, 128)),
                     "PSRLD", temp, imm(shift)), "POR", output, temp)
           e == use(d, tempReg)
           r == getUnusedReg(e)
           taken == takeReg(e, r)
           moved == movups(taken, input, Operand(c, 2, up))
           start == op2(moved, "XORPS", output, output)
           signed == field(start, r, "sign_mask_v", 16)
           scaled0 == field(signed, r, "exp_mask_v", 13)
           scaled == field(scaled0, r, "exp_s_mask_v", 16)
           g == field(scaled, r, "fra_mask_v", 13)
           high == op3(g, "PSHUFHW", output, output, imm(248))
           packed == op3(high, "PSHUFLW", output, output, imm(248))
           cleared == op2(packed, "XORPS", temp, temp)
           shuffled == op3(cleared, "SHUFPS", output, temp, imm(8))
           done == giveBackReg(shuffled, r)
           returned == returnReg(done, tempReg)
           back == returnReg(returned, inputReg)
           u1 == used \cup {inputReg}
           u2 == u1 \cup {tempReg}
           u3 == u2 \cup {r}
<1>1. VCVTPS2PH_implementation(c, up) \in {Exit(c), zeroIfXmm(c), zeroIfXmm(back)}
  BY DEF VCVTPS2PH_implementation
<1>2. PICK n, m : inputReg = Xmm(n) /\ tempReg = Xmm(m)
  <2>1. (\E n : inputReg = Xmm(n)) /\ (\E n : tempReg = Xmm(n))
    <3> HIDE DEF d
    <3>1. QED BY UnusedXmm
  <2> HIDE DEF inputReg, tempReg
  <2>2. QED BY <2>1
<1>3. /\ AlwaysWritable(i, "POR", output) /\ AlwaysWritable(i, "XORPS", output) /\ AlwaysWritable(i, "PSHUFHW", output)
      /\ AlwaysWritable(i, "PSHUFLW", output) /\ AlwaysWritable(i, "SHUFPS", output)
  BY OperandWritable, VectorOps
<1>4. AlwaysWritable(i, "MOVUPS", input) /\ AlwaysWritable(i, "XORPS", temp)
  <2>1. Vector("MOVUPS") /\ Vector("XORPS")
    BY VectorOps
  <2>2. \A k : AlwaysWritable(i, "MOVUPS", RegOp(Xmm(k))) /\ AlwaysWritable(i, "XORPS", RegOp(Xmm(k)))
    BY <2>1, AlwaysXmm
  <2> HIDE DEF inputReg, tempReg
  <2>3. QED BY <1>2, <2>2
<1>5. Room(u2, 13) /\ Room(u3, 13)
  <2> HIDE DEF inputReg, tempReg, r
  <2>1. QED BY RoomFor
<1>6. Underway(d, i, from, at, u1)
  BY UseReturns
<1> HIDE DEF d, inputReg
<1>7. Underway(e, i, from, at, u2)
  <2> HIDE DEF tempReg, u1
  <2>1. QED BY <1>6, UseReturns
<1> HIDE DEF e, tempReg, u1
<1>8. PICK k \in Gprs \ {RSP.n} : r = R64(k)
  <2> HIDE DEF u2
  <2>1. QED BY <1>5, <1>7, UnusedReg
<1> DEFINE down == Taken(at, k)
<1>9. Underway(taken, i, from, down, u3)
  <2> HIDE DEF u2, r
  <2>1. QED BY <1>7, <1>8, Takes
<1>10. Bare(down, k) /\ Level(at)
  BY Fields, TakenBare
<1> DEFINE second == Operand(c, 2, up)
<1> HIDE DEF down, taken, r, u2, u3, input, output, second
<1>11. Underway(moved, i, from, down, u3)
  BY <1>4, <1>5, <1>9, <1>10, MovKeeps DEF AlwaysWritable, second
<1> HIDE DEF moved
<1>12. Underway(start, i, from, down, u3)
  BY <1>3, <1>5, <1>10, <1>11, OpKeeps DEF AlwaysWritable
<1>13. \A h, mask, shift : mask \notin {"zx", "pair"} /\ Underway(h, i, from, down, u3) => Underway(field(h, r, mask, shift), i, from, down, u3)
  <2> TAKE h, mask, shift
  <2> DEFINE p == MemOp(r, INVALID, 0, 128)
             v == Sym(mask, 0)
             w == imm(shift)
  <2> SUFFICES ASSUME mask \notin {"zx", "pair"}, Underway(h, i, from, down, u3)
               PROVE  Underway(field(h, r, mask, shift), i, from, down, u3)
    OBVIOUS
  <2>1. field(h, r, mask, shift)
        = op2(op2(op2(MovConst(movups(h, RegOp(Xmm(m)), input), r, v), "PAND", RegOp(Xmm(m)), p),
                  "PSRLD", RegOp(Xmm(m)), w), "POR", output, RegOp(Xmm(m)))
    BY <1>2
  <2>3. Whole64(v)
    BY SymWhole DEF Sym
  <2> HIDE DEF field, p, v, w
  <2>2. QED BY <1>3, <1>5, <1>8, <1>10, <2>1, <2>3, HalfFieldKeeps
<1> HIDE DEF start, field
<1>14. Underway(g, i, from, down, u3)
  <2>1. Underway(signed, i, from, down, u3)
    BY <1>12, <1>13
  <2> HIDE DEF signed
  <2>2. Underway(scaled0, i, from, down, u3)
    BY <1>13, <2>1
  <2> HIDE DEF scaled0
  <2>3. Underway(scaled, i, from, down, u3)
    BY <1>13, <2>2
  <2> HIDE DEF scaled
  <2>4. QED BY <1>13, <2>3
<1> HIDE DEF g, temp
<1>15. Underway(high, i, from, down, u3)
  BY <1>3, <1>5, <1>10, <1>14, OpKeeps DEF AlwaysWritable
<1> HIDE DEF high
<1>16. Underway(packed, i, from, down, u3)
  BY <1>3, <1>5, <1>10, <1>15, OpKeeps DEF AlwaysWritable
<1> HIDE DEF packed
<1>17. Underway(cleared, i, from, down, u3)
  BY <1>4, <1>5, <1>10, <1>16, OpKeeps DEF AlwaysWritable
<1> HIDE DEF cleared
<1>18. Underway(shuffled, i, from, down, u3)
  BY <1>3, <1>5, <1>10, <1>17, OpKeeps DEF AlwaysWritable
<1> HIDE DEF shuffled
<1>19. Underway(done, i, from, at, u2)
  BY <1>8, <1>10, <1>18, GivesBack DEF u3, down
<1> HIDE DEF done
<1>20. Underway(returned, i, from, at, u1)
  BY <1>19, UseReturns DEF u2
<1> HIDE DEF returned
<1>21. Underway(back, i, from, at, used)
  BY <1>20, UseReturns DEF u1
<1> HIDE DEF back
<1>22. Underway(zeroIfXmm(back), i, from, at, used) /\ Underway(zeroIfXmm(c), i, from, at, used)
  BY <1>21, Zeroes
<1>23. QED BY <1>1, <1>22, ExitKeeps

(* The four ways VPERM2F128 gets a half of a source into a register.       *)
LEMMA RaisedKeeps ==
  ASSUME NEW i, NEW from, NEW at, NEW used, Room(used, 13),
         NEW c, Underway(c, i, from, at, used), NEW n, NEW t, AlwaysWritable(i, "MOVUPS", t)
  PROVE  Underway(swap_out_upper_ymm(movups(swap_in_upper_ymm(c, {n}), t, RegOp(Xmm(n))), {n}),
                  i, from, at, used)
<1> DEFINE regs == {n}
           x == RegOp(Xmm(n))
           d == swap_in_upper_ymm(c, regs)
           e == movups(d, t, x)
<1>1. IsFiniteSet(regs)
  BY FS_Singleton
<1> HIDE DEF regs, x
<1>2. Underway(d, i, from, at, used)
  BY <1>1, Swaps
<1> HIDE DEF d
<1>3. Underway(e, i, from, at, used)
  BY <1>2, MovKeeps DEF AlwaysWritable
<1> HIDE DEF e
<1>4. Underway(swap_out_upper_ymm(e, regs), i, from, at, used)
  BY <1>1, <1>3, Swaps
<1>5. QED BY <1>4 DEF e, d, regs, x

LEMMA PermuteHalvesKeeps ==
  ASSUME NEW i, NEW from, NEW at, NEW used, Room(used, 9), NEW c, NEW s, StartOffset(s) = at.offset,
         Underway([c EXCEPT !.rspOffset = at.offset], i, from, at, used)
  PROVE  Underway(VPERM2F128_compile(c, s), i, from, at, used)
<1> DEFINE imm8 == immValue(c.operands[4])
           n(k) == c.operands[k].reg.n
           dst == RegOp(Xmm(n(1)))
           r == getUnusedXmmReg(c)
           t == RegOp(r)
           raised(d, k) == swap_out_upper_ymm(movups(swap_in_upper_ymm(d, {n(k)}), t,
                                                     RegOp(Xmm(n(k)))), {n(k)})
           select(d, sel, none) ==
             CASE none     -> op2(d, "XORPS", t, t)
               [] ~none /\ sel = 0 -> movups(d, t, Operand(c, 2, FALSE))
               [] ~none /\ sel = 1 -> raised(d, 2)
               [] ~none /\ sel = 2 -> movups(d, t, Operand(c, 3, FALSE))
               [] ~none /\ sel = 3 /\ isMemoryOperand(c.operands[3]) -> movups(d, t, Operand(c, 3, TRUE))
               [] OTHER    -> raised(d, 3)
           regs == {n(1), r.n}
           c0 == [c EXCEPT !.rspOffset = at.offset]
           start == use(c0, r)
           d0 == preserveXmmReg(start, r.n)
           d1 == select(d0, imm8 % 4, (imm8 \div 8) % 2 = 1)
           low == movups(d1, dst, t)
           in == swap_in_upper_ymm(low, regs)
           d2 == select(in, (imm8 \div 16) % 4, imm8 \div 128 = 1)
           high == movups(d2, dst, t)
           out == swap_out_upper_ymm(high, regs)
           down == Lowered(at)
           more == used \cup {r}
<1>1. VPERM2F128_compile(c, s) = forgetProduct(out, r)
  BY DEF VPERM2F128_compile, forgetProduct
<1>2. PICK m : r = Xmm(m)
  BY UnusedXmm
<1>3. AlwaysWritable(i, "MOVUPS", t) /\ AlwaysWritable(i, "XORPS", t) /\ AlwaysWritable(i, "MOVUPS", dst)
  <2> HIDE DEF n, r
  <2>1. QED BY <1>2, AlwaysXmm, VectorOps
<1>4. Room(more, 13)
  BY RoomOne
<1>5. IsFiniteSet(regs)
  <2>1. \A a, b : IsFiniteSet({a} \cup {b})
    BY FS_Singleton, FS_AddElement
  <2>2. regs = {n(1)} \cup {r.n}
    OBVIOUS
  <2> HIDE DEF regs
  <2>3. QED BY <2>1, <2>2
<1>6. Underway(d0, i, from, down, more)
  <2> HIDE DEF r
  <2>1. QED BY BorrowsXmm
<1>7. Level(at)
  BY Fields
<1>8. ASSUME NEW d, NEW sel, NEW none, Underway(d, i, from, down, more)
      PROVE  Underway(select(d, sel, none), i, from, down, more)
  <2> DEFINE cleared == op2(d, "XORPS", t, t)
  <2>1. \/ select(d, sel, none) = cleared
        \/ \E x : select(d, sel, none) = movups(d, t, x)
        \/ \E k : select(d, sel, none) = raised(d, k)
    <3> DEFINE X == movups(d, t, Operand(c, 2, FALSE))
               Y == movups(d, t, Operand(c, 3, FALSE))
               Z == movups(d, t, Operand(c, 3, TRUE))
               V == raised(d, 2)
               W == raised(d, 3)
    <3>1. /\ \E x : X = movups(d, t, x)
          /\ \E x : Y = movups(d, t, x)
          /\ \E x : Z = movups(d, t, x)
          /\ \E k : V = raised(d, k)
          /\ \E k : W = raised(d, k)
      OBVIOUS
    <3>2. select(d, sel, none) =
            CASE none     -> cleared
              [] ~none /\ sel = 0 -> X
              [] ~none /\ sel = 1 -> V
              [] ~none /\ sel = 2 -> Y
              [] ~none /\ sel = 3 /\ isMemoryOperand(c.operands[3]) -> Z
              [] OTHER    -> W
      OBVIOUS
    <3> HIDE DEF cleared, X, Y, Z, V, W, raised, select
    <3>3. select(d, sel, none) \in {cleared, X, Y, Z, V, W}
      BY <3>2
    <3>4. QED BY <3>1, <3>3
  <2> HIDE DEF select, r, t, more, down
  <2>2. Underway(cleared, i, from, down, more)
    BY <1>3, <1>4, <1>7, <1>8, OpKeeps DEF AlwaysWritable
  <2>3. \A x : Underway(movups(d, t, x), i, from, down, more)
    BY <1>3, <1>4, <1>7, <1>8, MovKeeps DEF AlwaysWritable
  <2>4. \A k : Underway(raised(d, k), i, from, down, more)
    <3> TAKE k
    <3> DEFINE nk == n(k)
    <3> HIDE DEF nk
    <3>1. Underway(swap_out_upper_ymm(movups(swap_in_upper_ymm(d, {nk}), t, RegOp(Xmm(nk))), {nk}),
                   i, from, down, more)
      BY <1>3, <1>4, <1>7, <1>8, RaisedKeeps
    <3>2. QED BY <3>1 DEF nk
  <2> HIDE DEF cleared, raised
  <2>5. QED BY <2>1, <2>2, <2>3, <2>4
<1> HIDE DEF select, d0, down, more, t, dst, regs, imm8
<1>9. Underway(d1, i, from, down, more)
  BY <1>6, <1>8
<1> HIDE DEF d1
<1>10. Underway(low, i, from, down, more)
  BY <1>3, <1>4, <1>7, <1>9, MovKeeps DEF AlwaysWritable
<1> HIDE DEF low
<1>11. Underway(in, i, from, down, more)
  BY <1>5, <1>7, <1>10, Swaps
<1> HIDE DEF in
<1>12. Underway(d2, i, from, down, more)
  BY <1>8, <1>11
<1> HIDE DEF d2
<1>13. Underway(high, i, from, down, more)
  BY <1>3, <1>4, <1>7, <1>12, MovKeeps DEF AlwaysWritable
<1> HIDE DEF high
<1>14. Underway(out, i, from, down, more)
  BY <1>5, <1>7, <1>13, Swaps
<1> HIDE DEF out, r
<1>15. QED BY <1>1, <1>7, <1>14, ForgetKeeps DEF down, more

-----------------------------------------------------------------------------
(***************************************************************************)
(* The implementations of integer instructions.                            *)
(***************************************************************************)

(* A general register that is written.                                     *)
General(S, o) ==
  /\ IsOperand(o) /\ ~isMemoryOperand(o) /\ ~isXmm(o) /\ ~isYmm(o)
  /\ o.reg.n # RSP.n /\ Bare(S, o.reg.n)

LEMMA IntegerOps ==
  {"MOV", "NOT", "AND", "OR", "SUB", "SAR", "SHL", "SHR", "PMOVMSKB"} \cap Special = {}
BY DEF Special, Pushes, Pops

LEMMA PushedGeneral ==
  ASSUME NEW S, NEW V
  PROVE  /\ \A n : Bare(S, n) => Bare(Pushed(S, V), n)
         /\ \A o : General(S, o) => General(Pushed(S, V), o)
<1> DEFINE T == Pushed(S, V)
<1>1. T.sure = S.sure /\ T.regs = S.regs
  BY ChangedFields DEF Pushed
<1> HIDE DEF T
<1>2. \A n : Bare(S, n) => Bare(T, n)
  BY <1>1 DEF Bare
<1>3. QED BY <1>2 DEF General, T

LEMMA TakenGeneral ==
  ASSUME NEW S, NEW n, NEW o, General(S, o)
  PROVE  General(Taken(S, n), o)
BY TakenBare DEF General

LEMMA GeneralWritable ==
  ASSUME NEW S, NEW o, General(S, o), NEW i, NEW op, op \notin Special, NEW up
  PROVE  /\ Writable(S, i, op, toEncoderOperand(o, up))
         /\ Writable(S, i, op, RegOp(to64BitRegister(o)))
<1>1. toEncoderOperand(o, up) = o
  BY DEF General, toEncoderOperand
<1>2. Writable(S, i, op, o)
  BY DEF General, Writable, NotRsp, NotGprRsp
<1> DEFINE r == to64BitRegister(o)
<1>3. r.n = o.reg.n /\ r.class # "xmm"
  BY DEF to64BitRegister, R64, Reg, General, isXmm
<1> HIDE DEF r
<1>4. Writable(S, i, op, RegOp(r))
  BY <1>3, WritableGpr DEF General
<1>5. QED BY <1>1, <1>2, <1>4 DEF r

(* The register that is borrowed, by either of its names.                  *)
LEMMA ScratchWritable ==
  ASSUME NEW S, NEW n, n # RSP.n, Bare(S, n), NEW i, NEW op, op \notin Special
  PROVE  Writable(S, i, op, RegOp(R64(n))) /\ Writable(S, i, op, RegOp(R32(n)))
BY WritableGpr DEF R64, R32, Reg

LEMMA MaskKeeps ==
  ASSUME NEW i, NEW from, NEW at, NEW used, Room(used, 9),
         NEW c, Underway(c, i, from, at, used), General(at, i.operands[1]),
         Len(i.operands) \in Nat, Len(i.operands) >= 1, NEW up
  PROVE  Underway(VPMOVMSKB_implementation(c, up), i, from, at, used)
<1>1. CASE ~up
  <2>1. Ready(at, i, "PMOVMSKB", up)
    BY GeneralWritable, IntegerOps DEF Ready
  <2>2. Underway(Plain(c, "PMOVMSKB", up), i, from, at, used)
    BY <2>1, PlainKeeps, RoomFor
  <2>3. QED BY <1>1, <2>2 DEF VPMOVMSKB_implementation
<1>2. CASE up
  <2>1. PICK n \in Gprs \ {RSP.n} : getUnusedReg(c) = R64(n)
    BY UnusedReg, RoomFor
  <2> DEFINE a == Operand(c, 1, up)
             b == Operand(c, 2, up)
             k == ImmOp(Sym("imm", 16))
             r == R64(n)
             t == RegOp(R32(n))
             taken == takeReg(c, r)
             d == op2(taken, "PMOVMSKB", t, b)
             e == pushf(d)
             f == op2(e, "SHL", t, k)
             g == op2(f, "OR", a, t)
             h == popf(g)
             down == Taken(at, n)
             below == Pushed(down, {})
             more == used \cup {r}
  <2>2. VPMOVMSKB_implementation(c, up) = giveBackReg(h, r)
    <3>1. r.n = n
      BY DEF R64, Reg
    <3>2. QED BY <1>2, <2>1, <3>1 DEF VPMOVMSKB_implementation
  <2>3. a = toEncoderOperand(i.operands[1], up) /\ Level(at) /\ Level(down)
    <3>1. c.operands = i.operands /\ Level(at)
      BY Fields
    <3>2. a = toEncoderOperand(i.operands[1], up)
      BY <3>1 DEF Operand
    <3>3. QED BY <3>1, <3>2, ChangedLevel
  <2>4. Bare(down, n) /\ Bare(below, n) /\ General(below, i.operands[1])
    BY TakenBare, TakenGeneral, PushedGeneral
  <2>5. /\ Writable(down, i, "PMOVMSKB", t) /\ Writable(below, i, "SHL", t)
        /\ Writable(below, i, "OR", a)
    <3> HIDE DEF down, below
    <3>1. QED BY <2>3, <2>4, ScratchWritable, GeneralWritable, IntegerOps
  <2>6. Room(more, 13)
    BY RoomFor
  <2>7. Underway(taken, i, from, down, more)
    BY Takes
  <2> HIDE DEF a, b, k, t, taken, more, down
  <2>8. Underway(d, i, from, down, more)
    BY <2>5, <2>6, <2>7, OpKeeps
  <2> HIDE DEF d
  <2>9. Underway(e, i, from, below, more)
    BY <2>8, PushEmits
  <2> HIDE DEF e, below
  <2>10. Underway(f, i, from, below, more)
    BY <2>5, <2>6, <2>9, OpKeeps
  <2> HIDE DEF f
  <2>11. Underway(g, i, from, below, more)
    BY <2>5, <2>6, <2>10, OpKeeps
  <2> HIDE DEF g
  <2>12. Underway(h, i, from, down, more)
    BY <2>3, <2>11, PopEmits DEF below
  <2> HIDE DEF h
  <2>13. QED BY <2>2, <2>3, <2>12, GivesBack DEF more, down
<1>3. QED BY <1>1, <1>2

LEMMA AndNotKeeps ==
  ASSUME NEW i, NEW from, NEW at, NEW used, Room(used, 9),
         NEW c, Underway(c, i, from, at, used), General(at, i.operands[1]), NEW up
  PROVE  Underway(ANDN_implementation(c, up), i, from, at, used)
<1>1. PICK n \in Gprs \ {RSP.n} : getUnusedReg(c) = R64(n)
  BY UnusedReg, RoomFor
<1> DEFINE r == R64(n)
           t == RegOp(IF c.opWidth = 64 THEN r ELSE R32(n))
           taken == takeReg(c, r)
           a == RegOp(to64BitRegister(c.operands[1]))
           b == RegOp(to64BitRegister(c.operands[2]))
           x == Operand(c, 3, up)
           loaded == mov(taken, RegOp(r), b)
           d == op1(loaded, "NOT", t)
           e == op2(d, "AND", t, x)
           f == mov(e, a, RegOp(r))
           down == Taken(at, n)
           more == used \cup {r}
<1>2. ANDN_implementation(c, up) = giveBackReg(f, r)
  <2>1. r.n = n
    BY DEF R64, Reg
  <2>2. QED BY <1>1, <2>1 DEF ANDN_implementation
<1>3. a = RegOp(to64BitRegister(i.operands[1])) /\ Level(at)
  BY Fields
<1>4. Bare(down, n) /\ General(down, i.operands[1])
  BY TakenBare, TakenGeneral
<1>5. /\ Writable(down, i, "MOV", RegOp(r)) /\ Writable(down, i, "NOT", t)
      /\ Writable(down, i, "AND", t) /\ Writable(down, i, "MOV", a)
  <2> HIDE DEF down
  <2>1. QED BY <1>3, <1>4, ScratchWritable, GeneralWritable, IntegerOps
<1>6. Room(more, 13)
  BY RoomOne
<1>7. Underway(taken, i, from, down, more)
  BY Takes
<1> HIDE DEF r, t, a, b, x, taken, more, down
<1>8. Underway(loaded, i, from, down, more)
  BY <1>5, <1>6, <1>7, MovKeeps
<1> HIDE DEF loaded
<1>9. Underway(d, i, from, down, more)
  BY <1>5, <1>6, <1>8, OpKeeps
<1> HIDE DEF d
<1>10. Underway(e, i, from, down, more)
  BY <1>5, <1>6, <1>9, OpKeeps
<1> HIDE DEF e
<1>11. Underway(f, i, from, down, more)
  BY <1>5, <1>6, <1>10, MovKeeps
<1> HIDE DEF f
<1>12. QED BY <1>2, <1>3, <1>11, GivesBack DEF more, down, r

LEMMA ResetLowestKeeps ==
  ASSUME NEW i, NEW from, NEW at, NEW used, Room(used, 9),
         NEW c, Underway(c, i, from, at, used), General(at, i.operands[1]), NEW up
  PROVE  Underway(BLSR_implementation(c, up), i, from, at, used)
<1> DEFINE dst == Operand(c, 1, up)
           src == Operand(c, 2, up)
           d == mov(c, dst, src)
           one == ImmOp(Sym("imm", 1))
           e == Emit(d, "SUB", <<RegOp(dst.reg), one>>)
<1>1. dst = i.operands[1]
  BY Fields DEF General, toEncoderOperand, Operand
<1>2. Writable(at, i, "MOV", dst) /\ Writable(at, i, "AND", dst)
  <2>1. toEncoderOperand(i.operands[1], up) = dst
    BY Fields DEF Operand
  <2>2. QED BY <2>1, GeneralWritable, IntegerOps
<1>3. BLSR_implementation(c, up) = op2(e, "AND", dst, src)
  <2>1. dst.reg # RSP
    BY <1>1, RspFacts DEF General
  <2>2. sub(d, dst.reg, 1) = e
    BY <2>1 DEF sub
  <2>3. QED BY <2>2 DEF BLSR_implementation
<1>4. Emits(at, "SUB", RegOp(dst.reg))
  <2> DEFINE o == RegOp(dst.reg)
  <2>1. Writable(at, i, "SUB", o)
    BY <1>1, WritableGpr, IntegerOps DEF General, isXmm
  <2>2. ~isMemoryOperand(o)
    BY RegOpReg
  <2> HIDE DEF o
  <2>3. QED BY <2>1, <2>2, WritableEmits DEF o
<1>5. Room(used, 13)
  BY RoomFor
<1> HIDE DEF dst, src, one
<1>6. Underway(d, i, from, at, used)
  BY <1>2, <1>5, MovKeeps
<1> HIDE DEF d
<1>7. Underway(e, i, from, at, used)
  <2> DEFINE args == <<RegOp(dst.reg), one>>
  <2>1. args[1] = RegOp(dst.reg)
    OBVIOUS
  <2> HIDE DEF args
  <2>2. Underway(Emit(d, "SUB", args), i, from, at, used)
    BY <1>4, <1>6, <2>1, EmitKeeps
  <2>3. QED BY <2>2 DEF args
<1> HIDE DEF e
<1>8. QED BY <1>2, <1>3, <1>5, <1>7, OpKeeps

-----------------------------------------------------------------------------
(***************************************************************************)
(* The shifts.                                                             *)
(***************************************************************************)
Compilation(c) ==
  \E iclass, operands, opWidth, rip, offset, requests, exited, usedRegs :
    c = [iclass |-> iclass, operands |-> operands, opWidth |-> opWidth, rip |-> rip,
         rspOffset |-> offset, requests |-> requests, exited |-> exited, usedRegs |-> usedRegs]

LEMMA CompilationFields ==
  ASSUME NEW iclass, NEW operands, NEW opWidth, NEW rip, NEW offset, NEW requests, NEW exited,
         NEW usedRegs, NEW d,
         d = [iclass |-> iclass, operands |-> operands, opWidth |-> opWidth, rip |-> rip,
              rspOffset |-> offset, requests |-> requests, exited |-> exited, usedRegs |-> usedRegs]
  PROVE  Compilation(d) /\ d.usedRegs = usedRegs
<1>1. Compilation(d)
  BY Zenon DEF Compilation
<1>2. d.usedRegs = usedRegs
  OBVIOUS
<1>3. QED BY <1>1, <1>2

LEMMA EmitUses ==
  ASSUME NEW c, Compilation(c), NEW op, NEW args
  PROVE  Compilation(Emit(c, op, args)) /\ Emit(c, op, args).usedRegs = c.usedRegs
<1> DEFINE more == Append(c.requests, Request(op, args, c.rspOffset))
<1>1. PICK iclass, operands, opWidth, rip, offset, requests, exited, usedRegs :
        c = [iclass |-> iclass, operands |-> operands, opWidth |-> opWidth, rip |-> rip,
             rspOffset |-> offset, requests |-> requests, exited |-> exited, usedRegs |-> usedRegs]
  BY DEF Compilation
<1>2. Emit(c, op, args) = [c EXCEPT !.requests = more]
  BY DEF Emit
<1> HIDE DEF more
<1>3. Emit(c, op, args) =
        [iclass |-> iclass, operands |-> operands, opWidth |-> opWidth, rip |-> rip,
         rspOffset |-> offset, requests |-> more, exited |-> exited, usedRegs |-> usedRegs]
  BY <1>1, <1>2
<1>4. QED BY <1>1, <1>3, CompilationFields

LEMMA OffsetUses ==
  ASSUME NEW c, Compilation(c), NEW k
  PROVE  Compilation([c EXCEPT !.rspOffset = k]) /\ [c EXCEPT !.rspOffset = k].usedRegs = c.usedRegs
<1>1. PICK iclass, operands, opWidth, rip, offset, requests, exited, usedRegs :
        c = [iclass |-> iclass, operands |-> operands, opWidth |-> opWidth, rip |-> rip,
             rspOffset |-> offset, requests |-> requests, exited |-> exited, usedRegs |-> usedRegs]
  BY DEF Compilation
<1>2. [c EXCEPT !.rspOffset = k] =
        [iclass |-> iclass, operands |-> operands, opWidth |-> opWidth, rip |-> rip,
         rspOffset |-> k, requests |-> requests, exited |-> exited, usedRegs |-> usedRegs]
  BY <1>1
<1>3. QED BY <1>1, <1>2, CompilationFields

LEMMA RegsUses ==
  ASSUME NEW c, Compilation(c), NEW r
  PROVE  /\ Compilation(use(c, r)) /\ use(c, r).usedRegs = c.usedRegs \cup {r}
         /\ Compilation(returnReg(c, r)) /\ returnReg(c, r).usedRegs = c.usedRegs \ {r}
<1>1. PICK iclass, operands, opWidth, rip, offset, requests, exited, usedRegs :
        c = [iclass |-> iclass, operands |-> operands, opWidth |-> opWidth, rip |-> rip,
             rspOffset |-> offset, requests |-> requests, exited |-> exited, usedRegs |-> usedRegs]
  BY DEF Compilation
<1>2. ASSUME NEW R
      PROVE  LET d == [c EXCEPT !.usedRegs = R]
             IN  Compilation(d) /\ d.usedRegs = R
  <2>1. [c EXCEPT !.usedRegs = R] =
          [iclass |-> iclass, operands |-> operands, opWidth |-> opWidth, rip |-> rip,
           rspOffset |-> offset, requests |-> requests, exited |-> exited, usedRegs |-> R]
    BY <1>1
  <2>2. QED BY <2>1, CompilationFields
<1> DEFINE A == c.usedRegs \cup {r}
           B == c.usedRegs \ {r}
<1>3. use(c, r) = [c EXCEPT !.usedRegs = A] /\ returnReg(c, r) = [c EXCEPT !.usedRegs = B]
  BY DEF use, returnReg
<1>4. Compilation(use(c, r)) /\ use(c, r).usedRegs = A
      /\ Compilation(returnReg(c, r)) /\ returnReg(c, r).usedRegs = B
  <2> HIDE DEF A, B
  <2>1. QED BY <1>2, <1>3
<1>5. QED BY <1>4

LEMMA StackUses ==
  ASSUME NEW c, Compilation(c), NEW r
  PROVE  /\ Compilation(push(c, r)) /\ push(c, r).usedRegs = c.usedRegs
         /\ Compilation(pop(c, r)) /\ pop(c, r).usedRegs = c.usedRegs
         /\ Compilation(pushf(c)) /\ pushf(c).usedRegs = c.usedRegs
         /\ Compilation(takeReg(c, r)) /\ takeReg(c, r).usedRegs = c.usedRegs \cup {r}
         /\ Compilation(giveBackReg(c, r)) /\ giveBackReg(c, r).usedRegs = c.usedRegs \ {r}
<1>1. ASSUME NEW d, Compilation(d)
      PROVE  /\ Compilation(push(d, r)) /\ push(d, r).usedRegs = d.usedRegs
             /\ Compilation(pop(d, r)) /\ pop(d, r).usedRegs = d.usedRegs
             /\ Compilation(pushf(d)) /\ pushf(d).usedRegs = d.usedRegs
  <2>1. \E k : push(d, r) = [Emit(d, "PUSH", <<RegOp(r)>>) EXCEPT !.rspOffset = k]
    BY DEF push
  <2>2. \E k : pop(d, r) = [Emit(d, "POP", <<RegOp(r)>>) EXCEPT !.rspOffset = k]
    BY DEF pop
  <2>3. \E k : pushf(d) = [Emit(d, "PUSHF", <<>>) EXCEPT !.rspOffset = k]
    BY DEF pushf
  <2> DEFINE w(op, args, k) == [Emit(d, op, args) EXCEPT !.rspOffset = k]
  <2>4. \A op, args, k : Compilation(w(op, args, k)) /\ w(op, args, k).usedRegs = d.usedRegs
    <3> TAKE op, args, k
    <3> DEFINE e == Emit(d, op, args)
    <3>1. Compilation(e) /\ e.usedRegs = d.usedRegs
      BY <1>1, EmitUses
    <3> HIDE DEF e
    <3>2. Compilation([e EXCEPT !.rspOffset = k]) /\ [e EXCEPT !.rspOffset = k].usedRegs = e.usedRegs
      BY <3>1, OffsetUses
    <3>3. QED BY <3>1, <3>2 DEF e
  <2> DEFINE x == push(d, r)
             y == pop(d, r)
             z == pushf(d)
  <2>5. /\ \E k : x = w("PUSH", <<RegOp(r)>>, k)
        /\ \E k : y = w("POP", <<RegOp(r)>>, k)
        /\ \E k : z = w("PUSHF", <<>>, k)
    BY <2>1, <2>2, <2>3
  <2> HIDE DEF w, x, y, z
  <2>6. /\ Compilation(x) /\ x.usedRegs = d.usedRegs /\ Compilation(y) /\ y.usedRegs = d.usedRegs
        /\ Compilation(z) /\ z.usedRegs = d.usedRegs
    BY <2>4, <2>5
  <2>7. QED BY <2>6 DEF x, y, z
<1>2. Compilation(takeReg(c, r)) /\ takeReg(c, r).usedRegs = c.usedRegs \cup {r}
  BY <1>1, RegsUses DEF takeReg
<1>3. Compilation(giveBackReg(c, r)) /\ giveBackReg(c, r).usedRegs = c.usedRegs \ {r}
  BY <1>1, RegsUses DEF giveBackReg
<1>4. QED BY <1>1, <1>2, <1>3

(* The registers in use are the same after an instruction whose operands   *)
(* are substituted.                                                        *)
LEMMA SubstitutionUses ==
  ASSUME NEW i, NEW from, NEW at, NEW used, Room(used, 13),
         NEW c, Underway(c, i, from, at, used), NEW op
  PROVE  /\ Compilation(c)
         /\ \A args : withRipSubstitution(c, op, args).usedRegs = c.usedRegs
<1>1. Compilation(c)
  BY DEF Underway, Compilation
<1>2. PICK n \in Gprs \ {RSP.n} : getUnusedReg(c) = R64(n) /\ R64(n) \notin c.usedRegs
  BY UnusedReg
<1>3. \A d, a : Compilation(d) => Compilation(Emit(d, op, a)) /\ Emit(d, op, a).usedRegs = d.usedRegs
  BY EmitUses
<1> SUFFICES ASSUME NEW args
             PROVE  withRipSubstitution(c, op, args).usedRegs = c.usedRegs
  BY <1>1
<1>4. CASE usesRipAddressing(c)
  <2> DEFINE r == R64(n)
             d == takeReg(c, r)
             e == MovConst(d, r, c.rip)
             a == [k \in 1 .. Len(args) |-> substRip(args[k], r)]
             f == Emit(e, op, a)
  <2>1. withRipSubstitution(c, op, args) = giveBackReg(f, r)
    BY <1>2, <1>4 DEF withRipSubstitution, ripInReg
  <2>2. Compilation(d) /\ d.usedRegs = c.usedRegs \cup {r}
    BY <1>1, StackUses
  <2> HIDE DEF d, a
  <2>3. Compilation(e) /\ e.usedRegs = d.usedRegs
    BY <2>2, EmitUses DEF MovConst
  <2> HIDE DEF e
  <2>4. Compilation(f) /\ f.usedRegs = e.usedRegs
    BY <1>3, <2>3
  <2> HIDE DEF f
  <2>5. giveBackReg(f, r).usedRegs = f.usedRegs \ {r}
    BY <2>4, StackUses
  <2>6. QED BY <1>2, <2>1, <2>2, <2>3, <2>4, <2>5
<1>5. CASE ~usesRipAddressing(c)
  <2>1. \E a : withRipSubstitution(c, op, args) = Emit(c, op, a)
    BY <1>5 DEF withRipSubstitution
  <2>2. QED BY <1>1, <1>3, <2>1
<1>6. QED BY <1>4, <1>5

(* A register moved to another: what it held is in both.                   *)
LEMMA SubstitutionMoves ==
  ASSUME NEW i, NEW from, NEW at, NEW used, Room(used, 13),
         NEW c, Underway(c, i, from, at, used),
         NEW n, n # RSP.n, NEW k \in Gprs \ {RSP.n},
         usesRipAddressing(i) => R64(n) \in c.usedRegs /\ R64(k) \in c.usedRegs
  PROVE  Underway(mov(c, RegOp(R64(n)), RegOp(R64(k))), i, from, Holding(at, n, at.regs[k]), used)
<1> DEFINE V == at.regs[k]
           H == Holding(at, n, V)
           x == RegOp(R64(n))
           y == RegOp(R64(k))
           args == <<x, y>>
<1>1. Len(args) = 2 /\ args[1] = x /\ args[2] = y
  OBVIOUS
<1>2. \A r, d : substRip(x, r) = x /\ substRip(y, r) = y /\ offsetRsp(x, d) = x /\ offsetRsp(y, d) = y
  BY RegOpReg DEF substRip, offsetRsp
<1>3. c.rip = at.rip /\ Level(at)
      /\ usesRipAddressing(c) = usesRipAddressing(i) /\ usesRspAddressing(c) = usesRspAddressing(i)
  BY Fields DEF usesRipAddressing, usesRspAddressing
<1>4. mov(c, x, y) = withRipSubstitution(c, "MOV", args)
  BY DEF mov
<1> HIDE DEF args
<1>5. CASE usesRipAddressing(c)
  <2>1. PICK q \in Gprs \ {RSP.n} : getUnusedReg(c) = R64(q) /\ R64(q) \notin c.usedRegs
    BY UnusedReg
  <2>2. q # n /\ q # k
    BY <1>3, <1>5, <2>1
  <2> DEFINE r == R64(q)
             rip == at.rip
             d == takeReg(c, r)
             e == MovConst(d, r, rip)
             a == [j \in 1 .. Len(args) |-> substRip(args[j], r)]
             f == Emit(e, "MOV", a)
             S == Taken(at, q)
             T == Holding(S, n, V)
             more == used \cup {r}
  <2>3. withRipSubstitution(c, "MOV", args) = giveBackReg(f, r)
    BY <1>3, <1>5, <2>1 DEF withRipSubstitution, ripInReg
  <2>4. a[1] = x /\ a[2] = y
    BY <1>1, <1>2
  <2>5. Underway(d, i, from, S, more)
    BY Takes
  <2>6. Bare(S, q) /\ S.regs[k] = V /\ (at.sure => Whole64(rip))
    BY <1>3, <2>2, TakenBare, TakenFields DEF Level
  <2>7. S.sure = at.sure
    BY TakenFields
  <2> HIDE DEF d, S, rip, x, y, a
  <2>8. Underway(e, i, from, S, more)
    BY <2>5, <2>6, <2>7, ScratchKeeps
  <2> HIDE DEF e, V
  <2>9. Underway(f, i, from, T, more)
    BY <2>4, <2>6, <2>8, MovRegEmits DEF x, y
  <2>10. Weaker(T, Taken(H, q))
    <3> DEFINE U == Taken(H, q)
    <3>1. /\ S.offset = at.offset - 8 /\ S.words = Above(at, at.regs[q]) /\ S.dest = at.dest
          /\ S.rip = at.rip /\ S.target = at.target
          /\ \A z \in Gprs : S.regs[z] = IF z = q THEN {} ELSE at.regs[z]
      BY TakenFields DEF S
    <3>2. /\ T.offset = S.offset /\ T.words = S.words /\ T.dest = S.dest
          /\ T.rip = S.rip /\ T.target = S.target /\ T.sure = S.sure
          /\ \A z \in Gprs : T.regs[z] = IF z = n THEN V ELSE S.regs[z]
      BY HoldingFields
    <3>3. /\ H.offset = at.offset /\ H.words = at.words /\ H.dest = at.dest
          /\ H.rip = at.rip /\ H.target = at.target /\ H.sure = at.sure
          /\ \A z \in Gprs : H.regs[z] = IF z = n THEN V ELSE at.regs[z]
      BY HoldingFields
    <3> HIDE DEF T, H
    <3>4. /\ U.offset = H.offset - 8 /\ U.words = Above(H, H.regs[q]) /\ U.dest = H.dest
          /\ U.rip = H.rip /\ U.target = H.target /\ U.sure = H.sure
          /\ \A z \in Gprs : U.regs[z] = IF z = q THEN {} ELSE H.regs[z]
      BY TakenFields
    <3> HIDE DEF U
    <3>5. H.regs[q] = at.regs[q]
      BY <2>2, <3>3
    <3>6. Above(H, H.regs[q]) = Above(at, at.regs[q])
      BY <3>3, <3>5 DEF Above
    <3>7. \A z \in Gprs : U.regs[z] \subseteq T.regs[z]
      BY <2>2, <3>1, <3>2, <3>3, <3>4
    <3>8. U.words = T.words /\ U.offset = T.offset
      BY <3>1, <3>2, <3>3, <3>4, <3>6
    <3>9. U.target = T.target /\ U.dest = T.dest /\ U.sure = T.sure
      BY <2>7, <3>1, <3>2, <3>3, <3>4
    <3>10. Implied(T, U)
      BY <3>7, <3>8, <3>9 DEF Implied
    <3>11. QED BY <3>9, <3>10, ImpliedWeaker DEF Same, U
  <2>11. Level(H) /\ Level(Taken(H, q)) /\ Taken(H, q).rip = T.rip
    <3>1. Level(H) /\ H.rip = at.rip
      BY <1>3, ChangedLevel, HoldingFields
    <3>2. S.rip = at.rip /\ T.rip = S.rip
      BY TakenFields, HoldingFields DEF S
    <3> HIDE DEF H, T
    <3>3. Taken(H, q).rip = H.rip
      BY TakenFields
    <3>4. QED BY <3>1, <3>2, <3>3, ChangedLevel
  <2> HIDE DEF f, H, T
  <2>12. Underway(f, i, from, Taken(H, q), more)
    BY <2>9, <2>10, <2>11, UnderwayWeaker
  <2>13. Underway(giveBackReg(f, r), i, from, H, used)
    BY <2>11, <2>12, GivesBack
  <2>14. QED BY <1>4, <2>3, <2>13 DEF H, V, x, y
<1>6. CASE ~usesRipAddressing(c)
  <2> DEFINE offset == [j \in 1 .. Len(args) |-> offsetRsp(args[j], c.rspOffset)]
  <2>1. withRipSubstitution(c, "MOV", args) \in {Emit(c, "MOV", offset), Emit(c, "MOV", args)}
    BY <1>6 DEF withRipSubstitution
  <2>2. offset[1] = x /\ offset[2] = y
    BY <1>1, <1>2
  <2> HIDE DEF offset
  <2>3. Underway(Emit(c, "MOV", offset), i, from, H, used)
    BY <2>2, MovRegEmits
  <2>4. Underway(Emit(c, "MOV", args), i, from, H, used)
    BY <1>1, MovRegEmits
  <2>5. QED BY <1>4, <2>1, <2>3, <2>4
<1>7. QED BY <1>5, <1>6

LEMMA OpUses ==
  ASSUME NEW i, NEW from, NEW at, NEW used, Room(used, 13),
         NEW c, Underway(c, i, from, at, used), NEW a, NEW b
  PROVE  /\ mov(c, a, b).usedRegs = c.usedRegs
         /\ \A op : op2(c, op, a, b).usedRegs = c.usedRegs
<1>1. \A op, args : withRipSubstitution(c, op, args).usedRegs = c.usedRegs
  BY SubstitutionUses
<1>2. QED BY <1>1 DEF mov, op2

LEMMA PushUses ==
  ASSUME NEW i, NEW from, NEW at, NEW used, NEW c, Underway(c, i, from, at, used), NEW r
  PROVE  /\ push(c, r).usedRegs = c.usedRegs /\ pop(c, r).usedRegs = c.usedRegs
         /\ pushf(c).usedRegs = c.usedRegs
         /\ takeReg(c, r).usedRegs = c.usedRegs \cup {r}
         /\ giveBackReg(c, r).usedRegs = c.usedRegs \ {r}
<1>1. Compilation(c)
  BY DEF Underway, Compilation
<1>2. QED BY <1>1, StackUses

(* RCX while it holds the count, above the register that is shifted.       *)
Counting(S, n) == Taken(Taken(S, n), RCX.n)

(* The shift itself, in a borrowed register and with its count in RCX.     *)
CountedShift(c, r, l, t, x, y, op, dst) ==
  LET taken == takeReg(c, r)
      load == mov(taken, RegOp(l), x)
      pushed == push(load, RCX)
      count == mov(pushed, RegOp(RCX), y)
      d == op2(count, op, RegOp(t), RegOp(RCX))
      e == mov(d, dst, RegOp(r))
  IN  giveBackReg(pop(e, RCX), r)

Shiftable(c, i, from, at, used, r, l, t, op, dst) ==
  /\ Room(used, 12) /\ Underway(c, i, from, at, used) /\ op \notin Special
  /\ \E n \in Gprs \ {RSP.n} : /\ r = R64(n) /\ l \in {R64(n), R32(n)} /\ t \in {R64(n), R32(n)}
                               /\ Writable(Counting(at, n), i, "MOV", dst)

LEMMA CountedShiftKeeps ==
  ASSUME NEW c, NEW i, NEW from, NEW at, NEW used, NEW r, NEW l, NEW t, NEW op, NEW dst,
         Shiftable(c, i, from, at, used, r, l, t, op, dst), NEW x, NEW y
  PROVE  /\ Underway(CountedShift(c, r, l, t, x, y, op, dst), i, from, at, used)
         /\ CountedShift(c, r, l, t, x, y, op, dst).usedRegs = c.usedRegs \ {r}
<1>0. /\ Room(used, 12) /\ Underway(c, i, from, at, used) /\ op \notin Special
      /\ \E n \in Gprs \ {RSP.n} : /\ r = R64(n) /\ l \in {R64(n), R32(n)} /\ t \in {R64(n), R32(n)}
                                   /\ Writable(Counting(at, n), i, "MOV", dst)
  BY DEF Shiftable
<1> PICK n \in Gprs \ {RSP.n} : /\ r = R64(n) /\ l \in {R64(n), R32(n)} /\ t \in {R64(n), R32(n)}
                                /\ Writable(Counting(at, n), i, "MOV", dst)
  BY <1>0
<1> USE <1>0
<1> DEFINE taken == takeReg(c, r)
           load == mov(taken, RegOp(l), x)
           pushed == push(load, RCX)
           count == mov(pushed, RegOp(RCX), y)
           d == op2(count, op, RegOp(t), RegOp(RCX))
           e == mov(d, dst, RegOp(r))
           f == pop(e, RCX)
           down == Taken(at, n)
           below == Taken(down, RCX.n)
           more == used \cup {r}
           R == c.usedRegs \cup {r}
<1>1. RCX = R64(RCX.n) /\ RCX.n \in Gprs \ {RSP.n}
  BY RspFacts, RegistersAssumption DEF RCX, R64, Reg
<1>2. Level(at) /\ Level(down)
  BY Fields, ChangedLevel
<1>3. Bare(down, n) /\ Bare(below, n) /\ Bare(below, RCX.n)
  <2> HIDE DEF down
  <2>1. Bare(below, RCX.n) /\ (Bare(down, n) => Bare(below, n))
    BY TakenBare
  <2>2. QED BY <2>1, TakenBare DEF down
<1>4. /\ Writable(down, i, "MOV", RegOp(l)) /\ Writable(below, i, "MOV", RegOp(RCX))
      /\ Writable(below, i, op, RegOp(t)) /\ Writable(below, i, "MOV", dst)
  <2>1. Writable(below, i, "MOV", dst)
    BY DEF Counting
  <2> DEFINE k == RCX.n
  <2> HIDE DEF down, below, k
  <2>2. Writable(below, i, "MOV", RegOp(R64(k)))
    BY <1>1, <1>3, ScratchWritable, IntegerOps DEF k
  <2>3. \A q \in {R64(n), R32(n)} : Writable(down, i, "MOV", RegOp(q)) /\ Writable(below, i, op, RegOp(q))
    BY <1>3, ScratchWritable, IntegerOps
  <2>4. QED BY <1>1, <2>1, <2>2, <2>3 DEF k
<1>5. Room(more, 13)
  <2>1. Room(more, 12 + 1)
    BY RoomMore
  <2>2. QED BY <2>1
<1>6. Underway(taken, i, from, down, more) /\ taken.usedRegs = R
  <2>1. Underway(c, i, from, at, used) /\ r = R64(n) /\ n \in Gprs \ {RSP.n}
    BY <1>0
  <2>2. taken.usedRegs = R
    BY <2>1, PushUses
  <2>3. Underway(taken, i, from, down, more)
    BY <2>1, Takes
  <2>4. QED BY <2>2, <2>3
<1> HIDE DEF taken, more, down, R
<1>7. Underway(load, i, from, down, more) /\ load.usedRegs = R
  <2>1. Underway(load, i, from, down, more)
    BY <1>4, <1>5, <1>6, MovKeeps
  <2>2. load.usedRegs = R
    BY <1>5, <1>6, OpUses
  <2>3. QED BY <2>1, <2>2
<1> HIDE DEF load
<1>8. Underway(pushed, i, from, below, more)
  BY <1>1, <1>7, PushEmits
<1>9. pushed.usedRegs = R
  BY <1>7, PushUses
<1> HIDE DEF pushed, below
<1>10. Underway(count, i, from, below, more) /\ count.usedRegs = R
  <2>1. Underway(count, i, from, below, more)
    BY <1>4, <1>5, <1>8, MovKeeps
  <2>2. count.usedRegs = R
    BY <1>5, <1>8, <1>9, OpUses
  <2>3. QED BY <2>1, <2>2
<1> HIDE DEF count
<1>11. Underway(d, i, from, below, more) /\ d.usedRegs = R
  <2>1. Underway(d, i, from, below, more)
    BY <1>4, <1>5, <1>10, OpKeeps
  <2>2. d.usedRegs = R
    BY <1>5, <1>10, OpUses
  <2>3. QED BY <2>1, <2>2
<1> HIDE DEF d
<1>12. Underway(e, i, from, below, more) /\ e.usedRegs = R
  <2>1. Underway(e, i, from, below, more)
    BY <1>4, <1>5, <1>11, MovKeeps
  <2>2. e.usedRegs = R
    BY <1>5, <1>11, OpUses
  <2>3. QED BY <2>1, <2>2
<1> HIDE DEF e
<1>13. Underway(f, i, from, down, more)
  BY <1>1, <1>2, <1>12, PopEmits DEF below
<1>14. f.usedRegs = R
  BY <1>12, PushUses
<1> HIDE DEF f
<1>15. Underway(giveBackReg(f, r), i, from, at, used)
  BY <1>2, <1>13, GivesBack DEF more, down
<1>16. giveBackReg(f, r).usedRegs = c.usedRegs \ {r}
  <2>1. giveBackReg(f, r).usedRegs = R \ {r}
    BY <1>13, <1>14, PushUses
  <2>2. QED BY <2>1 DEF R
<1>17. CountedShift(c, r, l, t, x, y, op, dst) = giveBackReg(f, r)
  BY DEF CountedShift, f, e, d, count, pushed, load, taken
<1>18. QED BY <1>15, <1>16, <1>17

(* One of the operands of a shift is RCX, or relative to it.               *)
CountsInRcx(i) == \E k \in 1 .. 3 : NamesRcx(i.operands[k])

(* Nothing is known of RCX; or it is not the destination of the shift, nor *)
(* a register that is borrowed while it is moved.                          *)
Spares(at, i, c) ==
  \/ Bare(at, RCX.n)
  \/ /\ R64(i.operands[1].reg.n) \in c.usedRegs
     /\ RCX \in c.usedRegs

LEMMA CountingGeneral ==
  ASSUME NEW S, NEW n, NEW o, General(S, o)
  PROVE  General(Counting(S, n), o)
BY TakenGeneral DEF Counting

LEMMA ShiftKeeps ==
  ASSUME NEW i, NEW from, NEW at, NEW used, Room(used, 9),
         NEW c, Underway(c, i, from, at, used), General(at, i.operands[1]),
         CountsInRcx(i) => Spares(at, i, c), NEW op, op \notin Special, NEW up
  PROVE  Underway(shiftByRegister(c, op, up), i, from, at, used)
<1> DEFINE usesRcx == \E k \in 1 .. 3 : {c.operands[k].reg, c.operands[k].base}
                                        \cap {RCX, R32(RCX.n)} # {}
           wide(k) == RegOp(to64BitRegister(c.operands[k]))
           src == IF isMemoryOperand(c.operands[2]) THEN Operand(c, 2, FALSE) ELSE wide(2)
           start == pushf(c)
           subst == getUnusedReg(start)
           s(o) == IF usesRcx THEN substRcx(o, subst) ELSE o
           taken == takeReg(start, subst)
           borrowed == mov(taken, RegOp(subst), RegOp(RCX))
           saved == IF usesRcx THEN borrowed ELSE start
           r == getUnusedReg(saved)
           l == IF src.width = 32 THEN R32(r.n) ELSE r
           t == IF c.opWidth = 64 THEN r ELSE R32(r.n)
           x == s(src)
           y == s(wide(3))
           dst == s(wide(1))
           shifted == CountedShift(saved, r, l, t, x, y, op, dst)
           restored == mov(shifted, RegOp(RCX), RegOp(subst))
           given == giveBackReg(restored, subst)
           P == Pushed(at, {})
           own == RegOp(to64BitRegister(i.operands[1]))
<1>1. shiftByRegister(c, op, up) = popf(IF usesRcx THEN given ELSE shifted)
  BY DEF shiftByRegister, takeReg, giveBackReg, CountedShift
<1>2. c.operands = i.operands /\ Level(at) /\ Level(P)
  BY Fields, ChangedLevel
<1>3. wide(1) = own /\ (usesRcx => CountsInRcx(i))
  BY <1>2 DEF CountsInRcx, NamesRcx
<1>4. General(P, i.operands[1]) /\ (Bare(at, RCX.n) => Bare(P, RCX.n))
  BY PushedGeneral
<1>5. Underway(start, i, from, P, used) /\ start.usedRegs = c.usedRegs
  BY PushEmits, PushUses
<1>6. Room(used, 12) /\ Room(used, 13)
  BY RoomFor, RoomLess
<1>7. RCX = R64(RCX.n) /\ RCX.n \in Gprs \ {RSP.n}
  BY RspFacts, RegistersAssumption DEF RCX, R64, Reg
<1>8. \A k : R64(k).n = k /\ RegOp(R64(k)).reg = R64(k)
  BY RegOpReg DEF R64, Reg
<1>9. CASE ~usesRcx
  <2>1. saved = start /\ dst = own /\ shiftByRegister(c, op, up) = popf(shifted)
    BY <1>1, <1>3, <1>9
  <2>2. PICK n \in Gprs \ {RSP.n} : r = R64(n)
    <3> HIDE DEF start, P
    <3>1. QED BY <1>5, <1>6, <2>1, UnusedReg
  <2>3. l \in {R64(n), R32(n)} /\ t \in {R64(n), R32(n)}
    BY <1>8, <2>2
  <2>4. Writable(Counting(P, n), i, "MOV", dst)
    <3> HIDE DEF P, dst
    <3>1. QED BY <1>4, <2>1, CountingGeneral, GeneralWritable, IntegerOps
  <2> HIDE DEF saved, r, l, t, x, y, dst, start, P
  <2>5. Underway(shifted, i, from, P, used)
    <3>1. Underway(saved, i, from, P, used)
      BY <1>5, <2>1
    <3> HIDE DEF P
    <3>2. Shiftable(saved, i, from, P, used, r, l, t, op, dst)
      BY <1>6, <2>2, <2>3, <2>4, <3>1 DEF Shiftable
    <3>3. QED BY <3>2, CountedShiftKeeps
  <2> HIDE DEF shifted
  <2>6. QED BY <1>2, <2>1, <2>5, PopEmits DEF P
<1>10. CASE usesRcx
  <2>1. saved = borrowed /\ shiftByRegister(c, op, up) = popf(given)
    BY <1>1, <1>10
  <2>2. dst = IF to64BitRegister(i.operands[1]) = RCX THEN RegOp(subst) ELSE own
    BY <1>3, <1>10, RegOpReg DEF substRcx
  <2>3. PICK q \in Gprs \ {RSP.n} : subst = R64(q) /\ R64(q) \notin c.usedRegs
    <3> HIDE DEF start, P
    <3>1. QED BY <1>5, <1>6, UnusedReg
  <2> DEFINE more == used \cup {subst}
             D == Taken(P, q)
  <2>4. Underway(taken, i, from, D, more) /\ taken.usedRegs = c.usedRegs \cup {subst}
    <3> HIDE DEF start, P
    <3>1. QED BY <1>5, <2>3, Takes, PushUses
  <2>5. Room(more, 12) /\ Room(more, 13)
    <3>1. Room(more, 9 + 1)
      BY RoomMore
    <3>2. Room(more, 10)
      BY <3>1
    <3>3. 10 <= 12 /\ 10 <= 13
      OBVIOUS
    <3> HIDE DEF more
    <3>4. QED BY <3>2, <3>3, RoomLess
  <2>6. Bare(D, q) /\ General(D, i.operands[1]) /\ Level(D) /\ (Bare(at, RCX.n) => Bare(D, RCX.n))
    <3> HIDE DEF P
    <3>1. QED BY <1>2, <1>4, TakenBare, TakenGeneral, ChangedLevel
  <2>7. CASE Bare(at, RCX.n)
    <3> HIDE DEF D
    <3>1. /\ Writable(D, i, "MOV", RegOp(subst)) /\ Writable(D, i, "MOV", RegOp(RCX))
          /\ \A n : Writable(Counting(D, n), i, "MOV", dst)
      <4>1. Writable(D, i, "MOV", RegOp(subst)) /\ Writable(D, i, "MOV", RegOp(RCX))
        BY <1>7, <2>3, <2>6, <2>7, ScratchWritable, IntegerOps
      <4>2. \A n : General(Counting(D, n), i.operands[1])
        BY <2>6, CountingGeneral
      <4>3. \A n : Writable(Counting(D, n), i, "MOV", own)
        BY <4>2, GeneralWritable, IntegerOps
      <4>4. \A n : Bare(Counting(D, n), q)
        BY <2>6, TakenBare DEF Counting
      <4>5. \A n : Writable(Counting(D, n), i, "MOV", RegOp(subst))
        BY <2>3, <4>4, ScratchWritable, IntegerOps
      <4>6. QED BY <2>2, <4>1, <4>3, <4>5
    <3>2. Underway(borrowed, i, from, D, more)
      <4> HIDE DEF taken, more, subst
      <4>1. QED BY <2>4, <2>5, <3>1, MovKeeps
    <3>3. PICK n \in Gprs \ {RSP.n} : r = R64(n)
      <4> HIDE DEF borrowed, more
      <4>1. QED BY <2>1, <2>5, <3>2, UnusedReg
    <3>4. l \in {R64(n), R32(n)} /\ t \in {R64(n), R32(n)}
      BY <1>8, <3>3
    <3> HIDE DEF saved, r, l, t, x, y, dst, borrowed, more
    <3>5. Underway(shifted, i, from, D, more)
      <4>1. Underway(saved, i, from, D, more)
        BY <2>1, <3>2 DEF borrowed
      <4>2. Shiftable(saved, i, from, D, more, r, l, t, op, dst)
        BY <2>5, <3>1, <3>3, <3>4, <4>1 DEF Shiftable
      <4>3. QED BY <4>2, CountedShiftKeeps
    <3> HIDE DEF shifted
    <3>6. Underway(restored, i, from, D, more)
      BY <2>5, <3>1, <3>5, MovKeeps
    <3> HIDE DEF restored
    <3>7. Underway(given, i, from, P, used)
      <4> HIDE DEF P
      <4>1. QED BY <1>2, <2>3, <3>6, GivesBack DEF D, more
    <3> HIDE DEF given
    <3>8. QED BY <1>2, <2>1, <3>7, PopEmits DEF P
  <2>8. CASE ~Bare(at, RCX.n)
    <3> DEFINE V == D.regs[RCX.n]
               H == Holding(D, q, V)
               d == i.operands[1].reg.n
    <3>1. R64(d) \in c.usedRegs /\ RCX \in c.usedRegs
      BY <1>3, <1>10, <2>8 DEF Spares
    <3>2. d # q /\ d # RCX.n
      BY <2>3, <2>8, <3>1 DEF General
    <3>3. dst = own
      <4>1. to64BitRegister(i.operands[1]).n = d
        BY DEF to64BitRegister, R64, Reg
      <4>2. QED BY <2>2, <3>2, <4>1
    <3>4. General(H, i.operands[1]) /\ Level(H)
      <4>1. H.sure = D.sure /\ \A z \in Gprs : H.regs[z] = IF z = q THEN V ELSE D.regs[z]
        BY HoldingFields
      <4>2. Level(H)
        BY <2>6, ChangedLevel
      <4> HIDE DEF H, D
      <4>3. QED BY <2>6, <3>2, <4>1, <4>2 DEF General, Bare
    <3>5. \A n : Writable(Counting(H, n), i, "MOV", dst)
      <4> HIDE DEF H
      <4>1. \A n : General(Counting(H, n), i.operands[1])
        BY <3>4, CountingGeneral
      <4>2. QED BY <3>3, <4>1, GeneralWritable, IntegerOps
    <3>6. Underway(borrowed, i, from, H, more)
      <4> DEFINE k == RCX.n
      <4>1. usesRipAddressing(i) => R64(q) \in taken.usedRegs /\ R64(k) \in taken.usedRegs
        BY <1>7, <2>3, <2>4, <3>1
      <4>2. RCX = R64(k) /\ k \in Gprs \ {RSP.n}
        BY <1>7
      <4> HIDE DEF taken, D, more, k
      <4>3. Underway(mov(taken, RegOp(R64(q)), RegOp(R64(k))), i, from, Holding(D, q, D.regs[k]), more)
        BY <2>3, <2>4, <2>5, <4>1, <4>2, SubstitutionMoves
      <4>4. QED BY <2>3, <4>2, <4>3 DEF k
    <3>7. borrowed.usedRegs = c.usedRegs \cup {subst}
      <4> HIDE DEF taken, D, more
      <4>1. QED BY <2>4, <2>5, OpUses
    <3>8. PICK n \in Gprs \ {RSP.n} : r = R64(n) /\ R64(n) \notin borrowed.usedRegs
      <4> HIDE DEF borrowed, more, H
      <4>1. QED BY <2>1, <2>5, <3>6, UnusedReg
    <3>9. l \in {R64(n), R32(n)} /\ t \in {R64(n), R32(n)}
      BY <1>8, <3>8
    <3> HIDE DEF saved, r, l, t, x, y, dst, borrowed, more, H
    <3>10. Underway(shifted, i, from, H, more) /\ shifted.usedRegs = borrowed.usedRegs \ {r}
      <4>1. Underway(saved, i, from, H, more) /\ saved.usedRegs = borrowed.usedRegs
        BY <2>1, <3>6
      <4>2. Shiftable(saved, i, from, H, more, r, l, t, op, dst)
        BY <2>5, <3>5, <3>8, <3>9, <4>1 DEF Shiftable
      <4>3. QED BY <4>1, <4>2, CountedShiftKeeps
    <3> HIDE DEF shifted
    <3>11. Underway(restored, i, from, D, more)
      <4> DEFINE k == RCX.n
                 T == Holding(H, k, H.regs[q])
      <4>1. usesRipAddressing(i) => R64(q) \in shifted.usedRegs /\ R64(k) \in shifted.usedRegs
        BY <1>7, <2>3, <3>1, <3>7, <3>8, <3>10
      <4>2. RCX = R64(k) /\ k \in Gprs \ {RSP.n}
        BY <1>7
      <4>3. /\ H.offset = D.offset /\ H.words = D.words /\ H.dest = D.dest
            /\ H.rip = D.rip /\ H.target = D.target /\ H.sure = D.sure
            /\ \A z \in Gprs : H.regs[z] = IF z = q THEN D.regs[k] ELSE D.regs[z]
        BY HoldingFields DEF H
      <4>4. /\ T.offset = H.offset /\ T.words = H.words /\ T.dest = H.dest
            /\ T.rip = H.rip /\ T.target = H.target /\ T.sure = H.sure
            /\ \A z \in Gprs : T.regs[z] = IF z = k THEN H.regs[q] ELSE H.regs[z]
        BY HoldingFields
      <4> HIDE DEF k, D
      <4>5. Underway(mov(shifted, RegOp(R64(k)), RegOp(R64(q))), i, from, T, more)
        BY <2>3, <2>5, <3>10, <4>1, <4>2, SubstitutionMoves
      <4> HIDE DEF T
      <4>6. D.sure => D.regs[q] = {}
        BY <2>3, <2>6 DEF Bare
      <4>7. Implied(T, D)
        <5>1. D.sure => \A z \in Gprs : D.regs[z] \subseteq T.regs[z]
          BY <2>3, <4>2, <4>3, <4>4, <4>6
        <5>2. QED BY <4>3, <4>4, <5>1 DEF Implied
      <4>8. Weaker(T, D)
        BY <4>3, <4>4, <4>7, ImpliedWeaker DEF Same
      <4>9. Underway(mov(shifted, RegOp(R64(k)), RegOp(R64(q))), i, from, D, more)
        BY <2>6, <4>3, <4>4, <4>5, <4>8, UnderwayWeaker
      <4>10. QED BY <2>3, <4>2, <4>9 DEF k
    <3> HIDE DEF restored
    <3>12. Underway(given, i, from, P, used)
      <4> HIDE DEF P
      <4>1. QED BY <1>2, <2>3, <3>11, GivesBack DEF D, more
    <3> HIDE DEF given
    <3>13. QED BY <1>2, <2>1, <3>12, PopEmits DEF P
  <2>9. QED BY <2>7, <2>8
<1>11. QED BY <1>9, <1>10
================================================================================
