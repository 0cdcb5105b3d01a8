----------------------------- MODULE SignalsProofs -----------------------------
(***************************************************************************)
(* Theorems about Signals for every program, number of threads and number  *)
(* of signals.  Every step is a step of Rewriter or leaves its variables   *)
(* alone, so what is proved of Rewriter carries over; the invariant SInv   *)
(* adds where a delivery stands relative to the thread it interrupted.     *)
(***************************************************************************)
EXTENDS Signals, CourseProofs

(* A handler is in place once its step of loadMsg is done, and stays.      *)
InPlace ==
  /\ boot \in 0 .. 4
  /\ disposition \in [SignalNumbers -> {"default", "ours", "application"}]
  /\ boot >= 2 => disposition["SIGILL"] = "ours"
  /\ boot >= 3 => disposition["SIGTRAP"] = "ours"

(* What is nested in sigill_handler is not in sigill_handler.              *)
Nesting ==
  /\ handling \subseteq Handlers
  /\ \A h \in Handlers \ handling : pc[h] \in {"run", "done"}
  /\ \A h \in handling : pc[h] \in SigillStates => pc[Interrupted[h]] \notin SigillStates

SInv ==
  /\ InPlace
  /\ Nesting
  /\ \A t \in Threads : pc[t] \in Critical => boot = 4
  /\ ended \in {"no", "exited", "signal", "null"}
  /\ OnlyNestedSignalsKill

-----------------------------------------------------------------------------
LEMMA LoadFacts ==
  /\ Len(loadMsg) = 4
  /\ loadMsg[1] = "xed_tables_init" /\ loadMsg[2] = "init_sigill_handler"
  /\ loadMsg[3] = "init_sigtrap_handler" /\ loadMsg[4] = "encoder"
BY DEF loadMsg

LEMMA LoadedFacts ==
  ASSUME boot \in 0 .. 4
  PROVE  /\ Loaded("encoder") <=> boot = 4
         /\ boot = 4 => Loaded("xed_tables_init")
<1>1. \A k \in 1 .. 4 : k = 1 \/ k = 2 \/ k = 3 \/ k = 4
  OBVIOUS
<1>2. QED BY <1>1, LoadFacts DEF Loaded

(* What a step of Rewriter does to where the threads are: only one moves,  *)
(* into sigill_handler by a SIGILL, into the critical section from there.  *)
Moves(t) ==
  /\ \A u \in Threads \ {t} : pc'[u] = pc[u]
  /\ pc'[t] \in SigillStates => pc[t] \in SigillStates \/ Raises(t, "SIGILL")
  /\ pc'[t] \in Critical => pc[t] \in SigillStates

LEMMA ProceedMoves ==
  ASSUME IInv, NEW t \in Threads, Application(t) \/ Chunks(t) \/ Handler(t)
  PROVE  Moves(t)
<1> USE DEF IInv, CoreType, Become, SigillStates, Critical, Raises, Moves
<1>1. CASE Application(t)
  BY <1>1 DEF Application, NativeInstr, Sigill, Sigtrap, Nop, JumpShort, JumpLong,
     TrampolinePush, TrampolineMov, TrampolineJump, TrampolinePop, EnterChunk, Derail,
     Finish, thread
<1>2. CASE Chunks(t)
  BY <1>2 DEF Chunks, ChunkPop, ChunkInstr, ChunkPush, ChunkMov, ChunkJump, ChunkRet
<1>3. CASE Handler(t)
  BY <1>3 DEF Handler, ReencodeLock, DecodeNopTrap, DecodeUnsupported, DecodeGarbage,
     DecodeBlock, EmitChunk, EmitStore, JumptableAddBegin, JumptableAddEnd,
     ReencodeReturn, SigtrapFound, SigtrapMissing, EnterChunk, thread
<1>4. QED BY <1>1, <1>2, <1>3

LEMMA OutsideMoves ==
  ASSUME IInv, NEW t \in Threads, Outside(t) \/ \E u \in Threads : MapRace(u, t)
  PROVE  /\ \A u \in Threads \ {t} : pc'[u] = pc[u]
         /\ pc'[t] = pc[t] \/ pc'[t] = "run"
BY DEF Outside, EmitFails, KeyPress, MapRace, Restart, Become, thread, IInv, CoreType

-----------------------------------------------------------------------------
LEMMA InitSInv == SignalsInit => SInv
<1> SUFFICES ASSUME SignalsInit PROVE SInv
  OBVIOUS
<1>1. boot = 0 /\ ended = "no" /\ handling = {} /\ pc = [t \in Threads |-> "run"]
  BY DEF SignalsInit, Init
<1>2. InPlace
  BY <1>1 DEF SignalsInit, InPlace, SignalNumbers
<1>3. QED
  BY <1>1, <1>2, HandlerAssumption DEF SInv, Nesting, OnlyNestedSignalsKill, Critical

(* A step of a thread that runs keeps SInv if a SIGILL is delivered and    *)
(* the encoder is there.                                                   *)
LEMMA StepSInv ==
  ASSUME SInv, Up, NEW t \in Threads, Running(t), UNCHANGED signals,
         \A u \in Threads \ {t} : pc'[u] = pc[u],
         pc'[t] \in SigillStates => pc[t] \in SigillStates \/ Delivered(t, "SIGILL"),
         pc'[t] \in Critical => pc[t] \in SigillStates,
         pc[t] = "ill" /\ pc'[t] \in Critical => Loaded("encoder")
  PROVE  SInv'
<1> USE DEF SInv
<1>1. InPlace' /\ UNCHANGED <<boot, handling, ended>>
  BY DEF signals, InPlace
<1>2. Nesting'
  <2>1. ASSUME NEW h \in Handlers \ handling PROVE pc'[h] \in {"run", "done"}
    <3>1. h # t
      BY <2>1 DEF Running
    <3>2. QED BY <2>1, <3>1, HandlerAssumption DEF Nesting
  <2>2. ASSUME NEW h \in handling, pc'[h] \in SigillStates
        PROVE  pc'[Interrupted[h]] \notin SigillStates
    <3>1. h \in Threads /\ Interrupted[h] \in Threads \ Handlers
      BY HandlerAssumption DEF Nesting
    <3>2. Interrupted[h] # t
      BY <2>2 DEF Running, Suspended
    <3>3. CASE h = t /\ Delivered(t, "SIGILL")
      <4>1. pc[Interrupted[h]] \notin SigillStates
        BY <2>2, <3>3 DEF Delivered, Masked, Nesting
      <4>2. QED BY <3>1, <3>2, <4>1
    <3>4. CASE pc[h] \in SigillStates
      BY <3>1, <3>2, <3>4 DEF Nesting
    <3>5. QED BY <2>2, <3>1, <3>3, <3>4
  <2>3. QED BY <1>1, <2>1, <2>2 DEF Nesting
<1>3. ASSUME NEW u \in Threads, pc'[u] \in Critical PROVE boot' = 4
  <2>1. CASE u # t
    BY <1>1, <1>3, <2>1
  <2>2. CASE u = t /\ pc[t] \in Critical
    BY <1>1, <2>2
  <2>3. CASE u = t /\ pc[t] = "ill"
    BY <1>1, <1>3, <2>3, LoadedFacts DEF InPlace
  <2>4. QED BY <1>3, <2>1, <2>2, <2>3 DEF SigillStates, Critical
<1>4. QED BY <1>1, <1>2, <1>3 DEF OnlyNestedSignalsKill, Up

(* loadMsg, sigaction and the application's signals leave every thread     *)
(* where it is.                                                            *)
LEMMA SignalsOnlySInv ==
  ASSUME SInv, Up, UNCHANGED vars,
         \/ Load \/ LoadFails
         \/ \E sig \in SignalNumbers : mysigaction(sig)
         \/ \E h \in Handlers : Deliver(h) \/ Return(h)
         \/ \E t \in Threads : Running(t) /\ (Killed(t) \/ NullEncoder(t))
  PROVE  SInv'
<1> USE DEF SInv
<1>1. UNCHANGED <<mem, pc, rip>>
  BY DEF vars, thread
<1>2. CASE Load
  <2>1. boot \in 0 .. 3 /\ boot' = boot + 1
    BY <1>2, LoadFacts DEF Load, InPlace
  <2>2. boot = 0 \/ boot = 1 \/ boot = 2 \/ boot = 3
    BY <2>1
  <2>3. InPlace'
    BY <1>2, <2>1, <2>2, LoadFacts DEF Load, InPlace, Installs, SignalNumbers
  <2>4. QED BY <1>1, <1>2, <2>1, <2>3 DEF Load, Nesting, OnlyNestedSignalsKill, Up
<1>3. CASE LoadFails
  BY <1>1, <1>3 DEF LoadFails, InPlace, Nesting, OnlyNestedSignalsKill
<1>4. ASSUME NEW sig \in SignalNumbers, mysigaction(sig) PROVE SInv'
  <2>1. InPlace'
    BY <1>4 DEF mysigaction, InPlace, SignalNumbers
  <2>2. QED BY <1>1, <1>4, <2>1 DEF mysigaction, Nesting, OnlyNestedSignalsKill, Up
<1>5. ASSUME NEW h \in Handlers, Deliver(h) PROVE SInv'
  BY <1>1, <1>5 DEF Deliver, InPlace, Nesting, OnlyNestedSignalsKill, Up, SigillStates
<1>6. ASSUME NEW h \in Handlers, Return(h) PROVE SInv'
  BY <1>1, <1>6 DEF Return, InPlace, Nesting, OnlyNestedSignalsKill, Up
<1>7. ASSUME NEW t \in Threads, Running(t), Killed(t) PROVE SInv'
  <2>1. PICK sig \in {"SIGILL", "SIGTRAP"} : Raises(t, sig) /\ ~Delivered(t, sig)
    BY <1>7 DEF Killed
  <2>2. ASSUME boot = 4 PROVE t \in handling /\ Masked(t, sig)
    BY <1>7, <2>1, <2>2 DEF Delivered, InPlace, Running, Masked
  <2>3. UNCHANGED <<boot, disposition, handling>> /\ ended' = "signal"
    BY <1>7 DEF Killed
  <2>4. OnlyNestedSignalsKill'
    BY <1>1, <2>1, <2>2, <2>3, LoadFacts DEF OnlyNestedSignalsKill, Masked, Raises, InstrAt, Intact
  <2>5. QED BY <1>1, <2>3, <2>4 DEF InPlace, Nesting
<1>8. ASSUME NEW t \in Threads, NullEncoder(t) PROVE SInv'
  <2>1. boot # 4
    BY <1>8, LoadedFacts DEF NullEncoder, InPlace
  <2>2. QED
    BY <1>1, <1>8, <2>1, LoadFacts DEF NullEncoder, InPlace, Nesting, OnlyNestedSignalsKill
<1>9. QED BY <1>2, <1>3, <1>4, <1>5, <1>6, <1>7, <1>8

-----------------------------------------------------------------------------
(* Every step of Signals is one of Rewriter, or leaves its variables.      *)
LEMMA StepsOfRewriter == [SignalsNext]_<<vars, signals>> => [Next]_vars
<1> SUFFICES ASSUME SignalsNext PROVE Next \/ UNCHANGED vars
  BY DEF signals
<1>1. CASE \E t \in Threads : Proceeds(t) \/ Occurs(t)
  BY <1>1 DEF SignalsNext, Up, Next, Proceeds, Occurs, Outside
<1>2. QED
  BY <1>1 DEF SignalsNext, Load, LoadFails, mysigaction, Deliver, Return, Killed, NullEncoder

LEMMA NextSInv == IInv /\ SInv /\ [SignalsNext]_<<vars, signals>> => SInv'
<1>1. ASSUME IInv, SInv, SignalsNext PROVE SInv'
  <2>1. Up
    BY <1>1 DEF SignalsNext
  <2>2. ASSUME NEW t \in Threads, Running(t), Proceeds(t) PROVE SInv'
    BY <1>1, <2>1, <2>2, ProceedMoves, StepSInv DEF Proceeds, Moves
  <2>3. ASSUME NEW t \in Threads, Running(t), Occurs(t) PROVE SInv'
    <3>1. "run" \notin SigillStates /\ Critical \subseteq SigillStates /\ "ill" \notin Critical
      BY DEF SigillStates, Critical
    <3>2. QED
      BY <1>1, <2>1, <2>3, <3>1, OutsideMoves, StepSInv DEF Occurs
  <2>4. QED
    BY <1>1, <2>1, <2>2, <2>3, SignalsOnlySInv
    DEF SignalsNext, Load, LoadFails, mysigaction, Deliver, Return, Killed, NullEncoder
<1>2. ASSUME SInv, UNCHANGED <<vars, signals>> PROVE SInv'
  BY <1>2 DEF SInv, InPlace, Nesting, OnlyNestedSignalsKill, vars, thread, signals, Raises,
     InstrAt, Intact
<1>3. QED BY <1>1, <1>2

LEMMA InvsHold == SignalsSpec => [](IInv /\ TInv /\ SInv)
<1>1. SignalsInit => IInv /\ TInv /\ SInv
  BY InitIInv, InitTInv, InitSInv DEF SignalsInit
<1>2. IInv /\ TInv /\ SInv /\ [SignalsNext]_<<vars, signals>> => (IInv /\ TInv /\ SInv)'
  BY StepsOfRewriter, NextIInv, NextTInv, NextSInv
<1>3. QED BY <1>1, <1>2, PTL DEF SignalsSpec

-----------------------------------------------------------------------------
(* The process with its constructor, sigaction and signals implements      *)
(* Rewriter: whatever is proved of Rewriter holds of it.                   *)
THEOREM SignalsImplementsRewriter == SignalsSpec => Spec
<1>1. SignalsInit => Init
  BY DEF SignalsInit
<1>2. QED BY <1>1, StepsOfRewriter, PTL DEF SignalsSpec, Spec

(* reencodeInstruction is never entered on top of itself.                  *)
THEOREM SpecReencodeNotReentered == SignalsSpec => []ReencodeNotReentered
<1>1. SInv => ReencodeNotReentered
  BY DEF SInv, Nesting, ReencodeNotReentered, SigillStates, InCritical
<1>2. QED BY <1>1, InvsHold, PTL

(* Nobody rewrites before XED's tables and the encoder exist.              *)
THEOREM SpecReadyBeforeUse == SignalsSpec => []ReadyBeforeUse
<1>1. SInv => ReadyBeforeUse
  BY LoadedFacts DEF SInv, InPlace, ReadyBeforeUse, InCritical, Critical
<1>2. QED BY <1>1, InvsHold, PTL

(* Once loaded, only a SIGILL or SIGTRAP nested in its own handler is not  *)
(* handled.                                                                *)
THEOREM SpecOnlyNestedSignalsKill == SignalsSpec => []OnlyNestedSignalsKill
<1>1. SInv => OnlyNestedSignalsKill
  BY DEF SInv
<1>2. QED BY <1>1, InvsHold, PTL

(* Every variable keeps its type.                                          *)
THEOREM SpecSignalsTypeOK == SignalsSpec => []SignalsTypeOK
<1>1. IInv /\ TInv /\ SInv => SignalsTypeOK
  BY TypesOfInvs, LoadFacts DEF SInv, InPlace, Nesting, SignalsTypeOK
<1>2. QED BY <1>1, InvsHold, PTL

(* To the threads and to the handlers of the application's signals alike   *)
(* each instruction is executed once and in order, however early it traps  *)
(* and whatever it interrupted, unless a rewriting caught them half-way.   *)
THEOREM SpecSignalsImplementsNative == SignalsSpec => ImplementsNative
BY SignalsImplementsRewriter, SpecImplementsNative, PTL

(* A signal handler of the application that runs through patches, between  *)
(* two bytes of another thread's trampoline even, finds and leaves every   *)
(* context as the application's code made it.                              *)
THEOREM SpecSignalsContextIntact ==
  ASSUME ShortBlocks
  PROVE  SignalsSpec => []ContextIntact
BY SignalsImplementsRewriter, SpecContextIntact, PTL

================================================================================
