------------------------------- MODULE Rewriter -------------------------------
(***************************************************************************)
(* The rewriting of running code: a thread that meets an instruction the   *)
(* CPU lacks enters sigill_handler, which replaces the block that starts   *)
(* there by a trampoline (or an INT3) into a compiled chunk, in place,     *)
(* while every other thread goes on executing the same bytes.              *)
(*                                                                         *)
(* Instruction i of the application occupies the bytes Start[i] up to      *)
(* Start[i + 1] - 1, and control may only come from outside at an entry.   *)
(* Kind tells what the CPU and the translator do with an instruction:      *)
(*   plain  the CPU executes it, the translator does not know it           *)
(*   both   the CPU executes it and the translator knows it (AND)          *)
(*   avx    the CPU raises SIGILL and the translator knows it              *)
(*   bad    the CPU raises SIGILL and the translator does not know it      *)
(*   brk    an INT3 of the application's own                               *)
(***************************************************************************)
EXTENDS Trampoline, Sequences

CONSTANTS Threads, NoThread, N, Start, Kind, Entries, MaxBlock, MaxRounds

Instrs == 1 .. N
Kinds == {"plain", "both", "avx", "bad", "brk"}

ASSUME ThreadAssumption == NoThread \notin Threads
ASSUME SizeAssumption == /\ N \in Nat \ {0}
                         /\ MaxBlock \in Nat \ {0}
                         /\ MaxRounds \in Nat
ASSUME StartType == Start \in [1 .. N + 1 -> Nat]
ASSUME StartIncreases == \A i, j \in 1 .. N + 1 : i < j => Start[i] < Start[j]
ASSUME KindAssumption == Kind \in [Instrs -> Kinds]
ASSUME EntryAssumption == Entries \subseteq Instrs
(* The shortest VEX instruction has three bytes and INT3 has one.          *)
ASSUME LengthAssumption ==
  \A i \in Instrs : /\ Kind[i] \in {"avx", "bad"} => Start[i + 1] >= Start[i] + 2
                    /\ Kind[i] = "brk" => Start[i + 1] = Start[i] + 1

(* The first byte past the code is there, and is never written.            *)
Addr == Start[1] .. Start[N + 1]

VARIABLES
  mem,        \* the application's code bytes
  csMutex,    \* Encoder::csMutex: the thread that holds it, or NoThread
  jumptable,  \* executable_chunks_for_locations
  proc,       \* "up", "exited" by exit(1), or undefined from here on: "derailed"
              \* (executed garbage) or "corrupt" (broke the table's map)
  pc,         \* what each thread is executing
  rip,        \* address in the application a thread is at or will go back to
  rax,        \* what RAX holds: "app", a chunk's address, a return address
  stack,      \* what is on the stack, top first, down to the caller's top word
  cur,        \* the chunk a thread's handler is emitting or the thread executes
  idx,        \* next byte of cur to store, or next step of cur to execute
  result,     \* what reencodeInstruction will return
  patches,    \* history: the blocks whose rewriting has begun
  ran,        \* history: the last instruction a thread executed
  astray,     \* history: a thread was caught by another thread's rewriting
  rounds      \* how often a thread has started over

thread == <<pc, rip, rax, stack, cur, idx, result>>
history == <<ran, astray, rounds>>
vars == <<mem, csMutex, jumptable, proc, patches, thread, history>>

Pc == {"run", "ill", "decode", "emit", "write", "add", "adding", "unlock",
       "trap", "getchar", "chunk", "done"}

Ret(a) == [kind |-> "ret", to |-> a, chunk |-> NULL]
Ptr(c) == [kind |-> "chunk", to |-> 0, chunk |-> c]
App == [kind |-> "app", to |-> 0, chunk |-> NULL]
CallerTop == [kind |-> "caller", to |-> 0, chunk |-> NULL]
Word == [kind : {"app", "chunk", "ret", "caller"}, to : Nat, chunk : Chunk]

Init ==
  /\ mem = [a \in Addr |-> Orig]
  /\ csMutex = NoThread
  /\ jumptable = [a \in Addr |-> NULL]
  /\ proc = "up"
  /\ patches = {}
  /\ \E entry \in [Threads -> Entries] :
       /\ rip = [t \in Threads |-> Start[entry[t]]]
       /\ ran = [t \in Threads |-> entry[t] - 1]
  /\ pc = [t \in Threads |-> "run"]
  /\ rax = [t \in Threads |-> App]
  /\ stack = [t \in Threads |-> <<CallerTop>>]
  /\ cur = [t \in Threads |-> NULL]
  /\ idx = [t \in Threads |-> 0]
  /\ result = [t \in Threads |-> 0]
  /\ astray = [t \in Threads |-> FALSE]
  /\ rounds = [t \in Threads |-> 0]

-----------------------------------------------------------------------------
(***************************************************************************)
(* What is at an address.                                                  *)
(***************************************************************************)
Bytes(i) == Start[i] .. Start[i + 1] - 1
Intact(i) == \A a \in Bytes(i) : mem[a] = Orig
InstrAt(a, i) == Start[i] = a /\ Intact(i)

(* The bytes at a are a complete instruction.  Anything else mixes bytes   *)
(* of two instructions, or starts inside one.                              *)
Whole(a) ==
  \/ mem[a].op \in {"90", "50", "58", "cc"}
  \/ mem[a].op = "eb" /\ mem[a + 1].op = "disp8"
  \/ mem[a].op = "e9" /\ mem[a + 1].op = "disp32"
  \/ mem[a].op = "48" /\ mem[a + 1].op = "b8" /\ mem[a + 2].op = "imm64"
  \/ mem[a].op = "ff" /\ mem[a + 1].op = "e0"
  \/ \E i \in Instrs : InstrAt(a, i)

Span(c) == c.base .. c.base + c.len - 1

Supported(i) == i \in Instrs /\ Kind[i] \in {"avx", "both"} /\ Intact(i)

(* Mutant: decodes what it remembers of the code, not what is there now.   *)
Decodes_Stale(i, n) ==
  /\ i .. i + n - 1 \subseteq {k \in Instrs : Kind[k] \in {"avx", "both"}}
  /\ n < MaxBlock => ~(i + n \in Instrs /\ Kind[i + n] \in {"avx", "both"})

(* decodeInstructions stops at the first instruction it does not support,  *)
(* and after MaxBlock of them.                                             *)
Decodes(i, n) ==
  /\ i .. i + n - 1 \subseteq {k \in Instrs : Kind[k] \in {"avx", "both"}}
  /\ \A a \in Start[i] .. Start[i + n] - 1 : mem[a] = Orig
  /\ n < MaxBlock => ~Supported(i + n)

Block(i, n) ==
  LET len == Start[i + n] - Start[i]
  IN  [far |-> IsFar(len), base |-> Start[i], len |-> len, first |-> i, n |-> n]

-----------------------------------------------------------------------------
(***************************************************************************)
(* A thread in the application's code.                                     *)
(***************************************************************************)
(* Another thread is storing the bytes this thread is about to fetch, or   *)
(* has stored them and not yet made the INT3 resolvable.                   *)
Racing(t) ==
  \E u \in Threads :
    /\ pc[u] \in {"add", "adding"} \/ (pc[u] = "write" /\ idx[u] > 0)
    /\ rip[t] \in Span(cur[u])

(* The next instruction of this thread is in a block that was rewritten    *)
(* as a whole, and is not the first one: it arrived by a jump or traps on  *)
(* bytes that are gone.                                                    *)
InsideBlock(t) == \E c \in patches : ran[t] \in c.first .. c.first + c.n - 2

Caught(t) == astray' = [astray EXCEPT ![t] = @ \/ Racing(t) \/ InsideBlock(t)]

Goto(t, a) == rip' = [rip EXCEPT ![t] = a]
Become(t, s) == pc' = [pc EXCEPT ![t] = s]

NativeInstr(t, i) ==
  /\ pc[t] = "run" /\ InstrAt(rip[t], i) /\ Kind[i] \in {"plain", "both"}
  /\ Goto(t, Start[i + 1])
  /\ ran' = [ran EXCEPT ![t] = i]
  /\ UNCHANGED <<mem, csMutex, jumptable, proc, patches,
                 pc, rax, stack, cur, idx, result, rounds>>

Sigill(t, i) ==
  /\ pc[t] = "run" /\ InstrAt(rip[t], i) /\ Kind[i] \in {"avx", "bad"}
  /\ Become(t, "ill")
  /\ UNCHANGED <<mem, csMutex, jumptable, proc, patches, ran, rounds,
                 rip, rax, stack, cur, idx, result>>

(* INT3, the application's own or one a patch ends in: RIP is already past *)
(* it when sigtrap_handler starts.                                         *)
Sigtrap(t) ==
  /\ pc[t] = "run"
  /\ \/ mem[rip[t]].op = "cc"
     \/ \E i \in Instrs : InstrAt(rip[t], i) /\ Kind[i] = "brk"
  /\ Goto(t, rip[t] + 1)
  /\ Become(t, "trap")
  /\ UNCHANGED <<mem, csMutex, jumptable, proc, patches, ran, rounds,
                 rax, stack, cur, idx, result>>

Nop(t) ==
  /\ pc[t] = "run" /\ mem[rip[t]].op = "90"
  /\ Goto(t, rip[t] + 1)
  /\ UNCHANGED <<mem, csMutex, jumptable, proc, patches, ran, rounds,
                 pc, rax, stack, cur, idx, result>>

JumpShort(t) ==
  /\ pc[t] = "run" /\ mem[rip[t]].op = "eb" /\ mem[rip[t] + 1].op = "disp8"
  /\ Goto(t, rip[t] + 2 + mem[rip[t] + 1].disp)
  /\ UNCHANGED <<mem, csMutex, jumptable, proc, patches, ran, rounds,
                 pc, rax, stack, cur, idx, result>>

JumpLong(t) ==
  /\ pc[t] = "run" /\ mem[rip[t]].op = "e9" /\ mem[rip[t] + 1].op = "disp32"
  /\ Goto(t, rip[t] + 5 + mem[rip[t] + 1].disp)
  /\ UNCHANGED <<mem, csMutex, jumptable, proc, patches, ran, rounds,
                 pc, rax, stack, cur, idx, result>>

PushRax(t) == stack' = [stack EXCEPT ![t] = <<rax[t]>> \o @]

(* Below the caller's top word there is nothing the thread may rely on.    *)
PopRax(t) ==
  IF stack[t] = <<>>
  THEN rax' = [rax EXCEPT ![t] = CallerTop] /\ UNCHANGED stack
  ELSE /\ rax' = [rax EXCEPT ![t] = Head(stack[t])]
       /\ stack' = [stack EXCEPT ![t] = Tail(@)]

TrampolinePush(t) ==
  /\ pc[t] = "run" /\ mem[rip[t]].op = "50"
  /\ PushRax(t)
  /\ Goto(t, rip[t] + 1)
  /\ UNCHANGED <<mem, csMutex, jumptable, proc, patches, ran, rounds,
                 pc, rax, cur, idx, result>>

TrampolineMov(t) ==
  /\ pc[t] = "run" /\ mem[rip[t]].op = "48" /\ mem[rip[t] + 1].op = "b8"
  /\ mem[rip[t] + 2].op = "imm64"
  /\ rax' = [rax EXCEPT ![t] = Ptr(mem[rip[t] + 2].chunk)]
  /\ Goto(t, rip[t] + 10)
  /\ UNCHANGED <<mem, csMutex, jumptable, proc, patches, ran, rounds,
                 pc, stack, cur, idx, result>>

EnterChunk(t, c) ==
  /\ Become(t, "chunk")
  /\ cur' = [cur EXCEPT ![t] = c]
  /\ idx' = [idx EXCEPT ![t] = IF c.far THEN 0 ELSE 1]

TrampolineJump(t) ==
  /\ pc[t] = "run" /\ mem[rip[t]].op = "ff" /\ mem[rip[t] + 1].op = "e0"
  /\ rax[t].kind = "chunk"
  /\ EnterChunk(t, rax[t].chunk)
  /\ UNCHANGED <<mem, csMutex, jumptable, proc, patches, ran, rounds,
                 rip, rax, stack, result>>

TrampolinePop(t) ==
  /\ pc[t] = "run" /\ mem[rip[t]].op = "58"
  /\ PopRax(t)
  /\ Goto(t, rip[t] + 1)
  /\ UNCHANGED <<mem, csMutex, jumptable, proc, patches, ran, rounds,
                 pc, cur, idx, result>>

(* The CPU fetches bytes that no one meant to be an instruction, or jumps  *)
(* through a register that no one loaded.                                  *)
Derail(t) ==
  /\ pc[t] = "run" /\ rip[t] # Start[N + 1]
  /\ ~Whole(rip[t]) \/ (mem[rip[t]].op = "ff" /\ rax[t].kind # "chunk")
  /\ proc' = "derailed"
  /\ UNCHANGED <<mem, csMutex, jumptable, patches, thread, ran, rounds>>

Finish(t) ==
  /\ pc[t] = "run" /\ rip[t] = Start[N + 1]
  /\ Become(t, "done")
  /\ UNCHANGED <<mem, csMutex, jumptable, proc, patches, ran, rounds,
                 rip, rax, stack, cur, idx, result>>

(* The application calls this code again, at any of its entries.           *)
Restart(t, e) ==
  /\ pc[t] = "done" /\ rounds[t] < MaxRounds
  /\ rounds' = [rounds EXCEPT ![t] = @ + 1]
  /\ Become(t, "run")
  /\ Goto(t, Start[e])
  /\ ran' = [ran EXCEPT ![t] = e - 1]
  /\ astray' = [astray EXCEPT ![t] = FALSE]
  /\ rax' = [rax EXCEPT ![t] = App]
  /\ stack' = [stack EXCEPT ![t] = <<CallerTop>>]
  /\ UNCHANGED <<mem, csMutex, jumptable, proc, patches, cur, idx, result>>

-----------------------------------------------------------------------------
(***************************************************************************)
(* sigill_handler and Encoder::reencodeInstruction.  Everything between    *)
(* ReencodeLock and ReencodeReturn is done under csMutex.                  *)
(***************************************************************************)
(* Mutant: pthread_mutex_lock left out.                                    *)
ReencodeLock_Unlocked(t) ==
  /\ pc[t] = "ill"
  /\ csMutex' = t
  /\ Become(t, "decode")
  /\ astray' = [astray EXCEPT ![t] = @ \/ InsideBlock(t)]
  /\ UNCHANGED <<mem, jumptable, proc, patches, ran, rounds,
                 rip, rax, stack, cur, idx, result>>

ReencodeLock(t) ==
  /\ pc[t] = "ill" /\ csMutex = NoThread
  /\ csMutex' = t
  /\ Become(t, "decode")
  /\ astray' = [astray EXCEPT ![t] = @ \/ InsideBlock(t)]
  /\ UNCHANGED <<mem, jumptable, proc, patches, ran, rounds,
                 rip, rax, stack, cur, idx, result>>

(* The instruction has been replaced by a NOP since the thread trapped.    *)
DecodeNopTrap(t) ==
  /\ pc[t] = "decode" /\ mem[rip[t]].op = "90"
  /\ result' = [result EXCEPT ![t] = 1]
  /\ Become(t, "unlock")
  /\ UNCHANGED <<mem, csMutex, jumptable, proc, patches, history,
                 rip, rax, stack, cur, idx>>

DecodeBlock(t, i, n) ==
  /\ pc[t] = "decode" /\ rip[t] = Start[i] /\ Decodes(i, n)
  /\ cur' = [cur EXCEPT ![t] = Block(i, n)]
  /\ result' = [result EXCEPT ![t] = 0]
  /\ Become(t, "emit")
  /\ UNCHANGED <<mem, csMutex, jumptable, proc, patches, history,
                 rip, rax, stack, idx>>

(* Mutant: the handler does not test the result for being negative.        *)
DecodeUnsupported_Unchecked(t) ==
  /\ pc[t] = "decode" /\ Whole(rip[t]) /\ mem[rip[t]].op # "90"
  /\ ~\E i \in Instrs : rip[t] = Start[i] /\ Supported(i)
  /\ result' = [result EXCEPT ![t] = -1]
  /\ Become(t, "unlock")
  /\ UNCHANGED <<mem, csMutex, jumptable, proc, patches, history,
                 rip, rax, stack, cur, idx>>

(* The first instruction is neither a NOP nor supported: reencode returns  *)
(* -1 and the handler ends the process.                                    *)
DecodeUnsupported(t) ==
  /\ pc[t] = "decode" /\ Whole(rip[t]) /\ mem[rip[t]].op # "90"
  /\ ~\E i \in Instrs : rip[t] = Start[i] /\ Supported(i)
  /\ proc' = "exited"
  /\ UNCHANGED <<mem, csMutex, jumptable, patches, thread, history>>

(* What XED makes of part of a patch is anyone's guess.                    *)
DecodeGarbage(t) ==
  /\ pc[t] = "decode" /\ ~Whole(rip[t])
  /\ proc' = "derailed"
  /\ UNCHANGED <<mem, csMutex, jumptable, patches, thread, history>>

(* vm_protect succeeds, the chunk is compiled and, for a far jump, made    *)
(* read-only.                                                              *)
EmitChunk(t) ==
  /\ pc[t] = "emit"
  /\ patches' = patches \cup {cur[t]}
  /\ idx' = [idx EXCEPT ![t] = 0]
  /\ Become(t, "write")
  /\ UNCHANGED <<mem, csMutex, jumptable, proc, history,
                 rip, rax, stack, cur, result>>

(* vm_protect, xed_encode or mprotect fails: exit(1).  A failure of mmap   *)
(* is not noticed until the chunk is copied to where there is no memory.   *)
EmitFails(t) ==
  /\ pc[t] = "emit"
  /\ proc' = "exited"
  /\ UNCHANGED <<mem, csMutex, jumptable, patches, thread, history>>

(* Mutant: the loop runs up to and including the length of the block.      *)
EmitStore_TooFar(t) ==
  LET c == cur[t]
      w == StoreWidth(PatchByte(c, idx[t]))
      a == c.base + idx[t]
  IN  /\ pc[t] = "write"
      /\ mem' = [b \in Addr |-> IF b \in a .. a + w - 1
                                THEN PatchByte(c, b - c.base) ELSE mem[b]]
      /\ idx' = [idx EXCEPT ![t] = @ + w]
      /\ Become(t, IF idx[t] + w <= c.len THEN "write"
                   ELSE IF c.far THEN "unlock" ELSE "add")
      /\ UNCHANGED <<csMutex, jumptable, proc, patches, history,
                     rip, rax, stack, cur, result>>

(* One store of the patch.  Only the INT3 form has a table entry to add.   *)
EmitStore(t) ==
  LET c == cur[t]
      w == StoreWidth(PatchByte(c, idx[t]))
      a == c.base + idx[t]
  IN  /\ pc[t] = "write"
      /\ mem' = [b \in Addr |-> IF b \in a .. a + w - 1
                                THEN PatchByte(c, b - c.base) ELSE mem[b]]
      /\ idx' = [idx EXCEPT ![t] = @ + w]
      /\ Become(t, IF idx[t] + w < c.len THEN "write"
                   ELSE IF c.far THEN "unlock" ELSE "add")
      /\ UNCHANGED <<csMutex, jumptable, proc, patches, history,
                     rip, rax, stack, cur, result>>

(* operator[] of an unordered_map, begun and ended: sigtrap_handler reads  *)
(* the same map without the mutex.                                         *)
JumptableAddBegin(t) ==
  /\ pc[t] = "add"
  /\ Become(t, "adding")
  /\ UNCHANGED <<mem, csMutex, jumptable, proc, patches, history,
                 rip, rax, stack, cur, idx, result>>

(* Mutant: the entry is made for the start of the block.                   *)
JumptableAddEnd_AtStart(t) ==
  /\ pc[t] = "adding"
  /\ jumptable' = [jumptable EXCEPT ![cur[t].base] = cur[t]]
  /\ Become(t, "unlock")
  /\ UNCHANGED <<mem, csMutex, proc, patches, history,
                 rip, rax, stack, cur, idx, result>>

JumptableAddEnd(t) ==
  /\ pc[t] = "adding"
  /\ jumptable' = [jumptable EXCEPT ![cur[t].base + cur[t].len - 1] = cur[t]]
  /\ Become(t, "unlock")
  /\ UNCHANGED <<mem, csMutex, proc, patches, history,
                 rip, rax, stack, cur, idx, result>>

(* Mutant: a path that returns without unlocking.                          *)
ReencodeReturn_Locked(t) ==
  /\ pc[t] = "unlock"
  /\ Goto(t, rip[t] + result[t])
  /\ Become(t, "run")
  /\ UNCHANGED <<mem, csMutex, jumptable, proc, patches, history,
                 rax, stack, cur, idx, result>>

ReencodeReturn(t) ==
  /\ pc[t] = "unlock"
  /\ csMutex' = NoThread
  /\ Goto(t, rip[t] + result[t])
  /\ Become(t, "run")
  /\ UNCHANGED <<mem, jumptable, proc, patches, history,
                 rax, stack, cur, idx, result>>

-----------------------------------------------------------------------------
(***************************************************************************)
(* sigtrap_handler.                                                        *)
(***************************************************************************)
(* Mutant: looks RIP itself up, which is past the INT3.                    *)
jumptable_get_chunk_Next(a) == jumptable[a + 1]

jumptable_get_chunk(a) == jumptable[a]

SigtrapFound(t) ==
  LET c == jumptable_get_chunk(rip[t] - 1)
  IN  /\ pc[t] = "trap" /\ c # NULL
      /\ stack' = [stack EXCEPT ![t] = <<Ret(rip[t])>> \o @]
      /\ EnterChunk(t, c)
      /\ UNCHANGED <<mem, csMutex, jumptable, proc, patches, history,
                     rip, rax, result>>

SigtrapMissing(t) ==
  /\ pc[t] = "trap" /\ jumptable_get_chunk(rip[t] - 1) = NULL
  /\ Become(t, "getchar")
  /\ UNCHANGED <<mem, csMutex, jumptable, proc, patches, history,
                 rip, rax, stack, cur, idx, result>>

(* The key the handler waits for: the thread goes on behind the INT3.      *)
KeyPress(t) ==
  /\ pc[t] = "getchar"
  /\ Become(t, "run")
  /\ \E i \in Instrs :
       /\ rip[t] = Start[i + 1]
       /\ IF Intact(i)
          THEN ran' = [ran EXCEPT ![t] = i]
          ELSE UNCHANGED ran
  /\ UNCHANGED <<mem, csMutex, jumptable, proc, patches,
                 rip, rax, stack, cur, idx, result, astray, rounds>>

(* A thread that is changing the map: an insertion under way, or a lookup  *)
(* of a key that is not there, which operator[] inserts.                   *)
ChangesMap(t) ==
  \/ pc[t] = "adding"
  \/ pc[t] = "trap" /\ jumptable[rip[t] - 1] = NULL

(* Two threads in the unlocked map at once, one of them changing it.       *)
MapRace(t, u) ==
  /\ t # u /\ pc[t] \in {"trap", "adding"} /\ ChangesMap(u)
  /\ proc' = "corrupt"
  /\ UNCHANGED <<mem, csMutex, jumptable, patches, thread, history>>

-----------------------------------------------------------------------------
(***************************************************************************)
(* A thread in a chunk.  A FarJump chunk starts at step 0 with POP RAX and *)
(* ends with PUSH RAX; MOV RAX, returnAddress; JMP RAX.  A DirectCall      *)
(* chunk starts at step 1 and ends with RET.                               *)
(***************************************************************************)
(* Mutant: a chunk that does not begin with POP RAX.                       *)
ChunkPop_Omitted(t) ==
  /\ pc[t] = "chunk" /\ idx[t] = 0
  /\ idx' = [idx EXCEPT ![t] = 1]
  /\ UNCHANGED <<mem, csMutex, jumptable, proc, patches, history,
                 pc, rip, rax, stack, cur, result>>

ChunkPop(t) ==
  /\ pc[t] = "chunk" /\ idx[t] = 0
  /\ PopRax(t)
  /\ idx' = [idx EXCEPT ![t] = 1]
  /\ UNCHANGED <<mem, csMutex, jumptable, proc, patches, history,
                 pc, rip, cur, result>>

ChunkInstr(t) ==
  /\ pc[t] = "chunk" /\ idx[t] \in 1 .. cur[t].n
  /\ ran' = [ran EXCEPT ![t] = cur[t].first + idx[t] - 1]
  /\ idx' = [idx EXCEPT ![t] = @ + 1]
  /\ UNCHANGED <<mem, csMutex, jumptable, proc, patches,
                 pc, rip, rax, stack, cur, result, astray, rounds>>

ChunkPush(t) ==
  /\ pc[t] = "chunk" /\ cur[t].far /\ idx[t] = cur[t].n + 1
  /\ PushRax(t)
  /\ idx' = [idx EXCEPT ![t] = @ + 1]
  /\ UNCHANGED <<mem, csMutex, jumptable, proc, patches, history,
                 pc, rip, rax, cur, result>>

ChunkMov(t) ==
  /\ pc[t] = "chunk" /\ cur[t].far /\ idx[t] = cur[t].n + 2
  /\ rax' = [rax EXCEPT ![t] = Ret(returnAddress(cur[t]))]
  /\ idx' = [idx EXCEPT ![t] = @ + 1]
  /\ UNCHANGED <<mem, csMutex, jumptable, proc, patches, history,
                 pc, rip, stack, cur, result>>

ChunkJump(t) ==
  /\ pc[t] = "chunk" /\ cur[t].far /\ idx[t] = cur[t].n + 3
  /\ Goto(t, rax[t].to)
  /\ Become(t, "run")
  /\ UNCHANGED <<mem, csMutex, jumptable, proc, patches, history,
                 rax, stack, cur, idx, result>>

ChunkRet(t) ==
  /\ pc[t] = "chunk" /\ ~cur[t].far /\ idx[t] = cur[t].n + 1
  /\ Goto(t, Head(stack[t]).to)
  /\ stack' = [stack EXCEPT ![t] = Tail(@)]
  /\ Become(t, "run")
  /\ UNCHANGED <<mem, csMutex, jumptable, proc, patches, history,
                 rax, cur, idx, result>>

-----------------------------------------------------------------------------
Application(t) ==
  /\ Caught(t)
  /\ \/ \E i \in Instrs : NativeInstr(t, i) \/ Sigill(t, i)
     \/ Sigtrap(t) \/ Nop(t) \/ JumpShort(t) \/ JumpLong(t)
     \/ TrampolinePush(t) \/ TrampolineMov(t) \/ TrampolineJump(t)
     \/ TrampolinePop(t) \/ Derail(t) \/ Finish(t)

Chunks(t) ==
  \/ ChunkPop(t) \/ ChunkInstr(t) \/ ChunkPush(t) \/ ChunkMov(t)
  \/ ChunkJump(t) \/ ChunkRet(t)

Handler(t) ==
  \/ ReencodeLock(t) \/ DecodeNopTrap(t) \/ DecodeUnsupported(t)
  \/ DecodeGarbage(t)
  \/ \E i \in Instrs, n \in 1 .. MaxBlock : DecodeBlock(t, i, n)
  \/ EmitChunk(t) \/ EmitStore(t)
  \/ JumptableAddBegin(t) \/ JumptableAddEnd(t) \/ ReencodeReturn(t)
  \/ SigtrapFound(t) \/ SigtrapMissing(t)

(* What may happen, and need not.                                          *)
Outside(t) ==
  \/ EmitFails(t) \/ KeyPress(t)
  \/ \E u \in Threads : MapRace(t, u)
  \/ \E e \in Entries : Restart(t, e)

Next ==
  /\ proc = "up"
  /\ \E t \in Threads : Application(t) \/ Chunks(t) \/ Handler(t) \/ Outside(t)

(* The kernel runs every thread; no one need press a key, fail a system    *)
(* call or call the code again.  csMutex needs no more: a thread retries.  *)
Fairness ==
  \A t \in Threads :
    WF_vars(proc = "up" /\ (Application(t) \/ Chunks(t) \/ Handler(t)))

Spec == Init /\ [][Next]_vars
FairSpec == Spec /\ Fairness

-----------------------------------------------------------------------------
(***************************************************************************)
(* Properties.                                                             *)
(***************************************************************************)

(* Every variable holds what the code can put there.                       *)
TypeOK ==
  /\ mem \in [Addr -> Cells]
  /\ csMutex \in Threads \cup {NoThread}
  /\ jumptable \in [Addr -> Chunk]
  /\ proc \in {"up", "exited", "derailed", "corrupt"}
  /\ patches \subseteq Chunk
  /\ pc \in [Threads -> Pc]
  /\ rip \in [Threads -> Nat]
  /\ rax \in [Threads -> Word]
  /\ stack \in [Threads -> Seq(Word)]
  /\ cur \in [Threads -> Chunk]
  /\ idx \in [Threads -> Nat]
  /\ result \in [Threads -> {0, 1}]
  /\ ran \in [Threads -> 0 .. N]
  /\ astray \in [Threads -> BOOLEAN]
  /\ rounds \in [Threads -> Nat]

InCritical(t) ==
  pc[t] \in {"decode", "emit", "write", "add", "adding", "unlock"}

(* Decoding, emitting and the table update of one thread never overlap     *)
(* those of another: csMutex is held from before decodeInstructions until  *)
(* reencodeInstruction returns, on every path that returns.                *)
MutualExclusion == \A t \in Threads : InCritical(t) <=> csMutex = t

Writing(c) ==
  \E t \in Threads : pc[t] \in {"write", "add", "adding"} /\ cur[t] = c

(* No two rewritten blocks share a byte, whatever order threads trap in    *)
(* and wherever the traps are: decodeInstructions stops at the first NOP   *)
(* of an earlier patch because a NOP is not in iclassMapping.              *)
PatchesDisjoint ==
  \A c, d \in patches : c # d => Span(c) \cap Span(d) = {}

(* A block whose emitter has returned is completely rewritten, its INT3    *)
(* resolves to its own chunk, and no later rewriting has damaged it: the   *)
(* chunks jump back into it for as long as the process lives.              *)
PatchComplete ==
  \A c \in patches : ~Writing(c) =>
    /\ \A a \in Span(c) : mem[a] = PatchByte(c, a - c.base)
    /\ ~c.far => jumptable[returnAddress(c)] = c

(* Outside the blocks decodeInstructions accepted, emitInstructions leaves *)
(* the application's code alone.                                           *)
RewritesConfined ==
  \A a \in Addr : mem[a] # Orig => \E c \in patches : a \in Span(c)

(* The trampoline, the chunk's prologue and epilogue and the INT3's pushed *)
(* return address cancel out: every instruction of the application, native *)
(* or emulated, sees the RAX and the stack it would see without them.      *)
(* (A DirectCall chunk runs one word below: rspOffset = -8.)               *)
ContextIntact ==
  \A t \in Threads : ~astray[t] =>
    /\ (pc[t] = "run" /\ ~Racing(t) /\ \E i \in Instrs : InstrAt(rip[t], i))
         => rax[t] = App /\ stack[t] = <<CallerTop>>
    /\ (pc[t] = "chunk" /\ idx[t] \in 1 .. cur[t].n)
         => /\ rax[t] = App
            /\ stack[t] = (IF cur[t].far THEN <<>>
                           ELSE <<Ret(returnAddress(cur[t]) + 1)>>)
                          \o <<CallerTop>>

(* What a location of the table resolves to never changes: a thread that   *)
(* was sent to a chunk is not sent to another one the next time.           *)
JumptableStable ==
  [][\A a \in Addr : jumptable[a] # NULL => jumptable'[a] = jumptable[a]]_vars

(* No block is compiled twice, though several threads trap on it at once   *)
(* and decode one after the other: the pages a chunk is given and never    *)
(* gives back are bounded by the code, not by the number of traps.         *)
CompiledOnce ==
  [][\A t \in Threads : pc[t] = "emit" /\ pc'[t] = "write" => cur[t] \notin patches]_vars

(* Every thread gets through the code, whoever rewrites it when, unless    *)
(* the process ends or sigtrap_handler waits for a key: no thread is left  *)
(* waiting for csMutex or trapping on the same block for ever.             *)
EveryRoundEnds ==
  \A t \in Threads : pc[t] = "run" ~> (pc[t] \in {"done", "getchar"} \/ proc # "up")

(* To a thread that no rewriting caught half-way, the program is what it   *)
(* would be on a CPU that has the instructions: each is executed once, in  *)
(* order.                                                                  *)
Native == INSTANCE NativeAvx WITH
            next <- [t \in Threads |-> ran[t] + 1],
            state <- [t \in Threads |->
                       CASE astray[t] -> "astray"
                         [] ~astray[t] /\ pc[t] = "done" -> "done"
                         [] OTHER -> "running"]

ImplementsNative == Native!Spec

===============================================================================
