# LinearAVX in TLA+

LinearAVX is a library that is injected into a process on a CPU (or under
Rosetta) without AVX. When the process executes an AVX instruction it gets a
SIGILL; the handler decodes the run of supported instructions that starts
there, compiles them to SSE, and rewrites the code in place so that the next
thread goes to the compiled chunk without a trap.

Three things can go wrong, and the project has a part for each:

* **Rewriting** (modules `Trampoline`, `Rewriter`, `NativeAvx`): code is
  replaced while every other thread may be executing it.
* **Signals** (modules `Signals`, `Interruption`): the rewriter runs in signal
  handlers that have to be installed, kept and not entered at the wrong time, and
  the application's own signals arrive in between.
* **Emulation** (modules `Operands`, `Lowering`, `InstructionClasses`,
  `Emulation`, `SseMachine`, `AvxIsa`): the emitted SSE code has to compute what
  the AVX instruction does, with YMM registers split between a register and
  thread-local storage, out of scratch registers it has to borrow.

Paths below are relative to the root of the repository.

## 1. Inventory

| component | state | operations | modelled in |
|---|---|---|---|
| signal handlers (`handler.cpp`) | `encoder`, the saved SIGTRAP action, `trapped` | `sigill_handler`, `sigtrap_handler`, `mysigaction`, the constructor `loadMsg` | `Rewriter` (the two handlers), `Signals` (the rest) |
| `Encoder` (`Compiler/Encoder.cpp`) | `csMutex`, a counter | `reencodeInstruction`, `decodeInstructions`, `emitInstructions` | `Rewriter`, `Trampoline` |
| jump table, memory (`memmanager.cpp`) | `executable_chunks_for_locations`, thread-local `gYmmStorage` | `jumptable_add_chunk`, `jumptable_get_chunk`, `get_ymm_storage`, `alloc_executable`, `write_protect_memory` | `Rewriter`, `SseMachine` |
| `Compiler` (`Compiler/Compiler.cpp`) | the instructions of a block | `compile`, `encode` | `Emulation`; the shape of a chunk also in `Rewriter` |
| `Instruction`, `CompilableInstruction` | `usedRegs`, `rspOffset`, `internal_requests` | scratch registers, operand substitution, the swaps of upper halves, `compile` | `Lowering` |
| 128 instruction classes (`Instructions/*.h`) | none of their own | `implementation(upper)`, one `compile` | `InstructionClasses` |
| `Operand` (`Instructions/Operand.cpp`) | a decoded operand | queries, `toEncoderOperand` | `Operands` |
| `Metadata` | - | operand forms of a class | `InstructionClasses` |
| `Cache` | - | declared, never implemented or called | not modelled |
| decoder, `printinstr`, `utils` | - | XED calls, output | not modelled |
| `Tests`, `testapp` | - | compare a native with a translated run | what they compare is what the properties of `Emulation` say |
| XED | - | decodes and encodes | external; taken to be right |

How they interact: `sigill_handler` calls `reencodeInstruction`, which under
`csMutex` decodes, compiles, allocates a chunk, stores the patch and, for
blocks of at most 14 bytes, which end in an INT3, adds an entry to the jump
table. `sigtrap_handler` reads the table without the mutex. Compiled code calls
`get_ymm_storage`. Nothing is ever undone: there is no cache, no freeing and no
restart.

What is hard: the patch is stored a byte at a time over code other threads are
in; the INT3 is live before its entry is; several threads trap on the same
block, or in the middle of each other's; a chunk runs on the application's own
stack with RAX borrowed; the lower half of a destination is written before the
upper halves of the sources are read; registers coincide; flags, RSP and the
alignment of the stack are not the emitted code's own. `PROJECT.json` lists
these one by one, at their lines, with the properties aimed at them.

The handlers are installed by a constructor while other threads may already
execute AVX code, and `sa_mask` is empty: a handler of the application may run on
top of `sigill_handler`, or in the middle of emitted code, and execute AVX
instructions itself.

What makes each component correct:

* Encoder: one rewriting at a time; patches whole, disjoint and confined to what
  was decoded; nobody left waiting.
* Handlers and chunks: RAX and the stack are as if the trampoline were not there.
* Start-up and registration: nothing is used before it is constructed, the
  rewriter is never entered twice by one thread, the application cannot take
  SIGILL and SIGTRAP away, its handlers return.
* Table: an INT3 goes to one chunk, always.
* Together: to a thread that is not caught half-way by a rewriting, the program
  is what it would be on a CPU that has AVX (`NativeAvx`).
* Instruction classes, `Instruction`, `Compiler`: registers, upper halves, flags,
  memory, RSP and the place to go on are as after the AVX instructions.

## 2. Modules

```
Trampoline <- Rewriter <- RewriterProofs <- RewriterTypeProofs <- CourseProofs
                 |  \--- NativeAvx (INSTANCE, refinement)             |
                 |--- MCRewriter                                      |
              Signals <- SignalsProofs (with CourseProofs) <----------/
                 \--- MCSignals

Operands <- Lowering <- InstructionClasses <-\
        \<- SseMachine <- AvxIsa <------------- Emulation <- MCEmulation
                                                   |--- Interruption <- MCInterruption
                                                   \--- StackProofs <- ClaimProofs <- LoweringProofs <- RspProofs
```

**Trampoline** is the layout of a patch, a function from a block and an offset to
a byte (`PatchByte`), and the width of each store.

**Rewriter** has one action per step of `emitInstructions`, of the handlers and
of a chunk, and one per instruction of a patch as the CPU executes it. `mem` is
the application's code, `pc[t]` what thread `t` does, `rip[t]` where in the
application it is, `stack[t]` the words pushed on top of the caller's. The
application is given by constants: where instructions start, what the CPU and
the translator make of each, and where control may enter. A patch is stored by
one `EmitStore` per assignment; other threads run between any two. A thread
that fetches something that is no instruction ends the model (`"derailed"`), as
does a concurrent insertion in the unlocked map (`"corrupt"`): in C++ that is
undefined, here it is a choice that is always available. A lookup that fails waits
for a key (`getchar`) and then skips the INT3; the model does both.

`astray` remembers that a thread was caught by another's rewriting: it fetched
from a block whose patch was being stored or was not yet in the table, or it
was inside a block when the block went. The code cannot help such a thread;
what it promises is about the others.

**Signals** composes `Rewriter` with start-up and the delivery of signals. `boot`
counts the calls `loadMsg` has made, in the order of the source (`hello`, which
only prints, is left out); `disposition` is what the kernel does with a signal.
Threads other than the loader's may be in the application's code from the start.
A trap that finds the default disposition, or that is raised while the same
signal is blocked, ends the process (`Killed`); a `sigill_handler` that finds no
encoder does too (`NullEncoder`). `mysigaction` may be called by anyone at any
time. A signal handler of the application is an element of `Handlers`: a context
of `Rewriter` that `Deliver` starts on top of the thread it interrupts, wherever
that thread is, `sigill_handler` included, and that executes the same program; the
thread stands still until `Return`. The step of a context is the step of `Rewriter`
with a guard, which is why `Signals` implements `Rewriter` and inherits its theorems.

**NativeAvx** is that promise: every thread executes instructions one after the
other. `ImplementsNative` states that `Rewriter` implements it, with the last
instruction a thread has executed and its `astray` flag as the mapping.

**Operands**, **Lowering** and **InstructionClasses** follow the code function by
function. A compilation is a record (`usedRegs`, `rspOffset`, the emitted
`requests`); each helper of `Instruction` maps one such record to the next, and
a method that takes a lambda in C++ is a pair of operators here, what it emits
before the lambda and what after it. A class is one line: its opcode, its
operand forms (from `Metadata`) and the implementation it shares. Textually different wrappers that emit one instruction (`op1`, `op2`,
`op3`) are one operator with the opcode as a parameter.

**SseMachine** and **AvxIsa** are the CPU, external to the repository. Values are
symbolic: a register is four 32-bit lanes, each a term, and an arithmetic
instruction yields a term of its inputs; moves, shuffles and insertions are
exact. Two runs agree if and only if the same operations were applied to the
same inputs. What is below RSP is forgotten at once: a signal or a call may
overwrite it at any point, so code that relies on it is found. A call returns
unknown flags.

**Emulation** compiles a block (`Compile`), executes the emitted code one
instruction at a time (`Step`) and returns to the application (`Resume`), entered
through a trampoline (FarJump) or by a call (DirectCall).

**Interruption** adds one step to `Emulation`: between two emitted instructions a
handler of the application runs one AVX instruction, translated, to its end. The
kernel restores every register; the thread-local storage of upper halves is
left as the handler leaves it.

## 3. Runs

The bounds of the `Rewriter` runs: two threads (the properties relate two
threads at most: one storing, one in the code or in the handler), programs of
four to six instructions in which every length that changes the patch occurs
(14 bytes and less; 15 to 18 without a jump; 19 and more with one; a full block
for the rel32), and one return to the code so that finished patches are
executed too.

| run | question | result |
|---|---|---|
| `mixed` | two threads, a far block whose patch jumps over its slide with a JMP rel8, an INT3 block: mutual exclusion, whole patches, nothing compiled twice, RAX and stack, progress | holds, 28700 states |
| `inner` | control enters in the middle of a block, blocks end because full (`MaxBlock` 3): disjoint, confined, stable table, native order | holds, 86151 states |
| `signals` | start-up beside a running thread, registrations, a handler of the application on top of it; a program with an INT3 of its own and an instruction no one knows: types, use before construction, re-entry, what kills the process, handlers return, native order | holds, 257027 states |
| `long` | fifteen instructions of eleven bytes, one thread: native order through JMP rel32 | holds, 213 states |
| `long_jump` | the same, `ContextIntact` | **violated**: the JMP lands behind PUSH RAX |

`signals` has three contexts (the loader, a thread that executes from the start,
and one delivery to it) and a program of an instruction no one can execute and,
behind it, two blocks with an INT3 of the application's own between them. The loader
brings the order of start-up, the delivery the nesting, and a second delivery would
meet only what the first does, since a handler is interrupted like a thread. The
program is entered at the unknown instruction, where the process ends; at the first
block, which runs into the INT3; and at the last block, behind which every context
comes to its end. So a delivered handler returns in three ways: after an AVX
instruction it trapped on, after one another context had rewritten, and after
waiting for `csMutex` while the loader was rewriting. `EverySignalReturns` lets a
handler off only when the process has ended or it waits for a key itself, in its own
`getchar`; what other threads wait for does not excuse it.

The runs of `Emulation` start from one symbolic state in which every register and
every word of memory has a name of its own, so one block per operand
combination covers all values. Operands range over every form of every class,
with vector registers in every pattern of coincidence (numbered in order of
occurrence from XMM1, since XMM0 is the scratch register that is taken first;
XMM0 itself is included where it is special), general registers RAX, RCX, RDX
and RBX (the ones emitted code borrows), RSP where an instruction may have it as
an operand, and memory by RIP, by RSP, by RAX and by RBX+RCX, at addresses that
are aligned and, in `every`, at addresses that are not. AND is taken in all the
forms the decoder meets, not only those its metadata lists. Immediates are chosen so that each half, each predicate class and
each rejected value occurs. Six XMM registers are looked at, more than any
block uses, and all sixteen general registers: the emitted code may borrow any of them
(`RegistersAssumption`). A block is a straight line and leaves RSP, the
registers and the storage as it found them, so single instructions compose;
`vectors` includes pairs, for the part that depends on the neighbour.

| run | question | result |
|---|---|---|
| `every` | all classes, all forms, both strategies: stores confined, borrowed registers given back, `rspOffset` right, and exactly which operands fault for want of alignment | holds, 240154 states |
| `vectors` | all classes in all forms, and pairs: vectors with their upper halves, general registers and memory, and exactly which combinations fail, with the freed `shufConst` kept and reused | holds, 305468 states |
| `integers` | AND, ANDN, shifts, comparisons, transfers, in the registers the tests generate: registers and flags | holds, 13613 states |
| `interrupted` | thirteen blocks on YMM, XMM and memory, a handler that uses a YMM or XMM register of theirs after any emitted instruction: what is lost | holds, 8223 states |
| `vector_defects` | `VectorsMatch` for a block of nine instructions, one of each class that a finding is about | **violated**: the lower halves of registers 1, 3, 4, 6, 7 and 11 and the upper halves of 0, 5 and 10 are wrong, the others right |
| `gpr_defects` | `GprsMatch` for ANDN R9, RSP, R10; SARX EAX, ECX, EDX; BLSR R8, R8 | **violated**: R9, RAX, RCX and R8 are wrong, the others right |
| `flags` | `FlagsMatch` for VMOVAPS | **violated** |

`VectorDefect`, `GprDefect` and `MemoryDefect` (in `MCEmulation`) name the operand
combinations that are compiled wrongly, `NeedsAlignment` those that fault.
`VectorsExact`, `GprsExact`, `MemoryExact` and `FaultsExact` are equivalences: a
block ends with the right registers if and only if none of its instructions is
one of those. So nothing that works is excluded, and each of the combinations
named is wrong on its own account. `ShiftDefect` and `AndnDefect` say it for the shifts by a
register and ANDN, which borrow up to three registers: they go wrong only with 32-bit
operands, because `usedRegs` then has the 32-bit name of a register and
`getUnusedReg` hands out the 64-bit one. RCX is never handed out by a shift, since its
constructor reserves it (`reservedRegs`). `integers` shows that all of them are right in
the registers the tests use. `vector_defects` and `gpr_defects` execute one block each, with
an example for every finding, chosen so that each leaves a register of its own wrong: the last
state of the one trace shows all of them, and the findings say which register is whose. Flags
are only claimed where the instruction sets or must keep them without touching
the storage.

A deadlock is an error in the runs of `Emulation`, where a block that has been
left stutters. In the runs of `Rewriter` a process stops when its threads are
done or it has exited, so there deadlock is not checked; `EveryRoundEnds`
says what must not stop.

**Fairness** (`Rewriter!Fairness`): weak fairness for each thread's own steps, the
kernel's scheduling. Nothing is assumed of a key being pressed, a call
failing, or the application calling the code again. In `Signals`
(`SignalsFairSpec`) the threads that are not suspended run, `loadMsg` comes to its
end and a handler that is done returns; nothing is assumed of a signal being
delivered or a handler being registered. The mutex needs no strong
fairness: with two threads and finitely many rewritings a waiting thread's lock
is eventually free for good.

Every property of a passing run has a mutant, a variant of one definition (named
`<definition>_<what is wrong>` and defined right before it) under which TLC finds
the property violated in that run.

## 4. What the runs found

The lines are in `PROJECT.json`, under `findings` (the scratch registers of
VCVTPS2PH and AND on memory under `hazards`):

* JMP rel32 over the NOP slide is off by one (`Compiler/Encoder.cpp:141`).
* VMULSD/VMULSS with dst = src2 lose the product.
* VCVTSI2SS emits the double-precision conversion.
* VCVTTPS2DQ on YMM registers puts the upper half's result in place of the lower half's.
* VPERM2F128 destroys the upper half of its scratch register.
* VINSERTF128, VEXTRACTF128 and BLSR overwrite a source before it is read when registers
  coincide.
* VBLENDVPD/PS take a count of operands for the position of one, and do not copy
  the first source.
* VPSLLQ/VPSRLQ on YMM registers shift the upper half by the wrong count.
* VCVTPS2PH takes two vector registers for scratch registers and preserves neither.
* ANDN and SARX/SHLX/SHRX with 32-bit operands may hold a value in the 64-bit register of
  one of them, and lose it or the result; a shift whose substitute for RCX is the destination
  leaves the result in RCX.
* Instructions that must not change flags do, through the call of `get_ymm_storage`.
* VPBROADCASTB refers to a member of an object that is freed before the code runs;
  it is right as long as the allocator keeps the memory as it was (`Freed`).
* RSP as a register operand is not corrected (`AND RSP, -32` in DirectCall, ANDN and
  AND with an address relative to RIP in both strategies).
* `AND [RIP + d], EAX` uses RAX for the address and ANDs that.
* A signal handler that uses AVX destroys upper halves of the thread it interrupts,
  or lower halves if it comes between the swaps (`OnlyLiveSlotsLost` says which).
* An AVX instruction in a handler that interrupted `sigill_handler` ends the
  process, because SIGILL is blocked; an AVX instruction on another thread before
  `loadMsg` has made the encoder does too. `OnlyNestedSignalsKill` says that nothing
  else does once `loadMsg` has returned.

The repository's tests use distinct registers, reserve RAX and RBX, and compare
only registers the instruction names, which is why most of these do not show there.

## 5. Proofs

There is no bound on anything the constants describe: programs, threads, the block
limit, rounds and handlers in the first two parts; blocks, operands, registers and values
in the third.

### Rewriting: `RewriterProofs`, `RewriterTypeProofs`, `CourseProofs`

From the named assumptions of `Rewriter` only (starts increase, VEX instructions have
at least two bytes, INT3 has one):

| theorem | statement |
|---|---|
| `SpecMutualExclusion` | `Spec => []MutualExclusion` |
| `SpecPatchesDisjoint` | `Spec => []PatchesDisjoint` |
| `SpecPatchComplete` | `Spec => []PatchComplete` |
| `SpecRewritesConfined` | `Spec => []RewritesConfined` |
| `SpecJumptableStable` | `Spec => JumptableStable` |
| `SpecCompiledOnce` | `Spec => CompiledOnce` |
| `SpecTypeOK` | `Spec => []TypeOK` |
| `SpecImplementsNative` | `Spec => ImplementsNative`: the refinement of `NativeAvx` |
| `SpecContextIntact` | `ShortBlocks` implies `Spec => []ContextIntact` |

The first six rest on `IInv`. None of them is inductive alone: that a finished
patch stays whole needs that a thread about to store has decoded only original
bytes, which needs that nobody else has stored since, which is mutual exclusion.
`IInv` therefore says of the one thread in the critical section how far it has
got: its block is a block of the program; before `idx` its bytes are the patch's,
from `idx` on original (`Hand`); `idx` is never inside an immediate (`Aligned`, since
one store writes all its bytes); and its block is disjoint from every other.
Actions that touch neither code, table nor mutex are handled at once
(`QuietIInv`), the others have a lemma each.

`TypeOK` needs more: that `rip` stays natural through a backward displacement,
that a jump goes through a chunk, that `Head` is of a non-empty stack. `TInv` adds
what a thread's position in a patch says of its registers; jump targets are
computed from the layout of patches, for which `IInv` supplies `PatchComplete`.

The refinement needs to know where a thread can be. `CInv` (in `CourseProofs`) says that a thread no
rewriting has caught is on course: before a whole instruction of the application,
at the opcode of an instruction of a patch that is in place, in the chunk of that
patch, behind it, or in a handler for an instruction that trapped there. With
it go the last instruction executed, so that the next one is the next of the application
(`ImplementsNative`), and in a program of short blocks RAX and the stack
(`ContextIntact`). It is kept because a patch in place stays (`SettledStays`, from what
`IInv` says), because each instruction of a patch leads to the next (a lemma over
the layout, by the kind of byte) and because no other thread can change what a thread
is in the middle of without that thread counting as caught (`Racing`). TLC checked `CInv` as an invariant
of the `Rewriter` runs before it was proved.

`ShortBlocks` says that no run of instructions the translator may decode is so long
(142 bytes) that its patch gets the JMP rel32. The code does not ensure it:
`MaxBlock` instructions can have more bytes, and `long_jump` shows the
property violated without it. `ImplementsNative` does not need it: the jump lands
behind the PUSH and spoils the stack, but in the right chunk.

### Signals: `SignalsProofs`

Also from the assumptions of `Signals` (a handler interrupts a thread, the loader is a thread):

| theorem | statement |
|---|---|
| `SignalsImplementsRewriter` | `SignalsSpec => Spec` |
| `SpecReencodeNotReentered` | `SignalsSpec => []ReencodeNotReentered` |
| `SpecReadyBeforeUse` | `SignalsSpec => []ReadyBeforeUse` |
| `SpecOnlyNestedSignalsKill` | `SignalsSpec => []OnlyNestedSignalsKill` |
| `SpecSignalsTypeOK` | `SignalsSpec => []SignalsTypeOK` |
| `SpecSignalsImplementsNative` | `SignalsSpec => ImplementsNative` |
| `SpecSignalsContextIntact` | `ShortBlocks` implies `SignalsSpec => []ContextIntact` |

Every step of `Signals` is a step of `Rewriter` or
changes none of its variables; so whatever `Rewriter` keeps, `Signals` keeps, the
refinement included. What
is left is about `boot`, `disposition` and `handling`: a handler is in the rewriter
only if the thread below it is not (a thread that is suspended there has SIGILL
blocked), and whoever is in the rewriter got past the null encoder, which `loadMsg`
makes after the tables.

### Emulation: `StackProofs`, `ClaimProofs`, `LoweringProofs`, `RspProofs`

| theorem | statement |
|---|---|
| `SpecRspTracked` | `SupportedBlocks(Blocks)` implies `Spec => []RspTracked` |
| `SpecRspRestored` | `SupportedBlocks(Blocks)` implies `Spec => []RspRestored` |
| `SpecStoresConfined` | `SupportedBlocks(Blocks)` and `AddressedBlocks(Blocks, Strategies)` imply `Spec => []StoresConfined` |
| `SpecGprsKept` | the same hypotheses imply `Spec => []GprsKept` |
| `SpecEmulated` | the inductive invariant of all four: `Spec => []Emulated(sure)` |

`RspTracked` is what every correction of an RSP-relative operand relies on: at each emitted
instruction `rspOffset` is how far RSP is from the application's. `RspRestored`: after the
block RSP is the application's. `StoresConfined`: emitted code writes the destination of its
instruction, the storage, and the stack below the application's RSP. `GprsKept`: after a
block of any length every general register no instruction of it names as its destination holds
what it held before, and execution goes on at the return address. The last two belong together: a
register comes back from the stack with its value only if no store has landed on the word it
was pushed to, and a store is confined only if the registers in its address hold what the
application put there.

The invariant says what is known between two emitted instructions. A state of knowledge `S`
(`ClaimProofs`) has the distance of RSP, and of each general register and each word pushed
the values it is known to hold, the lanes of memory that may be written, and the target of the last
jump; `Sat(m, S)` says that machine `m` is as `S` says. `Emulated` says of the code that is
left that it is `Tracked`: it leads, one instruction at a time, from a state the machine
satisfies to the state in which the block has to be left, and each instruction is emitted at the offset
that state has. With `sure = FALSE` only the offset is known, and the hypothesis about addresses is not
needed. The argument has four layers.

* `StackProofs`: an emitted instruction moves RSP by its `Displacement`, if it
  has RSP for a destination only as SUB or ADD of an immediate (`ExecMoves`, one step per
  kind of instruction of `SseMachine`). What FlattenSeq computes needs an
  induction; `UpTo` derives it, for a property given as a set, from the well-foundedness of the
  subsets of a finite set.
* `ClaimProofs`: what each kind of emitted instruction makes of what is known. A PUSH adds
  a word, a POP takes the values of one to a register, a store keeps every known word if
  it `Lands` beside them, a call keeps what is at RSP and above. Sequences that are tracked can
  be put together (`TrackedConcat`, `TrackedFlatten`).
* `LoweringProofs`: a compilation in progress (`Underway`) has emitted code tracked up to its
  `rspOffset` and keeps at most so many registers in use. There is a lemma for each helper (what
  `withReg`, `withFreeReg`, `withPreserveXmmReg` emit before and after their lambda,
  the swaps, `withRipSubstitution`, `map3opto2op`) and one for each
  implementation. Borrowing needs that `getUnusedReg` finds a register and that it is
  not RSP: fourteen candidates, at most eight in use by four operands, at most three
  borrowed at a time; for a shift RCX, which its constructor reserves, is a ninth in
  use and so is never handed out, which the lemma for the shifts needs, since they write the
  count to it. Giving back needs that nothing in between has written the word: the lambda
  writes the destination, which `Target` says can be addressed when the operand is
  substituted for RIP or corrected for RSP, the storage, or below RSP.
* `RspProofs`: every class of `iclassMapping` has a body that suits its
  instruction and the operand forms of its metadata (`EveryClassSuits`), hence
  every supported instruction is compiled to tracked code (`CompiledTracked`); what its
  predecessors in the block have not written is still the application's when it starts, so its
  destination is where it was before the block (`RegisterLands`); prologue, instructions and epilogue make
  up the block (`BlockTracked`), which leads from the state of entry to the state of return.

`Supported` asks of an instruction that its operands are of a form its metadata lists (for AND
of any form, as the decoder takes it) and that the destination is not RSP or ESP. The
last is needed: `AND RSP, -32` moves RSP for good, which is what the application
wants, and `RspTracked` compares with where it was.

`Addressed` asks what x86 and the source of the block already ensure of a destination in memory, or
what the code silently relies on: an instruction has one operand in memory, with RIP for its base or a
general register, RSP is no index; the displacement and the width are numbers of the right kind; the
registers of the address have not been written by an earlier instruction of the block, so that the address is one of
the application's; and a function that is called does not store to its own return address,
which is on the stack where a negative displacement from RSP leads. All 5987 blocks of `every` and 497 of
`integers` satisfy both hypotheses under both strategies, and 5907 of the 5933 of `vectors` (the
other 26 have RSP for their destination).

`GprsKept` first failed to be provable, for a good reason: a shift with 32-bit operands that
names RCX may lose it (section 4), so `Written` counts RCX as written there. Everything else that is
borrowed is given back.

### Only model-checked

* Liveness (`EveryRoundEnds`, `EverySignalReturns`): fairness is out of the prover's reach.
* `VectorsExact`, `GprsExact`, `MemoryExact`, `FaultsExact`, `GprsMatch`, `FlagsMatch`,
  `OnlyLiveSlotsLost`: they compare terms computed by folds over whole blocks and name the operand
  combinations that fail one by one; induction over data is out of reach as well.
* `TypeOK` of `Emulation`: that a vector register keeps four lanes depends on the operands the classes
  read, of which the invariant says nothing; it speaks of what is written.

## 6. Not modelled

* An application that blocks SIGILL or SIGTRAP itself, or registers a handler with
  `signal`, which is not interposed.
* The concurrent insertion in the unlocked map beyond saying that it may happen
  (it ends the model).
* The red zone: chunks and handlers push over the 128 bytes below RSP.
* RSP as a source of `AND [mem], RSP`; displacements so large that + 16 leaves 32 bits.
* A handler of the application that is longer than one AVX instruction, or more than
  one of them in one block (`Interruption`); general registers and flags a handler
  changes, since the kernel restores them.
* Operands with a 32-bit register in their address: what SARX, SHLX and SHRX make of ECX as a base
  (`Instructions/SARX.h:93`).
* Rounding: a fused multiply-add is not told apart from its two steps.
* Failures of XED; memory consumption; statistics, output and the dump of
  registers before `exit(1)`.

## 7. Plan

In order of importance; the first eight are done.

1. `Trampoline`, `Rewriter`, `NativeAvx` with runs `mixed`, `inner`, `long`.
2. Inductive invariant and type correctness of `Rewriter`, proved.
3. `Operands`, `Lowering`, `InstructionClasses`, the two machines, `Emulation`.
4. Runs over all classes, and the combinations that fail.
5. `Signals`: the order of installation in `loadMsg`, `mysigaction`, an application's
   own signal handler on top of ours; `Interruption`: one that uses AVX between
   `swap_in_upper_ymm` and `swap_out_upper_ymm`.
6. The refinement to `NativeAvx` proved step by step; `ContextIntact` proved for
   blocks without the long jump.
7. Lemmas on `Lowering`: `withReg`, `withFreeReg` and `withPreserveXmmReg` leave
   `rspOffset` as it was, and so does every class; `RspTracked` proved for every block.
8. What is known of registers, stack and memory between emitted instructions:
   `StoresConfined` and `GprsKept` proved for every block.
9. The same of vector registers and the storage, as far as the code does preserve them:
   `map3opto2op` never writes a source it still needs.
