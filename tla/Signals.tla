-------------------------------- MODULE Signals --------------------------------
(***************************************************************************)
(* How the two handlers of Rewriter come to run: the constructor loadMsg   *)
(* installs them one after the other while other threads may already be in *)
(* the application's code, mysigaction keeps the application from          *)
(* replacing them, and an application's own signal handler may interrupt a *)
(* thread anywhere, in sigill_handler too, and meet AVX code itself.       *)
(*                                                                         *)
(* An element of Handlers is one delivery of a signal of the application:  *)
(* a context of Rewriter that runs on top of the thread Interrupted[h],    *)
(* which stands still until it returns.                                    *)
(***************************************************************************)
EXTENDS Rewriter

CONSTANTS Handlers, Interrupted, Loader

ASSUME HandlerAssumption ==
  /\ Handlers \subseteq Threads
  /\ Interrupted \in [Handlers -> Threads \ Handlers]
ASSUME LoaderAssumption == Loader \in Threads \ Handlers

VARIABLES
  boot,            \* how many steps of loadMsg are done
  disposition,     \* what the kernel does with each signal
  handling,        \* the deliveries that have begun and not returned
  ended            \* how the process ended, where Rewriter does not say

signals == <<boot, disposition, handling, ended>>

SignalNumbers == {"SIGILL", "SIGTRAP", "SIGALRM"}

(* Mutant: the tables are built when the handlers are already in place.    *)
loadMsg_TablesLast ==
  <<"init_sigill_handler", "init_sigtrap_handler", "encoder", "xed_tables_init">>

loadMsg ==
  <<"xed_tables_init", "init_sigill_handler", "init_sigtrap_handler", "encoder">>

SignalsInit ==
  /\ Init
  /\ boot = 0
  /\ disposition = [s \in SignalNumbers |-> "default"]
  /\ handling = {}
  /\ ended = "no"

Loaded(step) == \E k \in 1 .. boot : loadMsg[k] = step

-----------------------------------------------------------------------------
(***************************************************************************)
(* The constructor and sigaction.                                          *)
(***************************************************************************)
Installs(step) ==
  CASE step = "init_sigill_handler" -> {"SIGILL"}
    [] step = "init_sigtrap_handler" -> {"SIGTRAP"}
    [] OTHER -> {}

Load ==
  /\ boot < Len(loadMsg)
  /\ boot' = boot + 1
  /\ disposition' = [s \in SignalNumbers |->
                      IF s \in Installs(loadMsg[boot + 1]) THEN "ours" ELSE disposition[s]]
  /\ UNCHANGED <<vars, handling, ended>>

(* sigaction fails: exit(1).                                               *)
LoadFails ==
  /\ boot < Len(loadMsg) /\ Installs(loadMsg[boot + 1]) # {}
  /\ ended' = "exited"
  /\ UNCHANGED <<vars, boot, disposition, handling>>

(* Mutant: every registration is passed on.                                *)
mysigaction_PassesAll(sig) ==
  /\ disposition' = [disposition EXCEPT ![sig] = "application"]
  /\ UNCHANGED <<vars, boot, handling, ended>>

(* sigaction as the rest of the process sees it, from the start: SIGILL    *)
(* and SIGTRAP are reported as registered and left alone.  What is kept of a *)
(* SIGTRAP action is never read.                                           *)
mysigaction(sig) ==
  /\ disposition' = IF sig \in {"SIGILL", "SIGTRAP"} THEN disposition
                    ELSE [disposition EXCEPT ![sig] = "application"]
  /\ UNCHANGED <<vars, boot, handling, ended>>

-----------------------------------------------------------------------------
(***************************************************************************)
(* Signals of the application.                                             *)
(***************************************************************************)
Suspended(t) == \E h \in handling : Interrupted[h] = t

(* The loader thread reaches no code but loadMsg before loadMsg returns.   *)
Running(t) ==
  /\ ~Suspended(t)
  /\ t \in Handlers => t \in handling
  /\ t = Loader => boot = Len(loadMsg)

Deliver(h) ==
  /\ h \notin handling /\ pc[h] = "run" /\ Running(Interrupted[h])
  /\ disposition["SIGALRM"] = "application"
  /\ handling' = handling \cup {h}
  /\ UNCHANGED <<vars, boot, disposition, ended>>

Return(h) ==
  /\ h \in handling /\ pc[h] = "done"
  /\ handling' = handling \ {h}
  /\ UNCHANGED <<vars, boot, disposition, ended>>

-----------------------------------------------------------------------------
(***************************************************************************)
(* Signals of the instructions a thread executes.                          *)
(***************************************************************************)
Raises(t, sig) ==
  /\ pc[t] = "run"
  /\ \/ sig = "SIGILL" /\ \E i \in Instrs : InstrAt(rip[t], i) /\ Kind[i] \in {"avx", "bad"}
     \/ sig = "SIGTRAP" /\ \/ mem[rip[t]].op = "cc"
                           \/ \E i \in Instrs : InstrAt(rip[t], i) /\ Kind[i] = "brk"

SigillStates == {"ill", "decode", "emit", "write", "add", "adding", "unlock"}
SigtrapStates == {"trap", "getchar"}

(* Mutant: installed with SA_NODEFER.                                      *)
Masked_Nodefer(t, sig) == FALSE

(* The kernel blocks the signal a handler was entered by until it returns  *)
(* (sa_flags = SA_SIGINFO), and no other (sa_mask is empty).               *)
Masked(t, sig) ==
  t \in Handlers /\ pc[Interrupted[t]] \in (IF sig = "SIGILL" THEN SigillStates
                                                              ELSE SigtrapStates)

Delivered(t, sig) == disposition[sig] = "ours" /\ ~Masked(t, sig)

(* The default action ends the process; what a masked synchronous signal   *)
(* does is undefined, and the model goes no further either.                *)
Killed(t) ==
  /\ \E sig \in {"SIGILL", "SIGTRAP"} : Raises(t, sig) /\ ~Delivered(t, sig)
  /\ ended' = "signal"
  /\ UNCHANGED <<vars, boot, disposition, handling>>

(* encoder->reencodeInstruction through a null pointer.                    *)
NullEncoder(t) ==
  /\ pc[t] = "ill" /\ ~Loaded("encoder")
  /\ ended' = "null"
  /\ UNCHANGED <<vars, boot, disposition, handling>>

(* The steps of Rewriter.  csMutex is recursive, but no thread ever locks  *)
(* it again (ReencodeNotReentered), so ReencodeLock need not allow it.     *)
Proceeds(t) ==
  /\ \A sig \in {"SIGILL", "SIGTRAP"} : Raises(t, sig) => Delivered(t, sig)
  /\ pc[t] = "ill" => Loaded("encoder")
  /\ Application(t) \/ Chunks(t) \/ Handler(t)
  /\ UNCHANGED signals

(* A suspended thread may be in the middle of its access to the map.       *)
Occurs(t) ==
  /\ Outside(t) \/ \E u \in Threads : MapRace(u, t)
  /\ UNCHANGED signals

-----------------------------------------------------------------------------
Up == proc = "up" /\ ended = "no"

SignalsNext ==
  /\ Up
  /\ \/ Load \/ LoadFails
     \/ \E sig \in SignalNumbers : mysigaction(sig)
     \/ \E h \in Handlers : Deliver(h) \/ Return(h)
     \/ \E t \in Threads :
          Running(t) /\ (Killed(t) \/ NullEncoder(t) \/ Proceeds(t) \/ Occurs(t))

SignalsSpec == SignalsInit /\ [][SignalsNext]_<<vars, signals>>

(* loadMsg is run to its end, and the kernel runs every thread that is not *)
(* suspended.  No signal need come.                                        *)
SignalsFairSpec ==
  /\ SignalsSpec
  /\ WF_<<vars, signals>>(Up /\ Load)
  /\ \A t \in Threads :
       WF_<<vars, signals>>(Up /\ Running(t) /\ (Killed(t) \/ NullEncoder(t) \/ Proceeds(t)))
  /\ \A h \in Handlers : WF_<<vars, signals>>(Up /\ Return(h))

-----------------------------------------------------------------------------
(***************************************************************************)
(* Properties.                                                             *)
(***************************************************************************)

(* Every variable holds what the code can put there, those of Rewriter     *)
(* included; a delivery that has not begun or has returned is nowhere in   *)
(* the handlers.                                                           *)
SignalsTypeOK ==
  /\ TypeOK
  /\ boot \in 0 .. Len(loadMsg)
  /\ disposition \in [SignalNumbers -> {"default", "ours", "application"}]
  /\ handling \subseteq Handlers
  /\ \A h \in Handlers \ handling : pc[h] \in {"run", "done"}
  /\ ended \in {"no", "exited", "signal", "null"}

(* No thread enters reencodeInstruction on top of its own call of it: the  *)
(* recursive csMutex would let it in, to decode and emit in the middle of  *)
(* the patch the interrupted call is storing.                              *)
ReencodeNotReentered ==
  \A h \in handling : pc[h] \in SigillStates => ~InCritical(Interrupted[h])

(* Whoever is in reencodeInstruction finds XED's tables built and the      *)
(* encoder constructed, however early it trapped.                          *)
ReadyBeforeUse ==
  \A t \in Threads : InCritical(t) => Loaded("xed_tables_init") /\ Loaded("encoder")

(* Once loadMsg has returned, the only way an AVX instruction or an INT3   *)
(* is not handled is inside a signal handler of the application that       *)
(* interrupted the very handler that is needed; nothing the application    *)
(* registers takes the signals away.                                       *)
OnlyNestedSignalsKill ==
  (ended \in {"signal", "null"} /\ boot = Len(loadMsg)) =>
    \E h \in handling :
      \/ pc[Interrupted[h]] \in SigillStates /\ Raises(h, "SIGILL")
      \/ pc[Interrupted[h]] \in SigtrapStates /\ Raises(h, "SIGTRAP")

(* Every signal handler of the application that begins returns, though it  *)
(* may have to wait for csMutex: whoever holds it is not waiting for this  *)
(* one.  Unless the process ends, or that handler itself waits for a key;  *)
(* another thread that waits for one holds no one up.                      *)
EverySignalReturns ==
  \A h \in Handlers :
    h \in handling ~> (h \notin handling \/ ~Up \/ pc[h] = "getchar")

================================================================================
