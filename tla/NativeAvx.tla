------------------------------- MODULE NativeAvx ------------------------------
(***************************************************************************)
(* What the translator promises: every thread executes the instructions of *)
(* the application one after the other, as a CPU with AVX would.  A thread *)
(* may only leave that course once it is astray (caught by another         *)
(* thread's rewriting), and only an astray thread may derail the process.  *)
(* The process may stop: an unsupported instruction, a failing system      *)
(* call, or two threads in the unlocked map of chunks.                     *)
(***************************************************************************)
EXTENDS Integers

CONSTANTS Threads, N, Entries

VARIABLES next,   \* the instruction each thread executes next
          state,  \* "running", "done" or "astray"
          proc    \* "up", or how the process ended

vars == <<next, state, proc>>

Init ==
  /\ next \in [Threads -> Entries]
  /\ state = [t \in Threads |-> "running"]
  /\ proc = "up"

(* Any instruction but the last one leaves the thread in the code.         *)
Execute(t) ==
  /\ state[t] = "running" /\ next[t] <= N
  /\ next' = [next EXCEPT ![t] = @ + 1]
  /\ UNCHANGED <<state, proc>>

Leave(t) ==
  /\ state[t] = "running" /\ next[t] = N + 1
  /\ state' = [state EXCEPT ![t] = "done"]
  /\ UNCHANGED <<next, proc>>

Call(t, e) ==
  /\ state[t] \in {"done", "astray"}
  /\ next' = [next EXCEPT ![t] = e]
  /\ state' = [state EXCEPT ![t] = "running"]
  /\ UNCHANGED proc

GoAstray(t) ==
  /\ state' = [state EXCEPT ![t] = "astray"]
  /\ \E n \in 1 .. N + 1 : next' = [next EXCEPT ![t] = n]
  /\ proc' \in {proc, "derailed"}

Stop ==
  /\ proc' \in {"exited", "corrupt"}
  /\ UNCHANGED <<next, state>>

Next ==
  /\ proc = "up"
  /\ \/ \E t \in Threads : \/ Execute(t) \/ Leave(t) \/ GoAstray(t)
                            \/ \E e \in Entries : Call(t, e)
     \/ Stop

Spec == Init /\ [][Next]_vars

===============================================================================
