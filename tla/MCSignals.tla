------------------------------- MODULE MCSignals -------------------------------
(* A small program, two threads of which the first loads the library, and    *)
(* one signal that interrupts the second.                                    *)
EXTENDS Signals, TLC

CONSTANTS t1, t2, h

InterruptsT2 == (h :> t2)

(* An instruction no one can execute; behind it, where threads enter too,    *)
(* an INT3 of the application's own between two blocks.                      *)
OddLens == <<3, 4, 1, 3>>
OddStart == [i \in 1 .. 5 |-> <<0, 3, 7, 8, 11>>[i]]
OddKind == <<"bad", "avx", "brk", "avx">>

================================================================================
