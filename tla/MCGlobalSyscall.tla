-------------------------- MODULE MCGlobalSyscall --------------------------
(* Instances of GlobalSyscall for TLC.                                     *)
EXTENDS GlobalSyscall

CONSTANTS a, b, c      \* processes

MCHome == [p \in Proc |-> IF p = c THEN 1 ELSE 0]

MCOneHome == [p \in Proc |-> 0]

\* The calls of the programs under tests/: no close, no gspawn.
FifoCalls == Func \ {"FIFO_CLOSE", "GSPAWN"}
=============================================================================
