----------------------------- MODULE MCLogThread -----------------------------
(* Instances of LogThread for TLC.                                         *)
EXTENDS LogThread, TLC

CONSTANTS t1, t2

\* A small first message and a larger second one.
TwoSizes == <<1, 2>>

=============================================================================
