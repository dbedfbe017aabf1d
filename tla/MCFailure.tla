------------------------------ MODULE MCFailure ------------------------------
(* An instance of Failure for TLC.                                         *)
EXTENDS Failure, TLC

CONSTANTS t1, t2

\* Each pair of kinds meets, but for two informational messages.
MixedLogs == (t1 :> {"INFO", "FATAL", "RAW"}) @@ (t2 :> {"FATAL", "RAW"})
=============================================================================
