---------------------------- MODULE MCLogCleaner ----------------------------
(* Instances of LogCleaner for TLC.                                        *)
EXTENDS LogCleaner, TLC

CONSTANTS c1, c2, w1, w2, f1, f2, a

OnePattern == (f1 :> a) @@ (f2 :> a)
=============================================================================
