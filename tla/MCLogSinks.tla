----------------------------- MODULE MCLogSinks -----------------------------
(* Instances of LogSinks for TLC.                                          *)
EXTENDS LogSinks, TLC

CONSTANTS t1, t2, s1, s2

\* Callbacks that remove no sink but their own, or one that is removed by
\* nobody who could wait for them: no cycle of removals.
AcyclicRemovals == (s1 :> {s1, s2}) @@ (s2 :> {s2})

\* Every callback may remove every sink.
AnyRemovals == [s \in Sink |-> Sink]

SinkSymmetry == Permutations(Sink)
=============================================================================
