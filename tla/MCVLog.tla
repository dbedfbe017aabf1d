------------------------------- MODULE MCVLog -------------------------------
(* Instances of VLog for TLC.                                              *)
EXTENDS VLog, TLC

CONSTANTS t1, t2, s1, s2

\* A site that --vmodule names and one that it does not.
TwoModules == (s1 :> <<"a", "b">>) @@ (s2 :> <<"b">>)
Wildcard == << << <<"a", "*">>, 1 >> >>

\* The pattern of --vmodule, one that is more specific, one for both sites.
ThreePatterns == {<<"a", "*">>, <<"a", "b">>, <<"*", "b">>}

\* The threads are interchangeable: they are not named by any property.
ThreadSymmetry == Permutations(Thread)
=============================================================================
