------------------------------- MODULE MCFlags -------------------------------
(* Instances of Flags for TLC: a static flag and a dynamic one of the first *)
(* copy of the library, and a dynamic one with the same name as the latter  *)
(* in the second copy.                                                      *)
EXTENDS Flags, TLC

CONSTANTS t1, t2, c1, c2, static, dynamic, other

MCCopyOf == static :> c1 @@ dynamic :> c1 @@ other :> c2
MCNameOf == static :> "static" @@ dynamic :> "dynamic" @@ other :> "dynamic"
MCOwner == static :> NoThread @@ dynamic :> t1 @@ other :> t2
MCBefore(c, d) == c = c2 /\ d = c1
=============================================================================
