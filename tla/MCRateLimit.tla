----------------------------- MODULE MCRateLimit -----------------------------
(* A small instance of RateLimit: l1 and l2 denote the same call site.       *)
EXTENDS RateLimit, TLC

CONSTANTS t1, t2, l1, l2, l3

Threads == {t1, t2}
Locations == {l1, l2, l3}
Keys == l1 :> 1 @@ l2 :> 1 @@ l3 :> 2
Hashes == l1 :> 0 @@ l2 :> 0 @@ l3 :> 1
Types == {"every", "once", "first", "firstN", "period"}
Symmetric == Permutations(Threads)
=============================================================================
