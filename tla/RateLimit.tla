------------------------------ MODULE RateLimit ------------------------------
(***************************************************************************)
(* Rate limits (src/src/experimental/attributes.cc and the LOG_EVERY_N,    *)
(* LOG_FIRST_N and LOG_EVERY_T helpers of src/src/ng-log/logging.h) on the *)
(* states of SiteRegistry.  Each limit is one atomic integer that threads  *)
(* advance with compare-and-swap loops; a load and each attempt to swap is *)
(* a step.  A weak compare-and-swap that fails for no reason changes       *)
(* nothing.                                                                *)
(***************************************************************************)
EXTENDS SiteRegistry

CONSTANTS
  N,         \* the count of EveryN and FirstN
  MaxValue,  \* the largest value of the type they count in
  Period,    \* of EveryT
  MaxClock   \* bound: the clock

VARIABLES
  value,    \* the atomic of every state
  current,  \* the value a thread loaded last
  clock, now,
  calls,    \* history: occurrences that reached their limit, per site and type
  admitted  \* history: the admissions, as the values they stored

limits == <<value, current, clock, now, calls, admitted>>
vars == <<registry, lookup, limits>>

\* "every" EveryCount and AdvanceEveryN, "once" the same with a count of zero,
\* "first" FirstCount, "firstN" CountFirstN, "period" ThrottlePeriod and
\* ClaimEveryT.
LimitTypes == {"every", "once", "first", "firstN", "period"}
ASSUME LimitAssumption ==
  /\ Type \subseteq LimitTypes
  /\ N \in Nat \ {0} /\ MaxValue \in Nat /\ N <= MaxValue
  /\ Period \in Nat /\ MaxClock \in Nat

Init ==
  /\ InitRegistry
  /\ value = [x \in 1 .. MaxLookups |-> 0]
  /\ current = [t \in Thread |-> 0]
  /\ clock = 1
  /\ now = [t \in Thread |-> 0]
  /\ calls = [s \in Sites |-> [y \in Type |-> 0]]
  /\ admitted = [s \in Sites |-> [y \in Type |-> <<>>]]

\* Only EveryT reads the clock.
Tick ==
  /\ clock < MaxClock /\ \E t \in Thread : type[t] = "period"
  /\ clock' = clock + 1
  /\ UNCHANGED <<registry, lookup, value, current, now, calls, admitted>>

\* ++ in the type of the counter.
Increment(c) == (c + 1) % (MaxValue + 1)

\* Variant: the position is incremented past n before it starts again.
NextPositionPastN(c) == IF c <= N THEN Increment(c) ELSE 1

\* The loop body of EveryCount and AdvanceEveryN.
NextPosition(c) == IF c < N THEN Increment(c) ELSE 1

\* Variant: a claim for the moment that follows the period immediately.
PeriodOverInclusive(c, n) == c = 0 \/ n >= c + Period

\* The loop condition of ClaimEveryT; 0 stands for no claim yet.
PeriodOver(c, n) == c = 0 \/ n > c + Period

\* The loop condition: an occurrence with a false one gives up.
MayAdvance(y, c, n) ==
  CASE y = "every"  -> TRUE
    [] y = "once"   -> c = 0
    [] y = "first"  -> c < N
    [] y = "firstN" -> c <= N
    [] y = "period" -> PeriodOver(c, n)

Advanced(y, c, n) ==
  CASE y = "every"             -> NextPosition(c)
    [] y \in {"once", "first"} -> Increment(c)
    [] y = "firstN"            -> c + 1
    [] y = "period"            -> n

Admits(y, next) ==
  CASE y = "every"  -> next = 1
    [] y = "firstN" -> next <= N
    [] OTHER        -> TRUE

\* The occurrence is counted; for a period the clock is read.
Occur(t) ==
  /\ pc[t] = "use"
  /\ Goto(t, "load")
  /\ now' = [now EXCEPT ![t] = IF type[t] = "period" THEN clock ELSE 0]
  /\ calls' = [calls EXCEPT ![SiteOf(t)][type[t]] = @ + 1]
  /\ UNCHANGED <<registry, loc, type, index, found, value, current, clock, admitted>>

Load(t) ==
  /\ pc[t] = "load"
  /\ Goto(t, "loop")
  /\ current' = [current EXCEPT ![t] = value[found[t]]]
  /\ UNCHANGED <<registry, loc, type, index, found, value, clock, now, calls, admitted>>

Forget(t) ==
  /\ current' = [current EXCEPT ![t] = 0]
  /\ now' = [now EXCEPT ![t] = 0]

GiveUp(t) ==
  /\ pc[t] = "loop" /\ ~MayAdvance(type[t], current[t], now[t])
  /\ Leave(t) /\ Forget(t)
  /\ UNCHANGED <<registry, type, value, clock, calls, admitted>>

Swap(t) ==
  LET next == Advanced(type[t], current[t], now[t])
  IN /\ value' = [value EXCEPT ![found[t]] = next]
     /\ admitted' = IF ~Admits(type[t], next) THEN admitted
                    ELSE [admitted EXCEPT ![SiteOf(t)][type[t]] = Append(@, next)]
     /\ Leave(t) /\ Forget(t)

\* Variant: a plain store, which does not notice what others did.
CompareExchangeBlindly(t) ==
  /\ pc[t] = "loop" /\ MayAdvance(type[t], current[t], now[t])
  /\ Swap(t)
  /\ UNCHANGED <<registry, type, clock, calls>>

CompareExchange(t) ==
  /\ pc[t] = "loop" /\ MayAdvance(type[t], current[t], now[t])
  /\ \/ /\ value[found[t]] = current[t]
        /\ Swap(t)
     \/ /\ value[found[t]] # current[t]
        /\ current' = [current EXCEPT ![t] = value[found[t]]]
        /\ UNCHANGED <<pc, loc, index, found, now, value, admitted>>
  /\ UNCHANGED <<registry, type, clock, calls>>

Next ==
  \/ Tick
  \/ \E t \in Thread :
       \/ Lookup(t) /\ UNCHANGED limits
       \/ Occur(t) \/ Load(t) \/ GiveUp(t) \/ CompareExchange(t)

Spec == Init /\ [][Next]_vars

-----------------------------------------------------------------------------
(* Properties.                                                             *)

Busy(s, y) ==
  \E t \in Thread : pc[t] \in {"load", "loop"} /\ SiteOf(t) = s /\ type[t] = y
Count(s, y) == Len(admitted[s][y])
Ceiling(a, b) == (a + b - 1) \div b
Least(a, b) == IF a < b THEN a ELSE b

\* However the occurrences of a site are spread over threads and locations,
\* EveryN admits the first and every N-th of them: ceil(k / N) of k.
EveryNExact ==
  \A s \in Sites, y \in Type \cap {"every"} :
    ~Busy(s, y) => Count(s, y) = Ceiling(calls[s][y], N)

\* FirstN admits exactly the first N, each under a number of its own, and
\* EveryN(0) exactly one, also when N is the largest value of the counter.
FirstNExact ==
  \A s \in Sites, y \in Type \cap {"once", "first", "firstN"} :
    LET limit == IF y = "once" THEN 1 ELSE N
    IN /\ admitted[s][y] = [i \in 1 .. Count(s, y) |-> i]
       /\ Count(s, y) <= limit
       /\ ~Busy(s, y) => Count(s, y) = Least(calls[s][y], limit)

\* Two admissions of EveryT are more than a period apart, also when a thread
\* is delayed between reading the clock and claiming the period.
PeriodsApart ==
  \A s \in Sites, y \in Type \cap {"period"} :
    \A i \in 2 .. Count(s, y) : admitted[s][y][i] > admitted[s][y][i - 1] + Period
=============================================================================
