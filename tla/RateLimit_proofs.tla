-------------------------- MODULE RateLimit_proofs --------------------------
(* Proofs about the registry of call sites and the rate limits on it.      *)
EXTENDS RateLimit, FiniteSetTheorems, SequenceTheorems, TLAPS

Looking == {"probe", "register", "slots", "publish"}
Using == {"use", "load", "loop"}
State == 1 .. MaxLookups
FirstTypes == {"once", "first", "firstN"}

RegistryTypeOK ==
  /\ pc \in [Thread -> {"idle"} \cup Looking \cup Using]
  /\ loc \in [Thread -> Location \cup {NoLocation}]
  /\ type \in [Thread -> Type]
  /\ index \in [Thread -> Nat]
  /\ found \in [Thread -> State \cup {0}]
  /\ slots \in [Sites -> Seq(Type \X State)]
  /\ overflow \in [Sites -> [Type -> State \cup {0}]]
  /\ lookups \in Nat /\ lookups <= MaxLookups
  /\ destroyed \subseteq State

LimitTypeOK ==
  /\ value \in [State -> Nat]
  /\ current \in [Thread -> Nat]
  /\ clock \in Nat \ {0}
  /\ now \in [Thread -> Nat]
  /\ calls \in [Sites -> [Type -> Nat]]
  /\ admitted \in [Sites -> [Type -> Seq(Nat)]]

TypeOK == RegistryTypeOK /\ LimitTypeOK

-----------------------------------------------------------------------------
(* The registry.                                                           *)

\* A thread on its way has a location and the number of a state; the loop over
\* the slots begins with the first.
Placed ==
  \A t \in Thread :
    /\ pc[t] # "idle" => loc[t] \in Location /\ found[t] \in 1 .. lookups
    /\ pc[t] = "slots" => index[t] \in Nat \ {0}

\* The state that a thread would publish is its own: nobody has it, published
\* it or destroyed it.
FreshState ==
  \A t \in Thread : pc[t] \in Looking =>
    /\ found[t] \notin destroyed
    /\ \A s \in Sites, y \in Type : found[t] \notin Published(s, y)
    /\ \A u \in Thread : pc[u] \in Looking /\ found[u] = found[t] => u = t

\* A published state was constructed, is alive, is the only one of its site and
\* type, and belongs to no other.
PublishedOnce ==
  \A s \in Sites, y \in Type : \A x \in Published(s, y) :
    /\ x \in 1 .. lookups /\ x \notin destroyed
    /\ Published(s, y) = {x}
    /\ \A r \in Sites, z \in Type : x \in Published(r, z) => r = s /\ z = y

UsesPublished ==
  \A t \in Thread : pc[t] \in Using => found[t] \in Published(SiteOf(t), type[t])

DestroyedKnown == \A x \in destroyed : x \in Nat /\ x <= lookups

RegistryInv ==
  /\ RegistryTypeOK /\ Placed /\ DestroyedKnown
  /\ FreshState /\ PublishedOnce /\ UsesPublished

-----------------------------------------------------------------------------
(* The limits.                                                             *)

BusyThreads(s, y) ==
  {t \in Thread : pc[t] \in {"load", "loop"} /\ SiteOf(t) = s /\ type[t] = y}

\* The occurrences that are decided.
Decided(s, y) == calls[s][y] - Cardinality(BusyThreads(s, y))

Limit(y) == IF y = "once" THEN 1 ELSE N
\* Where the atomic of the type stops.
Stop(y) == IF y = "firstN" THEN N + 1 ELSE Limit(y)

\* The position in the current round of N, and the rounds begun.
EveryHolds(v, a, k) ==
  \/ k = 0 /\ v = 0 /\ a = <<>>
  \/ Len(a) >= 1 /\ v \in 1 .. N /\ k = N * (Len(a) - 1) + v

\* The atomic has counted every decided occurrence until it stopped.
FirstHolds(y, v, a, k) ==
  /\ v \in 0 .. Stop(y)
  /\ a = [i \in 1 .. Least(v, Limit(y)) |-> i]
  /\ k = v \/ (v = Stop(y) /\ k >= v)

\* The atomic is the last admission, 0 for none.
PeriodHolds(v, a) ==
  /\ (v = 0) <=> (a = <<>>)
  /\ a # <<>> => a[Len(a)] = v
  /\ \A i \in 2 .. Len(a) : a[i] > a[i - 1] + Period

LimitHolds(y, v, a, k) ==
  /\ y = "every" => EveryHolds(v, a, k)
  /\ y \in FirstTypes => FirstHolds(y, v, a, k)
  /\ y = "period" => PeriodHolds(v, a)

\* An atomic that is not published is as it was constructed.
Untouched ==
  /\ \A x \in State :
       (\A s \in Sites, y \in Type : x \notin Published(s, y)) => value[x] = 0
  /\ \A s \in Sites, y \in Type :
       Published(s, y) = {} => calls[s][y] = 0 /\ admitted[s][y] = <<>>

LimitsHold ==
  \A s \in Sites, y \in Type : \A x \in Published(s, y) :
    LimitHolds(y, value[x], admitted[s][y], Decided(s, y))

\* What a thread has read is not ahead of a counter that only grows, and it has
\* read a clock.
LoadedBefore ==
  \A t \in Thread :
    /\ pc[t] = "loop" /\ type[t] \in FirstTypes => current[t] <= value[found[t]]
    /\ pc[t] \in {"load", "loop"} /\ type[t] = "period" => now[t] > 0

LimitInv == LimitTypeOK /\ Untouched /\ LimitsHold /\ LoadedBefore

IInv == RegistryInv /\ LimitInv

-----------------------------------------------------------------------------
(* Published states.                                                       *)

LEMMA PublishedStates ==
  ASSUME RegistryTypeOK, NEW s \in Sites, NEW y \in Type
  PROVE  Published(s, y) \subseteq State
<1>1. slots[s] \in Seq(Type \X State) /\ overflow[s][y] \in State \cup {0}
  BY DEF RegistryTypeOK
<1>2. \A i \in DOMAIN slots[s] : slots[s][i] \in Type \X State
  BY <1>1
<1>. QED BY <1>1, <1>2 DEF Published

LEMMA PublishedKept ==
  ASSUME slots' = slots, overflow' = overflow
  PROVE  \A s \in Sites, y \in Type : Published(s, y)' = Published(s, y)
BY DEF Published

\* A state that goes to the next slot.
LEMMA PublishedInSlot ==
  ASSUME RegistryTypeOK, NEW r \in Sites, NEW z \in Type, NEW x \in State,
         slots' = [slots EXCEPT ![r] = Append(@, <<z, x>>)], overflow' = overflow
  PROVE  \A s \in Sites, y \in Type :
           Published(s, y)' = IF s = r /\ y = z THEN Published(s, y) \cup {x}
                              ELSE Published(s, y)
<1>. SUFFICES ASSUME NEW s \in Sites, NEW y \in Type
             PROVE  Published(s, y)' = IF s = r /\ y = z THEN Published(s, y) \cup {x}
                                       ELSE Published(s, y)
  OBVIOUS
<1>1. CASE s # r
  <2>1. slots'[s] = slots[s]
    BY <1>1 DEF RegistryTypeOK
  <2>. QED BY <1>1, <2>1 DEF Published
<1>2. CASE s = r
  <2>. DEFINE q == slots[r]
              p == slots'[r]
  <2>1. q \in Seq(Type \X State) /\ p = Append(q, <<z, x>>)
    BY DEF RegistryTypeOK
  <2>2. /\ DOMAIN q = 1 .. Len(q) /\ DOMAIN p = 1 .. Len(q) + 1 /\ Len(q) \in Nat
        /\ \A i \in 1 .. Len(q) : p[i] = q[i]
        /\ p[Len(q) + 1] = <<z, x>>
    BY <2>1
  <2>. HIDE DEF q, p
  <2>3. {p[i][2] : i \in {j \in DOMAIN p : p[j][1] = y}}
          = {q[i][2] : i \in {j \in DOMAIN q : q[j][1] = y}}
              \cup (IF y = z THEN {x} ELSE {})
    <3>1. DOMAIN p = DOMAIN q \cup {Len(q) + 1}
      BY <2>2
    <3>2. <<z, x>>[1] = z /\ <<z, x>>[2] = x
      OBVIOUS
    <3>. QED BY <2>2, <3>1, <3>2
  <2>. QED BY <1>2, <2>3 DEF Published, q, p
<1>. QED BY <1>1, <1>2

\* A state that goes to the overflow.
LEMMA PublishedInOverflow ==
  ASSUME RegistryTypeOK, NEW r \in Sites, NEW z \in Type, NEW x \in State,
         overflow' = [overflow EXCEPT ![r][z] = x], slots' = slots,
         Published(r, z) = {}
  PROVE  \A s \in Sites, y \in Type :
           Published(s, y)' = IF s = r /\ y = z THEN Published(s, y) \cup {x}
                              ELSE Published(s, y)
<1>. SUFFICES ASSUME NEW s \in Sites, NEW y \in Type
             PROVE  Published(s, y)' = IF s = r /\ y = z THEN Published(s, y) \cup {x}
                                       ELSE Published(s, y)
  OBVIOUS
<1>1. overflow'[s][y] = IF s = r /\ y = z THEN x ELSE overflow[s][y]
  BY DEF RegistryTypeOK
<1>2. x # 0
  BY DEF State
<1>. QED BY <1>1, <1>2 DEF Published

-----------------------------------------------------------------------------
(* The lookup preserves the invariant of the registry.                     *)

LEMMA SiteKnown ==
  ASSUME Placed, NEW t \in Thread, pc[t] # "idle"
  PROVE  SiteOf(t) \in Sites
BY DEF Placed, SiteOf, Sites

LEMMA UsersKnown ==
  ASSUME RegistryInv
  PROVE  \A t \in Thread : pc[t] \in Using =>
           /\ SiteOf(t) \in Sites /\ type[t] \in Type
           /\ found[t] \in Published(SiteOf(t), type[t])
<1>1. \A t \in Thread : pc[t] \in Using => SiteOf(t) \in Sites
  BY SiteKnown DEF RegistryInv, Using
<1>. QED BY <1>1 DEF RegistryInv, RegistryTypeOK, UsesPublished

LEMMA FindSiteKeeps ==
  ASSUME RegistryInv, NEW t \in Thread, NEW l \in Location, FindSite(t, l)
  PROVE  RegistryInv'
<1>1. lookups \in Nat /\ lookups + 1 \in State /\ lookups' = lookups + 1
  BY SiteAssumption DEF RegistryInv, RegistryTypeOK, FindSite, State
<1>2. \A s \in Sites, y \in Type : Published(s, y)' = Published(s, y)
  BY PublishedKept DEF FindSite
<1>3. /\ pc' = [pc EXCEPT ![t] = "probe"]
      /\ loc' = [loc EXCEPT ![t] = l]
      /\ index' = [index EXCEPT ![t] = 0]
      /\ found' = [found EXCEPT ![t] = lookups + 1]
      /\ UNCHANGED <<aliases, slots, overflow, destroyed, type>>
      /\ pc[t] = "idle"
  BY DEF FindSite, Goto
<1>4. RegistryTypeOK'
  BY <1>1, <1>3 DEF RegistryInv, RegistryTypeOK, State, Looking
<1>5. \A u \in Thread :
        /\ pc'[u] = IF u = t THEN "probe" ELSE pc[u]
        /\ loc'[u] = IF u = t THEN l ELSE loc[u]
        /\ found'[u] = IF u = t THEN lookups + 1 ELSE found[u]
        /\ u # t => index'[u] = index[u]
  BY <1>3 DEF RegistryInv, RegistryTypeOK
<1>6. Placed'
  BY <1>1, <1>5 DEF RegistryInv, Placed
<1>7. PublishedOnce'
  BY <1>1, <1>2, <1>3 DEF RegistryInv, RegistryTypeOK, PublishedOnce
<1>8. FreshState'
  <2>1. \A x \in destroyed : x \in Nat /\ x <= lookups
    BY DEF RegistryInv, DestroyedKnown
  <2>2. \A s \in Sites, y \in Type : lookups + 1 \notin Published(s, y)
    BY <1>1 DEF RegistryInv, RegistryTypeOK, PublishedOnce
  <2>3. lookups + 1 \notin destroyed
    BY <1>1, <2>1 DEF RegistryInv, RegistryTypeOK
  <2>4. \A u \in Thread : pc[u] \in Looking => found[u] # lookups + 1
    <3>1. \A u \in Thread : pc[u] \in Looking => found[u] \in 1 .. lookups
      BY DEF RegistryInv, Placed, Looking
    <3>. QED BY <1>1, <3>1
  <2>. QED BY <1>1, <1>2, <1>3, <1>5, <2>2, <2>3, <2>4 DEF RegistryInv, FreshState
<1>9. UsesPublished'
  BY <1>2, <1>3, <1>5, UsersKnown DEF UsesPublished, SiteOf, Using
<1>10. DestroyedKnown'
  BY <1>1, <1>3 DEF RegistryInv, RegistryTypeOK, DestroyedKnown
<1>. QED BY <1>4, <1>6, <1>7, <1>8, <1>9, <1>10 DEF RegistryInv

\* The steps that only move a thread on within its lookup.
LEMMA MovesKeep ==
  ASSUME RegistryInv, NEW t \in Thread,
         UNCHANGED <<slots, overflow, lookups, destroyed, loc, type, found>>,
         pc[t] \in {"probe", "register", "slots"},
         \E l \in Looking : pc' = [pc EXCEPT ![t] = l],
         \E i \in Nat : index' = [index EXCEPT ![t] = i] /\ (pc'[t] = "slots" => i # 0)
  PROVE  RegistryInv'
<1>1. \A s \in Sites, y \in Type : Published(s, y)' = Published(s, y)
  BY PublishedKept
<1>. PICK l \in Looking : pc' = [pc EXCEPT ![t] = l]
  OBVIOUS
<1>. PICK i \in Nat : index' = [index EXCEPT ![t] = i] /\ (pc'[t] = "slots" => i # 0)
  OBVIOUS
<1>2. RegistryTypeOK'
  BY DEF RegistryInv, RegistryTypeOK, Looking
<1>3. \A u \in Thread : /\ pc'[u] = IF u = t THEN l ELSE pc[u]
                        /\ index'[u] = IF u = t THEN i ELSE index[u]
  BY DEF RegistryInv, RegistryTypeOK
<1>4. Placed'
  BY <1>3 DEF RegistryInv, Placed
<1>5. PublishedOnce'
  BY <1>1 DEF RegistryInv, PublishedOnce
<1>6. FreshState'
  BY <1>1, <1>3 DEF RegistryInv, FreshState, Looking
<1>7. UsesPublished'
  BY <1>1, <1>3, UsersKnown DEF UsesPublished, SiteOf, Using, Looking
<1>8. DestroyedKnown'
  BY DEF RegistryInv, DestroyedKnown
<1>. QED BY <1>2, <1>4, <1>5, <1>6, <1>7, <1>8 DEF RegistryInv

LEMMA UnchangedIndex ==
  ASSUME RegistryTypeOK, NEW t \in Thread, index' = index
  PROVE  index' = [index EXCEPT ![t] = index[t]] /\ index[t] \in Nat
BY DEF RegistryTypeOK

LEMMA UnchangedPc ==
  ASSUME RegistryTypeOK, NEW t \in Thread, pc' = pc
  PROVE  pc' = [pc EXCEPT ![t] = pc[t]]
BY DEF RegistryTypeOK

LEMMA ProbeKeeps ==
  ASSUME RegistryInv, NEW t \in Thread, Probe(t)
  PROVE  RegistryInv'
<1>1. /\ pc[t] = "probe"
      /\ UNCHANGED <<slots, overflow, lookups, destroyed, loc, type, found>>
  BY DEF Probe, registry
<1>2. \/ pc' = [pc EXCEPT ![t] = "register"] /\ UNCHANGED index
      \/ pc' = [pc EXCEPT ![t] = "slots"] /\ index' = [index EXCEPT ![t] = 1]
      \/ index' = [index EXCEPT ![t] = @ + 1] /\ UNCHANGED pc
  BY DEF Probe, Goto
<1>3. index[t] + 1 \in Nat /\ index[t] + 1 # 0 /\ pc'[t] \in Looking
  BY <1>1, <1>2 DEF RegistryInv, RegistryTypeOK, Looking
<1>4. \E l \in Looking : pc' = [pc EXCEPT ![t] = l]
  BY <1>1, <1>2, UnchangedPc DEF Looking, RegistryInv
<1>5. \E i \in Nat : index' = [index EXCEPT ![t] = i] /\ (pc'[t] = "slots" => i # 0)
  BY <1>1, <1>2, <1>3, UnchangedIndex DEF RegistryInv, RegistryTypeOK
<1>. QED BY <1>1, <1>4, <1>5, MovesKeep

LEMMA ProbesEndKeeps ==
  ASSUME RegistryInv, NEW t \in Thread, ProbesEnd(t)
  PROVE  RegistryInv'
<1>1. /\ pc[t] = "probe" /\ pc' = [pc EXCEPT ![t] = "register"]
      /\ UNCHANGED <<slots, overflow, lookups, destroyed, loc, type, found, index>>
  BY DEF ProbesEnd, Goto, registry
<1>2. pc'[t] # "slots"
  BY <1>1 DEF RegistryInv, RegistryTypeOK
<1>. QED BY <1>1, <1>2, MovesKeep, UnchangedIndex DEF RegistryInv, Looking

LEMMA RegisterKeeps ==
  ASSUME RegistryInv, NEW t \in Thread, Register(t)
  PROVE  RegistryInv'
<1>1. /\ pc[t] = "register" /\ pc' = [pc EXCEPT ![t] = "slots"]
      /\ index' = [index EXCEPT ![t] = 1]
      /\ UNCHANGED <<slots, overflow, lookups, destroyed, loc, type, found>>
  BY DEF Register, Goto
<1>2. "slots" \in Looking /\ 1 \in Nat /\ 1 # 0
  BY DEF Looking
<1>3. \E l \in Looking : pc' = [pc EXCEPT ![t] = l]
  BY <1>1, <1>2
<1>4. \E i \in Nat : index' = [index EXCEPT ![t] = i] /\ (pc'[t] = "slots" => i # 0)
  BY <1>1, <1>2
<1>. QED BY <1>1, <1>3, <1>4, MovesKeep

\* A thread that begins to use a published state.
LEMMA UseKeeps ==
  ASSUME RegistryInv, NEW t \in Thread, pc[t] \in {"slots", "publish"},
         pc' = [pc EXCEPT ![t] = "use"],
         NEW x \in Published(SiteOf(t), type[t]),
         found' = [found EXCEPT ![t] = x],
         destroyed' \in {destroyed, destroyed \cup {found[t]}},
         UNCHANGED <<slots, overflow, lookups, loc, type, index>>
  PROVE  RegistryInv'
<1>1. \A s \in Sites, y \in Type : Published(s, y)' = Published(s, y)
  BY PublishedKept
<1>2. SiteOf(t) \in Sites /\ type[t] \in Type
  BY SiteKnown DEF RegistryInv, RegistryTypeOK
<1>3. x \in State /\ x \in 1 .. lookups
  BY <1>2, PublishedStates DEF RegistryInv, PublishedOnce
<1>4. found[t] \in State
  BY DEF RegistryInv, RegistryTypeOK, Placed, State
<1>5. RegistryTypeOK'
  BY <1>3, <1>4 DEF RegistryInv, RegistryTypeOK, Using
<1>6. \A u \in Thread : /\ pc'[u] = IF u = t THEN "use" ELSE pc[u]
                        /\ found'[u] = IF u = t THEN x ELSE found[u]
  BY DEF RegistryInv, RegistryTypeOK
<1>7. Placed'
  BY <1>3, <1>6 DEF RegistryInv, Placed
<1>8. PublishedOnce'
  <2>1. \A s \in Sites, y \in Type : found[t] \notin Published(s, y)
    BY DEF RegistryInv, FreshState, Looking
  <2>. QED BY <1>1, <2>1 DEF RegistryInv, PublishedOnce
<1>9. FreshState'
  BY <1>1, <1>6 DEF RegistryInv, FreshState, Looking
<1>10. UsesPublished'
  BY <1>1, <1>2, <1>6, UsersKnown DEF UsesPublished, SiteOf, Using
<1>11. DestroyedKnown'
  BY DEF RegistryInv, RegistryTypeOK, DestroyedKnown, Placed
<1>. QED BY <1>5, <1>7, <1>8, <1>9, <1>10, <1>11 DEF RegistryInv

LEMMA LoadSlotKeeps ==
  ASSUME RegistryInv, NEW t \in Thread, LoadSlot(t)
  PROVE  RegistryInv'
<1>1. /\ pc[t] = "slots"
      /\ UNCHANGED <<slots, overflow, lookups, destroyed, loc, type>>
  BY DEF LoadSlot, registry
<1>. DEFINE q == slots[SiteOf(t)]
<1>2. CASE pc' = [pc EXCEPT ![t] = "publish"] /\ UNCHANGED <<index, found>>
  <2>1. pc'[t] # "slots"
    BY <1>2 DEF RegistryInv, RegistryTypeOK
  <2>. QED BY <1>1, <1>2, <2>1, MovesKeep, UnchangedIndex DEF RegistryInv, Looking
<1>3. CASE /\ index[t] <= Len(q) /\ q[index[t]][1] = type[t]
           /\ found' = [found EXCEPT ![t] = q[index[t]][2]]
           /\ pc' = [pc EXCEPT ![t] = "use"]
           /\ UNCHANGED index
  <2>1. SiteOf(t) \in Sites
    BY <1>1, SiteKnown DEF RegistryInv
  <2>2. q \in Seq(Type \X State) /\ index[t] \in Nat \ {0}
    BY <1>1, <2>1 DEF RegistryInv, RegistryTypeOK, Placed
  <2>3. index[t] \in DOMAIN q
    BY <1>3, <2>2
  <2>4. q[index[t]][2] \in Published(SiteOf(t), type[t])
    BY <1>3, <2>3 DEF Published
  <2>. HIDE DEF q
  <2>. QED BY <1>1, <1>3, <2>4, UseKeeps
<1>4. CASE index' = [index EXCEPT ![t] = @ + 1] /\ UNCHANGED <<pc, found>>
  <2>1. index[t] + 1 \in Nat /\ index[t] + 1 # 0
    BY DEF RegistryInv, RegistryTypeOK
  <2>2. \E l \in Looking : pc' = [pc EXCEPT ![t] = l]
    BY <1>1, <1>4, UnchangedPc DEF Looking, RegistryInv
  <2>. QED BY <1>1, <1>4, <2>1, <2>2, MovesKeep
<1>. QED BY <1>2, <1>3, <1>4 DEF LoadSlot, Goto

\* A thread that publishes the state it constructed, in a slot or not.
LEMMA PublishNewKeeps ==
  ASSUME RegistryInv, NEW t \in Thread, pc[t] = "publish",
         pc' = [pc EXCEPT ![t] = "use"],
         Published(SiteOf(t), type[t]) = {},
         \A s \in Sites, y \in Type :
           Published(s, y)' = IF s = SiteOf(t) /\ y = type[t]
                              THEN Published(s, y) \cup {found[t]} ELSE Published(s, y),
         slots' \in [Sites -> Seq(Type \X State)],
         overflow' \in [Sites -> [Type -> State \cup {0}]],
         UNCHANGED <<lookups, destroyed, loc, type, index, found>>
  PROVE  RegistryInv'
<1>2. SiteOf(t) \in Sites /\ type[t] \in Type
  BY SiteKnown DEF RegistryInv, RegistryTypeOK
<1>3. /\ found[t] \in 1 .. lookups /\ found[t] \notin destroyed
      /\ \A s \in Sites, y \in Type : found[t] \notin Published(s, y)
  BY DEF RegistryInv, Placed, FreshState, Looking
<1>4. RegistryTypeOK'
  BY DEF RegistryInv, RegistryTypeOK, Using
<1>5. \A u \in Thread : pc'[u] = IF u = t THEN "use" ELSE pc[u]
  BY DEF RegistryInv, RegistryTypeOK
<1>6. Placed'
  BY <1>5 DEF RegistryInv, Placed
<1>7. PublishedOnce'
  <2>1. \A s \in Sites, y \in Type :
          Published(s, y)' = IF s = SiteOf(t) /\ y = type[t] THEN {found[t]}
                             ELSE Published(s, y)
    OBVIOUS
  <2>. SUFFICES ASSUME NEW s \in Sites, NEW y \in Type, NEW x \in Published(s, y)'
               PROVE  /\ x \in 1 .. lookups /\ x \notin destroyed
                      /\ Published(s, y)' = {x}
                      /\ \A r \in Sites, z \in Type :
                           x \in Published(r, z)' => r = s /\ z = y
    BY DEF PublishedOnce
  <2>2. CASE s = SiteOf(t) /\ y = type[t]
    BY <1>2, <1>3, <2>1, <2>2
  <2>3. CASE ~(s = SiteOf(t) /\ y = type[t])
    <3>1. x \in Published(s, y) /\ x # found[t]
      BY <1>3, <2>1, <2>3
    <3>2. /\ x \in 1 .. lookups /\ x \notin destroyed /\ Published(s, y) = {x}
          /\ \A r \in Sites, z \in Type : x \in Published(r, z) => r = s /\ z = y
      BY <3>1 DEF RegistryInv, PublishedOnce
    <3>. QED BY <2>1, <2>3, <3>1, <3>2
  <2>. QED BY <2>2, <2>3
<1>8. FreshState'
  BY <1>2, <1>3, <1>5 DEF RegistryInv, FreshState, Looking
<1>9. UsesPublished'
  <2>. SUFFICES ASSUME NEW u \in Thread, pc'[u] \in Using
               PROVE  found[u] \in Published(SiteOf(u), type[u])'
    BY DEF UsesPublished
  <2>1. SiteOf(u)' = SiteOf(u) /\ type'[u] = type[u]
    BY DEF SiteOf
  <2>2. CASE u = t
    <3>1. \A s \in Sites, y \in Type :
            s = SiteOf(t) /\ y = type[t] => found[t] \in Published(s, y)'
      OBVIOUS
    <3>. QED BY <1>2, <2>1, <2>2, <3>1
  <2>3. CASE u # t
    BY <1>5, <2>1, <2>3, UsersKnown
  <2>. QED BY <2>2, <2>3
<1>10. DestroyedKnown'
  BY DEF RegistryInv, DestroyedKnown
<1>. QED BY <1>4, <1>6, <1>7, <1>8, <1>9, <1>10 DEF RegistryInv

LEMMA PublishKeeps ==
  ASSUME RegistryInv, NEW t \in Thread, Publish(t)
  PROVE  RegistryInv'
<1>. DEFINE s == SiteOf(t)
            there == Published(s, type[t])
<1>1. /\ pc[t] = "publish" /\ pc' = [pc EXCEPT ![t] = "use"]
      /\ UNCHANGED <<aliases, lookups, loc, type, index>>
  BY DEF Publish, Goto
<1>2. s \in Sites /\ type[t] \in Type /\ found[t] \in State
  BY <1>1, SiteKnown DEF RegistryInv, RegistryTypeOK, Placed, State
<1>3. CASE /\ there # {}
           /\ found' = [found EXCEPT ![t] = CHOOSE x \in there : TRUE]
           /\ destroyed' = destroyed \cup {found[t]}
           /\ UNCHANGED <<slots, overflow>>
  <2>1. (CHOOSE x \in there : TRUE) \in there
    BY <1>3
  <2>. QED BY <1>1, <1>3, <2>1, UseKeeps
<1>4. CASE /\ there = {}
           /\ slots' = [slots EXCEPT ![s] = Append(@, <<type[t], found[t]>>)]
           /\ UNCHANGED <<overflow, found, destroyed>>
  <2>1. slots' \in [Sites -> Seq(Type \X State)]
    BY <1>2, <1>4 DEF RegistryInv, RegistryTypeOK
  <2>2. overflow' \in [Sites -> [Type -> State \cup {0}]]
    BY <1>4 DEF RegistryInv, RegistryTypeOK
  <2>3. \A r \in Sites, y \in Type :
          Published(r, y)' = IF r = s /\ y = type[t]
                             THEN Published(r, y) \cup {found[t]} ELSE Published(r, y)
    BY <1>2, <1>4, PublishedInSlot, ZenonT(30) DEF RegistryInv
  <2>. QED BY <1>1, <1>4, <2>1, <2>2, <2>3, PublishNewKeeps
<1>5. CASE /\ there = {}
           /\ overflow' = [overflow EXCEPT ![s][type[t]] = found[t]]
           /\ UNCHANGED <<slots, found, destroyed>>
  <2>1. slots' \in [Sites -> Seq(Type \X State)]
    BY <1>5 DEF RegistryInv, RegistryTypeOK
  <2>2. overflow' \in [Sites -> [Type -> State \cup {0}]]
    BY <1>2, <1>5 DEF RegistryInv, RegistryTypeOK
  <2>3. \A r \in Sites, y \in Type :
          Published(r, y)' = IF r = s /\ y = type[t]
                             THEN Published(r, y) \cup {found[t]} ELSE Published(r, y)
    BY <1>2, <1>5, PublishedInOverflow, ZenonT(30) DEF RegistryInv
  <2>. QED BY <1>1, <1>5, <2>1, <2>2, <2>3, PublishNewKeeps
<1>. QED BY <1>3, <1>4, <1>5 DEF Publish

\* A thread that goes on using its state.
LEMMA StayKeeps ==
  ASSUME RegistryInv, NEW t \in Thread, pc[t] \in Using,
         NEW l \in Using, pc' = [pc EXCEPT ![t] = l],
         UNCHANGED <<slots, overflow, lookups, destroyed, loc, type, index, found>>
  PROVE  RegistryInv'
<1>1. \A s \in Sites, y \in Type : Published(s, y)' = Published(s, y)
  BY PublishedKept
<1>2. RegistryTypeOK'
  BY DEF RegistryInv, RegistryTypeOK, Using
<1>3. \A u \in Thread : pc'[u] = IF u = t THEN l ELSE pc[u]
  BY DEF RegistryInv, RegistryTypeOK
<1>4. Placed'
  BY <1>3 DEF RegistryInv, Placed, Using
<1>5. PublishedOnce'
  BY <1>1 DEF RegistryInv, PublishedOnce
<1>6. FreshState'
  BY <1>1, <1>3 DEF RegistryInv, FreshState, Looking, Using
<1>7. UsesPublished'
  BY <1>1, <1>3, UsersKnown DEF UsesPublished, SiteOf, Using
<1>8. DestroyedKnown'
  BY DEF RegistryInv, DestroyedKnown
<1>. QED BY <1>2, <1>4, <1>5, <1>6, <1>7, <1>8 DEF RegistryInv

LEMMA LeaveKeeps ==
  ASSUME RegistryInv, NEW t \in Thread, pc[t] \in Using, Leave(t),
         UNCHANGED <<slots, overflow, lookups, destroyed, type>>
  PROVE  RegistryInv'
<1>1. \A s \in Sites, y \in Type : Published(s, y)' = Published(s, y)
  BY PublishedKept
<1>2. RegistryTypeOK'
  BY DEF RegistryInv, RegistryTypeOK, Leave, Goto
<1>3. \A u \in Thread : /\ pc'[u] = IF u = t THEN "idle" ELSE pc[u]
                        /\ u # t => /\ loc'[u] = loc[u] /\ index'[u] = index[u]
                                    /\ found'[u] = found[u]
  BY DEF RegistryInv, RegistryTypeOK, Leave, Goto
<1>4. Placed'
  BY <1>3 DEF RegistryInv, Placed
<1>5. PublishedOnce'
  BY <1>1 DEF RegistryInv, PublishedOnce
<1>6. FreshState'
  BY <1>1, <1>3 DEF RegistryInv, FreshState, Looking, Using
<1>7. UsesPublished'
  BY <1>1, <1>3, UsersKnown DEF UsesPublished, SiteOf, Using
<1>8. DestroyedKnown'
  BY DEF RegistryInv, DestroyedKnown
<1>. QED BY <1>2, <1>4, <1>5, <1>6, <1>7, <1>8 DEF RegistryInv

LEMMA RegistryKept ==
  ASSUME RegistryInv, [Next]_vars
  PROVE  RegistryInv'
<1>1. ASSUME NEW t \in Thread, Lookup(t)
      PROVE  RegistryInv'
  BY <1>1, FindSiteKeeps, ProbeKeeps, ProbesEndKeeps, RegisterKeeps, LoadSlotKeeps,
     PublishKeeps DEF Lookup
<1>2. ASSUME NEW t \in Thread, Occur(t)
      PROVE  RegistryInv'
  BY <1>2, StayKeeps DEF Occur, Goto, Using, registry
<1>3. ASSUME NEW t \in Thread, Load(t)
      PROVE  RegistryInv'
  BY <1>3, StayKeeps DEF Load, Goto, Using, registry
<1>4. ASSUME NEW t \in Thread, GiveUp(t)
      PROVE  RegistryInv'
  BY <1>4, LeaveKeeps DEF GiveUp, Using, registry
<1>5. ASSUME NEW t \in Thread, CompareExchange(t)
      PROVE  RegistryInv'
  <2>1. CASE Leave(t)
    BY <1>5, <2>1, LeaveKeeps DEF CompareExchange, Using, registry
  <2>2. CASE UNCHANGED <<pc, loc, index, found>>
    BY <1>5, <2>2, StayKeeps, UnchangedPc
       DEF CompareExchange, Using, registry, RegistryInv
  <2>. QED BY <1>5, <2>1, <2>2 DEF CompareExchange, Swap
<1>6. CASE UNCHANGED <<registry, lookup>>
  <2>1. \A s \in Sites, y \in Type : Published(s, y)' = Published(s, y)
    BY <1>6, PublishedKept DEF registry
  <2>2. UNCHANGED <<slots, overflow, lookups, destroyed, pc, loc, type, index, found>>
    BY <1>6 DEF registry, lookup
  <2>3. RegistryTypeOK' /\ Placed' /\ DestroyedKnown'
    BY <2>2 DEF RegistryInv, RegistryTypeOK, Placed, DestroyedKnown
  <2>4. FreshState' /\ PublishedOnce'
    BY <2>1, <2>2 DEF RegistryInv, FreshState, PublishedOnce
  <2>5. UsesPublished'
    BY <2>1, <2>2, UsersKnown DEF UsesPublished, SiteOf
  <2>. QED BY <2>3, <2>4, <2>5 DEF RegistryInv
<1>. QED BY <1>1, <1>2, <1>3, <1>4, <1>5, <1>6 DEF Next, Tick, vars

-----------------------------------------------------------------------------
(* What one occurrence does to a limit, by itself.                         *)

LEMMA Increments ==
  ASSUME NEW c \in Nat, c + 1 <= MaxValue
  PROVE  Increment(c) = c + 1
BY LimitAssumption DEF Increment

LEMMA TypesKnown == Type \subseteq {"every", "period"} \cup FirstTypes
BY LimitAssumption DEF LimitTypes, FirstTypes

\* The limit of a state that was just constructed.
LEMMA NewHolds ==
  ASSUME NEW y \in Type
  PROVE  LimitHolds(y, 0, <<>>, 0)
<1>1. EveryHolds(0, <<>>, 0)
  BY DEF EveryHolds
<1>2. PeriodHolds(0, <<>>)
  BY DEF PeriodHolds
<1>3. Stop(y) \in Nat /\ Least(0, Limit(y)) = 0
  BY LimitAssumption DEF Stop, Limit, Least
<1>4. <<>> = [i \in 1 .. 0 |-> i]
  OBVIOUS
<1>5. FirstHolds(y, 0, <<>>, 0)
  BY <1>3, <1>4 DEF FirstHolds
<1>. QED BY <1>1, <1>2, <1>5 DEF LimitHolds

LEMMA FirstAdvances ==
  ASSUME NEW y \in FirstTypes, NEW c \in Nat, NEW n
  PROVE  MayAdvance(y, c, n) <=> c < Stop(y)
<1>1. N \in Nat \ {0}
  BY LimitAssumption
<1>2. CASE y = "once"
  BY <1>1, <1>2 DEF MayAdvance, Stop, Limit
<1>3. CASE y = "first"
  BY <1>1, <1>3 DEF MayAdvance, Stop, Limit
<1>4. CASE y = "firstN"
  BY <1>1, <1>4 DEF MayAdvance, Stop, Limit
<1>. QED BY <1>2, <1>3, <1>4 DEF FirstTypes

\* An occurrence gives up when the counter it read, which only grows, stopped.
LEMMA GiveUpHolds ==
  ASSUME NEW y \in Type, NEW v \in Nat, NEW a, NEW k \in Int, NEW c \in Nat, NEW n \in Nat,
         LimitHolds(y, v, a, k), ~MayAdvance(y, c, n), y \in FirstTypes => c <= v
  PROVE  LimitHolds(y, v, a, k + 1)
<1>1. CASE y = "every"
  BY <1>1 DEF MayAdvance
<1>2. CASE y = "period"
  BY <1>2 DEF LimitHolds, FirstTypes
<1>3. CASE y \in FirstTypes
  <2>1. FirstHolds(y, v, a, k)
    BY <1>3 DEF LimitHolds
  <2>2. Stop(y) \in Nat
    BY LimitAssumption DEF Stop, Limit
  <2>3. c >= Stop(y)
    BY <1>3, <2>2, FirstAdvances
  <2>4. v = Stop(y) /\ k >= v
    BY <1>3, <2>1, <2>2, <2>3 DEF FirstHolds
  <2>5. FirstHolds(y, v, a, k + 1)
    BY <2>1, <2>4 DEF FirstHolds
  <2>. QED BY <1>3, <2>5 DEF LimitHolds, FirstTypes
<1>. QED BY <1>1, <1>2, <1>3, TypesKnown

\* What Swap stores of an admission.
After(y, a, next) == IF Admits(y, next) THEN Append(a, next) ELSE a

LEMMA SwapEvery ==
  ASSUME NEW v \in Nat, NEW a \in Seq(Nat), NEW k \in Int, EveryHolds(v, a, k)
  PROVE  LET next == Advanced("every", v, 0)
         IN next \in Nat /\ EveryHolds(next, After("every", a, next), k + 1)
<1>. DEFINE next == Advanced("every", v, 0)
<1>1. next = NextPosition(v) /\ (Admits("every", next) <=> next = 1)
  BY DEF Advanced, Admits
<1>2. Len(a) \in Nat /\ N \in Nat \ {0} /\ N <= MaxValue /\ MaxValue \in Nat
  BY LimitAssumption
<1>3. \A x \in Nat : Append(a, x) \in Seq(Nat) /\ Len(Append(a, x)) = Len(a) + 1
  OBVIOUS
<1>. HIDE DEF next
<1>4. CASE k = 0 /\ v = 0 /\ a = <<>>
  <2>1. next = 1
    BY <1>1, <1>2, <1>4, Increments DEF NextPosition
  <2>2. Len(After("every", a, next)) = 1
    BY <1>1, <1>3, <1>4, <2>1 DEF After
  <2>3. N * (Len(After("every", a, next)) - 1) = 0
    <3>1. N * (1 - 1) = 0
      BY <1>2
    <3>. QED BY <2>2, <3>1, Zenon
  <2>4. EveryHolds(next, After("every", a, next), k + 1)
    BY <1>2, <1>4, <2>1, <2>2, <2>3 DEF EveryHolds
  <2>. QED BY <2>1, <2>4 DEF next
<1>5. CASE Len(a) >= 1 /\ v \in 1 .. N /\ k = N * (Len(a) - 1) + v
  <2>1. CASE v < N
    <3>1. next = v + 1
      BY <1>1, <1>2, <2>1, Increments DEF NextPosition
    <3>2. After("every", a, next) = a
      BY <1>1, <1>5, <3>1 DEF After
    <3>3. k + 1 = N * (Len(a) - 1) + next
      BY <1>2, <1>5, <3>1
    <3>. QED BY <1>2, <1>5, <2>1, <3>1, <3>2, <3>3 DEF EveryHolds, next
  <2>2. CASE v = N
    <3>1. next = 1
      BY <1>1, <1>2, <2>2 DEF NextPosition
    <3>2. Len(After("every", a, next)) = Len(a) + 1
      BY <1>1, <1>3, <3>1 DEF After
    <3>3. N * (Len(a) - 1) + N = N * (Len(a) + 1 - 1)
      BY <1>2
    <3>. QED BY <1>2, <1>5, <2>2, <3>1, <3>2, <3>3, SMTT(30) DEF EveryHolds, next
  <2>. QED BY <1>2, <1>5, <2>1, <2>2
<1>. QED BY <1>4, <1>5 DEF EveryHolds

LEMMA SwapFirst ==
  ASSUME NEW y \in FirstTypes, NEW v \in Nat, NEW a \in Seq(Nat), NEW k \in Int,
         FirstHolds(y, v, a, k), MayAdvance(y, v, 0)
  PROVE  LET next == Advanced(y, v, 0)
         IN next = v + 1 /\ FirstHolds(y, next, After(y, a, next), k + 1)
<1>. DEFINE next == Advanced(y, v, 0)
<1>1. N \in Nat \ {0} /\ N <= MaxValue /\ MaxValue \in Nat
  BY LimitAssumption
<1>2. v < Stop(y)
  BY FirstAdvances
<1>3. next = v + 1
  <2>1. CASE y \in {"once", "first"}
    <3>1. v + 1 <= MaxValue
      BY <1>1, <1>2, <2>1 DEF Stop, Limit
    <3>. QED BY <2>1, <3>1, Increments DEF Advanced
  <2>2. CASE y = "firstN"
    BY <2>2 DEF Advanced
  <2>. QED BY <2>1, <2>2 DEF FirstTypes
<1>4. k = v
  BY <1>2 DEF FirstHolds
<1>5. Limit(y) \in Nat \ {0} /\ Stop(y) \in Nat /\ Stop(y) >= Limit(y)
      /\ (y # "firstN" => Stop(y) = Limit(y)) /\ (y = "firstN" => Limit(y) = N)
  BY <1>1 DEF Stop, Limit
<1>6. Admits(y, next) <=> v + 1 <= Limit(y)
  <2>1. CASE y = "firstN"
    BY <1>3, <1>5, <2>1 DEF Admits
  <2>2. CASE y # "firstN"
    BY <1>1, <1>2, <1>3, <1>5, <2>2 DEF Admits, FirstTypes
  <2>. QED BY <2>1, <2>2
<1>. HIDE DEF next
<1>7. After(y, a, next) = [i \in 1 .. Least(v + 1, Limit(y)) |-> i]
  <2>1. a = [i \in 1 .. Least(v, Limit(y)) |-> i]
    BY DEF FirstHolds
  <2>2. CASE v + 1 <= Limit(y)
    <3>1. Least(v, Limit(y)) = v /\ Least(v + 1, Limit(y)) = v + 1
      BY <1>5, <2>2 DEF Least
    <3>2. After(y, a, next) = Append(a, v + 1)
      BY <1>3, <1>6, <2>2 DEF After
    <3>3. a = [i \in 1 .. v |-> i] /\ Len(a) = v
      BY <2>1, <3>1
    <3>. DEFINE b == Append(a, v + 1)
                d == [i \in 1 .. v + 1 |-> i]
    <3>4. b \in Seq(Nat) /\ d \in Seq(Nat) /\ Len(b) = v + 1 /\ Len(d) = v + 1
      BY <3>3
    <3>5. \A i \in 1 .. v + 1 : b[i] = d[i]
      BY <3>3
    <3>6. b = d
      BY <3>4, <3>5, SeqEqual
    <3>. QED BY <3>1, <3>2, <3>6
  <2>3. CASE v + 1 > Limit(y)
    <3>1. Least(v, Limit(y)) = Least(v + 1, Limit(y))
      BY <1>5, <2>3 DEF Least
    <3>. QED BY <1>6, <2>1, <2>3, <1>5, <3>1 DEF After
  <2>. QED BY <2>2, <2>3, <1>5
<1>8. FirstHolds(y, next, After(y, a, next), k + 1)
  BY <1>2, <1>3, <1>4, <1>5, <1>7 DEF FirstHolds
<1>. QED BY <1>3, <1>8 DEF next

LEMMA SwapPeriod ==
  ASSUME NEW v \in Nat, NEW a \in Seq(Nat), NEW n \in Nat, n > 0,
         PeriodHolds(v, a), PeriodOver(v, n)
  PROVE  PeriodHolds(n, Append(a, n))
<1>. DEFINE b == Append(a, n)
<1>1. /\ Len(a) \in Nat /\ Len(b) = Len(a) + 1 /\ b # <<>>
      /\ \A i \in 1 .. Len(a) : b[i] = a[i]
      /\ b[Len(a) + 1] = n
  OBVIOUS
<1>2. \A i \in 1 .. Len(a) : a[i] \in Nat
  OBVIOUS
<1>3. ASSUME NEW i \in 2 .. Len(b)
      PROVE  b[i] > b[i - 1] + Period
  <2>1. CASE i <= Len(a)
    <3>1. i \in 2 .. Len(a) /\ i \in 1 .. Len(a) /\ i - 1 \in 1 .. Len(a)
      BY <1>1, <2>1
    <3>. HIDE DEF b
    <3>. QED BY <1>1, <3>1 DEF PeriodHolds
  <2>2. CASE i = Len(a) + 1
    <3>1. i - 1 = Len(a) /\ Len(a) \in 1 .. Len(a) /\ a # <<>>
      BY <1>1, <2>2
    <3>2. a[Len(a)] = v /\ v # 0
      BY <3>1 DEF PeriodHolds
    <3>3. n > v + Period
      BY <3>2 DEF PeriodOver
    <3>. HIDE DEF b
    <3>. QED BY <1>1, <2>2, <3>1, <3>2, <3>3
  <2>. QED BY <1>1, <2>1, <2>2
<1>. HIDE DEF b
<1>4. n # 0 /\ b[Len(b)] = n
  BY <1>1
<1>. QED BY <1>1, <1>3, <1>4 DEF PeriodHolds, b

LEMMA SwapHolds ==
  ASSUME NEW y \in Type, NEW v \in Nat, NEW a \in Seq(Nat), NEW k \in Int, NEW n \in Nat,
         LimitHolds(y, v, a, k), MayAdvance(y, v, n), y = "period" => n > 0
  PROVE  LET next == Advanced(y, v, n)
         IN /\ next \in Nat /\ (y \in FirstTypes => v <= next)
            /\ LimitHolds(y, next, After(y, a, next), k + 1)
<1>1. CASE y = "every"
  <2>1. Advanced(y, v, n) = Advanced("every", v, 0)
    BY <1>1 DEF Advanced
  <2>. QED BY <1>1, <2>1, SwapEvery DEF LimitHolds, FirstTypes
<1>2. CASE y \in FirstTypes
  <2>1. Advanced(y, v, n) = Advanced(y, v, 0) /\ MayAdvance(y, v, 0)
    BY <1>2 DEF Advanced, MayAdvance, FirstTypes
  <2>. QED BY <1>2, <2>1, SwapFirst DEF LimitHolds, FirstTypes
<1>3. CASE y = "period"
  <2>1. Advanced(y, v, n) = n /\ Admits(y, n) /\ PeriodOver(v, n)
    BY <1>3 DEF Advanced, Admits, MayAdvance
  <2>2. PeriodHolds(n, Append(a, n))
    BY <1>3, <2>1, SwapPeriod DEF LimitHolds
  <2>. QED BY <1>3, <2>1, <2>2 DEF LimitHolds, After, FirstTypes
<1>. QED BY <1>1, <1>2, <1>3, TypesKnown

-----------------------------------------------------------------------------
(* The steps preserve the invariant of the limits.                         *)

LEMMA BusyFinite ==
  ASSUME NEW s, NEW y
  PROVE  IsFiniteSet(BusyThreads(s, y)) /\ Cardinality(BusyThreads(s, y)) \in Nat
<1>1. BusyThreads(s, y) \subseteq Thread
  BY DEF BusyThreads
<1>. QED BY <1>1, SiteAssumption, FS_Subset, FS_CardinalityType

\* Steps after which the same threads are busy with the same.
LEMMA DecidedKept ==
  ASSUME calls' = calls, type' = type,
         \A u \in Thread :
           /\ pc'[u] \in {"load", "loop"} <=> pc[u] \in {"load", "loop"}
           /\ pc[u] \in {"load", "loop"} => loc'[u] = loc[u]
  PROVE  \A s \in Sites, y \in Type : Decided(s, y)' = Decided(s, y)
<1>1. \A s \in Sites, y \in Type : BusyThreads(s, y)' = BusyThreads(s, y)
  BY DEF BusyThreads, SiteOf
<1>. QED BY <1>1 DEF Decided

\* A lookup changes no limit, and publishes at most a fresh state where there is
\* none.
LEMMA LookupPublishes ==
  ASSUME RegistryInv, NEW t \in Thread, Lookup(t)
  PROVE  \A s \in Sites, y \in Type :
           \/ Published(s, y)' = Published(s, y)
           \/ /\ Published(s, y) = {} /\ Published(s, y)' = {found[t]}
              /\ found[t] \in State
              /\ \A r \in Sites, z \in Type : found[t] \notin Published(r, z)
<1>1. CASE UNCHANGED <<slots, overflow>>
  BY <1>1, PublishedKept
<1>2. CASE Publish(t) /\ ~UNCHANGED <<slots, overflow>>
  <2>1. pc[t] = "publish"
    BY <1>2 DEF Publish
  <2>2. SiteOf(t) \in Sites /\ type[t] \in Type /\ found[t] \in State
    BY <2>1, SiteKnown DEF RegistryInv, RegistryTypeOK, Placed, State
  <2>3. \A r \in Sites, z \in Type : found[t] \notin Published(r, z)
    BY <2>1 DEF RegistryInv, FreshState, Looking
  <2>4. /\ Published(SiteOf(t), type[t]) = {}
        /\ \/ /\ slots' = [slots EXCEPT ![SiteOf(t)] = Append(@, <<type[t], found[t]>>)]
              /\ UNCHANGED overflow
           \/ /\ overflow' = [overflow EXCEPT ![SiteOf(t)][type[t]] = found[t]]
              /\ UNCHANGED slots
    BY <1>2 DEF Publish
  <2>5. \A s \in Sites, y \in Type :
          Published(s, y)' = IF s = SiteOf(t) /\ y = type[t]
                             THEN Published(s, y) \cup {found[t]} ELSE Published(s, y)
    BY <2>2, <2>4, PublishedInSlot, PublishedInOverflow DEF RegistryInv
  <2>. QED BY <2>2, <2>3, <2>4, <2>5
<1>. QED
  BY <1>1, <1>2 DEF Lookup, FindSite, Probe, ProbesEnd, Register, LoadSlot, registry

LEMMA LookupMoves ==
  ASSUME RegistryInv, NEW t \in Thread, Lookup(t)
  PROVE  /\ type' = type
         /\ pc[t] \notin {"load", "loop"} /\ pc'[t] \notin {"load", "loop"}
         /\ \A u \in Thread \ {t} :
              pc'[u] = pc[u] /\ loc'[u] = loc[u] /\ found'[u] = found[u]
<1>1. ASSUME NEW l \in Location, FindSite(t, l)
      PROVE  /\ type' = type /\ pc[t] = "idle" /\ pc' = [pc EXCEPT ![t] = "probe"]
             /\ loc' = [loc EXCEPT ![t] = l]
             /\ found' = [found EXCEPT ![t] = lookups + 1]
  BY <1>1 DEF FindSite, Goto
<1>2. CASE Probe(t) \/ ProbesEnd(t) \/ Register(t)
  <2>1. /\ type' = type /\ loc' = loc /\ found' = found
        /\ pc[t] \in {"probe", "register"}
        /\ pc' = pc \/ \E l \in {"register", "slots"} : pc' = [pc EXCEPT ![t] = l]
    BY <1>2 DEF Probe, ProbesEnd, Register, Goto
  <2>. QED BY <2>1 DEF RegistryInv, RegistryTypeOK
<1>3. CASE LoadSlot(t) \/ Publish(t)
  <2>1. /\ type' = type /\ loc' = loc
        /\ pc[t] \in {"slots", "publish"}
        /\ pc' = pc \/ \E l \in {"publish", "use"} : pc' = [pc EXCEPT ![t] = l]
        /\ found' = found \/ \E x : found' = [found EXCEPT ![t] = x]
    BY <1>3 DEF LoadSlot, Publish, Goto
  <2>. QED BY <2>1 DEF RegistryInv, RegistryTypeOK
<1>. QED BY <1>1, <1>2, <1>3 DEF Lookup, RegistryInv, RegistryTypeOK

LEMMA LookupKeepsLimits ==
  ASSUME IInv, NEW t \in Thread, Lookup(t), UNCHANGED limits
  PROVE  LimitInv'
<1>. USE DEF IInv
<1>1. /\ value' = value /\ current' = current /\ clock' = clock /\ now' = now
      /\ calls' = calls /\ admitted' = admitted
  BY DEF limits
<1>2. \A s \in Sites, y \in Type : Decided(s, y)' = Decided(s, y)
  <2>1. \A u \in Thread :
           /\ pc'[u] \in {"load", "loop"} <=> pc[u] \in {"load", "loop"}
           /\ pc[u] \in {"load", "loop"} => loc'[u] = loc[u]
    BY LookupMoves
  <2>. QED BY <1>1, <2>1, LookupMoves, DecidedKept
<1>3. LimitTypeOK'
  BY <1>1 DEF LimitInv, LimitTypeOK
<1>4. Untouched'
  <2>1. \A s \in Sites, y \in Type : Published(s, y) \subseteq Published(s, y)'
    BY LookupPublishes
  <2>2. \A x \in State :
          (\A s \in Sites, y \in Type : x \notin Published(s, y)') => value[x] = 0
    BY <2>1 DEF LimitInv, Untouched
  <2>3. \A s \in Sites, y \in Type :
          Published(s, y)' = {} => calls[s][y] = 0 /\ admitted[s][y] = <<>>
    BY <2>1 DEF LimitInv, Untouched
  <2>. QED BY <1>1, <2>2, <2>3 DEF Untouched
<1>5. LimitsHold'
  <2>. SUFFICES ASSUME NEW s \in Sites, NEW y \in Type, NEW x \in Published(s, y)'
               PROVE  LimitHolds(y, value[x], admitted[s][y], Decided(s, y))
    BY <1>1, <1>2 DEF LimitsHold
  <2>1. CASE Published(s, y)' = Published(s, y)
    BY <2>1 DEF LimitInv, LimitsHold
  <2>2. CASE /\ Published(s, y) = {} /\ Published(s, y)' = {found[t]}
             /\ found[t] \in State
             /\ \A r \in Sites, z \in Type : found[t] \notin Published(r, z)
    <3>1. calls[s][y] = 0 /\ admitted[s][y] = <<>>
      BY <2>2 DEF LimitInv, Untouched
    <3>2. value[x] = 0
      BY <2>2 DEF LimitInv, Untouched
    <3>3. BusyThreads(s, y) = {}
      BY <2>2, UsersKnown DEF BusyThreads, Using
    <3>4. Decided(s, y) = 0
      BY <3>1, <3>3, FS_EmptySet DEF Decided
    <3>. QED BY <3>1, <3>2, <3>4, NewHolds
  <2>. QED BY <2>1, <2>2, LookupPublishes
<1>6. LoadedBefore'
  BY <1>1, LookupMoves DEF LimitInv, LoadedBefore
<1>. QED BY <1>3, <1>4, <1>5, <1>6 DEF LimitInv

\* A thread that uses a state is the user of the one state of its site and type.
LEMMA OneUsed ==
  ASSUME RegistryInv, NEW t \in Thread, pc[t] \in Using
  PROVE  /\ SiteOf(t) \in Sites /\ type[t] \in Type /\ found[t] \in State
         /\ Published(SiteOf(t), type[t]) = {found[t]}
         /\ \A s \in Sites, y \in Type :
              found[t] \in Published(s, y) => s = SiteOf(t) /\ y = type[t]
<1>1. /\ SiteOf(t) \in Sites /\ type[t] \in Type
      /\ found[t] \in Published(SiteOf(t), type[t])
  BY UsersKnown
<1>. QED BY <1>1, PublishedStates DEF RegistryInv, PublishedOnce

LEMMA OccurKeepsLimits ==
  ASSUME IInv, NEW t \in Thread, Occur(t)
  PROVE  LimitInv'
<1>. DEFINE r == SiteOf(t)
            z == type[t]
<1>1. /\ pc[t] = "use" /\ pc' = [pc EXCEPT ![t] = "load"]
      /\ now' = [now EXCEPT ![t] = IF type[t] = "period" THEN clock ELSE 0]
      /\ calls' = [calls EXCEPT ![r][z] = @ + 1]
      /\ UNCHANGED <<slots, overflow, loc, type, found, value, current, clock, admitted>>
  BY DEF Occur, Goto, registry
<1>2. r \in Sites /\ z \in Type /\ Published(r, z) = {found[t]}
  BY <1>1, OneUsed DEF IInv, Using
<1>3. \A s \in Sites, y \in Type : Published(s, y)' = Published(s, y)
  BY <1>1, PublishedKept
<1>4. LimitTypeOK'
  <2>1. now' \in [Thread -> Nat]
    BY <1>1 DEF IInv, LimitInv, LimitTypeOK
  <2>2. calls' \in [Sites -> [Type -> Nat]]
    BY <1>1, <1>2 DEF IInv, LimitInv, LimitTypeOK
  <2>. QED BY <1>1, <2>1, <2>2 DEF IInv, LimitInv, LimitTypeOK
<1>5. \A u \in Thread : /\ pc'[u] = IF u = t THEN "load" ELSE pc[u]
                        /\ now'[u] = IF u # t THEN now[u]
                                     ELSE IF z = "period" THEN clock ELSE 0
  BY <1>1 DEF IInv, RegistryInv, RegistryTypeOK, LimitInv, LimitTypeOK
<1>6. \A s \in Sites, y \in Type :
        calls'[s][y] = IF s = r /\ y = z THEN calls[s][y] + 1 ELSE calls[s][y]
  BY <1>1, <1>2 DEF IInv, LimitInv, LimitTypeOK
<1>7. \A s \in Sites, y \in Type : Decided(s, y)' = Decided(s, y)
  <2>. SUFFICES ASSUME NEW s \in Sites, NEW y \in Type
               PROVE  Decided(s, y)' = Decided(s, y)
    OBVIOUS
  <2>. DEFINE B == BusyThreads(s, y)
  <2>1. t \notin B
    BY <1>1 DEF BusyThreads
  <2>2. B' = IF s = r /\ y = z THEN B \cup {t} ELSE B
    BY <1>1, <1>5 DEF BusyThreads, SiteOf
  <2>3. IsFiniteSet(B) /\ Cardinality(B) \in Nat
    BY BusyFinite
  <2>. HIDE DEF B
  <2>4. Cardinality(B') = IF s = r /\ y = z THEN Cardinality(B) + 1 ELSE Cardinality(B)
    BY <2>1, <2>2, <2>3, FS_AddElement
  <2>5. calls[s][y] \in Nat
    BY DEF IInv, LimitInv, LimitTypeOK
  <2>. QED BY <1>6, <2>3, <2>4, <2>5 DEF Decided, B
<1>8. Untouched'
  <2>1. \A x \in State :
          (\A s \in Sites, y \in Type : x \notin Published(s, y)') => value'[x] = 0
    BY <1>1, <1>3 DEF IInv, LimitInv, Untouched
  <2>2. ASSUME NEW s \in Sites, NEW y \in Type, Published(s, y)' = {}
        PROVE  calls'[s][y] = 0 /\ admitted'[s][y] = <<>>
    <3>1. ~(s = r /\ y = z) /\ Published(s, y) = {}
      BY <1>2, <1>3, <2>2
    <3>. QED BY <1>1, <1>6, <3>1 DEF IInv, LimitInv, Untouched
  <2>. QED BY <2>1, <2>2 DEF Untouched
<1>9. LimitsHold'
  BY <1>1, <1>3, <1>7 DEF IInv, LimitInv, LimitsHold
<1>10. LoadedBefore'
  <2>1. clock \in Nat /\ clock > 0
    BY DEF IInv, LimitInv, LimitTypeOK
  <2>. QED BY <1>1, <1>5, <2>1 DEF IInv, LimitInv, LoadedBefore
<1>. QED BY <1>4, <1>8, <1>9, <1>10 DEF LimitInv

\* A load, the one of a swap that failed included.
LEMMA LoadKeepsLimits ==
  ASSUME IInv, NEW t \in Thread, pc[t] \in {"load", "loop"},
         pc' = [pc EXCEPT ![t] = "loop"],
         current' = [current EXCEPT ![t] = value[found[t]]],
         UNCHANGED <<slots, overflow, loc, type, found, value, clock, now, calls, admitted>>
  PROVE  LimitInv'
<1>1. found[t] \in State
  BY OneUsed DEF IInv, Using
<1>2. value[found[t]] \in Nat
  BY <1>1 DEF IInv, LimitInv, LimitTypeOK
<1>3. \A s \in Sites, y \in Type : Published(s, y)' = Published(s, y)
  BY PublishedKept
<1>4. LimitTypeOK'
  BY <1>2 DEF IInv, LimitInv, LimitTypeOK
<1>5. \A u \in Thread : /\ pc'[u] = IF u = t THEN "loop" ELSE pc[u]
                        /\ current'[u] = IF u = t THEN value[found[t]] ELSE current[u]
  BY DEF IInv, RegistryInv, RegistryTypeOK, LimitInv, LimitTypeOK
<1>6. \A s \in Sites, y \in Type : Decided(s, y)' = Decided(s, y)
  BY <1>5, DecidedKept
<1>7. Untouched'
  BY <1>3 DEF IInv, LimitInv, Untouched
<1>8. LimitsHold'
  BY <1>3, <1>6 DEF IInv, LimitInv, LimitsHold
<1>9. LoadedBefore'
  BY <1>2, <1>5 DEF IInv, LimitInv, LoadedBefore
<1>. QED BY <1>4, <1>7, <1>8, <1>9 DEF LimitInv

\* One occurrence more is decided when a busy thread leaves.
LEMMA LeaveDecides ==
  ASSUME IInv, NEW t \in Thread, pc[t] = "loop", Leave(t), type' = type, calls' = calls
  PROVE  \A s \in Sites, y \in Type :
           /\ Decided(s, y) \in Int
           /\ Decided(s, y)' = IF s = SiteOf(t) /\ y = type[t] THEN Decided(s, y) + 1
                               ELSE Decided(s, y)
<1>. SUFFICES ASSUME NEW s \in Sites, NEW y \in Type
             PROVE  /\ Decided(s, y) \in Int
                    /\ Decided(s, y)' = IF s = SiteOf(t) /\ y = type[t]
                                        THEN Decided(s, y) + 1 ELSE Decided(s, y)
  OBVIOUS
<1>. DEFINE B == BusyThreads(s, y)
<1>1. IsFiniteSet(B) /\ Cardinality(B) \in Nat
  BY BusyFinite
<1>2. \A u \in Thread : /\ pc'[u] = IF u = t THEN "idle" ELSE pc[u]
                        /\ u # t => loc'[u] = loc[u]
  BY DEF IInv, RegistryInv, RegistryTypeOK, Leave, Goto
<1>3. B' = B \ {t} /\ (t \in B <=> s = SiteOf(t) /\ y = type[t])
  BY <1>2 DEF BusyThreads, SiteOf
<1>. HIDE DEF B
<1>4. Cardinality(B') = IF t \in B THEN Cardinality(B) - 1 ELSE Cardinality(B)
  BY <1>1, <1>3, FS_RemoveElement
<1>5. calls[s][y] \in Nat
  BY DEF IInv, LimitInv, LimitTypeOK
<1>. QED BY <1>1, <1>3, <1>4, <1>5 DEF Decided, B

LEMMA GiveUpKeepsLimits ==
  ASSUME IInv, NEW t \in Thread, GiveUp(t)
  PROVE  LimitInv'
<1>. DEFINE r == SiteOf(t)
            z == type[t]
            x == found[t]
<1>1. /\ pc[t] = "loop" /\ ~MayAdvance(z, current[t], now[t])
      /\ Leave(t) /\ Forget(t)
      /\ UNCHANGED <<slots, overflow, type, value, clock, calls, admitted>>
  BY DEF GiveUp, registry
<1>2. /\ r \in Sites /\ z \in Type /\ x \in State
      /\ Published(r, z) = {x}
  BY <1>1, OneUsed DEF IInv, Using
<1>3. \A s \in Sites, y \in Type : Published(s, y)' = Published(s, y)
  BY <1>1, PublishedKept
<1>4. LimitTypeOK'
  BY <1>1 DEF IInv, LimitInv, LimitTypeOK, Forget
<1>5. \A u \in Thread :
        /\ pc'[u] = IF u = t THEN "idle" ELSE pc[u]
        /\ u # t => current'[u] = current[u] /\ now'[u] = now[u] /\ found'[u] = found[u]
  BY <1>1 DEF IInv, RegistryInv, RegistryTypeOK, LimitInv, LimitTypeOK, Leave, Goto, Forget
<1>6. \A s \in Sites, y \in Type :
        /\ Decided(s, y) \in Int
        /\ Decided(s, y)' = IF s = r /\ y = z THEN Decided(s, y) + 1 ELSE Decided(s, y)
  BY <1>1, LeaveDecides
<1>7. Untouched'
  BY <1>1, <1>3 DEF IInv, LimitInv, Untouched
<1>8. LimitsHold'
  <2>1. /\ value[x] \in Nat /\ current[t] \in Nat /\ now[t] \in Nat
        /\ z \in FirstTypes => current[t] <= value[x]
        /\ LimitHolds(z, value[x], admitted[r][z], Decided(r, z))
    BY <1>1, <1>2 DEF IInv, LimitInv, LimitTypeOK, LoadedBefore, LimitsHold
  <2>2. LimitHolds(z, value[x], admitted[r][z], Decided(r, z) + 1)
    BY <1>1, <1>2, <1>6, <2>1, GiveUpHolds
  <2>3. ASSUME NEW s \in Sites, NEW y \in Type, NEW w \in Published(s, y)
        PROVE  LimitHolds(y, value[w], admitted[s][y], Decided(s, y)')
    <3>1. CASE s = r /\ y = z
      BY <1>2, <1>6, <2>2, <3>1
    <3>2. CASE ~(s = r /\ y = z)
      BY <1>6, <3>2 DEF IInv, LimitInv, LimitsHold
    <3>. QED BY <3>1, <3>2
  <2>. QED BY <1>1, <1>3, <2>3 DEF LimitsHold
<1>9. LoadedBefore'
  BY <1>1, <1>5 DEF IInv, LimitInv, LoadedBefore
<1>. QED BY <1>4, <1>7, <1>8, <1>9 DEF LimitInv

LEMMA SwapKeepsLimits ==
  ASSUME IInv, NEW t \in Thread, pc[t] = "loop",
         MayAdvance(type[t], current[t], now[t]),
         value[found[t]] = current[t], Swap(t),
         UNCHANGED <<registry, type, clock, calls>>
  PROVE  LimitInv'
<1>. DEFINE r == SiteOf(t)
            z == type[t]
            x == found[t]
            a == admitted[r][z]
            next == Advanced(z, current[t], now[t])
<1>1. /\ value' = [value EXCEPT ![x] = next]
      /\ admitted' = IF ~Admits(z, next) THEN admitted
                     ELSE [admitted EXCEPT ![r][z] = Append(@, next)]
      /\ Leave(t) /\ Forget(t)
      /\ UNCHANGED <<slots, overflow>>
  BY DEF Swap, registry
<1>2. /\ r \in Sites /\ z \in Type /\ x \in State
      /\ Published(r, z) = {x}
      /\ \A s \in Sites, y \in Type : x \in Published(s, y) => s = r /\ y = z
  BY OneUsed DEF IInv, Using
<1>3. \A s \in Sites, y \in Type : Published(s, y)' = Published(s, y)
  BY <1>1, PublishedKept
<1>4. \A u \in Thread :
        /\ pc'[u] = IF u = t THEN "idle" ELSE pc[u]
        /\ u # t => current'[u] = current[u] /\ now'[u] = now[u] /\ found'[u] = found[u]
  BY <1>1 DEF IInv, RegistryInv, RegistryTypeOK, LimitInv, LimitTypeOK, Leave, Goto, Forget
<1>5. \A s \in Sites, y \in Type :
        /\ Decided(s, y) \in Int
        /\ Decided(s, y)' = IF s = r /\ y = z THEN Decided(s, y) + 1 ELSE Decided(s, y)
  BY <1>1, LeaveDecides
<1>6. /\ next \in Nat /\ (z \in FirstTypes => current[t] <= next)
      /\ LimitHolds(z, next, After(z, a, next), Decided(r, z) + 1)
  <2>1. /\ current[t] \in Nat /\ now[t] \in Nat /\ a \in Seq(Nat)
        /\ z = "period" => now[t] > 0
    BY <1>2 DEF IInv, LimitInv, LimitTypeOK, LoadedBefore
  <2>2. LimitHolds(z, current[t], a, Decided(r, z))
    <3>1. x \in Published(r, z)
      BY <1>2
    <3>. QED BY <1>2, <3>1 DEF IInv, LimitInv, LimitsHold
  <2>. HIDE DEF r, z, x, a
  <2>3. z \in Type /\ Decided(r, z) \in Int /\ MayAdvance(z, current[t], now[t])
    BY <1>2, <1>5 DEF r, z
  <2>. QED BY <2>1, <2>2, <2>3, SwapHolds
<1>. HIDE DEF next
<1>7. \A w \in State : value'[w] = IF w = x THEN next ELSE value[w]
  BY <1>1 DEF IInv, LimitInv, LimitTypeOK
<1>8. \A s \in Sites, y \in Type :
        admitted'[s][y] = IF s = r /\ y = z THEN After(z, a, next) ELSE admitted[s][y]
  BY <1>1, <1>2 DEF IInv, LimitInv, LimitTypeOK, After
<1>9. LimitTypeOK'
  <2>1. value' \in [State -> Nat]
    BY <1>1, <1>6 DEF IInv, LimitInv, LimitTypeOK
  <2>2. admitted' \in [Sites -> [Type -> Seq(Nat)]]
    BY <1>1, <1>2, <1>6 DEF IInv, LimitInv, LimitTypeOK
  <2>. QED BY <1>1, <2>1, <2>2 DEF IInv, LimitInv, LimitTypeOK, Forget
<1>10. Untouched'
  <2>1. \A w \in State :
          (\A s \in Sites, y \in Type : w \notin Published(s, y)') => value'[w] = 0
    BY <1>2, <1>3, <1>7 DEF IInv, LimitInv, Untouched
  <2>2. ASSUME NEW s \in Sites, NEW y \in Type, Published(s, y)' = {}
        PROVE  calls'[s][y] = 0 /\ admitted'[s][y] = <<>>
    <3>1. ~(s = r /\ y = z) /\ Published(s, y) = {}
      BY <1>2, <1>3, <2>2
    <3>. QED BY <1>8, <3>1 DEF IInv, LimitInv, Untouched
  <2>. QED BY <2>1, <2>2 DEF Untouched
<1>11. LimitsHold'
  <2>1. ASSUME NEW s \in Sites, NEW y \in Type, NEW w \in Published(s, y)
        PROVE  LimitHolds(y, value'[w], admitted'[s][y], Decided(s, y)')
    <3>1. CASE s = r /\ y = z
      <4>1. w = x /\ value'[w] = next
        BY <1>2, <1>7, <3>1
      <4>2. admitted'[s][y] = After(z, a, next) /\ Decided(s, y)' = Decided(r, z) + 1
        BY <1>5, <1>8, <3>1
      <4>. QED BY <1>6, <3>1, <4>1, <4>2
    <3>2. CASE ~(s = r /\ y = z)
      <4>1. w # x /\ w \in State
        BY <1>2, <3>2, PublishedStates DEF IInv, RegistryInv
      <4>2. LimitHolds(y, value[w], admitted[s][y], Decided(s, y))
        BY DEF IInv, LimitInv, LimitsHold
      <4>. QED BY <1>5, <1>7, <1>8, <3>2, <4>1, <4>2
    <3>. QED BY <3>1, <3>2
  <2>. QED BY <1>3, <2>1 DEF LimitsHold
<1>12. LoadedBefore'
  <2>1. ASSUME NEW u \in Thread, u # t, pc[u] = "loop", type[u] \in FirstTypes
        PROVE  current[u] <= value'[found[u]]
    <3>1. found[u] \in State /\ (found[u] = x => type[u] = z)
      BY <1>2, <2>1, OneUsed DEF IInv, Using
    <3>2. /\ current[u] \in Nat /\ value[found[u]] \in Nat
          /\ current[u] <= value[found[u]]
      BY <2>1, <3>1 DEF IInv, LimitInv, LimitTypeOK, LoadedBefore
    <3>. QED BY <1>6, <1>7, <2>1, <3>1, <3>2
  <2>. QED BY <1>4, <2>1 DEF IInv, LimitInv, LoadedBefore
<1>. QED BY <1>9, <1>10, <1>11, <1>12 DEF LimitInv

-----------------------------------------------------------------------------
(* Theorems.                                                               *)

LEMMA InitInductive == Init => IInv
<1>. SUFFICES ASSUME Init
             PROVE  IInv
  OBVIOUS
<1>. USE DEF Init, InitRegistry
<1>1. \A s \in Sites, y \in Type : Published(s, y) = {}
  BY DEF Published
<1>2. RegistryTypeOK
  <2>1. slots \in [Sites -> Seq(Type \X State)]
    OBVIOUS
  <2>2. overflow \in [Sites -> [Type -> State \cup {0}]]
    OBVIOUS
  <2>. QED BY <2>1, <2>2, SiteAssumption DEF RegistryTypeOK
<1>3. \A t \in Thread : pc[t] = "idle"
  OBVIOUS
<1>4. Placed /\ DestroyedKnown /\ FreshState /\ PublishedOnce /\ UsesPublished
  BY <1>1, <1>3 DEF Placed, DestroyedKnown, FreshState, PublishedOnce, UsesPublished,
                    Looking, Using
<1>5. LimitTypeOK
  BY DEF LimitTypeOK, State
<1>6. Untouched /\ LimitsHold /\ LoadedBefore
  BY <1>1, <1>3 DEF Untouched, LimitsHold, LoadedBefore, State
<1>. QED BY <1>2, <1>4, <1>5, <1>6 DEF IInv, RegistryInv, LimitInv

LEMMA NextInductive == IInv /\ [Next]_vars => IInv'
<1>. SUFFICES ASSUME IInv, [Next]_vars
             PROVE  LimitInv'
  BY RegistryKept DEF IInv
<1>1. ASSUME NEW t \in Thread, Lookup(t), UNCHANGED limits
      PROVE  LimitInv'
  BY <1>1, LookupKeepsLimits
<1>2. ASSUME NEW t \in Thread, Occur(t)
      PROVE  LimitInv'
  BY <1>2, OccurKeepsLimits
<1>3. ASSUME NEW t \in Thread, Load(t)
      PROVE  LimitInv'
  BY <1>3, LoadKeepsLimits DEF Load, Goto, registry
<1>4. ASSUME NEW t \in Thread, GiveUp(t)
      PROVE  LimitInv'
  BY <1>4, GiveUpKeepsLimits
<1>5. ASSUME NEW t \in Thread, CompareExchange(t)
      PROVE  LimitInv'
  <2>1. CASE value[found[t]] = current[t]
    BY <1>5, <2>1, SwapKeepsLimits DEF CompareExchange
  <2>2. CASE value[found[t]] # current[t]
    <3>1. pc' = [pc EXCEPT ![t] = "loop"]
      BY <1>5, <2>2, UnchangedPc DEF CompareExchange, IInv, RegistryInv
    <3>. QED BY <1>5, <2>2, <3>1, LoadKeepsLimits DEF CompareExchange, registry
  <2>. QED BY <2>1, <2>2
<1>6. CASE /\ UNCHANGED <<registry, lookup, value, current, now, calls, admitted>>
           /\ clock' \in {clock, clock + 1}
  <2>1. \A s \in Sites, y \in Type : Published(s, y)' = Published(s, y)
    BY <1>6, PublishedKept DEF registry
  <2>2. \A s \in Sites, y \in Type : Decided(s, y)' = Decided(s, y)
    BY <1>6, DecidedKept DEF lookup
  <2>3. UNCHANGED <<pc, loc, type, found, value, current, now, calls, admitted>>
    BY <1>6 DEF lookup
  <2>4. LimitTypeOK' /\ LoadedBefore'
    BY <1>6, <2>3 DEF IInv, LimitInv, LimitTypeOK, LoadedBefore
  <2>5. Untouched' /\ LimitsHold'
    BY <2>1, <2>2, <2>3 DEF IInv, LimitInv, Untouched, LimitsHold
  <2>. QED BY <2>4, <2>5 DEF LimitInv
<1>. QED BY <1>1, <1>2, <1>3, <1>4, <1>5, <1>6 DEF Next, Tick, vars, limits

\* Whatever the threads, locations, hashes and sizes of the tables, for every
\* count and period: the state of a site and type is published once, and its
\* atomic has counted what was decided.
THEOREM InductiveInvariant == Spec => []IInv
BY InitInductive, NextInductive, PTL DEF Spec

\* A thread that uses a state of a site uses the one published state of that
\* site and type, and nobody destroyed it (SiteImpl::State).
THEOREM StateIsOne == Spec => []OneState
<1>1. IInv => OneState
  BY OneUsed DEF IInv, RegistryInv, PublishedOnce, OneState, Using
<1>. QED BY <1>1, InductiveInvariant, PTL

LEMMA IdleDecided ==
  ASSUME NEW s \in Sites, NEW y \in Type, LimitTypeOK, ~Busy(s, y)
  PROVE  Decided(s, y) = calls[s][y]
<1>1. BusyThreads(s, y) = {}
  BY DEF Busy, BusyThreads
<1>2. calls[s][y] \in Nat
  BY DEF LimitTypeOK
<1>. QED BY <1>1, <1>2, FS_EmptySet DEF Decided

\* EveryN admits exactly one of every N occurrences, from the first
\* (EveryCount, AdvanceEveryN).
THEOREM EveryNIsExact == Spec => []EveryNExact
<1>1. ASSUME IInv, NEW s \in Sites, NEW y \in Type \cap {"every"}, ~Busy(s, y)
      PROVE  Count(s, y) = Ceiling(calls[s][y], N)
  <2>. DEFINE k == calls[s][y]
              a == admitted[s][y]
              L == Len(a)
  <2>1. N \in Nat \ {0} /\ k \in Nat /\ L \in Nat
    BY <1>1, LimitAssumption DEF IInv, LimitInv, LimitTypeOK
  <2>. HIDE DEF k, L
  <2>2. CASE k = 0 /\ a = <<>>
    <3>1. L = 0
      BY <2>2 DEF L
    <3>2. (0 + N - 1) \div N = 0
      BY <2>1
    <3>. QED BY <2>2, <3>1, <3>2 DEF Count, Ceiling, L, k
  <2>3. CASE \E v \in 1 .. N : k = N * (L - 1) + v
    <3>1. PICK v \in 1 .. N : k = N * (L - 1) + v
      BY <2>3
    <3>2. k + N - 1 = N * L + (v - 1)
      BY <2>1, <3>1
    <3>3. (N * L + (v - 1)) \div N = L
      BY <2>1, <3>1
    <3>. QED BY <3>2, <3>3 DEF Count, Ceiling, L, k
  <2>4. CASE Published(s, y) = {}
    BY <1>1, <2>2, <2>4 DEF IInv, LimitInv, Untouched, k
  <2>5. CASE Published(s, y) # {}
    <3>1. PICK x \in Published(s, y) : TRUE
      BY <2>5
    <3>2. EveryHolds(value[x], a, k)
      BY <1>1, IdleDecided DEF IInv, LimitInv, LimitsHold, LimitHolds, k
    <3>. QED BY <2>2, <2>3, <3>2 DEF EveryHolds, L
  <2>. QED BY <2>4, <2>5
<1>2. IInv => EveryNExact
  BY <1>1 DEF EveryNExact
<1>. QED BY <1>2, InductiveInvariant, PTL

\* FirstN admits exactly the first N, each under a number of its own, and
\* EveryN(0) exactly one; the counter stops and does not wrap (CountFirstN,
\* FirstCount, EveryCount).
THEOREM FirstNIsExact == Spec => []FirstNExact
<1>1. ASSUME IInv, NEW s \in Sites, NEW y \in Type \cap FirstTypes
      PROVE  /\ admitted[s][y] = [i \in 1 .. Count(s, y) |-> i]
             /\ Count(s, y) <= Limit(y)
             /\ ~Busy(s, y) => Count(s, y) = Least(calls[s][y], Limit(y))
  <2>. DEFINE k == calls[s][y]
              a == admitted[s][y]
  <2>1. /\ Limit(y) \in Nat \ {0} /\ Stop(y) \in Nat /\ Stop(y) >= Limit(y)
        /\ k \in Nat /\ a \in Seq(Nat)
    BY <1>1, LimitAssumption DEF IInv, LimitInv, LimitTypeOK, Limit, Stop
  <2>. HIDE DEF k
  <2>2. CASE Published(s, y) = {}
    <3>1. k = 0 /\ a = <<>>
      BY <1>1, <2>2 DEF IInv, LimitInv, Untouched, k
    <3>2. Count(s, y) = 0 /\ Least(k, Limit(y)) = 0
      BY <2>1, <3>1 DEF Count, Least
    <3>. QED BY <2>1, <3>1, <3>2 DEF k
  <2>3. CASE Published(s, y) # {}
    <3>1. PICK x \in Published(s, y) : TRUE
      BY <2>3
    <3>. DEFINE v == value[x]
                d == Decided(s, y)
    <3>2. FirstHolds(y, v, a, d)
      BY <1>1 DEF IInv, LimitInv, LimitsHold, LimitHolds
    <3>. HIDE DEF v, d
    <3>3. /\ v \in 0 .. Stop(y)
          /\ d = v \/ (v = Stop(y) /\ d >= v)
          /\ a = [i \in 1 .. Least(v, Limit(y)) |-> i]
      BY <3>2 DEF FirstHolds
    <3>4. Least(v, Limit(y)) \in Nat /\ Least(v, Limit(y)) <= Limit(y)
      BY <2>1, <3>3 DEF Least
    <3>5. Count(s, y) = Least(v, Limit(y))
      BY <3>3, <3>4 DEF Count
    <3>6. ~Busy(s, y) => d = k
      BY <1>1, IdleDecided DEF IInv, LimitInv, d, k
    <3>7. ~Busy(s, y) => Least(v, Limit(y)) = Least(k, Limit(y))
      BY <2>1, <3>3, <3>6 DEF Least
    <3>. QED BY <3>3, <3>4, <3>5, <3>7 DEF k
  <2>. QED BY <2>2, <2>3
<1>2. IInv => FirstNExact
  <2>. SUFFICES ASSUME IInv, NEW s \in Sites, NEW y \in Type \cap {"once", "first", "firstN"}
               PROVE  LET limit == IF y = "once" THEN 1 ELSE N
                      IN /\ admitted[s][y] = [i \in 1 .. Count(s, y) |-> i]
                         /\ Count(s, y) <= limit
                         /\ ~Busy(s, y) => Count(s, y) = Least(calls[s][y], limit)
    BY DEF FirstNExact
  <2>. QED BY <1>1 DEF FirstTypes, Limit
<1>. QED BY <1>2, InductiveInvariant, PTL

\* Two admissions of EveryT are more than a period apart (ClaimEveryT).
THEOREM PeriodsAreApart == Spec => []PeriodsApart
<1>1. ASSUME IInv, NEW s \in Sites, NEW y \in Type \cap {"period"}
      PROVE  \A i \in 2 .. Count(s, y) : admitted[s][y][i] > admitted[s][y][i - 1] + Period
  <2>1. CASE Published(s, y) = {}
    <3>1. Count(s, y) = 0
      BY <1>1, <2>1 DEF IInv, LimitInv, Untouched, Count
    <3>. QED BY <3>1
  <2>2. CASE Published(s, y) # {}
    <3>1. PICK x \in Published(s, y) : TRUE
      BY <2>2
    <3>2. PeriodHolds(value[x], admitted[s][y])
      BY <1>1 DEF IInv, LimitInv, LimitsHold, LimitHolds
    <3>. QED BY <3>2 DEF PeriodHolds, Count
  <2>. QED BY <2>1, <2>2
<1>2. IInv => PeriodsApart
  BY <1>1 DEF PeriodsApart
<1>. QED BY <1>2, InductiveInvariant, PTL
=============================================================================
