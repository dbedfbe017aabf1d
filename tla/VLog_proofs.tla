---------------------------- MODULE VLog_proofs -----------------------------
(***************************************************************************)
(* Proofs about VLog: a test uses a level that was in effect while it ran, *)
(* and the tests of a site use the level of one pattern.  What            *)
(* SafeFNMatch computes plays no part: it is any relation between patterns *)
(* and module names.                                                       *)
(***************************************************************************)
EXTENDS VLog, FiniteSetTheorems, WellFoundedInduction, TLAPS

AllPatterns == Patterns \cup {VModule[i][1] : i \in DOMAIN VModule}
AllLevels == Levels \cup {VModule[i][2] : i \in DOMAIN VModule}
Element == [pattern : AllPatterns, level : AllLevels]

\* The addresses of the list are those of elements, and so are the pointers.
TypeOK ==
  /\ v \in Levels
  /\ info \in Seq(Element) /\ DOMAIN VModule \subseteq DOMAIN info
  /\ list \in Seq(DOMAIN info)
  /\ inited \in BOOLEAN
  /\ level \in [Site -> Nat]
  /\ \A s \in Site : level[s] # 0 => level[s] \in DOMAIN info
  /\ hasDefault \in [Site -> BOOLEAN] /\ initialized \in [Site -> BOOLEAN]
  /\ cachedSites \subseteq Site
  /\ pc \in [Thread -> {"idle", "value", "initialized", "default", "slow"}]
  /\ site \in [Thread -> Site \cup {NoSite}]
  /\ ptr \in [Thread -> Nat]
  /\ got \in [Thread -> SUBSET AllLevels]

\* The addresses that a list holds.
In(l) == {l[i] : i \in DOMAIN l}

Matches(a, s) == SafeFNMatch(info[a].pattern, Module[s])

\* The cache of a site.  Its pointer selects an element that matches; a site
\* that is initialized without one is in cached_site_list, where AddModule
\* will find it, and nothing in the list matches it.
Cached(s) ==
  /\ level[s] # 0 => initialized[s] /\ Matches(level[s], s)
  /\ hasDefault[s] => initialized[s]
  /\ initialized[s] => inited
  /\ initialized[s] /\ level[s] = 0 => s \in cachedSites
  /\ s \in cachedSites => /\ initialized[s] /\ level[s] = 0
                          /\ Governing(list, s) = {}
CacheInv == \A s \in Site : Cached(s)

\* A test that runs has seen the level now in effect; one whose site an
\* element governed when it began will not find a default level.
Observes(t) ==
  pc[t] # "idle" => /\ site[t] \in Site
                    /\ Effective(site[t]) \in seen[t]
                    /\ governed[t] \/ v \in seen[t]
Points(t) == pc[t] = "value" => ptr[t] # 0 /\ ptr[t] = level[site[t]]
Governs(t) ==
  governed[t] /\ pc[t] \in {"initialized", "default", "slow"} =>
    Governing(Initialized2, site[t]) # {} /\ ~hasDefault[site[t]]
TestInv == \A t \in Thread : Observes(t) /\ Points(t) /\ Governs(t)

\* The element that the tests of a site used matches its module, and it is the
\* one in its cache; but for the site whose test parsed --vmodule, for which an
\* element is still to be found.
Uses(s) ==
  followed[s] # 0 =>
    /\ followed[s] \in DOMAIN info /\ Matches(followed[s], s) /\ inited
    /\ \/ followed[s] = level[s]
       \/ s = first /\ level[s] = 0 /\ Governing(list, s) # {}
UseInv == followed \in [Site -> Nat] /\ \A s \in Site : Uses(s)

IInv == TypeOK /\ CacheInv /\ TestInv /\ UseInv /\ VerdictIsCurrent

-----------------------------------------------------------------------------
(* Lookup.                                                                 *)

\* A set of indices that is not empty has a first one: of the intervals up to
\* its elements one is smallest.
LEMMA FirstIsThere ==
  ASSUME NEW S, S \subseteq Nat, S # {}
  PROVE  /\ FirstOf(S) \in S
         /\ \A j \in S : FirstOf(S) <= j
<1> DEFINE U == {0 .. k : k \in S}
<1>1. U \subseteq FiniteSubsetsOf(Nat) /\ U # {}
  <2>1. ASSUME NEW k \in S PROVE 0 .. k \in FiniteSubsetsOf(Nat)
    <3>1. IsFiniteSet(0 .. k)
      BY FS_Interval
    <3>2. 0 .. k \subseteq Nat
      OBVIOUS
    <3> QED BY <3>1, <3>2, Zenon DEF FiniteSubsetsOf
  <2> QED BY <2>1
<1>2. PICK I \in U : \A J \in U : ~ (<<J, I>> \in StrictSubsetOrdering(Nat))
  <2> HIDE DEF U
  <2> QED BY <1>1, FS_StrictSubsetOrderingWellFounded, WFMin, Zenon
<1>3. PICK x \in S : I = 0 .. x
  BY <1>2
<1>4. \A y \in S : x <= y
  <2> SUFFICES ASSUME NEW y \in S, y < x PROVE FALSE
    OBVIOUS
  <2>1. 0 .. y \in SUBSET Nat /\ 0 .. x \in SUBSET Nat /\ 0 .. y \in U
    OBVIOUS
  <2>2. 0 .. y \subseteq 0 .. x /\ 0 .. y # 0 .. x
    <3>1. x \in 0 .. x /\ x \notin 0 .. y
      OBVIOUS
    <3>2. 0 .. y \subseteq 0 .. x
      OBVIOUS
    <3> QED BY <3>1, <3>2
  <2>3. <<0 .. y, 0 .. x>> \in StrictSubsetOrdering(Nat)
    BY <2>1, <2>2 DEF StrictSubsetOrdering
  <2> QED BY <1>2, <1>3, <2>1, <2>3
<1> QED BY <1>3, <1>4 DEF FirstOf

LEMMA AddressesFit ==
  ASSUME TypeOK
  PROVE  /\ VModuleAddresses \in Seq(DOMAIN info)
         /\ Initialized2 \in Seq(DOMAIN info)
<1>1. VModuleAddresses \in Seq(DOMAIN info)
  <2> DEFINE n == Len(VModule)
  <2>1. n \in Nat /\ DOMAIN VModule = 1 .. n
    BY VModuleAssumption
  <2> HIDE DEF n
  <2>2. VModuleAddresses = [i \in 1 .. n |-> i] /\ 1 .. n \subseteq DOMAIN info
    BY <2>1 DEF TypeOK, VModuleAddresses
  <2>3. [i \in 1 .. n |-> i] \in [1 .. n -> DOMAIN info]
    BY <2>2
  <2> QED BY <2>1, <2>2, <2>3
<1>2. list \in Seq(DOMAIN info)
  BY DEF TypeOK
<1>3. ASSUME NEW S, NEW a \in Seq(S), NEW b \in Seq(S) PROVE a \o b \in Seq(S)
  OBVIOUS
<1>4. VModuleAddresses \o list \in Seq(DOMAIN info)
  BY <1>1, <1>2, <1>3, Zenon
<1> QED BY <1>1, <1>2, <1>4, Zenon DEF Initialized2

\* Lookup gives an element of the list that matches, or 0 when there is none.
LEMMA LookupFinds ==
  ASSUME TypeOK, NEW l \in Seq(DOMAIN info), NEW s \in Site
  PROVE  /\ Governing(l, s) = {} => Lookup(l, s) = 0
         /\ Governing(l, s) # {} => /\ Lookup(l, s) \in DOMAIN info
                                    /\ Lookup(l, s) \in Nat \ {0}
                                    /\ Matches(Lookup(l, s), s)
<1>1. CASE Governing(l, s) = {}
  BY <1>1 DEF Lookup
<1>2. CASE Governing(l, s) # {}
  <2> DEFINE i == FirstOf(Governing(l, s))
  <2>1. Governing(l, s) \subseteq Nat /\ Governing(l, s) \subseteq DOMAIN l
    BY DEF Governing
  <2>2. i \in Governing(l, s)
    BY <1>2, <2>1, FirstIsThere
  <2>3. l[i] \in DOMAIN info
    BY <2>1, <2>2
  <2>4. l[i] \in Nat \ {0}
    BY <2>3 DEF TypeOK
  <2>5. Matches(l[i], s)
    BY <2>2 DEF Governing, Matches
  <2>6. Lookup(l, s) = l[i]
    BY <1>2 DEF Lookup
  <2> QED BY <1>2, <2>3, <2>4, <2>5, <2>6
<1> QED BY <1>1, <1>2

LEMMA LevelFits ==
  ASSUME TypeOK, NEW a, a = 0 \/ a \in DOMAIN info
  PROVE  LevelAt(a) \in AllLevels
<1>1. CASE a = 0
  BY <1>1 DEF TypeOK, LevelAt, AllLevels
<1>2. CASE a # 0
  <2>1. info[a] \in Element
    BY <1>2 DEF TypeOK
  <2> QED BY <1>2, <2>1 DEF LevelAt, Element
<1> QED BY <1>1, <1>2

LEMMA NothingMatches ==
  ASSUME NEW l, NEW s
  PROVE  Governing(l, s) = {} <=> \A a \in In(l) : ~Matches(a, s)
BY DEF Governing, In, Matches

LEMMA InCons ==
  ASSUME NEW D, NEW l \in Seq(D), NEW a
  PROVE  In(<<a>> \o l) = {a} \cup In(l)
<1> DEFINE k == <<a>> \o l
<1>1. /\ DOMAIN k = 1 .. Len(l) + 1 /\ k[1] = a
      /\ \A i \in 1 .. Len(l) : k[i + 1] = l[i]
  OBVIOUS
<1>2. DOMAIN l = 1 .. Len(l) /\ Len(l) \in Nat
  OBVIOUS
<1> HIDE DEF k
<1>3. ASSUME NEW i \in DOMAIN k PROVE i = 1 \/ (i - 1 \in DOMAIN l /\ k[i] = l[i - 1])
  <2>1. CASE i # 1
    <3>1. i - 1 \in 1 .. Len(l) /\ (i - 1) + 1 = i
      BY <1>1, <1>2, <2>1
    <3> QED BY <1>1, <1>2, <3>1
  <2> QED BY <2>1
<1>4. 1 \in DOMAIN k /\ \A i \in DOMAIN l : i + 1 \in DOMAIN k
  BY <1>1, <1>2
<1>5. In(k) \subseteq {a} \cup In(l)
  BY <1>1, <1>3 DEF In
<1>6. {a} \cup In(l) \subseteq In(k)
  BY <1>1, <1>2, <1>4 DEF In
<1> QED BY <1>5, <1>6 DEF k

-----------------------------------------------------------------------------
(* What the steps do to the list and to the cache.                         *)

\* Elements stay where they are and keep their pattern, and none leaves the
\* list.
LEMMA ElementsStay ==
  ASSUME TypeOK, Step
  PROVE  /\ info' \in Seq(Element)
         /\ \A a \in DOMAIN info : /\ a \in DOMAIN info'
                                   /\ info'[a].pattern = info[a].pattern
         /\ list' \in Seq(DOMAIN info')
         /\ In(Initialized2) \subseteq In(Initialized2')
         /\ inited => inited'
<1>1. ASSUME NEW p \in Patterns, NEW l \in Levels, SetVLOGLevel(p, l), AddModule(p, l)
      PROVE  /\ info' \in Seq(Element)
             /\ \A a \in DOMAIN info : a \in DOMAIN info' /\ info'[a] = info[a]
             /\ list' \in Seq(DOMAIN info')
             /\ In(Initialized2) \subseteq In(list')
             /\ inited'
  <2>1. [pattern |-> p, level |-> l] \in Element
    BY DEF Element, AllPatterns, AllLevels
  <2>2. info \in Seq(Element) /\ info' = Append(info, [pattern |-> p, level |-> l])
    BY <1>1 DEF TypeOK, AddModule
  <2>3. info' \in Seq(Element) /\ DOMAIN info' = 1 .. Len(info) + 1
    BY <2>1, <2>2
  <2>4. \A a \in DOMAIN info : a \in DOMAIN info' /\ info'[a] = info[a]
    BY <2>1, <2>2
  <2>5. Initialized2 \in Seq(DOMAIN info') /\ Len(info) + 1 \in DOMAIN info'
    <3>1. \A S, T : S \subseteq T => Seq(S) \subseteq Seq(T)
      OBVIOUS
    <3>2. DOMAIN info \subseteq DOMAIN info'
      BY <2>4
    <3>3. Initialized2 \in Seq(DOMAIN info)
      BY AddressesFit
    <3>4. Len(info) + 1 \in DOMAIN info'
      BY <2>2, <2>3
    <3> QED BY <3>1, <3>2, <3>3, <3>4, Zenon
  <2>6. list' = <<Len(info) + 1>> \o Initialized2
    BY <1>1 DEF AddModule
  <2>7. list' \in Seq(DOMAIN info')
    <3>1. ASSUME NEW S, NEW a \in S, NEW b \in Seq(S) PROVE <<a>> \o b \in Seq(S)
      OBVIOUS
    <3> QED BY <2>5, <2>6, <3>1, Zenon
  <2>8. In(Initialized2) \subseteq In(list')
    BY <2>5, <2>6, InCons
  <2>9. inited'
    BY <1>1 DEF SetVLOGLevel
  <2> QED BY <2>3, <2>4, <2>7, <2>8, <2>9, Zenon
<1>2. ASSUME NEW p \in Patterns, NEW l \in Levels, SetVLOGLevel(p, l), UpdateModule(p, l)
      PROVE  /\ info' \in Seq(Element)
             /\ DOMAIN info' = DOMAIN info
             /\ \A a \in DOMAIN info : info'[a].pattern = info[a].pattern
             /\ list' = Initialized2 /\ inited'
  <2>1. info \in Seq(Element) /\ l \in AllLevels
    BY DEF TypeOK, AllLevels
  <2> DEFINE hit(a) == \E i \in Exact(p) : Initialized2[i] = a
  <2>2. info' = [a \in DOMAIN info |-> IF hit(a) THEN [info[a] EXCEPT !.level = l]
                                                  ELSE info[a]]
    BY <1>2 DEF UpdateModule
  <2> HIDE DEF hit
  <2>3. ASSUME NEW e \in Element
        PROVE  /\ [e EXCEPT !.level = l] \in Element
               /\ [e EXCEPT !.level = l].pattern = e.pattern
    BY <2>1 DEF Element
  <2>4. \A a \in DOMAIN info : info[a] \in Element
    BY <2>1
  <2>5. DOMAIN info' = DOMAIN info /\ \A a \in DOMAIN info :
          info'[a] \in Element /\ info'[a].pattern = info[a].pattern
    BY <2>2, <2>3, <2>4
  <2>6. \E n \in Nat : DOMAIN info = 1 .. n
    BY <2>1
  <2>7. info' = [a \in DOMAIN info |-> info'[a]]
    BY <2>2
  <2>8. info' \in Seq(Element)
    BY <2>5, <2>6, <2>7
  <2>9. list' = Initialized2 /\ inited'
    BY <1>2 DEF UpdateModule, SetVLOGLevel
  <2> QED BY <2>5, <2>8, <2>9
<1>3. ASSUME info' = info, inited => inited',
             (list' = list /\ inited' = inited) \/ (list' = Initialized2 /\ inited')
      PROVE  /\ list' \in Seq(DOMAIN info')
             /\ In(Initialized2) \subseteq In(Initialized2')
  BY <1>3, AddressesFit DEF TypeOK, Initialized2
<1>4. TypeOK => info \in Seq(Element)
  BY DEF TypeOK
<1>5. CASE \E p \in Patterns, l \in Levels : SetVLOGLevel(p, l)
  <2>1. PICK p \in Patterns : \E l \in Levels : SetVLOGLevel(p, l)
    BY <1>5
  <2>2. PICK l \in Levels : SetVLOGLevel(p, l)
    BY <2>1
  <2>3. CASE AddModule(p, l)
    <3>1. Initialized2' = list'
      BY <1>1, <2>2, <2>3 DEF Initialized2
    <3> QED BY <1>1, <2>2, <2>3, <3>1
  <2>4. CASE UpdateModule(p, l)
    <3>1. Initialized2' = Initialized2
      BY <1>2, <2>2, <2>4 DEF Initialized2
    <3>2. Initialized2 \in Seq(DOMAIN info')
      BY <1>2, <2>2, <2>4, AddressesFit, Zenon
    <3> QED BY <1>2, <2>2, <2>4, <3>1, <3>2, Zenon
  <2> QED BY <2>2, <2>3, <2>4 DEF SetVLOGLevel
<1>6. CASE \E l \in Levels : SetV(l)
  BY <1>3, <1>4, <1>6 DEF SetV
<1>7. CASE \E t \in Thread : \/ \E s \in Site : LoadLevel(t, s)
                             \/ LoadValue(t) \/ LoadInitialized(t) \/ LoadDefault(t)
  BY <1>3, <1>4, <1>7 DEF LoadLevel, LoadValue, LoadInitialized, LoadDefault, Shared
<1>8. CASE \E t \in Thread : InitializeVLOG3(t)
  BY <1>3, <1>4, <1>8 DEF InitializeVLOG3
<1> QED BY <1>5, <1>6, <1>7, <1>8 DEF Step

\* Where the patterns and a list say what they said, so does the cache of a
\* site that is left alone.
LEMMA StillCached ==
  ASSUME TypeOK, Step, NEW s \in Site, Cached(s),
         level'[s] = level[s], hasDefault'[s] = hasDefault[s],
         initialized'[s] = initialized[s], s \in cachedSites' <=> s \in cachedSites,
         s \in cachedSites /\ inited => Governing(list, s)' = {}
  PROVE  Cached(s)'
<1>1. inited => inited'
  BY ElementsStay
<1>2. ASSUME level[s] # 0 PROVE Matches(level[s], s)'
  <2>1. level[s] \in DOMAIN info
    BY <1>2 DEF TypeOK
  <2> QED BY <1>2, <2>1, ElementsStay DEF Cached, Matches
<1> QED BY <1>1, <1>2 DEF Cached

LEMMA AddModuleCaches ==
  ASSUME TypeOK, CacheInv, NEW p \in Patterns, NEW l \in Levels,
         SetVLOGLevel(p, l), AddModule(p, l)
  PROVE  CacheInv'
<1> DEFINE n == Len(info) + 1
<1>1. Step
  BY DEF Step
<1>2. info \in Seq(Element) /\ info' = Append(info, [pattern |-> p, level |-> l])
  BY DEF TypeOK, AddModule
<1>3. n \in Nat \ {0} /\ info'[n].pattern = p /\ n \in DOMAIN info'
  BY <1>2
<1>4. /\ level' = [s \in Site |-> IF s \in Redirected(p) THEN n ELSE level[s]]
      /\ cachedSites' = cachedSites \ Redirected(p)
      /\ hasDefault' = hasDefault /\ initialized' = initialized
      /\ list' = <<n>> \o Initialized2
      /\ inited'
  BY DEF AddModule, SetVLOGLevel
<1> HIDE DEF n
<1> SUFFICES ASSUME NEW s \in Site PROVE Cached(s)'
  BY DEF CacheInv
<1>5. Cached(s)
  BY DEF CacheInv
<1>6. CASE s \in Redirected(p)
  <2>1. s \in cachedSites /\ SafeFNMatch(p, Module[s])
    BY <1>6 DEF Redirected
  <2>2. level'[s] = n /\ s \notin cachedSites'
    BY <1>4, <1>6
  <2>3. SafeFNMatch(info'[n].pattern, Module[s])
    BY <1>3, <2>1
  <2>4. initialized[s]
    BY <1>5, <2>1 DEF Cached
  <2> QED BY <1>3, <1>4, <2>2, <2>3, <2>4 DEF Cached, Matches
<1>7. CASE s \notin Redirected(p)
  <2>1. ASSUME s \in cachedSites, inited PROVE Governing(list, s)' = {}
    <3>1. ~SafeFNMatch(p, Module[s])
      BY <1>7, <2>1 DEF Redirected
    <3>2. In(list') = {n} \cup In(list)
      <4>1. Initialized2 = list /\ list \in Seq(DOMAIN info)
        BY <2>1 DEF Initialized2, TypeOK
      <4> QED BY <1>4, <4>1, InCons
    <3>3. \A a \in In(list) : a \in DOMAIN info
      BY DEF TypeOK, In
    <3>4. \A a \in In(list) : ~Matches(a, s)
      BY <1>5, <2>1, NothingMatches DEF Cached
    <3>5. \A a \in In(list) : ~SafeFNMatch(info'[a].pattern, Module[s])
      BY <1>1, <3>3, <3>4, ElementsStay DEF Matches
    <3>6. \A a \in In(list') : ~SafeFNMatch(info'[a].pattern, Module[s])
      BY <1>3, <3>1, <3>2, <3>5
    <3> QED BY <3>6 DEF Governing, In
  <2> QED BY <1>1, <1>4, <1>5, <1>7, <2>1, StillCached
<1> QED BY <1>6, <1>7

\* The list and the patterns stay, and the cache of all sites but those in Q.
LEMMA CacheStays ==
  ASSUME TypeOK, CacheInv, Step,
         list' = list \/ list' = Initialized2, DOMAIN info' = DOMAIN info,
         NEW Q,
         \A s \in Site \ Q :
           /\ level'[s] = level[s] /\ hasDefault'[s] = hasDefault[s]
           /\ initialized'[s] = initialized[s]
           /\ s \in cachedSites' <=> s \in cachedSites
  PROVE  \A s \in Site \ Q : Cached(s)'
<1> SUFFICES ASSUME NEW s \in Site \ Q PROVE Cached(s)'
  OBVIOUS
<1>1. Cached(s)
  BY DEF CacheInv
<1>2. ASSUME s \in cachedSites, inited PROVE Governing(list, s)' = {}
  <2>1. list' = list
    BY <1>2 DEF Initialized2
  <2>2. \A a \in In(list) : a \in DOMAIN info
    BY DEF TypeOK, In
  <2>3. \A a \in In(list) : ~Matches(a, s)
    BY <1>1, <1>2, NothingMatches DEF Cached
  <2>4. \A a \in In(list) : ~SafeFNMatch(info'[a].pattern, Module[s])
    BY <2>2, <2>3, ElementsStay DEF Matches
  <2> QED BY <2>1, <2>4 DEF Governing, In
<1> QED BY <1>1, <1>2, StillCached

\* What InitializeVLOG3 puts into a cache is what governs the site.
LEMMA FillCacheCaches ==
  ASSUME TypeOK, CacheInv, NEW t \in Thread, InitializeVLOG3(t),
         NEW s \in Site, s = site[t], inited, ~initialized[s],
         FillCache(s, Lookup(Initialized2, s))
  PROVE  Cached(s)'
<1> DEFINE a == Lookup(Initialized2, s)
<1>1. /\ info' = info /\ list' = Initialized2 /\ inited'
      /\ level'[s] = a /\ hasDefault'[s] = (a = 0) /\ initialized'[s]
      /\ cachedSites' = IF a = 0 THEN cachedSites \cup {s} ELSE cachedSites
  BY DEF InitializeVLOG3, FillCache, TypeOK
<1>2. Cached(s)
  BY DEF CacheInv
<1>3. /\ Governing(Initialized2, s) = {} => a = 0
      /\ Governing(Initialized2, s) # {} => a \in Nat \ {0} /\ Matches(a, s)
  BY AddressesFit, LookupFinds
<1>4. Governing(list, s)' = Governing(Initialized2, s)
  BY <1>1 DEF Governing
<1>5. Matches(a, s) => SafeFNMatch(info'[level'[s]].pattern, Module[s])
  BY <1>1 DEF Matches
<1> HIDE DEF a
<1>6. CASE Governing(Initialized2, s) = {}
  BY <1>1, <1>3, <1>4, <1>6 DEF Cached
<1>7. CASE Governing(Initialized2, s) # {}
  <2>1. Initialized2 = list
    BY DEF Initialized2
  <2>2. s \notin cachedSites
    BY <1>2, <1>7, <2>1 DEF Cached
  <2> QED BY <1>1, <1>3, <1>5, <1>7, <2>2 DEF Cached, Matches
<1> QED BY <1>6, <1>7

LEMMA CacheKeeps ==
  ASSUME TypeOK, CacheInv, TestInv, Step
  PROVE  CacheInv'
<1>1. CASE \E p \in Patterns, l \in Levels : SetVLOGLevel(p, l)
  <2>1. PICK p \in Patterns : \E l \in Levels : SetVLOGLevel(p, l)
    BY <1>1
  <2>2. PICK l \in Levels : SetVLOGLevel(p, l)
    BY <2>1
  <2>3. CASE AddModule(p, l)
    BY <2>2, <2>3, AddModuleCaches
  <2>4. CASE UpdateModule(p, l)
    <3>1. list' = Initialized2 /\ DOMAIN info' = DOMAIN info /\ UNCHANGED cache
      BY <2>4 DEF UpdateModule
    <3>2. \A s \in Site \ {} : Cached(s)'
      BY <3>1, CacheStays DEF cache
    <3> QED BY <3>2 DEF CacheInv
  <2> QED BY <2>2, <2>3, <2>4 DEF SetVLOGLevel
<1>2. CASE UNCHANGED <<info, list, cache>>
  <2>1. \A s \in Site \ {} : Cached(s)'
    BY <1>2, CacheStays DEF cache
  <2> QED BY <2>1 DEF CacheInv
<1>3. CASE \E t \in Thread : InitializeVLOG3(t)
  <2>1. PICK t \in Thread : InitializeVLOG3(t)
    BY <1>3
  <2>2. list' = Initialized2 /\ info' = info /\ site[t] \in Site
    BY <2>1 DEF InitializeVLOG3, TestInv, Observes
  <2>3. CASE UNCHANGED cache
    <3>1. \A s \in Site \ {} : Cached(s)'
      BY <2>2, <2>3, CacheStays DEF cache
    <3> QED BY <3>1 DEF CacheInv
  <2>4. CASE inited /\ ~initialized[site[t]]
             /\ FillCache(site[t], Lookup(Initialized2, site[t]))
    <3>1. \A s \in Site \ {site[t]} :
            /\ level'[s] = level[s] /\ hasDefault'[s] = hasDefault[s]
            /\ initialized'[s] = initialized[s]
            /\ s \in cachedSites' <=> s \in cachedSites
      BY <2>4 DEF FillCache, TypeOK
    <3>2. \A s \in Site \ {site[t]} : Cached(s)'
      BY <2>2, <3>1, CacheStays
    <3>3. ASSUME NEW s \in Site, s = site[t] PROVE Cached(s)'
      BY <2>1, <2>4, <3>3, FillCacheCaches
    <3>4. ASSUME NEW s \in Site PROVE Cached(s)'
      <4>1. CASE s = site[t]
        BY <3>3, <4>1
      <4>2. CASE s # site[t]
        BY <3>2, <4>2
      <4> QED BY <4>1, <4>2
    <3> QED BY <3>4 DEF CacheInv
  <2> QED BY <2>1, <2>3, <2>4 DEF InitializeVLOG3
<1>4. ASSUME NEW t \in Thread, NEW s \in Site, LoadLevel(t, s)
      PROVE  UNCHANGED <<info, list, cache>>
  BY <1>4 DEF LoadLevel, Shared
<1>5. ASSUME NEW t \in Thread, LoadValue(t) \/ LoadInitialized(t) \/ LoadDefault(t)
      PROVE  UNCHANGED <<info, list, cache>>
  BY <1>5 DEF LoadValue, LoadInitialized, LoadDefault, Shared
<1>6. ASSUME NEW l \in Levels, SetV(l) PROVE UNCHANGED <<info, list, cache>>
  BY <1>6 DEF SetV
<1> QED BY <1>1, <1>2, <1>3, <1>4, <1>5, <1>6 DEF Step

\* SetVLOGLevel redirects only sites that follow --v, and a cache is filled
\* once.
LEMMA LevelStays ==
  ASSUME TypeOK, CacheInv, TestInv, Step, NEW s \in Site, level[s] # 0
  PROVE  level'[s] = level[s]
<1>1. s \notin cachedSites /\ initialized[s]
  BY DEF CacheInv, Cached
<1>2. CASE UNCHANGED cache
  BY <1>2 DEF cache
<1>3. ASSUME NEW p \in Patterns, NEW l \in Levels, SetVLOGLevel(p, l)
      PROVE  level'[s] = level[s]
  BY <1>1, <1>3 DEF SetVLOGLevel, AddModule, UpdateModule, Redirected, cache
<1>4. ASSUME NEW t \in Thread, InitializeVLOG3(t)
      PROVE  level'[s] = level[s]
  <2>1. CASE ~initialized[site[t]] /\ FillCache(site[t], Lookup(Initialized2, site[t]))
    BY <1>1, <2>1 DEF FillCache, TypeOK
  <2> QED BY <1>2, <1>4, <2>1 DEF InitializeVLOG3
<1>5. ASSUME NEW t \in Thread, NEW x \in Site, LoadLevel(t, x) PROVE UNCHANGED cache
  BY <1>5 DEF LoadLevel
<1>6. ASSUME NEW t \in Thread, LoadValue(t) \/ LoadInitialized(t) \/ LoadDefault(t)
      PROVE  UNCHANGED cache
  BY <1>6 DEF LoadValue, LoadInitialized, LoadDefault
<1>7. ASSUME NEW l \in Levels, SetV(l) PROVE UNCHANGED cache
  BY <1>7 DEF SetV
<1> QED BY <1>2, <1>3, <1>4, <1>5, <1>6, <1>7 DEF Step

-----------------------------------------------------------------------------
(* Types.                                                                  *)

LEMMA GovernorFits ==
  ASSUME TypeOK, NEW s \in Site
  PROVE  /\ Lookup(Initialized2, s) = 0 \/ Lookup(Initialized2, s) \in DOMAIN info
         /\ Lookup(Initialized2, s) \in Nat
         /\ Lookup(Initialized2, s) # 0 <=> Governing(Initialized2, s) # {}
BY AddressesFit, LookupFinds

LEMMA ReturnFits ==
  ASSUME TypeOK, NEW t \in Thread, NEW a, LevelAt(a) \in AllLevels, Return(t, a)
  PROVE  /\ pc' \in [Thread -> {"idle", "value", "initialized", "default", "slow"}]
         /\ got' \in [Thread -> SUBSET AllLevels]
<1>1. {LevelAt(a)} \in SUBSET AllLevels
  OBVIOUS
<1>2. pc' = [pc EXCEPT ![t] = "idle"] /\ got' = [got EXCEPT ![t] = {LevelAt(a)}]
  BY DEF Return
<1> QED BY <1>1, <1>2 DEF TypeOK

LEMMA TypeKeeps ==
  ASSUME TypeOK, TestInv, Step
  PROVE  TypeOK'
<1>1. /\ info' \in Seq(Element) /\ DOMAIN info \subseteq DOMAIN info'
      /\ list' \in Seq(DOMAIN info')
  BY ElementsStay
<1>2. DOMAIN VModule \subseteq DOMAIN info'
  BY <1>1 DEF TypeOK
<1>3. Len(info) + 1 \in Nat
  BY DEF TypeOK
<1>4. CASE \E p \in Patterns, l \in Levels : SetVLOGLevel(p, l)
  <2>1. PICK p \in Patterns : \E l \in Levels : SetVLOGLevel(p, l)
    BY <1>4
  <2>2. PICK l \in Levels : SetVLOGLevel(p, l)
    BY <2>1
  <2>3. v' = v /\ inited' = TRUE /\ UNCHANGED tests
    BY <2>2 DEF SetVLOGLevel
  <2>4. CASE UNCHANGED cache
    BY <1>1, <1>2, <2>3, <2>4 DEF TypeOK, cache, tests
  <2>5. CASE AddModule(p, l)
    <3>1. Len(info) + 1 \in DOMAIN info'
      BY <2>5 DEF AddModule, TypeOK
    <3>2. /\ level' \in [Site -> Nat]
          /\ \A s \in Site : level'[s] # 0 => level'[s] \in DOMAIN info'
          /\ UNCHANGED <<hasDefault, initialized>> /\ cachedSites' \subseteq Site
      BY <1>1, <1>3, <2>5, <3>1 DEF AddModule, TypeOK
    <3> QED BY <1>1, <1>2, <2>3, <3>2 DEF TypeOK, tests
  <2> QED BY <2>2, <2>4, <2>5 DEF SetVLOGLevel, UpdateModule
<1>5. CASE \E l \in Levels : SetV(l)
  BY <1>5 DEF SetV, TypeOK, cache, tests
<1>6. ASSUME NEW t \in Thread, NEW s \in Site, LoadLevel(t, s) PROVE TypeOK'
  BY <1>6 DEF LoadLevel, TypeOK, cache, Shared
<1>7. ASSUME NEW t \in Thread, LoadValue(t) PROVE TypeOK'
  <2>1. site[t] \in Site /\ ptr[t] # 0 /\ ptr[t] = level[site[t]]
    BY <1>7 DEF LoadValue, TestInv, Observes, Points
  <2>2. ptr[t] \in DOMAIN info
    BY <2>1 DEF TypeOK
  <2>3. LevelAt(ptr[t]) \in AllLevels
    BY <2>2, LevelFits
  <2>4. Return(t, ptr[t]) /\ UNCHANGED <<Shared, cache, site, ptr>>
    BY <1>7 DEF LoadValue
  <2>5. /\ pc' \in [Thread -> {"idle", "value", "initialized", "default", "slow"}]
        /\ got' \in [Thread -> SUBSET AllLevels]
    BY <2>3, <2>4, ReturnFits
  <2> QED BY <2>4, <2>5 DEF TypeOK, cache, Shared
<1>8. ASSUME NEW t \in Thread, LoadInitialized(t) PROVE TypeOK'
  BY <1>8 DEF LoadInitialized, TypeOK, cache, Shared
<1>9. ASSUME NEW t \in Thread, LoadDefault(t) PROVE TypeOK'
  <2>1. LevelAt(0) \in AllLevels
    BY LevelFits
  <2>2. Return(t, 0) => TypeOK'
    <3> SUFFICES ASSUME Return(t, 0) PROVE TypeOK'
      OBVIOUS
    <3>1. /\ pc' \in [Thread -> {"idle", "value", "initialized", "default", "slow"}]
          /\ got' \in [Thread -> SUBSET AllLevels]
      BY <2>1, ReturnFits
    <3> QED BY <1>9, <3>1 DEF LoadDefault, TypeOK, cache, Shared
  <2> QED BY <1>9, <2>2 DEF LoadDefault, TypeOK, cache, Shared
<1>10. ASSUME NEW t \in Thread, InitializeVLOG3(t) PROVE TypeOK'
  <2> DEFINE a == Lookup(Initialized2, site[t])
  <2>1. site[t] \in Site
    BY <1>10 DEF InitializeVLOG3, TestInv, Observes
  <2>2. (a = 0 \/ a \in DOMAIN info) /\ a \in Nat
    BY <2>1, GovernorFits
  <2>3. LevelAt(a) \in AllLevels /\ LevelAt(level[site[t]]) \in AllLevels
    BY <2>1, <2>2, LevelFits DEF TypeOK
  <2> HIDE DEF a
  <2>4. UNCHANGED <<v, info, site, ptr>> /\ inited' = TRUE
    BY <1>10 DEF InitializeVLOG3
  <2>5. UNCHANGED cache \/ FillCache(site[t], a)
    BY <1>10 DEF InitializeVLOG3, a
  <2>6. Return(t, level[site[t]]) \/ Return(t, a)
    BY <1>10 DEF InitializeVLOG3, a
  <2>7. /\ pc' \in [Thread -> {"idle", "value", "initialized", "default", "slow"}]
        /\ got' \in [Thread -> SUBSET AllLevels]
    BY <2>3, <2>6, ReturnFits
  <2>8. /\ level' \in [Site -> Nat]
        /\ \A s \in Site : level'[s] # 0 => level'[s] \in DOMAIN info
        /\ hasDefault' \in [Site -> BOOLEAN] /\ initialized' \in [Site -> BOOLEAN]
        /\ cachedSites' \subseteq Site
    <3>1. CASE UNCHANGED cache
      BY <3>1 DEF cache, TypeOK
    <3>2. CASE FillCache(site[t], a)
      <4>1. (a = 0) \in BOOLEAN
        BY Zenon
      <4>2. level' \in [Site -> Nat] /\ initialized' \in [Site -> BOOLEAN]
        BY <2>2, <3>2 DEF FillCache, TypeOK
      <4>3. \A s \in Site : level'[s] # 0 => level'[s] \in DOMAIN info
        BY <2>1, <2>2, <3>2 DEF FillCache, TypeOK
      <4>4. hasDefault' \in [Site -> BOOLEAN]
        <5>1. hasDefault \in [Site -> BOOLEAN]
          BY DEF TypeOK
        <5>2. hasDefault' = [hasDefault EXCEPT ![site[t]] = (a = 0)]
          BY <3>2 DEF FillCache
        <5> QED BY <4>1, <5>1, <5>2
      <4>5. cachedSites' \subseteq Site
        BY <2>1, <3>2 DEF FillCache, TypeOK
      <4> QED BY <4>2, <4>3, <4>4, <4>5
    <3> QED BY <2>5, <3>1, <3>2
  <2> QED BY <1>1, <1>2, <2>4, <2>7, <2>8 DEF TypeOK
<1> QED BY <1>4, <1>5, <1>6, <1>7, <1>8, <1>9, <1>10 DEF Step

-----------------------------------------------------------------------------
(* The tests.                                                              *)

\* Where the steps of the tests lead; `got` changes with the step of a test.
LEMMA TestsMove ==
  ASSUME TypeOK, TestInv, Step, NEW t \in Thread
  PROVE  \/ /\ pc'[t] = pc[t] /\ site'[t] = site[t] /\ ptr'[t] = ptr[t]
            /\ got'[t] = got[t]
         \/ \E s \in Site : LoadLevel(t, s)
         \/ LoadValue(t) \/ LoadInitialized(t) \/ LoadDefault(t)
         \/ InitializeVLOG3(t)
<1> DEFINE Stays == /\ pc'[t] = pc[t] /\ site'[t] = site[t] /\ ptr'[t] = ptr[t]
                    /\ got'[t] = got[t]
<1>1. CASE UNCHANGED tests
  BY <1>1 DEF tests
<1>2. ASSUME NEW u \in Thread, u # t, NEW s \in Site, LoadLevel(u, s) PROVE Stays
  BY <1>2 DEF LoadLevel, TypeOK
<1>3. ASSUME NEW u \in Thread, u # t, LoadValue(u) PROVE Stays
  BY <1>3 DEF LoadValue, Return, TypeOK
<1>4. ASSUME NEW u \in Thread, u # t, LoadInitialized(u) PROVE Stays
  BY <1>4 DEF LoadInitialized, TypeOK
<1>5. ASSUME NEW u \in Thread, u # t, LoadDefault(u) PROVE Stays
  BY <1>5 DEF LoadDefault, Return, TypeOK
<1>6. ASSUME NEW u \in Thread, u # t, InitializeVLOG3(u) PROVE Stays
  <2>1. UNCHANGED <<site, ptr>> /\ \E l : Return(u, l)
    BY <1>6 DEF InitializeVLOG3
  <2> QED BY <1>6, <2>1 DEF Return, TypeOK
<1>7. ASSUME NEW p \in Patterns, NEW l \in Levels, SetVLOGLevel(p, l)
      PROVE  UNCHANGED tests
  BY <1>7 DEF SetVLOGLevel
<1>8. ASSUME NEW l \in Levels, SetV(l) PROVE UNCHANGED tests
  BY <1>8 DEF SetV
<1> QED BY <1>1, <1>2, <1>3, <1>4, <1>5, <1>6, <1>7, <1>8 DEF Step

\* The history holds the level in effect after each step of a test, and only
\* the beginning of a test clears it.
LEMMA Observed ==
  ASSUME Observe, NEW t \in Thread
  PROVE  /\ pc'[t] # "idle" => /\ Effective(site[t])' \in seen'[t]
                               /\ governed'[t] \/ v' \in seen'[t]
         /\ pc[t] # "idle" \/ pc'[t] = "idle" => seen[t] \subseteq seen'[t]
         /\ governed'[t] = IF pc[t] = "idle" /\ pc'[t] # "idle"
                           THEN Governor(site'[t]) # 0 ELSE governed[t]
BY DEF Observe

\* What governs a site goes on doing so.
LEMMA GoverningStays ==
  ASSUME TypeOK, Step, NEW s \in Site, Governing(Initialized2, s) # {}
  PROVE  Governing(Initialized2, s)' # {}
<1>1. PICK a \in In(Initialized2) : Matches(a, s)
  BY NothingMatches
<1>2. a \in DOMAIN info
  BY AddressesFit DEF In
<1>3. a \in In(Initialized2') /\ SafeFNMatch(info'[a].pattern, Module[s])
  BY <1>1, <1>2, ElementsStay DEF Matches
<1>4. PICK i \in DOMAIN Initialized2' : Initialized2'[i] = a
  BY <1>3 DEF In
<1>5. i \in Governing(Initialized2, s)'
  BY <1>3, <1>4 DEF Governing
<1> QED BY <1>5

\* A site that an element governs gets no default level.
LEMMA NoDefaultComes ==
  ASSUME TypeOK, TestInv, Step, NEW s \in Site,
         Governing(Initialized2, s) # {}, ~hasDefault[s]
  PROVE  ~hasDefault'[s]
<1>1. ASSUME NEW t \in Thread, InitializeVLOG3(t)
      PROVE  ~hasDefault'[s]
  <2>1. CASE FillCache(site[t], Lookup(Initialized2, site[t]))
    <3>1. Lookup(Initialized2, s) # 0
      BY GovernorFits
    <3> QED BY <2>1, <3>1 DEF FillCache, TypeOK
  <2> QED BY <1>1, <2>1 DEF InitializeVLOG3, cache
<1>2. ASSUME NEW p \in Patterns, NEW l \in Levels, SetVLOGLevel(p, l)
      PROVE  UNCHANGED hasDefault
  BY <1>2 DEF SetVLOGLevel, AddModule, UpdateModule, cache
<1>3. ASSUME NEW t \in Thread, NEW x \in Site, LoadLevel(t, x) PROVE UNCHANGED hasDefault
  BY <1>3 DEF LoadLevel, cache
<1>4. ASSUME NEW t \in Thread, LoadValue(t) \/ LoadInitialized(t) \/ LoadDefault(t)
      PROVE  UNCHANGED hasDefault
  BY <1>4 DEF LoadValue, LoadInitialized, LoadDefault, cache
<1>5. ASSUME NEW l \in Levels, SetV(l) PROVE UNCHANGED hasDefault
  BY <1>5 DEF SetV, cache
<1> QED BY <1>1, <1>2, <1>3, <1>4, <1>5 DEF Step

\* A test begins where an element governs: the site has no default level.
LEMMA NoDefaultAtFirst ==
  ASSUME TypeOK, CacheInv, NEW s \in Site, level[s] = 0, Governor(s) # 0
  PROVE  Governing(Initialized2, s) # {} /\ ~hasDefault[s]
<1>1. Governing(Initialized2, s) # {}
  BY GovernorFits DEF Governor
<1>2. ASSUME hasDefault[s] PROVE FALSE
  <2>1. initialized[s] /\ inited /\ s \in cachedSites
    BY <1>2 DEF CacheInv, Cached
  <2>2. Governing(Initialized2, s) = {}
    BY <2>1 DEF CacheInv, Cached, Initialized2
  <2> QED BY <1>1, <2>2
<1> QED BY <1>1, <1>2

LEMMA GovernsStays ==
  ASSUME TypeOK, TestInv, Step, Observe, NEW t \in Thread,
         pc[t] \in {"initialized", "default", "slow"}, site'[t] = site[t], governed'[t]
  PROVE  Governing(Initialized2, site[t])' # {} /\ ~hasDefault'[site'[t]]
<1>1. governed[t] /\ site[t] \in Site
  BY Observed DEF TestInv, Observes
<1>2. Governing(Initialized2, site[t]) # {} /\ ~hasDefault[site[t]]
  BY <1>1 DEF TestInv, Governs
<1>3. \A s \in Site : Governing(Initialized2, s) # {} => Governing(Initialized2, s)' # {}
  BY GoverningStays
<1>4. \A s \in Site : s = site[t] => Governing(Initialized2, s)' # {} /\ ~hasDefault'[s]
  BY <1>2, <1>3, NoDefaultComes
<1>5. site'[t] \in Site /\ site'[t] = site[t]
  BY <1>1
<1> QED BY <1>1, <1>4, <1>5 DEF Governing

LEMMA TestsKeep ==
  ASSUME TypeOK, CacheInv, TestInv, Step, Observe
  PROVE  TestInv'
<1> SUFFICES ASSUME NEW t \in Thread PROVE (Observes(t) /\ Points(t) /\ Governs(t))'
  BY DEF TestInv
<1>1. Observes(t) /\ Points(t) /\ Governs(t)
  BY DEF TestInv
<1>2. pc'[t] # "idle" /\ site'[t] \in Site => Observes(t)'
  BY Observed DEF Observes
<1>3. CASE pc'[t] = "idle"
  BY <1>3 DEF Observes, Points, Governs
<1>4. CASE /\ pc'[t] = pc[t] /\ site'[t] = site[t] /\ ptr'[t] = ptr[t]
           /\ pc'[t] # "idle"
  <2>1. site[t] \in Site
    BY <1>1, <1>4 DEF Observes
  <2>2. Points(t)'
    BY <1>1, <1>4, <2>1, LevelStays DEF Points
  <2>3. Governs(t)'
    BY <1>4, GovernsStays DEF Governs
  <2> QED BY <1>2, <1>4, <2>1, <2>2, <2>3
<1>5. ASSUME NEW s \in Site, LoadLevel(t, s)
      PROVE  (Observes(t) /\ Points(t) /\ Governs(t))'
  <2>1. /\ pc[t] = "idle" /\ site'[t] = s /\ ptr'[t] = level[s] /\ level' = level
        /\ hasDefault' = hasDefault /\ info' = info /\ Initialized2' = Initialized2
        /\ pc'[t] = IF level[s] # 0 THEN "value" ELSE "initialized"
    BY <1>5 DEF LoadLevel, TypeOK, cache, Shared, Initialized2
  <2>2. governed'[t] => Governor(s) # 0
    BY <2>1, Observed
  <2>3. ASSUME level[s] = 0, governed'[t]
        PROVE  Governing(Initialized2, s)' # {} /\ ~hasDefault'[s]
    <3>1. Governing(Initialized2, s) # {} /\ ~hasDefault[s]
      BY <2>2, <2>3, NoDefaultAtFirst
    <3> QED BY <2>1, <3>1 DEF Governing
  <2>4. Points(t)'
    BY <2>1 DEF Points
  <2>5. Governs(t)'
    BY <2>1, <2>3 DEF Governs, Governing
  <2> QED BY <1>2, <2>1, <2>4, <2>5
<1>6. CASE LoadInitialized(t)
  <2>1. /\ pc[t] = "initialized" /\ site'[t] = site[t]
        /\ pc'[t] \in {"default", "slow"}
    BY <1>6 DEF LoadInitialized, TypeOK
  <2>2. site[t] \in Site
    BY <1>1, <2>1 DEF Observes
  <2>3. Points(t)'
    BY <2>1 DEF Points
  <2>4. Governs(t)'
    BY <2>1, GovernsStays DEF Governs
  <2> QED BY <1>2, <2>1, <2>2, <2>3, <2>4
<1>7. CASE LoadValue(t) \/ InitializeVLOG3(t)
  <2>1. pc'[t] = "idle"
    BY <1>7 DEF LoadValue, InitializeVLOG3, Return, TypeOK
  <2> QED BY <1>3, <2>1
<1>8. CASE LoadDefault(t)
  <2>1. CASE Return(t, 0)
    <3>1. pc'[t] = "idle"
      BY <2>1 DEF Return, TypeOK
    <3> QED BY <1>3, <3>1
  <2>2. CASE UNCHANGED <<pc, got>>
    <3>1. pc'[t] = pc[t] /\ site'[t] = site[t] /\ ptr'[t] = ptr[t]
      BY <1>8, <2>2 DEF LoadDefault
    <3> QED BY <1>3, <1>4, <3>1
  <2> QED BY <1>8, <2>1, <2>2 DEF LoadDefault
<1> QED BY <1>3, <1>4, <1>5, <1>6, <1>7, <1>8, TestsMove

\* Whatever a test returns is in effect at that moment, or it is --v and was
\* in effect when the test began.
LEMMA VerdictKeeps ==
  ASSUME TypeOK, CacheInv, TestInv, VerdictIsCurrent, Step, Observe
  PROVE  VerdictIsCurrent'
<1> SUFFICES ASSUME NEW t \in Thread PROVE got'[t] \subseteq seen'[t]
  BY DEF VerdictIsCurrent
<1>1. got[t] \subseteq seen[t]
  BY DEF VerdictIsCurrent
<1>2. Observes(t) /\ Points(t) /\ Governs(t)
  BY DEF TestInv
<1>3. ASSUME NEW b, LevelAt(b) \in seen[t], pc[t] # "idle", Return(t, b)
      PROVE  got'[t] \subseteq seen'[t]
  BY <1>3, Observed DEF Return, TypeOK
<1>4. CASE pc'[t] = pc[t] /\ got'[t] = got[t]
  BY <1>1, <1>4, Observed
<1>5. ASSUME NEW s \in Site, LoadLevel(t, s) PROVE got'[t] \subseteq seen'[t]
  BY <1>5 DEF LoadLevel, TypeOK
<1>6. CASE LoadValue(t)
  <2>1. /\ pc[t] = "value" /\ Return(t, ptr[t])
        /\ site[t] \in Site /\ ptr[t] # 0 /\ ptr[t] = level[site[t]]
    BY <1>2, <1>6 DEF LoadValue, Observes, Points
  <2>2. Effective(site[t]) = LevelAt(ptr[t])
    BY <2>1 DEF Effective, Governor
  <2> QED BY <1>2, <1>3, <2>1, <2>2 DEF Observes
<1>7. CASE LoadInitialized(t)
  <2>1. pc[t] # "idle" /\ got'[t] = got[t]
    BY <1>7 DEF LoadInitialized, TypeOK
  <2> QED BY <1>1, <2>1, Observed
<1>8. CASE LoadDefault(t)
  <2>1. pc[t] = "default"
    BY <1>8 DEF LoadDefault
  <2>2. CASE hasDefault[site[t]] /\ Return(t, 0)
    <3>1. LevelAt(0) \in seen[t]
      BY <1>2, <2>1, <2>2 DEF Observes, Governs, LevelAt
    <3> QED BY <1>3, <2>1, <2>2, <3>1
  <2>3. CASE UNCHANGED <<pc, got>>
    BY <1>4, <2>3
  <2> QED BY <1>8, <2>2, <2>3 DEF LoadDefault
<1>9. CASE InitializeVLOG3(t)
  <2> DEFINE s == site[t]
             a == Lookup(Initialized2, s)
  <2>1. pc[t] = "slow" /\ s \in Site /\ Effective(s) \in seen[t]
    BY <1>2, <1>9 DEF InitializeVLOG3, Observes
  <2>2. Cached(s)
    BY <2>1 DEF CacheInv
  <2>3. CASE initialized[s] /\ Return(t, level[s])
    <3>1. CASE level[s] # 0
      <4>1. Effective(s) = LevelAt(level[s])
        BY <3>1 DEF Effective, Governor
      <4> QED BY <1>3, <2>1, <2>3, <4>1
    <3>2. CASE level[s] = 0
      <4>1. Governing(Initialized2, s) = {}
        BY <2>2, <2>3, <3>2 DEF Cached, Initialized2
      <4>2. a = 0
        BY <4>1 DEF Lookup
      <4>3. Effective(s) = LevelAt(level[s])
        BY <3>2, <4>2 DEF Effective, Governor
      <4> QED BY <1>3, <2>1, <2>3, <4>3
    <3> QED BY <3>1, <3>2
  <2>4. CASE ~initialized[s] /\ Return(t, a)
    <3>1. Effective(s) = LevelAt(a)
      BY <2>2, <2>4 DEF Effective, Governor, Cached
    <3> QED BY <1>3, <2>1, <2>4, <3>1
  <2> QED BY <1>9, <2>3, <2>4 DEF InitializeVLOG3
<1> QED BY <1>4, <1>5, <1>6, <1>7, <1>8, <1>9, TestsMove

-----------------------------------------------------------------------------
(* What the tests have used.                                               *)

\* A step that leaves the cache of a site and the element it used alone.
LEMMA UseKept ==
  ASSUME TypeOK, CacheInv, TestInv, UseInv, Step, NEW s \in Site,
         followed'[s] = followed[s], first' = first \/ ~inited,
         level'[s] = level[s] \/ s \in cachedSites
  PROVE  Uses(s)'
<1> SUFFICES ASSUME followed'[s] # 0 PROVE Uses(s)'
  BY DEF Uses
<1>1. /\ followed[s] \in DOMAIN info /\ Matches(followed[s], s) /\ inited
      /\ \/ followed[s] = level[s]
         \/ s = first /\ level[s] = 0 /\ Governing(list, s) # {}
  BY DEF UseInv, Uses
<1>2. followed'[s] \in DOMAIN info' /\ Matches(followed[s], s)' /\ inited'
  BY <1>1, ElementsStay DEF Matches
<1>3. CASE followed[s] = level[s]
  BY <1>2, <1>3, LevelStays DEF Uses, Matches
<1>4. CASE s = first /\ level[s] = 0 /\ Governing(list, s) # {}
  <2>1. s \notin cachedSites
    BY <1>4 DEF CacheInv, Cached
  <2>2. Governing(Initialized2, s)' # {}
    BY <1>1, <1>4, GoverningStays DEF Initialized2
  <2>3. Governing(list, s)' # {}
    BY <1>2, <2>2 DEF Initialized2, Governing
  <2> QED BY <1>1, <1>2, <1>4, <2>1, <2>3 DEF Uses, Matches
<1> QED BY <1>1, <1>3, <1>4

\* The test of t at site s uses element a of the cache.
LEMMA UsedCache ==
  ASSUME TypeOK, CacheInv, Step, NEW s \in Site, level[s] # 0, TestInv,
         followed'[s] = level[s]
  PROVE  Uses(s)'
<1>1. level'[s] = level[s]
  BY LevelStays
<1>2. initialized[s] /\ inited /\ Matches(level[s], s) /\ level[s] \in DOMAIN info
  BY DEF CacheInv, Cached, TypeOK
<1>3. /\ level[s] \in DOMAIN info' /\ inited'
      /\ SafeFNMatch(info'[level[s]].pattern, Module[s])
  BY <1>2, ElementsStay DEF Matches
<1> QED BY <1>1, <1>3 DEF Uses, Matches

\* Two outcomes of a step for the element a site used: it stays, or it is the
\* element that a slow test found when the cache was empty, or that of the cache.
LEMMA FollowedMoves ==
  ASSUME TypeOK, CacheInv, TestInv, UseInv, Step, NEW s \in Site
  PROVE  \/ /\ followed'[s] = followed[s] /\ (first' = first \/ ~inited)
            /\ level'[s] = level[s] \/ s \in cachedSites
         \/ level[s] # 0 /\ followed'[s] = level[s]
         \/ \E t \in Thread :
              /\ InitializeVLOG3(t) /\ site[t] = s
              /\ ~initialized[s] /\ followed'[s] # 0
              /\ followed'[s] = Lookup(Initialized2, s)
<1> DEFINE Kept == /\ followed'[s] = followed[s] /\ (first' = first \/ ~inited)
                   /\ level'[s] = level[s] \/ s \in cachedSites
           Found == \E t \in Thread :
                      /\ InitializeVLOG3(t) /\ site[t] = s
                      /\ ~initialized[s] /\ followed'[s] # 0
                      /\ followed'[s] = Lookup(Initialized2, s)
<1> HIDE DEF Kept, Found
<1>1. CASE UNCHANGED <<cache, uses>>
  BY <1>1 DEF Kept, cache, uses
<1>2. ASSUME NEW p \in Patterns, NEW l \in Levels, SetVLOGLevel(p, l) PROVE Kept
  <2>1. UNCHANGED uses
    BY <1>2 DEF SetVLOGLevel
  <2>2. level'[s] = level[s] \/ s \in cachedSites
    BY <1>2 DEF SetVLOGLevel, AddModule, UpdateModule, Redirected, cache
  <2> QED BY <2>1, <2>2 DEF uses, Kept
<1>3. ASSUME NEW l \in Levels, SetV(l) PROVE UNCHANGED <<cache, uses>>
  BY <1>3 DEF SetV
<1>4. ASSUME NEW t \in Thread, NEW x \in Site, LoadLevel(t, x)
      PROVE  UNCHANGED <<cache, uses>>
  BY <1>4 DEF LoadLevel
<1>5. ASSUME NEW t \in Thread, LoadInitialized(t) PROVE UNCHANGED <<cache, uses>>
  BY <1>5 DEF LoadInitialized
<1>6. ASSUME NEW t \in Thread, LoadDefault(t) PROVE UNCHANGED <<cache, uses>>
  BY <1>6 DEF LoadDefault, Return, uses
<1>7. ASSUME NEW t \in Thread, LoadValue(t)
      PROVE  Kept \/ (level[s] # 0 /\ followed'[s] = level[s])
  <2>1. Return(t, ptr[t]) /\ level' = level /\ first' = first
    BY <1>7 DEF LoadValue, cache
  <2>2. ptr[t] # 0 /\ ptr[t] = level[site[t]] /\ site[t] \in Site
    BY <1>7 DEF LoadValue, TestInv, Points, Observes
  <2>3. followed' = [followed EXCEPT ![site[t]] = ptr[t]] /\ followed \in [Site -> Nat]
    BY <2>1, <2>2 DEF Return, UseInv
  <2>4. CASE s = site[t]
    BY <2>2, <2>3, <2>4
  <2>5. CASE s # site[t]
    <3>1. followed'[s] = followed[s]
      BY <2>3, <2>5
    <3> QED BY <2>1, <3>1 DEF Kept
  <2> QED BY <2>4, <2>5
<1>8. ASSUME NEW t \in Thread, InitializeVLOG3(t)
      PROVE  Kept \/ Found \/ (level[s] # 0 /\ followed'[s] = level[s])
  <2> DEFINE x == site[t]
             a == Lookup(Initialized2, x)
  <2>1. /\ x \in Site /\ (first' = first \/ ~inited)
        /\ followed \in [Site -> Nat] /\ level \in [Site -> Nat]
    BY <1>8 DEF InitializeVLOG3, TestInv, Observes, UseInv, TypeOK
  <2>2. ASSUME NEW b, Return(t, b)
        PROVE  /\ s # x \/ b = 0 => followed'[s] = followed[s]
               /\ s = x /\ b # 0 => followed'[s] = b
    BY <2>1, <2>2 DEF Return
  <2>3. CASE initialized[x] /\ Return(t, level[x]) /\ UNCHANGED cache
    <3>1. level'[s] = level[s]
      BY <2>3 DEF cache
    <3>2. CASE s # x \/ level[x] = 0
      BY <2>1, <2>2, <2>3, <3>1, <3>2 DEF Kept
    <3>3. CASE s = x /\ level[x] # 0
      BY <2>2, <2>3, <3>3
    <3> QED BY <3>2, <3>3
  <2>4. /\ ~initialized[x] /\ Return(t, a)
        /\ IF inited THEN FillCache(x, a) ELSE UNCHANGED cache
        => Kept \/ Found
    <3> HIDE DEF a
    <3> SUFFICES ASSUME ~initialized[x], Return(t, a),
                        IF inited THEN FillCache(x, a) ELSE UNCHANGED cache
                 PROVE  Kept \/ Found
      OBVIOUS
    <3>1. level'[s] = level[s] \/ (s = x /\ level'[s] = a)
      <4>1. level' = level \/ level' = [level EXCEPT ![x] = a]
        BY Zenon DEF FillCache, cache
      <4> QED BY <2>1, <4>1
    <3>2. level[x] = 0
      <4>1. Cached(x)
        BY <2>1 DEF CacheInv
      <4> QED BY <4>1 DEF Cached
    <3>3. CASE s # x \/ a = 0
      BY <2>1, <2>2, <3>1, <3>2, <3>3 DEF Kept
    <3>4. CASE s = x /\ a # 0
      <4>1. followed'[s] = a
        BY <2>2, <3>4
      <4> QED BY <1>8, <3>4, <4>1 DEF a, Found
    <3> QED BY <3>3, <3>4
  <2>5. \/ initialized[x] /\ Return(t, level[x]) /\ UNCHANGED cache
        \/ /\ ~initialized[x] /\ Return(t, a)
           /\ IF inited THEN FillCache(x, a) ELSE UNCHANGED cache
    BY <1>8, Zenon DEF InitializeVLOG3
  <2> QED BY <2>3, <2>4, <2>5, Zenon
<1> QED BY <1>1, <1>2, <1>3, <1>4, <1>5, <1>6, <1>7, <1>8 DEF Step, Kept, Found

\* The element a slow test found: now in the cache, but for the first one.
LEMMA UsedFound ==
  ASSUME TypeOK, CacheInv, TestInv, UseInv, Step, NEW t \in Thread,
         InitializeVLOG3(t), NEW s \in Site, s = site[t],
         ~initialized[s], followed'[s] # 0, followed'[s] = Lookup(Initialized2, s)
  PROVE  Uses(s)'
<1> DEFINE a == Lookup(Initialized2, s)
<1>1. a \in DOMAIN info /\ Matches(a, s) /\ Governing(Initialized2, s) # {}
  BY AddressesFit, LookupFinds
<1>2. info' = info /\ list' = Initialized2 /\ inited'
  BY DEF InitializeVLOG3
<1>3. level[s] = 0
  BY DEF CacheInv, Cached
<1>4. Governing(list, s)' # {}
  BY <1>1, <1>2 DEF Governing
<1>5. inited => level'[s] = a
  BY DEF InitializeVLOG3, FillCache, TypeOK
<1>6. ~inited => level'[s] = 0 /\ s = first'
  BY <1>3 DEF InitializeVLOG3, cache
<1> HIDE DEF a
<1>7. a \in DOMAIN info' /\ SafeFNMatch(info'[a].pattern, Module[s])
  BY <1>1, <1>2 DEF Matches
<1>8. followed'[s] = a
  BY DEF a
<1> QED BY <1>2, <1>4, <1>5, <1>6, <1>7, <1>8 DEF Uses, Matches

LEMMA UsesKeep ==
  ASSUME TypeOK, CacheInv, TestInv, UseInv, Step
  PROVE  UseInv'
<1>1. followed' \in [Site -> Nat]
  <2>1. followed \in [Site -> Nat]
    BY DEF UseInv
  <2>2. CASE followed' = followed
    BY <2>1, <2>2
  <2>3. ASSUME NEW t \in Thread, NEW a \in Nat, Return(t, a)
        PROVE  followed' \in [Site -> Nat]
    BY <2>1, <2>3 DEF Return
  <2>4. ASSUME NEW t \in Thread, LoadValue(t) PROVE followed' \in [Site -> Nat]
    BY <2>3, <2>4 DEF LoadValue, TypeOK
  <2>5. ASSUME NEW t \in Thread, InitializeVLOG3(t) PROVE followed' \in [Site -> Nat]
    <3>1. site[t] \in Site
      BY <2>5 DEF InitializeVLOG3, TestInv, Observes
    <3>2. Lookup(Initialized2, site[t]) \in Nat /\ level[site[t]] \in Nat
      BY <3>1, GovernorFits DEF TypeOK
    <3>3. Return(t, Lookup(Initialized2, site[t])) \/ Return(t, level[site[t]])
      BY <2>5 DEF InitializeVLOG3
    <3> QED BY <2>3, <3>2, <3>3
  <2>6. ASSUME NEW t \in Thread, LoadDefault(t) PROVE followed' = followed
    BY <2>6 DEF LoadDefault, Return
  <2>7. ASSUME NEW t \in Thread, LoadInitialized(t) PROVE followed' = followed
    BY <2>7 DEF LoadInitialized, uses
  <2>8. ASSUME NEW t \in Thread, NEW s \in Site, LoadLevel(t, s) PROVE followed' = followed
    BY <2>8 DEF LoadLevel, uses
  <2>9. ASSUME NEW p \in Patterns, NEW l \in Levels, SetVLOGLevel(p, l)
        PROVE  followed' = followed
    BY <2>9 DEF SetVLOGLevel, uses
  <2>10. ASSUME NEW l \in Levels, SetV(l) PROVE followed' = followed
    BY <2>10 DEF SetV, uses
  <2> QED BY <2>2, <2>4, <2>5, <2>6, <2>7, <2>8, <2>9, <2>10 DEF Step
<1>2. ASSUME NEW s \in Site PROVE Uses(s)'
  BY FollowedMoves, UseKept, UsedCache, UsedFound
<1> QED BY <1>1, <1>2 DEF UseInv

-----------------------------------------------------------------------------
(* SafeFNMatch.  Induction over the positions of the pattern, from its end, *)
(* is the statement that a nonempty set of numbers has a least element.     *)

LEMMA Downward ==
  ASSUME NEW n \in Nat, NEW G, n + 1 \in G, \A p \in 1 .. n : p + 1 \in G => p \in G
  PROVE  1 .. n + 1 \subseteq G
<1> DEFINE Bad == {k \in 0 .. n : n + 1 - k \notin G}
<1>1. Bad = {}
  <2> SUFFICES ASSUME Bad # {} PROVE FALSE
    OBVIOUS
  <2>1. Bad \subseteq Nat
    OBVIOUS
  <2> DEFINE k == FirstOf(Bad)
  <2>2. k \in Bad /\ \A j \in Bad : k <= j
    BY <2>1, FirstIsThere
  <2> HIDE DEF k
  <2>3. k \in 0 .. n /\ n + 1 - k \notin G
    BY <2>2
  <2>4. k # 0
    BY <2>3
  <2>5. k - 1 \in 0 .. n /\ k - 1 \notin Bad
    BY <2>2, <2>3, <2>4
  <2>6. n + 1 - (k - 1) \in G
    BY <2>5
  <2>7. n + 1 - k \in 1 .. n /\ n + 1 - (k - 1) = (n + 1 - k) + 1
    BY <2>3, <2>4
  <2> QED BY <2>3, <2>6, <2>7
<1>2. ASSUME NEW p \in 1 .. n + 1 PROVE p \in G
  <2> DEFINE k == n + 1 - p
  <2>1. k \in 0 .. n /\ n + 1 - k = p
    OBVIOUS
  <2> HIDE DEF k
  <2>2. p \notin G => k \in Bad
    BY <2>1
  <2> QED BY <1>1, <2>2
<1> QED BY <1>2

\* m is the table that SafeFNMatch fills from the end of the pattern.
IsTable(pattern, str, m) ==
  m = [p \in 1 .. Len(pattern) + 1 |-> Matched(pattern, str, p, m[p + 1])]

\* There is such a table: row after row can be added.
LEMMA TableExists ==
  ASSUME NEW pattern, Len(pattern) \in Nat, NEW str, Len(str) \in Nat
  PROVE  \E m : IsTable(pattern, str, m)
<1> DEFINE n == Len(pattern)
           Row(p, R) == Matched(pattern, str, p, R)
           Filled(g, p) == \A q \in p .. n + 1 : g[q] = Row(q, g[q + 1])
           G == {p \in 1 .. n + 1 : \E g : Filled(g, p)}
<1>1. n \in Nat
  OBVIOUS
<1>2. \A Q, R : Row(n + 1, Q) = Row(n + 1, R)
  BY <1>1 DEF Matched
<1> HIDE DEF n, Row
<1>3. n + 1 \in G
  <2> DEFINE g == [q \in 1 .. n + 1 |-> Row(n + 1, {})]
  <2>1. n + 1 \in 1 .. n + 1 /\ \A q \in n + 1 .. n + 1 : q = n + 1
    BY <1>1
  <2>2. g[n + 1] = Row(n + 1, {})
    BY <2>1
  <2> HIDE DEF g
  <2>3. g[n + 1] = Row(n + 1, g[(n + 1) + 1])
    BY <1>2, <2>2
  <2>4. Filled(g, n + 1)
    BY <2>1, <2>3
  <2> QED BY <2>1, <2>4
<1>4. ASSUME NEW p \in 1 .. n, p + 1 \in G PROVE p \in G
  <2>1. PICK g : Filled(g, p + 1)
    BY <1>4
  <2> DEFINE h == [q \in 1 .. n + 2 |-> IF q = p THEN Row(p, g[p + 1]) ELSE g[q]]
  <2>2. h[p] = Row(p, g[p + 1]) /\ \A q \in p + 1 .. n + 2 : h[q] = g[q]
    BY <1>1
  <2> HIDE DEF h
  <2>3. h[p + 1] = g[p + 1]
    BY <1>1, <2>2
  <2>4. ASSUME NEW q \in p .. n + 1 PROVE h[q] = Row(q, h[q + 1])
    <3>1. CASE q = p
      BY <2>2, <2>3, <3>1
    <3>2. CASE q # p
      <4>1. q \in p + 1 .. n + 1 /\ q \in p + 1 .. n + 2 /\ q + 1 \in p + 1 .. n + 2
        BY <1>1, <3>2
      <4>2. g[q] = Row(q, g[q + 1])
        BY <2>1, <4>1
      <4> QED BY <2>2, <4>1, <4>2
    <3> QED BY <3>1, <3>2
  <2>5. Filled(h, p)
    BY <2>4
  <2>6. p \in 1 .. n + 1
    BY <1>1
  <2> QED BY <2>5, <2>6
<1>5. 1 \in G
  <2> HIDE DEF G
  <2>1. 1 .. n + 1 \subseteq G
    BY <1>1, <1>3, <1>4, Downward
  <2> QED BY <1>1, <2>1
<1>6. PICK g : Filled(g, 1)
  BY <1>5
<1> DEFINE m == [p \in 1 .. n + 1 |-> g[p]]
<1>7. ASSUME NEW p \in 1 .. n + 1 PROVE m[p] = Row(p, m[p + 1])
  <2>1. m[p] = Row(p, g[p + 1])
    BY <1>6
  <2>2. CASE p = n + 1
    BY <1>2, <2>1, <2>2
  <2>3. CASE p # n + 1
    <3>1. p + 1 \in 1 .. n + 1
      BY <1>1, <2>3
    <3> QED BY <2>1, <3>1
  <2> QED BY <2>2, <2>3
<1>8. m = [p \in 1 .. n + 1 |-> m[p]]
  OBVIOUS
<1> HIDE DEF m
<1>9. m = [p \in 1 .. n + 1 |-> Row(p, m[p + 1])]
  BY <1>7, <1>8
<1> QED BY <1>9 DEF IsTable, n, Row

LEMMA TableDecides ==
  ASSUME NEW pattern, Len(pattern) \in Nat, NEW str, Len(str) \in Nat
  PROVE  \E m : /\ \A p \in 1 .. Len(pattern) + 1 :
                     m[p] = Matched(pattern, str, p, m[p + 1])
                /\ SafeFNMatch(pattern, str) <=> 1 \in m[1]
<1> DEFINE m == CHOOSE g : IsTable(pattern, str, g)
<1>1. IsTable(pattern, str, m)
  BY TableExists
<1>2. SafeFNMatch(pattern, str) <=> 1 \in m[1]
  BY Zenon DEF SafeFNMatch, IsTable
<1> HIDE DEF m
<1>3. \A p \in 1 .. Len(pattern) + 1 : m[p] = Matched(pattern, str, p, m[p + 1])
  BY <1>1 DEF IsTable
<1> QED BY <1>2, <1>3

\* What Fits says of one character of the pattern.
Passes(pattern, str, f, i) ==
  \/ pattern[i] = "*" /\ f[i] <= f[i + 1]
  \/ /\ pattern[i] # "*" /\ f[i + 1] = f[i] + 1
     /\ pattern[i] \in {"?", str[f[i]]}

\* Fits, for the pattern from p and the string from s on.
FitsFrom(pattern, str, p, s) ==
  \E f \in [p .. Len(pattern) + 1 -> 1 .. Len(str) + 1] :
    /\ f[p] = s /\ f[Len(pattern) + 1] = Len(str) + 1
    /\ \A i \in p .. Len(pattern) : Passes(pattern, str, f, i)

LEMMA FitsAll ==
  ASSUME NEW pattern, Len(pattern) \in Nat, NEW str, Len(str) \in Nat
  PROVE  Fits(pattern, str) <=> FitsFrom(pattern, str, 1, 1)
BY DEF Fits, FitsFrom, Passes

\* A character of the pattern in front of what fits.
LEMMA FitsInFront ==
  ASSUME NEW pattern, Len(pattern) \in Nat, NEW str, Len(str) \in Nat,
         NEW p \in 1 .. Len(pattern), NEW s \in 1 .. Len(str) + 1, NEW k,
         FitsFrom(pattern, str, p + 1, k),
         \/ pattern[p] = "*" /\ s <= k
         \/ pattern[p] # "*" /\ k = s + 1 /\ pattern[p] \in {"?", str[s]}
  PROVE  FitsFrom(pattern, str, p, s)
<1> DEFINE n == Len(pattern)
           l == Len(str)
<1>1. n \in Nat /\ l \in Nat /\ p \in 1 .. n
  OBVIOUS
<1>2. PICK f \in [p + 1 .. n + 1 -> 1 .. l + 1] :
        /\ f[p + 1] = k /\ f[n + 1] = l + 1
        /\ \A i \in p + 1 .. n : Passes(pattern, str, f, i)
  BY DEF FitsFrom
<1> HIDE DEF n, l
<1> DEFINE g == [i \in p .. n + 1 |-> IF i = p THEN s ELSE f[i]]
<1>3. ASSUME NEW i \in p .. n + 1 PROVE g[i] \in 1 .. l + 1
  <2>1. s \in 1 .. l + 1
    BY DEF l
  <2>2. i # p => i \in p + 1 .. n + 1
    BY <1>1
  <2> QED BY <2>1, <2>2
<1>4. g \in [p .. n + 1 -> 1 .. l + 1]
  BY <1>3
<1>5. g[p] = s /\ \A i \in p + 1 .. n + 1 : g[i] = f[i]
  BY <1>1
<1> HIDE DEF g
<1>6. ASSUME NEW i \in p .. n PROVE Passes(pattern, str, g, i)
  <2>1. CASE i = p
    <3>1. g[p + 1] = k
      BY <1>1, <1>2, <1>5
    <3> QED BY <1>5, <2>1, <3>1 DEF Passes
  <2>2. CASE i # p
    <3>1. i \in p + 1 .. n /\ i \in p + 1 .. n + 1 /\ i + 1 \in p + 1 .. n + 1
      BY <1>1, <2>2
    <3>2. g[i] = f[i] /\ g[i + 1] = f[i + 1] /\ Passes(pattern, str, f, i)
      BY <1>2, <1>5, <3>1
    <3> QED BY <3>2 DEF Passes
  <2> QED BY <2>1, <2>2
<1>7. g[n + 1] = l + 1
  <2>1. n + 1 \in p + 1 .. n + 1
    BY <1>1
  <2> QED BY <1>2, <1>5, <2>1
<1> QED BY <1>4, <1>5, <1>6, <1>7 DEF FitsFrom, n, l

\* The other way round: what the first character of the pattern leaves.
LEMMA FitsBehind ==
  ASSUME NEW pattern, Len(pattern) \in Nat, NEW str, Len(str) \in Nat,
         NEW p \in 1 .. Len(pattern), NEW s, FitsFrom(pattern, str, p, s)
  PROVE  \E k \in 1 .. Len(str) + 1 :
           /\ FitsFrom(pattern, str, p + 1, k)
           /\ \/ pattern[p] = "*" /\ s <= k
              \/ pattern[p] # "*" /\ k = s + 1 /\ pattern[p] \in {"?", str[s]}
<1> DEFINE n == Len(pattern)
           l == Len(str)
<1>1. n \in Nat /\ l \in Nat /\ p \in 1 .. n
  OBVIOUS
<1>2. PICK f \in [p .. n + 1 -> 1 .. l + 1] :
        /\ f[p] = s /\ f[n + 1] = l + 1
        /\ \A i \in p .. n : Passes(pattern, str, f, i)
  BY DEF FitsFrom
<1> HIDE DEF n, l
<1> DEFINE g == [i \in p + 1 .. n + 1 |-> f[i]]
<1>3. p \in p .. n /\ p + 1 \in p .. n + 1 /\ p + 1 \in p + 1 .. n + 1
      /\ n + 1 \in p + 1 .. n + 1 /\ p + 1 .. n + 1 \subseteq p .. n + 1
      /\ p + 1 .. n \subseteq p .. n
      /\ \A i \in p + 1 .. n : i \in p + 1 .. n + 1 /\ i + 1 \in p + 1 .. n + 1
  BY <1>1
<1>4. \A i \in p + 1 .. n + 1 : g[i] = f[i] /\ f[i] \in 1 .. l + 1
  BY <1>3
<1>5. g \in [p + 1 .. n + 1 -> 1 .. l + 1]
  BY <1>4
<1> HIDE DEF g
<1>6. \A i \in p + 1 .. n : Passes(pattern, str, g, i)
  BY <1>2, <1>3, <1>4 DEF Passes
<1>7. g[n + 1] = l + 1 /\ g[p + 1] = f[p + 1]
  BY <1>2, <1>3, <1>4
<1>8. FitsFrom(pattern, str, p + 1, f[p + 1])
  BY <1>5, <1>6, <1>7 DEF FitsFrom, n, l
<1>9. /\ Passes(pattern, str, f, p) /\ f[p] = s
      /\ f[p + 1] \in 1 .. l + 1
  BY <1>2, <1>3
<1> QED BY <1>8, <1>9 DEF Passes, l

\* At the end nothing is left of either.
LEMMA FitsAtEnd ==
  ASSUME NEW pattern, Len(pattern) \in Nat, NEW str, Len(str) \in Nat, NEW s
  PROVE  FitsFrom(pattern, str, Len(pattern) + 1, s) <=> s = Len(str) + 1
<1> DEFINE n == Len(pattern)
           l == Len(str)
<1>1. n \in Nat /\ l \in Nat
  OBVIOUS
<1> HIDE DEF n, l
<1>2. /\ n + 1 .. n + 1 = {n + 1} /\ n + 1 .. n = {} /\ l + 1 \in 1 .. l + 1
  BY <1>1
<1>3. ASSUME s = l + 1 PROVE FitsFrom(pattern, str, n + 1, s)
  <2> DEFINE f == [i \in {n + 1} |-> l + 1]
  <2>1. f \in [{n + 1} -> 1 .. l + 1] /\ f[n + 1] = l + 1
    BY <1>2
  <2>2. f \in [n + 1 .. n + 1 -> 1 .. l + 1]
    BY <1>2, <2>1
  <2> HIDE DEF f
  <2>3. \A i \in n + 1 .. n : Passes(pattern, str, f, i)
    BY <1>2
  <2> QED BY <1>3, <2>1, <2>2, <2>3 DEF FitsFrom, n, l
<1>4. FitsFrom(pattern, str, n + 1, s) => s = l + 1
  BY DEF FitsFrom, n, l
<1> QED BY <1>3, <1>4 DEF n, l

\* Where the string is exhausted only stars fit.
LEMMA OnlyStarsFitNothing ==
  ASSUME NEW pattern, Len(pattern) \in Nat, NEW str, Len(str) \in Nat,
         NEW p \in 1 .. Len(pattern), FitsFrom(pattern, str, p, Len(str) + 1)
  PROVE  pattern[p] = "*" /\ FitsFrom(pattern, str, p + 1, Len(str) + 1)
<1>1. PICK k \in 1 .. Len(str) + 1 :
        /\ FitsFrom(pattern, str, p + 1, k)
        /\ \/ pattern[p] = "*" /\ Len(str) + 1 <= k
           \/ pattern[p] # "*" /\ k = (Len(str) + 1) + 1
  BY FitsBehind
<1>2. pattern[p] = "*" /\ k = Len(str) + 1
  BY <1>1
<1> QED BY <1>1, <1>2

LEMMA MatchFits ==
  ASSUME NEW pattern, Len(pattern) \in Nat, NEW str, Len(str) \in Nat,
         SafeFNMatch(pattern, str)
  PROVE  Fits(pattern, str)
<1>1. PICK m : /\ \A p \in 1 .. Len(pattern) + 1 :
                    m[p] = Matched(pattern, str, p, m[p + 1])
               /\ 1 \in m[1]
  BY TableDecides
<1> DEFINE Sound(p) == \A s \in m[p] : FitsFrom(pattern, str, p, s)
           G == {p \in 1 .. Len(pattern) + 1 : Sound(p)}
<1>2. Len(pattern) + 1 \in G
  <2>1. \A s \in m[Len(pattern) + 1] : s = Len(str) + 1
    BY <1>1 DEF Matched
  <2>2. Sound(Len(pattern) + 1)
    BY <2>1, FitsAtEnd
  <2> HIDE DEF Sound
  <2> QED BY <2>2
<1>3. ASSUME NEW p \in 1 .. Len(pattern), p + 1 \in G PROVE p \in G
  <2>1. p \in 1 .. Len(pattern) + 1 /\ p + 1 \in 1 .. Len(pattern) + 1
    OBVIOUS
  <2>2. ASSUME NEW s \in m[p] PROVE FitsFrom(pattern, str, p, s)
    <3>1. /\ s \in 1 .. Len(str) + 1
          /\ IF s > Len(str) THEN p = Len(pattern) /\ pattern[p] = "*"
             ELSE IF pattern[p] \in {str[s], "?"} THEN s + 1 \in m[p + 1]
             ELSE /\ pattern[p] = "*"
                  /\ p = Len(pattern) \/ \E k \in s .. Len(str) : k \in m[p + 1]
      BY <1>1, <2>1, <2>2 DEF Matched
    <3>2. \A k \in m[p + 1] : FitsFrom(pattern, str, p + 1, k)
      BY <1>3
    <3>3. ASSUME p = Len(pattern), pattern[p] = "*" PROVE FitsFrom(pattern, str, p, s)
      <4>1. FitsFrom(pattern, str, p + 1, Len(str) + 1)
        BY <3>3, FitsAtEnd
      <4>2. s <= Len(str) + 1
        BY <3>1
      <4> QED BY <3>1, <3>3, <4>1, <4>2, FitsInFront
    <3>4. ASSUME s <= Len(str), pattern[p] \in {str[s], "?"}, s + 1 \in m[p + 1]
          PROVE  FitsFrom(pattern, str, p, s)
      <4>1. FitsFrom(pattern, str, p + 1, s + 1)
        BY <3>2, <3>4
      <4>2. s <= s + 1
        BY <3>1
      <4> QED BY <3>1, <3>4, <4>1, <4>2, FitsInFront
    <3>5. ASSUME pattern[p] = "*", NEW k \in s .. Len(str), k \in m[p + 1]
          PROVE  FitsFrom(pattern, str, p, s)
      <4>1. FitsFrom(pattern, str, p + 1, k) /\ s <= k
        BY <3>1, <3>2, <3>5
      <4> QED BY <3>1, <3>5, <4>1, FitsInFront
    <3>6. s > Len(str) \/ s <= Len(str)
      BY <3>1
    <3> QED BY <3>1, <3>3, <3>4, <3>5, <3>6
  <2> QED BY <2>1, <2>2
<1>4. 1 \in G
  <2> HIDE DEF G
  <2>1. 1 .. Len(pattern) + 1 \subseteq G
    BY <1>2, <1>3, Downward
  <2> QED BY <2>1
<1>5. FitsFrom(pattern, str, 1, 1)
  BY <1>1, <1>4
<1> QED BY <1>5, FitsAll

LEMMA FitMatches ==
  ASSUME NEW pattern, Len(pattern) \in Nat, NEW str, Len(str) \in Nat,
         \A i \in 2 .. Len(pattern) : ~(pattern[i - 1] = "*" /\ pattern[i] = "*"),
         \A s \in 1 .. Len(str) : str[s] # "*",
         Fits(pattern, str)
  PROVE  SafeFNMatch(pattern, str)
<1>1. PICK m : /\ \A p \in 1 .. Len(pattern) + 1 :
                    m[p] = Matched(pattern, str, p, m[p + 1])
               /\ SafeFNMatch(pattern, str) <=> 1 \in m[1]
  BY TableDecides
<1>2. ASSUME NEW p \in 1 .. Len(pattern), p + 1 \in 1 .. Len(pattern), pattern[p] = "*"
      PROVE  pattern[p + 1] # "*"
  <2> DEFINE i == p + 1
  <2>1. i \in 2 .. Len(pattern) /\ i - 1 = p
    BY <1>2
  <2> HIDE DEF i
  <2>2. pattern[i] # "*"
    BY <1>2, <2>1
  <2> QED BY <2>2 DEF i
\* Behind a star the rest does not fit the empty string, unless it is empty.
<1>3. ASSUME NEW p \in 1 .. Len(pattern), pattern[p] = "*", p # Len(pattern)
      PROVE  ~FitsFrom(pattern, str, p + 1, Len(str) + 1)
  <2>1. p + 1 \in 1 .. Len(pattern)
    BY <1>3
  <2>2. pattern[p + 1] # "*"
    BY <1>2, <1>3, <2>1
  <2> QED BY <2>1, <2>2, OnlyStarsFitNothing
<1> DEFINE Complete(p) == \A s \in 1 .. Len(str) + 1 :
                            FitsFrom(pattern, str, p, s) => s \in m[p]
           G == {p \in 1 .. Len(pattern) + 1 : Complete(p)}
<1>4. Len(pattern) + 1 \in G
  <2>1. Len(str) + 1 \in m[Len(pattern) + 1]
    BY <1>1 DEF Matched
  <2>2. Complete(Len(pattern) + 1)
    BY <2>1, FitsAtEnd
  <2> HIDE DEF Complete
  <2> QED BY <2>2
<1>5. ASSUME NEW p \in 1 .. Len(pattern), p + 1 \in G PROVE p \in G
  <2>1. p \in 1 .. Len(pattern) + 1 /\ p + 1 \in 1 .. Len(pattern) + 1
    OBVIOUS
  <2>2. ASSUME NEW s \in 1 .. Len(str) + 1, FitsFrom(pattern, str, p, s)
        PROVE  s \in m[p]
    <3>1. s \in m[p] <=>
            IF s > Len(str) THEN p = Len(pattern) /\ pattern[p] = "*"
            ELSE IF pattern[p] \in {str[s], "?"} THEN s + 1 \in m[p + 1]
            ELSE /\ pattern[p] = "*"
                 /\ p = Len(pattern) \/ \E k \in s .. Len(str) : k \in m[p + 1]
      <4>1. p <= Len(pattern) /\ ~(p > Len(pattern))
        OBVIOUS
      <4>2. m[p] = Matched(pattern, str, p, m[p + 1])
        BY <1>1, <2>1
      <4> QED BY <4>1, <4>2 DEF Matched
    <3>2. \A k \in 1 .. Len(str) + 1 :
            FitsFrom(pattern, str, p + 1, k) => k \in m[p + 1]
      BY <1>5
    <3>3. PICK k \in 1 .. Len(str) + 1 :
            /\ FitsFrom(pattern, str, p + 1, k)
            /\ \/ pattern[p] = "*" /\ s <= k
               \/ pattern[p] # "*" /\ k = s + 1 /\ pattern[p] \in {"?", str[s]}
      BY <2>2, FitsBehind
    <3>4. CASE s > Len(str)
      <4>1. s = Len(str) + 1
        BY <3>4
      <4>2. pattern[p] = "*" /\ FitsFrom(pattern, str, p + 1, Len(str) + 1)
        BY <2>2, <4>1, OnlyStarsFitNothing
      <4>3. p = Len(pattern)
        BY <1>3, <4>2
      <4> QED BY <3>1, <3>4, <4>2, <4>3
    <3>5. CASE s <= Len(str) /\ pattern[p] # "*"
      <4>1. k = s + 1 /\ pattern[p] \in {str[s], "?"} /\ ~(s > Len(str))
        BY <3>3, <3>5
      <4> QED BY <3>1, <3>2, <3>3, <4>1
    <3>6. CASE s <= Len(str) /\ pattern[p] = "*"
      <4>1. ~(s > Len(str)) /\ pattern[p] \notin {str[s], "?"}
        BY <3>6
      <4>2. p # Len(pattern) => k \in s .. Len(str)
        <5>1. ASSUME p # Len(pattern) PROVE k # Len(str) + 1
          BY <1>3, <3>3, <3>6, <5>1
        <5> QED BY <3>3, <3>6, <5>1
      <4>3. k \in m[p + 1]
        BY <3>2, <3>3
      <4> QED BY <3>1, <3>6, <4>1, <4>2, <4>3
    <3> QED BY <3>4, <3>5, <3>6
  <2> QED BY <2>1, <2>2
<1>6. 1 \in G
  <2> HIDE DEF G
  <2>1. 1 .. Len(pattern) + 1 \subseteq G
    BY <1>4, <1>5, Downward
  <2> QED BY <2>1
<1>7. FitsFrom(pattern, str, 1, 1)
  BY FitsAll
<1> QED BY <1>1, <1>6, <1>7

-----------------------------------------------------------------------------
(* Theorems.                                                               *)

LEMMA InitHolds == Init => IInv
<1> SUFFICES ASSUME Init PROVE IInv
  OBVIOUS
<1>1. TypeOK
  <2> DEFINE n == Len(VModule)
  <2>1. n \in Nat /\ DOMAIN VModule = 1 .. n
    BY VModuleAssumption
  <2> HIDE DEF n
  <2>2. \A i \in DOMAIN VModule :
          [pattern |-> VModule[i][1], level |-> VModule[i][2]] \in Element
    BY DEF Element, AllPatterns, AllLevels
  <2>3. info = [i \in 1 .. n |-> [pattern |-> VModule[i][1], level |-> VModule[i][2]]]
    BY <2>1 DEF Init
  <2>4. info \in Seq(Element) /\ DOMAIN info = DOMAIN VModule
    BY <2>1, <2>2, <2>3
  <2>5. list \in Seq(DOMAIN info)
    BY DEF Init
  <2> QED BY <2>4, <2>5 DEF Init, TypeOK
<1>2. CacheInv
  BY DEF Init, CacheInv, Cached
<1>3. TestInv
  BY DEF Init, TestInv, Observes, Points, Governs
<1>4. VerdictIsCurrent
  BY DEF Init, VerdictIsCurrent
<1>5. UseInv
  BY DEF Init, UseInv, Uses
<1> QED BY <1>1, <1>2, <1>3, <1>4, <1>5 DEF IInv

LEMMA StepHolds == IInv /\ [Next]_vars => IInv'
<1>1. ASSUME IInv, Next PROVE IInv'
  <2>1. TypeOK /\ CacheInv /\ TestInv /\ UseInv /\ VerdictIsCurrent /\ Step /\ Observe
    BY <1>1 DEF IInv, Next
  <2>2. TypeOK'
    BY <2>1, TypeKeeps
  <2>3. CacheInv'
    BY <2>1, CacheKeeps
  <2>4. TestInv'
    BY <2>1, TestsKeep
  <2>5. VerdictIsCurrent'
    BY <2>1, VerdictKeeps
  <2>6. UseInv'
    BY <2>1, UsesKeep
  <2> QED BY <2>2, <2>3, <2>4, <2>5, <2>6 DEF IInv
<1>2. ASSUME IInv, UNCHANGED vars PROVE IInv'
  <2>1. UNCHANGED <<v, info, list, inited, level, hasDefault, initialized,
                    cachedSites, pc, site, ptr, got, followed, first, seen, governed>>
    BY <1>2 DEF vars, cache, tests, uses
  <2>2. TypeOK'
    BY <1>2, <2>1 DEF IInv, TypeOK
  <2>3. CacheInv'
    BY <1>2, <2>1 DEF IInv, CacheInv, Cached, Matches, Governing
  <2>4. TestInv'
    BY <1>2, <2>1, ZenonT(30) DEF IInv, TestInv, Observes, Points, Governs, Effective, Governor,
       LevelAt, Lookup, Governing, Initialized2
  <2>5. VerdictIsCurrent'
    BY <1>2, <2>1 DEF IInv, VerdictIsCurrent
  <2>6. UseInv'
    BY <1>2, <2>1 DEF IInv, UseInv, Uses, Matches, Governing
  <2> QED BY <2>2, <2>3, <2>4, <2>5, <2>6 DEF IInv
<1> QED BY <1>1, <1>2

\* The list, the caches and the tests agree in every reachable state
\* (vlog_is_on.cc, vlog_is_on.h).
THEOREM InductiveInvariant == Spec => []IInv
<1> QED BY InitHolds, StepHolds, PTL DEF Spec

\* A VLOG test uses a level that was in effect for its site at some instant of
\* the test, although it reads the cache without a lock while SetVLOGLevel and
\* InitializeVLOG3 change it.
THEOREM VerdictsAreCurrent == Spec => []VerdictIsCurrent
<1>1. IInv => VerdictIsCurrent
  BY DEF IInv
<1> QED BY <1>1, InductiveInvariant, PTL

\* All tests of a site that use the level of a pattern use the one of the same
\* element, and its pattern matches the module, whatever SetVLOGLevel does in
\* between; but for the site whose test parsed --vmodule, until its cache is
\* filled.
THEOREM BindingsStay == Spec => BindingKept
<1> DEFINE Stay(s) == followed[s] # 0 /\ (s = first => level[s] # 0)
                        => followed'[s] = followed[s]
           Fit(s) == followed'[s] # 0 =>
                        SafeFNMatch(info'[followed'[s]].pattern, Module[s])
           A == \A s \in Site :
                  /\ followed[s] # 0 /\ (s = first => level[s] # 0) => followed'[s] = followed[s]
                  /\ followed'[s] # 0 => SafeFNMatch(info'[followed'[s]].pattern, Module[s])
<1>1. ASSUME IInv, IInv', Next PROVE A
  <2> SUFFICES ASSUME NEW s \in Site PROVE Stay(s) /\ Fit(s)
    OBVIOUS
  <2>1. Stay(s)
    <3> SUFFICES ASSUME followed[s] # 0, s = first => level[s] # 0
                 PROVE  followed'[s] = followed[s]
      OBVIOUS
    <3>1. followed[s] = level[s]
      BY <1>1 DEF IInv, UseInv, Uses
    <3>2. initialized[s]
      BY <1>1, <3>1 DEF IInv, CacheInv, Cached
    <3> QED BY <1>1, <3>1, <3>2, FollowedMoves DEF IInv, Next
  <2>2. Uses(s)'
    BY <1>1 DEF IInv, UseInv
  <2> QED BY <2>1, <2>2 DEF Uses, Matches
<1>2. IInv /\ IInv' /\ [Next]_vars => [A]_vars
  BY <1>1
<1> QED BY <1>2, InductiveInvariant, PTL DEF Spec, BindingKept

\* SafeFNMatch_ finds only what a glob means, for all patterns and strings,
\* and all of it when the string has no star and the pattern no two stars in a
\* row, where the search at line 41 gives up too early.
THEOREM MatchIsExact ==
  \A S : \A pattern, str \in Seq(S) :
    /\ SafeFNMatch(pattern, str) => Fits(pattern, str)
    /\ /\ Fits(pattern, str)
       /\ \A i \in 2 .. Len(pattern) : ~(pattern[i - 1] = "*" /\ pattern[i] = "*")
       /\ \A s \in 1 .. Len(str) : str[s] # "*"
       => SafeFNMatch(pattern, str)
<1> TAKE S
<1> TAKE pattern, str \in Seq(S)
<1>1. Len(pattern) \in Nat /\ Len(str) \in Nat
  OBVIOUS
<1> QED BY <1>1, MatchFits, FitMatches, Zenon

\* The words of MatchIsGlob.
LEMMA WordsAreSequences ==
  ASSUME NEW w \in Words(3)
  PROVE  Len(w) \in Nat /\ \A s \in 1 .. Len(w) : w[s] # "*"
<1>1. PICK k \in 0 .. 3 : w \in [1 .. k -> Chars]
  BY DEF Words
<1>2. w \in Seq(Chars) /\ Len(w) \in Nat /\ DOMAIN w = 1 .. Len(w)
  BY <1>1
<1>3. \A s \in 1 .. Len(w) : w[s] \in Chars
  BY <1>2
<1> QED BY <1>2, <1>3 DEF Chars

LEMMA GlobsAreSequences ==
  ASSUME NEW p \in Globs(3)
  PROVE  Len(p) \in Nat
<1>1. PICK k \in 0 .. 3 : p \in [1 .. k -> Chars \cup {"*", "?"}]
  BY DEF Globs
<1>2. p \in Seq(Chars \cup {"*", "?"})
  BY <1>1
<1> QED BY <1>2

\* The patterns of the program are globs, whatever SetVLOGLevel adds.
THEOREM PatternsAreGlobs == Spec => []MatchIsGlob
<1>1. IInv => MatchIsGlob
  <2> SUFFICES ASSUME IInv,
                      NEW p \in {info[i].pattern : i \in DOMAIN info} \cup ShortGlobs,
                      NEW s \in Words(3)
               PROVE  /\ SafeFNMatch(p, s) => Fits(p, s)
                      /\ /\ Fits(p, s)
                         /\ \A i \in 2 .. Len(p) : <<p[i - 1], p[i]>> # <<"*", "*">>
                         => SafeFNMatch(p, s)
    BY DEF MatchIsGlob
  <2>1. Len(p) \in Nat
    <3>1. CASE p \in ShortGlobs
      BY <3>1, GlobsAreSequences DEF ShortGlobs
    <3>2. ASSUME NEW i \in DOMAIN info, p = info[i].pattern PROVE Len(p) \in Nat
      <4>1. info[i] \in Element
        BY DEF IInv, TypeOK
      <4>2. p \in AllPatterns
        BY <3>2, <4>1 DEF Element
      <4> QED BY <4>2, PatternAssumption DEF AllPatterns
    <3> QED BY <3>1, <3>2
  <2>2. Len(s) \in Nat /\ \A i \in 1 .. Len(s) : s[i] # "*"
    BY WordsAreSequences
  <2>3. SafeFNMatch(p, s) => Fits(p, s)
    BY <2>1, <2>2, MatchFits
  <2>4. ASSUME Fits(p, s),
               \A i \in 2 .. Len(p) : <<p[i - 1], p[i]>> # <<"*", "*">>
        PROVE  SafeFNMatch(p, s)
    <3>1. \A i \in 2 .. Len(p) : ~(p[i - 1] = "*" /\ p[i] = "*")
      BY <2>4
    <3> QED BY <2>1, <2>2, <2>4, <3>1, FitMatches
  <2> QED BY <2>3, <2>4
<1> QED BY <1>1, InductiveInvariant, PTL

=============================================================================
