-------------------------------- MODULE VLog --------------------------------
(***************************************************************************)
(* VLOG levels (src/src/vlog_is_on.cc, src/src/ng-log/vlog_is_on.h): the   *)
(* list of module patterns, the cache of every VLOG site, the tests that   *)
(* read the cache without a lock, and SetVLOGLevel.                        *)
(*                                                                         *)
(* A list element is never freed, so a pointer to it is its index in       *)
(* `info`; 0 is nullptr.  What runs under vmodule_mutex is one step.       *)
(***************************************************************************)
EXTENDS Naturals, Sequences, FiniteSets

CONSTANTS
  Thread, Site,
  Module,    \* Module[s]: base name of the file of site s, "-inl" removed
  VModule,   \* the elements that --vmodule names: <<pattern, level>>
  Patterns,  \* arguments of SetVLOGLevel
  Levels,    \* levels that SetVLOGLevel and --v get
  NoSite,
  MaxSets    \* bound: SetVLOGLevel calls and changes of --v

\* --vmodule is a list.
ASSUME VModuleAssumption ==
  Len(VModule) \in Nat /\ DOMAIN VModule = 1 .. Len(VModule)
\* Patterns are strings.
ASSUME PatternAssumption ==
  \A p \in Patterns \cup {VModule[i][1] : i \in DOMAIN VModule} :
    Len(p) \in Nat /\ DOMAIN p = 1 .. Len(p)

VARIABLES
  v,           \* FLAGS_v
  info,        \* the VModuleInfo elements, by address
  list,        \* vmodule_list: addresses, head first
  inited,      \* inited_vmodule
  level,       \* SiteFlag::level
  hasDefault,  \* SiteFlag::default_level # nullptr
  initialized, \* SiteFlag::initialized
  cachedSites, \* cached_site_list
  sets,
  pc, site, ptr, \* the tests: where, of which site, the pointer they loaded
  got,         \* the level a test compared with, {} while it runs
  crashed,     \* a test dereferenced a null default_level
  \* History.
  followed,    \* the element that the tests of a site have used, 0 for none
  first,       \* the site whose test parsed --vmodule
  seen, governed \* see Observe

cache == <<level, hasDefault, initialized, cachedSites>>
tests == <<pc, site, ptr, got, crashed>>
uses == <<followed, first>>
vars == <<v, info, list, inited, cache, sets, tests, uses, seen, governed>>

-----------------------------------------------------------------------------
(* SafeFNMatch_.                                                           *)

\* Variant: after a star the rest is tried at the first position only.
MatchedAtOnce(pattern, str, p, next) ==
  {s \in 1 .. Len(str) + 1 :
     IF p > Len(pattern) THEN s > Len(str)
     ELSE IF s > Len(str) THEN p = Len(pattern) /\ pattern[p] = "*"
     ELSE IF pattern[p] \in {str[s], "?"} THEN s + 1 \in next
     ELSE pattern[p] = "*" /\ (p = Len(pattern) \/ s \in next)}

\* From which positions on the string matches the pattern from p on; `next`
\* are those from which it matches the pattern from p + 1 on.
Matched(pattern, str, p, next) ==
  {s \in 1 .. Len(str) + 1 :
     IF p > Len(pattern) THEN s > Len(str)
     ELSE IF s > Len(str) THEN p = Len(pattern) /\ pattern[p] = "*"
     ELSE IF pattern[p] \in {str[s], "?"} THEN s + 1 \in next
     ELSE /\ pattern[p] = "*"
          /\ p = Len(pattern) \/ \E k \in s .. Len(str) : k \in next}

SafeFNMatch(pattern, str) ==
  LET m[p \in 1 .. Len(pattern) + 1] == Matched(pattern, str, p, m[p + 1])
  IN 1 \in m[1]

-----------------------------------------------------------------------------
Governing(addresses, s) ==
  {i \in DOMAIN addresses : SafeFNMatch(info[addresses[i]].pattern, Module[s])}
FirstOf(S) == CHOOSE i \in S : \A j \in S : i <= j

\* The element that a site gets when its cache is filled, 0 for none.
Lookup(addresses, s) ==
  LET G == Governing(addresses, s)
  IN IF G = {} THEN 0 ELSE addresses[FirstOf(G)]

\* VLOG2Initializer puts the elements of --vmodule, in order, before the list.
\* They have the first addresses here and are in `info` from the start.
VModuleAddresses == [i \in DOMAIN VModule |-> i]
Initialized2 == IF inited THEN list ELSE VModuleAddresses \o list

Init ==
  /\ v \in Levels
  /\ info = [i \in DOMAIN VModule |-> [pattern |-> VModule[i][1],
                                       level |-> VModule[i][2]]]
  /\ list = <<>> /\ inited = FALSE
  /\ level = [s \in Site |-> 0]
  /\ hasDefault = [s \in Site |-> FALSE]
  /\ initialized = [s \in Site |-> FALSE]
  /\ cachedSites = {}
  /\ sets = 0
  /\ pc = [t \in Thread |-> "idle"]
  /\ site = [t \in Thread |-> NoSite]
  /\ ptr = [t \in Thread |-> 0]
  /\ got = [t \in Thread |-> {}]
  /\ crashed = FALSE
  /\ followed = [s \in Site |-> 0]
  /\ first = NoSite
  /\ seen = [t \in Thread |-> {}]
  /\ governed = [t \in Thread |-> FALSE]

-----------------------------------------------------------------------------
(* SetVLOGLevel.                                                           *)

Exact(p) == {i \in DOMAIN Initialized2 : info[Initialized2[i]].pattern = p}

\* Variant: also the sites that follow another pattern.
RedirectedAll(p) == {s \in Site : initialized[s] /\ SafeFNMatch(p, Module[s])}

Redirected(p) == {s \in cachedSites : SafeFNMatch(p, Module[s])}

\* Variant: sites that follow --v are not looked at.
AddModuleForNewSites(p, l) ==
  /\ info' = Append(info, [pattern |-> p, level |-> l])
  /\ list' = <<Len(info) + 1>> \o Initialized2
  /\ UNCHANGED cache

\* A new element before all others, to which the sites that follow --v and
\* match are redirected.
AddModule(p, l) ==
  /\ info' = Append(info, [pattern |-> p, level |-> l])
  /\ list' = <<Len(info) + 1>> \o Initialized2
  /\ level' = [s \in Site |-> IF s \in Redirected(p) THEN Len(info) + 1
                              ELSE level[s]]
  /\ cachedSites' = cachedSites \ Redirected(p)
  /\ UNCHANGED <<hasDefault, initialized>>

\* Every element with this very pattern gets the level.
UpdateModule(p, l) ==
  /\ info' = [a \in DOMAIN info |-> IF \E i \in Exact(p) : Initialized2[i] = a
                                      THEN [info[a] EXCEPT !.level = l]
                                      ELSE info[a]]
  /\ list' = Initialized2
  /\ UNCHANGED cache

SetVLOGLevel(p, l) ==
  /\ sets < MaxSets
  /\ sets' = sets + 1
  /\ inited' = TRUE
  /\ IF Exact(p) = {} THEN AddModule(p, l) ELSE UpdateModule(p, l)
  /\ UNCHANGED <<v, tests, uses>>

\* SetFlag(FLAGS_v, l).
SetV(l) ==
  /\ sets < MaxSets /\ l # v
  /\ sets' = sets + 1
  /\ v' = l
  /\ UNCHANGED <<info, list, inited, cache, tests, uses>>

-----------------------------------------------------------------------------
(* IsVLogOn: three loads without a lock, then InitializeVLOG3.             *)

Shared == <<v, info, list, inited, sets>>
LevelAt(a) == IF a = 0 THEN v ELSE info[a].level

\* The test uses the level of element a, or --v.
Return(t, a) ==
  /\ pc' = [pc EXCEPT ![t] = "idle"]
  /\ got' = [got EXCEPT ![t] = {LevelAt(a)}]
  /\ followed' = IF a = 0 THEN followed ELSE [followed EXCEPT ![site[t]] = a]

LoadLevel(t, s) ==
  /\ pc[t] = "idle" /\ ~crashed
  /\ site' = [site EXCEPT ![t] = s]
  /\ ptr' = [ptr EXCEPT ![t] = level[s]]
  /\ pc' = [pc EXCEPT ![t] = IF level[s] # 0 THEN "value" ELSE "initialized"]
  /\ got' = [got EXCEPT ![t] = {}]
  /\ UNCHANGED <<Shared, cache, crashed, uses>>

LoadValue(t) ==
  /\ pc[t] = "value" /\ ~crashed
  /\ Return(t, ptr[t])
  /\ UNCHANGED <<Shared, cache, site, ptr, crashed, first>>

LoadInitialized(t) ==
  /\ pc[t] = "initialized" /\ ~crashed
  /\ pc' = [pc EXCEPT ![t] = IF initialized[site[t]] THEN "default" ELSE "slow"]
  /\ UNCHANGED <<Shared, cache, site, ptr, got, crashed, uses>>

\* GetFlag(*site_flag.default_level).
LoadDefault(t) ==
  /\ pc[t] = "default" /\ ~crashed
  /\ \/ hasDefault[site[t]] /\ Return(t, 0) /\ UNCHANGED crashed
     \/ ~hasDefault[site[t]] /\ crashed' = TRUE /\ UNCHANGED <<pc, got, followed>>
  /\ UNCHANGED <<Shared, cache, site, ptr, first>>

FillCache(s, a) ==
  /\ level' = [level EXCEPT ![s] = a]
  /\ hasDefault' = [hasDefault EXCEPT ![s] = (a = 0)]
  /\ initialized' = [initialized EXCEPT ![s] = TRUE]
  /\ cachedSites' = IF a = 0 THEN cachedSites \cup {s} ELSE cachedSites

\* InitializeVLOG3.  The first call in the process parses --vmodule and leaves
\* the cache alone; a call that finds the cache filled by then uses it.
InitializeVLOG3(t) ==
  /\ pc[t] = "slow" /\ ~crashed
  /\ inited' = TRUE
  /\ list' = Initialized2
  /\ LET s == site[t]
         a == Lookup(Initialized2, s)
     IN \/ /\ initialized[s]
           /\ Return(t, level[s])
           /\ UNCHANGED cache
        \/ /\ ~initialized[s]
           /\ Return(t, a)
           /\ IF inited THEN FillCache(s, a) ELSE UNCHANGED cache
  /\ first' = IF inited THEN first ELSE site[t]
  /\ UNCHANGED <<v, info, sets, site, ptr, crashed>>

Step ==
  \/ \E p \in Patterns, l \in Levels : SetVLOGLevel(p, l)
  \/ \E l \in Levels : SetV(l)
  \/ \E t \in Thread :
       \/ \E s \in Site : LoadLevel(t, s)
       \/ LoadValue(t) \/ LoadInitialized(t) \/ LoadDefault(t)
       \/ InitializeVLOG3(t)

-----------------------------------------------------------------------------
(* What the header promises of SetVLOGLevel, and what the tests saw of it. *)

\* The element that governs a site: the one it already follows, else the first
\* of the list that matches its module (0: the site follows --v).
Governor(s) == IF level[s] # 0 THEN level[s] ELSE Lookup(Initialized2, s)
Effective(s) == LevelAt(Governor(s))

\* History: the levels in effect at some instant of the current or last test
\* of each thread.  A test that began while --v governed its site may read --v
\* at any instant.
Observe ==
  LET Started(t) == pc[t] = "idle" /\ pc'[t] # "idle"
      Now(t) == {Effective(site[t])} \cup (IF governed[t] THEN {} ELSE {v})
  IN /\ governed' = [t \in Thread |-> IF Started(t) THEN Governor(site'[t]) # 0
                                       ELSE governed[t]]
     /\ seen' = [t \in Thread |->
          IF pc'[t] = "idle" THEN seen[t]
          ELSE (IF Started(t) THEN {} ELSE seen[t]) \cup Now(t)']

Next == Step /\ Observe
Spec == Init /\ [][Next]_vars

-----------------------------------------------------------------------------
(* Properties.                                                             *)

\* A VLOG test uses a level that was in effect for its site at some instant of
\* the test: when SetVLOGLevel has returned, no site goes on with the old
\* level, whether it was never executed, follows --v, follows the pattern or
\* is being initialized at that moment (the lock-free loads of IsVLogOn against
\* SetVLOGLevel and InitializeVLOG3).
VerdictIsCurrent ==
  \A t \in Thread : got[t] \subseteq seen[t]

\* "VLOG(_IS_ON) sites that have already executed and matched a pattern keep
\* following that pattern" (vlog_is_on.h:52): of the tests of a site that used the
\* level of a pattern, all used the one of the same element, whatever
\* SetVLOGLevel added or changed in between, and its pattern matches the module.
\* Not so the site whose test parsed --vmodule (InitializeVLOG3 leaves its cache
\* alone): it may follow another pattern from its next slow test on, and that one
\* for good.
BindingKept ==
  [][\A s \in Site :
       /\ followed[s] # 0 /\ (s = first => level[s] # 0) => followed'[s] = followed[s]
       /\ followed'[s] # 0 => SafeFNMatch(info'[followed'[s]].pattern, Module[s])]_vars

\* SiteFlag::level: "The pointer selects either the default or the
\* module-specific level" (vlog_is_on.h:61): a test that finds the pointer null
\* and the site initialized reads the default level, so it is there.
DefaultIsThere == ~crashed

\* What the patterns mean.
Chars == {"a", "b"}
Words(n) == UNION {[1 .. k -> Chars] : k \in 0 .. n}
Globs(n) == UNION {[1 .. k -> Chars \cup {"*", "?"}] : k \in 0 .. n}

Fits(pattern, str) ==
  \E f \in [1 .. Len(pattern) + 1 -> 1 .. Len(str) + 1] :
    /\ f[1] = 1 /\ f[Len(pattern) + 1] = Len(str) + 1
    /\ \A i \in 1 .. Len(pattern) :
         \/ pattern[i] = "*" /\ f[i] <= f[i + 1]
         \/ /\ pattern[i] # "*" /\ f[i + 1] = f[i] + 1
            /\ pattern[i] \in {"?", str[f[i]]}

\* Nothing of them depends on the state: before anything happens is enough.
ShortGlobs ==
  IF sets = 0 /\ pc = [t \in Thread |-> "idle"] /\ cachedSites = {} THEN Globs(3) ELSE {}

\* SafeFNMatch_ against the definition of "*" and "?", for the patterns of the
\* program and all short ones: sound for all patterns, and exact for strings
\* without a star when no two stars are adjacent.
MatchIsGlob ==
  \A p \in {info[i].pattern : i \in DOMAIN info} \cup ShortGlobs, s \in Words(3) :
    /\ SafeFNMatch(p, s) => Fits(p, s)
    /\ Fits(p, s) /\ (\A i \in 2 .. Len(p) : <<p[i - 1], p[i]>> # <<"*", "*">>)
         => SafeFNMatch(p, s)
=============================================================================
