---------------------------- MODULE SiteRegistry ----------------------------
(***************************************************************************)
(* The registry of call sites of the experimental functions                *)
(* (src/src/experimental/site.cc).  A call site is looked up by its        *)
(* location in a hash table that is read without a lock and only ever      *)
(* grows, then its state of the wanted type in slots of the same kind.     *)
(* Several locations may denote one site (an inline function in a header). *)
(*                                                                         *)
(* Every load of the lock-free loops is a step of its own; what runs under *)
(* mutex_ is one step.                                                     *)
(***************************************************************************)
EXTENDS Naturals, Sequences, FiniteSets

CONSTANTS
  Thread,
  Location,    \* source locations, as identified by addresses
  Key,         \* Key[l]: the site (file, function, line, column) it denotes
  Hash,        \* Hash[l]: where the probing begins
  Type,        \* the types of states
  NoLocation,
  AliasSlots, MaxAliasProbes, StateSlots, \* kAliasSlots, kMaxAliasProbes, ...
  MaxLookups   \* bound: lookups

ASSUME SiteAssumption ==
  /\ IsFiniteSet(Thread)
  /\ NoLocation \notin Location
  /\ Hash \in [Location -> Nat]
  /\ {AliasSlots, MaxAliasProbes, StateSlots, MaxLookups} \subseteq Nat \ {0}

Sites == {Key[l] : l \in Location}

VARIABLES
  aliases,   \* aliases_: the location in every slot
  slots,     \* slots_ of every site: pairs of a type and a state
  overflow,  \* overflow_ of every site: state of a type, 0 for none
  lookups,   \* lookups begun, which number the states they construct
  destroyed, \* states destroyed again
  pc, loc, index,
  type,      \* the type of state the code of a thread wants
  found      \* the state a thread would construct, has constructed or got

registry == <<aliases, slots, overflow, lookups, destroyed>>
lookup == <<pc, loc, type, index, found>>

InitRegistry ==
  /\ aliases = [i \in 0 .. AliasSlots - 1 |-> NoLocation]
  /\ slots = [s \in Sites |-> <<>>]
  /\ overflow = [s \in Sites |-> [y \in Type |-> 0]]
  /\ lookups = 0
  /\ destroyed = {}
  /\ pc = [t \in Thread |-> "idle"]
  /\ loc = [t \in Thread |-> NoLocation]
  /\ type \in [Thread -> Type]
  /\ index = [t \in Thread |-> 0]
  /\ found = [t \in Thread |-> 0]

Goto(t, l) == pc' = [pc EXCEPT ![t] = l]
SiteOf(t) == Key[loc[t]]
Slot(l, i) == (Hash[l] + i) % AliasSlots

\* A call site is reached.
FindSite(t, l) ==
  /\ pc[t] = "idle" /\ lookups < MaxLookups
  /\ lookups' = lookups + 1
  /\ Goto(t, "probe")
  /\ loc' = [loc EXCEPT ![t] = l]
  /\ index' = [index EXCEPT ![t] = 0]
  /\ found' = [found EXCEPT ![t] = lookups + 1]
  /\ UNCHANGED <<aliases, slots, overflow, destroyed, type>>

\* One round of the lock-free loop of Get.
Probe(t) ==
  /\ pc[t] = "probe" /\ index[t] < MaxAliasProbes
  /\ LET alias == aliases[Slot(loc[t], index[t])]
     IN \/ /\ alias = NoLocation
           /\ Goto(t, "register")
           /\ UNCHANGED index
        \/ /\ alias = loc[t]
           /\ Goto(t, "slots")
           /\ index' = [index EXCEPT ![t] = 1]
        \/ /\ alias \notin {NoLocation, loc[t]}
           /\ index' = [index EXCEPT ![t] = @ + 1]
           /\ UNCHANGED pc
  /\ UNCHANGED <<registry, loc, type, found>>

ProbesEnd(t) ==
  /\ pc[t] = "probe" /\ index[t] = MaxAliasProbes
  /\ Goto(t, "register")
  /\ UNCHANGED <<registry, loc, type, index, found>>

\* The locked part of Get: the first free one of the probed slots takes the
\* location, unless the location is there already or no slot is free.
Register(t) ==
  /\ pc[t] = "register"
  /\ Goto(t, "slots")
  /\ index' = [index EXCEPT ![t] = 1]
  /\ LET Stop == {i \in 0 .. MaxAliasProbes - 1 :
                    aliases[Slot(loc[t], i)] \in {NoLocation, loc[t]}}
     IN aliases' = IF Stop = {} THEN aliases
                   ELSE LET i == CHOOSE i \in Stop : \A j \in Stop : i <= j
                        IN [aliases EXCEPT ![Slot(loc[t], i)] = loc[t]]
  /\ UNCHANGED <<slots, overflow, lookups, destroyed, loc, type, found>>

\* One round of the lock-free loop of State.  At its end the state is
\* constructed, without the lock since a constructor may log.
LoadSlot(t) ==
  /\ pc[t] = "slots"
  /\ LET published == slots[SiteOf(t)]
     IN \/ /\ index[t] > Len(published) \/ index[t] > StateSlots
           /\ Goto(t, "publish")
           /\ UNCHANGED <<index, found>>
        \/ /\ index[t] <= Len(published) /\ published[index[t]][1] = type[t]
           /\ found' = [found EXCEPT ![t] = published[index[t]][2]]
           /\ Goto(t, "use")
           /\ UNCHANGED index
        \/ /\ index[t] <= Len(published) /\ published[index[t]][1] # type[t]
           /\ index' = [index EXCEPT ![t] = @ + 1]
           /\ UNCHANGED <<pc, found>>
  /\ UNCHANGED <<registry, loc, type>>

\* The published states of a type: in a slot, or in overflow_.
Published(s, y) ==
  {slots[s][i][2] : i \in {j \in DOMAIN slots[s] : slots[s][j][1] = y}}
    \cup ({overflow[s][y]} \ {0})

\* Variant: the type is not looked for again under the lock.
PublishAgain(t) ==
  /\ pc[t] = "publish"
  /\ LET s == SiteOf(t)
     IN IF Len(slots[s]) < StateSlots
          THEN /\ slots' = [slots EXCEPT ![s] = Append(@, <<type[t], found[t]>>)]
               /\ UNCHANGED overflow
          ELSE /\ overflow' = [overflow EXCEPT ![s][type[t]] = found[t]]
               /\ UNCHANGED slots
  /\ Goto(t, "use")
  /\ UNCHANGED <<aliases, lookups, destroyed, loc, type, index, found>>

\* Publish, and the destruction of the state of a thread that lost the race.
Publish(t) ==
  /\ pc[t] = "publish"
  /\ LET s == SiteOf(t)
         there == Published(s, type[t])
     IN \/ /\ there # {}
           /\ found' = [found EXCEPT ![t] = CHOOSE x \in there : TRUE]
           /\ destroyed' = destroyed \cup {found[t]}
           /\ UNCHANGED <<slots, overflow>>
        \/ /\ there = {} /\ Len(slots[s]) < StateSlots
           /\ slots' = [slots EXCEPT ![s] = Append(@, <<type[t], found[t]>>)]
           /\ UNCHANGED <<overflow, found, destroyed>>
        \/ /\ there = {} /\ Len(slots[s]) = StateSlots
           /\ overflow' = [overflow EXCEPT ![s][type[t]] = found[t]]
           /\ UNCHANGED <<slots, found, destroyed>>
  /\ Goto(t, "use")
  /\ UNCHANGED <<aliases, lookups, loc, type, index>>

\* The caller is done with the state.
Leave(t) ==
  /\ Goto(t, "idle")
  /\ loc' = [loc EXCEPT ![t] = NoLocation]
  /\ index' = [index EXCEPT ![t] = 0]
  /\ found' = [found EXCEPT ![t] = 0]

Lookup(t) ==
  \/ \E l \in Location : FindSite(t, l)
  \/ Probe(t) \/ ProbesEnd(t) \/ Register(t)
  \/ LoadSlot(t) \/ Publish(t)

-----------------------------------------------------------------------------
\* A thread that uses a state of a site uses the one published state of that
\* site and type, which is alive, whatever locations, races and full tables
\* the threads came through (SiteImpl::State and SiteRegistry::Get).
OneState ==
  \A t \in Thread :
    pc[t] = "use" => /\ Published(SiteOf(t), type[t]) = {found[t]}
                     /\ found[t] \notin destroyed
=============================================================================
