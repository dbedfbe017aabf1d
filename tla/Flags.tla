-------------------------------- MODULE Flags --------------------------------
(***************************************************************************)
(* Flags: the values that threads read and write without the registry      *)
(* (AtomicFlagValueStorage, src/src/ng-log/flags.h), the registry of each  *)
(* copy of the library (src/src/internal/flag_registry.cc), the table of   *)
(* names that the copies in a process share                                *)
(* (src/src/internal/process_flag_registry.cc), saving and restoring, and  *)
(* the locks around fork.                                                  *)
(*                                                                         *)
(* An operation of a thread is a record `op`; held locks and pc say how    *)
(* far it is.  A default value function returns "initial"; other values    *)
(* are named for the operation that writes them.                           *)
(***************************************************************************)
EXTENDS Naturals, FiniteSets

CONSTANTS
  Thread, NoThread,
  Copy,      \* copies of the library in the process
  Flag, NoFlag,
  CopyOf,    \* CopyOf[f]: the copy a flag belongs to
  NameOf,    \* NameOf[f]
  Owner,     \* Owner[f]: the thread that has a DynamicFlag, NoThread for a static one
  Before(_, _), \* the order in which atfork handlers of copies run
  MaxOps     \* bound: operations, but for destructors

ASSUME FlagAssumption ==
  /\ NoThread \notin Thread /\ NoFlag \notin Flag /\ "none" \notin Copy
  /\ CopyOf \in [Flag -> Copy]
  /\ Owner \in [Flag -> Thread \cup {NoThread}]

\* Of some handlers one runs first.
ASSUME BeforeAssumption ==
  \A S \in SUBSET Copy : S # {} => \E c \in S : \A d \in S : c = d \/ Before(c, d)

Address == 1 .. Cardinality(Copy)

VARIABLES
  \* Loading: finding the shared table.
  load,     \* where the loading of a copy is
  anchors,  \* addresses at which an anchor is mapped
  cell,     \* Anchor::registry: the copy whose table is published, or "none"
  anchor,   \* the anchor a copy found or created, 0 for none
  table,    \* the copy whose table a copy uses
  apart,    \* history: copies were loaded at the same time, or had no memory file
  \* Locks.
  mutex,    \* owner of RegistryMutex of every copy
  shared,   \* owner of the lock of every table
  lock,     \* owner of the FlagSpinLock of every flag
  \* Registries.
  entry,    \* registration of every flag, 0 if it has none
  nextRegistration,
  names,    \* SharedRegistry: the flags whose names are in every table
  \* Values.
  life,     \* history: how often a flag was constructed
  alive, state, current, default, modified,
  explicit, \* history: the last value that was set, also by a restore
  \* Threads.
  pc, op,
  saved,    \* what a ScopedFlags<> or a ScopedFlag<T> of the thread saved
  ops, aborted

loading == <<load, anchors, cell, anchor, table, apart>>
registries == <<entry, nextRegistration, names>>
values == <<life, alive, state, current, default, modified, explicit>>
vars == <<loading, mutex, shared, lock, registries, values, pc, op, saved, ops,
          aborted>>

NoSave == [flag |-> NoFlag, registration |-> 0, life |-> 0, value |-> "none",
           set |-> FALSE]
NoOp == [kind |-> "none", flag |-> NoFlag]
Static == {f \in Flag : Owner[f] = NoThread}

Init ==
  /\ load = [c \in Copy |-> "unloaded"]
  /\ anchors = {}
  /\ cell = [a \in Address |-> "none"]
  /\ anchor = [c \in Copy |-> 0]
  /\ table = [c \in Copy |-> c]
  /\ apart = FALSE
  /\ mutex = [c \in Copy |-> NoThread]
  /\ shared = [c \in Copy |-> NoThread]
  /\ lock = [f \in Flag |-> NoThread]
  /\ entry = [f \in Flag |-> 0]
  /\ nextRegistration = [c \in Copy |-> 1]
  /\ names = [c \in Copy |-> {}]
  /\ life = [f \in Flag |-> 0]
  /\ alive = [f \in Flag |-> f \in Static]
  /\ state = [f \in Flag |-> "uninitialized"]
  /\ current = [f \in Flag |-> "unset"]
  /\ default = [f \in Flag |-> "unset"]
  /\ modified = [f \in Flag |-> FALSE]
  /\ explicit = [f \in Flag |-> "none"]
  /\ pc = [t \in Thread |-> "idle"]
  /\ op = [t \in Thread |-> NoOp]
  /\ saved = [t \in Thread |-> NoSave]
  /\ ops = 0 /\ aborted = FALSE

-----------------------------------------------------------------------------
(* AcquireSharedRegistry, when a copy registers its first flag and has the *)
(* lock of its registry.  CreateRegistry installs the handlers for fork    *)
(* first; pthread_atfork is taken to wait for a fork that runs them, which *)
(* is what the C library did until it released its lock around handlers.   *)

Forking == {"prepare", "lockFlags", "lockShared", "forked"}

Lowest == IF anchors = {} THEN 0
          ELSE CHOOSE a \in anchors : \A b \in anchors : a <= b
Unchanged == UNCHANGED <<mutex, shared, lock, registries, values, pc, op, saved,
                         ops, aborted>>
Others(c, places) == {d \in Copy \ {c} : load[d] \in places}

\* FindAnchor.
FindAnchor(c) ==
  /\ load[c] = "unloaded"
  /\ \A t \in Thread : pc[t] \notin Forking
  /\ anchor' = [anchor EXCEPT ![c] = Lowest]
  /\ load' = [load EXCEPT ![c] = IF anchors = {} THEN "create" ELSE "publish"]
  /\ apart' = (apart \/ Others(c, {"create", "created", "publish"}) # {})
  /\ UNCHANGED <<anchors, cell, table>> /\ Unchanged

\* CreateAnchor: the system chooses the address.
CreateAnchor(c) ==
  /\ load[c] = "create"
  /\ \E a \in Address \ anchors :
       /\ anchors' = anchors \cup {a}
       /\ anchor' = [anchor EXCEPT ![c] = a]
       /\ cell' = [cell EXCEPT ![a] = "none"]
  /\ load' = [load EXCEPT ![c] = "created"]
  /\ UNCHANGED <<table, apart>> /\ Unchanged

\* There is no memory file; the table of the copy remains private.
NoAnchor(c) ==
  /\ load[c] = "create"
  /\ load' = [load EXCEPT ![c] = "loaded"]
  /\ apart' = TRUE
  /\ UNCHANGED <<anchors, cell, anchor, table>> /\ Unchanged

\* The second FindAnchor; the creator of an anchor that lost removes it.
SettleAnchor(c) ==
  /\ load[c] = "created"
  /\ anchor' = [anchor EXCEPT ![c] = Lowest]
  /\ anchors' = IF Lowest = anchor[c] THEN anchors ELSE anchors \ {anchor[c]}
  /\ load' = [load EXCEPT ![c] = "publish"]
  /\ UNCHANGED <<cell, table, apart>> /\ Unchanged

\* Variant: the table is stored without a look at what is there.
PublishBlindly(c) ==
  /\ load[c] = "publish" /\ anchor[c] \in anchors
  /\ load' = [load EXCEPT ![c] = "loaded"]
  /\ cell' = [cell EXCEPT ![anchor[c]] = c]
  /\ UNCHANGED <<anchors, anchor, table, apart>> /\ Unchanged

\* PublishSharedRegistry: a compare-and-swap, and the table of the winner.
PublishSharedRegistry(c) ==
  /\ load[c] = "publish" /\ anchor[c] \in anchors
  /\ load' = [load EXCEPT ![c] = "loaded"]
  /\ IF cell[anchor[c]] = "none"
       THEN cell' = [cell EXCEPT ![anchor[c]] = c] /\ UNCHANGED table
       ELSE table' = [table EXCEPT ![c] = cell[anchor[c]]] /\ UNCHANGED cell
  /\ UNCHANGED <<anchors, anchor, apart>> /\ Unchanged

\* The anchor that a copy found was the one its creator removed.
AnchorIsGone(c) ==
  /\ load[c] = "publish" /\ anchor[c] \notin anchors
  /\ aborted' = TRUE
  /\ UNCHANGED <<loading, mutex, shared, lock, registries, values, pc, op, saved, ops>>

Load(c) ==
  ~aborted /\ (FindAnchor(c) \/ CreateAnchor(c) \/ NoAnchor(c) \/ SettleAnchor(c)
               \/ PublishSharedRegistry(c) \/ AnchorIsGone(c))

-----------------------------------------------------------------------------
(* Operations.                                                             *)

At(t, l) == pc[t] = l /\ ~aborted
Goto(t, l) == pc' = [pc EXCEPT ![t] = l]
F(t) == op[t].flag
C(t) == CopyOf[F(t)]
Kind(t) == op[t].kind

\* Where an operation begins: with the value, or with the registry.
Direct == {"get", "set", "register"}

\* Who may begin what: a DynamicFlag is used directly by its owner only.  A
\* ScopedFlag<T> ("scope") is made of the flag itself, registered or not;
\* ScopedFlags<> ("save") takes what the registry has.
May(t, k, f) ==
  CASE k \in {"get", "set"} -> alive[f] /\ Owner[f] \in {t, NoThread}
    [] k = "register"   -> entry[f] = 0 /\ (f \in Static \/ ~alive[f])
                             /\ Owner[f] \in {t, NoThread}
                             /\ \A u \in Thread : op[u].flag # f \/ op[u].kind # k
    [] k = "unregister" -> entry[f] # 0 /\ Owner[f] = t
    [] k = "save"       -> saved[t] = NoSave
    [] k = "scope"      -> saved[t] = NoSave /\ alive[f] /\ Owner[f] \in {t, NoThread}
    [] k = "restore"    -> saved[t].flag = f
    [] k \in {"option", "environment"} -> TRUE

\* Operations that end what another one began are not counted.
Ending == {"unregister", "restore"}

\* A DynamicFlag is constructed with its value.
Begin(t, k, f) ==
  /\ At(t, "idle") /\ load[CopyOf[f]] = "loaded"
  /\ May(t, k, f)
  /\ IF k \in Ending THEN UNCHANGED ops ELSE ops < MaxOps /\ ops' = ops + 1
  /\ op' = [op EXCEPT ![t] = [kind |-> k, flag |-> f]]
  /\ Goto(t, IF k \in Direct THEN "init" ELSE "mutex")
  /\ IF k = "register" /\ f \notin Static
       THEN /\ life' = [life EXCEPT ![f] = @ + 1]
            /\ alive' = [alive EXCEPT ![f] = TRUE]
            /\ state' = [state EXCEPT ![f] = "ready"]
            /\ current' = [current EXCEPT ![f] = "initial"]
            /\ default' = [default EXCEPT ![f] = "initial"]
            /\ modified' = [modified EXCEPT ![f] = FALSE]
            /\ UNCHANGED explicit
       ELSE UNCHANGED values
  /\ UNCHANGED <<loading, mutex, shared, lock, registries, saved, aborted>>

\* RegistryMutex::lock, by threads that do not have it.
LockRegistry(t) ==
  /\ At(t, "mutex") /\ mutex[C(t)] = NoThread
  /\ mutex' = [mutex EXCEPT ![C(t)] = t]
  /\ Goto(t, "registry")
  /\ UNCHANGED <<loading, shared, lock, registries, values, op, saved, ops, aborted>>

UnlockRegistry(t) ==
  mutex' = [c \in Copy |-> IF mutex[c] = t THEN NoThread ELSE mutex[c]]
Done(t) == Goto(t, "idle") /\ op' = [op EXCEPT ![t] = NoOp]

\* Variant: the address of the flag is enough.
RegisteredAddress(s) == entry[s.flag] # 0

\* RegisteredFlagLock: the flag still has the registration that was saved; 0
\* stands for a flag that was saved before it was registered, a static one.
Registered(s) == s.registration = 0 \/ entry[s.flag] = s.registration

Found(t) == IF Kind(t) = "restore" THEN Registered(saved[t]) ELSE entry[F(t)] # 0

\* The name is not found, or the flag has another registration.
NotFound(t) ==
  /\ At(t, "registry") /\ Kind(t) \in {"option", "environment", "save", "restore"}
  /\ ~Found(t)
  /\ UnlockRegistry(t) /\ Done(t)
  /\ saved' = IF Kind(t) = "restore" THEN [saved EXCEPT ![t] = NoSave] ELSE saved
  /\ UNCHANGED <<loading, shared, lock, registries, values, ops, aborted>>

UseFound(t) ==
  /\ At(t, "registry") /\ Kind(t) \in {"option", "environment", "save", "restore"}
  /\ Found(t)
  /\ Goto(t, "init")
  /\ UNCHANGED <<loading, mutex, shared, lock, registries, values, op, saved, ops,
                 aborted>>

\* FlagRegistration, the first step of ScopedFlag<T>: 0 if there is none.
SaveRegistration(t) ==
  /\ At(t, "registry") /\ Kind(t) = "scope"
  /\ saved' = [saved EXCEPT ![t].registration = entry[F(t)]]
  /\ UnlockRegistry(t) /\ Goto(t, "init")
  /\ UNCHANGED <<loading, shared, lock, registries, values, op, ops, aborted>>

-----------------------------------------------------------------------------
(* AtomicFlagValueStorage.                                                 *)

LoadState(t) ==
  /\ At(t, "init")
  /\ Goto(t, IF state[F(t)] = "ready" THEN "value" ELSE "claim")
  /\ UNCHANGED <<loading, mutex, shared, lock, registries, values, op, saved, ops,
                 aborted>>

\* The default was computed; a compare-and-swap decides who stores it.
Claim(t) ==
  /\ At(t, "claim")
  /\ IF state[F(t)] = "uninitialized"
       THEN /\ state' = [state EXCEPT ![F(t)] = "initializing"]
            /\ Goto(t, "store")
       ELSE Goto(t, "spin") /\ UNCHANGED state
  /\ UNCHANGED <<loading, mutex, shared, lock, registries, life, alive, current,
                 default, modified, explicit, op, saved, ops, aborted>>

StoreInitial(t) ==
  /\ At(t, "store")
  /\ current' = [current EXCEPT ![F(t)] = "initial"]
  /\ default' = [default EXCEPT ![F(t)] = "initial"]
  /\ state' = [state EXCEPT ![F(t)] = "ready"]
  /\ Goto(t, "value")
  /\ UNCHANGED <<loading, mutex, shared, lock, registries, life, alive, modified,
                 explicit, op, saved, ops, aborted>>

\* Variant: a thread that lost the claim goes on.
SpinNever(t) ==
  /\ At(t, "spin")
  /\ Goto(t, "value")
  /\ UNCHANGED <<loading, mutex, shared, lock, registries, values, op, saved, ops,
                 aborted>>

Spin(t) ==
  /\ At(t, "spin") /\ state[F(t)] = "ready"
  /\ Goto(t, "value")
  /\ UNCHANGED <<loading, mutex, shared, lock, registries, values, op, saved, ops,
                 aborted>>

\* Get, for the caller or for what saves the flag.
Read(t) ==
  /\ At(t, "value") /\ Kind(t) \in {"get", "save", "scope"}
  /\ op' = [op EXCEPT ![t] = IF Kind(t) = "get" THEN NoOp ELSE @]
  /\ Goto(t, IF Kind(t) = "get" THEN "idle" ELSE "lock")
  /\ saved' = IF Kind(t) = "get" THEN saved
              ELSE [saved EXCEPT ![t].value = current[F(t)]]
  /\ UNCHANGED <<loading, mutex, shared, lock, registries, values, ops, aborted>>

\* RegisterFlag has initialized the value.
Registering(t) ==
  /\ At(t, "value") /\ Kind(t) = "register"
  /\ Goto(t, "mutex")
  /\ UNCHANGED <<loading, mutex, shared, lock, registries, values, op, saved, ops,
                 aborted>>

\* FlagSpinLock::lock, for the writers and ExplicitlySet.
LockValue(t) ==
  /\ \/ At(t, "value") /\ Kind(t) \in {"set", "option", "environment", "restore"}
     \/ At(t, "lock")
  /\ lock[F(t)] = NoThread
  /\ lock' = [lock EXCEPT ![F(t)] = t]
  /\ Goto(t, "locked")
  /\ UNCHANGED <<loading, mutex, shared, registries, values, op, saved, ops, aborted>>

\* Set, SetDefault and Restore.
Assign(f, value, set) ==
  /\ current' = [current EXCEPT ![f] = value]
  /\ modified' = [modified EXCEPT ![f] = set]
  /\ explicit' = [explicit EXCEPT ![f] = value]
  /\ UNCHANGED default

\* Variant: the current value always follows.
SetDefaultAlways(f, value) ==
  /\ default' = [default EXCEPT ![f] = value]
  /\ current' = [current EXCEPT ![f] = value]
  /\ UNCHANGED <<modified, explicit>>

SetDefault(f, value) ==
  /\ default' = [default EXCEPT ![f] = value]
  /\ current' = [current EXCEPT ![f] = IF modified[f] THEN @ ELSE value]
  /\ UNCHANGED <<modified, explicit>>

Write(t) ==
  /\ At(t, "locked") /\ Kind(t) \notin {"save", "scope"}
  /\ CASE Kind(t) \in {"set", "option"} -> Assign(F(t), Kind(t), TRUE)
       [] Kind(t) = "environment" -> SetDefault(F(t), Kind(t))
       [] Kind(t) = "restore" -> Assign(F(t), saved[t].value, saved[t].set)
  /\ lock' = [lock EXCEPT ![F(t)] = NoThread]
  /\ saved' = IF Kind(t) = "restore" THEN [saved EXCEPT ![t] = NoSave] ELSE saved
  /\ UnlockRegistry(t) /\ Done(t)
  /\ UNCHANGED <<loading, shared, registries, life, alive, state, ops, aborted>>

\* ExplicitlySet ends the saving of a flag: ScopedFlags<> has the registry, and
\* its operation ends; ScopedFlag<T> has the registration it read before the
\* value, and goes on to Apply, which sets the flag.
Save(t) ==
  /\ At(t, "locked") /\ Kind(t) \in {"save", "scope"}
  /\ saved' = [saved EXCEPT ![t] =
                  [flag |-> F(t), life |-> life[F(t)], value |-> @.value,
                   registration |-> IF Kind(t) = "save" THEN entry[F(t)] ELSE @.registration,
                   set |-> modified[F(t)]]]
  /\ lock' = [lock EXCEPT ![F(t)] = NoThread]
  /\ UnlockRegistry(t)
  /\ IF Kind(t) = "save"
       THEN Done(t)
       ELSE Goto(t, "init") /\ op' = [op EXCEPT ![t] = [kind |-> "set", flag |-> F(t)]]
  /\ UNCHANGED <<loading, shared, registries, values, ops, aborted>>

-----------------------------------------------------------------------------
(* RegisterFlag and UnregisterFlag; names that a copy or another copy has  *)
(* end the process.                                                        *)

Taken(t) == {f \in Flag \ {F(t)} : NameOf[f] = NameOf[F(t)]}

LockShared(t) ==
  /\ At(t, "registry") /\ Kind(t) \in {"register", "unregister"}
  /\ shared[table[C(t)]] = NoThread
  /\ shared' = [shared EXCEPT ![table[C(t)]] = t]
  /\ Goto(t, "shared")
  /\ UNCHANGED <<loading, mutex, lock, registries, values, op, saved, ops, aborted>>

UnlockShared(t) == shared' = [shared EXCEPT ![table[C(t)]] = NoThread]

Register(t) ==
  /\ At(t, "shared") /\ Kind(t) = "register"
  /\ aborted' = (names[table[C(t)]] \cap Taken(t) # {})
  /\ names' = [names EXCEPT ![table[C(t)]] = @ \cup {F(t)}]
  /\ entry' = [entry EXCEPT ![F(t)] = nextRegistration[C(t)]]
  /\ nextRegistration' = [nextRegistration EXCEPT ![C(t)] = @ + 1]
  /\ UnlockShared(t) /\ UnlockRegistry(t) /\ Done(t)
  /\ UNCHANGED <<loading, lock, values, saved, ops>>

\* The destructor of a DynamicFlag: UnregisterFlag, then DestroyValues.
Unregister(t) ==
  /\ At(t, "shared") /\ Kind(t) = "unregister"
  /\ names' = [names EXCEPT ![table[C(t)]] = @ \ {F(t)}]
  /\ entry' = [entry EXCEPT ![F(t)] = 0]
  /\ alive' = [alive EXCEPT ![F(t)] = FALSE]
  /\ UnlockShared(t) /\ UnlockRegistry(t) /\ Done(t)
  /\ UNCHANGED <<loading, lock, nextRegistration, life, state, current, default,
                 modified, explicit, saved, ops, aborted>>

-----------------------------------------------------------------------------
(* fork: PrepareFork of every copy, then ResumeAfterFork of every copy, in *)
(* the parent and in the child.                                            *)

\* Copies whose handlers run, and those whose handlers ran: they have the
\* locks of their registries.
Prepared(t) == {c \in Copy : mutex[c] = t}
Installed == {c \in Copy : load[c] # "unloaded"}
NextCopy(t) ==
  CHOOSE c \in Installed \ Prepared(t) :
    \A d \in Installed \ Prepared(t) : c = d \/ Before(c, d)
FlagsOf(c) == {f \in Flag : CopyOf[f] = c /\ entry[f] # 0}

BeginFork(t) ==
  /\ At(t, "idle") /\ ops < MaxOps /\ Installed # {}
  /\ ops' = ops + 1
  /\ Goto(t, "prepare")
  /\ UNCHANGED <<loading, mutex, shared, lock, registries, values, op, saved, aborted>>

LockForFork(t) ==
  /\ At(t, "prepare") /\ Installed \ Prepared(t) # {}
  /\ mutex[NextCopy(t)] = NoThread /\ load[NextCopy(t)] = "loaded"
  /\ mutex' = [mutex EXCEPT ![NextCopy(t)] = t]
  /\ Goto(t, "lockFlags")
  /\ UNCHANGED <<loading, shared, lock, registries, values, op, saved, ops, aborted>>

Unlocked(t) == {f \in UNION {FlagsOf(c) : c \in Prepared(t)} : lock[f] # t}

LockFlagForFork(t) ==
  /\ At(t, "lockFlags")
  /\ \E f \in Unlocked(t) :
       lock[f] = NoThread /\ lock' = [lock EXCEPT ![f] = t]
  /\ UNCHANGED <<loading, mutex, shared, registries, values, pc, op, saved, ops,
                 aborted>>

\* Variant: the values are not locked.
FlagsLockedAtOnce(t) ==
  /\ At(t, "lockFlags")
  /\ Goto(t, "lockShared")
  /\ UNCHANGED <<loading, mutex, shared, lock, registries, values, op, saved, ops,
                 aborted>>

FlagsLocked(t) ==
  /\ At(t, "lockFlags") /\ Unlocked(t) = {}
  /\ Goto(t, "lockShared")
  /\ UNCHANGED <<loading, mutex, shared, lock, registries, values, op, saved, ops,
                 aborted>>

\* The copy whose handler runs is the last of those prepared.
Preparing(t) ==
  CHOOSE c \in Prepared(t) : \A d \in Prepared(t) : c = d \/ Before(d, c)

\* LockProcessFlagRegistryForFork.
LockSharedForFork(t) ==
  /\ At(t, "lockShared") /\ shared[table[Preparing(t)]] = NoThread
  /\ shared' = [shared EXCEPT ![table[Preparing(t)]] = t]
  /\ Goto(t, "prepare")
  /\ UNCHANGED <<loading, mutex, lock, registries, values, op, saved, ops, aborted>>

\* fork(), at which the child gets every lock as it is.
Fork(t) ==
  /\ At(t, "prepare") /\ Installed \subseteq Prepared(t)
  /\ Goto(t, "forked")
  /\ UNCHANGED <<loading, mutex, shared, lock, registries, values, op, saved, ops,
                 aborted>>

ResumeAfterFork(t) ==
  /\ At(t, "forked")
  /\ UnlockRegistry(t)
  /\ shared' = [c \in Copy |-> IF shared[c] = t THEN NoThread ELSE shared[c]]
  /\ lock' = [f \in Flag |-> IF lock[f] = t THEN NoThread ELSE lock[f]]
  /\ Done(t)
  /\ UNCHANGED <<loading, registries, values, saved, ops, aborted>>

Kinds == {"get", "set", "register", "unregister", "option", "environment",
          "save", "scope", "restore"}

Step(t) ==
  \/ \E k \in Kinds, f \in Flag : Begin(t, k, f)
  \/ LockRegistry(t) \/ NotFound(t) \/ UseFound(t) \/ SaveRegistration(t)
  \/ LoadState(t) \/ Claim(t) \/ StoreInitial(t) \/ Spin(t)
  \/ Read(t) \/ Registering(t) \/ LockValue(t) \/ Write(t) \/ Save(t)
  \/ LockShared(t) \/ Register(t) \/ Unregister(t)
  \/ BeginFork(t) \/ LockForFork(t) \/ LockFlagForFork(t) \/ FlagsLocked(t)
  \/ LockSharedForFork(t) \/ Fork(t) \/ ResumeAfterFork(t)

Next == (\E c \in Copy : Load(c)) \/ (\E t \in Thread : Step(t))
Spec == Init /\ [][Next]_vars

-----------------------------------------------------------------------------
(* Properties.                                                             *)

\* "a default never replaces an explicitly set value" (flags.h:208): neither an
\* environment default nor the first computation of the default, whatever other
\* threads do between the test and the store.
ExplicitKept ==
  \A f \in Flag : alive[f] /\ modified[f] => current[f] = explicit[f]

\* Nobody reads a value before the default function has provided one.
ReadsAreInitialized ==
  \A t \in Thread :
    At(t, "value") \/ At(t, "locked") => current[F(t)] # "unset"

\* "The value is not restored if the flag was destroyed or replaced in the
\* meantime" (flags.h:717), whether its registration was read together with its
\* value (ScopedFlags<>) or before it and without the registry's lock
\* (ScopedFlag<T>), and nobody uses the value of a flag that another thread has
\* destroyed.
LifetimeRespected ==
  \A t \in Thread :
    pc[t] \in {"init", "claim", "store", "spin", "value", "lock", "locked"} =>
      /\ alive[F(t)]
      /\ Kind(t) = "restore" => life[F(t)] = saved[t].life

\* "so that the child never inherits a lock held by a thread that does not
\* exist there" (flag_registry.cc:201), as far as the flags are registered, nor
\* a registered flag whose initialization nobody finishes.
ChildInheritsNothing ==
  \A t \in Thread :
    At(t, "forked") =>
      /\ \A c \in Installed : mutex[c] = t /\ shared[table[c]] \in {t, NoThread}
      /\ \A f \in Flag :
           entry[f] # 0 => lock[f] \in {t, NoThread} /\ state[f] = "ready"

\* Copies of the library that were loaded one after the other have one table,
\* and a name is registered by one flag of one copy.
NamesAreUnique ==
  ~aborted /\ ~apart =>
    \A f, g \in Flag : f # g /\ entry[f] # 0 /\ entry[g] # 0 => NameOf[f] # NameOf[g]

\* "Takes every lock that protects flags before the process forks"
\* (flag_registry.cc:201): no lock that the forking thread has already.
ForkTakesLocksOnce ==
  \A t \in Thread : At(t, "lockShared") => shared[table[Preparing(t)]] # t
=============================================================================
