---------------------------- MODULE Flags_proofs ----------------------------
(* Proofs about the flags: values, lifetimes, names and fork, for any      *)
(* number of threads, flags and copies of the library.                     *)
(*                                                                         *)
(* What holds of a thread is stated for one thread, in terms of what the   *)
(* steps of the others leave to it (Guarantee): each action is shown to    *)
(* keep that for its own thread, and one lemma shows it for all others.    *)
EXTENDS Flags, TLAPS

Using == {"init", "claim", "store", "spin", "value", "lock", "locked"}
\* The operations that find their flag in the registry, and keep its lock.
Looking == {"option", "environment", "save", "restore"}
\* Those that a DynamicFlag allows to its owner only, and those that save a value.
Owning == Direct \cup {"scope"}
Saving == {"save", "scope"}

HoldsMutex(t) ==
  \/ pc[t] \in {"registry", "shared"}
  \/ pc[t] \in Using /\ Kind(t) \in Looking

TypeOK ==
  /\ load \in [Copy -> {"unloaded", "create", "created", "publish", "loaded"}]
  /\ anchors \subseteq Address /\ cell \in [Address -> Copy \cup {"none"}]
  /\ DOMAIN anchor = Copy /\ table \in [Copy -> Copy]
  /\ mutex \in [Copy -> Thread \cup {NoThread}]
  /\ shared \in [Copy -> Thread \cup {NoThread}]
  /\ lock \in [Flag -> Thread \cup {NoThread}]
  /\ entry \in [Flag -> Nat] /\ nextRegistration \in [Copy -> Nat \ {0}]
  /\ names \in [Copy -> SUBSET Flag]
  /\ DOMAIN life = Flag /\ DOMAIN alive = Flag
  /\ state \in [Flag -> {"uninitialized", "initializing", "ready"}]
  /\ DOMAIN current = Flag /\ DOMAIN default = Flag
  /\ DOMAIN modified = Flag /\ DOMAIN explicit = Flag
  /\ DOMAIN pc = Thread /\ DOMAIN op = Thread /\ DOMAIN saved = Thread

-----------------------------------------------------------------------------
(* What holds of a thread.                                                 *)

\* What it does, at which place.
Operates(t) ==
  /\ pc[t] \in {"idle"} \cup Forking => op[t] = NoOp
  /\ pc[t] \notin {"idle"} \cup Forking =>
       F(t) \in Flag /\ Kind(t) \in Kinds /\ load[C(t)] = "loaded"
  /\ pc[t] \in Using => Kind(t) # "unregister"
  /\ pc[t] \in {"mutex", "registry"} => Kind(t) \in Looking \cup {"register", "unregister", "scope"}
  /\ pc[t] = "shared" => Kind(t) \in {"register", "unregister"}
  /\ pc[t] = "lock" => Kind(t) \in Saving
  /\ pc[t] = "locked" => Kind(t) \in Looking \cup {"set", "scope"}
  /\ Kind(t) \in Owning => Owner[F(t)] \in {t, NoThread}
  /\ Kind(t) = "unregister" => Owner[F(t)] = t
  /\ Kind(t) = "restore" => saved[t].flag = F(t)
  /\ Kind(t) \in Saving => saved[t].flag = NoFlag

\* Which locks it has.
Locks(t) ==
  /\ HoldsMutex(t) => mutex[C(t)] = t
  /\ \A c \in Copy : mutex[c] = t => pc[t] \in Forking \/ (HoldsMutex(t) /\ c = C(t))
  /\ pc[t] = "locked" => lock[F(t)] = t
  /\ \A f \in Flag : lock[f] = t => pc[t] \in Forking \/ (pc[t] = "locked" /\ f = F(t))
  /\ pc[t] = "shared" => shared[table[C(t)]] = t
  /\ \A c \in Copy : shared[c] = t =>
       pc[t] \in Forking \/ (pc[t] = "shared" /\ c = table[C(t)])
  /\ pc[t] \in {"lockFlags", "lockShared"} \/ (\E c \in Copy : shared[c] = t) =>
       \E c \in Copy : mutex[c] = t

\* While it forks: every flag of a registry that it locked is locked, but for the
\* registry whose handler runs.
Forks(t) ==
  /\ pc[t] \in {"prepare", "lockShared", "forked"} =>
       \A f \in Flag : entry[f] # 0 /\ mutex[CopyOf[f]] = t => lock[f] = t
  /\ pc[t] = "forked" => \A c \in Installed : mutex[c] = t

\* The value it uses: one thread initializes it.
Initializes(t) ==
  /\ pc[t] \in {"value", "lock", "locked"} => state[F(t)] = "ready"
  /\ pc[t] \in {"mutex", "registry", "shared"} /\ Kind(t) = "register" =>
       state[F(t)] = "ready"
  /\ pc[t] = "store" =>
       /\ state[F(t)] = "initializing"
       /\ \A u \in Thread : pc[u] = "store" /\ F(u) = F(t) => u = t

\* The flag it uses is alive, or it has looked for it; only of a static flag can
\* a ScopedFlag<T> find no registration.
Reaches(t) ==
  /\ Kind(t) \in Owning => alive[F(t)]
  /\ pc[t] \in Using /\ Kind(t) \in Looking => Found(t)
  /\ pc[t] \in Using /\ Kind(t) = "scope" =>
       /\ saved[t].registration \in Nat
       /\ saved[t].registration < nextRegistration[C(t)]
       /\ saved[t].registration = 0 => F(t) \in Static

\* The DynamicFlags it has are registered, but for the one it constructs.
Owns(t) ==
  \A f \in Flag : Owner[f] = t /\ alive[f] =>
    entry[f] # 0 \/ (Kind(t) = "register" /\ F(t) = f)

\* What it saved: the registration tells the life of the flag, and a static flag
\* has one life.
Saves(t) ==
  /\ saved[t] = [flag |-> saved[t].flag, registration |-> saved[t].registration,
                 life |-> saved[t].life, value |-> saved[t].value, set |-> saved[t].set]
  /\ saved[t].value # "unset"
  /\ saved[t].flag # NoFlag =>
       /\ saved[t].flag \in Flag
       /\ saved[t].registration \in Nat
       /\ saved[t].registration < nextRegistration[CopyOf[saved[t].flag]]
       /\ saved[t].registration = 0 => saved[t].flag \in Static
       /\ saved[t].flag \in Static => saved[t].life = 0
       /\ saved[t].registration # 0 /\ entry[saved[t].flag] = saved[t].registration =>
            life[saved[t].flag] = saved[t].life

Local(t) ==
  /\ Operates(t) /\ Locks(t) /\ Forks(t) /\ Initializes(t)
  /\ Reaches(t) /\ Owns(t) /\ Saves(t)

-----------------------------------------------------------------------------
(* What holds of flags, names and copies.                                  *)

ValueInv ==
  \A f \in Flag :
    /\ state[f] = "ready" => current[f] # "unset"
    /\ modified[f] => state[f] = "ready" /\ current[f] = explicit[f]

EntryInv ==
  \A f \in Flag :
    /\ entry[f] # 0 =>
         /\ alive[f] /\ state[f] = "ready"
         /\ load[CopyOf[f]] = "loaded" /\ f \in names[table[CopyOf[f]]]
    /\ entry[f] < nextRegistration[CopyOf[f]]
    /\ f \in Static => alive[f] /\ life[f] = 0

NameInv ==
  ~aborted => \A c \in Copy : \A f, g \in names[c] : NameOf[f] = NameOf[g] => f = g

MutexInv == \A c \in Copy : mutex[c] # NoThread => load[c] = "loaded"

\* Copies that are loaded one after the other have one anchor and one table.
LoadInv ==
  /\ \A c \in Copy : load[c] # "loaded" => table[c] = c
  /\ ~apart =>
       /\ \A a, b \in anchors : a = b
       /\ \A c \in Copy :
            /\ load[c] = "create" => anchors = {}
            /\ load[c] \in {"created", "publish"} => anchor[c] \in anchors
            /\ load[c] = "loaded" =>
                 anchors # {} /\ \A a \in anchors : cell[a] = table[c]
       /\ \A c, d \in Copy :
            {load[c], load[d]} \subseteq {"create", "created", "publish"} => c = d

Global == ValueInv /\ EntryInv /\ NameInv /\ MutexInv /\ LoadInv

IInv == TypeOK /\ Global /\ \A t \in Thread : Local(t)

-----------------------------------------------------------------------------
(* Facts for the provers.                                                  *)

\* Truth values as values of variables and of functions.
LEMMA TrueHolds == \A x : x = TRUE => x
BY Zenon
LEMMA FalseFails == \A x : x = FALSE => ~x
BY Zenon

LEMMA Typing ==
  ASSUME TypeOK, NEW f \in Flag
  PROVE  CopyOf[f] \in Copy /\ table[CopyOf[f]] \in Copy
BY FlagAssumption DEF TypeOK

\* A step of t, seen by the others.
Guarantee(t) ==
  /\ UNCHANGED <<load, table>>
  /\ \A u \in Thread \ {t} :
       /\ pc'[u] = pc[u] /\ op'[u] = op[u] /\ saved'[u] = saved[u]
       /\ \A c \in Copy : /\ mutex'[c] = u <=> mutex[c] = u
                          /\ shared'[c] = u <=> shared[c] = u
       /\ \A f \in Flag : lock'[f] = u <=> lock[f] = u
  /\ \A f \in Flag :
       /\ state[f] = "ready" => state'[f] = "ready"
       /\ state[f] = "initializing" =>
            state'[f] = "initializing" \/ (pc[t] = "store" /\ F(t) = f) \/ ~alive[f]
       /\ alive[f] => alive'[f] \/ (Owner[f] = t /\ mutex[CopyOf[f]] = t)
       /\ entry'[f] = entry[f] \/
            (mutex[CopyOf[f]] = t /\ entry'[f] \in {0, nextRegistration[CopyOf[f]]})
       /\ life'[f] = life[f] \/ entry'[f] = 0
       /\ Owner[f] \notin {t, NoThread} =>
            (alive'[f] => alive[f]) /\ entry'[f] = entry[f]
  /\ pc'[t] = "store" => state[F(t)'] = "uninitialized"
  /\ \A c \in Copy : nextRegistration'[c] >= nextRegistration[c]

\* The flag that an operation found in the registry is alive.
LEMMA FoundIsAlive ==
  ASSUME TypeOK, EntryInv, NEW t \in Thread, Local(t), pc[t] \in Using, Kind(t) \in Looking
  PROVE  alive[F(t)]
<1>1. F(t) \in Flag /\ Found(t)
  BY DEF Local, Operates, Reaches, Using, Forking
<1>2. Kind(t) = "restore" =>
        /\ saved[t].flag = F(t) /\ F(t) # NoFlag
        /\ saved[t].registration = 0 => F(t) \in Static
  BY <1>1, FlagAssumption DEF Local, Operates, Saves
<1>. QED BY <1>1, <1>2 DEF Found, Registered, EntryInv

\* The steps of a thread leave to the others what they rely on.
LEMMA OthersKeep ==
  ASSUME TypeOK, TypeOK', EntryInv, NEW t \in Thread, Guarantee(t),
         NEW u \in Thread, u # t, Local(u), Local(t)
  PROVE  Local(u)'
<1>. USE DEF Local
<1>1. /\ pc'[u] = pc[u] /\ op'[u] = op[u] /\ saved'[u] = saved[u]
      /\ \A c \in Copy : /\ mutex'[c] = u <=> mutex[c] = u
                         /\ shared'[c] = u <=> shared[c] = u
      /\ \A f \in Flag : lock'[f] = u <=> lock[f] = u
      /\ UNCHANGED <<load, table>>
  BY DEF Guarantee
<1>2. F(u)' = F(u) /\ Kind(u)' = Kind(u) /\ C(u)' = C(u) /\ (HoldsMutex(u)' <=> HoldsMutex(u))
  BY <1>1 DEF F, Kind, C, HoldsMutex
<1>3. Operates(u)'
  BY <1>1, <1>2 DEF Operates
<1>5. \A f \in Flag : mutex[CopyOf[f]] = u => entry'[f] = entry[f]
  BY FlagAssumption DEF Guarantee
<1>7. pc[u] \notin {"idle"} \cup Forking =>
        F(u) \in Flag /\ Kind(u) \in Kinds /\ C(u) = CopyOf[F(u)] /\ C(u) \in Copy
  BY Typing DEF Operates, C
<1>4. Locks(u)'
  <2>1. HoldsMutex(u) => C(u) \in Copy
    BY <1>7 DEF HoldsMutex, Using, Forking
  <2>2. pc[u] = "locked" => F(u) \in Flag
    BY <1>7 DEF Forking
  <2>3. /\ HoldsMutex(u) => mutex'[C(u)] = u
        /\ \A c \in Copy : mutex'[c] = u => pc[u] \in Forking \/ (HoldsMutex(u) /\ c = C(u))
    BY <1>1, <2>1 DEF Locks
  <2>4. /\ pc[u] = "locked" => lock'[F(u)] = u
        /\ \A f \in Flag : lock'[f] = u => pc[u] \in Forking \/ (pc[u] = "locked" /\ f = F(u))
    BY <1>1, <2>2 DEF Locks
  <2>5. /\ \A c \in Copy : shared'[c] = u =>
             pc[u] \in Forking \/ (pc[u] = "shared" /\ c = table[C(u)])
        /\ pc[u] \in {"lockFlags", "lockShared"} \/ (\E c \in Copy : shared'[c] = u) =>
             \E c \in Copy : mutex'[c] = u
    BY <1>1 DEF Locks
  <2>6. pc[u] = "shared" => shared'[table[C(u)]] = u
    <3>1. pc[u] = "shared" => table[C(u)] \in Copy
      BY <1>7 DEF Forking, TypeOK
    <3>. QED BY <1>1, <3>1 DEF Locks
  <2>. QED BY <1>1, <1>2, <2>3, <2>4, <2>5, <2>6 DEF Locks
<1>6. Forks(u)'
  <2>1. Installed' = Installed
    BY <1>1 DEF Installed
  <2>2. \A f \in Flag : CopyOf[f] \in Copy
    BY Typing
  <2>3. pc[u] \in {"prepare", "lockShared", "forked"} =>
          \A f \in Flag : entry'[f] # 0 /\ mutex'[CopyOf[f]] = u => lock'[f] = u
    BY <1>1, <1>5, <2>2 DEF Forks
  <2>4. pc[u] = "forked" => \A c \in Installed : mutex'[c] = u
    BY <1>1 DEF Forks, Installed
  <2>. QED BY <1>1, <2>1, <2>3, <2>4 DEF Forks
<1>8. Initializes(u)'
  <2>1. ASSUME \/ pc[u] \in {"value", "lock", "locked"}
               \/ pc[u] \in {"mutex", "registry", "shared"} /\ Kind(u) = "register"
        PROVE  state'[F(u)] = "ready"
    <3>1. F(u) \in Flag
      BY <1>7, <2>1 DEF Forking
    <3>. QED BY <2>1, <3>1 DEF Initializes, Guarantee
  <2>2. ASSUME pc[u] = "store"
        PROVE  /\ state'[F(u)] = "initializing"
               /\ \A v \in Thread : pc'[v] = "store" /\ F(v)' = F(u) => v = u
    <3>1. F(u) \in Flag /\ Kind(u) \in Kinds
      BY <1>7, <2>2 DEF Forking
    <3>2. alive[F(u)]
      <4>1. CASE Kind(u) \in Owning
        BY <4>1 DEF Reaches
      <4>2. CASE Kind(u) \in Looking
        BY <2>2, <3>1, <4>2, FoundIsAlive DEF Using
      <4>3. Kind(u) \in Owning \cup Looking
        BY <2>2, <3>1 DEF Operates, Kinds, Owning, Direct, Looking, Using
      <4>. QED BY <4>1, <4>2, <4>3
    <3>3. state[F(u)] = "initializing" /\ ~(pc[t] = "store" /\ F(t) = F(u))
      BY <2>2 DEF Initializes
    <3>4. state'[F(u)] = "initializing"
      BY <3>1, <3>2, <3>3 DEF Guarantee
    <3>5. ASSUME NEW v \in Thread, pc'[v] = "store", F(v)' = F(u)
          PROVE  v = u
      <4>1. CASE v = t
        BY <3>3, <3>5, <4>1 DEF Guarantee
      <4>2. CASE v # t
        <5>1. pc[v] = "store" /\ F(v) = F(u)
          BY <3>5, <4>2 DEF Guarantee, F
        <5>. QED BY <2>2, <5>1 DEF Initializes
      <4>. QED BY <4>1, <4>2
    <3>. QED BY <3>4, <3>5
  <2>. QED BY <1>1, <1>2, <2>1, <2>2 DEF Initializes
<1>9. Reaches(u)'
  <2>1. ASSUME Kind(u) \in Owning
        PROVE  alive'[F(u)]
    <3>1. pc[u] \notin {"idle"} \cup Forking
      BY <2>1 DEF Operates, NoOp, Kind, Owning, Direct
    <3>2. Owner[F(u)] \in {u, NoThread} /\ alive[F(u)] /\ F(u) \in Flag
      BY <1>7, <2>1, <3>1 DEF Operates, Reaches
    <3>. QED BY <3>2, FlagAssumption DEF Guarantee
  <2>2. ASSUME pc[u] \in Using, Kind(u) \in Looking
        PROVE  Found(u)'
    <3>1. mutex[C(u)] = u
      BY <2>2 DEF Locks, HoldsMutex
    <3>2. pc[u] \notin {"idle"} \cup Forking
      BY <2>2 DEF Using, Forking
    <3>3. entry'[F(u)] = entry[F(u)]
      BY <1>5, <1>7, <3>1, <3>2
    <3>4. Found(u) /\ (Kind(u) = "restore" => saved[u].flag = F(u))
      BY <2>2 DEF Reaches, Operates
    <3>. QED BY <1>1, <1>2, <3>3, <3>4 DEF Found, Registered
  <2>3. ASSUME pc[u] \in Using, Kind(u) = "scope"
        PROVE  saved[u].registration < nextRegistration'[C(u)]
    <3>1. C(u) \in Copy
      BY <1>7, <2>3 DEF Using, Forking
    <3>2. nextRegistration[C(u)] \in Nat /\ nextRegistration'[C(u)] \in Nat
      BY <3>1 DEF TypeOK
    <3>. QED BY <2>3, <3>1, <3>2 DEF Reaches, Guarantee
  <2>. QED BY <1>1, <1>2, <2>1, <2>2, <2>3 DEF Reaches
<1>11. Owns(u)'
  BY <1>1, <1>2, FlagAssumption DEF Owns, Guarantee
<1>10. Saves(u)'
  <2>. DEFINE f == saved[u].flag
              r == saved[u].registration
  <2>. SUFFICES ASSUME f # NoFlag
               PROVE  /\ r < nextRegistration'[CopyOf[f]]
                      /\ r # 0 /\ entry'[f] = r => life'[f] = saved[u].life
    BY <1>1 DEF Saves
  <2>1. /\ f \in Flag /\ r \in Nat /\ r < nextRegistration[CopyOf[f]]
        /\ r # 0 /\ entry[f] = r => life[f] = saved[u].life
    BY DEF Saves
  <2>2. CopyOf[f] \in Copy
    BY <2>1, Typing
  <2>3. nextRegistration[CopyOf[f]] \in Nat /\ nextRegistration'[CopyOf[f]] \in Nat
    BY <2>2 DEF TypeOK
  <2>4. nextRegistration'[CopyOf[f]] >= nextRegistration[CopyOf[f]]
    BY <2>2 DEF Guarantee
  <2>5. entry'[f] = entry[f] \/ entry'[f] \in {0, nextRegistration[CopyOf[f]]}
    BY <2>1 DEF Guarantee
  <2>6. life'[f] = life[f] \/ entry'[f] = 0
    BY <2>1 DEF Guarantee
  <2>. QED BY <2>1, <2>3, <2>4, <2>5, <2>6
<1>. QED BY <1>3, <1>4, <1>6, <1>8, <1>9, <1>10, <1>11

-----------------------------------------------------------------------------
(* Steps that change neither flags, nor registries, nor copies.            *)

LEMMA QuietStep ==
  ASSUME TypeOK, Global, NEW t \in Thread, pc'[t] # "store",
         UNCHANGED <<loading, registries, values, aborted>>,
         DOMAIN pc' = Thread, DOMAIN op' = Thread, DOMAIN saved' = Thread,
         \A u \in Thread : u # t => pc'[u] = pc[u] /\ op'[u] = op[u] /\ saved'[u] = saved[u],
         mutex' \in [Copy -> Thread \cup {NoThread}],
         \A c \in Copy : \/ mutex'[c] = mutex[c]
                         \/ mutex[c] = NoThread /\ mutex'[c] = t /\ load[c] = "loaded"
                         \/ mutex[c] = t /\ mutex'[c] = NoThread,
         shared' \in [Copy -> Thread \cup {NoThread}],
         \A c \in Copy : shared'[c] = shared[c] \/ {shared[c], shared'[c]} \subseteq {t, NoThread},
         lock' \in [Flag -> Thread \cup {NoThread}],
         \A f \in Flag : lock'[f] = lock[f] \/ {lock[f], lock'[f]} \subseteq {t, NoThread}
  PROVE  TypeOK' /\ Global' /\ Guarantee(t)
<1>. USE DEF loading, registries, values
<1>2. TypeOK'
  BY DEF TypeOK
<1>3. MutexInv'
  <2>1. \A c \in Copy : mutex'[c] # NoThread => mutex[c] # NoThread \/ load[c] = "loaded"
    OBVIOUS
  <2>. QED BY <2>1 DEF Global, MutexInv
<1>4. ValueInv' /\ EntryInv' /\ NameInv' /\ LoadInv'
  BY DEF Global, ValueInv, EntryInv, NameInv, LoadInv
<1>5. Guarantee(t)
  <2>1. ASSUME NEW u \in Thread, u # t
        PROVE  /\ \A c \in Copy : /\ mutex'[c] = u <=> mutex[c] = u
                                  /\ shared'[c] = u <=> shared[c] = u
               /\ \A f \in Flag : lock'[f] = u <=> lock[f] = u
    BY <2>1, FlagAssumption
  <2>2. \A c \in Copy : nextRegistration[c] \in Nat
    BY DEF TypeOK
  <2>. QED BY <2>1, <2>2 DEF Guarantee
<1>. QED BY <1>2, <1>3, <1>4, <1>5 DEF Global

LEMMA OwnsSame ==
  ASSUME NEW t \in Thread, Owns(t), op'[t] = op[t] \/ Kind(t) # "register",
         UNCHANGED <<entry, alive>>
  PROVE  Owns(t)'
<1>1. op'[t] = op[t] => F(t)' = F(t) /\ Kind(t)' = Kind(t)
  BY DEF F, Kind
<1>. QED BY <1>1 DEF Owns

LEMMA SavesSame ==
  ASSUME NEW t \in Thread, Saves(t), saved'[t] = saved[t],
         UNCHANGED <<entry, nextRegistration, life>>
  PROVE  Saves(t)'
BY DEF Saves

LEMMA ReachesSame ==
  ASSUME NEW t \in Thread, Reaches(t), op'[t] = op[t], saved'[t] = saved[t],
         UNCHANGED <<entry, nextRegistration, alive>>, pc'[t] \in Using => pc[t] \in Using
  PROVE  Reaches(t)'
<1>1. F(t)' = F(t) /\ Kind(t)' = Kind(t) /\ C(t)' = C(t)
  BY DEF F, Kind, C
<1>2. Found(t)' <=> Found(t)
  BY <1>1 DEF Found, Registered
<1>. QED BY <1>1, <1>2 DEF Reaches

\* A thread that goes on with its operation and its locks.
LEMMA Moves ==
  ASSUME TypeOK, Global, NEW t \in Thread, Local(t), NEW to, to # "store",
         pc' = [pc EXCEPT ![t] = to],
         UNCHANGED <<loading, registries, values, op, saved, aborted, mutex, shared, lock>>,
         Operates(t)', HoldsMutex(t)' <=> HoldsMutex(t),
         pc[t] \notin {"shared", "locked"} \cup Forking \/ {pc[t], to} \subseteq Forking,
         to \notin {"lockFlags", "shared", "locked"},
         to = "lockShared" => pc[t] = "lockFlags",
         Forks(t)', Initializes(t)', Reaches(t)'
  PROVE  TypeOK' /\ Global' /\ Guarantee(t) /\ Local(t)'
<1>0. /\ DOMAIN pc' = Thread /\ pc'[t] = to
      /\ \A u \in Thread : u # t => pc'[u] = pc[u]
  BY DEF TypeOK
<1>1. TypeOK' /\ Global' /\ Guarantee(t)
  BY <1>0, QuietStep DEF TypeOK
<1>2. pc'[t] = to /\ F(t)' = F(t) /\ C(t)' = C(t)
  BY <1>0 DEF F, C
<1>3. Owns(t)' /\ Saves(t)'
  BY SavesSame, OwnsSame DEF Local, registries, values
<1>4. Locks(t)'
  <2>1. /\ HoldsMutex(t) => mutex[C(t)] = t
        /\ \A c \in Copy : mutex[c] = t => to \in Forking \/ (HoldsMutex(t) /\ c = C(t))
    BY DEF Local, Locks, HoldsMutex, Using, Forking
  <2>2. /\ \A f \in Flag : lock[f] = t => to \in Forking
        /\ \A c \in Copy : shared[c] = t => to \in Forking
    BY DEF Local, Locks
  <2>3. to = "lockShared" \/ (\E c \in Copy : shared[c] = t) => \E c \in Copy : mutex[c] = t
    BY DEF Local, Locks
  <2>. QED BY <1>2, <2>1, <2>2, <2>3 DEF Locks
<1>. QED BY <1>1, <1>3, <1>4 DEF Local

Kept(t) == TypeOK' /\ Global' /\ Guarantee(t) /\ Local(t)'

LEMMA UseFoundKeeps ==
  ASSUME TypeOK, Global, NEW t \in Thread, Local(t), UseFound(t)
  PROVE  Kept(t)
<1>. USE DEF Local
<1>1. /\ pc[t] = "registry" /\ Kind(t) \in Looking /\ Found(t)
      /\ pc' = [pc EXCEPT ![t] = "init"]
      /\ UNCHANGED <<loading, registries, values, op, saved, aborted, mutex, shared, lock>>
  BY DEF UseFound, At, Goto, Looking
<1>2. pc'[t] = "init" /\ F(t)' = F(t) /\ C(t)' = C(t) /\ Kind(t)' = Kind(t)
  BY <1>1 DEF TypeOK, F, C, Kind
<1>3. F(t) \in Flag /\ load[C(t)] = "loaded" /\ Kind(t) \in Kinds
  BY <1>1 DEF Operates, Forking
<1>4. Operates(t)'
  BY <1>1, <1>2, <1>3 DEF Operates, Looking, Direct, Forking, loading
<1>5. HoldsMutex(t)' /\ HoldsMutex(t)
  BY <1>1, <1>2 DEF HoldsMutex, Using
<1>6. Forks(t)' /\ Initializes(t)'
  BY <1>2 DEF Forks, Initializes
<1>7. Reaches(t)'
  <2>1. Found(t)'
    BY <1>1, <1>2 DEF Found, Registered, registries
  <2>. QED BY <1>1, <1>2, <2>1 DEF Reaches, Owning, Direct, Looking
<1>. QED BY <1>1, <1>4, <1>5, <1>6, <1>7, Moves DEF Kept, Forking

LEMMA LoadStateKeeps ==
  ASSUME TypeOK, Global, NEW t \in Thread, Local(t), LoadState(t) \/ Spin(t)
  PROVE  Kept(t)
<1>. USE DEF Local
<1>1. /\ pc[t] \in {"init", "spin"}
      /\ UNCHANGED <<loading, registries, values, op, saved, aborted, mutex, shared, lock>>
  BY DEF LoadState, Spin, At
<1>2. PICK to \in {"value", "claim"} :
        pc' = [pc EXCEPT ![t] = to] /\ (to = "value" => state[F(t)] = "ready")
  BY DEF LoadState, Spin, At, Goto
<1>3. pc'[t] = to /\ F(t)' = F(t) /\ C(t)' = C(t) /\ Kind(t)' = Kind(t)
  BY <1>1, <1>2 DEF TypeOK, F, C, Kind
<1>4. Operates(t)'
  BY <1>1, <1>3 DEF Operates, Forking, Using, loading
<1>5. HoldsMutex(t)' <=> HoldsMutex(t)
  BY <1>1, <1>3 DEF HoldsMutex, Using
<1>6. Forks(t)'
  BY <1>3 DEF Forks
<1>7. Initializes(t)'
  BY <1>1, <1>2, <1>3 DEF Initializes, values
<1>8. Reaches(t)'
  BY <1>1, <1>3, ReachesSame DEF Using, values, registries
<1>. QED BY <1>1, <1>2, <1>4, <1>5, <1>6, <1>7, <1>8, Moves DEF Kept, Forking

LEMMA RegisteringKeeps ==
  ASSUME TypeOK, Global, NEW t \in Thread, Local(t), Registering(t)
  PROVE  Kept(t)
<1>. USE DEF Local
<1>1. /\ pc[t] = "value" /\ Kind(t) = "register" /\ pc' = [pc EXCEPT ![t] = "mutex"]
      /\ UNCHANGED <<loading, registries, values, op, saved, aborted, mutex, shared, lock>>
  BY DEF Registering, At, Goto
<1>2. pc'[t] = "mutex" /\ F(t)' = F(t) /\ C(t)' = C(t) /\ Kind(t)' = Kind(t)
  BY <1>1 DEF TypeOK, F, C, Kind
<1>3. Operates(t)'
  BY <1>1, <1>2 DEF Operates, Forking, Using, loading
<1>4. ~HoldsMutex(t)' /\ ~HoldsMutex(t)
  BY <1>1, <1>2 DEF HoldsMutex, Using, Looking
<1>5. Forks(t)' /\ Initializes(t)'
  BY <1>1, <1>2 DEF Forks, Initializes, values
<1>6. Reaches(t)'
  BY <1>1, <1>2, ReachesSame DEF Using, values, registries
<1>. QED BY <1>1, <1>3, <1>4, <1>5, <1>6, Moves DEF Kept, Forking

LEMMA ForkMoves ==
  ASSUME TypeOK, Global, NEW t \in Thread, Local(t), BeginFork(t) \/ FlagsLocked(t) \/ Fork(t)
  PROVE  Kept(t)
<1>. USE DEF Local
<1>1. UNCHANGED <<loading, registries, values, op, saved, aborted, mutex, shared, lock>>
  BY DEF BeginFork, FlagsLocked, Fork
<1>2. PICK to \in {"prepare", "lockShared", "forked"} :
        /\ pc' = [pc EXCEPT ![t] = to]
        /\ to = "prepare" => pc[t] = "idle"
        /\ to = "lockShared" => pc[t] = "lockFlags" /\ Unlocked(t) = {}
        /\ to = "forked" => pc[t] = "prepare" /\ Installed \subseteq Prepared(t)
  BY DEF BeginFork, FlagsLocked, Fork, At, Goto
<1>3. pc'[t] = to /\ F(t)' = F(t) /\ C(t)' = C(t) /\ Kind(t)' = Kind(t)
  BY <1>1, <1>2 DEF TypeOK, F, C, Kind
<1>4. op[t] = NoOp
  BY <1>2 DEF Operates, Forking
<1>5. Operates(t)'
  BY <1>1, <1>2, <1>3, <1>4 DEF Operates, Forking, Using, NoOp, Kind, Owning, Direct, Saving
<1>6. ~HoldsMutex(t)' /\ ~HoldsMutex(t)
  BY <1>2, <1>3 DEF HoldsMutex, Using
<1>7. Forks(t)'
  <2>1. CASE to = "prepare"
    <3>1. \A c \in Copy : mutex[c] # t
      BY <1>2, <1>6, <2>1 DEF Locks, Forking
    <3>. QED BY <1>1, <1>2, <1>3, <2>1, <3>1, Typing DEF Forks
  <2>2. CASE to = "lockShared"
    <3>1. ASSUME NEW f \in Flag, entry[f] # 0, mutex[CopyOf[f]] = t
          PROVE  lock[f] = t
      <4>1. CopyOf[f] \in Prepared(t) /\ f \in FlagsOf(CopyOf[f])
        BY <3>1, Typing DEF Prepared, FlagsOf
      <4>. QED BY <1>2, <2>2, <4>1 DEF Unlocked
    <3>. QED BY <1>1, <1>3, <2>2, <3>1 DEF Forks, registries
  <2>3. CASE to = "forked"
    <3>1. \A f \in Flag : entry[f] # 0 /\ mutex[CopyOf[f]] = t => lock[f] = t
      BY <1>2, <2>3 DEF Forks
    <3>2. \A c \in Installed : mutex[c] = t
      BY <1>2, <2>3 DEF Prepared
    <3>3. Installed' = Installed
      BY <1>1 DEF Installed, loading
    <3>. QED BY <1>1, <1>3, <3>1, <3>2, <3>3 DEF Forks, registries
  <2>. QED BY <2>1, <2>2, <2>3
<1>8. Initializes(t)' /\ Reaches(t)'
  BY <1>3, <1>4 DEF Initializes, Reaches, Using, NoOp, Kind, Owning, Direct
<1>9. pc[t] \notin {"shared", "locked"} \cup Forking \/ {pc[t], to} \subseteq Forking
  BY <1>2 DEF Forking
<1>. QED BY <1>1, <1>2, <1>5, <1>6, <1>7, <1>8, <1>9, Moves DEF Kept

-----------------------------------------------------------------------------
(* Steps that take a lock.                                                 *)

LEMMA LockRegistryKeeps ==
  ASSUME TypeOK, Global, NEW t \in Thread, Local(t), LockRegistry(t)
  PROVE  Kept(t)
<1>. USE DEF Local
<1>1. /\ pc[t] = "mutex" /\ mutex[C(t)] = NoThread
      /\ mutex' = [mutex EXCEPT ![C(t)] = t]
      /\ pc' = [pc EXCEPT ![t] = "registry"]
      /\ UNCHANGED <<loading, registries, values, op, saved, aborted, shared, lock>>
  BY DEF LockRegistry, At, Goto
<1>2. /\ pc'[t] = "registry" /\ DOMAIN pc' = Thread
      /\ \A u \in Thread : u # t => pc'[u] = pc[u]
      /\ F(t)' = F(t) /\ C(t)' = C(t) /\ Kind(t)' = Kind(t)
  BY <1>1 DEF TypeOK, F, C, Kind
<1>3. F(t) \in Flag /\ C(t) \in Copy /\ load[C(t)] = "loaded" /\ Kind(t) \in Kinds
  BY <1>1, Typing DEF Operates, Forking, C
<1>4. /\ mutex' \in [Copy -> Thread \cup {NoThread}] /\ mutex'[C(t)] = t
      /\ \A c \in Copy : c # C(t) => mutex'[c] = mutex[c]
  BY <1>1, <1>3 DEF TypeOK
<1>5. TypeOK' /\ Global' /\ Guarantee(t)
  BY <1>1, <1>2, <1>3, <1>4, QuietStep DEF TypeOK
<1>6. Operates(t)'
  BY <1>1, <1>2 DEF Operates, Forking, Using, loading
<1>7. Locks(t)'
  <2>1. \A c \in Copy : mutex[c] # t
    BY <1>1 DEF Locks, HoldsMutex, Using, Forking
  <2>2. \A c \in Copy : mutex'[c] = t => c = C(t)
    BY <1>4, <2>1
  <2>3. HoldsMutex(t)'
    BY <1>2 DEF HoldsMutex
  <2>4. (\A f \in Flag : lock[f] # t) /\ (\A c \in Copy : shared[c] # t)
    BY <1>1 DEF Locks, Forking
  <2>. QED BY <1>1, <1>2, <1>4, <2>2, <2>3, <2>4 DEF Locks
<1>8. Forks(t)' /\ Initializes(t)'
  BY <1>1, <1>2 DEF Forks, Initializes, values
<1>9. Reaches(t)' /\ Owns(t)' /\ Saves(t)'
  BY <1>1, <1>2, ReachesSame, OwnsSame, SavesSame DEF Using, values, registries
<1>. QED BY <1>5, <1>6, <1>7, <1>8, <1>9 DEF Kept

LEMMA LockValueKeeps ==
  ASSUME TypeOK, Global, NEW t \in Thread, Local(t), LockValue(t)
  PROVE  Kept(t)
<1>. USE DEF Local
<1>1. /\ \/ pc[t] = "value" /\ Kind(t) \in {"set", "option", "environment", "restore"}
         \/ pc[t] = "lock"
      /\ lock[F(t)] = NoThread /\ lock' = [lock EXCEPT ![F(t)] = t]
      /\ pc' = [pc EXCEPT ![t] = "locked"]
      /\ UNCHANGED <<loading, registries, values, op, saved, aborted, mutex, shared>>
  BY DEF LockValue, At, Goto
<1>2. /\ pc'[t] = "locked" /\ DOMAIN pc' = Thread
      /\ \A u \in Thread : u # t => pc'[u] = pc[u]
      /\ F(t)' = F(t) /\ C(t)' = C(t) /\ Kind(t)' = Kind(t)
  BY <1>1 DEF TypeOK, F, C, Kind
<1>3. F(t) \in Flag /\ C(t) \in Copy /\ load[C(t)] = "loaded" /\ Kind(t) \in Kinds
  BY <1>1, Typing DEF Operates, Forking, C
<1>4. /\ lock' \in [Flag -> Thread \cup {NoThread}] /\ lock'[F(t)] = t
      /\ \A f \in Flag : f # F(t) => lock'[f] = lock[f]
  BY <1>1, <1>3 DEF TypeOK
<1>5. TypeOK' /\ Global' /\ Guarantee(t)
  BY <1>1, <1>2, <1>3, <1>4, QuietStep DEF TypeOK
<1>6. Operates(t)'
  BY <1>1, <1>2 DEF Operates, Forking, Using, Looking, Saving, loading
<1>7. Locks(t)'
  <2>1. \A f \in Flag : lock[f] # t
    BY <1>1 DEF Locks, Forking
  <2>2. \A f \in Flag : lock'[f] = t => f = F(t)
    BY <1>4, <2>1
  <2>3. HoldsMutex(t)' <=> HoldsMutex(t)
    BY <1>1, <1>2 DEF HoldsMutex, Using, Operates, Looking
  <2>4. \A c \in Copy : shared[c] # t
    BY <1>1 DEF Locks, Forking
  <2>5. \A c \in Copy : mutex[c] = t => HoldsMutex(t) /\ c = C(t)
    BY <1>1 DEF Locks, Forking
  <2>. QED BY <1>1, <1>2, <1>4, <2>2, <2>3, <2>4, <2>5 DEF Locks
<1>8. Forks(t)' /\ Initializes(t)'
  BY <1>1, <1>2 DEF Forks, Initializes, values
<1>9. Reaches(t)' /\ Owns(t)' /\ Saves(t)'
  BY <1>1, <1>2, ReachesSame, OwnsSame, SavesSame DEF Using, values, registries
<1>. QED BY <1>5, <1>6, <1>7, <1>8, <1>9 DEF Kept

LEMMA LockSharedKeeps ==
  ASSUME TypeOK, Global, NEW t \in Thread, Local(t), LockShared(t)
  PROVE  Kept(t)
<1>. USE DEF Local
<1>1. /\ pc[t] = "registry" /\ Kind(t) \in {"register", "unregister"}
      /\ shared[table[C(t)]] = NoThread /\ shared' = [shared EXCEPT ![table[C(t)]] = t]
      /\ pc' = [pc EXCEPT ![t] = "shared"]
      /\ UNCHANGED <<loading, registries, values, op, saved, aborted, mutex, lock>>
  BY DEF LockShared, At, Goto
<1>2. /\ pc'[t] = "shared" /\ DOMAIN pc' = Thread
      /\ \A u \in Thread : u # t => pc'[u] = pc[u]
      /\ F(t)' = F(t) /\ C(t)' = C(t) /\ Kind(t)' = Kind(t)
  BY <1>1 DEF TypeOK, F, C, Kind
<1>3. F(t) \in Flag /\ C(t) \in Copy /\ table[C(t)] \in Copy
  BY <1>1, Typing DEF Operates, Forking, C
<1>4. /\ shared' \in [Copy -> Thread \cup {NoThread}]
      /\ \A c \in Copy : c # table[C(t)] => shared'[c] = shared[c]
      /\ shared'[table[C(t)]] = t
  BY <1>1, <1>3 DEF TypeOK
<1>5. TypeOK' /\ Global' /\ Guarantee(t)
  BY <1>1, <1>2, <1>3, <1>4, QuietStep DEF TypeOK
<1>6. Operates(t)'
  BY <1>1, <1>2 DEF Operates, Forking, Using, loading
<1>7. Locks(t)'
  <2>1. HoldsMutex(t) /\ HoldsMutex(t)' /\ mutex[C(t)] = t
    BY <1>1, <1>2 DEF Locks, HoldsMutex
  <2>2. (\A c \in Copy : shared[c] # t) /\ (\A f \in Flag : lock[f] # t)
    BY <1>1 DEF Locks, Forking
  <2>3. \A c \in Copy : shared'[c] = t => c = table[C(t)]
    BY <1>4, <2>2
  <2>4. \A c \in Copy : mutex[c] = t => c = C(t)
    BY <1>1 DEF Locks, Forking
  <2>5. \E c \in Copy : mutex[c] = t
    BY <1>3, <2>1
  <2>6. shared'[table[C(t)]] = t /\ C(t)' = C(t) /\ table' = table
    BY <1>1, <1>2, <1>4 DEF loading
  <2>. QED BY <1>1, <1>2, <2>1, <2>2, <2>3, <2>4, <2>5, <2>6 DEF Locks, loading
<1>8. Forks(t)' /\ Initializes(t)'
  BY <1>1, <1>2 DEF Forks, Initializes, values
<1>9. Reaches(t)' /\ Owns(t)' /\ Saves(t)'
  BY <1>1, <1>2, ReachesSame, OwnsSame, SavesSame DEF Using, values, registries
<1>. QED BY <1>5, <1>6, <1>7, <1>8, <1>9 DEF Kept

\* The locks for a fork.
LEMMA ForkLocks ==
  ASSUME TypeOK, Global, NEW t \in Thread, Local(t),
         LockForFork(t) \/ LockFlagForFork(t) \/ LockSharedForFork(t)
  PROVE  Kept(t)
<1>. USE DEF Local
<1>1. UNCHANGED <<loading, registries, values, op, saved, aborted>>
  BY DEF LockForFork, LockFlagForFork, LockSharedForFork
<1>2. /\ pc[t] \in {"prepare", "lockFlags", "lockShared"}
      /\ pc'[t] \in {"prepare", "lockFlags"} /\ DOMAIN pc' = Thread
      /\ \A u \in Thread : u # t => pc'[u] = pc[u]
  BY DEF LockForFork, LockFlagForFork, LockSharedForFork, At, Goto, TypeOK
<1>3. F(t)' = F(t) /\ C(t)' = C(t) /\ Kind(t)' = Kind(t)
  BY <1>1 DEF F, C, Kind
<1>4. op[t] = NoOp
  BY <1>2 DEF Operates, Forking
<1>5. Operates(t)'
  BY <1>1, <1>2, <1>3, <1>4 DEF Operates, Forking, Using, NoOp, Kind, Owning, Direct, Saving
<1>6. ~HoldsMutex(t)'
  BY <1>2, <1>3 DEF HoldsMutex, Using
<1>7. Initializes(t)' /\ Reaches(t)'
  BY <1>2, <1>3, <1>4 DEF Initializes, Reaches, Using, NoOp, Kind, Owning, Direct
<1>8. Owns(t)' /\ Saves(t)'
  BY <1>1, SavesSame, OwnsSame DEF values, registries
<1>9. CASE LockForFork(t)
  <2>. DEFINE c == NextCopy(t)
  <2>1. /\ Installed \ Prepared(t) # {}
        /\ mutex[c] = NoThread /\ load[c] = "loaded" /\ mutex' = [mutex EXCEPT ![c] = t]
        /\ pc'[t] = "lockFlags" /\ UNCHANGED <<shared, lock>>
    BY <1>9 DEF LockForFork, At, Goto, TypeOK
  <2>2. c \in Copy
    BY <2>1, BeforeAssumption DEF NextCopy, Installed
  <2>. HIDE DEF c
  <2>3. /\ mutex' \in [Copy -> Thread \cup {NoThread}] /\ mutex'[c] = t
        /\ \A d \in Copy : d # c => mutex'[d] = mutex[d]
    BY <2>1, <2>2 DEF TypeOK
  <2>4. TypeOK' /\ Global' /\ Guarantee(t)
    BY <1>1, <1>2, <2>1, <2>3, QuietStep DEF TypeOK
  <2>5. Locks(t)'
    <3>1. pc'[t] \in Forking /\ \E d \in Copy : mutex'[d] = t
      BY <2>1, <2>2, <2>3 DEF Forking
    <3>. QED BY <1>6, <2>1, <3>1 DEF Locks
  <2>6. Forks(t)'
    BY <2>1 DEF Forks
  <2>. QED BY <1>5, <1>7, <1>8, <2>4, <2>5, <2>6 DEF Kept
<1>10. CASE LockFlagForFork(t)
  <2>1. PICK f \in Unlocked(t) : lock[f] = NoThread /\ lock' = [lock EXCEPT ![f] = t]
    BY <1>10 DEF LockFlagForFork
  <2>2. UNCHANGED <<mutex, shared>> /\ pc'[t] = "lockFlags" /\ pc[t] = "lockFlags"
    BY <1>10 DEF LockFlagForFork, At
  <2>3. f \in Flag
    BY <2>1 DEF Unlocked, FlagsOf
  <2>4. /\ lock' \in [Flag -> Thread \cup {NoThread}] /\ lock'[f] = t
        /\ \A g \in Flag : g # f => lock'[g] = lock[g]
    BY <2>1, <2>3 DEF TypeOK
  <2>5. TypeOK' /\ Global' /\ Guarantee(t)
    BY <1>1, <1>2, <2>1, <2>2, <2>4, QuietStep DEF TypeOK
  <2>6. Locks(t)'
    <3>1. pc'[t] \in Forking /\ \E d \in Copy : mutex[d] = t
      BY <2>2 DEF Forking, Locks
    <3>. QED BY <1>6, <2>2, <3>1 DEF Locks
  <2>7. Forks(t)'
    BY <2>2 DEF Forks
  <2>. QED BY <1>5, <1>7, <1>8, <2>5, <2>6, <2>7 DEF Kept
<1>11. CASE LockSharedForFork(t)
  <2>. DEFINE d == table[Preparing(t)]
  <2>1. /\ pc[t] = "lockShared" /\ pc'[t] = "prepare" /\ UNCHANGED <<mutex, lock>>
        /\ shared[d] = NoThread /\ shared' = [shared EXCEPT ![d] = t]
    BY <1>11 DEF LockSharedForFork, At, Goto, TypeOK
  <2>. HIDE DEF d
  <2>2. /\ shared' \in [Copy -> Thread \cup {NoThread}]
        /\ \A c \in Copy : shared'[c] = shared[c] \/ {shared[c], shared'[c]} \subseteq {t, NoThread}
    BY <2>1 DEF TypeOK
  <2>3. TypeOK' /\ Global' /\ Guarantee(t)
    BY <1>1, <1>2, <2>1, <2>2, QuietStep DEF TypeOK
  <2>4. Locks(t)'
    <3>1. pc'[t] \in Forking /\ \E c \in Copy : mutex[c] = t
      BY <2>1 DEF Forking, Locks
    <3>. QED BY <1>6, <2>1, <3>1 DEF Locks
  <2>5. Forks(t)'
    BY <1>1, <2>1 DEF Forks, registries
  <2>. QED BY <1>5, <1>7, <1>8, <2>3, <2>4, <2>5 DEF Kept
<1>. QED BY <1>9, <1>10, <1>11

-----------------------------------------------------------------------------
(* Steps that end an operation or read the value.                          *)

LEMMA Ended ==
  ASSUME NEW t \in Thread, pc'[t] = "idle", op'[t] = NoOp,
         \A c \in Copy : mutex'[c] # t /\ shared'[c] # t,
         \A f \in Flag : lock'[f] # t
  PROVE  Operates(t)' /\ Locks(t)' /\ Forks(t)' /\ Initializes(t)' /\ Reaches(t)'
<1>1. Kind(t)' = "none" /\ F(t)' = NoFlag
  BY DEF Kind, F, NoOp
<1>2. ~HoldsMutex(t)'
  BY DEF HoldsMutex, Using
<1>3. Operates(t)'
  BY <1>1 DEF Operates, Using, Owning, Direct, Saving
<1>4. Locks(t)'
  BY <1>2 DEF Locks
<1>5. Forks(t)' /\ Initializes(t)' /\ Reaches(t)'
  BY <1>1 DEF Forks, Initializes, Reaches, Using, Owning, Direct
<1>. QED BY <1>3, <1>4, <1>5

\* RegistryMutex::unlock.
LEMMA Unlocking ==
  ASSUME TypeOK, NEW t \in Thread, UnlockRegistry(t)
  PROVE  /\ mutex' \in [Copy -> Thread \cup {NoThread}]
         /\ \A c \in Copy : /\ mutex'[c] # t
                            /\ mutex'[c] = mutex[c] \/ (mutex[c] = t /\ mutex'[c] = NoThread)
BY FlagAssumption DEF TypeOK, UnlockRegistry

\* A saved value is forgotten.
LEMMA NothingSaved ==
  ASSUME NEW t, saved'[t] = NoSave
  PROVE  Saves(t)'
BY DEF Saves, NoSave

LEMMA NotFoundKeeps ==
  ASSUME TypeOK, Global, NEW t \in Thread, Local(t), NotFound(t)
  PROVE  Kept(t)
<1>. USE DEF Local
<1>1. /\ pc[t] = "registry" /\ Kind(t) \in Looking /\ UnlockRegistry(t)
      /\ pc' = [pc EXCEPT ![t] = "idle"] /\ op' = [op EXCEPT ![t] = NoOp]
      /\ saved' = IF Kind(t) = "restore" THEN [saved EXCEPT ![t] = NoSave] ELSE saved
      /\ UNCHANGED <<loading, registries, values, aborted, shared, lock>>
  BY DEF NotFound, At, Goto, Done, Looking
<1>2. /\ pc'[t] = "idle" /\ DOMAIN pc' = Thread /\ op'[t] = NoOp /\ DOMAIN op' = Thread
      /\ \A u \in Thread : u # t => pc'[u] = pc[u] /\ op'[u] = op[u]
  BY <1>1 DEF TypeOK
<1>3. /\ DOMAIN saved' = Thread /\ saved'[t] \in {saved[t], NoSave}
      /\ \A u \in Thread : u # t => saved'[u] = saved[u]
  BY <1>1 DEF TypeOK
<1>4. TypeOK' /\ Global' /\ Guarantee(t)
  BY <1>1, <1>2, <1>3, Unlocking, QuietStep DEF TypeOK
<1>5. (\A f \in Flag : lock'[f] # t) /\ (\A c \in Copy : mutex'[c] # t /\ shared'[c] # t)
  BY <1>1, Unlocking DEF Locks, Forking
<1>6. Owns(t)' /\ Saves(t)'
  BY <1>1, <1>3, SavesSame, NothingSaved, OwnsSame DEF values, registries, Looking
<1>. QED BY <1>2, <1>4, <1>5, <1>6, Ended DEF Kept

LEMMA ReadKeeps ==
  ASSUME TypeOK, Global, NEW t \in Thread, Local(t), Read(t)
  PROVE  Kept(t)
<1>. USE DEF Local
<1>1. /\ pc[t] = "value" /\ Kind(t) \in {"get", "save", "scope"}
      /\ UNCHANGED <<loading, registries, values, aborted, mutex, shared, lock>>
  BY DEF Read, At
<1>2. F(t) \in Flag /\ C(t) \in Copy /\ state[F(t)] = "ready"
  BY <1>1, Typing DEF Operates, Initializes, Forking, C
<1>3. current[F(t)] # "unset"
  BY <1>2 DEF Global, ValueInv
<1>4. /\ DOMAIN pc' = Thread /\ DOMAIN op' = Thread /\ DOMAIN saved' = Thread
      /\ \A u \in Thread : u # t => pc'[u] = pc[u] /\ op'[u] = op[u] /\ saved'[u] = saved[u]
      /\ pc'[t] = IF Kind(t) = "get" THEN "idle" ELSE "lock"
      /\ op'[t] = IF Kind(t) = "get" THEN NoOp ELSE op[t]
  BY DEF Read, Goto, TypeOK
<1>5. TypeOK' /\ Global' /\ Guarantee(t)
  BY <1>1, <1>4, QuietStep DEF TypeOK
<1>6. (\A f \in Flag : lock[f] # t) /\ (\A c \in Copy : shared[c] # t)
  BY <1>1 DEF Locks, Forking
<1>11. Owns(t)'
  BY <1>1, OwnsSame DEF values, registries
<1>7. CASE Kind(t) = "get"
  <2>1. saved' = saved
    BY <1>7 DEF Read
  <2>2. \A c \in Copy : mutex[c] # t
    BY <1>1, <1>7 DEF Locks, Forking, HoldsMutex, Looking
  <2>3. Saves(t)'
    BY <1>1, <2>1, SavesSame DEF values, registries
  <2>. QED BY <1>1, <1>4, <1>5, <1>6, <1>7, <1>11, <2>2, <2>3, Ended DEF Kept
<1>8. CASE Kind(t) \in Saving
  <2>1. saved[t].flag = NoFlag
    BY <1>8 DEF Operates
  <2>2. saved'[t] = [saved[t] EXCEPT !.value = current[F(t)]]
    BY <1>8 DEF Read, TypeOK, Saving
  <2>3. saved'[t] = [flag |-> NoFlag, registration |-> saved[t].registration,
                     life |-> saved[t].life, value |-> current[F(t)], set |-> saved[t].set]
    BY <2>1, <2>2 DEF Saves
  <2>4. pc'[t] = "lock" /\ F(t)' = F(t) /\ C(t)' = C(t) /\ Kind(t)' = Kind(t)
    BY <1>4, <1>8 DEF F, C, Kind, Saving
  <2>5. Operates(t)'
    BY <1>1, <1>8, <2>3, <2>4 DEF Operates, Forking, Using, Saving, loading
  <2>6. HoldsMutex(t)' <=> HoldsMutex(t)
    BY <1>1, <2>4 DEF HoldsMutex, Using
  <2>7. Locks(t)'
    BY <1>1, <1>6, <2>4, <2>6 DEF Locks, Forking
  <2>8. Forks(t)' /\ Initializes(t)'
    BY <1>1, <1>2, <2>4 DEF Forks, Initializes, values
  <2>9. Reaches(t)'
    <3>1. Found(t)' <=> Found(t)
      BY <1>1, <1>8, <2>4 DEF Found, Saving, registries
    <3>2. saved'[t].registration = saved[t].registration
      BY <2>3
    <3>. QED BY <1>1, <2>4, <3>1, <3>2 DEF Reaches, Using, values, registries
  <2>10. Saves(t)'
    BY <1>3, <2>3 DEF Saves
  <2>. QED BY <1>5, <1>11, <2>5, <2>7, <2>8, <2>9, <2>10 DEF Kept
<1>. QED BY <1>1, <1>7, <1>8 DEF Saving

LEMMA SaveRegistrationKeeps ==
  ASSUME TypeOK, Global, NEW t \in Thread, Local(t), SaveRegistration(t)
  PROVE  Kept(t)
<1>. USE DEF Local
<1>1. /\ pc[t] = "registry" /\ Kind(t) = "scope" /\ UnlockRegistry(t)
      /\ pc' = [pc EXCEPT ![t] = "init"]
      /\ saved' = [saved EXCEPT ![t].registration = entry[F(t)]]
      /\ UNCHANGED <<loading, registries, values, op, aborted, shared, lock>>
  BY DEF SaveRegistration, At, Goto
<1>2. /\ pc'[t] = "init" /\ DOMAIN pc' = Thread /\ DOMAIN saved' = Thread
      /\ \A u \in Thread : u # t => pc'[u] = pc[u] /\ saved'[u] = saved[u]
      /\ F(t)' = F(t) /\ C(t)' = C(t) /\ Kind(t)' = Kind(t)
      /\ saved'[t] = [saved[t] EXCEPT !.registration = entry[F(t)]]
  BY <1>1 DEF TypeOK, F, C, Kind
<1>3. /\ F(t) \in Flag /\ C(t) = CopyOf[F(t)] /\ C(t) \in Copy
      /\ saved[t].flag = NoFlag /\ alive[F(t)] /\ Owner[F(t)] \in {t, NoThread}
  BY <1>1, Typing DEF Operates, Reaches, Forking, C, Owning, Saving
<1>4. saved'[t] = [flag |-> NoFlag, registration |-> entry[F(t)], life |-> saved[t].life,
                   value |-> saved[t].value, set |-> saved[t].set]
  BY <1>2, <1>3 DEF Saves
<1>5. TypeOK' /\ Global' /\ Guarantee(t)
  BY <1>1, <1>2, Unlocking, QuietStep DEF TypeOK
<1>6. Operates(t)'
  BY <1>1, <1>2, <1>4 DEF Operates, Forking, Using, loading
<1>7. Locks(t)'
  <2>1. ~HoldsMutex(t)'
    BY <1>1, <1>2 DEF HoldsMutex, Looking
  <2>2. /\ \A f \in Flag : lock[f] # t
        /\ \A c \in Copy : shared[c] # t /\ mutex'[c] # t
    BY <1>1, Unlocking DEF Locks, Forking
  <2>. QED BY <1>1, <1>2, <2>1, <2>2 DEF Locks
<1>8. Forks(t)' /\ Initializes(t)'
  BY <1>2 DEF Forks, Initializes
<1>9. Reaches(t)'
  <2>1. entry[F(t)] = 0 => F(t) \in Static
    BY <1>1, <1>3 DEF Owns, Static
  <2>2. entry[F(t)] \in Nat /\ entry[F(t)] < nextRegistration[C(t)]
    BY <1>3 DEF TypeOK, Global, EntryInv
  <2>3. saved'[t].registration = entry[F(t)]
    BY <1>4
  <2>. QED BY <1>1, <1>2, <1>3, <2>1, <2>2, <2>3 DEF Reaches, Looking, values, registries
<1>10. Owns(t)' /\ Saves(t)'
  BY <1>1, <1>4, OwnsSame DEF Saves, values, registries
<1>. QED BY <1>5, <1>6, <1>7, <1>8, <1>9, <1>10 DEF Kept

LEMMA SaveKeeps ==
  ASSUME TypeOK, Global, NEW t \in Thread, Local(t), Save(t)
  PROVE  Kept(t)
<1>. USE DEF Local
<1>. DEFINE r == IF Kind(t) = "save" THEN entry[F(t)] ELSE saved[t].registration
            s == [flag |-> F(t), life |-> life[F(t)], value |-> saved[t].value,
                  registration |-> r, set |-> modified[F(t)]]
<1>1. /\ pc[t] = "locked" /\ Kind(t) \in Saving /\ UnlockRegistry(t)
      /\ lock' = [lock EXCEPT ![F(t)] = NoThread] /\ saved' = [saved EXCEPT ![t] = s]
      /\ UNCHANGED <<loading, registries, values, aborted, shared>>
  BY DEF Save, At, Saving
<1>2. /\ DOMAIN pc' = Thread /\ DOMAIN op' = Thread
      /\ \A u \in Thread : u # t => pc'[u] = pc[u] /\ op'[u] = op[u]
      /\ Kind(t) = "save" => pc'[t] = "idle" /\ op'[t] = NoOp
      /\ Kind(t) # "save" => pc'[t] = "init" /\ op'[t] = [kind |-> "set", flag |-> F(t)]
  BY DEF Save, Goto, Done, TypeOK
<1>3. /\ DOMAIN saved' = Thread /\ saved'[t] = s
      /\ \A u \in Thread : u # t => saved'[u] = saved[u]
  BY <1>1 DEF TypeOK
<1>4. F(t) \in Flag /\ C(t) = CopyOf[F(t)] /\ C(t) \in Copy /\ lock[F(t)] = t
  BY <1>1, Typing DEF Operates, Locks, Forking, C
<1>5. /\ lock' \in [Flag -> Thread \cup {NoThread}] /\ lock'[F(t)] = NoThread
      /\ \A f \in Flag : f # F(t) => lock'[f] = lock[f]
  BY <1>1, <1>4 DEF TypeOK
<1>6. TypeOK' /\ Global' /\ Guarantee(t)
  BY <1>1, <1>2, <1>3, <1>4, <1>5, Unlocking, QuietStep DEF TypeOK
<1>7. (\A f \in Flag : lock'[f] # t) /\ (\A c \in Copy : mutex'[c] # t /\ shared'[c] # t)
  BY <1>1, <1>5, Unlocking, FlagAssumption DEF Locks, Forking
<1>8. Owns(t)'
  BY <1>1, OwnsSame DEF Saving, values, registries
<1>9. Saves(t)'
  <2>1. r \in Nat /\ r < nextRegistration[C(t)] /\ (r = 0 => F(t) \in Static)
    <3>1. CASE Kind(t) = "save"
      <4>1. entry[F(t)] # 0
        BY <1>1, <3>1 DEF Reaches, Found, Using, Looking
      <4>. QED BY <1>4, <3>1, <4>1 DEF TypeOK, Global, EntryInv
    <3>2. CASE Kind(t) = "scope"
      BY <1>1, <3>2 DEF Reaches, Using
    <3>. QED BY <1>1, <3>1, <3>2 DEF Saving
  <2>. HIDE DEF r
  <2>2. /\ saved'[t].flag = F(t) /\ saved'[t].registration = r
        /\ saved'[t].life = life[F(t)] /\ saved'[t].value = saved[t].value
        /\ saved'[t] = [flag |-> saved'[t].flag, registration |-> saved'[t].registration,
                        life |-> saved'[t].life, value |-> saved'[t].value,
                        set |-> saved'[t].set]
    BY <1>3
  <2>3. F(t) \in Static => life[F(t)] = 0
    BY <1>4 DEF Global, EntryInv
  <2>. QED BY <1>1, <1>4, <2>1, <2>2, <2>3 DEF Saves, values, registries
<1>10. CASE Kind(t) = "save"
  BY <1>2, <1>6, <1>7, <1>8, <1>9, <1>10, Ended DEF Kept
<1>11. CASE Kind(t) = "scope"
  <2>1. /\ pc'[t] = "init" /\ Kind(t)' = "set" /\ F(t)' = F(t) /\ C(t)' = C(t)
    BY <1>2, <1>11 DEF F, Kind, C
  <2>2. /\ alive[F(t)] /\ Owner[F(t)] \in {t, NoThread} /\ load[C(t)] = "loaded"
    BY <1>1, <1>11 DEF Operates, Reaches, Owning, Forking
  <2>3. Operates(t)'
    BY <1>1, <1>4, <2>1, <2>2 DEF Operates, Forking, Using, Kinds, Saving, loading
  <2>4. Locks(t)'
    BY <1>7, <2>1 DEF Locks, HoldsMutex, Looking
  <2>5. Forks(t)' /\ Initializes(t)'
    BY <2>1 DEF Forks, Initializes
  <2>6. Reaches(t)'
    BY <1>1, <2>1, <2>2 DEF Reaches, Looking, values
  <2>. QED BY <1>6, <1>8, <1>9, <2>3, <2>4, <2>5, <2>6 DEF Kept
<1>. QED BY <1>1, <1>10, <1>11 DEF Saving

LEMMA ResumeKeeps ==
  ASSUME TypeOK, Global, NEW t \in Thread, Local(t), ResumeAfterFork(t)
  PROVE  Kept(t)
<1>. USE DEF Local
<1>1. /\ UnlockRegistry(t)
      /\ pc' = [pc EXCEPT ![t] = "idle"] /\ op' = [op EXCEPT ![t] = NoOp]
      /\ shared' = [c \in Copy |-> IF shared[c] = t THEN NoThread ELSE shared[c]]
      /\ lock' = [f \in Flag |-> IF lock[f] = t THEN NoThread ELSE lock[f]]
      /\ UNCHANGED <<loading, registries, values, aborted, saved>>
  BY DEF ResumeAfterFork, Goto, Done
<1>2. /\ pc'[t] = "idle" /\ DOMAIN pc' = Thread /\ op'[t] = NoOp /\ DOMAIN op' = Thread
      /\ \A u \in Thread : u # t => pc'[u] = pc[u] /\ op'[u] = op[u]
  BY <1>1 DEF TypeOK
<1>3. /\ shared' \in [Copy -> Thread \cup {NoThread}]
      /\ \A c \in Copy : /\ shared'[c] # t
                         /\ shared'[c] = shared[c] \/ {shared[c], shared'[c]} \subseteq {t, NoThread}
  BY <1>1, FlagAssumption DEF TypeOK
<1>4. /\ lock' \in [Flag -> Thread \cup {NoThread}]
      /\ \A f \in Flag : /\ lock'[f] # t
                         /\ lock'[f] = lock[f] \/ {lock[f], lock'[f]} \subseteq {t, NoThread}
  BY <1>1, FlagAssumption DEF TypeOK
<1>5. TypeOK' /\ Global' /\ Guarantee(t)
  BY <1>1, <1>2, <1>3, <1>4, Unlocking, QuietStep DEF TypeOK
<1>6. Owns(t)' /\ Saves(t)'
  <2>1. Kind(t) # "register"
    BY DEF ResumeAfterFork, At, Operates, Forking, NoOp, Kind
  <2>. QED BY <1>1, <2>1, SavesSame, OwnsSame DEF values, registries
<1>. QED BY <1>1, <1>2, <1>3, <1>4, <1>5, <1>6, Unlocking, Ended DEF Kept

-----------------------------------------------------------------------------
(* Steps that change values and registries.                                *)

LEMMA ClaimKeeps ==
  ASSUME TypeOK, Global, NEW t \in Thread, \A u \in Thread : Local(u), Claim(t)
  PROVE  Kept(t)
<1>. USE DEF Local
<1>1. /\ pc[t] = "claim"
      /\ UNCHANGED <<loading, mutex, shared, lock, registries, life, alive, current, default,
                     modified, explicit, op, saved, aborted>>
  BY DEF Claim, At
<1>2. F(t) \in Flag /\ Kind(t) \in Kinds
  BY <1>1 DEF Operates, Forking
<1>3. \/ state[F(t)] # "uninitialized" /\ state' = state /\ pc' = [pc EXCEPT ![t] = "spin"]
      \/ /\ state[F(t)] = "uninitialized" /\ state' = [state EXCEPT ![F(t)] = "initializing"]
         /\ pc' = [pc EXCEPT ![t] = "store"]
  BY DEF Claim, Goto
<1>4. /\ F(t)' = F(t) /\ C(t)' = C(t) /\ Kind(t)' = Kind(t)
      /\ DOMAIN pc' = Thread /\ \A u \in Thread : u # t => pc'[u] = pc[u]
      /\ pc'[t] \in {"spin", "store"}
  BY <1>1, <1>3 DEF TypeOK, F, C, Kind
<1>5. /\ state' \in [Flag -> {"uninitialized", "initializing", "ready"}]
      /\ \A f \in Flag : f # F(t) => state'[f] = state[f]
      /\ \/ pc'[t] = "spin" /\ state'[F(t)] = state[F(t)]
         \/ pc'[t] = "store" /\ state[F(t)] = "uninitialized" /\ state'[F(t)] = "initializing"
  BY <1>2, <1>3 DEF TypeOK
<1>6. \A f \in Flag : state'[f] = state[f] \/ (state[f] = "uninitialized" /\ state'[f] = "initializing")
  BY <1>5
<1>7. TypeOK'
  BY <1>1, <1>4, <1>5 DEF TypeOK, loading, registries
<1>8. ValueInv' /\ EntryInv'
  BY <1>1, <1>6 DEF Global, ValueInv, EntryInv, loading, registries
<1>9. NameInv' /\ MutexInv' /\ LoadInv'
  BY <1>1 DEF Global, NameInv, MutexInv, LoadInv, loading, registries
<1>10. Guarantee(t)
  <2>1. \A c \in Copy : nextRegistration[c] \in Nat
    BY DEF TypeOK
  <2>. QED BY <1>1, <1>4, <1>5, <1>6, <2>1 DEF Guarantee, loading, registries
<1>11. Operates(t)'
  BY <1>1, <1>4 DEF Operates, Forking, Using, loading
<1>12. Locks(t)'
  <2>1. HoldsMutex(t)' <=> HoldsMutex(t)
    BY <1>1, <1>4 DEF HoldsMutex, Using
  <2>2. /\ \A f \in Flag : lock[f] # t
        /\ \A c \in Copy : shared[c] # t
        /\ \A c \in Copy : mutex[c] = t => HoldsMutex(t) /\ c = C(t)
    BY <1>1 DEF Locks, Forking
  <2>. QED BY <1>1, <1>4, <2>1, <2>2 DEF Locks
<1>13. Forks(t)'
  BY <1>4 DEF Forks
<1>14. Initializes(t)'
  <2>. SUFFICES ASSUME pc'[t] = "store"
               PROVE  \A u \in Thread : pc'[u] = "store" /\ F(u)' = F(t) => u = t
    BY <1>4, <1>5 DEF Initializes
  <2>. SUFFICES ASSUME NEW u \in Thread, u # t, pc'[u] = "store", F(u)' = F(t)
               PROVE  FALSE
    OBVIOUS
  <2>1. pc[u] = "store" /\ F(u) = F(t)
    BY <1>1, <1>4 DEF F
  <2>2. state[F(t)] = "initializing"
    BY <2>1 DEF Initializes
  <2>. QED BY <1>5, <2>2
<1>15. Reaches(t)'
  BY <1>1, <1>4, ReachesSame DEF Using, registries
<1>16. Owns(t)' /\ Saves(t)'
  BY <1>1, SavesSame, OwnsSame DEF registries
<1>. QED BY <1>7, <1>8, <1>9, <1>10, <1>11, <1>12, <1>13, <1>14, <1>15, <1>16 DEF Kept, Global

LEMMA StoreInitialKeeps ==
  ASSUME TypeOK, Global, NEW t \in Thread, Local(t), StoreInitial(t)
  PROVE  Kept(t)
<1>. USE DEF Local
<1>1. /\ pc[t] = "store" /\ pc' = [pc EXCEPT ![t] = "value"]
      /\ current' = [current EXCEPT ![F(t)] = "initial"]
      /\ default' = [default EXCEPT ![F(t)] = "initial"]
      /\ state' = [state EXCEPT ![F(t)] = "ready"]
      /\ UNCHANGED <<loading, mutex, shared, lock, registries, life, alive,
                     modified, explicit, op, saved, aborted>>
  BY DEF StoreInitial, At, Goto
<1>2. F(t) \in Flag /\ Kind(t) \in Kinds /\ state[F(t)] = "initializing"
  BY <1>1 DEF Operates, Initializes, Forking
<1>3. /\ F(t)' = F(t) /\ C(t)' = C(t) /\ Kind(t)' = Kind(t)
      /\ DOMAIN pc' = Thread /\ \A u \in Thread : u # t => pc'[u] = pc[u]
      /\ pc'[t] = "value"
  BY <1>1 DEF TypeOK, F, C, Kind
<1>4. /\ state' \in [Flag -> {"uninitialized", "initializing", "ready"}]
      /\ state'[F(t)] = "ready" /\ current'[F(t)] = "initial"
      /\ \A f \in Flag : f # F(t) => state'[f] = state[f] /\ current'[f] = current[f]
  BY <1>1, <1>2 DEF TypeOK
<1>5. TypeOK'
  BY <1>1, <1>3, <1>4 DEF TypeOK, loading, registries
<1>6. ValueInv' /\ EntryInv'
  <2>1. ~modified[F(t)]
    BY <1>2 DEF Global, ValueInv
  <2>. QED BY <1>1, <1>4, <2>1 DEF Global, ValueInv, EntryInv, loading, registries
<1>7. NameInv' /\ MutexInv' /\ LoadInv'
  BY <1>1 DEF Global, NameInv, MutexInv, LoadInv, loading, registries
<1>8. Guarantee(t)
  <2>1. \A c \in Copy : nextRegistration[c] \in Nat
    BY DEF TypeOK
  <2>. QED BY <1>1, <1>3, <1>4, <2>1 DEF Guarantee, loading, registries
<1>9. Operates(t)'
  BY <1>1, <1>3 DEF Operates, Forking, Using, loading
<1>10. Locks(t)'
  <2>1. HoldsMutex(t)' <=> HoldsMutex(t)
    BY <1>1, <1>3 DEF HoldsMutex, Using
  <2>2. /\ \A f \in Flag : lock[f] # t
        /\ \A c \in Copy : shared[c] # t
        /\ \A c \in Copy : mutex[c] = t => HoldsMutex(t) /\ c = C(t)
    BY <1>1 DEF Locks, Forking
  <2>. QED BY <1>1, <1>3, <2>1, <2>2 DEF Locks
<1>11. Forks(t)' /\ Initializes(t)'
  BY <1>3, <1>4 DEF Forks, Initializes
<1>12. Reaches(t)'
  BY <1>1, <1>3, ReachesSame DEF Using, registries
<1>13. Owns(t)' /\ Saves(t)'
  BY <1>1, SavesSame, OwnsSame DEF registries
<1>. QED BY <1>5, <1>6, <1>7, <1>8, <1>9, <1>10, <1>11, <1>12, <1>13 DEF Kept, Global

LEMMA WriteKeeps ==
  ASSUME TypeOK, Global, NEW t \in Thread, Local(t), Write(t)
  PROVE  Kept(t)
<1>. USE DEF Local
<1>1. /\ pc[t] = "locked" /\ Kind(t) \notin {"save", "scope"} /\ UnlockRegistry(t)
      /\ pc' = [pc EXCEPT ![t] = "idle"] /\ op' = [op EXCEPT ![t] = NoOp]
      /\ lock' = [lock EXCEPT ![F(t)] = NoThread]
      /\ saved' = IF Kind(t) = "restore" THEN [saved EXCEPT ![t] = NoSave] ELSE saved
      /\ UNCHANGED <<loading, shared, registries, life, alive, state, aborted>>
  BY DEF Write, At, Goto, Done
<1>2. Kind(t) \in {"set", "option", "environment", "restore"}
  BY <1>1 DEF Operates, Looking
<1>3. F(t) \in Flag /\ lock[F(t)] = t /\ state[F(t)] = "ready"
  BY <1>1 DEF Operates, Locks, Initializes, Forking
<1>4. /\ pc'[t] = "idle" /\ DOMAIN pc' = Thread /\ op'[t] = NoOp /\ DOMAIN op' = Thread
      /\ \A u \in Thread : u # t => pc'[u] = pc[u] /\ op'[u] = op[u]
  BY <1>1 DEF TypeOK
<1>5. /\ DOMAIN saved' = Thread /\ saved'[t] \in {saved[t], NoSave}
      /\ \A u \in Thread : u # t => saved'[u] = saved[u]
  BY <1>1 DEF TypeOK
<1>6. /\ lock' \in [Flag -> Thread \cup {NoThread}] /\ lock'[F(t)] = NoThread
      /\ \A f \in Flag : f # F(t) => lock'[f] = lock[f]
  BY <1>1, <1>3 DEF TypeOK
<1>7. \/ \E v, set : v # "unset" /\ Assign(F(t), v, set)
      \/ SetDefault(F(t), "environment")
  <2>1. CASE Kind(t) \in {"set", "option"}
    <3>1. Assign(F(t), Kind(t), TRUE)
      BY <2>1 DEF Write
    <3>. QED BY <2>1, <3>1
  <2>2. CASE Kind(t) = "environment"
    BY <2>2 DEF Write
  <2>3. CASE Kind(t) = "restore"
    <3>1. Assign(F(t), saved[t].value, saved[t].set)
      BY <2>3 DEF Write
    <3>. QED BY <3>1 DEF Saves
  <2>. QED BY <1>2, <2>1, <2>2, <2>3
<1>. DEFINE Written ==
        /\ DOMAIN current' = Flag /\ DOMAIN default' = Flag /\ DOMAIN modified' = Flag
        /\ DOMAIN explicit' = Flag
        /\ \A f \in Flag : f # F(t) =>
             current'[f] = current[f] /\ modified'[f] = modified[f] /\ explicit'[f] = explicit[f]
        /\ current'[F(t)] # "unset"
        /\ modified'[F(t)] => current'[F(t)] = explicit'[F(t)]
<1>8. Written
  <2>1. ASSUME NEW v, NEW set, v # "unset", Assign(F(t), v, set)
        PROVE  Written
    BY <1>3, <2>1 DEF Assign, TypeOK
  <2>2. CASE SetDefault(F(t), "environment")
    BY <1>3, <2>2 DEF SetDefault, TypeOK, Global, ValueInv
  <2>. QED BY <1>7, <2>1, <2>2
<1>9. TypeOK'
  BY <1>1, <1>4, <1>5, <1>6, <1>8, Unlocking DEF TypeOK, loading, registries
<1>10. ValueInv'
  BY <1>1, <1>3, <1>8 DEF Global, ValueInv
<1>11. EntryInv' /\ NameInv' /\ LoadInv'
  BY <1>1 DEF Global, EntryInv, NameInv, LoadInv, loading, registries
<1>12. MutexInv'
  BY <1>1, Unlocking DEF Global, MutexInv, loading
<1>13. Guarantee(t)
  <2>1. \A c \in Copy : nextRegistration[c] \in Nat
    BY DEF TypeOK
  <2>2. ASSUME NEW u \in Thread, u # t
        PROVE  /\ \A c \in Copy : mutex'[c] = u <=> mutex[c] = u
               /\ \A f \in Flag : lock'[f] = u <=> lock[f] = u
    BY <1>1, <1>3, <1>6, <2>2, Unlocking, FlagAssumption
  <2>. QED BY <1>1, <1>4, <1>5, <2>1, <2>2 DEF Guarantee, loading, registries
<1>14. (\A f \in Flag : lock'[f] # t) /\ (\A c \in Copy : mutex'[c] # t /\ shared'[c] # t)
  BY <1>1, <1>6, Unlocking, FlagAssumption DEF Locks, Forking
<1>15. Owns(t)' /\ Saves(t)'
  BY <1>1, <1>2, <1>5, SavesSame, NothingSaved, OwnsSame DEF registries
<1>. QED BY <1>4, <1>9, <1>10, <1>11, <1>12, <1>13, <1>14, <1>15, Ended DEF Kept, Global

\* What registering and unregistering do to the locks: they leave none.
LEMMA UnlocksAll ==
  ASSUME TypeOK, NEW t \in Thread, Local(t), pc[t] = "shared",
         UnlockShared(t), UnlockRegistry(t), Done(t), lock' = lock
  PROVE  /\ shared' \in [Copy -> Thread \cup {NoThread}]
         /\ DOMAIN pc' = Thread /\ pc'[t] = "idle" /\ DOMAIN op' = Thread /\ op'[t] = NoOp
         /\ \A c \in Copy : mutex'[c] # t /\ shared'[c] # t
         /\ \A f \in Flag : lock'[f] # t
         /\ \A u \in Thread : u # t =>
              /\ pc'[u] = pc[u] /\ op'[u] = op[u]
              /\ \A c \in Copy : /\ mutex'[c] = u <=> mutex[c] = u
                                 /\ shared'[c] = u <=> shared[c] = u
<1>. USE DEF Local
<1>1. F(t) \in Flag /\ C(t) \in Copy /\ table[C(t)] \in Copy
  BY Typing DEF Operates, Forking, C
<1>2. shared[table[C(t)]] = t /\ \A c \in Copy : shared[c] = t => c = table[C(t)]
  BY DEF Locks, Forking
<1>3. /\ shared' \in [Copy -> Thread \cup {NoThread}] /\ shared'[table[C(t)]] = NoThread
      /\ \A c \in Copy : c # table[C(t)] => shared'[c] = shared[c]
  BY <1>1 DEF UnlockShared, TypeOK
<1>4. /\ DOMAIN pc' = Thread /\ pc'[t] = "idle" /\ DOMAIN op' = Thread /\ op'[t] = NoOp
      /\ \A u \in Thread : u # t => pc'[u] = pc[u] /\ op'[u] = op[u]
  BY DEF Done, Goto, TypeOK
<1>5. \A c \in Copy : mutex'[c] # t /\ shared'[c] # t
  BY <1>2, <1>3, Unlocking, FlagAssumption
<1>6. \A f \in Flag : lock'[f] # t
  BY DEF Locks, Forking
<1>7. ASSUME NEW u \in Thread, u # t, NEW c \in Copy
      PROVE  (mutex'[c] = u <=> mutex[c] = u) /\ (shared'[c] = u <=> shared[c] = u)
  BY <1>2, <1>3, <1>7, Unlocking, FlagAssumption
<1>. QED BY <1>3, <1>4, <1>5, <1>6, <1>7

LEMMA RegisterKeeps ==
  ASSUME TypeOK, Global, NEW t \in Thread, Local(t), Register(t)
  PROVE  Kept(t)
<1>. USE DEF Local
<1>. DEFINE f == F(t)
            c == C(t)
            d == table[C(t)]
<1>1. /\ pc[t] = "shared" /\ Kind(t) = "register" /\ ~aborted
      /\ UnlockShared(t) /\ UnlockRegistry(t) /\ Done(t)
      /\ UNCHANGED <<loading, lock, values, saved>>
  BY DEF Register, At
<1>2. /\ f \in Flag /\ c = CopyOf[f] /\ c \in Copy /\ d \in Copy
      /\ load[c] = "loaded" /\ mutex[c] = t /\ state[f] = "ready" /\ alive[f]
      /\ Owner[f] \in {t, NoThread}
  BY <1>1, Typing
     DEF Operates, Locks, HoldsMutex, Initializes, Reaches, Forking, C, Owning, Direct
<1>3. /\ names' \in [Copy -> SUBSET Flag] /\ names'[d] = names[d] \cup {f}
      /\ \A e \in Copy : e # d => names'[e] = names[e]
  BY <1>2 DEF Register, TypeOK
<1>4. /\ entry' \in [Flag -> Nat] /\ entry'[f] = nextRegistration[c]
      /\ \A g \in Flag : g # f => entry'[g] = entry[g]
  BY <1>2 DEF Register, TypeOK
<1>5. /\ nextRegistration' \in [Copy -> Nat \ {0}]
      /\ nextRegistration'[c] = nextRegistration[c] + 1
      /\ \A e \in Copy : e # c => nextRegistration'[e] = nextRegistration[e]
  BY <1>2 DEF Register, TypeOK
<1>. HIDE DEF f, c, d
<1>6. TypeOK'
  BY <1>1, <1>3, <1>4, <1>5, UnlocksAll, Unlocking DEF TypeOK, loading, values
<1>7. EntryInv'
  <2>1. \A e \in Copy : nextRegistration[e] \in Nat \ {0} /\ nextRegistration'[e] >= nextRegistration[e]
    BY <1>5 DEF TypeOK
  <2>2. ASSUME NEW g \in Flag, g # f
        PROVE  /\ entry'[g] # 0 =>
                    /\ alive[g] /\ state[g] = "ready"
                    /\ load[CopyOf[g]] = "loaded" /\ g \in names'[table[CopyOf[g]]]
               /\ entry'[g] < nextRegistration'[CopyOf[g]]
               /\ g \in Static => alive[g] /\ life[g] = 0
    <3>1. CopyOf[g] \in Copy /\ table[CopyOf[g]] \in Copy
      BY Typing
    <3>2. names[table[CopyOf[g]]] \subseteq names'[table[CopyOf[g]]]
      BY <1>3, <3>1
    <3>3. entry[g] \in Nat /\ entry'[g] = entry[g] /\ nextRegistration'[CopyOf[g]] \in Nat
      BY <1>4, <1>5, <2>2, <3>1 DEF TypeOK
    <3>4. entry[g] < nextRegistration[CopyOf[g]]
      BY DEF Global, EntryInv
    <3>5. entry'[g] < nextRegistration'[CopyOf[g]]
      BY <2>1, <3>1, <3>3, <3>4
    <3>. QED BY <3>2, <3>3, <3>5 DEF Global, EntryInv
  <2>3. f \in names'[table[CopyOf[f]]]
    BY <1>2, <1>3 DEF d, c
  <2>4. entry'[f] < nextRegistration'[CopyOf[f]]
    BY <1>2, <1>4, <1>5, <2>1
  <2>5. f \in Static => life[f] = 0
    BY <1>2 DEF Global, EntryInv
  <2>. QED BY <1>1, <1>2, <2>2, <2>3, <2>4, <2>5 DEF EntryInv, loading, values
<1>8. NameInv'
  <2>. SUFFICES ASSUME ~aborted', NEW e \in Copy, NEW g \in names'[e], NEW h \in names'[e],
                       NameOf[g] = NameOf[h]
               PROVE  g = h
    BY DEF NameInv
  <2>1. names[d] \cap Taken(t) = {}
    BY DEF Register, d
  <2>2. \A k \in names[d] : NameOf[k] = NameOf[f] => k = f
    BY <1>2, <2>1 DEF Taken, f, TypeOK
  <2>3. \A k, l \in names[e] : NameOf[k] = NameOf[l] => k = l
    BY <1>1 DEF Global, NameInv
  <2>. QED BY <1>3, <2>2, <2>3
<1>9. ValueInv' /\ MutexInv' /\ LoadInv'
  BY <1>1, Unlocking DEF Global, ValueInv, MutexInv, LoadInv, loading, values
<1>10. Guarantee(t)
  <2>1. \A e \in Copy : nextRegistration'[e] >= nextRegistration[e]
    BY <1>5 DEF TypeOK
  <2>2. \A g \in Flag : entry'[g] = entry[g] \/ (mutex[CopyOf[g]] = t /\ entry'[g] = nextRegistration[CopyOf[g]])
    BY <1>2, <1>4
  <2>3. \A g \in Flag : Owner[g] \notin {t, NoThread} => entry'[g] = entry[g]
    BY <1>2, <1>4
  <2>. QED BY <1>1, <2>1, <2>2, <2>3, UnlocksAll DEF Guarantee, loading, values
<1>11. Saves(t)'
  <2>. DEFINE s == saved[t].flag
              r == saved[t].registration
  <2>. SUFFICES ASSUME s # NoFlag
               PROVE  /\ r < nextRegistration'[CopyOf[s]]
                      /\ r # 0 /\ entry'[s] = r => life[s] = saved[t].life
    BY <1>1 DEF Saves, values
  <2>1. /\ s \in Flag /\ r \in Nat /\ r < nextRegistration[CopyOf[s]]
        /\ r # 0 /\ entry[s] = r => life[s] = saved[t].life
    BY DEF Saves
  <2>2. CopyOf[s] \in Copy
    BY <2>1, Typing
  <2>3. /\ nextRegistration[CopyOf[s]] \in Nat /\ nextRegistration'[CopyOf[s]] \in Nat
        /\ nextRegistration'[CopyOf[s]] >= nextRegistration[CopyOf[s]]
    BY <1>5, <2>2 DEF TypeOK
  <2>4. entry'[s] = entry[s] \/ entry'[s] = nextRegistration[CopyOf[s]]
    BY <1>2, <1>4, <2>1
  <2>. QED BY <2>1, <2>3, <2>4
<1>12. Owns(t)'
  <2>1. nextRegistration[c] # 0
    BY <1>2 DEF TypeOK
  <2>. QED BY <1>1, <1>4, <2>1 DEF Owns, values, f
<1>. QED BY <1>1, <1>6, <1>7, <1>8, <1>9, <1>10, <1>11, <1>12, UnlocksAll, Ended DEF Kept, Global

LEMMA UnregisterKeeps ==
  ASSUME TypeOK, Global, NEW t \in Thread, Local(t), Unregister(t)
  PROVE  Kept(t)
<1>. USE DEF Local
<1>. DEFINE f == F(t)
            c == C(t)
            d == table[C(t)]
<1>1. /\ pc[t] = "shared" /\ Kind(t) = "unregister"
      /\ UnlockShared(t) /\ UnlockRegistry(t) /\ Done(t)
      /\ UNCHANGED <<loading, lock, nextRegistration, life, state, current, default,
                     modified, explicit, saved, aborted>>
  BY DEF Unregister, At
<1>2. /\ f \in Flag /\ c = CopyOf[f] /\ c \in Copy /\ d \in Copy
      /\ mutex[c] = t /\ Owner[f] = t
  BY <1>1, Typing DEF Operates, Locks, HoldsMutex, Forking, C
<1>3. /\ names' \in [Copy -> SUBSET Flag]
      /\ \A e \in Copy : names[e] \ {f} \subseteq names'[e] /\ names'[e] \subseteq names[e]
  BY <1>2 DEF Unregister, TypeOK
<1>4. /\ entry' \in [Flag -> Nat] /\ entry'[f] = 0
      /\ \A g \in Flag : g # f => entry'[g] = entry[g]
  BY <1>2 DEF Unregister, TypeOK
<1>5. /\ DOMAIN alive' = Flag /\ alive'[f] = FALSE
      /\ \A g \in Flag : g # f => alive'[g] = alive[g]
  BY <1>2 DEF Unregister, TypeOK
<1>. HIDE DEF f, c, d
<1>6. TypeOK'
  BY <1>1, <1>3, <1>4, <1>5, UnlocksAll, Unlocking DEF TypeOK, loading
<1>7. EntryInv'
  <2>1. ASSUME NEW g \in Flag, g # f
        PROVE  /\ entry'[g] # 0 =>
                    /\ alive'[g] /\ state[g] = "ready"
                    /\ load[CopyOf[g]] = "loaded" /\ g \in names'[table[CopyOf[g]]]
               /\ entry'[g] < nextRegistration[CopyOf[g]]
               /\ g \in Static => alive'[g] /\ life[g] = 0
    <3>1. table[CopyOf[g]] \in Copy
      BY Typing
    <3>2. entry'[g] = entry[g] /\ alive'[g] = alive[g]
      BY <1>4, <1>5, <2>1
    <3>3. g \in names[table[CopyOf[g]]] => g \in names'[table[CopyOf[g]]]
      BY <1>3, <2>1, <3>1
    <3>. QED BY <3>2, <3>3 DEF Global, EntryInv
  <2>2. nextRegistration[CopyOf[f]] \in Nat \ {0}
    BY <1>2 DEF TypeOK
  <2>3. entry'[f] < nextRegistration[CopyOf[f]]
    BY <1>4, <2>2
  <2>4. f \notin Static
    BY <1>2, FlagAssumption DEF Static
  <2>. QED BY <1>1, <1>4, <2>1, <2>3, <2>4 DEF EntryInv, loading, Static
<1>8. NameInv'
  BY <1>1, <1>3 DEF Global, NameInv
<1>9. ValueInv' /\ MutexInv' /\ LoadInv'
  BY <1>1, Unlocking DEF Global, ValueInv, MutexInv, LoadInv, loading
<1>10. Guarantee(t)
  <2>1. \A e \in Copy : nextRegistration[e] \in Nat
    BY DEF TypeOK
  <2>2. \A g \in Flag : /\ entry'[g] = entry[g] \/ (mutex[CopyOf[g]] = t /\ entry'[g] = 0)
                        /\ alive[g] => alive'[g] \/ (Owner[g] = t /\ mutex[CopyOf[g]] = t)
    BY <1>2, <1>4, <1>5
  <2>3. \A g \in Flag : Owner[g] \notin {t, NoThread} =>
          alive'[g] = alive[g] /\ entry'[g] = entry[g]
    BY <1>2, <1>4, <1>5
  <2>. QED BY <1>1, <2>1, <2>2, <2>3, UnlocksAll DEF Guarantee, loading
<1>11. Saves(t)'
  <2>1. ASSUME saved[t].flag \in Flag, saved[t].registration # 0,
               entry'[saved[t].flag] = saved[t].registration
        PROVE  entry[saved[t].flag] = saved[t].registration
    BY <1>4, <2>1
  <2>. QED BY <1>1, <2>1 DEF Saves
<1>12. Owns(t)'
  <2>1. ~alive'[f]
    BY <1>5, FalseFails
  <2>2. ASSUME NEW g \in Flag, Owner[g] = t, alive'[g]
        PROVE  entry'[g] # 0
    <3>1. g # f /\ alive[g]
      BY <1>5, <2>1, <2>2
    <3>. QED BY <1>1, <1>4, <2>2, <3>1 DEF Owns
  <2>. QED BY <2>2 DEF Owns
<1>. QED BY <1>1, <1>6, <1>7, <1>8, <1>9, <1>10, <1>11, <1>12, UnlocksAll, Ended DEF Kept, Global

\* What a thread may begin.
LEMMA Permitted ==
  ASSUME NEW t, NEW k \in Owning, NEW f, May(t, k, f)
  PROVE  /\ Owner[f] \in {t, NoThread}
         /\ k # "register" => alive[f]
         /\ k = "register" => entry[f] = 0 /\ (f \in Static \/ ~alive[f])
<1>1. CASE k \in {"get", "set"}
  BY <1>1 DEF May
<1>2. CASE k = "register"
  BY <1>2 DEF May
<1>3. CASE k = "scope"
  BY <1>3 DEF May
<1>. QED BY <1>1, <1>2, <1>3 DEF Owning, Direct

LEMMA BeginKeeps ==
  ASSUME TypeOK, Global, NEW t \in Thread, Local(t), NEW k \in Kinds, NEW f \in Flag,
         Begin(t, k, f)
  PROVE  Kept(t)
<1>. USE DEF Local
<1>1. /\ pc[t] = "idle" /\ load[CopyOf[f]] = "loaded" /\ May(t, k, f)
      /\ op' = [op EXCEPT ![t] = [kind |-> k, flag |-> f]]
      /\ pc' = [pc EXCEPT ![t] = IF k \in Direct THEN "init" ELSE "mutex"]
      /\ UNCHANGED <<loading, mutex, shared, lock, registries, saved, aborted>>
  BY DEF Begin, At, Goto
<1>2. /\ DOMAIN pc' = Thread /\ DOMAIN op' = Thread
      /\ pc'[t] = (IF k \in Direct THEN "init" ELSE "mutex")
      /\ Kind(t)' = k /\ F(t)' = f /\ C(t)' = CopyOf[f]
      /\ \A u \in Thread : u # t => pc'[u] = pc[u] /\ op'[u] = op[u]
  BY <1>1 DEF TypeOK, Kind, F, C
<1>. DEFINE New == k = "register" /\ f \notin Static
<1>3. /\ New => /\ life' = [life EXCEPT ![f] = @ + 1]
                /\ alive' = [alive EXCEPT ![f] = TRUE]
                /\ state' = [state EXCEPT ![f] = "ready"]
                /\ current' = [current EXCEPT ![f] = "initial"]
                /\ default' = [default EXCEPT ![f] = "initial"]
                /\ modified' = [modified EXCEPT ![f] = FALSE]
                /\ UNCHANGED explicit
      /\ ~New => UNCHANGED values
  BY DEF Begin
<1>4. New => entry[f] = 0 /\ ~alive[f]
  <2>1. k = "register" => entry[f] = 0 /\ (f \in Static \/ ~alive[f])
    BY <1>1, Permitted DEF Owning, Direct
  <2>. QED BY <2>1
<1>5. /\ DOMAIN life' = Flag /\ DOMAIN alive' = Flag
      /\ state' \in [Flag -> {"uninitialized", "initializing", "ready"}]
      /\ DOMAIN current' = Flag /\ DOMAIN default' = Flag
      /\ DOMAIN modified' = Flag /\ DOMAIN explicit' = Flag
      /\ \A g \in Flag : ~New \/ g # f =>
           /\ life'[g] = life[g] /\ alive'[g] = alive[g] /\ state'[g] = state[g]
           /\ current'[g] = current[g] /\ modified'[g] = modified[g]
           /\ explicit'[g] = explicit[g]
      /\ New => /\ alive'[f] = TRUE /\ state'[f] = "ready" /\ current'[f] = "initial"
                /\ modified'[f] = FALSE
  BY <1>3 DEF values, TypeOK
<1>. HIDE DEF New
<1>6. New => alive'[f] /\ ~modified'[f]
  BY <1>5, TrueHolds, FalseFails
<1>7. TypeOK'
  BY <1>1, <1>2, <1>5 DEF TypeOK, loading, registries
<1>8. ValueInv'
  BY <1>5, <1>6 DEF Global, ValueInv
<1>9. EntryInv'
  <2>1. ASSUME NEW g \in Flag
        PROVE  /\ entry[g] # 0 => alive'[g] /\ state'[g] = "ready"
               /\ g \in Static => alive'[g] /\ life'[g] = 0
    BY <1>4, <1>5, <1>6 DEF Global, EntryInv, New
  <2>. QED BY <1>1, <2>1 DEF Global, EntryInv, loading, registries
<1>10. NameInv' /\ MutexInv' /\ LoadInv'
  BY <1>1 DEF Global, NameInv, MutexInv, LoadInv, loading, registries
<1>11. Guarantee(t)
  <2>1. \A c \in Copy : nextRegistration[c] \in Nat
    BY DEF TypeOK
  <2>2. ASSUME NEW g \in Flag
        PROVE  /\ state[g] = "ready" => state'[g] = "ready"
               /\ state[g] = "initializing" => state'[g] = "initializing" \/ ~alive[g]
               /\ alive[g] => alive'[g]
               /\ life'[g] = life[g] \/ entry'[g] = 0
               /\ Owner[g] \notin {t, NoThread} => (alive'[g] => alive[g])
    <3>1. New => Owner[f] \in {t, NoThread}
      BY <1>1, Permitted DEF New, Owning, Direct
    <3>. QED BY <1>1, <1>4, <1>5, <1>6, <3>1 DEF registries
  <2>. QED BY <1>1, <1>2, <2>1, <2>2 DEF Guarantee, loading, registries
<1>12. Operates(t)'
  <2>1. /\ k \in Owning => Owner[f] \in {t, NoThread}
        /\ k = "unregister" => Owner[f] = t
        /\ k \in Saving => saved[t].flag = NoFlag
        /\ k = "restore" => saved[t].flag = f
    <3>1. k \in Owning => Owner[f] \in {t, NoThread}
      BY <1>1, Permitted
    <3>2. k = "unregister" => Owner[f] = t
      BY <1>1 DEF May
    <3>3. k \in Saving => saved[t] = NoSave
      <4>1. k = "save" => saved[t] = NoSave
        BY <1>1 DEF May
      <4>2. k = "scope" => saved[t] = NoSave
        BY <1>1 DEF May
      <4>. QED BY <4>1, <4>2 DEF Saving
    <3>4. k = "restore" => saved[t].flag = f
      BY <1>1 DEF May
    <3>. QED BY <3>1, <3>2, <3>3, <3>4 DEF NoSave
  <2>2. k \notin Direct => k \in Looking \cup {"register", "unregister", "scope"}
    BY DEF Kinds, Direct, Looking
  <2>3. load'[CopyOf[f]] = "loaded" /\ saved'[t] = saved[t]
    BY <1>1 DEF loading
  <2>. QED BY <1>2, <2>1, <2>2, <2>3 DEF Operates, Forking, Using, Direct
<1>13. Locks(t)'
  <2>1. ~HoldsMutex(t)'
    BY <1>2 DEF HoldsMutex, Using, Looking, Direct
  <2>2. /\ \A c \in Copy : mutex[c] # t /\ shared[c] # t
        /\ \A g \in Flag : lock[g] # t
    BY <1>1 DEF Locks, HoldsMutex, Using, Forking
  <2>. QED BY <1>1, <1>2, <2>1, <2>2 DEF Locks
<1>14. Forks(t)' /\ Initializes(t)'
  BY <1>2 DEF Forks, Initializes, Direct
<1>15. Reaches(t)'
  <2>1. k \in Owning => alive'[f]
    <3>1. k \in Owning \ {"register"} => alive[f]
      BY <1>1, Permitted
    <3>2. k = "register" /\ ~New => alive[f]
      BY DEF New, Global, EntryInv
    <3>3. k # "register" => ~New
      BY DEF New
    <3>. QED BY <1>5, <1>6, <3>1, <3>2, <3>3
  <2>2. pc'[t] \in Using => k \in Direct
    BY <1>2 DEF Using
  <2>. QED BY <1>2, <2>1, <2>2 DEF Reaches, Looking, Direct
<1>17. Owns(t)'
  <2>1. ASSUME NEW g \in Flag, Owner[g] = t, alive'[g]
        PROVE  entry[g] # 0 \/ (k = "register" /\ f = g)
    <3>1. CASE New /\ g = f
      BY <3>1 DEF New
    <3>2. CASE ~(New /\ g = f)
      <4>1. alive[g]
        BY <1>5, <2>1, <3>2
      <4>2. Kind(t) # "register"
        BY <1>1 DEF Operates, NoOp, Kind
      <4>. QED BY <2>1, <4>1, <4>2 DEF Owns
    <3>. QED BY <3>1, <3>2
  <2>. QED BY <1>1, <1>2, <2>1 DEF Owns, registries
<1>16. Saves(t)'
  <2>1. ASSUME saved[t].flag # NoFlag, saved[t].registration # 0,
               entry[saved[t].flag] = saved[t].registration
        PROVE  life'[saved[t].flag] = life[saved[t].flag]
    BY <1>4, <1>5, <2>1 DEF Saves
  <2>. QED BY <1>1, <2>1 DEF Saves, registries
<1>. QED BY <1>7, <1>8, <1>9, <1>10, <1>11, <1>12, <1>13, <1>14, <1>15, <1>16, <1>17
     DEF Kept, Global

-----------------------------------------------------------------------------
(* Steps of the loading of a copy.                                         *)

\* The copy that is loaded has no flags, and nobody uses its table or mutex.
LEMMA LoadingIsAlone ==
  ASSUME TypeOK, TypeOK', Global, NEW c \in Copy, load[c] # "loaded",
         \A d \in Copy : d # c => load'[d] = load[d] /\ table'[d] = table[d],
         Installed' = Installed \/ (\A t \in Thread : pc[t] \notin Forking),
         UNCHANGED <<mutex, shared, lock, registries, values, pc, op, saved>>,
         NEW t \in Thread, Local(t)
  PROVE  Local(t)'
<1>. USE DEF Local
<1>1. F(t)' = F(t) /\ Kind(t)' = Kind(t) /\ C(t)' = C(t) /\ (HoldsMutex(t)' <=> HoldsMutex(t))
  BY DEF F, Kind, C, HoldsMutex
<1>2. pc[t] \notin {"idle"} \cup Forking =>
        load'[C(t)] = "loaded" /\ table'[C(t)] = table[C(t)]
  BY Typing DEF Operates, C
<1>3. Operates(t)'
  BY <1>1, <1>2 DEF Operates
<1>4. Locks(t)'
  BY <1>1, <1>2 DEF Locks, Forking
<1>5. Forks(t)'
  BY <1>1 DEF Forks, Forking, registries
<1>6. Initializes(t)' /\ Saves(t)'
  BY <1>1 DEF Initializes, Saves, registries, values, F
<1>7. Reaches(t)' /\ Owns(t)'
  BY ReachesSame, OwnsSame DEF registries, values
<1>. QED BY <1>3, <1>4, <1>5, <1>6, <1>7

\* What the loading of a copy leaves to the flags and the names.
LEMMA LoadingSpares ==
  ASSUME TypeOK, Global, NEW c \in Copy, load[c] # "loaded",
         \A d \in Copy : d # c => load'[d] = load[d] /\ table'[d] = table[d],
         UNCHANGED <<mutex, registries, values>>, aborted' = aborted \/ aborted' = TRUE
  PROVE  ValueInv' /\ EntryInv' /\ NameInv' /\ MutexInv'
<1>1. ValueInv'
  BY DEF Global, ValueInv, values
<1>2. EntryInv'
  BY Typing DEF Global, EntryInv, registries, values
<1>3. NameInv'
  BY TrueHolds DEF Global, NameInv, registries
<1>4. MutexInv'
  BY DEF Global, MutexInv
<1>. QED BY <1>1, <1>2, <1>3, <1>4

\* The only anchor is the lowest.
LEMMA OneAnchor ==
  ASSUME TypeOK, anchors # {}, \A a, b \in anchors : a = b
  PROVE  Lowest \in anchors
<1>1. PICK x \in anchors : TRUE
  OBVIOUS
<1>2. x \in Nat
  BY DEF TypeOK, Address
<1>3. \A b \in anchors : x <= b
  BY <1>1, <1>2
<1>. QED BY <1>1, <1>3 DEF Lowest

Loading == {"create", "created", "publish"}

LEMMA LoadTypes ==
  ASSUME TypeOK, NEW c \in Copy, Load(c)
  PROVE  /\ TypeOK' /\ load[c] # "loaded"
         /\ \A d \in Copy : d # c =>
              load'[d] = load[d] /\ table'[d] = table[d] /\ anchor'[d] = anchor[d]
         /\ UNCHANGED <<mutex, shared, lock, registries, values, pc, op, saved>>
         /\ aborted' = aborted \/ aborted' = TRUE
         /\ Installed' = Installed \/ \A t \in Thread : pc[t] \notin Forking
<1>. USE DEF TypeOK
<1>1. CASE FindAnchor(c)
  BY <1>1 DEF FindAnchor, Unchanged, registries, values
<1>2. CASE CreateAnchor(c)
  BY <1>2 DEF CreateAnchor, Unchanged, registries, values, Installed
<1>3. CASE NoAnchor(c)
  BY <1>3 DEF NoAnchor, Unchanged, registries, values, Installed
<1>4. CASE SettleAnchor(c)
  BY <1>4 DEF SettleAnchor, Unchanged, registries, values, Installed
<1>5. CASE PublishSharedRegistry(c)
  BY <1>5 DEF PublishSharedRegistry, Unchanged, registries, values, Installed
<1>6. CASE AnchorIsGone(c)
  BY <1>6 DEF AnchorIsGone, loading, registries, values, Installed
<1>. QED BY <1>1, <1>2, <1>3, <1>4, <1>5, <1>6 DEF Load

LEMMA LoadInvKeeps ==
  ASSUME TypeOK, TypeOK', LoadInv, NEW c \in Copy, Load(c)
  PROVE  LoadInv'
<1>. DEFINE Anchored ==
        /\ \A a, b \in anchors : a = b
        /\ \A d \in Copy :
             /\ load[d] = "create" => anchors = {}
             /\ load[d] \in {"created", "publish"} => anchor[d] \in anchors
             /\ load[d] = "loaded" => anchors # {} /\ \A a \in anchors : cell[a] = table[d]
        /\ \A d, e \in Copy : {load[d], load[e]} \subseteq Loading => d = e
<1>1. /\ \A d \in Copy : load[d] # "loaded" => table[d] = d
      /\ ~apart => Anchored
  BY DEF LoadInv, Loading
<1>2. SUFFICES /\ \A d \in Copy : load'[d] # "loaded" => table'[d] = d
               /\ ~apart' => Anchored'
  BY DEF LoadInv, Loading
<1>3. /\ load[c] # "loaded"
      /\ \A d \in Copy : d # c =>
           load'[d] = load[d] /\ table'[d] = table[d] /\ anchor'[d] = anchor[d]
  BY LoadTypes
<1>4. CASE FindAnchor(c)
  <2>1. /\ load[c] = "unloaded" /\ UNCHANGED <<anchors, cell, table>>
        /\ anchor'[c] = Lowest
        /\ load'[c] = IF anchors = {} THEN "create" ELSE "publish"
        /\ ~apart' => ~apart /\ Others(c, Loading) = {}
    BY <1>4 DEF FindAnchor, TypeOK, Loading
  <2>2. ASSUME ~apart'
        PROVE  Anchored'
    <3>1. Anchored /\ \A d \in Copy : d # c => load[d] \notin Loading
      BY <1>1, <2>1, <2>2 DEF Others
    <3>2. anchors # {} => Lowest \in anchors
      BY <3>1, OneAnchor
    <3>3. \A a, b \in anchors' : a = b
      BY <2>1, <3>1
    <3>4. ASSUME NEW d \in Copy
          PROVE  /\ load'[d] = "create" => anchors' = {}
                 /\ load'[d] \in {"created", "publish"} => anchor'[d] \in anchors'
                 /\ load'[d] = "loaded" =>
                      anchors' # {} /\ \A a \in anchors' : cell'[a] = table'[d]
      BY <1>3, <2>1, <3>1, <3>2
    <3>5. \A d, e \in Copy : {load'[d], load'[e]} \subseteq Loading => d = e
      BY <1>3, <3>1
    <3>. QED BY <3>3, <3>4, <3>5
  <2>. QED BY <1>1, <1>3, <2>1, <2>2
<1>5. CASE CreateAnchor(c)
  <2>1. PICK a \in Address \ anchors :
          /\ anchors' = anchors \cup {a} /\ anchor'[c] = a
          /\ load[c] = "create" /\ load'[c] = "created" /\ UNCHANGED <<table, apart>>
    BY <1>5 DEF CreateAnchor, TypeOK
  <2>2. ASSUME ~apart'
        PROVE  Anchored'
    <3>1. Anchored
      BY <1>1, <2>1, <2>2
    <3>2. anchors = {} /\ \A d \in Copy : d # c => load[d] = "unloaded"
      BY <2>1, <3>1 DEF TypeOK, Loading
    <3>3. anchors' = {a} /\ \A d \in Copy : d # c => load'[d] = "unloaded"
      BY <1>3, <2>1, <3>2
    <3>. QED BY <2>1, <3>3 DEF Loading
  <2>. QED BY <1>1, <1>3, <2>1, <2>2
<1>6. CASE NoAnchor(c)
  <2>1. apart' /\ load'[c] = "loaded" /\ UNCHANGED table
    BY <1>6, TrueHolds DEF NoAnchor, TypeOK
  <2>. QED BY <1>1, <1>3, <2>1
<1>7. CASE SettleAnchor(c)
  <2>1. /\ load[c] = "created" /\ load'[c] = "publish" /\ anchor'[c] = Lowest
        /\ anchors' = IF Lowest = anchor[c] THEN anchors ELSE anchors \ {anchor[c]}
        /\ UNCHANGED <<cell, table, apart>>
    BY <1>7 DEF SettleAnchor, TypeOK
  <2>2. ASSUME ~apart'
        PROVE  Anchored'
    <3>1. Anchored
      BY <1>1, <2>1, <2>2
    <3>2. anchor[c] \in anchors /\ Lowest \in anchors
      BY <2>1, <3>1, OneAnchor
    <3>3. anchors' = anchors
      BY <2>1, <3>1, <3>2
    <3>4. ASSUME NEW d \in Copy
          PROVE  /\ load'[d] = "create" => anchors' = {}
                 /\ load'[d] \in {"created", "publish"} => anchor'[d] \in anchors'
                 /\ load'[d] = "loaded" =>
                      anchors' # {} /\ \A a \in anchors' : cell'[a] = table'[d]
      BY <1>3, <2>1, <3>1, <3>2, <3>3
    <3>5. \A d, e \in Copy : {load'[d], load'[e]} \subseteq Loading => d = e
      BY <1>3, <2>1, <3>1 DEF Loading
    <3>. QED BY <3>1, <3>3, <3>4, <3>5
  <2>. QED BY <1>1, <1>3, <2>1, <2>2
<1>8. CASE PublishSharedRegistry(c)
  <2>. DEFINE a == anchor[c]
  <2>1. /\ load[c] = "publish" /\ a \in anchors /\ load'[c] = "loaded"
        /\ UNCHANGED <<anchors, anchor, apart>>
    BY <1>8 DEF PublishSharedRegistry, TypeOK
  <2>2. \/ cell[a] = "none" /\ cell'[a] = c /\ UNCHANGED table
        \/ cell[a] # "none" /\ table'[c] = cell[a] /\ UNCHANGED cell
    BY <1>8 DEF PublishSharedRegistry, TypeOK
  <2>3. ASSUME ~apart'
        PROVE  Anchored'
    <3>1. Anchored
      BY <1>1, <2>1, <2>3
    <3>2. anchors = {a}
      BY <2>1, <3>1
    <3>. HIDE DEF a
    <3>3. \A d \in Copy : load[d] = "loaded" => cell[a] = table[d] /\ cell[a] # "none"
      BY <3>1, <3>2, FlagAssumption DEF TypeOK
    <3>4. cell'[a] = table'[c]
      BY <1>1, <2>1, <2>2
    <3>5. ASSUME NEW d \in Copy, load'[d] = "loaded"
          PROVE  cell'[a] = table'[d]
      <4>1. CASE d = c
        BY <3>4, <4>1
      <4>2. CASE d # c
        BY <1>3, <2>2, <3>3, <3>5, <4>2
      <4>. QED BY <4>1, <4>2
    <3>6. ASSUME NEW d \in Copy
          PROVE  /\ load'[d] # "create"
                 /\ load'[d] \in {"created", "publish"} => anchor'[d] \in anchors'
      BY <1>3, <2>1, <3>1, <3>2
    <3>7. \A d, e \in Copy : {load'[d], load'[e]} \subseteq Loading => d = e
      BY <1>3, <2>1, <3>1 DEF Loading
    <3>. QED BY <2>1, <3>1, <3>2, <3>5, <3>6, <3>7
  <2>. QED BY <1>1, <1>3, <2>1, <2>3
<1>9. CASE AnchorIsGone(c)
  <2>1. UNCHANGED <<load, anchors, cell, anchor, table, apart>>
    BY <1>9 DEF AnchorIsGone, loading
  <2>. QED BY <1>1, <2>1
<1>. QED BY <1>4, <1>5, <1>6, <1>7, <1>8, <1>9 DEF Load

LEMMA LoadKeeps ==
  ASSUME IInv, NEW c \in Copy, Load(c)
  PROVE  IInv'
<1>1. TypeOK /\ Global
  BY DEF IInv
<1>2. TypeOK' /\ ValueInv' /\ EntryInv' /\ NameInv' /\ MutexInv'
  BY <1>1, LoadTypes, LoadingSpares
<1>3. LoadInv'
  BY <1>1, <1>2, LoadInvKeeps DEF Global
<1>4. \A t \in Thread : Local(t)'
  BY <1>1, <1>2, LoadTypes, LoadingIsAlone DEF IInv
<1>. QED BY <1>2, <1>3, <1>4 DEF IInv, Global

-----------------------------------------------------------------------------
(* The invariant.                                                          *)

LEMMA StepKeeps ==
  ASSUME IInv, NEW t \in Thread, Step(t)
  PROVE  IInv'
<1>1. TypeOK /\ Global /\ EntryInv /\ \A u \in Thread : Local(u)
  BY DEF IInv, Global
<1>2. Kept(t)
  <2>1. CASE \E k \in Kinds, f \in Flag : Begin(t, k, f)
    BY <1>1, <2>1, BeginKeeps
  <2>2. CASE \/ LockRegistry(t) \/ NotFound(t) \/ UseFound(t) \/ SaveRegistration(t)
             \/ LoadState(t) \/ Claim(t) \/ StoreInitial(t) \/ Spin(t)
    BY <1>1, <2>2, LockRegistryKeeps, NotFoundKeeps, UseFoundKeeps, SaveRegistrationKeeps,
       LoadStateKeeps, ClaimKeeps, StoreInitialKeeps
  <2>3. CASE \/ Read(t) \/ Registering(t) \/ LockValue(t) \/ Write(t) \/ Save(t)
             \/ LockShared(t) \/ Register(t) \/ Unregister(t)
    BY <1>1, <2>3, ReadKeeps, RegisteringKeeps, LockValueKeeps, WriteKeeps, SaveKeeps,
       LockSharedKeeps, RegisterKeeps, UnregisterKeeps
  <2>4. CASE \/ BeginFork(t) \/ LockForFork(t) \/ LockFlagForFork(t) \/ FlagsLocked(t)
             \/ LockSharedForFork(t) \/ Fork(t) \/ ResumeAfterFork(t)
    BY <1>1, <2>4, ForkMoves, ForkLocks, ResumeKeeps
  <2>. QED BY <2>1, <2>2, <2>3, <2>4 DEF Step
<1>3. ASSUME NEW u \in Thread
      PROVE  Local(u)'
  <2>1. CASE u = t
    BY <1>2, <2>1 DEF Kept
  <2>2. CASE u # t
    BY <1>1, <1>2, <2>2, OthersKeep DEF Kept
  <2>. QED BY <2>1, <2>2
<1>. QED BY <1>2, <1>3 DEF IInv, Kept

LEMMA InitHolds == Init => IInv
<1>. SUFFICES ASSUME Init PROVE IInv
  OBVIOUS
<1>. USE DEF Init
<1>1. TypeOK
  BY FlagAssumption DEF TypeOK
<1>2. ValueInv
  BY FalseFails DEF ValueInv
<1>3. EntryInv
  <2>1. \A f \in Flag : f \in Static => alive[f]
    BY TrueHolds DEF Static
  <2>. QED BY <2>1, FlagAssumption DEF EntryInv
<1>4. NameInv /\ MutexInv
  BY DEF NameInv, MutexInv
<1>5. LoadInv
  BY DEF LoadInv
<1>6. ASSUME NEW t \in Thread
      PROVE  Local(t)
  <2>1. pc[t] = "idle" /\ op[t] = NoOp /\ Kind(t) = "none"
    BY DEF Kind, NoOp
  <2>2. Operates(t)
    BY <2>1 DEF Operates, Using, Owning, Direct, Saving
  <2>3. ~HoldsMutex(t)
    BY <2>1 DEF HoldsMutex, Using
  <2>4. Locks(t)
    BY <2>1, <2>3, FlagAssumption DEF Locks
  <2>5. Forks(t) /\ Initializes(t) /\ Reaches(t)
    BY <2>1 DEF Forks, Initializes, Reaches, Using, Owning, Direct
  <2>6. Saves(t)
    BY DEF Saves, NoSave
  <2>7. Owns(t)
    BY FalseFails, FlagAssumption DEF Owns, Static
  <2>. QED BY <2>2, <2>4, <2>5, <2>6, <2>7 DEF Local
<1>. QED BY <1>1, <1>2, <1>3, <1>4, <1>5, <1>6 DEF IInv, Global

\* Whatever threads and copies of the library do in whatever order, what holds
\* of each thread, of the flags and of the tables holds in every state.
THEOREM InductiveInvariant == Spec => []IInv
<1>1. ASSUME IInv, UNCHANGED vars
      PROVE  IInv'
  <2>. USE <1>1 DEF vars
  <2>1. TypeOK' /\ Global'
    BY DEF IInv, TypeOK, Global, ValueInv, EntryInv, NameInv, MutexInv, LoadInv,
           loading, registries, values
  <2>2. ASSUME NEW t \in Thread
        PROVE  Local(t)'
    <3>1. F(t)' = F(t) /\ Kind(t)' = Kind(t) /\ C(t)' = C(t) /\ (HoldsMutex(t)' <=> HoldsMutex(t))
          /\ Installed' = Installed
      BY DEF F, Kind, C, HoldsMutex, Installed, loading
    <3>2. Local(t)
      BY DEF IInv
    <3>3. Reaches(t)' /\ Owns(t)' /\ Saves(t)'
      BY <3>2, ReachesSame, OwnsSame, SavesSame DEF Local, registries, values
    <3>. QED BY <3>1, <3>2, <3>3 DEF Local, Operates, Locks, Forks, Initializes,
           loading, registries, values, F
  <2>. QED BY <2>1, <2>2 DEF IInv
<1>2. IInv /\ [Next]_vars => IInv'
  BY <1>1, LoadKeeps, StepKeeps DEF Next
<1>. QED BY <1>2, InitHolds, PTL DEF Spec

\* A default, of the environment or computed late by another thread, never
\* replaces a value that was set (AtomicFlagValueStorage::SetDefault, flags.h).
THEOREM ExplicitValuesStay == Spec => []ExplicitKept
<1>1. IInv => ExplicitKept
  BY DEF IInv, Global, ValueInv, ExplicitKept
<1>. QED BY <1>1, InductiveInvariant, PTL

\* A thread that comes to the value of a flag finds it initialized, by itself or
\* by the thread that claimed it (AtomicFlagValueStorage::Initialize).
THEOREM NothingUnsetIsRead == Spec => []ReadsAreInitialized
<1>1. ASSUME IInv, NEW t \in Thread, At(t, "value") \/ At(t, "locked")
      PROVE  current[F(t)] # "unset"
  <2>1. F(t) \in Flag /\ state[F(t)] = "ready"
    BY <1>1 DEF IInv, Local, Operates, Initializes, Forking, At
  <2>. QED BY <1>1, <2>1 DEF IInv, Global, ValueInv
<1>2. IInv => ReadsAreInitialized
  BY <1>1 DEF ReadsAreInitialized
<1>. QED BY <1>2, InductiveInvariant, PTL

\* A flag that is used is alive, and a restored one is the one that was saved:
\* its registration tells a flag from another at the same place
\* (RegisteredFlagLock, ScopedFlags).
THEOREM LivesAreRespected == Spec => []LifetimeRespected
<1>1. ASSUME IInv, NEW t \in Thread, pc[t] \in Using
      PROVE  alive[F(t)] /\ (Kind(t) = "restore" => life[F(t)] = saved[t].life)
  <2>1. Local(t) /\ EntryInv
    BY <1>1 DEF IInv, Global
  <2>2. F(t) \in Flag /\ Kind(t) \in Kinds /\ Kind(t) # "unregister"
    BY <1>1, <2>1 DEF Local, Operates, Using, Forking
  <2>3. Kind(t) \in Owning \/ Kind(t) \in Looking
    BY <2>2 DEF Kinds, Owning, Direct, Looking
  <2>4. alive[F(t)]
    BY <1>1, <2>1, <2>3, FoundIsAlive DEF IInv, Local, Reaches
  <2>5. ASSUME Kind(t) = "restore"
        PROVE  life[F(t)] = saved[t].life
    <3>1. saved[t].flag = F(t) /\ F(t) # NoFlag
      BY <2>1, <2>2, <2>5, FlagAssumption DEF Local, Operates
    <3>2. Registered(saved[t])
      BY <1>1, <2>1, <2>5 DEF Local, Reaches, Found, Looking
    <3>. QED BY <2>1, <2>2, <3>1, <3>2 DEF Local, Saves, Registered, EntryInv
  <2>. QED BY <2>4, <2>5
<1>2. IInv => LifetimeRespected
  BY <1>1 DEF LifetimeRespected, Using
<1>. QED BY <1>2, InductiveInvariant, PTL

\* Copies of the library that were not loaded at once agree on one table, and
\* through it on every name (ProcessFlagRegistry, RegisterFlag).
THEOREM NamesAreDistinct == Spec => []NamesAreUnique
<1>1. ASSUME IInv, ~aborted, ~apart, NEW f \in Flag, NEW g \in Flag,
             entry[f] # 0, entry[g] # 0, NameOf[f] = NameOf[g]
      PROVE  f = g
  <2>. USE <1>1 DEF IInv, Global
  <2>1. /\ load[CopyOf[f]] = "loaded" /\ f \in names[table[CopyOf[f]]]
        /\ load[CopyOf[g]] = "loaded" /\ g \in names[table[CopyOf[g]]]
    BY DEF EntryInv
  <2>2. table[CopyOf[f]] = table[CopyOf[g]]
    BY <2>1, Typing DEF LoadInv
  <2>. QED BY <2>1, <2>2, Typing DEF NameInv
<1>2. IInv => NamesAreUnique
  BY <1>1 DEF NamesAreUnique
<1>. QED BY <1>2, InductiveInvariant, PTL

\* When a thread forks, every lock that protects registered flags is its own or
\* free, and no registered flag is half initialized (PrepareFork).
THEOREM ForkIsClean == Spec => []ChildInheritsNothing
<1>1. ASSUME IInv, NEW t \in Thread, At(t, "forked")
      PROVE  /\ \A c \in Installed : mutex[c] = t /\ shared[table[c]] \in {t, NoThread}
             /\ \A f \in Flag : entry[f] # 0 => lock[f] \in {t, NoThread} /\ state[f] = "ready"
  <2>. USE <1>1 DEF IInv, Global, Local
  <2>1. \A c \in Installed : mutex[c] = t
    BY DEF Forks, At
  <2>2. ASSUME NEW c \in Installed
        PROVE  shared[table[c]] \in {t, NoThread}
    <3>1. table[c] \in Copy
      BY DEF Installed, TypeOK
    <3>2. ASSUME NEW u \in Thread, u # t, shared[table[c]] = u
          PROVE  FALSE
      <4>1. PICK d \in Copy : mutex[d] = u
        <5>1. pc[u] = "shared" => C(u) \in Copy /\ HoldsMutex(u)
          BY Typing DEF Operates, Forking, C, HoldsMutex
        <5>. QED BY <3>1, <3>2, <5>1 DEF Locks
      <4>2. d \in Installed
        BY <3>2, <4>1, FlagAssumption DEF MutexInv, Installed
      <4>. QED BY <2>1, <3>2, <4>1, <4>2
    <3>. QED BY <3>1, <3>2 DEF TypeOK
  <2>3. ASSUME NEW f \in Flag, entry[f] # 0
        PROVE  lock[f] = t /\ state[f] = "ready"
    <3>1. load[CopyOf[f]] = "loaded" /\ state[f] = "ready"
      BY <2>3 DEF EntryInv
    <3>2. mutex[CopyOf[f]] = t
      BY <2>1, <3>1, Typing DEF Installed
    <3>. QED BY <2>3, <3>1, <3>2 DEF Forks, At
  <2>. QED BY <2>1, <2>2, <2>3
<1>2. IInv => ChildInheritsNothing
  BY <1>1 DEF ChildInheritsNothing
<1>. QED BY <1>2, InductiveInvariant, PTL
=============================================================================
