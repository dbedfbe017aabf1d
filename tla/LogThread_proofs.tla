-------------------------- MODULE LogThread_proofs --------------------------
(* Proofs about the logging thread: the bytes of its queue, and that it    *)
(* keeps the safety of AsyncContract, step by step, for any number of      *)
(* threads, messages and bytes, with exit(), fatal messages and fork.      *)
EXTENDS LogThread, SequenceTheorems, TLAPS

Working == {"notifySpace", "send", "nested"}  \* LT has a message
Resting == {"take", "finish", "notifyIdle"}
Stopping == {"exitWait", "exitNotify", "exitSend"}
Calling == {"enqueue", "send", "fatalWait", "fatalSend"}
CallerPlaces == {"user", "notify", "wait", "gone"} \cup Calling \cup Stopping
ThreadPlaces == {"gone", "late"} \cup Working \cup Resting \cup Stopping

TypeOK ==
  /\ queue \in Seq(Message) /\ rest \in Seq(Message)
  /\ pc \in [All -> CallerPlaces \cup ThreadPlaces]
  /\ \A t \in Thread : pc[t] \in CallerPlaces
  /\ pc[LT] \in ThreadPlaces
  /\ msg \in [All -> Message \cup {NoMsg}]
  /\ next \in [Thread -> 1 .. MaxMsgs + 1]
  /\ exiting \in {"no", "running", "done"}
  /\ passed \subseteq Message /\ sent \subseteq Message
  /\ earlier \in [Message -> SUBSET Message]
  /\ awaited \in [Thread -> SUBSET Message]

-----------------------------------------------------------------------------
(* The bytes of the queue.                                                 *)

\* The bytes of the first i messages, which grow with i.
IsTotal(sum, q) ==
  /\ sum \in [0 .. Len(q) -> Nat] /\ sum[0] = 0
  /\ \A i \in 1 .. Len(q) : sum[i] = sum[i - 1] + SizeOf(q[i])
  /\ \A i, j \in 0 .. Len(q) : i <= j => sum[i] <= sum[j]

BytesCounted ==
  /\ bytes \in Nat /\ bytes <= Capacity
  /\ \E sum : IsTotal(sum, queue) /\ bytes = sum[Len(queue)]

-----------------------------------------------------------------------------
(* Where messages are.                                                     *)

\* The logging thread is marked as sending while it has a message, and it does
\* not run before it was started.
Carries ==
  /\ msg[LT] # NoMsg <=> pc[LT] \in Working \cup Stopping \cup {"late"}
  /\ msg[LT] # NoMsg => sending
  /\ ~started => pc[LT] = "gone"

\* A call has a message of its thread that nobody else has, until the message is
\* in the queue.
CallsOwn ==
  \A t \in Thread :
    /\ pc[t] \in Calling \cup {"notify"} =>
         msg[t] \in Message /\ msg[t][1] = t /\ msg[t][2] < next[t]
    /\ alive /\ pc[t] \in Calling => msg[t] \notin Held \cup sent
    /\ pc[t] = "notify" => msg[t] \in Held \cup sent

Numbered == \A m \in Held \cup sent : m \in Message /\ m[2] < next[m[1]]

Once(q) == \A i, j \in 1 .. Len(q) : q[i] = q[j] => i = j

\* No message is in two places.
HeldOnce ==
  /\ Once(queue) /\ Once(rest)
  /\ msg[LT] \notin Range(queue) \cup Range(rest)
  /\ Held \cap sent = {}

PassedKnown == passed \subseteq Held \cup sent

\* One thread exits, and only exit() within a sink leaves messages behind, which
\* then are in the hands of Stop.
ExitIsOne ==
  /\ \A t \in All : pc[t] \in Stopping =>
       exiting = "running" /\ \A u \in All : pc[u] \in Stopping => u = t
  /\ pc[LT] = "late" => exiting = "done"

StopEmpties ==
  /\ \A t \in All : pc[t] \in {"exitNotify", "exitSend", "late"} => stopped
  /\ stopped => queue = <<>> /\ (Leaving \/ msg[LT] = NoMsg)
  /\ rest # <<>> => stopped /\ pc[LT] \in {"exitNotify", "exitSend"}

\* Unless exit() runs within a sink: what a message has to follow is sent, or is
\* before it in the queue, or, while the message is not queued yet, is queued.
InOrder ==
  ~Leaving =>
    /\ \A i \in 1 .. Len(queue) :
         earlier[queue[i]] \subseteq
           sent \cup ({msg[LT]} \ {NoMsg}) \cup {queue[j] : j \in 1 .. i - 1}
    /\ msg[LT] # NoMsg => earlier[msg[LT]] \subseteq sent
    /\ \A t \in Thread :
         /\ pc[t] \in {"enqueue", "fatalWait"} => earlier[msg[t]] \subseteq Held \cup sent
         /\ pc[t] \in {"send", "fatalSend"} => earlier[msg[t]] \subseteq sent

PlaceInv ==
  /\ Carries /\ CallsOwn /\ Numbered /\ HeldOnce /\ PassedKnown
  /\ ExitIsOne /\ StopEmpties /\ InOrder

IInv == TypeOK /\ BytesCounted /\ PlaceInv

-----------------------------------------------------------------------------
(* Queues.                                                                 *)

LEMMA Appended ==
  ASSUME NEW S, NEW q \in Seq(S), NEW m \in S
  PROVE  /\ Append(q, m) \in Seq(S) /\ Len(Append(q, m)) = Len(q) + 1
         /\ \A i \in 1 .. Len(q) : Append(q, m)[i] = q[i]
         /\ Append(q, m)[Len(q) + 1] = m
         /\ Range(Append(q, m)) = Range(q) \cup {m}
         /\ Once(q) /\ m \notin Range(q) => Once(Append(q, m))
<1>. DEFINE p == Append(q, m)
<1>1. /\ p \in Seq(S) /\ Len(p) = Len(q) + 1 /\ Len(q) \in Nat
      /\ DOMAIN p = 1 .. Len(q) + 1 /\ DOMAIN q = 1 .. Len(q)
      /\ \A i \in 1 .. Len(q) : p[i] = q[i]
      /\ p[Len(q) + 1] = m
  OBVIOUS
<1>. HIDE DEF p
<1>2. 1 .. Len(q) + 1 = 1 .. Len(q) \cup {Len(q) + 1}
  BY <1>1
<1>3. Range(p) = Range(q) \cup {m}
  BY <1>1, <1>2 DEF Range
<1>4. Once(q) /\ m \notin Range(q) => Once(p)
  BY <1>1, <1>2 DEF Range, Once
<1>. QED BY <1>1, <1>3, <1>4 DEF p

LEMMA Shifted ==
  ASSUME NEW S, NEW q \in Seq(S), q # <<>>
  PROVE  /\ Tail(q) \in Seq(S) /\ Len(Tail(q)) = Len(q) - 1 /\ Len(q) \in Nat \ {0}
         /\ Head(q) = q[1] /\ Head(q) \in S
         /\ \A i \in 1 .. Len(q) - 1 : Tail(q)[i] = q[i + 1]
         /\ Range(q) = Range(Tail(q)) \cup {Head(q)}
         /\ Once(q) => Once(Tail(q)) /\ Head(q) \notin Range(Tail(q))
<1>. DEFINE p == Tail(q)
<1>1. /\ p \in Seq(S) /\ Len(p) = Len(q) - 1 /\ Len(q) \in Nat \ {0}
      /\ DOMAIN p = 1 .. Len(q) - 1 /\ DOMAIN q = 1 .. Len(q)
      /\ \A i \in 1 .. Len(q) - 1 : p[i] = q[i + 1]
      /\ Head(q) = q[1] /\ Head(q) \in S
  OBVIOUS
<1>. HIDE DEF p
<1>2. \A i \in 1 .. Len(q) : i = 1 \/ i - 1 \in 1 .. Len(q) - 1
  BY <1>1
<1>3. \A i \in 1 .. Len(q) - 1 : i + 1 \in 1 .. Len(q) /\ i + 1 # 1
  BY <1>1
<1>4. Range(q) = Range(p) \cup {Head(q)}
  <2>1. \A i \in 1 .. Len(q) : i # 1 => q[i] = p[i - 1]
    BY <1>1, <1>2
  <2>2. Range(q) = {q[i] : i \in 1 .. Len(q)} /\ Range(p) = {p[i] : i \in 1 .. Len(q) - 1}
    BY <1>1 DEF Range
  <2>3. q[1] \in Range(q)
    BY <1>1, <2>2
  <2>4. Range(q) \subseteq Range(p) \cup {q[1]}
    BY <1>2, <2>1, <2>2
  <2>5. Range(p) \subseteq Range(q)
    BY <1>1, <1>3, <2>2
  <2>6. Head(q) = q[1]
    BY <1>1
  <2>. QED BY <2>3, <2>4, <2>5, <2>6
<1>5. Once(q) => Once(p) /\ Head(q) \notin Range(p)
  <2>. SUFFICES ASSUME Once(q)
               PROVE  Once(p) /\ Head(q) \notin Range(p)
    OBVIOUS
  <2>1. \A i, j \in 1 .. Len(q) - 1 : p[i] = p[j] => i + 1 = j + 1
    BY <1>1, <1>3 DEF Once
  <2>2. \A i \in 1 .. Len(q) - 1 : p[i] # q[1]
    BY <1>1, <1>3 DEF Once
  <2>. QED BY <1>1, <2>1, <2>2 DEF Once, Range
<1>. QED BY <1>1, <1>4, <1>5 DEF p

LEMMA SizesKnown == \A m \in Message : SizeOf(m) \in Nat
BY SizeAssumption DEF Message, SizeOf

-----------------------------------------------------------------------------
(* The bytes of the queue.                                                 *)

LEMMA NoBytes ==
  ASSUME NEW q, q = <<>>
  PROVE  \E sum : IsTotal(sum, q) /\ 0 = sum[Len(q)]
<1>. DEFINE sum == [i \in 0 .. 0 |-> 0]
<1>1. IsTotal(sum, q)
  BY DEF IsTotal
<1>. QED BY <1>1

LEMMA BytesAdded ==
  ASSUME NEW q \in Seq(Message), NEW m \in Message,
         NEW sum, IsTotal(sum, q)
  PROVE  \E s : IsTotal(s, Append(q, m)) /\ s[Len(Append(q, m))] = sum[Len(q)] + SizeOf(m)
<1>. DEFINE n == Len(q)
            p == Append(q, m)
            s == [i \in 0 .. n + 1 |-> IF i <= n THEN sum[i] ELSE sum[n] + SizeOf(m)]
<1>1. /\ Len(p) = n + 1 /\ n \in Nat /\ p[n + 1] = m
      /\ \A i \in 1 .. n : p[i] = q[i]
  BY Appended
<1>2. SizeOf(m) \in Nat
  BY SizesKnown
<1>3. \A i \in 0 .. n : sum[i] \in Nat
  BY DEF IsTotal
<1>4. /\ s \in [0 .. n + 1 -> Nat] /\ s[n + 1] = sum[n] + SizeOf(m)
      /\ \A i \in 0 .. n : s[i] = sum[i]
  BY <1>1, <1>2, <1>3
<1>. HIDE DEF s, p, n
<1>5. s[0] = 0
  BY <1>1, <1>4 DEF IsTotal
<1>6. ASSUME NEW i \in 1 .. n + 1
      PROVE  s[i] = s[i - 1] + SizeOf(p[i])
  <2>1. CASE i = n + 1
    BY <1>1, <1>4, <2>1
  <2>2. CASE i \in 1 .. n
    <3>1. i - 1 \in 0 .. n /\ i \in 0 .. n
      BY <1>1, <2>2
    <3>2. sum[i] = sum[i - 1] + SizeOf(q[i])
      BY <2>2 DEF IsTotal, n
    <3>. QED BY <1>1, <1>4, <2>2, <3>1, <3>2
  <2>. QED BY <1>1, <2>1, <2>2
<1>7. ASSUME NEW i \in 0 .. n + 1, NEW j \in 0 .. n + 1, i <= j
      PROVE  s[i] <= s[j]
  <2>1. \A k, l \in 0 .. n : k <= l => sum[k] <= sum[l]
    BY DEF IsTotal, n
  <2>2. CASE j \in 0 .. n
    BY <1>1, <1>4, <1>7, <2>1, <2>2
  <2>3. CASE j = n + 1
    <3>1. CASE i = n + 1
      BY <1>1, <1>2, <1>3, <1>4, <2>3, <3>1
    <3>2. CASE i \in 0 .. n
      <4>1. sum[i] <= sum[n] /\ sum[i] \in Nat /\ sum[n] \in Nat
        BY <1>1, <1>3, <2>1, <3>2
      <4>. QED BY <1>2, <1>4, <2>3, <3>2, <4>1
    <3>. QED BY <1>1, <3>1, <3>2
  <2>. QED BY <1>1, <2>2, <2>3
<1>8. IsTotal(s, p)
  BY <1>1, <1>4, <1>5, <1>6, <1>7 DEF IsTotal
<1>. QED BY <1>1, <1>4, <1>8 DEF p, n

LEMMA BytesTaken ==
  ASSUME NEW q \in Seq(Message), q # <<>>, NEW sum, IsTotal(sum, q)
  PROVE  /\ sum[Len(q)] - SizeOf(Head(q)) \in Nat
         /\ \E s : IsTotal(s, Tail(q)) /\ s[Len(Tail(q))] = sum[Len(q)] - SizeOf(Head(q))
<1>. DEFINE n == Len(q)
            p == Tail(q)
            s == [i \in 0 .. n - 1 |-> sum[i + 1] - sum[1]]
<1>1. /\ Len(p) = n - 1 /\ n \in Nat \ {0} /\ Head(q) = q[1]
      /\ \A i \in 1 .. n - 1 : p[i] = q[i + 1]
  BY Shifted
<1>2. /\ sum \in [0 .. n -> Nat] /\ sum[0] = 0
      /\ \A i \in 1 .. n : sum[i] = sum[i - 1] + SizeOf(q[i])
      /\ \A i, j \in 0 .. n : i <= j => sum[i] <= sum[j]
  BY DEF IsTotal
<1>3. 1 \in 1 .. n /\ 1 \in 0 .. n /\ 0 \in 0 .. n /\ n \in 0 .. n
  BY <1>1
<1>4. sum[1] = SizeOf(q[1]) /\ sum[1] \in Nat
  <2>1. SizeOf(q[1]) \in Nat
    BY <1>3, SizesKnown
  <2>2. sum[1] = sum[0] + SizeOf(q[1])
    BY <1>2, <1>3
  <2>. QED BY <1>2, <2>1, <2>2
<1>5. \A i \in 0 .. n - 1 : i + 1 \in 0 .. n /\ i + 1 >= 1
  BY <1>1
<1>6. \A i \in 0 .. n - 1 : sum[i + 1] \in Nat /\ sum[i + 1] >= sum[1] /\ s[i] = sum[i + 1] - sum[1]
  BY <1>2, <1>3, <1>5
<1>7. s \in [0 .. n - 1 -> Nat]
  BY <1>4, <1>6
<1>. HIDE DEF s, p, n
<1>8. s[0] = 0
  BY <1>1, <1>4, <1>6
<1>9. ASSUME NEW i \in 1 .. n - 1
      PROVE  s[i] = s[i - 1] + SizeOf(p[i])
  <2>1. i \in 0 .. n - 1 /\ i - 1 \in 0 .. n - 1 /\ i + 1 \in 1 .. n /\ (i - 1) + 1 = i
    BY <1>1
  <2>2. sum[i + 1] = sum[i] + SizeOf(q[i + 1])
    BY <1>2, <2>1
  <2>3. SizeOf(q[i + 1]) \in Nat /\ sum[i] \in Nat
    <3>1. q[i + 1] \in Message
      BY <2>1 DEF n
    <3>. QED BY <1>1, <1>2, <2>1, <3>1, SizesKnown, SMTT(30)
  <2>4. s[i] = sum[i + 1] - sum[1] /\ s[i - 1] = sum[i] - sum[1]
    BY <1>6, <2>1
  <2>. QED BY <1>1, <1>4, <2>2, <2>3, <2>4
<1>10. ASSUME NEW i \in 0 .. n - 1, NEW j \in 0 .. n - 1, i <= j
       PROVE  s[i] <= s[j]
  <2>1. sum[i + 1] <= sum[j + 1]
    BY <1>1, <1>2, <1>5, <1>10
  <2>. QED BY <1>4, <1>6, <2>1
<1>11. IsTotal(s, p)
  BY <1>1, <1>7, <1>8, <1>9, <1>10 DEF IsTotal
<1>12. s[n - 1] = sum[n] - SizeOf(Head(q)) /\ s[n - 1] \in Nat
  <2>1. n - 1 \in 0 .. n - 1 /\ (n - 1) + 1 = n
    BY <1>1
  <2>. QED BY <1>1, <1>4, <1>6, <1>7, <2>1
<1>. QED BY <1>1, <1>11, <1>12 DEF p, n

LEMMA BytesKept ==
  ASSUME IInv, [Next]_vars
  PROVE  BytesCounted'
<1>. USE DEF IInv
<1>1. CASE UNCHANGED <<queue, bytes>>
  BY <1>1 DEF BytesCounted
<1>2. CASE queue' = <<>> /\ bytes' = 0
  BY <1>2, NoBytes, CapacityAssumption DEF BytesCounted
<1>3. ASSUME NEW t \in Thread, Enqueue(t), msg[t] \in Message
      PROVE  BytesCounted'
  <2>1. /\ bytes' = bytes + SizeOf(msg[t]) /\ bytes' <= Capacity
        /\ queue' = Append(queue, msg[t])
    BY <1>3 DEF Enqueue, Fits
  <2>2. PICK sum : IsTotal(sum, queue) /\ bytes = sum[Len(queue)]
    BY DEF BytesCounted
  <2>3. \E s : IsTotal(s, queue') /\ s[Len(queue')] = bytes'
    BY <1>3, <2>1, <2>2, BytesAdded DEF TypeOK
  <2>4. bytes' \in Nat
    BY <1>3, <2>1, SizesKnown DEF BytesCounted
  <2>. QED BY <2>1, <2>3, <2>4 DEF BytesCounted
<1>4. CASE Take
  <2>1. /\ bytes' = bytes - SizeOf(Head(queue))
        /\ queue # <<>> /\ queue' = Tail(queue)
    BY <1>4 DEF Take
  <2>2. PICK sum : IsTotal(sum, queue) /\ bytes = sum[Len(queue)]
    BY DEF BytesCounted
  <2>3. bytes' \in Nat /\ \E s : IsTotal(s, queue') /\ s[Len(queue')] = bytes'
    BY <2>1, <2>2, BytesTaken DEF TypeOK
  <2>4. SizeOf(Head(queue)) \in Nat
    BY <2>1, SizesKnown, Shifted DEF TypeOK
  <2>. QED BY <2>1, <2>3, <2>4, CapacityAssumption DEF BytesCounted
<1>5. ASSUME NEW t \in Thread, CallerStep(t)
      PROVE  BytesCounted'
  <2>1. CASE Enqueue(t)
    BY <1>3, <2>1 DEF PlaceInv, CallsOwn, Calling, Enqueue
  <2>2. CASE ~Enqueue(t)
    BY <1>1, <1>5, <2>2 DEF CallerStep, EnqueueStopped, AwaitSpace, NotifyPending,
                            SendByCaller, LeaveWait, SleepInWait, SendFatal, shared
  <2>. QED BY <2>1, <2>2
<1>6. ASSUME NEW t \in Thread, UserStep(t)
      PROVE  BytesCounted'
  BY <1>1, <1>2, <1>6 DEF UserStep, Push, Wait, LogFatal, Fork, shared
<1>7. ASSUME NEW t \in All, StopStep(t) \/ Exit(t) \/ SpuriousWakeup(t)
      PROVE  BytesCounted'
  BY <1>1, <1>2, <1>7 DEF StopStep, SleepInStop, Stop, NotifyStopped, SendRemaining,
                          LeaveStop, Exit, SpuriousWakeup, shared
<1>8. CASE ThreadStep \/ BeginNestedCall \/ EndProcess \/ UNCHANGED vars
  BY <1>1, <1>4, <1>8 DEF ThreadStep, AwaitMessage, NotifySpace, EndNestedCall,
                          SendByThread, Finish, NotifyIdle, BeginNestedCall, EndProcess,
                          shared, vars
<1>. QED BY <1>5, <1>6, <1>7, <1>8 DEF Next

-----------------------------------------------------------------------------
(* The steps preserve the places of the messages.                          *)

Places == TypeOK /\ PlaceInv

\* Steps that move no thread.
LEMMA QuietKeeps ==
  ASSUME Places, alive,
         UNCHANGED <<queue, sending, stopped, started, pc, msg, rest, next, exiting,
                     passed, sent, earlier, awaited>>
  PROVE  Places'
<1>. USE DEF Places, PlaceInv
<1>1. Held' = Held /\ (Leaving' <=> Leaving)
  BY DEF Held, Leaving
<1>2. TypeOK'
  BY DEF TypeOK
<1>3. Carries' /\ ExitIsOne'
  BY DEF Carries, ExitIsOne
<1>4. CallsOwn'
  BY <1>1 DEF CallsOwn
<1>5. Numbered' /\ HeldOnce' /\ PassedKnown'
  BY <1>1 DEF Numbered, HeldOnce, PassedKnown
<1>6. StopEmpties' /\ InOrder'
  BY <1>1 DEF StopEmpties, InOrder
<1>. QED BY <1>2, <1>3, <1>4, <1>5, <1>6

\* A thread of the application moves on with what it has.
LEMMA CallerMoves ==
  ASSUME Places, alive, NEW t \in Thread, NEW from, NEW to \in CallerPlaces,
         pc[t] = from, pc' = [pc EXCEPT ![t] = to],
         UNCHANGED <<queue, sending, stopped, started, msg, rest, next, passed, sent,
                     earlier>>,
         awaited' \in [Thread -> SUBSET Message],
         \/ exiting' = exiting /\ from \notin Stopping /\ to \notin Stopping
         \/ exiting' = exiting /\ from \in Stopping /\ to \in Stopping /\ stopped
         \/ /\ from \notin Stopping /\ to = "exitWait"
            /\ exiting = "no" /\ exiting' = "running"
         \/ from \in Stopping /\ to = "user" /\ exiting' = "done",
         \/ to \in {"user", "wait"} \cup Stopping
         \/ /\ (from = "enqueue" /\ to = "send") \/ (from = "fatalWait" /\ to = "fatalSend")
            /\ ~Leaving => Held = {}
  PROVE  Places'
<1>. USE DEF Places, PlaceInv
<1>1. t # LT /\ t \in All
  BY ThreadAssumption DEF All
<1>2. \A u \in All : pc'[u] = IF u = t THEN to ELSE pc[u]
  BY DEF TypeOK
<1>3. LT \in All /\ pc'[LT] = pc[LT]
  BY <1>1, <1>2 DEF All
<1>4. Held' = Held /\ (Leaving' <=> Leaving)
  BY <1>3 DEF Held, Leaving
<1>5. TypeOK'
  <2>1. pc' \in [All -> CallerPlaces \cup ThreadPlaces]
    BY DEF TypeOK
  <2>2. \A u \in Thread : pc'[u] \in CallerPlaces
    BY <1>2 DEF TypeOK, All
  <2>. QED BY <1>3, <2>1, <2>2 DEF TypeOK
<1>6. Carries'
  BY <1>3 DEF Carries
<1>7. CallsOwn'
  BY <1>1, <1>2, <1>4 DEF CallsOwn, Calling, Stopping, All
<1>8. Numbered' /\ HeldOnce' /\ PassedKnown'
  BY <1>4 DEF Numbered, HeldOnce, PassedKnown
<1>9. ExitIsOne'
  <2>1. CASE from \in Stopping
    <3>1. \A u \in All : pc[u] \in Stopping => u = t
      BY <1>1, <2>1 DEF ExitIsOne
    <3>. QED BY <1>2, <1>3, <2>1, <3>1 DEF ExitIsOne, Stopping
  <2>2. CASE from \notin Stopping /\ to \in Stopping
    <3>1. \A u \in All : pc[u] \notin Stopping
      BY <2>2 DEF ExitIsOne
    <3>2. pc[LT] # "late"
      BY <2>2 DEF ExitIsOne
    <3>. QED BY <1>2, <1>3, <2>2, <3>1, <3>2 DEF ExitIsOne
  <2>3. CASE from \notin Stopping /\ to \notin Stopping
    BY <1>2, <1>3, <2>3 DEF ExitIsOne, Stopping
  <2>. QED BY <2>1, <2>2, <2>3
<1>10. StopEmpties'
  BY <1>1, <1>2, <1>3, <1>4 DEF StopEmpties, Stopping
<1>11. InOrder'
  <2>. SUFFICES ASSUME ~Leaving
               PROVE  InOrder'
    BY <1>4 DEF InOrder
  <2>1. \A i \in 1 .. Len(queue) :
          earlier[queue[i]] \subseteq
            sent \cup ({msg[LT]} \ {NoMsg}) \cup {queue[j] : j \in 1 .. i - 1}
    BY DEF InOrder
  <2>2. msg[LT] # NoMsg => earlier[msg[LT]] \subseteq sent
    BY DEF InOrder
  <2>3. ASSUME NEW u \in Thread
        PROVE  /\ pc'[u] \in {"enqueue", "fatalWait"} => earlier[msg[u]] \subseteq Held \cup sent
               /\ pc'[u] \in {"send", "fatalSend"} => earlier[msg[u]] \subseteq sent
    <3>1. CASE u = t
      BY <1>1, <1>2, <3>1 DEF InOrder, Stopping
    <3>2. CASE u # t
      BY <1>2, <3>2 DEF InOrder, All
    <3>. QED BY <3>1, <3>2
  <2>. QED BY <1>4, <2>1, <2>2, <2>3 DEF InOrder
<1>. QED BY <1>5, <1>6, <1>7, <1>8, <1>9, <1>10, <1>11

\* The logging thread moves on with what it has.
LEMMA LoggingThreadMoves ==
  ASSUME Places, alive, NEW to \in ThreadPlaces, pc' = [pc EXCEPT ![LT] = to],
         UNCHANGED <<queue, stopped, started, msg, rest, next, passed, sent, earlier,
                     awaited>>,
         \/ pc[LT] \in Working /\ to \in Working /\ UNCHANGED <<sending, exiting>>
         \/ pc[LT] \in Resting /\ to \in Resting /\ UNCHANGED exiting
         \/ /\ pc[LT] = "send" /\ to = "exitWait" /\ UNCHANGED sending
            /\ exiting = "no" /\ exiting' = "running"
         \/ /\ pc[LT] = "exitNotify" /\ to = "exitSend"
            /\ UNCHANGED <<sending, exiting>>
         \/ /\ pc[LT] = "exitSend" /\ to = "late" /\ UNCHANGED sending
            /\ rest = <<>> /\ exiting' = "done"
  PROVE  Places'
<1>. USE DEF Places, PlaceInv
<1>1. LT \in All /\ LT \notin Thread /\ Thread \subseteq All
  BY ThreadAssumption DEF All
<1>2. \A u \in All : pc'[u] = IF u = LT THEN to ELSE pc[u]
  BY DEF TypeOK
<1>3. \A u \in Thread : pc'[u] = pc[u]
  BY <1>1, <1>2
<1>4. Held' = Held /\ (Leaving => Leaving')
  BY <1>1, <1>2 DEF Held, Leaving, Working, Resting, Stopping
<1>5. TypeOK'
  <2>1. pc' \in [All -> CallerPlaces \cup ThreadPlaces]
    BY DEF TypeOK
  <2>2. exiting' \in {"no", "running", "done"}
    BY DEF TypeOK
  <2>. QED BY <1>1, <1>2, <1>3, <2>1, <2>2 DEF TypeOK
<1>6. Carries'
  BY <1>1, <1>2 DEF Carries, Working, Resting, Stopping
<1>7. CallsOwn'
  BY <1>3, <1>4 DEF CallsOwn
<1>8. Numbered' /\ HeldOnce' /\ PassedKnown'
  BY <1>4 DEF Numbered, HeldOnce, PassedKnown
<1>9. ExitIsOne'
  BY <1>1, <1>2 DEF ExitIsOne, Working, Resting, Stopping
<1>10. StopEmpties'
  BY <1>1, <1>2, <1>4 DEF StopEmpties, Working, Resting, Stopping
<1>11. InOrder'
  <2>. SUFFICES ASSUME ~Leaving
               PROVE  InOrder'
    BY <1>4 DEF InOrder
  <2>. QED BY <1>3, <1>4 DEF InOrder
<1>. QED BY <1>5, <1>6, <1>7, <1>8, <1>9, <1>10, <1>11

\* A call begins, with a message that nobody has seen.
LEMMA CallBegins ==
  ASSUME Places, alive, NEW t \in Thread, NEW to \in {"enqueue", "fatalWait"},
         pc[t] = "user", next[t] <= MaxMsgs,
         msg' = [msg EXCEPT ![t] = <<t, next[t]>>],
         next' = [next EXCEPT ![t] = @ + 1],
         earlier' = [earlier EXCEPT ![<<t, next[t]>>] = passed],
         pc' = [pc EXCEPT ![t] = to],
         UNCHANGED <<queue, sending, stopped, started, rest, exiting, passed, sent>>,
         awaited' \in [Thread -> SUBSET Message]
  PROVE  Places' /\ <<t, next[t]>> \in Message /\ <<t, next[t]>> \notin Held \cup sent
<1>. USE DEF Places, PlaceInv
<1>. DEFINE m == <<t, next[t]>>
<1>1. /\ t # LT /\ t \in All /\ LT \in All /\ Thread \subseteq All
      /\ next[t] \in 1 .. MaxMsgs
  BY ThreadAssumption, MsgAssumption DEF All, TypeOK
<1>2. m \in Message /\ m[1] = t /\ m[2] = next[t]
  BY <1>1 DEF Message
<1>. HIDE DEF m
<1>3. m \notin Held \cup sent
  BY <1>1, <1>2 DEF Numbered
<1>4. /\ pc'[t] = to /\ msg'[t] = m
      /\ \A u \in All : u # t => pc'[u] = pc[u] /\ msg'[u] = msg[u]
  <2>1. pc'[t] = to /\ \A u \in All : u # t => pc'[u] = pc[u]
    BY <1>1 DEF TypeOK
  <2>2. msg'[t] = m
    BY <1>1 DEF TypeOK, m
  <2>3. \A u \in All : u # t => msg'[u] = msg[u]
    BY <1>1 DEF TypeOK
  <2>. QED BY <2>1, <2>2, <2>3
<1>5. next'[t] = next[t] + 1 /\ \A u \in Thread : u # t => next'[u] = next[u]
  BY DEF TypeOK
<1>6. \A n \in Message : earlier'[n] = IF n = m THEN passed ELSE earlier[n]
  BY DEF TypeOK, m
<1>7. pc'[LT] = pc[LT] /\ msg'[LT] = msg[LT]
  BY <1>1, <1>4
<1>8. Held' = Held /\ (Leaving' <=> Leaving)
  BY <1>7 DEF Held, Leaving
<1>9. \A u \in Thread : next[u] \in Nat /\ next[u] <= next'[u] /\ next'[u] \in 1 .. MaxMsgs + 1
  BY <1>1, <1>5, MsgAssumption DEF TypeOK
<1>10. TypeOK'
  <2>1. /\ pc' \in [All -> CallerPlaces \cup ThreadPlaces]
        /\ \A u \in Thread : pc'[u] \in CallerPlaces
    BY <1>1, <1>4 DEF TypeOK, CallerPlaces, Calling
  <2>2. msg' \in [All -> Message \cup {NoMsg}]
    BY <1>2 DEF TypeOK, m
  <2>3. next' \in [Thread -> 1 .. MaxMsgs + 1]
    BY <1>9 DEF TypeOK
  <2>4. earlier' \in [Message -> SUBSET Message]
    BY DEF TypeOK
  <2>. QED BY <1>7, <2>1, <2>2, <2>3, <2>4 DEF TypeOK
<1>11. Carries'
  BY <1>7 DEF Carries
<1>12. CallsOwn'
  <2>1. ASSUME NEW u \in Thread, u # t
        PROVE  pc'[u] = pc[u] /\ msg'[u] = msg[u] /\ next'[u] = next[u]
    BY <1>1, <1>4, <1>5, <2>1
  <2>2. m[2] < next'[t]
    BY <1>1, <1>2, <1>5
  <2>. QED BY <1>2, <1>3, <1>4, <1>8, <2>1, <2>2 DEF CallsOwn
<1>13. Numbered'
  <2>1. ASSUME NEW n \in Held \cup sent
        PROVE  n \in Message /\ n[2] < next'[n[1]]
    <3>1. n \in Message /\ n[2] < next[n[1]] /\ n[1] \in Thread /\ n[2] \in Nat
      BY MsgAssumption DEF Numbered, Message
    <3>2. next[n[1]] <= next'[n[1]] /\ next[n[1]] \in Nat /\ next'[n[1]] \in Nat
      BY <1>9, <3>1
    <3>. QED BY <3>1, <3>2
  <2>. QED BY <1>8, <2>1 DEF Numbered
<1>14. HeldOnce' /\ PassedKnown'
  BY <1>7, <1>8 DEF HeldOnce, PassedKnown
<1>15. ExitIsOne' /\ StopEmpties'
  <2>1. \A u \in All : pc'[u] \in Stopping <=> pc[u] \in Stopping
    BY <1>4 DEF Stopping
  <2>2. ExitIsOne'
    BY <1>7, <2>1 DEF ExitIsOne
  <2>3. \A u \in All : pc'[u] \in {"exitNotify", "exitSend", "late"} =>
                          pc[u] \in {"exitNotify", "exitSend", "late"}
    BY <1>4
  <2>4. StopEmpties'
    BY <1>7, <1>8, <2>3 DEF StopEmpties
  <2>. QED BY <2>2, <2>4
<1>16. InOrder'
  <2>. SUFFICES ASSUME ~Leaving
               PROVE  InOrder'
    BY <1>8 DEF InOrder
  <2>1. ASSUME NEW i \in 1 .. Len(queue)
        PROVE  earlier'[queue[i]] \subseteq
                 sent \cup ({msg[LT]} \ {NoMsg}) \cup {queue[j] : j \in 1 .. i - 1}
    <3>1. queue[i] \in Held /\ queue[i] \in Message
      BY DEF TypeOK, Held, Range
    <3>2. earlier'[queue[i]] = earlier[queue[i]]
      BY <1>3, <1>6, <3>1
    <3>. QED BY <3>2 DEF InOrder
  <2>2. msg[LT] # NoMsg => earlier'[msg[LT]] \subseteq sent
    <3>. SUFFICES ASSUME msg[LT] # NoMsg
                 PROVE  earlier'[msg[LT]] = earlier[msg[LT]]
      BY DEF InOrder
    <3>1. msg[LT] \in Held /\ msg[LT] \in Message
      BY <1>1 DEF TypeOK, Held
    <3>. QED BY <1>3, <1>6, <3>1
  <2>3. ASSUME NEW u \in Thread
        PROVE  /\ pc'[u] \in {"enqueue", "fatalWait"} => earlier'[msg'[u]] \subseteq Held \cup sent
               /\ pc'[u] \in {"send", "fatalSend"} => earlier'[msg'[u]] \subseteq sent
    <3>1. CASE u = t
      BY <1>1, <1>2, <1>4, <1>6, <3>1 DEF PassedKnown
    <3>2. CASE u # t
      <4>1. pc'[u] = pc[u] /\ msg'[u] = msg[u]
        BY <1>1, <1>4, <3>2
      <4>2. pc[u] \in Calling => earlier'[msg[u]] = earlier[msg[u]]
        BY <1>2, <1>6, <3>2 DEF CallsOwn
      <4>. QED BY <4>1, <4>2 DEF InOrder, Calling
    <3>. QED BY <3>1, <3>2
  <2>. QED BY <1>7, <1>8, <2>1, <2>2, <2>3 DEF InOrder
<1>. QED BY <1>2, <1>3, <1>10, <1>11, <1>12, <1>13, <1>14, <1>15, <1>16 DEF m

\* A message is queued by its call, the first one starting the logging thread.
LEMMA EnqueueKeeps ==
  ASSUME Places, alive, NEW t \in Thread, Enqueue(t)
  PROVE  /\ Places'
         /\ msg[t] \in Message /\ msg[t] \notin Held \cup sent
         /\ Held' = Held \cup {msg[t]} /\ msg'[LT] = msg[LT]
         /\ Leaving' <=> Leaving
<1>. USE DEF Places, PlaceInv
<1>. DEFINE m == msg[t]
<1>1. /\ t # LT /\ t \in All /\ LT \in All /\ Thread \subseteq All
  BY ThreadAssumption DEF All
<1>2. /\ pc[t] = "enqueue" /\ ~stopped /\ started' = TRUE
      /\ queue' = Append(queue, m)
      /\ UNCHANGED <<sending, stopped, msg, rest, next, exiting, alive, passed, sent,
                     earlier, awaited>>
  BY DEF Enqueue, history
<1>3. /\ pc'[t] = "notify" /\ pc'[LT] = IF started THEN pc[LT] ELSE "take"
      /\ \A u \in Thread : u # t => pc'[u] = pc[u]
      /\ pc' \in [All -> CallerPlaces \cup ThreadPlaces]
  <2>. DEFINE place == IF started THEN pc[LT] ELSE "take"
  <2>1. pc' = [pc EXCEPT ![t] = "notify", ![LT] = place]
    BY <1>1 DEF Enqueue
  <2>2. place \in ThreadPlaces
    BY DEF TypeOK, ThreadPlaces, Resting
  <2>3. pc \in [All -> CallerPlaces \cup ThreadPlaces] /\ "notify" \in CallerPlaces
    BY DEF TypeOK, CallerPlaces
  <2>. HIDE DEF place
  <2>4. /\ pc'[t] = "notify" /\ pc'[LT] = place
        /\ \A u \in Thread : u # t => pc'[u] = pc[u]
        /\ pc' \in [All -> CallerPlaces \cup ThreadPlaces]
    BY <1>1, <2>1, <2>2, <2>3, ThreadAssumption
  <2>. QED BY <2>4 DEF place
<1>4. ~started => pc[LT] = "gone"
  BY DEF Carries
<1>5. m \in Message /\ m[1] = t /\ m[2] < next[t] /\ m \notin Held \cup sent
  BY <1>1, <1>2 DEF CallsOwn, Calling
<1>6. rest = <<>>
  BY <1>2 DEF StopEmpties
<1>7. /\ queue' \in Seq(Message) /\ Len(queue') = Len(queue) + 1 /\ Len(queue) \in Nat
      /\ \A i \in 1 .. Len(queue) : queue'[i] = queue[i]
      /\ queue'[Len(queue) + 1] = m
      /\ Range(queue') = Range(queue) \cup {m}
      /\ Once(queue) /\ m \notin Range(queue) => Once(queue')
  BY <1>2, <1>5, Appended DEF TypeOK
<1>. HIDE DEF m
<1>8. Held' = Held \cup {m} /\ Range(queue) \subseteq Held /\ m # msg[LT]
  <2>1. m # NoMsg
    BY <1>5, MsgAssumption
  <2>. QED BY <1>2, <1>5, <1>7, <2>1 DEF Held
<1>9. Leaving' <=> Leaving
  BY <1>3, <1>4 DEF Leaving, Stopping
<1>10. TypeOK'
  <2>1. \A u \in Thread : pc'[u] \in CallerPlaces
    BY <1>3 DEF TypeOK, CallerPlaces
  <2>2. pc'[LT] \in ThreadPlaces
    BY <1>3 DEF TypeOK, ThreadPlaces, Resting
  <2>. QED BY <1>2, <1>3, <1>7, <2>1, <2>2 DEF TypeOK
<1>11. Carries'
  BY <1>2, <1>3, <1>4 DEF Carries, Working, Stopping
<1>12. CallsOwn'
  <2>1. ASSUME NEW u \in Thread, u # t
        PROVE  /\ pc'[u] = pc[u]
               /\ pc[u] \in Calling => msg[u] # m
    BY <1>3, <1>5, <2>1 DEF CallsOwn
  <2>2. "notify" \notin Calling
    BY DEF Calling
  <2>3. msg[t] = m
    BY DEF m
  <2>. QED BY <1>2, <1>3, <1>5, <1>8, <2>1, <2>2, <2>3 DEF CallsOwn
<1>13. Numbered'
  BY <1>2, <1>5, <1>8 DEF Numbered
<1>14. HeldOnce'
  BY <1>2, <1>5, <1>6, <1>7, <1>8 DEF HeldOnce
<1>15. PassedKnown'
  BY <1>2, <1>8 DEF PassedKnown
<1>16. ExitIsOne'
  <2>1. \A u \in All : pc'[u] \in Stopping => pc[u] \in Stopping
    BY <1>3, <1>4 DEF All, Stopping
  <2>2. pc'[LT] = "late" => pc[LT] = "late"
    BY <1>3
  <2>. QED BY <1>2, <2>1, <2>2 DEF ExitIsOne
<1>17. StopEmpties'
  <2>1. \A u \in All : pc'[u] \in {"exitNotify", "exitSend", "late"} =>
                          pc[u] \in {"exitNotify", "exitSend", "late"}
    BY <1>3, <1>4 DEF All
  <2>. QED BY <1>2, <1>6, <2>1 DEF StopEmpties
<1>18. InOrder'
  <2>. SUFFICES ASSUME ~Leaving
               PROVE  InOrder'
    BY <1>9 DEF InOrder
  <2>. DEFINE before(i) == {queue[j] : j \in 1 .. i - 1}
  <2>1. ASSUME NEW i \in 1 .. Len(queue')
        PROVE  earlier[queue'[i]] \subseteq
                 sent \cup ({msg[LT]} \ {NoMsg}) \cup {queue'[j] : j \in 1 .. i - 1}
    <3>1. \A j \in 1 .. i - 1 : queue'[j] = queue[j]
      BY <1>7
    <3>2. {queue'[j] : j \in 1 .. i - 1} = {queue[j] : j \in 1 .. i - 1}
      BY <3>1
    <3>3. CASE i \in 1 .. Len(queue)
      BY <1>7, <3>2, <3>3 DEF InOrder
    <3>4. CASE i = Len(queue) + 1
      <4>1. earlier[m] \subseteq Held \cup sent
        BY <1>2 DEF InOrder, m
      <4>2. Range(queue) = {queue[j] : j \in 1 .. Len(queue)}
        BY DEF Range, TypeOK
      <4>3. Range(rest) = {}
        BY <1>6 DEF Range
      <4>4. i - 1 = Len(queue)
        BY <1>7, <3>4
      <4>. QED BY <1>7, <3>2, <3>4, <4>1, <4>2, <4>3, <4>4 DEF Held
    <3>. QED BY <1>7, <3>3, <3>4
  <2>2. msg[LT] # NoMsg => earlier[msg[LT]] \subseteq sent
    BY DEF InOrder
  <2>3. ASSUME NEW u \in Thread
        PROVE  /\ pc'[u] \in {"enqueue", "fatalWait"} => earlier[msg[u]] \subseteq Held' \cup sent
               /\ pc'[u] \in {"send", "fatalSend"} => earlier[msg[u]] \subseteq sent
    <3>1. CASE u = t
      BY <1>3, <3>1
    <3>2. CASE u # t
      BY <1>3, <1>8, <3>2 DEF InOrder
    <3>. QED BY <3>1, <3>2
  <2>. QED BY <1>2, <2>1, <2>2, <2>3 DEF InOrder
<1>. QED BY <1>2, <1>5, <1>8, <1>9, <1>10, <1>11, <1>12, <1>13, <1>14, <1>15, <1>16, <1>17,
            <1>18 DEF m

\* A call returns, its message having been queued, or sent by the call.
LEMMA CallReturns ==
  ASSUME Places, alive, NEW t \in Thread, ReturnFromPush(t),
         UNCHANGED <<queue, sending, stopped, started, rest, next, exiting, earlier, awaited>>,
         \/ pc[t] = "notify" /\ sent' = sent
         \/ pc[t] = "send" /\ sent' = sent \cup {msg[t]}
  PROVE  /\ Places'
         /\ msg[t] \in Message
         /\ pc[t] = "send" => msg[t] \notin Held \cup sent
         /\ pc[t] = "notify" => msg[t] \in Held \cup sent
         /\ Held' = Held /\ msg'[LT] = msg[LT] /\ (Leaving' <=> Leaving)
<1>. USE DEF Places, PlaceInv
<1>. DEFINE m == msg[t]
<1>1. /\ t # LT /\ t \in All /\ LT \in All /\ Thread \subseteq All
  BY ThreadAssumption DEF All
<1>2. /\ pc'[t] = "user" /\ pc' \in [All -> CallerPlaces \cup ThreadPlaces]
      /\ \A u \in All : u # t => pc'[u] = pc[u]
  BY <1>1 DEF ReturnFromPush, Goto, TypeOK, CallerPlaces
<1>3. /\ msg'[t] = NoMsg /\ msg' \in [All -> Message \cup {NoMsg}]
      /\ \A u \in All : u # t => msg'[u] = msg[u]
  BY <1>1 DEF ReturnFromPush, TypeOK
<1>4. passed' = passed \cup {m}
  BY DEF ReturnFromPush
<1>5. /\ m \in Message /\ m[1] = t /\ m[2] < next[t]
      /\ pc[t] = "send" => m \notin Held \cup sent
      /\ pc[t] = "notify" => m \in Held \cup sent
  BY <1>1 DEF CallsOwn, Calling
<1>6. sent' \subseteq sent \cup {m} /\ sent \subseteq sent' /\ m \in Held \cup sent'
  BY <1>5 DEF m
<1>7. (pc[t] = "notify" => sent' = sent) /\ (pc[t] # "notify" => pc[t] = "send")
  OBVIOUS
<1>. HIDE DEF m
<1>8. Held' = Held /\ (Leaving' <=> Leaving) /\ pc'[LT] = pc[LT] /\ msg'[LT] = msg[LT]
  BY <1>1, <1>2, <1>3 DEF Held, Leaving
<1>9. TypeOK'
  <2>1. \A u \in Thread : pc'[u] \in CallerPlaces
    BY <1>1, <1>2 DEF TypeOK, CallerPlaces
  <2>2. sent' \subseteq Message /\ passed' \subseteq Message
    BY <1>4, <1>5, <1>6 DEF TypeOK
  <2>. QED BY <1>2, <1>3, <1>8, <2>1, <2>2 DEF TypeOK
<1>10. Carries'
  BY <1>8 DEF Carries
<1>11. CallsOwn'
  <2>1. ASSUME NEW u \in Thread, u # t
        PROVE  /\ pc'[u] = pc[u] /\ msg'[u] = msg[u]
               /\ pc[u] \in Calling => msg[u] # m
    BY <1>1, <1>2, <1>3, <1>5, <2>1 DEF CallsOwn
  <2>2. "user" \notin Calling \cup {"notify"}
    BY DEF Calling
  <2>. QED BY <1>2, <1>6, <1>8, <2>1, <2>2 DEF CallsOwn
<1>12. Numbered'
  BY <1>5, <1>6, <1>8 DEF Numbered
<1>13. HeldOnce'
  <2>1. Held \cap sent' = {}
    BY <1>5, <1>6, <1>7 DEF HeldOnce
  <2>. QED BY <1>8, <2>1 DEF HeldOnce
<1>14. PassedKnown'
  BY <1>4, <1>6, <1>8 DEF PassedKnown
<1>15. ExitIsOne'
  <2>1. \A u \in All : pc'[u] \in Stopping => pc[u] \in Stopping
    BY <1>2 DEF Stopping
  <2>. QED BY <1>8, <2>1 DEF ExitIsOne
<1>16. StopEmpties'
  <2>1. \A u \in All : pc'[u] \in {"exitNotify", "exitSend", "late"} =>
                          pc[u] \in {"exitNotify", "exitSend", "late"}
    BY <1>2
  <2>. QED BY <1>8, <2>1 DEF StopEmpties
<1>17. InOrder'
  <2>. SUFFICES ASSUME ~Leaving
               PROVE  InOrder'
    BY <1>8 DEF InOrder
  <2>1. ASSUME NEW u \in Thread
        PROVE  /\ pc'[u] \in {"enqueue", "fatalWait"} =>
                    earlier[msg'[u]] \subseteq Held \cup sent'
               /\ pc'[u] \in {"send", "fatalSend"} => earlier[msg'[u]] \subseteq sent'
    <3>1. CASE u = t
      BY <1>2, <3>1
    <3>2. CASE u # t
      BY <1>1, <1>2, <1>3, <1>6, <3>2 DEF InOrder
    <3>. QED BY <3>1, <3>2
  <2>. QED BY <1>6, <1>8, <2>1 DEF InOrder
<1>. QED BY <1>5, <1>8, <1>9, <1>10, <1>11, <1>12, <1>13, <1>14, <1>15, <1>16, <1>17 DEF m

\* The fatal message is sent, and the process ends.
LEMMA FatalKeeps ==
  ASSUME Places, alive, NEW t \in Thread, SendFatal(t)
  PROVE  /\ Places'
         /\ msg[t] \in Message /\ msg[t] \notin Held \cup sent
         /\ ~Leaving => earlier[msg[t]] \subseteq sent
<1>. USE DEF Places, PlaceInv
<1>. DEFINE m == msg[t]
<1>1. /\ pc[t] = "fatalSend" /\ sent' = sent \cup {m}
      /\ UNCHANGED <<queue, sending, stopped, started, pc, msg, rest, next, exiting, passed,
                     earlier, awaited>>
  BY DEF SendFatal, shared
<1>2. ~alive'
  BY Zenon DEF SendFatal
<1>3. /\ m \in Message /\ m[2] < next[m[1]] /\ m \notin Held \cup sent
      /\ ~Leaving => earlier[m] \subseteq sent
  BY <1>1 DEF CallsOwn, Calling, InOrder
<1>. HIDE DEF m
<1>4. Held' = Held /\ (Leaving' <=> Leaving)
  BY <1>1 DEF Held, Leaving
<1>5. TypeOK'
  BY <1>1, <1>3 DEF TypeOK
<1>6. Carries' /\ ExitIsOne'
  BY <1>1 DEF Carries, ExitIsOne
<1>7. CallsOwn'
  BY <1>1, <1>2, <1>4 DEF CallsOwn
<1>8. Numbered' /\ HeldOnce' /\ PassedKnown'
  BY <1>1, <1>3, <1>4 DEF Numbered, HeldOnce, PassedKnown
<1>9. StopEmpties'
  BY <1>1, <1>4 DEF StopEmpties
<1>10. InOrder'
  BY <1>1, <1>4 DEF InOrder
<1>. QED BY <1>3, <1>5, <1>6, <1>7, <1>8, <1>9, <1>10 DEF m

\* The logging thread takes the first message.
LEMMA TakeKeeps ==
  ASSUME Places, alive, Take
  PROVE  Places' /\ Held' = Held /\ ~Leaving /\ ~Leaving'
<1>. USE DEF Places, PlaceInv
<1>. DEFINE m == Head(queue)
<1>1. LT \in All /\ LT \notin Thread /\ Thread \subseteq All
  BY ThreadAssumption DEF All
<1>2. /\ pc[LT] = "take" /\ queue # <<>> /\ queue' = Tail(queue)
      /\ UNCHANGED <<stopped, started, rest, next, exiting, alive, passed, sent,
                     earlier, awaited>>
  BY DEF Take, history
<1>3. sending'
  BY Zenon DEF Take
<1>4. /\ pc'[LT] = "notifySpace" /\ pc' \in [All -> CallerPlaces \cup ThreadPlaces]
      /\ \A u \in All : u # LT => pc'[u] = pc[u]
  BY <1>1 DEF Take, Goto, TypeOK, ThreadPlaces, Working
<1>5. msg[LT] = NoMsg /\ started /\ ~stopped /\ rest = <<>>
  BY <1>2 DEF Carries, StopEmpties, Working, Stopping
<1>6. /\ queue' \in Seq(Message) /\ Len(queue') = Len(queue) - 1 /\ Len(queue) \in Nat \ {0}
      /\ m = queue[1] /\ m \in Message
      /\ \A i \in 1 .. Len(queue) - 1 : queue'[i] = queue[i + 1]
      /\ Range(queue) = Range(queue') \cup {m}
      /\ Once(queue) => Once(queue') /\ m \notin Range(queue')
  BY <1>2, Shifted DEF TypeOK
<1>7. /\ msg'[LT] = m /\ msg' \in [All -> Message \cup {NoMsg}] /\ m # NoMsg
      /\ \A u \in All : u # LT => msg'[u] = msg[u]
  BY <1>1, <1>6, MsgAssumption DEF Take, TypeOK
<1>. HIDE DEF m
<1>8. Held' = Held
  BY <1>2, <1>5, <1>6, <1>7 DEF Held
<1>9. ~Leaving /\ ~Leaving'
  BY <1>2, <1>4 DEF Leaving, Stopping
<1>10. \A u \in Thread : pc'[u] = pc[u] /\ msg'[u] = msg[u]
  BY <1>1, <1>4, <1>7
<1>11. TypeOK'
  BY <1>2, <1>4, <1>6, <1>7, <1>10 DEF TypeOK, ThreadPlaces, Working
<1>12. Carries'
  BY <1>2, <1>3, <1>4, <1>5, <1>7 DEF Carries, Working
<1>13. CallsOwn'
  BY <1>2, <1>8, <1>10 DEF CallsOwn
<1>14. Numbered' /\ PassedKnown'
  BY <1>2, <1>8 DEF Numbered, PassedKnown
<1>15. HeldOnce'
  <2>1. Range(rest) = {}
    BY <1>5 DEF Range
  <2>2. Once(queue') /\ m \notin Range(queue')
    BY <1>6 DEF HeldOnce
  <2>. QED BY <1>2, <1>7, <1>8, <2>1, <2>2 DEF HeldOnce
<1>16. ExitIsOne'
  <2>1. \A u \in All : pc'[u] \in Stopping => pc[u] \in Stopping
    BY <1>4 DEF Stopping
  <2>. QED BY <1>2, <1>4, <2>1 DEF ExitIsOne
<1>17. StopEmpties'
  <2>1. \A u \in All : pc'[u] \in {"exitNotify", "exitSend", "late"} =>
                          pc[u] \in {"exitNotify", "exitSend", "late"}
    BY <1>4
  <2>. QED BY <1>2, <1>5, <2>1 DEF StopEmpties
<1>18. InOrder'
  <2>1. \A i \in 1 .. Len(queue) :
          earlier[queue[i]] \subseteq sent \cup {queue[j] : j \in 1 .. i - 1}
    BY <1>5, <1>9 DEF InOrder
  <2>2. earlier[m] \subseteq sent
    BY <1>6, <2>1
  <2>3. ASSUME NEW i \in 1 .. Len(queue')
        PROVE  earlier[queue'[i]] \subseteq sent \cup {m} \cup {queue'[j] : j \in 1 .. i - 1}
    <3>1. i + 1 \in 1 .. Len(queue) /\ queue'[i] = queue[i + 1] /\ (i + 1) - 1 = i
      BY <1>6
    <3>2. {queue[j] : j \in 1 .. i} \subseteq {m} \cup {queue'[j] : j \in 1 .. i - 1}
      <4>1. ASSUME NEW j \in 1 .. i, j # 1
            PROVE  j - 1 \in 1 .. i - 1 /\ queue[j] = queue'[j - 1]
        BY <1>6, <4>1
      <4>. QED BY <1>6, <4>1
    <3>. QED BY <2>1, <3>1, <3>2
  <2>4. ASSUME NEW u \in Thread
        PROVE  /\ pc[u] \in {"enqueue", "fatalWait"} => earlier[msg[u]] \subseteq Held \cup sent
               /\ pc[u] \in {"send", "fatalSend"} => earlier[msg[u]] \subseteq sent
    BY <1>9 DEF InOrder
  <2>. QED BY <1>2, <1>7, <1>8, <1>10, <2>2, <2>3, <2>4 DEF InOrder
<1>. QED BY <1>8, <1>9, <1>11, <1>12, <1>13, <1>14, <1>15, <1>16, <1>17, <1>18

\* The logging thread has sent its message.
LEMMA SendKeeps ==
  ASSUME Places, alive, SendByThread
  PROVE  /\ Places' /\ ~Leaving /\ ~Leaving'
         /\ msg[LT] \in Message /\ msg[LT] \in Held /\ Held' = Held \ {msg[LT]}
         /\ earlier[msg[LT]] \subseteq sent
<1>. USE DEF Places, PlaceInv
<1>. DEFINE m == msg[LT]
<1>1. LT \in All /\ LT \notin Thread /\ Thread \subseteq All
  BY ThreadAssumption DEF All
<1>2. /\ pc[LT] = "send" /\ sent' = sent \cup {m}
      /\ UNCHANGED <<queue, sending, stopped, started, rest, next, exiting, alive, passed,
                     earlier, awaited>>
  BY DEF SendByThread, shared
<1>3. /\ pc'[LT] = "finish" /\ pc' \in [All -> CallerPlaces \cup ThreadPlaces]
      /\ \A u \in All : u # LT => pc'[u] = pc[u]
  BY <1>1 DEF SendByThread, Goto, TypeOK, ThreadPlaces, Resting
<1>4. /\ msg'[LT] = NoMsg /\ msg' \in [All -> Message \cup {NoMsg}]
      /\ \A u \in All : u # LT => msg'[u] = msg[u]
  BY <1>1 DEF SendByThread, TypeOK
<1>5. ~Leaving /\ ~Leaving'
  BY <1>2, <1>3 DEF Leaving, Stopping
<1>6. m # NoMsg /\ m \in Message /\ started /\ ~stopped /\ rest = <<>> /\ m \in Held
  BY <1>1, <1>2, <1>5 DEF Carries, StopEmpties, Working, Stopping, TypeOK, Held
<1>7. m \notin Range(queue) \cup Range(rest) /\ earlier[m] \subseteq sent
  BY <1>5, <1>6 DEF HeldOnce, InOrder
<1>8. Held = Range(queue) \cup Range(rest) \cup {m}
  BY <1>6 DEF Held
<1>. HIDE DEF m
<1>9. Held' = Held \ {m} /\ Held' \cup sent' = Held \cup sent
  BY <1>2, <1>4, <1>6, <1>7, <1>8 DEF Held
<1>10. \A u \in Thread : pc'[u] = pc[u] /\ msg'[u] = msg[u]
  BY <1>1, <1>3, <1>4
<1>11. TypeOK'
  BY <1>2, <1>3, <1>4, <1>6, <1>10 DEF TypeOK, ThreadPlaces, Resting
<1>12. Carries'
  BY <1>2, <1>3, <1>4, <1>6 DEF Carries, Working, Stopping
<1>13. CallsOwn'
  BY <1>2, <1>9, <1>10 DEF CallsOwn
<1>14. Numbered' /\ PassedKnown'
  BY <1>2, <1>9 DEF Numbered, PassedKnown
<1>15. HeldOnce'
  <2>1. Range(queue) \cap sent = {} /\ Range(rest) \cap sent = {}
    BY DEF HeldOnce, Held
  <2>2. NoMsg \notin Range(queue) \cup Range(rest)
    BY MsgAssumption DEF TypeOK, Range
  <2>3. Held' \cap sent' = {}
    BY <1>2, <1>9 DEF HeldOnce
  <2>. QED BY <1>2, <1>4, <2>2, <2>3 DEF HeldOnce
<1>16. ExitIsOne'
  <2>1. \A u \in All : pc'[u] \in Stopping => pc[u] \in Stopping
    BY <1>3 DEF Stopping
  <2>. QED BY <1>2, <1>3, <2>1 DEF ExitIsOne
<1>17. StopEmpties'
  <2>1. \A u \in All : pc'[u] \in {"exitNotify", "exitSend", "late"} =>
                          pc[u] \in {"exitNotify", "exitSend", "late"}
    BY <1>3
  <2>. QED BY <1>2, <1>6, <2>1 DEF StopEmpties
<1>18. InOrder'
  <2>1. ASSUME NEW i \in 1 .. Len(queue)
        PROVE  earlier[queue[i]] \subseteq sent' \cup {queue[j] : j \in 1 .. i - 1}
    BY <1>2, <1>5 DEF InOrder, m
  <2>2. ASSUME NEW u \in Thread
        PROVE  /\ pc'[u] \in {"enqueue", "fatalWait"} =>
                    earlier[msg'[u]] \subseteq Held' \cup sent'
               /\ pc'[u] \in {"send", "fatalSend"} => earlier[msg'[u]] \subseteq sent'
    BY <1>2, <1>5, <1>9, <1>10 DEF InOrder
  <2>. QED BY <1>2, <1>4, <2>1, <2>2 DEF InOrder
<1>. QED BY <1>5, <1>6, <1>7, <1>9, <1>11, <1>12, <1>13, <1>14, <1>15, <1>16, <1>17, <1>18 DEF m

\* Stop takes what is left in the queue, which is something only within a sink.
LEMMA StopKeeps ==
  ASSUME Places, alive, NEW t \in All, Stop(t)
  PROVE  Places' /\ Held' = Held /\ (Leaving' <=> Leaving) /\ msg'[LT] = msg[LT]
<1>. USE DEF Places, PlaceInv
<1>1. LT \in All /\ LT \notin Thread /\ Thread \subseteq All
  BY ThreadAssumption DEF All
<1>2. /\ pc[t] = "exitWait" /\ rest' = queue /\ queue' = <<>>
      /\ t = LT \/ Idle
      /\ UNCHANGED <<sending, started, msg, next, exiting, alive, passed, sent, earlier,
                     awaited>>
  BY DEF Stop, OnLoggingThread, history
<1>3. stopped'
  BY Zenon DEF Stop
<1>4. /\ pc'[t] = "exitNotify" /\ pc' \in [All -> CallerPlaces \cup ThreadPlaces]
      /\ \A u \in All : u # t => pc'[u] = pc[u]
  BY DEF Stop, Goto, TypeOK, ThreadPlaces, Stopping
<1>5. /\ exiting = "running"
      /\ \A u \in All : pc[u] \in Stopping => u = t
      /\ pc[LT] # "late"
  BY <1>1, <1>2 DEF ExitIsOne, Stopping
<1>6. rest = <<>>
  BY <1>1, <1>2, <1>5 DEF StopEmpties, Stopping
<1>7. Leaving <=> t = LT
  BY <1>1, <1>2, <1>5 DEF Leaving, Stopping
<1>8. Leaving' <=> t = LT
  BY <1>1, <1>4, <1>5, <1>7 DEF Leaving, Stopping
<1>9. Held' = Held
  BY <1>2, <1>6 DEF Held
<1>10. t # LT => queue = <<>> /\ msg[LT] = NoMsg
  BY <1>2 DEF Carries, Idle
<1>11. TypeOK'
  <2>1. \A u \in Thread : pc'[u] \in CallerPlaces
    BY <1>1, <1>4 DEF TypeOK, CallerPlaces, Stopping
  <2>2. pc'[LT] \in ThreadPlaces
    BY <1>1, <1>4 DEF TypeOK, ThreadPlaces, Stopping
  <2>. QED BY <1>2, <1>4, <2>1, <2>2 DEF TypeOK
<1>12. Carries'
  BY <1>1, <1>2, <1>4 DEF Carries, Stopping
<1>13. CallsOwn'
  <2>1. \A u \in Thread : pc'[u] \in Calling \cup {"notify"} => pc'[u] = pc[u]
    BY <1>1, <1>4 DEF Calling
  <2>2. "notify" \notin Calling
    BY DEF Calling
  <2>. QED BY <1>2, <1>9, <2>1, <2>2 DEF CallsOwn
<1>14. Numbered' /\ PassedKnown'
  BY <1>2, <1>9 DEF Numbered, PassedKnown
<1>15. HeldOnce'
  <2>1. Range(queue') \cup Range(rest') = Range(queue) \cup Range(rest)
    BY <1>2, <1>6
  <2>2. Once(queue') /\ Once(rest')
    BY <1>2 DEF HeldOnce, Once
  <2>. QED BY <1>2, <1>9, <2>1, <2>2 DEF HeldOnce
<1>16. ExitIsOne'
  <2>1. \A u \in All : pc'[u] \in Stopping => u = t
    BY <1>4, <1>5
  <2>2. pc'[LT] # "late"
    BY <1>1, <1>4, <1>5
  <2>. QED BY <1>2, <1>5, <2>1, <2>2 DEF ExitIsOne
<1>17. StopEmpties'
  <2>1. queue' = <<>> /\ (Leaving' \/ msg'[LT] = NoMsg)
    BY <1>2, <1>8, <1>10
  <2>2. rest' # <<>> => pc'[LT] = "exitNotify"
    BY <1>2, <1>4, <1>10
  <2>. QED BY <1>3, <2>1, <2>2 DEF StopEmpties
<1>18. InOrder'
  <2>. SUFFICES ASSUME ~Leaving, t # LT
               PROVE  InOrder'
    BY <1>7, <1>8 DEF InOrder
  <2>1. ASSUME NEW u \in Thread
        PROVE  /\ pc'[u] \in {"enqueue", "fatalWait"} => earlier[msg[u]] \subseteq Held \cup sent
               /\ pc'[u] \in {"send", "fatalSend"} => earlier[msg[u]] \subseteq sent
    BY <1>1, <1>4 DEF InOrder
  <2>. QED BY <1>2, <1>9, <1>10, <2>1 DEF InOrder
<1>. QED BY <1>2, <1>7, <1>8, <1>9, <1>11, <1>12, <1>13, <1>14, <1>15, <1>16, <1>17, <1>18

\* Stop sends what it has taken.
LEMMA RemainingKeeps ==
  ASSUME Places, alive, NEW t \in All, SendRemaining(t)
  PROVE  /\ Places' /\ Leaving /\ Leaving'
         /\ Head(rest) \in Message /\ Head(rest) \in Held /\ Held' = Held \ {Head(rest)}
<1>. USE DEF Places, PlaceInv
<1>. DEFINE m == Head(rest)
<1>1. LT \in All /\ LT \notin Thread /\ Thread \subseteq All
  BY ThreadAssumption DEF All
<1>2. /\ pc[t] = "exitSend" /\ rest # <<>> /\ rest' = Tail(rest)
      /\ sent' = sent \cup {m}
      /\ UNCHANGED <<queue, sending, stopped, started, pc, msg, next, exiting, alive, passed,
                     earlier, awaited>>
  BY DEF SendRemaining, shared
<1>3. stopped /\ pc[LT] \in {"exitNotify", "exitSend"} /\ queue = <<>>
  BY <1>2 DEF StopEmpties
<1>4. Leaving /\ Leaving'
  BY <1>2, <1>3 DEF Leaving, Stopping
<1>5. /\ rest' \in Seq(Message) /\ m \in Message
      /\ Range(rest) = Range(rest') \cup {m}
      /\ Once(rest) => Once(rest') /\ m \notin Range(rest')
  BY <1>2, Shifted DEF TypeOK
<1>. HIDE DEF m
<1>6. /\ Once(rest') /\ m \notin Range(rest') /\ m # msg[LT]
      /\ msg[LT] \notin Range(queue) \cup Range(rest')
  BY <1>5 DEF HeldOnce
<1>7. Range(queue) = {}
  BY <1>3 DEF Range
<1>8. Held' = Held \ {m} /\ m \in Held /\ Held' \cup sent' = Held \cup sent
  BY <1>2, <1>5, <1>6, <1>7 DEF Held
<1>9. TypeOK'
  BY <1>2, <1>5 DEF TypeOK
<1>10. Carries' /\ ExitIsOne'
  BY <1>2 DEF Carries, ExitIsOne
<1>11. CallsOwn'
  BY <1>2, <1>8 DEF CallsOwn
<1>12. Numbered' /\ PassedKnown'
  BY <1>2, <1>8 DEF Numbered, PassedKnown
<1>13. HeldOnce'
  <2>1. Held' \cap sent' = {}
    BY <1>2, <1>8 DEF HeldOnce
  <2>. QED BY <1>2, <1>6, <2>1 DEF HeldOnce
<1>14. StopEmpties'
  BY <1>2, <1>3, <1>4 DEF StopEmpties
<1>15. InOrder'
  BY <1>4 DEF InOrder
<1>. QED BY <1>4, <1>5, <1>8, <1>9, <1>10, <1>11, <1>12, <1>13, <1>14, <1>15 DEF m

\* The child of a fork has the thread that forked, and no message.
LEMMA ForkKeeps ==
  ASSUME Places, alive, NEW t \in Thread, Fork(t)
  PROVE  Places' /\ Held' = {} /\ ~Leaving'
<1>. USE DEF Places, PlaceInv
<1>1. t # LT /\ t \in All /\ LT \in All /\ LT \notin Thread /\ Thread \subseteq All
  BY ThreadAssumption DEF All
<1>2. /\ pc[t] = "user" /\ queue' = <<>> /\ rest' = <<>>
      /\ exiting' = IF exiting = "running" THEN "no" ELSE exiting
      /\ passed' = passed \cap sent
      /\ UNCHANGED <<stopped, next, alive, sent, earlier, awaited>>
  BY DEF Fork
<1>3. ~sending' /\ ~started'
  BY Zenon DEF Fork
<1>4. /\ pc'[t] = "user" /\ pc' \in [All -> CallerPlaces \cup ThreadPlaces]
      /\ \A u \in All : u # t => pc'[u] = "gone"
      /\ \A u \in All : pc'[u] \in {"user", "gone"}
  BY <1>1 DEF Fork, CallerPlaces
<1>5. msg' \in [All -> Message \cup {NoMsg}] /\ \A u \in All : msg'[u] = NoMsg
  BY DEF Fork
<1>6. Held' = {} /\ ~Leaving'
  BY <1>1, <1>2, <1>4, <1>5 DEF Held, Leaving, Stopping, Range
<1>7. TypeOK'
  <2>1. \A u \in Thread : pc'[u] \in CallerPlaces
    BY <1>1, <1>4 DEF CallerPlaces
  <2>2. pc'[LT] \in ThreadPlaces
    BY <1>1, <1>4 DEF ThreadPlaces
  <2>3. queue' \in Seq(Message) /\ rest' \in Seq(Message)
    BY <1>2
  <2>. QED BY <1>2, <1>4, <1>5, <2>1, <2>2, <2>3 DEF TypeOK
<1>8. Carries'
  BY <1>1, <1>4, <1>5 DEF Carries, Working, Stopping
<1>9. CallsOwn'
  BY <1>1, <1>4 DEF CallsOwn, Calling
<1>10. Numbered'
  BY <1>2, <1>6 DEF Numbered
<1>11. HeldOnce' /\ PassedKnown'
  <2>1. Once(queue') /\ Once(rest') /\ Range(queue') \cup Range(rest') = {}
    BY <1>2 DEF Once, Range
  <2>. QED BY <1>2, <1>6, <2>1 DEF HeldOnce, PassedKnown
<1>12. ExitIsOne' /\ StopEmpties'
  BY <1>1, <1>2, <1>4, <1>5 DEF ExitIsOne, StopEmpties, Stopping
<1>13. InOrder'
  <2>1. \A u \in Thread : pc'[u] \notin {"enqueue", "fatalWait", "send", "fatalSend"}
    BY <1>1, <1>4
  <2>2. 1 .. Len(queue') = {}
    BY <1>2
  <2>. QED BY <1>1, <1>5, <2>1, <2>2 DEF InOrder
<1>. QED BY <1>6, <1>7, <1>8, <1>9, <1>10, <1>11, <1>12, <1>13

\* Nothing is left when the logging thread is idle, or stopped but by a sink.
LEMMA IdleHoldsNothing ==
  ASSUME Places, Idle \/ stopped, ~Leaving
  PROVE  Held = {} /\ passed \subseteq sent
<1>. USE DEF Places, PlaceInv
<1>1. queue = <<>> /\ msg[LT] = NoMsg
  BY DEF Idle, Carries, StopEmpties
<1>2. rest = <<>>
  BY DEF StopEmpties, Leaving, Stopping
<1>3. Held = {}
  BY <1>1, <1>2 DEF Held, Range
<1>. QED BY <1>3 DEF PassedKnown

\* A call of the library moves on; the cases of CallerMoves apart from exit().
LEMMA CallMoves ==
  ASSUME Places, alive, NEW t \in Thread, NEW to \in {"user", "wait", "send", "fatalSend"},
         pc' = [pc EXCEPT ![t] = to],
         UNCHANGED <<queue, sending, stopped, started, msg, rest, next, exiting, passed, sent,
                     earlier>>,
         awaited' \in [Thread -> SUBSET Message],
         \/ pc[t] \in {"user", "wait"} /\ to \in {"user", "wait"}
         \/ /\ (pc[t] = "enqueue" /\ to = "send") \/ (pc[t] = "fatalWait" /\ to = "fatalSend")
            /\ ~Leaving => Held = {}
  PROVE  Places'
<1>1. pc[t] \notin Stopping /\ to \notin Stopping /\ to \in CallerPlaces
  BY DEF Stopping, CallerPlaces, Calling
<1>2. exiting' = exiting
  OBVIOUS
<1>3. CASE to \in {"user", "wait"}
  BY <1>1, <1>2, <1>3, CallerMoves
<1>4. CASE to \notin {"user", "wait"}
  BY <1>1, <1>2, <1>4, CallerMoves
<1>. QED BY <1>3, <1>4

LEMMA CallersKeep ==
  ASSUME Places, alive, NEW t \in Thread, CallerStep(t)
  PROVE  Places'
<1>1. CASE EnqueueStopped(t)
  <2>1. ~Leaving => Held = {}
    BY <1>1, IdleHoldsNothing DEF EnqueueStopped
  <2>2. awaited' \in [Thread -> SUBSET Message]
    BY <1>1 DEF EnqueueStopped, history, Places, TypeOK
  <2>3. /\ pc[t] = "enqueue" /\ pc' = [pc EXCEPT ![t] = "send"]
        /\ UNCHANGED <<queue, sending, stopped, started, msg, rest, next, exiting, passed, sent,
                       earlier>>
    BY <1>1 DEF EnqueueStopped, Goto, shared, history
  <2>. QED BY <2>1, <2>2, <2>3, CallMoves
<1>2. CASE Enqueue(t)
  BY <1>2, EnqueueKeeps
<1>3. CASE AwaitSpace(t)
  BY <1>3, QuietKeeps DEF AwaitSpace, shared, history
<1>4. CASE NotifyPending(t) \/ SendByCaller(t)
  BY <1>4, CallReturns DEF NotifyPending, SendByCaller, shared
<1>5. CASE LeaveWait(t)
  <2>1. ~Leaving => Held = {}
    BY <1>5, IdleHoldsNothing DEF LeaveWait, WaitIsOver
  <2>2. awaited' \in [Thread -> SUBSET Message]
    BY <1>5 DEF LeaveWait, Places, TypeOK
  <2>3. UNCHANGED <<queue, sending, stopped, started, msg, rest, next, exiting, passed, sent,
                    earlier>>
    BY <1>5 DEF LeaveWait, shared
  <2>4. CASE pc[t] = "wait"
    <3>1. pc' = [pc EXCEPT ![t] = "user"]
      BY <1>5, <2>4 DEF LeaveWait, Goto
    <3>. QED BY <2>1, <2>2, <2>3, <2>4, <3>1, CallMoves
  <2>5. CASE pc[t] = "fatalWait"
    <3>1. pc' = [pc EXCEPT ![t] = "fatalSend"]
      BY <1>5, <2>5 DEF LeaveWait, Goto
    <3>. QED BY <2>1, <2>2, <2>3, <2>5, <3>1, CallMoves
  <2>. QED BY <1>5, <2>4, <2>5 DEF LeaveWait
<1>6. CASE SleepInWait(t)
  BY <1>6, QuietKeeps DEF SleepInWait, shared, history
<1>7. CASE SendFatal(t)
  BY <1>7, FatalKeeps
<1>. QED BY <1>1, <1>2, <1>3, <1>4, <1>5, <1>6, <1>7 DEF CallerStep

LEMMA UserKeeps ==
  ASSUME Places, alive, NEW t \in Thread, UserStep(t)
  PROVE  Places'
<1>1. passed \subseteq Message /\ awaited \in [Thread -> SUBSET Message]
  BY DEF Places, TypeOK
<1>2. CASE Push(t)
  BY <1>1, <1>2, CallBegins DEF Push, Goto, shared
<1>3. CASE Wait(t)
  <2>1. awaited' \in [Thread -> SUBSET Message]
    BY <1>1, <1>3 DEF Wait
  <2>. QED BY <1>3, <2>1, CallMoves DEF Wait, Goto, shared
<1>4. CASE LogFatal(t)
  <2>1. awaited' \in [Thread -> SUBSET Message]
    BY <1>1, <1>4 DEF LogFatal
  <2>. QED BY <1>4, <2>1, CallBegins DEF LogFatal, Goto, shared
<1>5. CASE Fork(t)
  BY <1>5, ForkKeeps
<1>. QED BY <1>2, <1>3, <1>4, <1>5 DEF UserStep

LEMMA ExitKeeps ==
  ASSUME Places, alive, NEW t \in All, StopStep(t) \/ Exit(t) \/ SpuriousWakeup(t)
  PROVE  Places'
<1>1. CASE SleepInStop(t) \/ SpuriousWakeup(t)
  BY <1>1, QuietKeeps DEF SleepInStop, SpuriousWakeup, shared, history
<1>2. CASE Stop(t)
  BY <1>2, StopKeeps
<1>3. CASE NotifyStopped(t)
  <2>1. /\ pc[t] = "exitNotify" /\ pc' = [pc EXCEPT ![t] = "exitSend"] /\ stopped
        /\ UNCHANGED <<queue, sending, stopped, started, msg, rest, next, exiting, passed,
                       sent, earlier, awaited>>
    BY <1>3 DEF NotifyStopped, Goto, shared, history, Places, PlaceInv, StopEmpties
  <2>2. CASE t = LT
    BY <2>1, <2>2, LoggingThreadMoves DEF ThreadPlaces, Stopping
  <2>3. CASE t \in Thread
    <3>1. awaited' \in [Thread -> SUBSET Message]
      BY <2>1 DEF Places, TypeOK
    <3>. QED BY <2>1, <2>3, <3>1, CallerMoves DEF CallerPlaces, Stopping
  <2>. QED BY <2>2, <2>3 DEF All
<1>4. CASE SendRemaining(t)
  BY <1>4, RemainingKeeps
<1>5. CASE LeaveStop(t)
  <2>1. /\ pc[t] = "exitSend" /\ rest = <<>> /\ exiting' = "done"
        /\ pc' = [pc EXCEPT ![t] = IF t = LT THEN "late" ELSE "user"]
        /\ UNCHANGED <<queue, sending, stopped, started, msg, rest, next, passed,
                       sent, earlier, awaited>>
    BY <1>5 DEF LeaveStop, Goto, shared, history
  <2>2. CASE t = LT
    <3>1. pc' = [pc EXCEPT ![LT] = "late"]
      BY <2>1, <2>2
    <3>. QED BY <2>1, <2>2, <3>1, LoggingThreadMoves DEF ThreadPlaces
  <2>3. CASE t \in Thread
    <3>1. pc' = [pc EXCEPT ![t] = "user"]
      BY <2>1, <2>3, ThreadAssumption
    <3>2. awaited' \in [Thread -> SUBSET Message]
      BY <2>1 DEF Places, TypeOK
    <3>. QED BY <2>1, <2>3, <3>1, <3>2, CallerMoves DEF CallerPlaces, Stopping
  <2>. QED BY <2>2, <2>3 DEF All
<1>6. CASE Exit(t)
  <2>1. /\ exiting = "no" /\ exiting' = "running"
        /\ pc[t] = IF t = LT THEN "send" ELSE "user"
        /\ pc' = [pc EXCEPT ![t] = "exitWait"]
        /\ UNCHANGED <<queue, sending, stopped, started, msg, rest, next, passed,
                       sent, earlier, awaited>>
    BY <1>6 DEF Exit, Goto, shared, history
  <2>2. CASE t = LT
    BY <2>1, <2>2, LoggingThreadMoves DEF ThreadPlaces, Stopping
  <2>3. CASE t \in Thread
    <3>1. pc[t] = "user"
      BY <2>1, <2>3, ThreadAssumption
    <3>2. awaited' \in [Thread -> SUBSET Message]
      BY <2>1 DEF Places, TypeOK
    <3>. QED BY <2>1, <2>3, <3>1, <3>2, CallerMoves DEF CallerPlaces, Stopping
  <2>. QED BY <2>2, <2>3 DEF All
<1>. QED BY <1>1, <1>2, <1>3, <1>4, <1>5, <1>6 DEF StopStep

LEMMA ThreadKeeps ==
  ASSUME Places, alive, ThreadStep \/ BeginNestedCall \/ EndProcess
  PROVE  Places'
<1>1. CASE Take
  BY <1>1, TakeKeeps
<1>2. CASE AwaitMessage \/ EndProcess
  BY <1>2, QuietKeeps DEF AwaitMessage, EndProcess, shared, history
<1>3. CASE NotifySpace \/ BeginNestedCall \/ EndNestedCall
  BY <1>3, LoggingThreadMoves
     DEF NotifySpace, BeginNestedCall, EndNestedCall, Goto, shared, history, ThreadPlaces,
         Working
<1>4. CASE SendByThread
  BY <1>4, SendKeeps
<1>5. CASE Finish
  <2>1. /\ pc[LT] = "finish"
        /\ UNCHANGED <<queue, stopped, started, msg, rest, next, exiting, passed,
                       sent, earlier, awaited>>
    BY <1>5 DEF Finish, history
  <2>2. PICK to \in {"notifyIdle", "take"} : pc' = [pc EXCEPT ![LT] = to]
    BY <1>5 DEF Finish, Goto
  <2>. QED BY <2>1, <2>2, LoggingThreadMoves DEF ThreadPlaces, Resting
<1>6. CASE NotifyIdle
  BY <1>6, LoggingThreadMoves DEF NotifyIdle, Goto, shared, history, ThreadPlaces, Resting
<1>. QED BY <1>1, <1>2, <1>3, <1>4, <1>5, <1>6 DEF ThreadStep

LEMMA PlacesKept ==
  ASSUME Places, [Next]_vars
  PROVE  Places'
<1>1. CASE Next
  BY <1>1, CallersKeep, UserKeeps, ExitKeeps, ThreadKeeps DEF Next
<1>2. CASE UNCHANGED vars
  <2>. USE <1>2 DEF vars, shared, history
  <2>1. Held' = Held /\ (Leaving' <=> Leaving)
    BY DEF Held, Leaving
  <2>2. TypeOK' /\ Carries' /\ ExitIsOne'
    BY DEF Places, PlaceInv, TypeOK, Carries, ExitIsOne
  <2>3. CallsOwn'
    BY <2>1 DEF Places, PlaceInv, CallsOwn
  <2>4. Numbered' /\ HeldOnce' /\ PassedKnown'
    BY <2>1 DEF Places, PlaceInv, Numbered, HeldOnce, PassedKnown
  <2>5. StopEmpties' /\ InOrder'
    BY <2>1 DEF Places, PlaceInv, StopEmpties, InOrder
  <2>. QED BY <2>2, <2>3, <2>4, <2>5 DEF Places, PlaceInv
<1>. QED BY <1>1, <1>2

LEMMA InitInductive == Init => IInv
<1>. SUFFICES ASSUME Init
             PROVE  IInv
  OBVIOUS
<1>1. LT \in All /\ LT \notin Thread /\ Thread \subseteq All
  BY ThreadAssumption DEF All
<1>2. /\ queue = <<>> /\ rest = <<>> /\ bytes = 0 /\ sent = {} /\ passed = {}
      /\ exiting = "no"
  BY DEF Init
<1>3. ~started /\ ~stopped
  BY Zenon DEF Init
<1>4. /\ pc[LT] = "gone" /\ \A t \in Thread : pc[t] = "user"
      /\ \A t \in All : pc[t] \in {"user", "gone"} /\ msg[t] = NoMsg
  BY <1>1 DEF Init
<1>5. Held = {}
  BY <1>1, <1>2, <1>4 DEF Held, Range
<1>6. TypeOK
  <2>1. next \in [Thread -> 1 .. MaxMsgs + 1]
    BY MsgAssumption DEF Init
  <2>2. /\ queue \in Seq(Message) /\ rest \in Seq(Message)
        /\ pc \in [All -> CallerPlaces \cup ThreadPlaces]
        /\ msg \in [All -> Message \cup {NoMsg}]
        /\ earlier \in [Message -> SUBSET Message]
        /\ awaited \in [Thread -> SUBSET Message]
    BY DEF Init, CallerPlaces, ThreadPlaces
  <2>3. pc[LT] \in ThreadPlaces /\ \A t \in Thread : pc[t] \in CallerPlaces
    BY <1>4 DEF CallerPlaces, ThreadPlaces
  <2>. QED BY <1>2, <2>1, <2>2, <2>3 DEF TypeOK
<1>7. BytesCounted
  BY <1>2, NoBytes, CapacityAssumption DEF BytesCounted
<1>8. Carries /\ CallsOwn
  BY <1>1, <1>4 DEF Carries, CallsOwn, Calling, Working, Stopping
<1>9. Numbered /\ HeldOnce /\ PassedKnown
  BY <1>2, <1>5 DEF Numbered, HeldOnce, PassedKnown, Once, Range
<1>10. ExitIsOne /\ StopEmpties
  BY <1>1, <1>2, <1>3, <1>4 DEF ExitIsOne, StopEmpties, Stopping
<1>11. InOrder
  BY <1>1, <1>2, <1>4 DEF InOrder
<1>. QED BY <1>6, <1>7, <1>8, <1>9, <1>10, <1>11 DEF IInv, PlaceInv

\* The invariant on which what follows rests: where every message is, and in
\* which order, whatever threads wait, exit, die of a fatal message or fork.
THEOREM InductiveInvariant == Spec => []IInv
<1>1. IInv /\ [Next]_vars => IInv'
  BY BytesKept, PlacesKept DEF IInv, Places
<1>. QED BY InitInductive, <1>1, PTL DEF Spec

\* Enqueue, Take, Stop and ResumeChildAfterFork: pending_bytes_ counts what is
\* queued, and the queue stays within kMaxPendingBytes.
THEOREM BytesAreCounted == Spec => []QueueWithinCapacity
<1>1. IInv => QueueWithinCapacity
  <2>. SUFFICES ASSUME IInv
               PROVE  QueueWithinCapacity
    OBVIOUS
  <2>1. PICK sum : IsTotal(sum, queue) /\ bytes = sum[Len(queue)]
    BY DEF IInv, BytesCounted
  <2>2. Len(queue) \in Nat /\ bytes \in Nat /\ bytes <= Capacity
    BY DEF IInv, TypeOK, BytesCounted
  <2>3. ASSUME NEW i \in 0 .. Len(queue)
        PROVE  sum[i] \in 0 .. Capacity
    <3>1. Len(queue) \in 0 .. Len(queue)
      BY <2>2
    <3>2. sum[i] \in Nat /\ sum[i] <= sum[Len(queue)]
      BY <2>1, <2>2, <3>1 DEF IsTotal
    <3>. QED BY <2>1, <2>2, <3>2, CapacityAssumption
  <2>4. sum \in [0 .. Len(queue) -> 0 .. Capacity]
    BY <2>1, <2>3 DEF IsTotal
  <2>5. sum \in Totals(queue)
    BY <2>1, <2>4 DEF IsTotal, Totals
  <2>. QED BY <2>1, <2>5 DEF QueueWithinCapacity
<1>. QED BY InductiveInvariant, <1>1, PTL

-----------------------------------------------------------------------------
(* The steps are steps of AsyncContract.                                   *)

Waits == {"wait", "fatalWait"}

LEMMA WaitingAfter ==
  ASSUME Places, NEW t \in Thread, NEW to, pc' = [pc EXCEPT ![t] = to]
  PROVE  /\ Waiting' = IF to \in Waits THEN Waiting \cup {t} ELSE Waiting \ {t}
         /\ t \in Waiting <=> pc[t] \in Waits
         /\ pc'[LT] = pc[LT] /\ (Leaving' <=> Leaving)
<1>1. /\ t \in All /\ LT \in All /\ LT # t
  BY ThreadAssumption DEF All
<1>2. \A u \in Thread : pc'[u] = IF u = t THEN to ELSE pc[u]
  BY DEF Places, TypeOK, All
<1>3. pc'[LT] = pc[LT]
  BY <1>1 DEF Places, TypeOK
<1>. QED BY <1>2, <1>3 DEF Waiting, Waits, Leaving

LEMMA NotWaiting ==
  ASSUME Places, NEW t \in Thread, NEW to, pc' = [pc EXCEPT ![t] = to],
         pc[t] \notin Waits, to \notin Waits
  PROVE  Waiting' = Waiting /\ (Leaving' <=> Leaving)
<1>1. t \notin Waiting /\ Waiting' = Waiting \ {t} /\ (Leaving' <=> Leaving)
  BY WaitingAfter
<1>. QED BY <1>1

LEMMA WaitingSame ==
  ASSUME \A t \in Thread : pc'[t] \in Waits <=> pc[t] \in Waits
  PROVE  Waiting' = Waiting
BY DEF Waiting, Waits

\* A step of the logging thread.
LEMMA WaitingLeft ==
  ASSUME Places, NEW to, pc' = [pc EXCEPT ![LT] = to]
  PROVE  Waiting' = Waiting /\ pc'[LT] = to
<1>1. LT \in All /\ \A t \in Thread : t \in All /\ t # LT
  BY ThreadAssumption DEF All
<1>2. \A t \in Thread : pc'[t] = pc[t]
  BY <1>1 DEF Places, TypeOK
<1>3. pc'[LT] = to
  BY <1>1 DEF Places, TypeOK
<1>. QED BY <1>2, <1>3 DEF Waiting

LEMMA HeldSame ==
  ASSUME UNCHANGED <<queue, rest>>, msg'[LT] = msg[LT]
  PROVE  Held' = Held
BY DEF Held

LEMMA AbandonedSame ==
  ASSUME Leaving' <=> Leaving, msg'[LT] = msg[LT]
  PROVE  Abandoned' = Abandoned
BY DEF Abandoned

LEMMA AbandonedNow == (Leaving => Abandoned = {msg[LT]}) /\ (~Leaving => Abandoned = {})
BY DEF Abandoned

\* What a wait and an exit wait for.
LEMMA NothingOwed ==
  ASSUME Places, Idle \/ stopped
  PROVE  Promise!Sent(passed) /\ \A S : Promise!Sent(S \cap passed)
<1>1. ~Leaving => passed \subseteq sent
  BY IdleHoldsNothing
<1>2. Leaving => Abandoned # {}
  BY AbandonedNow
<1>. QED BY <1>1, <1>2 DEF Promise!Sent

\* A call of the library goes on.
LEMMA CallRefines ==
  ASSUME Places, alive, NEW t \in Thread, CallerStep(t)
  PROVE  [Promise!Next]_(Promise!vars)
<1>. USE DEF Promise!vars
<1>0. LT # t /\ t \in All /\ LT \in All
  BY ThreadAssumption DEF All
<1>1. CASE EnqueueStopped(t)
  <2>1. /\ pc[t] = "enqueue" /\ pc' = [pc EXCEPT ![t] = "send"]
        /\ UNCHANGED <<queue, rest, msg, exiting, alive, sent, passed, earlier, awaited>>
    BY <1>1 DEF EnqueueStopped, Goto, shared, history
  <2>2. Waiting' = Waiting /\ (Leaving' <=> Leaving)
    BY <2>1, WaitingAfter DEF Waits
  <2>. QED BY <2>1, <2>2, HeldSame, AbandonedSame DEF Closed
<1>2. CASE Enqueue(t)
  <2>1. /\ UNCHANGED <<exiting, alive, sent, passed, earlier, awaited>>
        /\ pc[t] = "enqueue"
    BY <1>2 DEF Enqueue, history
  <2>2. /\ msg[t] \in Message /\ msg[t] \notin Held \cup sent /\ Held' = Held \cup {msg[t]}
        /\ Abandoned' = Abandoned
    BY <1>2, EnqueueKeeps, AbandonedSame
  <2>3. Waiting' = Waiting
    <3>1. /\ pc'[t] = "notify"
          /\ \A u \in Thread : u # t => pc'[u] = pc[u]
      BY <1>0, <1>2, ThreadAssumption DEF Enqueue, Places, TypeOK, All
    <3>2. \A u \in Thread : pc'[u] \in Waits <=> pc[u] \in Waits
      BY <2>1, <3>1 DEF Waits
    <3>. QED BY <3>2, WaitingSame
  <2>4. Promise!Accept(msg[t])
    BY <2>1, <2>2, <2>3 DEF Promise!Accept, Closed
  <2>. QED BY <2>2, <2>4 DEF Promise!Next
<1>3. CASE AwaitSpace(t) \/ SleepInWait(t)
  <2>1. UNCHANGED <<queue, rest, msg, exiting, alive, sent, passed, earlier, awaited, pc>>
    BY <1>3 DEF AwaitSpace, SleepInWait, shared, history
  <2>2. Waiting' = Waiting /\ (Leaving' <=> Leaving)
    BY <2>1 DEF Waiting, Leaving
  <2>. QED BY <2>1, <2>2, HeldSame, AbandonedSame DEF Closed
<1>4. CASE NotifyPending(t) \/ SendByCaller(t)
  <2>1. /\ pc' = [pc EXCEPT ![t] = "user"] /\ passed' = passed \cup {msg[t]}
        /\ UNCHANGED <<exiting, alive, earlier, awaited>>
        /\ \/ pc[t] = "notify" /\ sent' = sent
           \/ pc[t] = "send" /\ sent' = sent \cup {msg[t]}
    BY <1>4 DEF NotifyPending, SendByCaller, ReturnFromPush, Goto
  <2>2. /\ msg[t] \in Message
        /\ pc[t] = "send" => msg[t] \notin Held \cup sent
        /\ pc[t] = "notify" => msg[t] \in Held \cup sent
        /\ Held' = Held /\ Abandoned' = Abandoned
    BY <1>4, CallReturns, AbandonedSame DEF NotifyPending, SendByCaller, shared
  <2>3. Waiting' = Waiting
    BY <2>1, WaitingAfter, ZenonT(30) DEF Waits
  <2>4. CASE pc[t] = "notify"
    <3>1. Promise!Return(msg[t])
      BY <2>1, <2>2, <2>3, <2>4 DEF Promise!Return, Closed
    <3>. QED BY <2>2, <3>1 DEF Promise!Next
  <2>5. CASE pc[t] = "send"
    <3>1. ~Leaving => earlier[msg[t]] \subseteq sent
      BY <2>5 DEF Places, PlaceInv, InOrder
    <3>2. Promise!InOrder(msg[t])
      BY <3>1, AbandonedNow DEF Promise!InOrder, Promise!Sent
    <3>3. Promise!SendInCall(msg[t])
      BY <2>1, <2>2, <2>3, <2>5, <3>2 DEF Promise!SendInCall, Closed
    <3>. QED BY <2>2, <3>3 DEF Promise!Next
  <2>. QED BY <2>1, <2>4, <2>5
<1>5. CASE LeaveWait(t)
  <2>1. /\ pc[t] \in Waits /\ awaited' = [awaited EXCEPT ![t] = {}]
        /\ UNCHANGED <<queue, rest, msg, exiting, alive, sent, passed, earlier>>
        /\ Idle \/ stopped
    BY <1>5 DEF LeaveWait, WaitIsOver, shared, Waits
  <2>2. PICK to \in {"user", "fatalSend"} : pc' = [pc EXCEPT ![t] = to]
    BY <1>5 DEF LeaveWait, Goto
  <2>3. t \in Waiting /\ Waiting' = Waiting \ {t} /\ (Leaving' <=> Leaving)
    BY <2>1, <2>2, WaitingAfter DEF Waits
  <2>4. Promise!EndWait(t)
    BY <2>1, <2>3, NothingOwed, HeldSame, AbandonedSame DEF Promise!EndWait, Closed
  <2>. QED BY <2>4 DEF Promise!Next
<1>6. CASE SendFatal(t)
  <2>1. /\ alive' = FALSE /\ sent' = sent \cup {msg[t]}
        /\ UNCHANGED <<queue, rest, msg, pc, exiting, passed, earlier, awaited>>
    BY <1>6 DEF SendFatal, shared
  <2>2. Waiting' = Waiting /\ (Leaving' <=> Leaving)
    BY <2>1 DEF Waiting, Leaving
  <2>3. /\ msg[t] \in Message /\ msg[t] \notin Held \cup sent
        /\ ~Leaving => earlier[msg[t]] \subseteq sent
    BY <1>6, FatalKeeps
  <2>4. Promise!InOrder(msg[t])
    BY <2>3, AbandonedNow DEF Promise!InOrder, Promise!Sent
  <2>5. Promise!SendFatal(msg[t])
    BY <2>1, <2>2, <2>3, <2>4, HeldSame, AbandonedSame DEF Promise!SendFatal, Closed
  <2>. QED BY <2>3, <2>5 DEF Promise!Next
<1>. QED BY <1>1, <1>2, <1>3, <1>4, <1>5, <1>6 DEF CallerStep

\* The application begins a call, or forks.
LEMMA UserRefines ==
  ASSUME Places, alive, NEW t \in Thread, UserStep(t)
  PROVE  [Promise!Next]_(Promise!vars)
<1>0. LT # t
  BY ThreadAssumption
<1>1. CASE Push(t)
  <2>1. /\ earlier' = [earlier EXCEPT ![<<t, next[t]>>] = passed]
        /\ pc' = [pc EXCEPT ![t] = "enqueue"] /\ pc[t] = "user"
        /\ msg' = [msg EXCEPT ![t] = <<t, next[t]>>]
        /\ UNCHANGED <<queue, rest, exiting, alive, passed, sent, awaited>>
    BY <1>1 DEF Push, Goto, shared
  <2>2. <<t, next[t]>> \in Message /\ <<t, next[t]>> \notin Held \cup sent
    BY <1>1, CallBegins DEF Push, Goto, shared, Places, TypeOK
  <2>3. msg'[LT] = msg[LT]
    BY <1>0, <2>1 DEF Places, TypeOK, All
  <2>4. Waiting' = Waiting /\ (Leaving' <=> Leaving)
    BY <2>1, WaitingAfter DEF Waits
  <2>5. Promise!Begin(<<t, next[t]>>)
    BY <2>1, <2>2, <2>3, <2>4, HeldSame, AbandonedSame DEF Promise!Begin, Closed
  <2>. QED BY <2>1, <2>2, <2>4, <2>5 DEF Promise!Next
<1>2. CASE Wait(t)
  <2>1. /\ awaited' = [awaited EXCEPT ![t] = passed]
        /\ pc' = [pc EXCEPT ![t] = "wait"] /\ pc[t] = "user"
        /\ UNCHANGED <<queue, rest, msg, exiting, alive, passed, sent, earlier>>
    BY <1>2 DEF Wait, Goto, shared
  <2>2. /\ t \notin Waiting /\ Waiting' = Waiting \cup {t} /\ (Leaving' <=> Leaving)
    BY <2>1, WaitingAfter DEF Waits
  <2>3. Promise!BeginWait(t)
    BY <2>1, <2>2, HeldSame, AbandonedSame DEF Promise!BeginWait, Closed
  <2>. QED BY <2>1, <2>3 DEF Promise!Next
<1>3. CASE LogFatal(t)
  <2>1. /\ earlier' = [earlier EXCEPT ![<<t, next[t]>>] = passed]
        /\ awaited' = [awaited EXCEPT ![t] = passed]
        /\ pc' = [pc EXCEPT ![t] = "fatalWait"] /\ pc[t] = "user"
        /\ msg' = [msg EXCEPT ![t] = <<t, next[t]>>]
        /\ UNCHANGED <<queue, rest, exiting, alive, passed, sent>>
    BY <1>3 DEF LogFatal, Goto, shared
  <2>2. passed \subseteq Message /\ awaited \in [Thread -> SUBSET Message]
    BY DEF Places, TypeOK
  <2>3. awaited' \in [Thread -> SUBSET Message]
    BY <2>1, <2>2
  <2>4. <<t, next[t]>> \in Message /\ <<t, next[t]>> \notin Held \cup sent
    BY <1>3, <2>3, CallBegins DEF LogFatal, Goto, shared
  <2>5. msg'[LT] = msg[LT]
    BY <1>0, <2>1 DEF Places, TypeOK, All
  <2>6. /\ t \notin Waiting /\ Waiting' = Waiting \cup {t} /\ (Leaving' <=> Leaving)
    BY <2>1, WaitingAfter DEF Waits
  <2>7. Promise!Begin(<<t, next[t]>>) /\ Promise!BeginWait(t)
    BY <2>1, <2>4, <2>5, <2>6, HeldSame, AbandonedSame
       DEF Promise!Begin, Promise!BeginWait, Closed
  <2>. QED BY <2>4, <2>7 DEF Promise!Next
<1>4. CASE Fork(t)
  <2>1. /\ passed' = passed \cap sent
        /\ exiting' = IF exiting = "running" THEN "no" ELSE exiting
        /\ UNCHANGED <<alive, sent, earlier, awaited>>
    BY <1>4 DEF Fork
  <2>2. Held' = {} /\ Abandoned' = {}
    BY <1>4, ForkKeeps DEF Abandoned
  <2>3. \A u \in Thread : pc'[u] \notin Waits
    BY <1>4 DEF Fork, All, Waits
  <2>4. Waiting' = {}
    BY <2>3 DEF Waiting, Waits
  <2>5. Closed' = Closed
    <3>1. exiting' = "done" <=> exiting = "done"
      BY <2>1
    <3>. QED BY <3>1 DEF Closed
  <2>6. Promise!Fork
    BY <2>1, <2>2, <2>4, <2>5 DEF Promise!Fork
  <2>. QED BY <2>6 DEF Promise!Next
<1>. QED BY <1>1, <1>2, <1>3, <1>4 DEF UserStep

\* exit() and what it runs.
LEMMA ExitRefines ==
  ASSUME Places, alive, NEW t \in All, StopStep(t) \/ Exit(t) \/ SpuriousWakeup(t)
  PROVE  [Promise!Next]_(Promise!vars)
<1>. USE DEF Promise!vars
<1>0. LT \notin Thread /\ (t = LT \/ t \in Thread)
  BY ThreadAssumption DEF All
<1>1. CASE SleepInStop(t) \/ SpuriousWakeup(t)
  <2>1. UNCHANGED <<queue, rest, msg, exiting, alive, sent, passed, earlier, awaited, pc>>
    BY <1>1 DEF SleepInStop, SpuriousWakeup, shared, history
  <2>2. Waiting' = Waiting /\ (Leaving' <=> Leaving)
    BY <2>1 DEF Waiting, Leaving
  <2>. QED BY <2>1, <2>2, HeldSame, AbandonedSame DEF Closed
<1>2. CASE Stop(t)
  <2>1. /\ pc[t] = "exitWait" /\ pc' = [pc EXCEPT ![t] = "exitNotify"]
        /\ UNCHANGED <<exiting, alive, sent, passed, earlier, awaited>>
    BY <1>2 DEF Stop, Goto, history
  <2>2. Held' = Held /\ Abandoned' = Abandoned
    BY <1>2, StopKeeps, AbandonedSame
  <2>3. Waiting' = Waiting
    <3>1. pc[t] \notin Waits /\ "exitNotify" \notin Waits
      BY <2>1 DEF Waits
    <3>. QED BY <1>0, <2>1, <3>1, NotWaiting, WaitingLeft
  <2>. QED BY <2>1, <2>2, <2>3 DEF Closed
<1>3. CASE NotifyStopped(t)
  <2>1. /\ pc[t] = "exitNotify" /\ pc' = [pc EXCEPT ![t] = "exitSend"]
        /\ UNCHANGED <<queue, rest, msg, exiting, alive, sent, passed, earlier, awaited>>
    BY <1>3 DEF NotifyStopped, Goto, shared, history
  <2>2. Waiting' = Waiting /\ (Leaving' <=> Leaving)
    <3>1. CASE t = LT
      BY <2>1, <3>1, WaitingLeft DEF Leaving
    <3>2. CASE t \in Thread
      <4>1. pc[t] \notin Waits /\ "exitSend" \notin Waits
        BY <2>1 DEF Waits
      <4>. QED BY <2>1, <3>2, <4>1, NotWaiting
    <3>. QED BY <1>0, <3>1, <3>2
  <2>. QED BY <2>1, <2>2, HeldSame, AbandonedSame DEF Closed
<1>4. CASE SendRemaining(t)
  <2>1. /\ sent' = sent \cup {Head(rest)}
        /\ UNCHANGED <<msg, exiting, alive, pc, passed, earlier, awaited>>
    BY <1>4 DEF SendRemaining, shared
  <2>2. /\ Leaving /\ Leaving'
        /\ Head(rest) \in Message /\ Head(rest) \in Held /\ Held' = Held \ {Head(rest)}
    BY <1>4, RemainingKeeps
  <2>3. Waiting' = Waiting /\ Abandoned' = Abandoned
    BY <2>1, <2>2, AbandonedSame DEF Waiting
  <2>4. Promise!InOrder(Head(rest))
    BY <2>2, AbandonedNow DEF Promise!InOrder, Promise!Sent
  <2>5. Promise!Send(Head(rest))
    BY <2>1, <2>2, <2>3, <2>4 DEF Promise!Send, Closed
  <2>. QED BY <2>2, <2>5 DEF Promise!Next
<1>5. CASE LeaveStop(t)
  <2>1. /\ pc[t] = "exitSend" /\ rest = <<>> /\ exiting' = "done"
        /\ pc' = [pc EXCEPT ![t] = IF t = LT THEN "late" ELSE "user"]
        /\ UNCHANGED <<queue, rest, msg, alive, sent, passed, earlier, awaited>>
    BY <1>5 DEF LeaveStop, Goto, shared, history
  <2>2. queue = <<>> /\ (Leaving \/ msg[LT] = NoMsg)
    BY <2>1 DEF Places, PlaceInv, StopEmpties
  <2>3. Held \subseteq Abandoned
    BY <2>1, <2>2, AbandonedNow DEF Held, Range
  <2>4. Waiting' = Waiting /\ (Leaving' <=> Leaving)
    <3>1. CASE t = LT
      BY <2>1, <3>1, WaitingLeft DEF Leaving
    <3>2. CASE t \in Thread
      <4>1. pc' = [pc EXCEPT ![t] = "user"]
        BY <1>0, <2>1, <3>2
      <4>2. pc[t] \notin Waits /\ "user" \notin Waits
        BY <2>1 DEF Waits
      <4>. QED BY <2>1, <3>2, <4>1, <4>2, NotWaiting
    <3>. QED BY <1>0, <3>1, <3>2
  <2>5. Closed' = TRUE
    BY <2>1 DEF Closed
  <2>6. Promise!Close
    BY <2>1, <2>3, <2>4, <2>5, HeldSame, AbandonedSame DEF Promise!Close
  <2>. QED BY <2>6 DEF Promise!Next
<1>6. CASE Exit(t)
  <2>1. /\ pc' = [pc EXCEPT ![t] = "exitWait"] /\ exiting = "no" /\ exiting' = "running"
        /\ pc[t] = IF t = LT THEN "send" ELSE "user"
        /\ UNCHANGED <<queue, rest, msg, alive, sent, passed, earlier, awaited>>
    BY <1>6 DEF Exit, Goto, shared, history
  <2>2. Closed' = Closed
    BY <2>1 DEF Closed
  <2>3. CASE t = LT
    <3>1. pc[LT] = "send" /\ Waiting' = Waiting /\ pc'[LT] = "exitWait"
      BY <2>1, <2>3, WaitingLeft
    <3>2. msg[LT] # NoMsg /\ msg[LT] \in Message /\ msg[LT] \in Held
      BY <3>1 DEF Places, PlaceInv, TypeOK, Carries, Working, Held, All
    <3>3. Abandoned' = {msg[LT]}
      BY <2>1, <3>1 DEF Abandoned, Leaving
    <3>4. Promise!Abandon(msg[LT])
      BY <2>1, <2>2, <3>1, <3>2, <3>3, HeldSame DEF Promise!Abandon
    <3>. QED BY <3>2, <3>4 DEF Promise!Next
  <2>4. CASE t \in Thread
    <3>1. pc[t] = "user"
      BY <1>0, <2>1, <2>4
    <3>2. Waiting' = Waiting /\ (Leaving' <=> Leaving)
      BY <2>1, <2>4, <3>1, WaitingAfter DEF Waits
    <3>. QED BY <2>1, <2>2, <3>2, HeldSame, AbandonedSame
  <2>. QED BY <1>0, <2>3, <2>4
<1>. QED BY <1>1, <1>2, <1>3, <1>4, <1>5, <1>6 DEF StopStep

\* The logging thread, and the end of the process.
LEMMA ThreadRefines ==
  ASSUME Places, alive, ThreadStep \/ BeginNestedCall \/ EndProcess
  PROVE  [Promise!Next]_(Promise!vars)
<1>. USE DEF Promise!vars
<1>1. CASE Take
  <2>1. /\ pc' = [pc EXCEPT ![LT] = "notifySpace"]
        /\ UNCHANGED <<exiting, alive, sent, passed, earlier, awaited>>
    BY <1>1 DEF Take, Goto, history
  <2>2. Held' = Held /\ Abandoned' = Abandoned
    BY <1>1, TakeKeeps DEF Abandoned
  <2>. QED BY <2>1, <2>2, WaitingLeft DEF Closed
<1>2. CASE AwaitMessage
  <2>1. UNCHANGED <<queue, rest, msg, exiting, alive, sent, passed, earlier, awaited, pc>>
    BY <1>2 DEF AwaitMessage, shared, history
  <2>2. Waiting' = Waiting /\ (Leaving' <=> Leaving)
    BY <2>1 DEF Waiting, Leaving
  <2>. QED BY <2>1, <2>2, HeldSame, AbandonedSame DEF Closed
<1>3. CASE NotifySpace \/ BeginNestedCall \/ EndNestedCall \/ Finish \/ NotifyIdle
  <2>1. UNCHANGED <<queue, rest, msg, exiting, alive, sent, passed, earlier, awaited>>
    BY <1>3 DEF NotifySpace, BeginNestedCall, EndNestedCall, Finish, NotifyIdle, shared, history
  <2>2. PICK to \in Working \cup Resting : pc' = [pc EXCEPT ![LT] = to]
    BY <1>3 DEF NotifySpace, BeginNestedCall, EndNestedCall, Finish, NotifyIdle, Goto, Working,
                Resting
  <2>3. pc[LT] \in Working \cup Resting
    BY <1>3 DEF NotifySpace, BeginNestedCall, EndNestedCall, Finish, NotifyIdle, Working,
                Resting
  <2>4. Waiting' = Waiting /\ ~Leaving /\ ~Leaving'
    BY <2>2, <2>3, WaitingLeft DEF Leaving, Working, Resting
  <2>. QED BY <2>1, <2>4, HeldSame, AbandonedSame DEF Closed
<1>4. CASE SendByThread
  <2>1. /\ pc' = [pc EXCEPT ![LT] = "finish"] /\ sent' = sent \cup {msg[LT]}
        /\ UNCHANGED <<exiting, alive, passed, earlier, awaited>>
    BY <1>4 DEF SendByThread, Goto, shared
  <2>2. /\ ~Leaving /\ ~Leaving'
        /\ msg[LT] \in Message /\ msg[LT] \in Held /\ Held' = Held \ {msg[LT]}
        /\ earlier[msg[LT]] \subseteq sent
    BY <1>4, SendKeeps
  <2>3. Waiting' = Waiting /\ Abandoned' = Abandoned
    BY <2>1, <2>2, WaitingLeft DEF Abandoned
  <2>4. Promise!InOrder(msg[LT])
    BY <2>2 DEF Promise!InOrder, Promise!Sent
  <2>5. Promise!Send(msg[LT])
    BY <2>1, <2>2, <2>3, <2>4 DEF Promise!Send, Closed
  <2>. QED BY <2>2, <2>5 DEF Promise!Next
<1>5. CASE EndProcess
  <2>1. /\ alive' = FALSE
        /\ UNCHANGED <<queue, rest, msg, exiting, sent, passed, earlier, awaited, pc>>
    BY <1>5 DEF EndProcess, shared, history
  <2>2. Waiting' = Waiting /\ (Leaving' <=> Leaving)
    BY <2>1 DEF Waiting, Leaving
  <2>3. Promise!End
    BY <2>1, <2>2, HeldSame, AbandonedSame DEF Promise!End, Closed
  <2>. QED BY <2>3 DEF Promise!Next
<1>. QED BY <1>1, <1>2, <1>3, <1>4, <1>5 DEF ThreadStep

LEMMA StepsRefine ==
  ASSUME Places, [Next]_vars
  PROVE  [Promise!Next]_(Promise!vars)
<1>1. CASE Next
  BY <1>1, CallRefines, UserRefines, ExitRefines, ThreadRefines DEF Next
<1>2. CASE UNCHANGED vars
  BY <1>2 DEF vars, shared, history, Promise!vars, Held, Waiting, Abandoned, Leaving, Closed
<1>. QED BY <1>1, <1>2

LEMMA InitRefines == Init => Promise!Init
<1>. SUFFICES ASSUME Init
             PROVE  Promise!Init
  OBVIOUS
<1>1. LT \in All /\ LT \notin Thread /\ Thread \subseteq All
  BY ThreadAssumption DEF All
<1>2. pc[LT] = "gone" /\ msg[LT] = NoMsg /\ \A t \in Thread : pc[t] = "user"
  BY <1>1 DEF Init
<1>3. Held = {} /\ Waiting = {} /\ Abandoned = {}
  BY <1>2 DEF Init, Held, Waiting, Abandoned, Leaving, Range
<1>4. Closed = FALSE
  BY DEF Init, Closed
<1>. QED BY <1>3, <1>4 DEF Init, Promise!Init

\* Push, Wait, Stop, the fatal message and the fork handlers keep the safety of
\* what experimental/log.h promises: every message is sent at most once and
\* after what was passed before it; whoever waits or exits, finds everything
\* sent that was passed; and only a sink that calls exit() leaves a message
\* unsent.
THEOREM SafePromiseKept == Spec => Promise!SafeContract
<1>1. IInv /\ [Next]_vars => [Promise!Next]_(Promise!vars)
  BY StepsRefine DEF IInv, Places
<1>. QED BY InductiveInvariant, InitRefines, <1>1, PTL DEF Spec, Promise!SafeContract
=============================================================================
