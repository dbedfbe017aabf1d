--------------------------- MODULE LogSinks_proofs ---------------------------
(* Proofs about the sink registry.                                         *)
EXTENDS LogSinks, FiniteSetTheorems, SequenceTheorems, TLAPS

-----------------------------------------------------------------------------
\* Popping a non-empty sequence of frames.
LEMMA PopFrame ==
  ASSUME NEW q \in Seq(Frame), q # <<>>
  PROVE  /\ Pop(q) \in Seq(Frame)
         /\ Len(Pop(q)) = Len(q) - 1
         /\ \A i \in 1 .. Len(q) - 1 : Pop(q)[i] = q[i]
         /\ DOMAIN Pop(q) = 1 .. Len(q) - 1
         /\ DOMAIN q = 1 .. Len(q)
         /\ Len(q) \in Nat \ {0}
         /\ q[Len(q)] \in Frame
<1>1. Len(q) \in Nat \ {0} /\ DOMAIN q = 1 .. Len(q)
  BY EmptySeq, LenProperties
<1>2. \A i \in 1 .. Len(q) : q[i] \in Frame
  BY ElementOfSeq
<1>3. /\ SubSeq(q, 1, Len(q) - 1) \in Seq(Frame)
      /\ Len(SubSeq(q, 1, Len(q) - 1)) = Len(q) - 1
      /\ \A i \in 1 .. Len(q) - 1 : SubSeq(q, 1, Len(q) - 1)[i] = q[i]
  <2>1. \A i \in 1 .. Len(q) - 1 : q[i] \in Frame
    BY <1>1, <1>2
  <2>2. 1 \in Int /\ Len(q) - 1 \in Int
    BY <1>1
  <2>. HIDE DEF Frame
  <2>3. /\ SubSeq(q, 1, Len(q) - 1) \in Seq(Frame)
        /\ Len(SubSeq(q, 1, Len(q) - 1)) =
             IF 1 <= Len(q) - 1 THEN Len(q) - 1 - 1 + 1 ELSE 0
        /\ \A i \in 1 .. Len(q) - 1 - 1 + 1 :
             SubSeq(q, 1, Len(q) - 1)[i] = q[1 + i - 1]
    BY <2>1, <2>2, SubSeqProperties
  <2>. QED BY <1>1, <2>3
<1>4. DOMAIN Pop(q) = 1 .. Len(Pop(q))
  BY <1>3, LenProperties DEF Pop
<1>. QED
  BY <1>1, <1>2, <1>3, <1>4 DEF Pop

\* Pushing a frame.
LEMMA PushFrame ==
  ASSUME NEW q \in Seq(Frame), NEW f \in Frame
  PROVE  /\ Append(q, f) \in Seq(Frame)
         /\ Len(Append(q, f)) = Len(q) + 1
         /\ \A i \in 1 .. Len(q) : Append(q, f)[i] = q[i]
         /\ Append(q, f)[Len(q) + 1] = f
         /\ DOMAIN Append(q, f) = 1 .. Len(q) + 1
         /\ DOMAIN q = 1 .. Len(q)
         /\ Len(q) \in Nat
OBVIOUS

-----------------------------------------------------------------------------
\* The sink that RemoveLogSink is about is known while it runs.
ArgKnown ==
  \A t \in Thread :
    pc[t] \in {"removeStore", "count", "waitOut", "waitIn"} => arg[t] \in Sink

\* A message in progress leaves room for one more callback.
RoomForCallback ==
  \A t \in Thread :
    pc[t] \in {"recheck", "get", "loop"} => Len(stack[t]) < MaxDepth

\* The inductive invariant.  The counts only stay numbers because they match
\* the calls, a sleeper is only woken in time because the waiting calls are
\* among the calls, and a retired sink only stays silent because the count a
\* removal saw was the number of its calls.
IInv ==
  /\ TypeOK
  /\ ArgKnown
  /\ RoomForCallback
  /\ CountsMatchCalls
  /\ NoLostWakeup
  /\ RetiredSinksAreNotCalled

\* The sets of calls are finite.
LEMMA CallSetsFinite ==
  ASSUME TypeOK, NEW s \in Sink
  PROVE  /\ IsFiniteSet(Active(s))
         /\ IsFiniteSet(WaitingCalls(s))
         /\ \A t \in Thread : /\ CallsOf(t, s) \subseteq 1 .. MaxDepth
                              /\ IsFiniteSet(CallsOf(t, s))
<1>1. IsFiniteSet(1 .. MaxDepth)
  BY FS_Interval, BoundAssumption
<1>2. IsFiniteSet(Thread \X (1 .. MaxDepth))
  BY <1>1, ThreadAssumption, FS_Product
<1>3. IsFiniteSet(Active(s))
  BY <1>2, FS_Subset DEF Active
<1>4. IsFiniteSet(WaitingCalls(s))
  BY <1>3, FS_Subset DEF WaitingCalls
<1>5. ASSUME NEW t \in Thread
      PROVE  CallsOf(t, s) \subseteq 1 .. MaxDepth /\ IsFiniteSet(CallsOf(t, s))
  <2>1. DOMAIN stack[t] \subseteq 1 .. MaxDepth
    <3>1. /\ stack[t] \in Seq(Frame)
          /\ Len(stack[t]) <= MaxDepth
      BY DEF TypeOK
    <3>2. DOMAIN stack[t] = 1 .. Len(stack[t]) /\ Len(stack[t]) \in Nat
      BY <3>1, LenProperties
    <3>. QED BY <3>1, <3>2, BoundAssumption
  <2>2. CallsOf(t, s) \subseteq 1 .. MaxDepth
    BY <2>1 DEF CallsOf
  <2>. QED BY <1>1, <2>2, FS_Subset
<1>. QED BY <1>3, <1>4, <1>5

\* The calls of s that thread t makes, as a part of all calls of s.
LEMMA OwnCalls ==
  ASSUME TypeOK, NEW s \in Sink, NEW t \in Thread
  PROVE  /\ {c \in Active(s) : c[1] = t} = {t} \X CallsOf(t, s)
         /\ Cardinality({t} \X CallsOf(t, s)) = Cardinality(CallsOf(t, s))
         /\ IsFiniteSet({t} \X CallsOf(t, s))
<1>1. CallsOf(t, s) \subseteq 1 .. MaxDepth /\ IsFiniteSet(CallsOf(t, s))
  BY CallSetsFinite
<1>2. {c \in Active(s) : c[1] = t} = {t} \X CallsOf(t, s)
  BY <1>1 DEF Active
<1>3. IsFiniteSet({t}) /\ Cardinality({t}) = 1
  BY FS_Singleton
<1>4. /\ IsFiniteSet({t} \X CallsOf(t, s))
      /\ Cardinality({t} \X CallsOf(t, s))
           = Cardinality({t}) * Cardinality(CallsOf(t, s))
  BY <1>1, <1>3, FS_Product
<1>5. Cardinality(CallsOf(t, s)) \in Nat
  BY <1>1, FS_CardinalityType
<1>. QED BY <1>2, <1>3, <1>4, <1>5

\* The innermost callback of a thread is a call that is counted.
LEMMA TopIsCounted ==
  ASSUME TypeOK, CountsMatchCalls, NEW t \in Thread, InCallback(t)
  PROVE  /\ Top(t) \in Frame
         /\ Top(t).sink \in Sink
         /\ Len(stack[t]) \in CallsOf(t, Top(t).sink)
         /\ <<t, Len(stack[t])>> \in Active(Top(t).sink)
         /\ calls[Top(t).sink] > 0
         /\ threadCalls[t][Top(t).sink] > 0
<1>1. /\ stack[t] \in Seq(Frame)
      /\ stack[t] # <<>>
      /\ Len(stack[t]) <= MaxDepth
  BY DEF TypeOK, InCallback
<1>2. /\ Len(stack[t]) \in Nat \ {0}
      /\ Top(t) \in Frame
      /\ DOMAIN stack[t] = 1 .. Len(stack[t])
  BY <1>1, PopFrame DEF Top
<1>3. Top(t).sink \in Sink
  BY <1>2 DEF Frame
<1>4. Len(stack[t]) \in CallsOf(t, Top(t).sink)
  BY <1>2 DEF CallsOf, Top
<1>5. <<t, Len(stack[t])>> \in Active(Top(t).sink)
  BY <1>1, <1>2, <1>4, BoundAssumption DEF Active
<1>6. IsFiniteSet(Active(Top(t).sink)) /\ IsFiniteSet(CallsOf(t, Top(t).sink))
  BY <1>3, CallSetsFinite
<1>7. /\ Cardinality(Active(Top(t).sink)) \in Nat \ {0}
      /\ Cardinality(CallsOf(t, Top(t).sink)) \in Nat \ {0}
  BY <1>4, <1>5, <1>6, FS_EmptySet, FS_CardinalityType
<1>. QED BY <1>2, <1>3, <1>4, <1>5, <1>7 DEF CountsMatchCalls

\* A thread that waits inside a callback has announced its own calls.
LEMMA OwnCallsAreWaiting ==
  ASSUME TypeOK, CountsMatchCalls, NEW t \in Thread, NEW s \in Sink,
         WaitsInside(t, s)
  PROVE  /\ {t} \X CallsOf(t, s) \subseteq WaitingCalls(s)
         /\ threadCalls[t][s] <= waiting[s]
<1>1. {t} \X CallsOf(t, s) \subseteq WaitingCalls(s)
  <2>1. {c \in Active(s) : c[1] = t} = {t} \X CallsOf(t, s)
    BY OwnCalls
  <2>. QED BY <2>1 DEF WaitingCalls
<1>2. Cardinality({t} \X CallsOf(t, s)) <= Cardinality(WaitingCalls(s))
  BY <1>1, CallSetsFinite, FS_Subset
<1>3. Cardinality({t} \X CallsOf(t, s)) = threadCalls[t][s]
  BY OwnCalls DEF CountsMatchCalls
<1>. QED BY <1>1, <1>2, <1>3 DEF CountsMatchCalls

\* Every step keeps the types.
LEMMA TypeStep ==
  ASSUME IInv, [Next]_vars
  PROVE  TypeOK' /\ ArgKnown' /\ RoomForCallback'
<1>. USE DEF IInv
<1>a. TypeOK /\ ArgKnown /\ RoomForCallback
  OBVIOUS
<1>. CASE UNCHANGED vars
  BY <1>a DEF TypeOK, ArgKnown, RoomForCallback, vars, registry, counts,
     control
<1>. SUFFICES ASSUME NEW t \in Thread,
                     LibraryStep(t) \/ UserStep(t) \/ SpuriousWakeup(t)
              PROVE  TypeOK' /\ ArgKnown' /\ RoomForCallback'
  BY DEF Next
<1>1. CASE AddStore(t)
  BY <1>1, <1>a DEF AddStore, TypeOK, ArgKnown, RoomForCallback, counts, Goto, PC
<1>2. CASE RemoveStore(t)
  BY <1>2, <1>a DEF RemoveStore, TypeOK, ArgKnown, RoomForCallback, counts, Goto, PC
<1>3. CASE WaitForSinkCallsOutside(t)
  BY <1>3, <1>a, ZenonT(30)
  DEF WaitForSinkCallsOutside, TypeOK, ArgKnown, RoomForCallback, registry, Goto,
     PC, ReturnFromRemove, Retire
<1>4. CASE WaitForSinkCallsInside(t)
  <2>1. /\ pc' \in {[pc EXCEPT ![t] = "user"], [pc EXCEPT ![t] = "waitIn"]}
        /\ arg' \in {arg, [arg EXCEPT ![t] = NoSink]}
        /\ pc'[t] = "waitIn" => arg' = arg
        /\ waiting' \in
             {waiting,
              [waiting EXCEPT ![arg[t]] = @ + threadCalls[t][arg[t]]]}
        /\ asleep' \in {{}, {t}}
        /\ pc[t] = "count"
        /\ UNCHANGED <<registry, calls, threadCalls, phase, rest, stack,
                       retired>>
    <3>1. t \in DOMAIN pc
      BY <1>a DEF TypeOK
    <3>. QED BY <1>4, <3>1 DEF WaitForSinkCallsInside, ReturnFromRemove, Goto
  <2>2. arg[t] \in Sink
    BY <2>1, <1>a DEF ArgKnown
  <2>3. waiting' \in [Sink -> Nat]
    <3>1. waiting \in [Sink -> Nat] /\ threadCalls[t][arg[t]] \in Nat
      BY <2>2, <1>a DEF TypeOK
    <3>. QED BY <2>1, <2>2, <3>1
  <2>4. pc' \in [Thread -> PC] /\ arg' \in [Thread -> Sink \cup {NoSink}]
    BY <2>1, <1>a DEF TypeOK, PC
  <2>5. ArgKnown' /\ RoomForCallback'
    <3>1. /\ pc'[t] \in {"user", "waitIn"}
          /\ \A u \in Thread \ {t} : pc'[u] = pc[u] /\ arg'[u] = arg[u]
      BY <2>1, <1>a DEF TypeOK
    <3>2. ArgKnown'
      BY <2>1, <2>2, <3>1, <1>a DEF ArgKnown
    <3>3. RoomForCallback'
      BY <2>1, <3>1, <1>a DEF RoomForCallback
    <3>. QED BY <3>2, <3>3
  <2>. QED
    BY <2>1, <2>3, <2>4, <2>5, <1>a DEF TypeOK, registry
<1>5. CASE SleepOn(t)
  BY <1>5, <1>a DEF SleepOn, TypeOK, ArgKnown, RoomForCallback, registry, control
<1>6. CASE LeaveWaitOutside(t)
  BY <1>6, <1>a DEF LeaveWaitOutside, TypeOK, ArgKnown, RoomForCallback, registry, counts, Goto,
     PC, ReturnFromRemove, Retire
<1>7. CASE LeaveWaitInside(t)
  <2>1. arg[t] \in Sink /\ WaitsInside(t, arg[t])
    BY <1>7, <1>a DEF LeaveWaitInside, ArgKnown, WaitsInside
  <2>2. threadCalls[t][arg[t]] <= waiting[arg[t]]
    BY <2>1, OwnCallsAreWaiting
  <2>. QED
    BY <1>7, <1>a, <2>1, <2>2 DEF LeaveWaitInside, TypeOK, ArgKnown, RoomForCallback, registry,
       Goto, PC, ReturnFromRemove
<1>8. CASE WaitForSinks(t)
  BY <1>8, <1>a DEF WaitForSinks, TypeOK, ArgKnown, RoomForCallback, registry,
     counts, Goto, PC, Phase
<1>9. CASE GetSinks(t)
  BY <1>9, <1>a DEF GetSinks, TypeOK, ArgKnown, RoomForCallback, registry, counts, Goto, PC,
     Phase
<1>10. CASE SkipRemovedSink(t)
  BY <1>10, <1>a DEF SkipRemovedSink, TypeOK, ArgKnown, RoomForCallback, registry, counts
<1>11. CASE EndLoop(t)
  BY <1>11, <1>a DEF EndLoop, TypeOK, ArgKnown, RoomForCallback, registry, counts, Goto, PC,
     Phase
<1>12. CASE DeleteStore(t)
  BY <1>12, <1>a DEF DeleteStore, TypeOK, ArgKnown, RoomForCallback, counts, Goto, PC
<1>13. CASE WaitForAllSinkCalls(t)
  BY <1>13, <1>a DEF WaitForAllSinkCalls, TypeOK, ArgKnown, RoomForCallback, registry, Goto, PC,
     Retire, NotCalledBy
<1>14. CASE LeaveWaitAll(t)
  BY <1>14, <1>a DEF LeaveWaitAll, TypeOK, ArgKnown, RoomForCallback, registry, counts, Goto, PC,
     Retire, NotCalledBy
<1>15. CASE \E s \in Sink : AddLogSink(t, s)
  BY <1>15, <1>a, BoundAssumption, SMTT(30)
  DEF AddLogSink, TypeOK, ArgKnown, RoomForCallback, counts, Goto, PC, Registration, Ticket
<1>16. CASE \E s \in Sink : RemoveLogSink(t, s)
  <2>. PICK s \in Sink : RemoveLogSink(t, s)
    BY <1>16
  <2>1. /\ arg' = [arg EXCEPT ![t] = s]
        /\ pc' \in {[pc EXCEPT ![t] = "removeStore"], [pc EXCEPT ![t] = "count"]}
        /\ sinks' \subseteq sinks
        /\ writer' \in {t, writer}
        /\ UNCHANGED <<allocated, present, adds, calls, threadCalls, waiting,
                       asleep, phase, rest, stack, retired>>
    BY DEF RemoveLogSink, counts, Goto
  <2>2. pc' \in [Thread -> PC]
    BY <2>1, <1>a DEF TypeOK, PC
  <2>3. ArgKnown' /\ RoomForCallback'
    BY <2>1, <1>a DEF ArgKnown, RoomForCallback, TypeOK
  <2>. QED BY <2>1, <2>2, <2>3, <1>a DEF TypeOK
<1>17. CASE LogMessage(t)
  BY <1>17, <1>a DEF LogMessage, TypeOK, ArgKnown, RoomForCallback, registry, counts, Goto, PC,
     Phase
<1>18. CASE DeleteLogDestinations(t)
  BY <1>18, <1>a DEF DeleteLogDestinations, TypeOK, ArgKnown, RoomForCallback, counts, Goto, PC
<1>19. CASE SpuriousWakeup(t)
  BY <1>19, <1>a DEF SpuriousWakeup, TypeOK, ArgKnown, RoomForCallback, registry, control
<1>20. CASE EndSinkCall(t) \/ ThrowFromCallback(t)
  <2>1. /\ InCallback(t)
        /\ CountEndOfCall(t, Top(t).sink)
        /\ stack' = [stack EXCEPT ![t] = Pop(@)]
        /\ rest' \in {rest, [rest EXCEPT ![t] = Top(t).rest]}
        /\ phase' \in {phase, [phase EXCEPT ![t] = Top(t).phase]}
        /\ pc' \in {pc, [pc EXCEPT ![t] = "loop"]}
        /\ UNCHANGED <<registry, waiting, arg, retired>>
    BY <1>20 DEF EndSinkCall, ThrowFromCallback, Goto
  <2>2. /\ Top(t) \in Frame
        /\ Top(t).sink \in Sink
        /\ calls[Top(t).sink] > 0
        /\ threadCalls[t][Top(t).sink] > 0
    BY <2>1, TopIsCounted
  <2>3. /\ calls' \in [Sink -> Nat]
        /\ threadCalls' \in [Thread -> [Sink -> Nat]]
        /\ asleep' \subseteq Thread
    <3>. DEFINE top == Top(t).sink
    <3>1. /\ calls[top] - 1 \in Nat
          /\ threadCalls[t][top] - 1 \in Nat
      BY <2>2, <1>a DEF TypeOK
    <3>2. /\ calls' = [calls EXCEPT ![top] = @ - 1]
          /\ threadCalls' = [threadCalls EXCEPT ![t][top] = @ - 1]
          /\ asleep' = {}
      BY <2>1 DEF CountEndOfCall
    <3>3. top \in Sink
      BY <2>2
    <3>. HIDE DEF top
    <3>. QED BY <3>1, <3>2, <3>3, <1>a DEF TypeOK
  <2>4. /\ Top(t).rest \in SUBSET Registration
        /\ Top(t).phase \in Phase
    BY <2>2 DEF Frame
  <2>5. /\ stack' \in [Thread -> Seq(Frame)]
        /\ \A u \in Thread : Len(stack'[u]) <= MaxDepth
        /\ Len(stack'[t]) < MaxDepth
        /\ \A u \in Thread \ {t} : stack'[u] = stack[u]
    <3>1. /\ Pop(stack[t]) \in Seq(Frame)
          /\ Len(Pop(stack[t])) < MaxDepth
          /\ Len(Pop(stack[t])) <= MaxDepth
      <4>1. stack[t] \in Seq(Frame) /\ stack[t] # <<>> /\ Len(stack[t]) <= MaxDepth
        BY <2>1, <1>a DEF TypeOK, InCallback
      <4>2. /\ Pop(stack[t]) \in Seq(Frame)
            /\ Len(Pop(stack[t])) = Len(stack[t]) - 1
            /\ Len(stack[t]) \in Nat
        BY <4>1, PopFrame
      <4>. QED BY <4>1, <4>2, BoundAssumption
    <3>. QED BY <2>1, <3>1, <1>a DEF TypeOK
  <2>6. /\ pc' \in [Thread -> PC]
        /\ rest' \in [Thread -> SUBSET Registration]
        /\ phase' \in [Thread -> Phase]
    BY <2>1, <2>4, <1>a DEF TypeOK, PC
  <2>7. ArgKnown' /\ RoomForCallback'
    BY <2>1, <2>5, <1>a DEF ArgKnown, RoomForCallback, TypeOK
  <2>. QED
    BY <2>1, <2>3, <2>5, <2>6, <2>7, <1>a DEF TypeOK, registry
<1>21. CASE BeginSinkCall(t)
  <2>. PICK r \in rest[t] :
         /\ calls' = [calls EXCEPT ![r[2]] = @ + 1]
         /\ threadCalls' = [threadCalls EXCEPT ![t][r[2]] = @ + 1]
         /\ stack' = [stack EXCEPT ![t] =
              Append(@, [sink |-> r[2], rest |-> rest[t] \ {r},
                         phase |-> phase[t]])]
         /\ rest' = [rest EXCEPT ![t] = {}]
    BY <1>21 DEF BeginSinkCall
  <2>. DEFINE f == [sink |-> r[2], rest |-> rest[t] \ {r}, phase |-> phase[t]]
  <2>1. r[2] \in Sink /\ rest[t] \ {r} \in SUBSET Registration
    BY <1>a DEF TypeOK, Registration
  <2>2. f \in Frame
    BY <2>1, <1>a DEF TypeOK, Frame
  <2>3. pc[t] = "loop" /\ UNCHANGED <<registry, waiting, asleep, arg, retired>>
    BY <1>21 DEF BeginSinkCall
  <2>4. /\ pc' = [pc EXCEPT ![t] = "user"]
        /\ phase' = [phase EXCEPT ![t] = "send"]
    BY <1>21 DEF BeginSinkCall, Goto
  <2>5. /\ calls' \in [Sink -> Nat]
        /\ threadCalls' \in [Thread -> [Sink -> Nat]]
    <3>1. calls \in [Sink -> Nat] /\ threadCalls \in [Thread -> [Sink -> Nat]]
      BY <1>a DEF TypeOK
    <3>2. calls' \in [Sink -> Nat]
      <4>1. calls[r[2]] + 1 \in Nat
        BY <2>1, <3>1
      <4>. QED BY <3>1, <4>1
    <3>3. threadCalls' \in [Thread -> [Sink -> Nat]]
      <4>1. threadCalls[t] \in [Sink -> Nat] /\ threadCalls[t][r[2]] + 1 \in Nat
        BY <2>1, <3>1
      <4>2. [threadCalls[t] EXCEPT ![r[2]] = @ + 1] \in [Sink -> Nat]
        BY <4>1
      <4>. QED BY <3>1, <4>2
    <3>. QED BY <3>2, <3>3
  <2>6. stack[t] \in Seq(Frame) /\ Len(stack[t]) < MaxDepth
    BY <2>3, <1>a DEF TypeOK, RoomForCallback
  <2>7. /\ Append(stack[t], f) \in Seq(Frame)
        /\ Len(Append(stack[t], f)) <= MaxDepth
    <3>. HIDE DEF f
    <3>1. /\ Append(stack[t], f) \in Seq(Frame)
          /\ Len(Append(stack[t], f)) = Len(stack[t]) + 1
          /\ Len(stack[t]) \in Nat
      BY <2>2, <2>6, PushFrame
    <3>. QED BY <2>6, <3>1, BoundAssumption
  <2>8. /\ stack' \in [Thread -> Seq(Frame)]
        /\ \A u \in Thread : Len(stack'[u]) <= MaxDepth
        /\ \A u \in Thread \ {t} : stack'[u] = stack[u]
    <3>1. stack' = [stack EXCEPT ![t] = Append(stack[t], f)]
      OBVIOUS
    <3>. HIDE DEF f
    <3>. QED BY <2>7, <3>1, <1>a DEF TypeOK
  <2>9. /\ pc' \in [Thread -> PC]
        /\ phase' \in [Thread -> Phase]
        /\ rest' \in [Thread -> SUBSET Registration]
    BY <2>4, <1>a DEF TypeOK, PC, Phase
  <2>10. ArgKnown' /\ RoomForCallback'
    BY <2>3, <2>4, <2>8, <1>a DEF ArgKnown, RoomForCallback, TypeOK
  <2>. QED
    BY <2>3, <2>5, <2>8, <2>9, <2>10, <1>a DEF TypeOK, registry
<1>. QED
  BY <1>1, <1>2, <1>3, <1>4, <1>5, <1>6, <1>7, <1>8, <1>9, <1>10, <1>11, <1>12,
     <1>13, <1>14, <1>15, <1>16, <1>17, <1>18, <1>19, <1>20, <1>21
     DEF LibraryStep, UserStep

-----------------------------------------------------------------------------
\* A step that touches neither the callbacks, nor the counts, nor who waits
\* inside a callback keeps the counts right.
LEMMA SameCalls ==
  ASSUME CountsMatchCalls,
         UNCHANGED <<stack, calls, threadCalls, waiting>>,
         \A u \in Thread, s \in Sink : WaitsInside(u, s)' <=> WaitsInside(u, s)
  PROVE  CountsMatchCalls'
<1>1. ASSUME NEW s \in Sink
      PROVE  /\ Active(s)' = Active(s)
             /\ \A t \in Thread : CallsOf(t, s)' = CallsOf(t, s)
  BY DEF Active, CallsOf
<1>2. ASSUME NEW s \in Sink
      PROVE  WaitingCalls(s)' = WaitingCalls(s)
  BY <1>1 DEF WaitingCalls, Active
<1>. QED BY <1>1, <1>2 DEF CountsMatchCalls

\* Beginning a call adds one element to the calls of one sink.
LEMMA BeginCounts ==
  ASSUME IInv, NEW t \in Thread, BeginSinkCall(t)
  PROVE  CountsMatchCalls'
<1>. USE DEF IInv
<1>. PICK r \in rest[t] :
       /\ calls' = [calls EXCEPT ![r[2]] = @ + 1]
       /\ threadCalls' = [threadCalls EXCEPT ![t][r[2]] = @ + 1]
       /\ stack' = [stack EXCEPT ![t] =
            Append(@, [sink |-> r[2], rest |-> rest[t] \ {r},
                       phase |-> phase[t]])]
  BY DEF BeginSinkCall
<1>. DEFINE s == r[2]
            f == [sink |-> s, rest |-> rest[t] \ {r}, phase |-> phase[t]]
            n == Len(stack[t]) + 1
<1>1. TypeOK /\ s \in Sink /\ f \in Frame /\ f.sink = s
  <2>1. TypeOK
    OBVIOUS
  <2>2. rest[t] \in SUBSET Registration /\ phase[t] \in Phase
    BY <2>1 DEF TypeOK
  <2>3. r[2] \in Sink /\ rest[t] \ {r} \in SUBSET Registration
    BY <2>2 DEF Registration
  <2>. QED BY <2>1, <2>2, <2>3 DEF Frame
<1>2. /\ pc[t] = "loop"
      /\ pc' = [pc EXCEPT ![t] = "user"]
      /\ waiting' = waiting
      /\ arg' = arg
  BY DEF BeginSinkCall, Goto
<1>3. stack[t] \in Seq(Frame) /\ Len(stack[t]) < MaxDepth
  BY <1>1, <1>2 DEF TypeOK, RoomForCallback
<1>. HIDE DEF f
<1>4. /\ \A i \in 1 .. Len(stack[t]) : Append(stack[t], f)[i] = stack[t][i]
      /\ Append(stack[t], f)[n] = f
      /\ DOMAIN Append(stack[t], f) = 1 .. n
      /\ DOMAIN stack[t] = 1 .. Len(stack[t])
      /\ Len(stack[t]) \in Nat
  BY <1>1, <1>3, PushFrame
<1>5. stack' = [stack EXCEPT ![t] = Append(stack[t], f)]
  BY DEF f
<1>6. /\ stack'[t] = Append(stack[t], f)
      /\ \A u \in Thread \ {t} : stack'[u] = stack[u]
  BY <1>1, <1>5 DEF TypeOK
<1>. HIDE DEF s
<1>7. /\ CallsOf(t, s)' = CallsOf(t, s) \cup {n}
      /\ n \notin CallsOf(t, s)
  BY <1>1, <1>4, <1>6 DEF CallsOf
<1>8. \A q \in Sink \ {s} : CallsOf(t, q)' = CallsOf(t, q)
  BY <1>1, <1>4, <1>6 DEF CallsOf
<1>9. \A u \in Thread \ {t}, q \in Sink : CallsOf(u, q)' = CallsOf(u, q)
  BY <1>6 DEF CallsOf
<1>10. /\ Active(s)' = Active(s) \cup {<<t, n>>}
       /\ <<t, n>> \notin Active(s)
  <2>1. n \in 1 .. MaxDepth
    BY <1>3, <1>4, BoundAssumption
  <2>. HIDE DEF n
  <2>. QED BY <1>1, <1>7, <1>9, <2>1 DEF Active
<1>11. \A q \in Sink \ {s} : Active(q)' = Active(q)
  BY <1>8, <1>9 DEF Active
<1>12. /\ ~WaitsInside(t, s) /\ ~WaitsInside(t, s)'
       /\ \A u \in Thread, q \in Sink : WaitsInside(u, q)' <=> WaitsInside(u, q)
  BY <1>1, <1>2 DEF WaitsInside, TypeOK
<1>13. \A q \in Sink : WaitingCalls(q)' = WaitingCalls(q)
  BY <1>10, <1>11, <1>12 DEF WaitingCalls, Active
<1>14. /\ calls'[s] = calls[s] + 1
       /\ \A q \in Sink \ {s} : calls'[q] = calls[q]
       /\ threadCalls'[t][s] = threadCalls[t][s] + 1
       /\ \A q \in Sink \ {s} : threadCalls'[t][q] = threadCalls[t][q]
       /\ \A u \in Thread \ {t} : threadCalls'[u] = threadCalls[u]
  BY <1>1 DEF TypeOK, s
<1>15. /\ Cardinality(Active(s)') = Cardinality(Active(s)) + 1
       /\ Cardinality(CallsOf(t, s)') = Cardinality(CallsOf(t, s)) + 1
  <2>. HIDE DEF n
  <2>1. IsFiniteSet(Active(s)) /\ IsFiniteSet(CallsOf(t, s))
    BY <1>1, CallSetsFinite
  <2>2. Cardinality(Active(s) \cup {<<t, n>>}) = Cardinality(Active(s)) + 1
    BY <1>10, <2>1, FS_AddElement
  <2>3. Cardinality(CallsOf(t, s) \cup {n}) = Cardinality(CallsOf(t, s)) + 1
    BY <1>7, <2>1, FS_AddElement
  <2>. QED BY <1>7, <1>10, <2>2, <2>3
<1>. HIDE DEF n
<1>16. \A q \in Sink : calls'[q] = Cardinality(Active(q)')
  BY <1>11, <1>14, <1>15 DEF CountsMatchCalls
<1>17. \A q \in Sink : waiting'[q] = Cardinality(WaitingCalls(q)')
  BY <1>2, <1>13 DEF CountsMatchCalls
<1>18. \A q \in Sink, u \in Thread :
         threadCalls'[u][q] = Cardinality(CallsOf(u, q)')
  BY <1>8, <1>9, <1>14, <1>15 DEF CountsMatchCalls
<1>. QED BY <1>16, <1>17, <1>18 DEF CountsMatchCalls

\* Ending a call takes one element from the calls of one sink.
LEMMA EndCounts ==
  ASSUME IInv, NEW t \in Thread, EndSinkCall(t) \/ ThrowFromCallback(t)
  PROVE  CountsMatchCalls'
<1>. USE DEF IInv
<1>0. TypeOK /\ InCallback(t)
  BY DEF EndSinkCall, ThrowFromCallback
<1>. PICK s \in Sink, n \in Nat : s = Top(t).sink /\ n = Len(stack[t])
  <2>1. Top(t).sink \in Sink
    BY <1>0, TopIsCounted
  <2>2. stack[t] \in Seq(Frame)
    BY <1>0 DEF TypeOK
  <2>3. Len(stack[t]) \in Nat
    BY <2>2, LenProperties
  <2>. QED BY <2>1, <2>3
<1>1. /\ InCallback(t)
      /\ pc[t] = "user"
      /\ CountEndOfCall(t, s)
      /\ stack' = [stack EXCEPT ![t] = Pop(@)]
      /\ pc' \in {pc, [pc EXCEPT ![t] = "loop"]}
      /\ waiting' = waiting
      /\ arg' = arg
  BY DEF EndSinkCall, ThrowFromCallback, Goto, InUserCode
<1>2. /\ s \in Sink
      /\ n \in CallsOf(t, s)
      /\ <<t, n>> \in Active(s)
  BY <1>0, <1>1, TopIsCounted
<1>3. stack[t] \in Seq(Frame) /\ stack[t] # <<>>
  BY <1>0, <1>1 DEF TypeOK, InCallback
<1>4. /\ \A i \in 1 .. n - 1 : Pop(stack[t])[i] = stack[t][i]
      /\ DOMAIN Pop(stack[t]) = 1 .. n - 1
      /\ DOMAIN stack[t] = 1 .. n
      /\ n \in Nat \ {0}
      /\ stack[t][n].sink = s
  BY <1>3, PopFrame DEF Top
<1>5. /\ stack'[t] = Pop(stack[t])
      /\ \A u \in Thread \ {t} : stack'[u] = stack[u]
  BY <1>0, <1>1 DEF TypeOK
<1>6. CallsOf(t, s)' = CallsOf(t, s) \ {n}
  BY <1>4, <1>5 DEF CallsOf
<1>7. \A q \in Sink \ {s} : CallsOf(t, q)' = CallsOf(t, q)
  BY <1>4, <1>5 DEF CallsOf
<1>8. \A u \in Thread \ {t}, q \in Sink : CallsOf(u, q)' = CallsOf(u, q)
  BY <1>5 DEF CallsOf
<1>9. Active(s)' = Active(s) \ {<<t, n>>}
  BY <1>2, <1>6, <1>8 DEF Active
<1>10. \A q \in Sink \ {s} : Active(q)' = Active(q)
  BY <1>7, <1>8 DEF Active
<1>11. /\ ~WaitsInside(t, s) /\ ~WaitsInside(t, s)'
       /\ \A u \in Thread, q \in Sink : WaitsInside(u, q)' <=> WaitsInside(u, q)
  BY <1>0, <1>1 DEF WaitsInside, TypeOK
<1>12. \A q \in Sink : WaitingCalls(q)' = WaitingCalls(q)
  BY <1>9, <1>10, <1>11 DEF WaitingCalls, Active
<1>13. /\ calls'[s] = calls[s] - 1
       /\ \A q \in Sink \ {s} : calls'[q] = calls[q]
       /\ threadCalls'[t][s] = threadCalls[t][s] - 1
       /\ \A q \in Sink \ {s} : threadCalls'[t][q] = threadCalls[t][q]
       /\ \A u \in Thread \ {t} : threadCalls'[u] = threadCalls[u]
  BY <1>0, <1>1, <1>2 DEF TypeOK, CountEndOfCall
<1>14. /\ Cardinality(Active(s)') = Cardinality(Active(s)) - 1
       /\ Cardinality(CallsOf(t, s)') = Cardinality(CallsOf(t, s)) - 1
  <2>1. IsFiniteSet(Active(s)) /\ IsFiniteSet(CallsOf(t, s))
    BY <1>0, <1>2, CallSetsFinite
  <2>2. Cardinality(Active(s) \ {<<t, n>>}) = Cardinality(Active(s)) - 1
    BY <1>2, <2>1, FS_RemoveElement
  <2>3. Cardinality(CallsOf(t, s) \ {n}) = Cardinality(CallsOf(t, s)) - 1
    BY <1>2, <2>1, FS_RemoveElement
  <2>. QED BY <1>6, <1>9, <2>2, <2>3
<1>15. \A q \in Sink : calls'[q] = Cardinality(Active(q)')
  BY <1>10, <1>13, <1>14 DEF CountsMatchCalls
<1>16. \A q \in Sink : waiting'[q] = Cardinality(WaitingCalls(q)')
  BY <1>1, <1>12 DEF CountsMatchCalls
<1>17. \A q \in Sink, u \in Thread :
         threadCalls'[u][q] = Cardinality(CallsOf(u, q)')
  BY <1>7, <1>8, <1>13, <1>14 DEF CountsMatchCalls
<1>. QED BY <1>15, <1>16, <1>17 DEF CountsMatchCalls

\* Announcing the calls of t as waiting, and taking that back.
LEMMA WaitInsideCounts ==
  ASSUME TypeOK, CountsMatchCalls, NEW t \in Thread, NEW s \in Sink,
         UNCHANGED <<stack, calls, threadCalls>>,
         \A u \in Thread, q \in Sink :
           <<u, q>> # <<t, s>> => (WaitsInside(u, q)' <=> WaitsInside(u, q)),
         \/ /\ ~WaitsInside(t, s)
            /\ WaitsInside(t, s)'
            /\ waiting' = [waiting EXCEPT ![s] = @ + threadCalls[t][s]]
         \/ /\ WaitsInside(t, s)
            /\ ~WaitsInside(t, s)'
            /\ waiting' = [waiting EXCEPT ![s] = @ - threadCalls[t][s]]
  PROVE  CountsMatchCalls'
<1>. DEFINE own == {t} \X CallsOf(t, s)
<1>1. \A q \in Sink : /\ Active(q)' = Active(q)
                      /\ \A u \in Thread : CallsOf(u, q)' = CallsOf(u, q)
  BY DEF Active, CallsOf
<1>2. \A q \in Sink \ {s} : WaitingCalls(q)' = WaitingCalls(q)
  BY <1>1 DEF WaitingCalls, Active
<1>3. /\ own = {c \in Active(s) : c[1] = t}
      /\ IsFiniteSet(own)
      /\ Cardinality(own) = threadCalls[t][s]
  BY OwnCalls DEF CountsMatchCalls
<1>4. IsFiniteSet(WaitingCalls(s)) /\ Cardinality(WaitingCalls(s)) = waiting[s]
  BY CallSetsFinite DEF CountsMatchCalls
<1>. HIDE DEF own
<1>5. waiting'[s] = Cardinality(WaitingCalls(s)')
  <2>1. CASE ~WaitsInside(t, s) /\ WaitsInside(t, s)'
    <3>1. WaitingCalls(s)' = WaitingCalls(s) \cup own
      BY <1>1, <1>3, <2>1 DEF WaitingCalls, Active
    <3>2. WaitingCalls(s) \cap own = {}
      BY <1>3, <2>1 DEF WaitingCalls
    <3>3. waiting'[s] = waiting[s] + threadCalls[t][s]
      BY <2>1 DEF TypeOK
    <3>4. Cardinality(WaitingCalls(s) \cap own) = 0
      BY <3>2, FS_EmptySet
    <3>5. Cardinality(WaitingCalls(s) \cup own)
            = Cardinality(WaitingCalls(s)) + Cardinality(own) - 0
      BY <1>3, <1>4, <3>4, FS_Union
    <3>6. Cardinality(WaitingCalls(s)) \in Nat /\ Cardinality(own) \in Nat
      BY <1>3, <1>4, FS_CardinalityType
    <3>. QED BY <1>3, <1>4, <3>1, <3>3, <3>5, <3>6
  <2>2. CASE WaitsInside(t, s) /\ ~WaitsInside(t, s)'
    <3>1. WaitingCalls(s)' = WaitingCalls(s) \ own
      BY <1>1, <1>3, <2>2 DEF WaitingCalls, Active
    <3>2. WaitingCalls(s) \cap own = own
      BY <1>3, <2>2 DEF WaitingCalls
    <3>3. waiting'[s] = waiting[s] - threadCalls[t][s]
      BY <2>2 DEF TypeOK
    <3>4. Cardinality(WaitingCalls(s) \ own)
            = Cardinality(WaitingCalls(s)) - Cardinality(own)
      BY <1>4, <3>2, FS_Difference
    <3>. QED BY <1>3, <1>4, <3>1, <3>3, <3>4
  <2>. QED BY <2>1, <2>2
<1>6. \A q \in Sink \ {s} : waiting'[q] = waiting[q]
  BY DEF TypeOK
<1>. QED BY <1>1, <1>2, <1>5, <1>6 DEF CountsMatchCalls

\* Every step keeps the counts right.
LEMMA CountsStep ==
  ASSUME IInv, [Next]_vars
  PROVE  CountsMatchCalls'
<1>a. TypeOK /\ ArgKnown /\ CountsMatchCalls
  BY DEF IInv
<1>. CASE UNCHANGED vars
  BY <1>a, SameCalls DEF vars, control, counts, WaitsInside
<1>. SUFFICES ASSUME NEW t \in Thread,
                     LibraryStep(t) \/ UserStep(t) \/ SpuriousWakeup(t)
              PROVE  CountsMatchCalls'
  BY DEF Next
\* The steps that neither call, nor wait inside a callback.
<1>1. CASE \/ AddStore(t) \/ RemoveStore(t) \/ WaitForSinkCallsOutside(t)
           \/ LeaveWaitOutside(t) \/ WaitForSinks(t) \/ GetSinks(t)
           \/ EndLoop(t) \/ DeleteStore(t) \/ WaitForAllSinkCalls(t)
           \/ LeaveWaitAll(t) \/ LogMessage(t) \/ DeleteLogDestinations(t)
           \/ \E s \in Sink : AddLogSink(t, s) \/ RemoveLogSink(t, s)
  <2>1. UNCHANGED <<stack, calls, threadCalls, waiting>>
    BY <1>1 DEF AddStore, RemoveStore, WaitForSinkCallsOutside,
       LeaveWaitOutside, WaitForSinks, GetSinks, EndLoop, DeleteStore,
       WaitForAllSinkCalls, LeaveWaitAll, LogMessage, DeleteLogDestinations,
       AddLogSink, RemoveLogSink, counts
  <2>2. /\ pc[t] # "waitIn" /\ pc'[t] # "waitIn"
        /\ \A u \in Thread \ {t} : pc'[u] = pc[u] /\ arg'[u] = arg[u]
    <3>1. /\ pc[t] # "waitIn"
          /\ \E l \in PC \ {"waitIn"} : pc' = [pc EXCEPT ![t] = l]
      BY <1>1 DEF AddStore, RemoveStore, WaitForSinkCallsOutside,
         LeaveWaitOutside, WaitForSinks, GetSinks, EndLoop, DeleteStore,
         WaitForAllSinkCalls, LeaveWaitAll, LogMessage, DeleteLogDestinations,
         AddLogSink, RemoveLogSink, ReturnFromRemove, Goto, PC, InUserCode
    <3>2. arg' = arg \/ \E s \in Sink \cup {NoSink} : arg' = [arg EXCEPT ![t] = s]
      BY <1>1 DEF AddStore, RemoveStore, WaitForSinkCallsOutside,
         LeaveWaitOutside, WaitForSinks, GetSinks, EndLoop, DeleteStore,
         WaitForAllSinkCalls, LeaveWaitAll, LogMessage, DeleteLogDestinations,
         AddLogSink, RemoveLogSink, ReturnFromRemove
    <3>. QED BY <1>a, <3>1, <3>2 DEF TypeOK
  <2>3. \A u \in Thread, s \in Sink : WaitsInside(u, s)' <=> WaitsInside(u, s)
    BY <2>2 DEF WaitsInside
  <2>. QED BY <1>a, <2>1, <2>3, SameCalls
<1>2. CASE SleepOn(t) \/ SkipRemovedSink(t) \/ SpuriousWakeup(t)
  <2>1. UNCHANGED <<stack, calls, threadCalls, waiting, pc, arg>>
    BY <1>2 DEF SleepOn, SkipRemovedSink, SpuriousWakeup, counts, control
  <2>. QED BY <1>a, <2>1, SameCalls DEF WaitsInside
<1>3. CASE BeginSinkCall(t)
  BY <1>3, BeginCounts
<1>4. CASE EndSinkCall(t) \/ ThrowFromCallback(t)
  BY <1>4, EndCounts
<1>5. CASE WaitForSinkCallsInside(t)
  <2>. PICK s \in Sink : s = arg[t]
    BY <1>5, <1>a DEF WaitForSinkCallsInside, ArgKnown
  <2>1. /\ UNCHANGED <<stack, calls, threadCalls>>
        /\ pc[t] = "count"
    BY <1>5 DEF WaitForSinkCallsInside
  <2>2. CASE /\ pc' = [pc EXCEPT ![t] = "user"]
             /\ arg' = [arg EXCEPT ![t] = NoSink]
             /\ waiting' = waiting
    <3>1. \A u \in Thread, q \in Sink : WaitsInside(u, q)' <=> WaitsInside(u, q)
      BY <1>a, <2>1, <2>2 DEF WaitsInside, TypeOK
    <3>. QED BY <1>a, <2>1, <2>2, <3>1, SameCalls
  <2>3. CASE /\ pc' = [pc EXCEPT ![t] = "waitIn"]
             /\ arg' = arg
             /\ waiting' = [waiting EXCEPT ![s] = @ + threadCalls[t][s]]
    <3>1. \A u \in Thread, q \in Sink :
            <<u, q>> # <<t, s>> => (WaitsInside(u, q)' <=> WaitsInside(u, q))
      BY <1>a, <2>1, <2>3 DEF WaitsInside, TypeOK
    <3>2. ~WaitsInside(t, s) /\ WaitsInside(t, s)'
      BY <1>a, <2>1, <2>3 DEF WaitsInside, TypeOK
    <3>. QED BY <1>a, <2>1, <2>3, <3>1, <3>2, WaitInsideCounts
  <2>. QED
    BY <1>5, <2>2, <2>3 DEF WaitForSinkCallsInside, ReturnFromRemove, Goto
<1>6. CASE LeaveWaitInside(t)
  <2>. PICK s \in Sink : s = arg[t]
    BY <1>6, <1>a DEF LeaveWaitInside, ArgKnown
  <2>1. /\ UNCHANGED <<stack, calls, threadCalls>>
        /\ pc[t] = "waitIn"
        /\ pc' = [pc EXCEPT ![t] = "user"]
        /\ arg' = [arg EXCEPT ![t] = NoSink]
        /\ waiting' = [waiting EXCEPT ![s] = @ - threadCalls[t][s]]
    BY <1>6 DEF LeaveWaitInside, ReturnFromRemove, Goto
  <2>2. \A u \in Thread, q \in Sink :
          <<u, q>> # <<t, s>> => (WaitsInside(u, q)' <=> WaitsInside(u, q))
    BY <1>a, <2>1 DEF WaitsInside, TypeOK
  <2>3. WaitsInside(t, s) /\ ~WaitsInside(t, s)'
    BY <1>a, <2>1 DEF WaitsInside, TypeOK
  <2>. QED BY <1>a, <2>1, <2>2, <2>3, WaitInsideCounts
<1>. QED
  BY <1>1, <1>2, <1>3, <1>4, <1>5, <1>6 DEF LibraryStep, UserStep

-----------------------------------------------------------------------------
\* The counts tell when nobody calls a sink, they bound each other, and when
\* they agree the sets of calls do.
LEMMA CountFacts ==
  ASSUME TypeOK, CountsMatchCalls, NEW s \in Sink
  PROVE  /\ Active(s) = {} <=> calls[s] = 0
         /\ waiting[s] <= calls[s]
         /\ calls[s] = waiting[s] => Active(s) = WaitingCalls(s)
         /\ \A t \in Thread : threadCalls[t][s] <= calls[s]
         /\ \A t \in Thread : threadCalls[t][s] = 0 <=> CallsOf(t, s) = {}
<1>1. /\ IsFiniteSet(Active(s))
      /\ \A t \in Thread : IsFiniteSet(CallsOf(t, s))
  BY CallSetsFinite
<1>2. Active(s) = {} <=> calls[s] = 0
  BY <1>1, FS_EmptySet DEF CountsMatchCalls
<1>3. WaitingCalls(s) \in SUBSET Active(s)
  BY DEF WaitingCalls
<1>4. /\ Cardinality(WaitingCalls(s)) <= Cardinality(Active(s))
      /\ Cardinality(Active(s)) = Cardinality(WaitingCalls(s))
           => Active(s) = WaitingCalls(s)
  BY <1>1, <1>3, FS_Subset
<1>5. ASSUME NEW t \in Thread
      PROVE  threadCalls[t][s] <= calls[s]
  <2>1. {t} \X CallsOf(t, s) \in SUBSET Active(s)
    BY OwnCalls
  <2>2. Cardinality({t} \X CallsOf(t, s)) <= Cardinality(Active(s))
    BY <1>1, <2>1, FS_Subset
  <2>3. Cardinality({t} \X CallsOf(t, s)) = Cardinality(CallsOf(t, s))
    BY OwnCalls
  <2>. QED BY <2>2, <2>3 DEF CountsMatchCalls
<1>6. ASSUME NEW t \in Thread
      PROVE  threadCalls[t][s] = 0 <=> CallsOf(t, s) = {}
  BY <1>1, FS_EmptySet DEF CountsMatchCalls
<1>. QED BY <1>2, <1>4, <1>5, <1>6 DEF CountsMatchCalls

\* A sink nobody calls before and after the step stays silent.
LEMMA RetiredStep ==
  ASSUME IInv, [Next]_vars, TypeOK', CountsMatchCalls'
  PROVE  RetiredSinksAreNotCalled'
<1>a. TypeOK /\ ArgKnown /\ CountsMatchCalls /\ RetiredSinksAreNotCalled
  BY DEF IInv
<1>b. \A s \in retired : s \in Sink /\ s \notin Registered /\ calls[s] = 0
  BY <1>a, CountFacts DEF RetiredSinksAreNotCalled, TypeOK
<1>c. ASSUME NEW s \in Sink, calls'[s] = 0
      PROVE  Active(s)' = {}
  <2>1. IsFiniteSet(Active(s)')
    <3>1. IsFiniteSet(1 .. MaxDepth)
      BY FS_Interval, BoundAssumption
    <3>2. IsFiniteSet(Thread \X (1 .. MaxDepth))
      BY <3>1, ThreadAssumption, FS_Product
    <3>. QED BY <3>2, FS_Subset DEF Active
  <2>2. Cardinality(Active(s)') = 0
    BY <1>c DEF CountsMatchCalls
  <2>. QED BY <2>1, <2>2, FS_EmptySet
<1>. SUFFICES ASSUME NEW s \in retired'
              PROVE  s \notin Registered' /\ calls'[s] = 0
  BY <1>c DEF RetiredSinksAreNotCalled, TypeOK
<1>. CASE UNCHANGED vars
  BY <1>b DEF vars, registry, counts, Registered
<1>. SUFFICES ASSUME NEW t \in Thread,
                     LibraryStep(t) \/ UserStep(t) \/ SpuriousWakeup(t)
              PROVE  s \notin Registered' /\ calls'[s] = 0
  BY DEF Next
\* The steps that leave the registry and the counts alone.
<1>1. CASE /\ UNCHANGED <<sinks, calls, retired>>
  BY <1>1, <1>b DEF Registered
\* The steps that retire sinks.
<1>2. CASE WaitForSinkCallsOutside(t) \/ LeaveWaitOutside(t)
  <2>1. UNCHANGED <<sinks, calls>>
    BY <1>2 DEF WaitForSinkCallsOutside, LeaveWaitOutside, registry, counts
  <2>2. \/ retired' = retired
        \/ /\ retired' = retired \cup ({arg[t]} \ Registered)
           /\ calls[arg[t]] = 0
    BY <1>2 DEF WaitForSinkCallsOutside, LeaveWaitOutside, Retire, Ready,
       AllCallsEnded
  <2>. QED BY <1>b, <2>1, <2>2 DEF Registered
<1>3. CASE WaitForAllSinkCalls(t) \/ LeaveWaitAll(t)
  <2>1. UNCHANGED <<sinks, calls>>
    BY <1>3 DEF WaitForAllSinkCalls, LeaveWaitAll, registry, counts
  <2>2. \/ retired' = retired
        \/ /\ retired' = retired \cup (NotCalledBy(t) \ Registered)
           /\ OnlyOwnCallsLeft(t)
    BY <1>3 DEF WaitForAllSinkCalls, LeaveWaitAll, Retire, Ready
  <2>. QED
    BY <1>b, <2>1, <2>2 DEF Registered, NotCalledBy, OnlyOwnCallsLeft
\* The steps that change the list.
<1>4. CASE \E q \in Sink : AddLogSink(t, q)
  BY <1>4, <1>b DEF AddLogSink, Registered, counts
<1>5. CASE \E q \in Sink : RemoveLogSink(t, q)
  BY <1>5, <1>b DEF RemoveLogSink, Registered, counts
<1>6. CASE DeleteLogDestinations(t)
  BY <1>6, <1>b DEF DeleteLogDestinations, Registered, counts
\* The steps that change the counts.
<1>7. CASE BeginSinkCall(t)
  <2>. PICK r \in rest[t] :
         /\ r[2] \in Registered
         /\ calls' = [calls EXCEPT ![r[2]] = @ + 1]
    BY <1>7 DEF BeginSinkCall
  <2>1. UNCHANGED <<sinks, retired>>
    BY <1>7 DEF BeginSinkCall, registry
  <2>2. s \in Sink /\ s # r[2] /\ calls[s] = 0
    BY <1>b, <2>1
  <2>. QED BY <1>a, <1>b, <2>1, <2>2 DEF TypeOK, Registered
<1>8. CASE EndSinkCall(t) \/ ThrowFromCallback(t)
  <2>1. /\ InCallback(t)
        /\ calls' = [calls EXCEPT ![Top(t).sink] = @ - 1]
        /\ UNCHANGED <<sinks, retired>>
    BY <1>8 DEF EndSinkCall, ThrowFromCallback, CountEndOfCall, registry
  <2>2. calls[Top(t).sink] > 0
    BY <1>a, <2>1, TopIsCounted
  <2>3. s \in Sink /\ calls[s] = 0
    BY <1>b, <2>1
  <2>4. s # Top(t).sink
    BY <2>2, <2>3
  <2>. QED BY <1>a, <1>b, <2>1, <2>3, <2>4 DEF TypeOK, Registered
<1>9. CASE \/ AddStore(t) \/ RemoveStore(t) \/ WaitForSinkCallsInside(t)
           \/ SleepOn(t) \/ LeaveWaitInside(t) \/ WaitForSinks(t) \/ GetSinks(t)
           \/ SkipRemovedSink(t) \/ EndLoop(t) \/ DeleteStore(t)
           \/ LogMessage(t) \/ SpuriousWakeup(t)
  BY <1>1, <1>9 DEF AddStore, RemoveStore, WaitForSinkCallsInside, SleepOn,
     LeaveWaitInside, WaitForSinks, GetSinks, SkipRemovedSink, EndLoop,
     DeleteStore, LogMessage, SpuriousWakeup, registry, counts
<1>. QED
  BY <1>2, <1>3, <1>4, <1>5, <1>6, <1>7, <1>8, <1>9 DEF LibraryStep, UserStep

-----------------------------------------------------------------------------
\* No step makes a predicate true behind the back of a sleeper.
LEMMA WakeupStep ==
  ASSUME IInv, [Next]_vars
  PROVE  NoLostWakeup'
<1>a. TypeOK /\ ArgKnown /\ CountsMatchCalls /\ NoLostWakeup
  BY DEF IInv
\* A thread sleeps in one of the three waits, and its predicate is false.
<1>b. ASSUME NEW u \in asleep
      PROVE  /\ u \in Thread
             /\ \/ pc[u] = "waitOut" /\ arg[u] \in Sink /\ calls[arg[u]] # 0
                \/ /\ pc[u] = "waitIn" /\ arg[u] \in Sink
                   /\ calls[arg[u]] # waiting[arg[u]]
                \/ /\ pc[u] = "waitAll"
                   /\ \E q \in Sink : calls[q] # threadCalls[u][q]
  BY <1>a DEF NoLostWakeup, Ready, AllCallsEnded, OnlyWaitersLeft,
     OnlyOwnCallsLeft, ArgKnown, TypeOK
<1>. CASE UNCHANGED vars
  BY <1>a DEF NoLostWakeup, Ready, AllCallsEnded, OnlyWaitersLeft,
     OnlyOwnCallsLeft, vars, counts, control
<1>. SUFFICES ASSUME NEW t \in Thread,
                     LibraryStep(t) \/ UserStep(t) \/ SpuriousWakeup(t)
              PROVE  NoLostWakeup'
  BY DEF Next
\* A step of t that leaves the counts alone and puts nobody to sleep.
<1>c. ASSUME UNCHANGED <<calls, threadCalls, waiting>>,
             asleep' \subseteq asleep,
             \A u \in asleep' : pc'[u] = pc[u] /\ arg'[u] = arg[u]
      PROVE  NoLostWakeup'
  BY <1>a, <1>c DEF NoLostWakeup, Ready, AllCallsEnded, OnlyWaitersLeft,
     OnlyOwnCallsLeft
<1>1. CASE \/ AddStore(t) \/ RemoveStore(t) \/ LeaveWaitOutside(t)
           \/ WaitForSinks(t) \/ GetSinks(t) \/ EndLoop(t) \/ DeleteStore(t)
           \/ LeaveWaitAll(t) \/ LogMessage(t) \/ DeleteLogDestinations(t)
           \/ \E s \in Sink : AddLogSink(t, s) \/ RemoveLogSink(t, s)
  <2>1. UNCHANGED <<calls, threadCalls, waiting, asleep>>
    BY <1>1 DEF AddStore, RemoveStore, LeaveWaitOutside, WaitForSinks, GetSinks,
       EndLoop, DeleteStore, LeaveWaitAll, LogMessage, DeleteLogDestinations,
       AddLogSink, RemoveLogSink, counts
  <2>2. t \notin asleep
    <3>1. \/ t \notin asleep
          \/ pc[t] \in {"addStore", "removeStore", "recheck", "get", "loop",
                        "deleteStore", "user"}
      BY <1>1 DEF AddStore, RemoveStore, LeaveWaitOutside, WaitForSinks,
         GetSinks, EndLoop, DeleteStore, LeaveWaitAll, LogMessage,
         DeleteLogDestinations, AddLogSink, RemoveLogSink, InUserCode
    <3>. QED BY <1>b, <3>1
  <2>3. /\ \E l \in PC : pc' = [pc EXCEPT ![t] = l]
        /\ arg' = arg \/ \E s \in Sink \cup {NoSink} : arg' = [arg EXCEPT ![t] = s]
    BY <1>1 DEF AddStore, RemoveStore, LeaveWaitOutside, WaitForSinks, GetSinks,
       EndLoop, DeleteStore, LeaveWaitAll, LogMessage, DeleteLogDestinations,
       AddLogSink, RemoveLogSink, ReturnFromRemove, Goto, PC
  <2>4. \A u \in Thread \ {t} : pc'[u] = pc[u] /\ arg'[u] = arg[u]
    BY <1>a, <2>3 DEF TypeOK
  <2>. QED BY <1>b, <1>c, <2>1, <2>2, <2>4
<1>2. CASE SkipRemovedSink(t) \/ SpuriousWakeup(t)
  BY <1>2, <1>c DEF SkipRemovedSink, SpuriousWakeup, counts, control
<1>3. CASE EndSinkCall(t) \/ ThrowFromCallback(t)
  BY <1>3 DEF EndSinkCall, ThrowFromCallback, CountEndOfCall, NoLostWakeup
\* The steps that put t to sleep do so when its predicate is false.
<1>4. CASE SleepOn(t)
  BY <1>4, <1>a DEF SleepOn, NoLostWakeup, Ready, AllCallsEnded, control,
     OnlyWaitersLeft, OnlyOwnCallsLeft
<1>5. CASE WaitForSinkCallsOutside(t) \/ WaitForAllSinkCalls(t)
  <2>1. /\ UNCHANGED <<calls, threadCalls, waiting>>
        /\ pc[t] \in {"count", "countAll"}
        /\ \E l \in PC : pc' = [pc EXCEPT ![t] = l]
        /\ arg' = arg \/ arg' = [arg EXCEPT ![t] = NoSink]
    BY <1>5 DEF WaitForSinkCallsOutside, WaitForAllSinkCalls, Goto, PC,
       ReturnFromRemove
  <2>2. t \notin asleep
    BY <1>b, <2>1
  <2>3. \A u \in Thread \ {t} : pc'[u] = pc[u] /\ arg'[u] = arg[u]
    BY <1>a, <2>1 DEF TypeOK
  <2>4. \/ asleep' = asleep
        \/ /\ asleep' = asleep \cup {t}
           /\ pc'[t] = "waitOut" /\ arg' = arg /\ calls[arg[t]] # 0
        \/ /\ asleep' = asleep \cup {t}
           /\ pc'[t] = "waitAll" /\ ~OnlyOwnCallsLeft(t)
    BY <1>5, <1>a DEF WaitForSinkCallsOutside, WaitForAllSinkCalls, Goto,
       AllCallsEnded, TypeOK
  <2>5. ASSUME NEW u \in asleep
        PROVE  ~Ready(u)'
    <3>1. u \in Thread \ {t} /\ ~Ready(u)
      BY <1>a, <1>b, <2>2 DEF NoLostWakeup
    <3>. QED
      BY <2>1, <2>3, <3>1 DEF Ready, AllCallsEnded, OnlyWaitersLeft,
         OnlyOwnCallsLeft
  <2>6. t \in asleep' => ~Ready(t)'
    BY <2>1, <2>2, <2>4 DEF Ready, AllCallsEnded, OnlyOwnCallsLeft
  <2>. QED BY <2>4, <2>5, <2>6 DEF NoLostWakeup
<1>6. CASE WaitForSinkCallsInside(t)
  <2>1. \/ asleep' = {}
        \/ /\ asleep' = {t}
           /\ pc'[t] = "waitIn"
           /\ arg' = arg
           /\ calls[arg[t]] # waiting'[arg[t]]
           /\ calls' = calls
    <3>1. arg[t] \in Sink
      BY <1>6, <1>a DEF WaitForSinkCallsInside, ArgKnown
    <3>. QED
      BY <1>6, <1>a, <3>1 DEF WaitForSinkCallsInside, Goto, TypeOK
  <2>. QED BY <2>1 DEF NoLostWakeup, Ready, OnlyWaitersLeft
\* waiting goes down, but then nobody sleeps inside a callback of that sink.
<1>7. CASE LeaveWaitInside(t)
  <2>. PICK s \in Sink : s = arg[t]
    BY <1>7, <1>a DEF LeaveWaitInside, ArgKnown
  <2>1. /\ UNCHANGED <<calls, threadCalls, asleep>>
        /\ pc' = [pc EXCEPT ![t] = "user"]
        /\ arg' = [arg EXCEPT ![t] = NoSink]
        /\ waiting' = [waiting EXCEPT ![s] = @ - threadCalls[t][s]]
        /\ t \notin asleep
    BY <1>7 DEF LeaveWaitInside, ReturnFromRemove, Goto
  <2>2. calls[s] = waiting[s]
    BY <1>7 DEF LeaveWaitInside, Ready, OnlyWaitersLeft
  <2>3. \A u \in asleep : /\ pc'[u] = pc[u]
                          /\ arg'[u] = arg[u]
                          /\ pc[u] = "waitIn" => arg[u] # s
    BY <1>a, <1>b, <2>1, <2>2 DEF TypeOK
  <2>4. \A q \in Sink \ {s} : waiting'[q] = waiting[q]
    BY <1>a, <2>1 DEF TypeOK
  <2>5. ASSUME NEW u \in asleep'
        PROVE  ~Ready(u)'
    BY <1>b, <2>1, <2>3, <2>4 DEF Ready, AllCallsEnded, OnlyWaitersLeft,
       OnlyOwnCallsLeft
  <2>. QED BY <2>5 DEF NoLostWakeup
\* A new call only moves the count away from what a sleeper waits for.
<1>8. CASE BeginSinkCall(t)
  <2>. PICK r \in rest[t] :
         /\ calls' = [calls EXCEPT ![r[2]] = @ + 1]
         /\ threadCalls' = [threadCalls EXCEPT ![t][r[2]] = @ + 1]
    BY <1>8 DEF BeginSinkCall
  <2>1. r[2] \in Sink
    BY <1>a DEF TypeOK, Registration
  <2>2. /\ UNCHANGED <<waiting, asleep, arg>>
        /\ pc[t] = "loop"
        /\ pc' = [pc EXCEPT ![t] = "user"]
    BY <1>8 DEF BeginSinkCall, Goto
  <2>3. \A u \in asleep : u # t /\ pc'[u] = pc[u] /\ threadCalls'[u] = threadCalls[u]
    BY <1>a, <1>b, <2>2 DEF TypeOK
  <2>4. /\ calls'[r[2]] = calls[r[2]] + 1
        /\ \A q \in Sink \ {r[2]} : calls'[q] = calls[q]
    BY <1>a, <2>1 DEF TypeOK
  <2>5. \A q \in Sink : /\ calls[q] \in Nat
                        /\ waiting[q] \in Nat
                        /\ waiting[q] <= calls[q]
                        /\ \A u \in Thread : /\ threadCalls[u][q] \in Nat
                                             /\ threadCalls[u][q] <= calls[q]
    BY <1>a, CountFacts DEF TypeOK
  <2>6. ASSUME NEW u \in asleep'
        PROVE  ~Ready(u)'
    <3>1. u \in asleep /\ u \in Thread
      BY <1>b, <2>2
    <3>2. CASE pc[u] = "waitOut"
      <4>1. arg[u] \in Sink /\ calls[arg[u]] # 0
        BY <1>b, <3>1, <3>2
      <4>2. calls'[arg[u]] # 0
        BY <2>4, <2>5, <4>1
      <4>. QED BY <2>2, <2>3, <3>1, <3>2, <4>2 DEF Ready, AllCallsEnded
    <3>3. CASE pc[u] = "waitIn"
      <4>1. arg[u] \in Sink /\ calls[arg[u]] # waiting[arg[u]]
        BY <1>b, <3>1, <3>3
      <4>2. calls'[arg[u]] # waiting[arg[u]]
        BY <2>4, <2>5, <4>1
      <4>. QED BY <2>2, <2>3, <3>1, <3>3, <4>2 DEF Ready, OnlyWaitersLeft
    <3>4. CASE pc[u] = "waitAll"
      <4>. PICK q \in Sink : calls[q] # threadCalls[u][q]
        BY <1>b, <3>1, <3>4
      <4>1. calls'[q] # threadCalls[u][q]
        BY <2>4, <2>5, <3>1
      <4>. QED BY <2>3, <3>1, <3>4, <4>1 DEF Ready, OnlyOwnCallsLeft
    <3>. QED BY <1>b, <3>1, <3>2, <3>3, <3>4
  <2>. QED BY <2>6 DEF NoLostWakeup
<1>. QED
  BY <1>1, <1>2, <1>3, <1>4, <1>5, <1>6, <1>7, <1>8 DEF LibraryStep, UserStep

-----------------------------------------------------------------------------
\* IInv is an inductive invariant.
THEOREM InductiveInvariant == Spec => []IInv
<1>1. Init => IInv
  <2>. SUFFICES ASSUME Init PROVE IInv
    OBVIOUS
  <2>1. TypeOK
    <3>1. \A t \in Thread : Len(stack[t]) <= MaxDepth
      BY BoundAssumption DEF Init
    <3>2. stack \in [Thread -> Seq(Frame)]
      BY EmptySeq DEF Init
    <3>3. /\ calls \in [Sink -> Nat]
          /\ threadCalls \in [Thread -> [Sink -> Nat]]
          /\ waiting \in [Sink -> Nat]
          /\ pc \in [Thread -> PC]
          /\ phase \in [Thread -> Phase]
          /\ rest \in [Thread -> SUBSET Registration]
          /\ arg \in [Thread -> Sink \cup {NoSink}]
      BY DEF Init, PC, Phase
    <3>4. /\ sinks \subseteq Registration
          /\ allocated \in BOOLEAN
          /\ present \in BOOLEAN
          /\ writer \in Thread \cup {NoThread}
          /\ asleep \subseteq Thread
          /\ retired \subseteq Sink
      BY Zenon DEF Init
    <3>5. adds \in 0 .. MaxAdds
      BY BoundAssumption DEF Init
    <3>. QED
      BY <3>1, <3>2, <3>3, <3>4, <3>5 DEF TypeOK
  <2>2. ArgKnown /\ RoomForCallback /\ NoLostWakeup /\ RetiredSinksAreNotCalled
    BY DEF Init, ArgKnown, RoomForCallback, NoLostWakeup,
       RetiredSinksAreNotCalled
  <2>3. CountsMatchCalls
    <3>1. \A s \in Sink, t \in Thread : CallsOf(t, s) = {}
      BY DEF Init, CallsOf
    <3>2. \A s \in Sink : Active(s) = {} /\ WaitingCalls(s) = {}
      BY <3>1 DEF Active, WaitingCalls
    <3>. QED BY <3>1, <3>2, FS_EmptySet DEF Init, CountsMatchCalls
  <2>. QED BY <2>1, <2>2, <2>3 DEF IInv
<1>2. IInv /\ [Next]_vars => IInv'
  BY TypeStep, CountsStep, WakeupStep, RetiredStep DEF IInv
<1>. QED BY <1>1, <1>2, PTL DEF Spec

\* The variables keep their types; in particular the counts stay natural
\* numbers, although EndSinkCall and WaitForSinkCalls subtract from them.
THEOREM TypeCorrect == Spec => []TypeOK
<1>1. IInv => TypeOK
  BY DEF IInv
<1>. QED BY <1>1, InductiveInvariant, PTL

\* For any number of threads, sinks, registrations and nested callbacks the
\* counts of calls are the numbers of calls: the CHECKs of EndSinkCall hold.
THEOREM CountsAreExact == Spec => []CountsMatchCalls
<1>1. IInv => CountsMatchCalls
  BY DEF IInv
<1>. QED BY <1>1, InductiveInvariant, PTL

\* Once RemoveLogSink or ShutdownLogging returned to a thread outside of the
\* sink's callbacks, no thread is in the sink until it is registered again.
THEOREM RemovalIsFinal == Spec => []RetiredSinksAreNotCalled
<1>1. IInv => RetiredSinksAreNotCalled
  BY DEF IInv
<1>. QED BY <1>1, InductiveInvariant, PTL

\* sink_call_cond_ loses no wakeup: a thread that sleeps on it has a reason to.
THEOREM WakeupsAreNotLost == Spec => []NoLostWakeup
<1>1. IInv => NoLostWakeup
  BY DEF IInv
<1>. QED BY <1>1, InductiveInvariant, PTL

\* A removal from within a callback of the sink returns only when every other
\* call of the sink is by a thread that removes it from within a callback too.
THEOREM RemovalInsideIsSafe == Spec => RemovalInsideWaitsForOthers
<1>. DEFINE Safe(t, s) ==
       ReturnsInside(t, s) =>
         \A c \in Active(s) : c[1] = t \/ WaitsInside(c[1], s)
<1>1. IInv /\ [Next]_vars => [\A t \in Thread, s \in Sink : Safe(t, s)]_vars
  <2>. SUFFICES ASSUME IInv, Next, NEW t \in Thread, NEW s \in Sink,
                       ReturnsInside(t, s)
                PROVE  \A c \in Active(s) : c[1] = t \/ WaitsInside(c[1], s)
    OBVIOUS
  <2>0. TypeOK /\ CountsMatchCalls
    BY DEF IInv
  \* A step of another thread does not move t.
  <2>1. WaitForSinkCallsInside(t) \/ WaitForSinkCallsOutside(t) \/ LeaveWaitInside(t)
    <3>. PICK u \in Thread : LibraryStep(u) \/ UserStep(u) \/ SpuriousWakeup(u)
      BY DEF Next
    <3>1. /\ pc[t] \in {"count", "waitIn"}
          /\ pc'[t] = "user"
      BY DEF ReturnsInside
    <3>2. pc' = pc \/ \E l \in PC : pc' = [pc EXCEPT ![u] = l]
      BY DEF LibraryStep, UserStep, SpuriousWakeup, AddStore, RemoveStore,
         WaitForSinkCallsOutside, WaitForSinkCallsInside, SleepOn,
         LeaveWaitOutside, LeaveWaitInside, WaitForSinks, GetSinks,
         BeginSinkCall, SkipRemovedSink, EndLoop, DeleteStore,
         WaitForAllSinkCalls, LeaveWaitAll, AddLogSink, RemoveLogSink,
         LogMessage, EndSinkCall, ThrowFromCallback, DeleteLogDestinations,
         ReturnFromRemove, Goto, PC, control
    <3>3. u = t
      BY <2>0, <3>1, <3>2 DEF TypeOK
    <3>. QED
      BY <3>1, <3>3 DEF LibraryStep, UserStep, SpuriousWakeup, AddStore,
         RemoveStore, SleepOn, LeaveWaitOutside, WaitForSinks, GetSinks,
         BeginSinkCall, SkipRemovedSink, EndLoop, DeleteStore,
         WaitForAllSinkCalls, LeaveWaitAll, AddLogSink, RemoveLogSink,
         LogMessage, EndSinkCall, ThrowFromCallback, DeleteLogDestinations,
         InUserCode, control
  <2>2. arg[t] = s /\ CallsOf(t, s) # {}
    BY DEF ReturnsInside
  <2>3. CASE WaitForSinkCallsOutside(t)
    BY <2>0, <2>2, <2>3, CountFacts DEF WaitForSinkCallsOutside
  <2>4. CASE LeaveWaitInside(t)
    <3>1. calls[s] = waiting[s]
      BY <2>2, <2>4 DEF LeaveWaitInside, Ready, OnlyWaitersLeft
    <3>2. Active(s) = WaitingCalls(s)
      BY <2>0, <3>1, CountFacts
    <3>. QED BY <3>2 DEF WaitingCalls
  <2>5. CASE WaitForSinkCallsInside(t)
    \* The calls of the waiters and those of t are all there are.
    <3>. DEFINE own == {t} \X CallsOf(t, s)
                both == WaitingCalls(s) \cup own
    <3>1. pc[t] = "count" /\ calls[s] = waiting[s] + threadCalls[t][s]
      <4>1. pc[t] = "count" /\ pc'[t] # "waitIn"
        BY <2>5 DEF WaitForSinkCallsInside, ReturnsInside
      <4>. QED
        BY <2>0, <2>2, <2>5, <4>1 DEF WaitForSinkCallsInside, Goto, TypeOK
    <3>2. /\ own = {c \in Active(s) : c[1] = t}
          /\ IsFiniteSet(own)
          /\ Cardinality(own) = threadCalls[t][s]
      BY <2>0, OwnCalls DEF CountsMatchCalls
    <3>3. /\ IsFiniteSet(Active(s)) /\ Cardinality(Active(s)) = calls[s]
          /\ IsFiniteSet(WaitingCalls(s))
          /\ Cardinality(WaitingCalls(s)) = waiting[s]
      BY <2>0, CallSetsFinite DEF CountsMatchCalls
    <3>. HIDE DEF own
    <3>4. both \in SUBSET Active(s) /\ WaitingCalls(s) \cap own = {}
      BY <3>1, <3>2 DEF WaitingCalls, WaitsInside
    <3>5. Cardinality(WaitingCalls(s) \cap own) = 0
      BY <3>4, FS_EmptySet
    <3>6. Cardinality(both) = waiting[s] + threadCalls[t][s] - 0
      BY <3>2, <3>3, <3>5, FS_Union
    <3>7. Cardinality(both) = Cardinality(Active(s))
      BY <2>0, <3>1, <3>3, <3>6 DEF TypeOK
    <3>. HIDE DEF both
    <3>8. both = Active(s)
      BY <3>3, <3>4, <3>7, FS_Subset
    <3>. QED BY <3>2, <3>8 DEF both, WaitingCalls
  <2>. QED BY <2>1, <2>3, <2>4, <2>5
<1>. QED
  BY <1>1, InductiveInvariant, PTL DEF Spec, RemovalInsideWaitsForOthers

-----------------------------------------------------------------------------
(* The flag that LogToSinks reads without a lock.  It follows the list in a *)
(* second step, so the argument is about the owner of sink_mutex_ between   *)
(* the two.                                                                 *)

\* A thread is between its two steps exactly when it owns sink_mutex_.
WriterHolds ==
  \A t \in Thread :
    pc[t] \in {"addStore", "removeStore", "deleteStore"} <=> writer = t

\* While DeleteLogDestinations owns it nothing is registered.
DeletionEmpties ==
  \A t \in Thread : pc[t] = "deleteStore" => sinks = {}

PresentInv == WriterHolds /\ DeletionEmpties /\ PresentFlagMissesNoSink

LEMMA PresentStep ==
  ASSUME TypeOK, PresentInv, [Next]_vars
  PROVE  PresentInv'
<1>. DEFINE Owning == {"addStore", "removeStore", "deleteStore"}
<1>a. WriterHolds /\ DeletionEmpties /\ PresentFlagMissesNoSink
  BY DEF PresentInv
<1>b. NoThread \notin Thread /\ pc \in [Thread -> PC] /\ writer \in Thread \cup {NoThread}
  BY ThreadAssumption DEF TypeOK
\* The registry stays, and nobody comes to own the lock or stops owning it.
<1>c. ASSUME UNCHANGED <<sinks, present, writer>>,
             \A u \in Thread : pc'[u] = pc[u]
                                \/ (pc[u] \notin Owning /\ pc'[u] \notin Owning)
      PROVE  PresentInv'
  <2>1. WriterHolds' /\ DeletionEmpties'
    BY <1>a, <1>c DEF WriterHolds, DeletionEmpties
  <2>2. PresentFlagMissesNoSink'
    <3>1. writer # NoThread => pc'[writer] = pc[writer]
      BY <1>a, <1>b, <1>c DEF WriterHolds
    <3>. QED BY <1>a, <1>c, <3>1 DEF PresentFlagMissesNoSink
  <2>. QED BY <2>1, <2>2 DEF PresentInv
<1>. CASE UNCHANGED vars
  BY <1>c DEF vars, registry, control
<1>. SUFFICES ASSUME NEW t \in Thread,
                     LibraryStep(t) \/ UserStep(t) \/ SpuriousWakeup(t)
              PROVE  PresentInv'
  BY DEF Next
\* A step that takes the lock.
<1>d. ASSUME NEW l \in Owning, writer = NoThread, writer' = t,
             pc' = [pc EXCEPT ![t] = l]
      PROVE  WriterHolds' /\ pc'[t] = l /\ \A u \in Thread \ {t} : pc'[u] \notin Owning
  <2>1. \A u \in Thread : pc[u] \notin Owning
    BY <1>a, <1>b, <1>d DEF WriterHolds
  <2>2. pc'[t] = l /\ \A u \in Thread \ {t} : pc'[u] = pc[u]
    BY <1>b, <1>d
  <2>. QED BY <1>b, <1>d, <2>1, <2>2 DEF WriterHolds
\* A step that gives it up.
<1>e. ASSUME NEW l \in PC \ Owning, pc[t] \in Owning, writer' = NoThread,
             pc' = [pc EXCEPT ![t] = l]
      PROVE  WriterHolds' /\ \A u \in Thread : pc'[u] \notin Owning
  <2>1. \A u \in Thread \ {t} : pc[u] \notin Owning
    BY <1>a, <1>b, <1>e DEF WriterHolds
  <2>2. pc'[t] = l /\ \A u \in Thread \ {t} : pc'[u] = pc[u]
    BY <1>b, <1>e
  <2>3. \A u \in Thread : pc'[u] \notin Owning
    BY <1>e, <2>1, <2>2
  <2>. QED BY <1>b, <1>e, <2>3 DEF WriterHolds
<1>1. CASE AddStore(t)
  <2>1. WriterHolds' /\ \A u \in Thread : pc'[u] \notin Owning
    BY <1>1, <1>e, "user" \in PC \ Owning DEF AddStore, Goto, PC
  <2>. QED BY <1>1, <2>1 DEF AddStore, PresentInv, DeletionEmpties,
            PresentFlagMissesNoSink
<1>2. CASE RemoveStore(t)
  <2>1. WriterHolds' /\ \A u \in Thread : pc'[u] \notin Owning
    BY <1>2, <1>e, "count" \in PC \ Owning DEF RemoveStore, Goto, PC
  <2>. QED BY <1>2, <2>1 DEF RemoveStore, PresentInv, DeletionEmpties,
            PresentFlagMissesNoSink
<1>3. CASE DeleteStore(t)
  <2>1. WriterHolds' /\ \A u \in Thread : pc'[u] \notin Owning
    BY <1>3, <1>e, "countAll" \in PC \ Owning DEF DeleteStore, Goto, PC
  <2>2. sinks' = {}
    BY <1>a, <1>3 DEF DeleteStore, DeletionEmpties
  <2>. QED BY <2>1, <2>2 DEF PresentInv, DeletionEmpties, PresentFlagMissesNoSink
<1>4. ASSUME NEW s \in Sink, AddLogSink(t, s) PROVE PresentInv'
  <2>1. /\ writer = NoThread /\ writer' = t /\ present' = present
        /\ sinks' = sinks \cup {<<adds + 1, s>>}
        /\ pc' = [pc EXCEPT ![t] = "addStore"]
    BY <1>4 DEF AddLogSink, Goto
  <2>2. WriterHolds' /\ pc'[t] = "addStore" /\ \A u \in Thread \ {t} : pc'[u] \notin Owning
    BY <1>d, <2>1
  <2>3. ~present => Cardinality(sinks') = 1
    <3>1. ~present => sinks = {}
      BY <1>a, <2>1 DEF PresentFlagMissesNoSink
    <3>2. ~present => sinks' = {<<adds + 1, s>>}
      BY <2>1, <3>1
    <3>. QED BY <3>2, FS_Singleton
  <2>4. PresentFlagMissesNoSink'
    BY <1>b, <2>1, <2>2, <2>3 DEF PresentFlagMissesNoSink
  <2>. QED BY <2>2, <2>4 DEF PresentInv, DeletionEmpties
<1>5. ASSUME NEW s \in Sink, RemoveLogSink(t, s) PROVE PresentInv'
  <2>1. CASE UNCHANGED <<sinks, writer>> /\ Goto(t, "count")
    <3>1. pc[t] = "user" /\ present' = present
      BY <1>5 DEF RemoveLogSink, InUserCode
    <3>2. pc'[t] = "count" /\ \A u \in Thread \ {t} : pc'[u] = pc[u]
      BY <1>b, <2>1 DEF Goto
    <3>. QED BY <1>c, <2>1, <3>1, <3>2
  <2>2. CASE /\ sinks' = {r \in sinks : r[2] # s}
             /\ writer' = t /\ Goto(t, "removeStore")
    <3>1. writer = NoThread /\ present' = present
      BY <1>5 DEF RemoveLogSink
    <3>2. WriterHolds' /\ pc'[t] = "removeStore"
          /\ \A u \in Thread \ {t} : pc'[u] \notin Owning
      BY <1>d, <2>2, <3>1 DEF Goto
    <3>3. ~present => sinks' = {}
      BY <1>a, <2>2, <3>1 DEF PresentFlagMissesNoSink
    <3>4. PresentFlagMissesNoSink'
      BY <3>1, <3>3 DEF PresentFlagMissesNoSink
    <3>. QED BY <3>2, <3>4 DEF PresentInv, DeletionEmpties
  <2>. QED BY <1>5, <2>1, <2>2 DEF RemoveLogSink
<1>6. CASE DeleteLogDestinations(t)
  <2>1. /\ writer = NoThread /\ writer' = t /\ sinks' = {}
        /\ pc' = [pc EXCEPT ![t] = "deleteStore"]
    BY <1>6 DEF DeleteLogDestinations, Goto
  <2>2. WriterHolds'
    BY <1>d, <2>1
  <2>. QED BY <2>1, <2>2 DEF PresentInv, DeletionEmpties, PresentFlagMissesNoSink
\* The other steps of t are taken without the lock.
<1>7. CASE \/ WaitForSinkCallsOutside(t) \/ WaitForSinkCallsInside(t) \/ SleepOn(t)
           \/ LeaveWaitOutside(t) \/ LeaveWaitInside(t) \/ WaitForSinks(t)
           \/ GetSinks(t) \/ BeginSinkCall(t) \/ SkipRemovedSink(t) \/ EndLoop(t)
           \/ WaitForAllSinkCalls(t) \/ LeaveWaitAll(t) \/ LogMessage(t)
           \/ EndSinkCall(t) \/ ThrowFromCallback(t) \/ SpuriousWakeup(t)
  <2>1. UNCHANGED <<sinks, present, writer>>
    BY <1>7 DEF WaitForSinkCallsOutside, WaitForSinkCallsInside, SleepOn,
       LeaveWaitOutside, LeaveWaitInside, WaitForSinks, GetSinks, BeginSinkCall,
       SkipRemovedSink, EndLoop, WaitForAllSinkCalls, LeaveWaitAll, LogMessage,
       EndSinkCall, ThrowFromCallback, SpuriousWakeup, registry
  <2>2. \/ pc' = pc
        \/ pc[t] \notin Owning /\ \E l \in PC \ Owning : pc' = [pc EXCEPT ![t] = l]
    BY <1>7 DEF WaitForSinkCallsOutside, WaitForSinkCallsInside, SleepOn,
       LeaveWaitOutside, LeaveWaitInside, WaitForSinks, GetSinks, BeginSinkCall,
       SkipRemovedSink, EndLoop, WaitForAllSinkCalls, LeaveWaitAll, LogMessage,
       EndSinkCall, ThrowFromCallback, SpuriousWakeup, ReturnFromRemove, Goto, PC,
       InUserCode, control
  <2>. QED BY <1>b, <1>c, <2>1, <2>2
<1>. QED
  BY <1>1, <1>2, <1>3, <1>4, <1>5, <1>6, <1>7 DEF LibraryStep, UserStep

\* Whatever the interleaving of AddLogSink, RemoveLogSink and ShutdownLogging,
\* the flag that a message reads without a lock is false only when nothing is
\* registered or the first AddLogSink has not returned.
THEOREM FlagMissesNoSink == Spec => []PresentFlagMissesNoSink
<1>1. Init => PresentInv
  BY ThreadAssumption DEF Init, PresentInv, WriterHolds, DeletionEmpties,
     PresentFlagMissesNoSink
<1>2. IInv /\ PresentInv /\ [Next]_vars => PresentInv'
  BY PresentStep DEF IInv
<1>3. PresentInv => PresentFlagMissesNoSink
  BY DEF PresentInv
<1>. QED BY <1>1, <1>2, <1>3, InductiveInvariant, PTL DEF Spec

=============================================================================
