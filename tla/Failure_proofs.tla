--------------------------- MODULE Failure_proofs ---------------------------
(* Proofs about how a process dies: the ownership of the dump, the crash   *)
(* reason and the flush of fatal messages, for any number of threads,      *)
(* messages, signals and faults and every failure function.                *)
EXTENDS Failure, FiniteSetTheorems, SequenceTheorems, TLAPS

DumpPlaces == {"dump", "flush", "default", "release"}
FramePlaces == {"check", "cas", "clear", "redefault", "return"} \cup DumpPlaces
Frame == [signal : Signal, pc : FramePlaces]
Written == {"record", "publish", "fflush"}  \* the line is in the file
Flushed == {"sinks", "fail", "dump", "abort"}
Places == {"user", "lock", "inside", "once", "onceSet", "aborted"} \cup Written \cup Flushed

FramesTypeOK == frames \in [Thread -> Seq(Frame)]

MessageTypeOK ==
  /\ at \in [Thread -> Places]
  /\ msg \in [Thread -> Message \cup {NoMsg}]
  /\ severity \in [Thread -> {"INFO", "FATAL", "RAW"}]
  /\ count \in [Thread -> 0 .. MaxMsgs]
  /\ first \in Message \cup {NoMsg}
  /\ record \in [{"log", "raw"} -> Message \cup {NoMsg}]
  /\ reason \in {"none", "log", "raw"}
  /\ file \in Seq(Message)
  /\ synced \in 0 .. Len(file)

TypeOK == FramesTypeOK /\ MessageTypeOK

-----------------------------------------------------------------------------
(* The handler.                                                            *)

InDump(t, i) == i \in 1 .. Len(frames[t]) /\ frames[t][i].pc \in DumpPlaces

\* The ownership flag is set while an activation is in its dump, and no other
\* one is.
DumpIsOwned ==
  \A t \in Thread, i \in Nat : InDump(t, i) =>
    /\ owned
    /\ \A u \in Thread, j \in Nat : InDump(u, j) => u = t /\ j = i

\* A signal is handled once at a time on a thread.
SignalsBlocked ==
  \A t \in Thread : \A i, j \in 1 .. Len(frames[t]) :
    frames[t][i].signal = frames[t][j].signal => i = j

HandlerInv == FramesTypeOK /\ DumpIsOwned /\ SignalsBlocked

-----------------------------------------------------------------------------
(* Messages.                                                               *)

\* A thread inside the library has a message.
HasMessage == \A t \in Thread : at[t] # "user" => msg[t] \in Message

\* The exclusive space is taken once.
FirstTaken == exclusive \in BOOLEAN /\ (exclusive <=> first = NoMsg)

\* Only the message in the exclusive space is recorded, before it is published.
FirstRecorded ==
  \A t \in Thread :
    /\ at[t] \in {"record", "publish"} => msg[t] = first
    /\ at[t] = "publish" => record["log"] = first

\* The record of a raw message is written once, before it is published.
RawRecorded ==
  /\ \A t \in Thread : at[t] = "onceSet" => record["raw"] # NoMsg /\ once # "unset"
  /\ reason = "raw" => once # "unset"

\* Nothing raw reaches the sinks, and a line is where it should be.
LineWritten ==
  \A t \in Thread :
    /\ at[t] \in {"once", "onceSet"} => severity[t] = "RAW"
    /\ at[t] \in Written => \E i \in 1 .. Len(file) : file[i] = msg[t]

MessageInv ==
  /\ MessageTypeOK /\ HasMessage /\ FirstTaken /\ FirstRecorded /\ RawRecorded
  /\ LineWritten /\ ReasonIsComplete /\ FatalIsOnDisk

IInv == HandlerInv /\ MessageInv

-----------------------------------------------------------------------------
(* The stack of activations.                                               *)

LEMMA MovedFrames ==
  ASSUME FramesTypeOK, NEW t \in Thread, frames[t] # <<>>,
         NEW l \in FramePlaces, Move(t, l)
  PROVE  /\ FramesTypeOK'
         /\ \A u \in Thread : Len(frames'[u]) = Len(frames[u])
         /\ \A u \in Thread : \A i \in 1 .. Len(frames[u]) :
              /\ frames'[u][i].signal = frames[u][i].signal
              /\ frames'[u][i].pc = IF u = t /\ i = Len(frames[t]) THEN l
                                    ELSE frames[u][i].pc
<1>. DEFINE q == frames[t]
            n == Len(q)
            p == [q EXCEPT ![n].pc = l]
<1>1. q \in Seq(Frame) /\ n \in 1 .. n /\ n \in Nat
  BY DEF FramesTypeOK
<1>2. \A i \in 1 .. n : q[i] \in Frame
  BY <1>1
<1>3. frames' = [frames EXCEPT ![t] = p]
  BY DEF Move
<1>4. DOMAIN p = 1 .. n /\ \A i \in 1 .. n : p[i] = IF i = n THEN [q[i] EXCEPT !.pc = l] ELSE q[i]
  BY <1>1
<1>. HIDE DEF p, q
<1>5. ASSUME NEW i \in 1 .. n
      PROVE  /\ p[i] \in Frame /\ p[i].signal = q[i].signal
             /\ p[i].pc = IF i = n THEN l ELSE q[i].pc
  BY <1>2, <1>4, <1>5 DEF Frame
<1>6. p \in Seq(Frame) /\ Len(p) = n
  <2>1. p = [i \in 1 .. n |-> p[i]]
    BY <1>1, <1>4 DEF p
  <2>. QED BY <1>1, <1>5, <2>1
<1>7. \A u \in Thread : frames'[u] = IF u = t THEN p ELSE frames[u]
  BY <1>3 DEF FramesTypeOK
<1>8. FramesTypeOK'
  BY <1>3, <1>6 DEF FramesTypeOK
<1>. QED BY <1>5, <1>6, <1>7, <1>8 DEF q

LEMMA PushedFrames ==
  ASSUME FramesTypeOK, NEW t \in Thread, NEW sig \in Signal, Push(t, sig)
  PROVE  /\ FramesTypeOK'
         /\ \A u \in Thread :
              Len(frames'[u]) = IF u = t THEN Len(frames[u]) + 1 ELSE Len(frames[u])
         /\ \A u \in Thread : \A i \in 1 .. Len(frames[u]) : frames'[u][i] = frames[u][i]
         /\ frames'[t][Len(frames[t]) + 1] = [signal |-> sig, pc |-> "check"]
<1>. DEFINE p == Append(frames[t], [signal |-> sig, pc |-> "check"])
<1>1. frames[t] \in Seq(Frame) /\ [signal |-> sig, pc |-> "check"] \in Frame
  BY DEF FramesTypeOK, Frame, FramePlaces
<1>2. /\ p \in Seq(Frame) /\ Len(p) = Len(frames[t]) + 1
      /\ \A i \in 1 .. Len(frames[t]) : p[i] = frames[t][i]
      /\ p[Len(frames[t]) + 1] = [signal |-> sig, pc |-> "check"]
  BY <1>1
<1>. HIDE DEF p
<1>3. frames' = [frames EXCEPT ![t] = p]
  BY DEF Push, p
<1>4. \A u \in Thread : frames'[u] = IF u = t THEN p ELSE frames[u]
  BY <1>3 DEF FramesTypeOK
<1>5. FramesTypeOK'
  BY <1>2, <1>3 DEF FramesTypeOK
<1>. QED BY <1>2, <1>4, <1>5

LEMMA PoppedFrames ==
  ASSUME FramesTypeOK, NEW t \in Thread, frames[t] # <<>>, Pop(t)
  PROVE  /\ FramesTypeOK'
         /\ \A u \in Thread :
              Len(frames'[u]) = IF u = t THEN Len(frames[u]) - 1 ELSE Len(frames[u])
         /\ \A u \in Thread : \A i \in 1 .. Len(frames'[u]) : frames'[u][i] = frames[u][i]
<1>. DEFINE p == SubSeq(frames[t], 1, Len(frames[t]) - 1)
<1>1. frames[t] \in Seq(Frame) /\ Len(frames[t]) \in Nat \ {0}
  BY DEF FramesTypeOK
<1>2. /\ p \in Seq(Frame) /\ Len(p) = Len(frames[t]) - 1
      /\ \A i \in 1 .. Len(p) : p[i] = frames[t][i]
  BY <1>1
<1>. HIDE DEF p
<1>3. frames' = [frames EXCEPT ![t] = p]
  BY DEF Pop, p
<1>4. \A u \in Thread : frames'[u] = IF u = t THEN p ELSE frames[u]
  BY <1>3 DEF FramesTypeOK
<1>5. FramesTypeOK'
  BY <1>2, <1>3 DEF FramesTypeOK
<1>. QED BY <1>2, <1>4, <1>5

-----------------------------------------------------------------------------
(* The steps preserve the invariant of the handler.                        *)

\* A signal arrives that the thread does not block.
LEMMA PushKeeps ==
  ASSUME HandlerInv, NEW t \in Thread, NEW sig \in Signal \ Blocked(t), Push(t, sig),
         owned' = owned
  PROVE  HandlerInv'
<1>1. /\ FramesTypeOK'
      /\ \A u \in Thread :
           Len(frames'[u]) = IF u = t THEN Len(frames[u]) + 1 ELSE Len(frames[u])
      /\ \A u \in Thread : \A i \in 1 .. Len(frames[u]) : frames'[u][i] = frames[u][i]
      /\ frames'[t][Len(frames[t]) + 1] = [signal |-> sig, pc |-> "check"]
  BY PushedFrames DEF HandlerInv
<1>2. \A u \in Thread : Len(frames[u]) \in Nat
  BY DEF HandlerInv, FramesTypeOK
<1>3. \A i \in 1 .. Len(frames[t]) : frames[t][i].signal # sig
  BY DEF Blocked, Range, HandlerInv, FramesTypeOK
<1>4. \A u \in Thread, i \in Nat : InDump(u, i)' => InDump(u, i)
  BY <1>1, <1>2, SMTT(30) DEF InDump, DumpPlaces
<1>5. DumpIsOwned'
  BY <1>4 DEF HandlerInv, DumpIsOwned
<1>6. SignalsBlocked'
  <2>. SUFFICES ASSUME NEW u \in Thread,
                       NEW i \in 1 .. Len(frames'[u]), NEW j \in 1 .. Len(frames'[u]),
                       frames'[u][i].signal = frames'[u][j].signal
               PROVE  i = j
    BY DEF SignalsBlocked
  <2>1. CASE i \in 1 .. Len(frames[u]) /\ j \in 1 .. Len(frames[u])
    BY <1>1, <2>1 DEF HandlerInv, SignalsBlocked
  <2>2. CASE ~(i \in 1 .. Len(frames[u]) /\ j \in 1 .. Len(frames[u]))
    <3>1. u = t /\ \/ i = Len(frames[t]) + 1
                   \/ j = Len(frames[t]) + 1
      BY <1>1, <1>2, <2>2
    <3>2. frames'[t][Len(frames[t]) + 1].signal = sig
      BY <1>1
    <3>3. ASSUME NEW k \in 1 .. Len(frames'[t]), k # Len(frames[t]) + 1
          PROVE  frames'[t][k].signal # sig
      <4>1. k \in 1 .. Len(frames[t])
        BY <1>1, <1>2, <3>3
      <4>. QED BY <1>1, <1>3, <4>1
    <3>. QED BY <3>1, <3>2, <3>3
  <2>. QED BY <2>1, <2>2
<1>. QED BY <1>1, <1>5, <1>6 DEF HandlerInv

\* The handler moves on, outside of the dump or within it.
LEMMA MoveKeeps ==
  ASSUME HandlerInv, NEW t \in Thread, NEW from, NEW l \in FramePlaces,
         In(t, from), Move(t, l), owned' = owned,
         l \in DumpPlaces => from \in DumpPlaces
  PROVE  HandlerInv'
<1>1. frames[t] # <<>> /\ frames[t][Len(frames[t])].pc = from
  BY DEF In, Top
<1>2. /\ FramesTypeOK'
      /\ \A u \in Thread : Len(frames'[u]) = Len(frames[u])
      /\ \A u \in Thread : \A i \in 1 .. Len(frames[u]) :
           /\ frames'[u][i].signal = frames[u][i].signal
           /\ frames'[u][i].pc = IF u = t /\ i = Len(frames[t]) THEN l
                                 ELSE frames[u][i].pc
  BY <1>1, MovedFrames DEF HandlerInv
<1>3. \A u \in Thread, i \in Nat : InDump(u, i)' => InDump(u, i)
  BY <1>1, <1>2 DEF InDump
<1>4. DumpIsOwned'
  BY <1>3 DEF HandlerInv, DumpIsOwned
<1>5. SignalsBlocked'
  BY <1>2 DEF HandlerInv, SignalsBlocked
<1>. QED BY <1>2, <1>4, <1>5 DEF HandlerInv

\* The winner of the flag begins its dump: nobody was in one.
LEMMA TakeKeeps ==
  ASSUME HandlerInv, NEW t \in Thread, CasSucceeds(t)
  PROVE  HandlerInv'
<1>1. /\ frames[t] # <<>> /\ frames[t][Len(frames[t])].pc = "cas"
      /\ Move(t, "dump") /\ ~owned /\ owned' = TRUE
  BY DEF CasSucceeds, HandlerStep, In, Top
<1>2. /\ FramesTypeOK'
      /\ \A u \in Thread : Len(frames'[u]) = Len(frames[u])
      /\ \A u \in Thread : \A i \in 1 .. Len(frames[u]) :
           /\ frames'[u][i].signal = frames[u][i].signal
           /\ frames'[u][i].pc = IF u = t /\ i = Len(frames[t]) THEN "dump"
                                 ELSE frames[u][i].pc
  BY <1>1, MovedFrames DEF HandlerInv, FramePlaces, DumpPlaces
<1>3. \A u \in Thread, i \in Nat : ~InDump(u, i)
  BY <1>1 DEF HandlerInv, DumpIsOwned
<1>4. \A u \in Thread, i \in Nat : InDump(u, i)' => u = t /\ i = Len(frames[t])
  BY <1>2, <1>3 DEF InDump
<1>5. DumpIsOwned'
  <2>1. owned'
    BY <1>1, Zenon
  <2>. QED BY <1>4, <2>1 DEF DumpIsOwned
<1>6. SignalsBlocked'
  BY <1>2 DEF HandlerInv, SignalsBlocked
<1>. QED BY <1>2, <1>5, <1>6 DEF HandlerInv

\* The owner gives the flag back: it leaves the dump, and it was the only one.
LEMMA ReleaseKeeps ==
  ASSUME HandlerInv, NEW t \in Thread, Release(t)
  PROVE  HandlerInv'
<1>1. /\ frames[t] # <<>> /\ frames[t][Len(frames[t])].pc = "release"
      /\ Move(t, "clear")
  BY DEF Release, HandlerStep, In, Top
<1>2. /\ FramesTypeOK'
      /\ \A u \in Thread : Len(frames'[u]) = Len(frames[u])
      /\ \A u \in Thread : \A i \in 1 .. Len(frames[u]) :
           /\ frames'[u][i].signal = frames[u][i].signal
           /\ frames'[u][i].pc = IF u = t /\ i = Len(frames[t]) THEN "clear"
                                 ELSE frames[u][i].pc
  BY <1>1, MovedFrames DEF HandlerInv, FramePlaces
<1>3. InDump(t, Len(frames[t])) /\ Len(frames[t]) \in Nat
  BY <1>1 DEF InDump, DumpPlaces, HandlerInv, FramesTypeOK
<1>4. \A u \in Thread, i \in Nat : InDump(u, i) => u = t /\ i = Len(frames[t])
  BY <1>3 DEF HandlerInv, DumpIsOwned
<1>5. \A u \in Thread, i \in Nat : ~InDump(u, i)'
  BY <1>2, <1>4 DEF InDump, DumpPlaces
<1>6. DumpIsOwned'
  BY <1>5 DEF DumpIsOwned
<1>7. SignalsBlocked'
  BY <1>2 DEF HandlerInv, SignalsBlocked
<1>. QED BY <1>2, <1>6, <1>7 DEF HandlerInv

\* The handler returns, from outside of the dump or from an inner activation.
LEMMA PopKeeps ==
  ASSUME HandlerInv, NEW t \in Thread, frames[t] # <<>>, Pop(t), owned' = owned
  PROVE  HandlerInv'
<1>1. /\ FramesTypeOK'
      /\ \A u \in Thread :
           Len(frames'[u]) = IF u = t THEN Len(frames[u]) - 1 ELSE Len(frames[u])
      /\ \A u \in Thread : \A i \in 1 .. Len(frames'[u]) : frames'[u][i] = frames[u][i]
  BY PoppedFrames DEF HandlerInv
<1>2. \A u \in Thread : Len(frames[u]) \in Nat
  BY DEF HandlerInv, FramesTypeOK
<1>3. \A u \in Thread : 1 .. Len(frames'[u]) \subseteq 1 .. Len(frames[u])
  BY <1>1, <1>2
<1>4. \A u \in Thread, i \in Nat : InDump(u, i)' => InDump(u, i)
  BY <1>1, <1>3 DEF InDump
<1>5. DumpIsOwned'
  BY <1>4 DEF HandlerInv, DumpIsOwned
<1>6. SignalsBlocked'
  BY <1>1, <1>3, SMTT(30) DEF HandlerInv, SignalsBlocked
<1>. QED BY <1>1, <1>5, <1>6 DEF HandlerInv

LEMMA HandlerKept ==
  ASSUME HandlerInv, [Next]_vars
  PROVE  HandlerInv'
<1>1. CASE UNCHANGED <<frames, owned>>
  BY <1>1 DEF HandlerInv, FramesTypeOK, DumpIsOwned, SignalsBlocked, InDump
<1>2. ASSUME NEW t \in Thread, NEW sig \in Signal, Deliver(t, sig)
      PROVE  HandlerInv'
  BY <1>1, <1>2, PushKeeps DEF Deliver
<1>3. ASSUME NEW t \in Thread, Fault(t) \/ DumpFault(t)
      PROVE  HandlerInv'
  BY <1>1, <1>3, PushKeeps DEF Fault, DumpFault, RaiseFault, Signal
<1>4. ASSUME NEW t \in Thread, Abort(t)
      PROVE  HandlerInv'
  <2>1. "ABRT" \in Signal \ Blocked(t)
    BY <1>4 DEF Abort, At, Blocked, Signal, Range
  <2>. QED BY <1>1, <1>4, <2>1, PushKeeps DEF Abort
<1>5. ASSUME NEW t \in Thread, CheckReentry(t)
      PROVE  HandlerInv'
  <2>1. CASE entered[t]
    BY <1>5, <2>1, MoveKeeps DEF CheckReentry, HandlerStep, FramePlaces, DumpPlaces
  <2>2. CASE ~entered[t]
    BY <1>5, <2>2, MoveKeeps DEF CheckReentry, HandlerStep, FramePlaces, DumpPlaces
  <2>. QED BY <2>1, <2>2
<1>6. ASSUME NEW t \in Thread, CasSucceeds(t)
      PROVE  HandlerInv'
  BY <1>6, TakeKeeps
<1>7. ASSUME NEW t \in Thread, Dump(t)
      PROVE  HandlerInv'
  BY <1>7, MoveKeeps DEF Dump, HandlerStep, FramePlaces, DumpPlaces
<1>8. ASSUME NEW t \in Thread, FlushLogFilesUnsafe(t)
      PROVE  HandlerInv'
  BY <1>8, MoveKeeps DEF FlushLogFilesUnsafe, HandlerStep, FramePlaces, DumpPlaces
<1>9. ASSUME NEW t \in Thread,
             \/ InvokeDefaultSignalHandler(t, "default", "release")
             \/ InvokeDefaultSignalHandler(t, "redefault", "return")
      PROVE  HandlerInv'
  BY <1>9, MoveKeeps DEF InvokeDefaultSignalHandler, HandlerStep, FramePlaces, DumpPlaces
<1>10. ASSUME NEW t \in Thread, Release(t)
       PROVE  HandlerInv'
  BY <1>10, ReleaseKeeps
<1>11. ASSUME NEW t \in Thread, Return(t) \/ ReturnReentered(t)
       PROVE  HandlerInv'
  BY <1>11, PopKeeps DEF Return, ReturnReentered, In
<1>12. ASSUME NEW t \in Thread, LogInfo(t) \/ LogFatal(t) \/ RawFatal(t)
       PROVE  HandlerInv'
  BY <1>1, <1>12 DEF LogInfo, LogFatal, RawFatal, handler
<1>13. ASSUME NEW t \in Thread, Dispatch(t), ~Abort(t)
       PROVE  HandlerInv'
  BY <1>1, <1>13 DEF Dispatch, Lock, Write, RecordCrashReason, PublishReason, FlushFiles,
                     CallSinks, CallOnce, OnceReturns, OnceSkipped, Fail, OrdinaryStep,
                     DumpStackTraceAndExit, AbortAgain, handler
<1>14. CASE SendTerm \/ UNCHANGED vars
  BY <1>1, <1>14 DEF SendTerm, handler, vars
<1>15. ASSUME NEW t \in Thread, Handle(t)
       PROVE  HandlerInv'
  BY <1>5, <1>6, <1>7, <1>8, <1>9, <1>10, <1>11, <1>15 DEF Handle
<1>16. ASSUME NEW t \in Thread, Dispatch(t)
       PROVE  HandlerInv'
  BY <1>4, <1>13, <1>16
<1>. QED BY <1>2, <1>3, <1>12, <1>14, <1>15, <1>16 DEF Next

-----------------------------------------------------------------------------
(* The steps preserve the invariant of the messages.                       *)

\* Steps of the handler and of the system: at most a flush of the log.
LEMMA HandlerKeepsMessages ==
  ASSUME MessageInv, UNCHANGED <<at, message, fatal, file>>,
         synced' \in {synced, Len(file)}
  PROVE  MessageInv'
<1>1. UNCHANGED <<at, msg, severity, count, exclusive, first, record, reason, once, file>>
  BY DEF message, fatal
<1>2. synced \in 0 .. Len(file) /\ Len(file) \in Nat
  BY DEF MessageInv, MessageTypeOK
<1>3. synced' \in 0 .. Len(file) /\ synced <= synced'
  BY <1>2
<1>4. MessageTypeOK'
  BY <1>1, <1>3 DEF MessageInv, MessageTypeOK
<1>5. HasMessage' /\ FirstRecorded' /\ RawRecorded' /\ LineWritten' /\ ReasonIsComplete'
  BY <1>1 DEF MessageInv, HasMessage, FirstRecorded, RawRecorded, LineWritten,
              ReasonIsComplete
<1>6. FirstTaken'
  BY <1>1 DEF MessageInv, FirstTaken
<1>7. FatalIsOnDisk'
  <2>1. 1 .. synced \subseteq 1 .. synced'
    BY <1>2, <1>3
  <2>. QED BY <1>1, <2>1 DEF MessageInv, FatalIsOnDisk
<1>. QED BY <1>4, <1>5, <1>6, <1>7 DEF MessageInv

\* A message begins.
LEMMA BeginKeeps ==
  ASSUME MessageInv, NEW t \in Thread, NEW s \in {"INFO", "FATAL", "RAW"}, Begin(t, s),
         at' = [at EXCEPT ![t] = IF s = "RAW" THEN "once" ELSE "lock"],
         UNCHANGED <<record, reason, once, file, synced>>,
         \/ UNCHANGED <<exclusive, first>>
         \/ exclusive' = FALSE /\ first' = IF exclusive THEN msg'[t] ELSE first
  PROVE  MessageInv'
<1>1. /\ at[t] = "user" /\ count[t] < MaxMsgs
      /\ count' = [count EXCEPT ![t] = @ + 1]
      /\ msg' = [msg EXCEPT ![t] = <<t, count[t] + 1>>]
      /\ severity' = [severity EXCEPT ![t] = s]
  BY DEF Begin, At
<1>2. MaxMsgs \in Nat /\ count[t] \in 0 .. MaxMsgs
  BY FailureAssumption DEF MessageInv, MessageTypeOK
<1>3. count[t] + 1 \in 1 .. MaxMsgs
  BY <1>1, <1>2
<1>4. msg'[t] \in Message /\ msg'[t] # NoMsg
  BY <1>1, <1>3, FailureAssumption DEF Message, MessageInv, MessageTypeOK
<1>5. \A u \in Thread :
        /\ u # t => at'[u] = at[u] /\ msg'[u] = msg[u] /\ severity'[u] = severity[u]
        /\ u = t => /\ at'[u] = IF s = "RAW" THEN "once" ELSE "lock"
                    /\ severity'[u] = s
  BY <1>1 DEF MessageInv, MessageTypeOK
<1>6. first' \in Message \cup {NoMsg} /\ (first # NoMsg => first' = first)
  BY <1>4 DEF MessageInv, MessageTypeOK, FirstTaken
<1>7. MessageTypeOK'
  <2>1. at' \in [Thread -> Places]
    BY DEF MessageInv, MessageTypeOK, Places
  <2>2. msg' \in [Thread -> Message \cup {NoMsg}]
    BY <1>1, <1>3 DEF MessageInv, MessageTypeOK, Message
  <2>3. severity' \in [Thread -> {"INFO", "FATAL", "RAW"}]
    BY <1>1 DEF MessageInv, MessageTypeOK
  <2>4. count' \in [Thread -> 0 .. MaxMsgs]
    BY <1>1, <1>2, <1>3 DEF MessageInv, MessageTypeOK
  <2>. QED BY <1>6, <2>1, <2>2, <2>3, <2>4 DEF MessageInv, MessageTypeOK
<1>8. HasMessage'
  BY <1>4, <1>5 DEF MessageInv, HasMessage
<1>9. FirstTaken'
  <2>1. CASE UNCHANGED <<exclusive, first>>
    BY <2>1 DEF MessageInv, FirstTaken
  <2>2. CASE exclusive' = FALSE /\ first' = IF exclusive THEN msg'[t] ELSE first
    <3>1. first' # NoMsg
      BY <1>4, <2>2 DEF MessageInv, FirstTaken
    <3>2. exclusive' \in BOOLEAN /\ ~exclusive'
      BY <2>2, Zenon
    <3>. QED BY <3>1, <3>2 DEF FirstTaken
  <2>. QED BY <2>1, <2>2
<1>10. FirstRecorded' /\ ReasonIsComplete'
  <2>1. \A u \in Thread : at[u] \in {"record", "publish"} => first # NoMsg
    BY FailureAssumption DEF MessageInv, HasMessage, FirstRecorded, Message
  <2>2. reason = "log" => first # NoMsg
    BY DEF MessageInv, ReasonIsComplete
  <2>3. FirstRecorded'
    BY <1>5, <1>6, <2>1 DEF MessageInv, FirstRecorded
  <2>4. ReasonIsComplete'
    BY <1>6, <2>2 DEF MessageInv, ReasonIsComplete
  <2>. QED BY <2>3, <2>4
<1>11. RawRecorded'
  BY <1>5 DEF MessageInv, RawRecorded
<1>12. LineWritten'
  BY <1>5 DEF MessageInv, LineWritten, Written
<1>13. FatalIsOnDisk'
  BY <1>5 DEF MessageInv, FatalIsOnDisk
<1>. QED BY <1>7, <1>8, <1>9, <1>10, <1>11, <1>12, <1>13 DEF MessageInv

\* A thread goes on without touching a reason or the log.
LEMMA GoKeeps ==
  ASSUME MessageInv, NEW t \in Thread, NEW from, NEW to \in Places,
         at[t] = from, at' = [at EXCEPT ![t] = to],
         UNCHANGED <<msg, severity, count, exclusive, first, record, reason, once, file,
                     synced>>,
         from # "user", to \notin Written, to \notin {"once", "onceSet"},
         to \in Flushed => \/ from \in {"once", "onceSet"}
                           \/ from \in Flushed
  PROVE  MessageInv'
<1>1. \A u \in Thread : at'[u] = IF u = t THEN to ELSE at[u]
  BY DEF MessageInv, MessageTypeOK
<1>2. MessageTypeOK'
  BY DEF MessageInv, MessageTypeOK
<1>3. HasMessage'
  BY <1>1 DEF MessageInv, HasMessage
<1>4. FirstTaken' /\ ReasonIsComplete'
  BY DEF MessageInv, FirstTaken, ReasonIsComplete
<1>5. FirstRecorded' /\ RawRecorded'
  BY <1>1 DEF MessageInv, FirstRecorded, RawRecorded, Written
<1>6. LineWritten'
  BY <1>1 DEF MessageInv, LineWritten
<1>7. FatalIsOnDisk'
  <2>1. severity[t] = "FATAL" /\ to \in Flushed => from \in Flushed
    BY DEF MessageInv, LineWritten
  <2>. QED BY <1>1, <2>1 DEF MessageInv, FatalIsOnDisk, Flushed
<1>. QED BY <1>2, <1>3, <1>4, <1>5, <1>6, <1>7 DEF MessageInv

LEMMA WriteKeeps ==
  ASSUME MessageInv, NEW t \in Thread, Write(t)
  PROVE  MessageInv'
<1>1. /\ at[t] = "inside" /\ at' = [at EXCEPT ![t] = AfterWrite(t)]
      /\ file' = Append(file, msg[t])
      /\ UNCHANGED <<msg, severity, count, exclusive, first, record, reason, once, synced>>
  BY DEF Write, OrdinaryStep, At, Goto, message, fatal
<1>2. msg[t] \in Message /\ severity[t] \in {"INFO", "FATAL", "RAW"}
  BY <1>1 DEF MessageInv, MessageTypeOK, HasMessage
<1>3. /\ AfterWrite(t) \in {"user", "record", "fflush"}
      /\ AfterWrite(t) = "record" => msg[t] = first
  BY DEF AfterWrite
<1>4. /\ file' \in Seq(Message) /\ Len(file') = Len(file) + 1 /\ Len(file) \in Nat
      /\ \A i \in 1 .. Len(file) : file'[i] = file[i]
      /\ file'[Len(file) + 1] = msg[t]
  BY <1>1, <1>2 DEF MessageInv, MessageTypeOK
<1>5. \A u \in Thread : at'[u] = IF u = t THEN AfterWrite(t) ELSE at[u]
  BY <1>1 DEF MessageInv, MessageTypeOK
<1>6. synced \in 0 .. Len(file)
  BY DEF MessageInv, MessageTypeOK
<1>7. MessageTypeOK'
  <2>1. at' \in [Thread -> Places]
    BY <1>1, <1>3 DEF MessageInv, MessageTypeOK, Places, Written
  <2>2. synced' \in 0 .. Len(file')
    BY <1>1, <1>4, <1>6
  <2>. QED BY <1>1, <1>4, <2>1, <2>2 DEF MessageInv, MessageTypeOK
<1>8. HasMessage' /\ FirstTaken' /\ ReasonIsComplete'
  BY <1>1, <1>2, <1>5 DEF MessageInv, HasMessage, FirstTaken, ReasonIsComplete
<1>9. FirstRecorded' /\ RawRecorded'
  BY <1>1, <1>3, <1>5 DEF MessageInv, FirstRecorded, RawRecorded
<1>10. LineWritten'
  <2>1. \A u \in Thread : (\E i \in 1 .. Len(file) : file[i] = msg[u])
                            => \E i \in 1 .. Len(file') : file'[i] = msg[u]
    BY <1>4
  <2>2. \E i \in 1 .. Len(file') : file'[i] = msg[t]
    BY <1>4
  <2>. QED BY <1>1, <1>3, <1>5, <2>1, <2>2 DEF MessageInv, LineWritten
<1>11. FatalIsOnDisk'
  <2>1. 1 .. synced \subseteq 1 .. Len(file)
    BY <1>4, <1>6
  <2>. QED BY <1>1, <1>3, <1>4, <1>5, <2>1 DEF MessageInv, FatalIsOnDisk
<1>. QED BY <1>7, <1>8, <1>9, <1>10, <1>11 DEF MessageInv

LEMMA RecordKeeps ==
  ASSUME MessageInv, NEW t \in Thread, RecordCrashReason(t)
  PROVE  MessageInv'
<1>1. /\ at[t] = "record" /\ at' = [at EXCEPT ![t] = "publish"]
      /\ record' = [record EXCEPT !["log"] = first]
      /\ UNCHANGED <<msg, severity, count, exclusive, first, reason, once, file, synced>>
  BY DEF RecordCrashReason, OrdinaryStep, At, Goto, message, log
<1>2. \A u \in Thread : at'[u] = IF u = t THEN "publish" ELSE at[u]
  BY <1>1 DEF MessageInv, MessageTypeOK
<1>3. record'["log"] = first /\ record'["raw"] = record["raw"]
  BY <1>1 DEF MessageInv, MessageTypeOK
<1>4. MessageTypeOK'
  BY <1>1 DEF MessageInv, MessageTypeOK, Places, Written
<1>5. HasMessage' /\ FirstTaken' /\ RawRecorded'
  BY <1>1, <1>2, <1>3 DEF MessageInv, HasMessage, FirstTaken, RawRecorded
<1>6. FirstRecorded'
  BY <1>1, <1>2, <1>3 DEF MessageInv, FirstRecorded
<1>7. ReasonIsComplete'
  BY <1>1, <1>3 DEF MessageInv, MessageTypeOK, ReasonIsComplete
<1>8. LineWritten' /\ FatalIsOnDisk'
  BY <1>1, <1>2 DEF MessageInv, LineWritten, Written, FatalIsOnDisk
<1>. QED BY <1>4, <1>5, <1>6, <1>7, <1>8 DEF MessageInv

LEMMA PublishReasonKeeps ==
  ASSUME MessageInv, NEW t \in Thread, PublishReason(t)
  PROVE  MessageInv'
<1>1. /\ at[t] = "publish" /\ at' = [at EXCEPT ![t] = "fflush"]
      /\ reason' = IF reason = "none" THEN "log" ELSE reason
      /\ UNCHANGED <<msg, severity, count, exclusive, first, record, once, file, synced>>
  BY DEF PublishReason, SetCrashReason, OrdinaryStep, At, Goto, message, log
<1>2. \A u \in Thread : at'[u] = IF u = t THEN "fflush" ELSE at[u]
  BY <1>1 DEF MessageInv, MessageTypeOK
<1>3. MessageTypeOK'
  BY <1>1 DEF MessageInv, MessageTypeOK, Places, Written
<1>4. HasMessage' /\ FirstTaken'
  BY <1>1, <1>2 DEF MessageInv, HasMessage, FirstTaken
<1>5. RawRecorded'
  BY <1>1, <1>2 DEF MessageInv, RawRecorded
<1>6. FirstRecorded'
  BY <1>1, <1>2 DEF MessageInv, FirstRecorded
<1>7. ReasonIsComplete'
  <2>1. record["log"] = first /\ first # NoMsg
    BY <1>1, FailureAssumption DEF MessageInv, FirstRecorded, HasMessage, Message
  <2>. QED BY <1>1, <2>1 DEF MessageInv, ReasonIsComplete
<1>8. LineWritten' /\ FatalIsOnDisk'
  BY <1>1, <1>2 DEF MessageInv, LineWritten, Written, FatalIsOnDisk
<1>. QED BY <1>3, <1>4, <1>5, <1>6, <1>7, <1>8 DEF MessageInv

LEMMA FlushFilesKeeps ==
  ASSUME MessageInv, NEW t \in Thread, FlushFiles(t)
  PROVE  MessageInv'
<1>1. /\ at[t] = "fflush" /\ at' = [at EXCEPT ![t] = "sinks"]
      /\ synced' = Len(file)
      /\ UNCHANGED <<msg, severity, count, exclusive, first, record, reason, once, file>>
  BY DEF FlushFiles, OrdinaryStep, At, Goto, message, fatal
<1>2. \A u \in Thread : at'[u] = IF u = t THEN "sinks" ELSE at[u]
  BY <1>1 DEF MessageInv, MessageTypeOK
<1>3. synced \in 0 .. Len(file) /\ Len(file) \in Nat
  BY DEF MessageInv, MessageTypeOK
<1>4. MessageTypeOK'
  BY <1>1, <1>3 DEF MessageInv, MessageTypeOK, Places, Flushed
<1>5. HasMessage' /\ FirstTaken' /\ RawRecorded' /\ FirstRecorded' /\ ReasonIsComplete'
  BY <1>1, <1>2 DEF MessageInv, HasMessage, FirstTaken, RawRecorded, FirstRecorded,
                    ReasonIsComplete
<1>6. LineWritten'
  BY <1>1, <1>2 DEF MessageInv, LineWritten, Written
<1>7. FatalIsOnDisk'
  <2>1. 1 .. synced \subseteq 1 .. synced'
    BY <1>1, <1>3
  <2>2. \E i \in 1 .. synced' : file[i] = msg[t]
    BY <1>1 DEF MessageInv, LineWritten, Written
  <2>. QED BY <1>1, <1>2, <2>1, <2>2 DEF MessageInv, FatalIsOnDisk
<1>. QED BY <1>4, <1>5, <1>6, <1>7 DEF MessageInv

LEMMA CallOnceKeeps ==
  ASSUME MessageInv, NEW t \in Thread, CallOnce(t)
  PROVE  MessageInv'
<1>1. /\ at[t] = "once" /\ at' = [at EXCEPT ![t] = "onceSet"]
      /\ once = "unset" /\ once' = "running"
      /\ record' = [record EXCEPT !["raw"] = msg[t]]
      /\ UNCHANGED <<msg, severity, count, exclusive, first, reason, file, synced>>
  BY DEF CallOnce, OrdinaryStep, At, Goto, message, log
<1>2. \A u \in Thread : at'[u] = IF u = t THEN "onceSet" ELSE at[u]
  BY <1>1 DEF MessageInv, MessageTypeOK
<1>3. msg[t] \in Message /\ msg[t] # NoMsg
  BY <1>1, FailureAssumption DEF MessageInv, HasMessage, Message
<1>4. record'["log"] = record["log"] /\ record'["raw"] = msg[t]
  BY <1>1 DEF MessageInv, MessageTypeOK
<1>5. MessageTypeOK'
  <2>1. record' \in [{"log", "raw"} -> Message \cup {NoMsg}]
    BY <1>1, <1>3 DEF MessageInv, MessageTypeOK
  <2>2. at' \in [Thread -> Places]
    BY <1>1 DEF MessageInv, MessageTypeOK, Places
  <2>. QED BY <1>1, <2>1, <2>2 DEF MessageInv, MessageTypeOK
<1>6. HasMessage' /\ FirstTaken' /\ RawRecorded'
  BY <1>1, <1>2, <1>3, <1>4 DEF MessageInv, HasMessage, FirstTaken, RawRecorded
<1>7. FirstRecorded'
  BY <1>1, <1>2, <1>4 DEF MessageInv, FirstRecorded
<1>8. ReasonIsComplete'
  <2>1. reason \in {"none", "log"}
    BY <1>1 DEF MessageInv, MessageTypeOK, RawRecorded
  <2>. QED BY <1>1, <1>4, <2>1 DEF MessageInv, ReasonIsComplete
<1>9. LineWritten' /\ FatalIsOnDisk'
  BY <1>1, <1>2 DEF MessageInv, LineWritten, Written, FatalIsOnDisk
<1>. QED BY <1>5, <1>6, <1>7, <1>8, <1>9 DEF MessageInv

LEMMA OnceReturnsKeeps ==
  ASSUME MessageInv, NEW t \in Thread, OnceReturns(t)
  PROVE  MessageInv'
<1>1. /\ at[t] = "onceSet" /\ at' = [at EXCEPT ![t] = "fail"]
      /\ once' = "done"
      /\ reason' = IF reason = "none" THEN "raw" ELSE reason
      /\ UNCHANGED <<msg, severity, count, exclusive, first, record, file, synced>>
  BY DEF OnceReturns, SetCrashReason, OrdinaryStep, At, Goto, message, log
<1>2. \A u \in Thread : at'[u] = IF u = t THEN "fail" ELSE at[u]
  BY <1>1 DEF MessageInv, MessageTypeOK
<1>3. severity[t] = "RAW" /\ record["raw"] # NoMsg
  BY <1>1 DEF MessageInv, LineWritten, RawRecorded
<1>4. MessageTypeOK'
  BY <1>1 DEF MessageInv, MessageTypeOK, Places, Flushed
<1>5. HasMessage' /\ FirstTaken' /\ RawRecorded' /\ FirstRecorded'
  BY <1>1, <1>2 DEF MessageInv, HasMessage, FirstTaken, RawRecorded, FirstRecorded
<1>6. ReasonIsComplete'
  BY <1>1, <1>3 DEF MessageInv, ReasonIsComplete
<1>7. LineWritten' /\ FatalIsOnDisk'
  BY <1>1, <1>2, <1>3 DEF MessageInv, LineWritten, Written, FatalIsOnDisk
<1>. QED BY <1>4, <1>5, <1>6, <1>7 DEF MessageInv

LEMMA MessagesKept ==
  ASSUME MessageInv, [Next]_vars
  PROVE  MessageInv'
<1>1. CASE SendTerm \/ UNCHANGED vars
  BY <1>1, HandlerKeepsMessages DEF SendTerm, log, vars
<1>2. ASSUME NEW t \in Thread,
             \/ \E sig \in Signal : Deliver(t, sig)
             \/ Fault(t) \/ DumpFault(t)
      PROVE  MessageInv'
  BY <1>2, HandlerKeepsMessages DEF Deliver, Fault, DumpFault, log
<1>3. ASSUME NEW t \in Thread, Handle(t)
      PROVE  MessageInv'
  <2>1. UNCHANGED <<at, message, fatal, file>> /\ synced' \in {synced, Len(file)}
    BY <1>3 DEF Handle, CheckReentry, CasSucceeds, Dump, FlushLogFilesUnsafe,
                InvokeDefaultSignalHandler, Release, Return, ReturnReentered,
                HandlerStep, log
  <2>. QED BY <2>1, HandlerKeepsMessages
<1>4. ASSUME NEW t \in Thread, LogInfo(t)
      PROVE  MessageInv'
  BY <1>4, BeginKeeps DEF LogInfo, Goto, fatal, log
<1>5. ASSUME NEW t \in Thread, LogFatal(t)
      PROVE  MessageInv'
  BY <1>5, BeginKeeps DEF LogFatal, Goto, log
<1>6. ASSUME NEW t \in Thread, RawFatal(t)
      PROVE  MessageInv'
  BY <1>6, BeginKeeps DEF RawFatal, Goto, fatal, log
<1>7. ASSUME NEW t \in Thread, NEW from \in Places, NEW to \in Places,
             at[t] = from, at' = [at EXCEPT ![t] = to],
             UNCHANGED <<msg, severity, count, exclusive, first, record, reason, once,
                         file, synced>>,
             \/ from = "lock" /\ to = "inside"
             \/ from \in {"sinks", "fail"} /\ to = "user"
             \/ from \in {"sinks", "once"} /\ to = "fail"
             \/ from = "fail" /\ to \in {"dump", "abort"}
             \/ from = "dump" /\ to = "abort"
             \/ from = "abort" /\ to = "aborted"
      PROVE  MessageInv'
  BY <1>7, GoKeeps DEF Written, Flushed
<1>8. ASSUME NEW t \in Thread, Lock(t)
      PROVE  MessageInv'
  BY <1>7, <1>8 DEF Lock, OrdinaryStep, At, Goto, message, fatal, Places, Flushed
<1>9. ASSUME NEW t \in Thread, CallSinks(t)
      PROVE  MessageInv'
  <2>1. PICK to \in {"fail", "user"} : OrdinaryStep(t, "sinks", to)
    BY <1>9 DEF CallSinks
  <2>. QED BY <1>7, <1>9, <2>1 DEF CallSinks, OrdinaryStep, At, Goto, message, fatal, log,
                                   Places, Flushed
<1>10. ASSUME NEW t \in Thread, OnceSkipped(t)
       PROVE  MessageInv'
  BY <1>7, <1>10 DEF OnceSkipped, OrdinaryStep, At, Goto, message, fatal, log,
                     Places, Flushed
<1>11. ASSUME NEW t \in Thread, Fail(t)
       PROVE  MessageInv'
  <2>1. PICK to \in {"dump", "abort", "user"} : OrdinaryStep(t, "fail", to)
    BY <1>11, FailureAssumption DEF Fail
  <2>. QED BY <1>7, <1>11, <2>1 DEF Fail, OrdinaryStep, At, Goto, message, fatal, log,
                                    Places, Flushed
<1>12. ASSUME NEW t \in Thread, DumpStackTraceAndExit(t)
       PROVE  MessageInv'
  BY <1>7, <1>12 DEF DumpStackTraceAndExit, At, Goto, message, fatal, log,
                     Places, Flushed
<1>13. ASSUME NEW t \in Thread, Abort(t)
       PROVE  MessageInv'
  BY <1>7, <1>13 DEF Abort, At, Goto, message, fatal, log, Places, Flushed
<1>14. ASSUME NEW t \in Thread, AbortAgain(t)
       PROVE  MessageInv'
  BY <1>14, HandlerKeepsMessages DEF AbortAgain, log
<1>15. ASSUME NEW t \in Thread, Dispatch(t)
       PROVE  MessageInv'
  BY <1>8, <1>9, <1>10, <1>11, <1>12, <1>13, <1>14, <1>15, WriteKeeps, RecordKeeps,
     PublishReasonKeeps, FlushFilesKeeps, CallOnceKeeps, OnceReturnsKeeps DEF Dispatch
<1>. QED BY <1>1, <1>2, <1>3, <1>4, <1>5, <1>6, <1>15 DEF Next

-----------------------------------------------------------------------------
(* Theorems.                                                               *)

LEMMA InitInductive == Init => IInv
<1>. SUFFICES ASSUME Init
             PROVE  IInv
  OBVIOUS
<1>. USE DEF Init
<1>1. FramesTypeOK
  BY DEF FramesTypeOK
<1>2. DumpIsOwned /\ SignalsBlocked
  BY DEF DumpIsOwned, SignalsBlocked, InDump
<1>3. MessageTypeOK
  BY FailureAssumption DEF MessageTypeOK, Places
<1>4. HasMessage /\ FirstRecorded /\ RawRecorded /\ ReasonIsComplete
  BY DEF HasMessage, FirstRecorded, RawRecorded, ReasonIsComplete
<1>5. FirstTaken
  BY Zenon DEF FirstTaken
<1>6. LineWritten /\ FatalIsOnDisk
  BY DEF LineWritten, FatalIsOnDisk, Written
<1>. QED BY <1>1, <1>2, <1>3, <1>4, <1>5, <1>6 DEF IInv, HandlerInv, MessageInv

\* Types, ownership of the dump, blocked signals, and what was recorded,
\* published and written by a thread at each of its places, for any number of
\* threads, messages, signals and faults (FailureSignalHandler, SendToLog,
\* RawLog).
THEOREM InductiveInvariant == Spec => []IInv
BY InitInductive, HandlerKept, MessagesKept, PTL DEF Spec, IInv

\* A thread handles at most one activation per signal: sa_mask is empty, but a
\* handler blocks its own signal.
LEMMA StackIsBounded ==
  ASSUME HandlerInv, NEW t \in Thread
  PROVE  DOMAIN frames[t] \subseteq 1 .. Cardinality(Signal)
<1>1. Cardinality(Signal) = 3
  <2>1. /\ IsFiniteSet({"SEGV"}) /\ Cardinality({"SEGV"}) = 1
    BY FS_Singleton
  <2>2. /\ IsFiniteSet({"SEGV"} \cup {"ABRT"})
        /\ Cardinality({"SEGV"} \cup {"ABRT"}) = 2
    BY <2>1, FS_AddElement
  <2>3. Cardinality(({"SEGV"} \cup {"ABRT"}) \cup {"TERM"}) = 3
    BY <2>2, FS_AddElement
  <2>4. Signal = ({"SEGV"} \cup {"ABRT"}) \cup {"TERM"}
    BY DEF Signal
  <2>. QED BY <2>3, <2>4
<1>2. frames[t] \in Seq(Frame) /\ Len(frames[t]) \in Nat
  BY DEF HandlerInv, FramesTypeOK
<1>3. ~(Len(frames[t]) > 3)
  <2>. SUFFICES ASSUME Len(frames[t]) > 3
               PROVE  FALSE
    OBVIOUS
  <2>1. {1, 2, 3, 4} \subseteq 1 .. Len(frames[t])
    BY <1>2
  <2>2. \A i \in {1, 2, 3, 4} : frames[t][i].signal \in {"SEGV", "ABRT", "TERM"}
    <3>1. \A i \in 1 .. Len(frames[t]) : frames[t][i] \in Frame
      BY <1>2
    <3>2. \A f \in Frame : f.signal \in {"SEGV", "ABRT", "TERM"}
      BY DEF Frame, Signal
    <3>. QED BY <2>1, <3>1, <3>2
  <2>3. \A i, j \in {1, 2, 3, 4} : frames[t][i].signal = frames[t][j].signal => i = j
    BY <2>1 DEF HandlerInv, SignalsBlocked
  <2>. QED BY <2>2, <2>3
<1>. QED BY <1>1, <1>2, <1>3

\* The handler's stack never holds more activations than there are signals, so
\* that Dumping looks at all of them.
THEOREM DumpingMissesNone ==
  Spec => [](\A t \in Thread : DOMAIN frames[t] \subseteq 1 .. Cardinality(Signal))
<1>1. IInv => \A t \in Thread : DOMAIN frames[t] \subseteq 1 .. Cardinality(Signal)
  BY StackIsBounded DEF IInv
<1>. QED BY <1>1, InductiveInvariant, PTL

\* One activation at a time, on whatever thread and however nested, is between
\* taking and releasing the ownership flag.
THEOREM DumpsAreSeparate == Spec => []OneDumpAtATime
<1>1. ASSUME HandlerInv
      PROVE  OneDumpAtATime
  <2>1. \A a \in Dumping : a[1] \in Thread /\ a[2] \in Nat /\ InDump(a[1], a[2])
    BY <1>1 DEF Dumping, InDump, DumpPlaces, HandlerInv, FramesTypeOK
  <2>2. \A a, b \in Dumping : a = b
    <3>1. \A a, b \in Dumping : a[1] = b[1] /\ a[2] = b[2]
      BY <1>1, <2>1 DEF HandlerInv, DumpIsOwned
    <3>. QED BY <3>1 DEF Dumping
  <2>3. CASE Dumping = {}
    BY <2>3, FS_EmptySet DEF OneDumpAtATime
  <2>4. CASE Dumping # {}
    <3>1. PICK a \in Dumping : TRUE
      BY <2>4
    <3>2. Dumping = {a}
      BY <2>2, <3>1
    <3>. QED BY <3>2, FS_Singleton DEF OneDumpAtATime
  <2>. QED BY <2>3, <2>4
<1>2. IInv => OneDumpAtATime
  BY <1>1 DEF IInv
<1>. QED BY <1>2, InductiveInvariant, PTL

\* What g_reason points to is complete: the first fatal message of LOG, or a
\* raw one (RecordCrashReason before SetCrashReason, the call_once of RawLog).
THEOREM ReasonCompletes == Spec => []ReasonIsComplete
<1>1. IInv => ReasonIsComplete
  BY DEF IInv, MessageInv
<1>. QED BY <1>1, InductiveInvariant, PTL

\* The earliest reason stays, and its record is not written again
\* (SetCrashReason).
THEOREM ReasonStays == Spec => ReasonKept
<1>1. ASSUME IInv, [Next]_vars
      PROVE  [reason # "none" => /\ reason' = reason
                                 /\ record'[reason] = record[reason]]_vars
  <2>. SUFFICES ASSUME reason # "none"
               PROVE  reason' = reason /\ record'[reason] = record[reason]
    OBVIOUS
  <2>1. CASE UNCHANGED fatal
    BY <2>1 DEF fatal
  <2>2. ASSUME NEW t \in Thread,
               RecordCrashReason(t) \/ PublishReason(t) \/ CallOnce(t) \/ OnceReturns(t)
        PROVE  reason' = reason /\ record'[reason] = record[reason]
    <3>1. /\ reason' = reason
          /\ \/ record' = record
             \/ at[t] = "record" /\ record' = [record EXCEPT !["log"] = first]
             \/ once = "unset" /\ record' = [record EXCEPT !["raw"] = msg[t]]
      BY <2>2 DEF RecordCrashReason, PublishReason, CallOnce, OnceReturns, SetCrashReason,
                  OrdinaryStep, At
    <3>2. /\ reason = "log" => record["log"] = first
          /\ reason = "raw" => once # "unset"
          /\ reason \in {"log", "raw"}
          /\ record \in [{"log", "raw"} -> Message \cup {NoMsg}]
      BY <1>1 DEF IInv, MessageInv, MessageTypeOK, ReasonIsComplete, RawRecorded
    <3>. QED BY <3>1, <3>2
  <2>3. ASSUME NEW t \in Thread, LogInfo(t) \/ LogFatal(t) \/ RawFatal(t)
        PROVE  reason' = reason /\ record'[reason] = record[reason]
    BY <2>3 DEF LogInfo, LogFatal, RawFatal, fatal
  <2>4. ASSUME NEW t \in Thread,
               \/ \E sig \in Signal : Deliver(t, sig)
               \/ Fault(t) \/ DumpFault(t)
        PROVE  UNCHANGED fatal
    BY <2>4 DEF Deliver, Fault, DumpFault
  <2>5. ASSUME NEW t \in Thread, Handle(t)
        PROVE  UNCHANGED fatal
    BY <2>5 DEF Handle, CheckReentry, CasSucceeds, Dump, FlushLogFilesUnsafe,
                InvokeDefaultSignalHandler, Release, Return, ReturnReentered, HandlerStep
  <2>6. ASSUME NEW t \in Thread, Dispatch(t),
               ~(RecordCrashReason(t) \/ PublishReason(t) \/ CallOnce(t) \/ OnceReturns(t))
        PROVE  UNCHANGED fatal
    BY <2>6 DEF Dispatch, Lock, Write, FlushFiles, CallSinks, OnceSkipped, Fail,
                DumpStackTraceAndExit, Abort, AbortAgain
  <2>7. CASE SendTerm \/ UNCHANGED vars
    BY <2>7, <2>1 DEF SendTerm, vars
  <2>. QED BY <1>1, <2>1, <2>2, <2>3, <2>4, <2>5, <2>6, <2>7 DEF Next
<1>. QED BY <1>1, InductiveInvariant, PTL DEF Spec, ReasonKept

\* A fatal message, with every line before it, is out of the buffer before the
\* failure function runs, whichever thread's message came first.
THEOREM FatalIsFlushed == Spec => []FatalIsOnDisk
<1>1. IInv => FatalIsOnDisk
  BY DEF IInv, MessageInv
<1>. QED BY <1>1, InductiveInvariant, PTL
=============================================================================
