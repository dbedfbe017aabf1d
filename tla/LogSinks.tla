------------------------------ MODULE LogSinks ------------------------------
(***************************************************************************)
(* The registry of log sinks of LogDestination (src/src/logging.cc):       *)
(* AddLogSink, RemoveLogSink, the calls a message makes to the registered  *)
(* sinks (LogToSinks, WaitForSinks) and the sink part of ShutdownLogging   *)
(* (DeleteLogDestinations).                                                *)
(*                                                                         *)
(* The list of sinks is replaced under sink_mutex_ (and, for the           *)
(* replacement itself, sink_call_mutex_); a message takes a snapshot of    *)
(* it, calls the sinks with no lock held, and counts each call under       *)
(* sink_call_mutex_ so that RemoveLogSink can wait for it to end.  A       *)
(* callback is user code: it may log, add or remove sinks, or throw.       *)
(*                                                                         *)
(* A critical section of sink_call_mutex_ is one step.  sink_mutex_ is     *)
(* held over two steps (replace sinks_, store sinks_present_), so it has   *)
(* an owner here; its shared holders only copy a pointer, one step.        *)
(***************************************************************************)
EXTENDS Naturals, Sequences, FiniteSets

CONSTANTS
  Thread,           \* the threads that use the library
  Sink,             \* the LogSink objects
  NoThread, NoSink, \* "nobody" and "no sink"
  CallbackRemoves,  \* CallbackRemoves[s]: the sinks that s's callbacks remove
  ShutdownThreads,  \* the threads that may call ShutdownLogging
  MaxAdds,          \* bound: AddLogSink calls of a behaviour
  MaxDepth          \* bound: callbacks nested on one thread

ASSUME ThreadAssumption == IsFiniteSet(Thread) /\ NoThread \notin Thread
ASSUME SinkAssumption == NoSink \notin Sink
ASSUME CallbackAssumption == CallbackRemoves \in [Sink -> SUBSET Sink]
ASSUME ShutdownAssumption == ShutdownThreads \subseteq Thread
ASSUME BoundAssumption == MaxAdds \in Nat /\ MaxDepth \in Nat

VARIABLES
  \* The registry.
  sinks,       \* *sinks_: the registrations, pairs <<ticket, sink>> whose
               \* tickets give the order of the vector
  allocated,   \* sinks_ # nullptr
  present,     \* sinks_present_
  writer,      \* the exclusive owner of sink_mutex_
  adds,        \* the tickets handed out
  \* The calls, all under sink_call_mutex_.
  calls,       \* sink_call_counts_ (0 stands for an absent entry)
  threadCalls, \* sink_call_counts_for_thread, per thread
  waiting,     \* sink_waiting_call_counts_
  asleep,      \* the threads blocked in sink_call_cond_.wait()
  \* The threads.
  pc,          \* where the innermost library call of a thread is
  phase,       \* "send" in LogToSinks, "wait" in WaitForSinks
  rest,        \* the part of the snapshot its loop has not reached
  arg,         \* the sink that AddLogSink or RemoveLogSink is about
  stack,       \* the callbacks a thread is in, outermost first
  \* History.
  retired      \* the sinks whose removal is complete: see Retire

registry == <<sinks, allocated, present, writer, adds>>
counts == <<calls, threadCalls, waiting, asleep>>
control == <<pc, phase, rest, arg, stack>>
vars == <<registry, counts, control, retired>>

Ticket == 1 .. MaxAdds
Registration == Ticket \X Sink
Phase == {"send", "wait"}
PC == {"user", "recheck", "get", "loop", "addStore", "removeStore", "count",
       "waitOut", "waitIn", "deleteStore", "countAll", "waitAll"}
Frame == [sink : Sink, rest : SUBSET Registration, phase : Phase]

Registered == {r[2] : r \in sinks}

\* The calls of s in progress: a thread and the depth of its callback.
CallsOf(t, s) == {d \in DOMAIN stack[t] : stack[t][d].sink = s}
Active(s) == {c \in Thread \X (1 .. MaxDepth) : c[2] \in CallsOf(c[1], s)}

\* The user code that thread t runs: outside of callbacks, or in a callback
\* of Top(t).
InUserCode(t) == pc[t] = "user"
InCallback(t) == stack[t] # <<>>
Top(t) == stack[t][Len(stack[t])]

Goto(t, l) == pc' = [pc EXCEPT ![t] = l]

Init ==
  /\ sinks = {}
  /\ allocated = FALSE
  /\ present = FALSE
  /\ writer = NoThread
  /\ adds = 0
  /\ calls = [s \in Sink |-> 0]
  /\ threadCalls = [t \in Thread |-> [s \in Sink |-> 0]]
  /\ waiting = [s \in Sink |-> 0]
  /\ asleep = {}
  /\ pc = [t \in Thread |-> "user"]
  /\ phase = [t \in Thread |-> "send"]
  /\ rest = [t \in Thread |-> {}]
  /\ arg = [t \in Thread |-> NoSink]
  /\ stack = [t \in Thread |-> <<>>]
  /\ retired = {}

-----------------------------------------------------------------------------
(* AddLogSink.                                                             *)

\* sink_mutex_ is taken, the list copied, extended and published under
\* sink_call_mutex_.
AddLogSink(t, s) ==
  /\ InUserCode(t)
  /\ writer = NoThread
  /\ adds < MaxAdds
  /\ adds' = adds + 1
  /\ sinks' = sinks \cup {<<adds + 1, s>>}
  /\ allocated' = TRUE
  /\ writer' = t
  /\ Goto(t, "addStore")
  /\ retired' = retired \ {s}
  /\ UNCHANGED <<present, counts, phase, rest, arg, stack>>

\* sinks_present_ is stored and sink_mutex_ released.
AddStore(t) ==
  /\ pc[t] = "addStore"
  /\ present' = TRUE
  /\ writer' = NoThread
  /\ Goto(t, "user")
  /\ UNCHANGED <<sinks, allocated, adds, counts, phase, rest, arg, stack,
                 retired>>

-----------------------------------------------------------------------------
(* RemoveLogSink.                                                          *)

MayRemove(t, s) == InCallback(t) => s \in CallbackRemoves[Top(t).sink]

\* Every registration of the sink is erased; with no list there is nothing to
\* replace and sink_mutex_ is released at once.
RemoveLogSink(t, s) ==
  /\ InUserCode(t)
  /\ MayRemove(t, s)
  /\ writer = NoThread
  /\ arg' = [arg EXCEPT ![t] = s]
  /\ \/ /\ allocated
        /\ sinks' = {r \in sinks : r[2] # s}
        /\ writer' = t
        /\ Goto(t, "removeStore")
     \/ /\ ~allocated
        /\ Goto(t, "count")
        /\ UNCHANGED <<sinks, writer>>
  /\ UNCHANGED <<allocated, present, adds, counts, phase, rest, stack,
                 retired>>

\* Variant: the flag is cleared without looking at what is left.
RemoveStoreAlwaysAbsent(t) ==
  /\ pc[t] = "removeStore"
  /\ present' = FALSE
  /\ writer' = NoThread
  /\ Goto(t, "count")
  /\ UNCHANGED <<sinks, allocated, adds, counts, phase, rest, arg, stack,
                 retired>>

RemoveStore(t) ==
  /\ pc[t] = "removeStore"
  /\ present' = (sinks # {})
  /\ writer' = NoThread
  /\ Goto(t, "count")
  /\ UNCHANGED <<sinks, allocated, adds, counts, phase, rest, arg, stack,
                 retired>>

\* What thread t waits for.  In the code the two waits of WaitForSinkCalls and
\* the wait of WaitForAllSinkCalls.
AllCallsEnded(s) == calls[s] = 0
OnlyWaitersLeft(s) == calls[s] = waiting[s]
OnlyOwnCallsLeft(t) == \A s \in Sink : calls[s] = threadCalls[t][s]

Ready(t) ==
  CASE pc[t] = "waitOut" -> AllCallsEnded(arg[t])
    [] pc[t] = "waitIn"  -> OnlyWaitersLeft(arg[t])
    [] pc[t] = "waitAll" -> OnlyOwnCallsLeft(t)
    [] OTHER             -> TRUE

\* History: a removal from outside of the sinks' callbacks is complete when it
\* returns, unless the sink was registered again in the meantime.  From here
\* on its owner may destroy the sink.
Retire(S) == retired' = retired \cup (S \ Registered)

ReturnFromRemove(t) ==
  /\ Goto(t, "user")
  /\ arg' = [arg EXCEPT ![t] = NoSink]

\* WaitForSinkCalls on a thread that is in no callback of the sink.
WaitForSinkCallsOutside(t) ==
  /\ pc[t] = "count"
  /\ threadCalls[t][arg[t]] = 0
  /\ \/ /\ AllCallsEnded(arg[t])
        /\ ReturnFromRemove(t)
        /\ Retire({arg[t]})
        /\ UNCHANGED asleep
     \/ /\ ~AllCallsEnded(arg[t])
        /\ Goto(t, "waitOut")
        /\ asleep' = asleep \cup {t}
        /\ UNCHANGED <<arg, retired>>
  /\ UNCHANGED <<registry, calls, threadCalls, waiting, phase, rest, stack>>

\* Variant: only the thread's own calls are excepted, those of other threads
\* that wait in a callback are not.
WaitForSinkCallsInsideUnannounced(t) ==
  /\ pc[t] = "count"
  /\ LET s == arg[t]
         own == threadCalls[t][s]
     IN /\ own > 0
        /\ \/ /\ calls[s] = own
              /\ ReturnFromRemove(t)
              /\ asleep' = {}
           \/ /\ calls[s] # own
              /\ Goto(t, "waitIn")
              /\ asleep' = {t}
              /\ UNCHANGED arg
  /\ UNCHANGED <<registry, calls, threadCalls, waiting, phase, rest, stack,
                 retired>>

\* Variant: a thread that is in a callback of the sink does not wait at all.
WaitForSinkCallsInsideReturns(t) ==
  /\ pc[t] = "count"
  /\ threadCalls[t][arg[t]] > 0
  /\ ReturnFromRemove(t)
  /\ UNCHANGED <<registry, counts, phase, rest, stack, retired>>

\* WaitForSinkCalls on a thread that is in a callback of the sink: its own
\* calls are announced as waiting, every sleeper is notified, and the wait is
\* for the calls of threads that do not wait themselves.
WaitForSinkCallsInside(t) ==
  /\ pc[t] = "count"
  /\ LET s == arg[t]
         own == threadCalls[t][s]
     IN /\ own > 0
        /\ \/ /\ calls[s] = waiting[s] + own
              /\ ReturnFromRemove(t)
              /\ asleep' = {}
              /\ UNCHANGED waiting
           \/ /\ calls[s] # waiting[s] + own
              /\ waiting' = [waiting EXCEPT ![s] = @ + own]
              /\ Goto(t, "waitIn")
              /\ asleep' = {t}
              /\ UNCHANGED arg
  /\ UNCHANGED <<registry, calls, threadCalls, phase, rest, stack, retired>>

\* A woken thread holds sink_call_mutex_ again and evaluates its predicate.
\* When the predicate is false it sleeps on.
SleepOn(t) ==
  /\ pc[t] \in {"waitOut", "waitIn", "waitAll"}
  /\ t \notin asleep
  /\ ~Ready(t)
  /\ asleep' = asleep \cup {t}
  /\ UNCHANGED <<registry, calls, threadCalls, waiting, control, retired>>

LeaveWaitOutside(t) ==
  /\ pc[t] = "waitOut"
  /\ t \notin asleep
  /\ Ready(t)
  /\ ReturnFromRemove(t)
  /\ Retire({arg[t]})
  /\ UNCHANGED <<registry, counts, phase, rest, stack>>

LeaveWaitInside(t) ==
  /\ pc[t] = "waitIn"
  /\ t \notin asleep
  /\ Ready(t)
  /\ waiting' = [waiting EXCEPT ![arg[t]] = @ - threadCalls[t][arg[t]]]
  /\ ReturnFromRemove(t)
  /\ UNCHANGED <<registry, calls, threadCalls, asleep, phase, rest, stack,
                 retired>>

\* std::condition_variable may wake a thread for no reason.
SpuriousWakeup(t) ==
  /\ t \in asleep
  /\ asleep' = asleep \ {t}
  /\ UNCHANGED <<registry, calls, threadCalls, waiting, control, retired>>

-----------------------------------------------------------------------------
(* A message to the registered sinks: LogToSinks and, when that found no   *)
(* list, the WaitForSinks that LogMessage::Flush makes afterwards.         *)

\* GetSinks of LogToSinks reads the flag without a lock; with the flag false
\* there is no list, and WaitForSinks is next.
LogMessage(t) ==
  /\ InUserCode(t)
  /\ Len(stack[t]) < MaxDepth
  /\ phase' = [phase EXCEPT ![t] = IF present THEN "send" ELSE "wait"]
  /\ Goto(t, IF present THEN "get" ELSE "recheck")
  /\ UNCHANGED <<registry, counts, rest, arg, stack, retired>>

\* GetSinks of WaitForSinks.
WaitForSinks(t) ==
  /\ pc[t] = "recheck"
  /\ Goto(t, IF present THEN "get" ELSE "user")
  /\ phase' = [phase EXCEPT ![t] = IF present THEN @ ELSE "send"]
  /\ UNCHANGED <<registry, counts, rest, arg, stack, retired>>

\* The locked half of GetSinks: the list is shared with the message.
GetSinks(t) ==
  /\ pc[t] = "get"
  /\ writer = NoThread
  /\ \/ /\ allocated
        /\ rest' = [rest EXCEPT ![t] = sinks]
        /\ Goto(t, "loop")
        /\ UNCHANGED phase
     \/ /\ ~allocated
        /\ phase[t] = "send"
        /\ phase' = [phase EXCEPT ![t] = "wait"]
        /\ Goto(t, "recheck")
        /\ UNCHANGED rest
     \/ /\ ~allocated
        /\ phase[t] = "wait"
        /\ phase' = [phase EXCEPT ![t] = "send"]
        /\ Goto(t, "user")
        /\ UNCHANGED rest
  /\ UNCHANGED <<registry, counts, arg, stack, retired>>

\* The sinks are called from the last one to the first one.
IsLast(r, R) == r \in R /\ \A q \in R : q[1] <= r[1]

\* Variant: the snapshot is trusted, the sink is called although it may have
\* been removed since.
BeginSinkCallFromSnapshot(t) ==
  /\ pc[t] = "loop"
  /\ \E r \in rest[t] :
       LET s == r[2] IN
       /\ IsLast(r, rest[t])
       /\ calls' = [calls EXCEPT ![s] = @ + 1]
       /\ threadCalls' = [threadCalls EXCEPT ![t][s] = @ + 1]
       /\ stack' = [stack EXCEPT ![t] =
            Append(@, [sink |-> s, rest |-> rest[t] \ {r},
                       phase |-> phase[t]])]
       /\ rest' = [rest EXCEPT ![t] = {}]
  /\ phase' = [phase EXCEPT ![t] = "send"]
  /\ Goto(t, "user")
  /\ UNCHANGED <<registry, waiting, asleep, arg, retired>>

\* BeginSinkCall of a sink that is still registered: the call is counted and
\* the callback runs.
BeginSinkCall(t) ==
  /\ pc[t] = "loop"
  /\ \E r \in rest[t] :
       LET s == r[2] IN
       /\ IsLast(r, rest[t])
       /\ s \in Registered
       /\ calls' = [calls EXCEPT ![s] = @ + 1]
       /\ threadCalls' = [threadCalls EXCEPT ![t][s] = @ + 1]
       /\ stack' = [stack EXCEPT ![t] =
            Append(@, [sink |-> s, rest |-> rest[t] \ {r},
                       phase |-> phase[t]])]
       /\ rest' = [rest EXCEPT ![t] = {}]
  /\ phase' = [phase EXCEPT ![t] = "send"]
  /\ Goto(t, "user")
  /\ UNCHANGED <<registry, waiting, asleep, arg, retired>>

\* BeginSinkCall of a sink removed since the snapshot: it is skipped.
SkipRemovedSink(t) ==
  /\ pc[t] = "loop"
  /\ \E r \in rest[t] :
       /\ IsLast(r, rest[t])
       /\ r[2] \notin Registered
       /\ rest' = [rest EXCEPT ![t] = @ \ {r}]
  /\ UNCHANGED <<registry, counts, pc, phase, arg, stack, retired>>

\* The loop is done.  After LogToSinks the registered sinks have been waited
\* for, so Flush does not wait for them again.
EndLoop(t) ==
  /\ pc[t] = "loop"
  /\ rest[t] = {}
  /\ phase' = [phase EXCEPT ![t] = "send"]
  /\ Goto(t, "user")
  /\ UNCHANGED <<registry, counts, rest, arg, stack, retired>>

Pop(q) == SubSeq(q, 1, Len(q) - 1)

\* Variant: nobody is told that a call ended.
CountEndOfCallSilently(t, s) ==
  /\ calls' = [calls EXCEPT ![s] = @ - 1]
  /\ threadCalls' = [threadCalls EXCEPT ![t][s] = @ - 1]
  /\ UNCHANGED asleep

\* Variant: the thread's own count is forgotten.
CountEndOfCallGloballyOnly(t, s) ==
  /\ calls' = [calls EXCEPT ![s] = @ - 1]
  /\ asleep' = {}
  /\ UNCHANGED threadCalls

\* EndSinkCall: both counts go down and every sleeper is notified.
CountEndOfCall(t, s) ==
  /\ calls' = [calls EXCEPT ![s] = @ - 1]
  /\ threadCalls' = [threadCalls EXCEPT ![t][s] = @ - 1]
  /\ asleep' = {}

\* The callback returns, the guard ends the call, and the loop goes on.
EndSinkCall(t) ==
  /\ InUserCode(t)
  /\ InCallback(t)
  /\ CountEndOfCall(t, Top(t).sink)
  /\ stack' = [stack EXCEPT ![t] = Pop(@)]
  /\ rest' = [rest EXCEPT ![t] = Top(t).rest]
  /\ phase' = [phase EXCEPT ![t] = Top(t).phase]
  /\ Goto(t, "loop")
  /\ UNCHANGED <<registry, waiting, arg, retired>>

\* The callback throws: the guard ends the call while the exception leaves the
\* loop, and the rest of the snapshot is not called.
ThrowFromCallback(t) ==
  /\ InUserCode(t)
  /\ InCallback(t)
  /\ CountEndOfCall(t, Top(t).sink)
  /\ stack' = [stack EXCEPT ![t] = Pop(@)]
  /\ UNCHANGED <<registry, waiting, pc, phase, rest, arg, retired>>

-----------------------------------------------------------------------------
(* ShutdownLogging: the sinks' part of DeleteLogDestinations.              *)

DeleteLogDestinations(t) ==
  /\ t \in ShutdownThreads
  /\ InUserCode(t)
  /\ writer = NoThread
  /\ sinks' = {}
  /\ allocated' = FALSE
  /\ writer' = t
  /\ Goto(t, "deleteStore")
  /\ UNCHANGED <<present, adds, counts, phase, rest, arg, stack, retired>>

DeleteStore(t) ==
  /\ pc[t] = "deleteStore"
  /\ present' = FALSE
  /\ writer' = NoThread
  /\ Goto(t, "countAll")
  /\ UNCHANGED <<sinks, allocated, adds, counts, phase, rest, arg, stack,
                 retired>>

\* The sinks that no thread calls any more once only the calls of t are left.
NotCalledBy(t) == {s \in Sink : threadCalls[t][s] = 0}

WaitForAllSinkCalls(t) ==
  /\ pc[t] = "countAll"
  /\ \/ /\ OnlyOwnCallsLeft(t)
        /\ Goto(t, "user")
        /\ Retire(NotCalledBy(t))
        /\ UNCHANGED asleep
     \/ /\ ~OnlyOwnCallsLeft(t)
        /\ Goto(t, "waitAll")
        /\ asleep' = asleep \cup {t}
        /\ UNCHANGED retired
  /\ UNCHANGED <<registry, calls, threadCalls, waiting, phase, rest, arg,
                 stack>>

LeaveWaitAll(t) ==
  /\ pc[t] = "waitAll"
  /\ t \notin asleep
  /\ Ready(t)
  /\ Goto(t, "user")
  /\ Retire(NotCalledBy(t))
  /\ UNCHANGED <<registry, counts, phase, rest, arg, stack>>

-----------------------------------------------------------------------------
\* The steps of a library call that has begun.
LibraryStep(t) ==
  \/ AddStore(t)
  \/ RemoveStore(t)
  \/ WaitForSinkCallsOutside(t)
  \/ WaitForSinkCallsInside(t)
  \/ SleepOn(t)
  \/ LeaveWaitOutside(t)
  \/ LeaveWaitInside(t)
  \/ WaitForSinks(t)
  \/ GetSinks(t)
  \/ BeginSinkCall(t)
  \/ SkipRemovedSink(t)
  \/ EndLoop(t)
  \/ DeleteStore(t)
  \/ WaitForAllSinkCalls(t)
  \/ LeaveWaitAll(t)

\* What user code does next.
UserStep(t) ==
  \/ \E s \in Sink : AddLogSink(t, s) \/ RemoveLogSink(t, s)
  \/ LogMessage(t)
  \/ EndSinkCall(t)
  \/ ThrowFromCallback(t)
  \/ DeleteLogDestinations(t)

Next == \E t \in Thread : LibraryStep(t) \/ UserStep(t) \/ SpuriousWakeup(t)

Spec == Init /\ [][Next]_vars

\* A thread is scheduled, sink_mutex_ does not starve it (the only step of a
\* library call that can be blocked and unblocked again is GetSinks), and a
\* callback that keeps getting control back, from nested ones as well, returns
\* some day.
Fairness ==
  \A t \in Thread :
    /\ WF_vars(LibraryStep(t))
    /\ SF_vars(GetSinks(t))
    /\ \A d \in 1 .. MaxDepth :
         SF_vars(Len(stack[t]) = d /\ (EndSinkCall(t) \/ ThrowFromCallback(t)))

FairSpec == Spec /\ Fairness

-----------------------------------------------------------------------------
\* Every field has its type; the counts, unsigned in the code, never pass zero
\* on their way down.
TypeOK ==
  /\ sinks \subseteq Registration
  /\ allocated \in BOOLEAN
  /\ present \in BOOLEAN
  /\ writer \in Thread \cup {NoThread}
  /\ adds \in 0 .. MaxAdds
  /\ calls \in [Sink -> Nat]
  /\ threadCalls \in [Thread -> [Sink -> Nat]]
  /\ waiting \in [Sink -> Nat]
  /\ asleep \subseteq Thread
  /\ pc \in [Thread -> PC]
  /\ phase \in [Thread -> Phase]
  /\ rest \in [Thread -> SUBSET Registration]
  /\ arg \in [Thread -> Sink \cup {NoSink}]
  /\ stack \in [Thread -> Seq(Frame)]
  /\ \A t \in Thread : Len(stack[t]) <= MaxDepth
  /\ retired \subseteq Sink

\* The calls of s by threads that wait for the calls of s to end.
WaitsInside(t, s) == pc[t] = "waitIn" /\ arg[t] = s
WaitingCalls(s) == {c \in Active(s) : WaitsInside(c[1], s)}

\* The three counts are the numbers of calls they stand for: the CHECKs of
\* EndSinkCall (the entry exists and is positive) cannot fail, and the two
\* waits of WaitForSinkCalls compare numbers of calls, whatever interleaving,
\* nesting or exception led there.
CountsMatchCalls ==
  \A s \in Sink :
    /\ calls[s] = Cardinality(Active(s))
    /\ waiting[s] = Cardinality(WaitingCalls(s))
    /\ \A t \in Thread : threadCalls[t][s] = Cardinality(CallsOf(t, s))

\* The lock-free check of sinks_present_ misses no sink: the flag is false
\* only when nothing is registered or the first AddLogSink has not returned.
PresentFlagMissesNoSink ==
  ~present => \/ sinks = {}
              \/ /\ writer # NoThread
                 /\ pc[writer] = "addStore"
                 /\ Cardinality(sinks) = 1

\* After RemoveLogSink (or ShutdownLogging) returned to a thread that is not
\* in a callback of the sink, no thread is in the sink or enters it, until it
\* is registered again: "RemoveLogSink() returns once no other thread calls
\* the sink", and its owner may destroy it.
RetiredSinksAreNotCalled ==
  \A s \in retired : s \notin Registered /\ Active(s) = {}

\* No wakeup of sink_call_cond_ is lost: while a thread sleeps on it, what it
\* waits for is false.  (waiting goes down without a notification.)
NoLostWakeup == \A t \in asleep : ~Ready(t)

\* When RemoveLogSink returns to a thread inside a callback of the sink, the
\* other calls of the sink are by threads that remove it from within its
\* callback as well.
ReturnsInside(t, s) ==
  /\ pc[t] \in {"count", "waitIn"}
  /\ pc'[t] = "user"
  /\ arg[t] = s
  /\ CallsOf(t, s) # {}

RemovalInsideWaitsForOthers ==
  [][\A t \in Thread, s \in Sink :
       ReturnsInside(t, s) =>
         \A c \in Active(s) : c[1] = t \/ WaitsInside(c[1], s)]_vars

\* A removal that has to wait does return, if nobody registers the sink again:
\* the calls it waits for end, and their end wakes it.
WaitsFor(t, s) == pc[t] \in {"waitOut", "waitIn"} /\ arg[t] = s

RemovalReturns ==
  \A t \in Thread, s \in Sink :
    WaitsFor(t, s) ~> (~WaitsFor(t, s) \/ s \in Registered)

=============================================================================
