------------------------------ MODULE LogThread ------------------------------
(***************************************************************************)
(* The logging thread of the Async attribute                               *)
(* (src/src/experimental/async.cc): a queue of messages bounded by bytes   *)
(* that one thread drains, waiting for it to drain (FlushLogFiles,         *)
(* ShutdownLogging, a fatal message), program exit and fork.               *)
(*                                                                         *)
(* A critical section of mutex_ is one step.  Notifications are made after *)
(* the lock is released, so each is a step of its own.  A condition        *)
(* variable is the set of threads blocked on it; a woken thread takes the  *)
(* lock and evaluates its predicate in one step.                           *)
(***************************************************************************)
EXTENDS Integers, Sequences, FiniteSets, Functions

CONSTANTS
  Thread,       \* the threads of the application
  LT,           \* the logging thread
  NoMsg,        \* "no message"
  MaxMsgs,      \* bound: messages a thread logs
  Size,         \* Size[n]: the bytes of the n-th message of a thread
  Capacity,     \* kMaxPendingBytes
  ExitThreads,  \* the threads that may call exit(), LT from within a sink
  FatalThreads, \* the threads that may log a fatal message
  MayFork       \* whether a thread may fork; the child is then followed

Message == Thread \X (1 .. MaxMsgs)

ASSUME ThreadAssumption == LT \notin Thread
ASSUME MsgAssumption == MaxMsgs \in Nat /\ NoMsg \notin Message
ASSUME SizeAssumption == Size \in [1 .. MaxMsgs -> Nat]
ASSUME CapacityAssumption == Capacity \in Nat
ASSUME RolesAssumption ==
  /\ ExitThreads \subseteq Thread \cup {LT}
  /\ FatalThreads \subseteq Thread
  /\ MayFork \in BOOLEAN

VARIABLES
  queue,   \* queue_
  bytes,   \* pending_bytes_
  sending, \* sending_
  stopped, \* stopped_
  started, \* thread_ # nullptr
  asleep,  \* asleep[c]: the threads blocked on condition variable c
  pc,      \* where a thread is
  msg,     \* the message a thread passes or sends
  rest,    \* the messages that Stop took from the queue to send itself
  next,    \* next[t]: the number of the next message of t
  exiting, \* exit() has not been called, is in Stop, or is past it
  alive,   \* the process has not ended
  \* History.
  passed,  \* the messages whose call has returned
  sent,    \* the messages that have been sent
  earlier, \* earlier[m]: what had been passed when the call for m began
  awaited  \* awaited[t]: what had been passed when the wait of t began

shared == <<queue, bytes, sending, stopped, started>>
history == <<passed, sent, earlier, awaited>>
vars == <<shared, asleep, pc, msg, rest, next, exiting, alive, history>>

All == Thread \cup {LT}
CV == {"pending", "idle", "space"}
PC == {"user", "enqueue", "notify", "send", "wait", "fatalWait", "fatalSend",
       "exitWait", "exitNotify", "exitSend", "late", "gone",
       "take", "notifySpace", "nested", "finish", "notifyIdle"}

SizeOf(m) == Size[m[2]]
Awake(t) == \A c \in CV : t \notin asleep[c]
Goto(t, l) == pc' = [pc EXCEPT ![t] = l]
Sleep(t, c) == asleep' = [asleep EXCEPT ![c] = @ \cup {t}]

\* The predicates of the waits.
Idle == queue = <<>> /\ ~sending
Fits(m) == bytes + SizeOf(m) <= Capacity
OnLoggingThread(t) == started /\ t = LT

Init ==
  /\ queue = <<>>
  /\ bytes = 0
  /\ sending = FALSE
  /\ stopped = FALSE
  /\ started = FALSE
  /\ asleep = [c \in CV |-> {}]
  /\ pc = [t \in All |-> IF t = LT THEN "gone" ELSE "user"]
  /\ msg = [t \in All |-> NoMsg]
  /\ rest = <<>>
  /\ next = [t \in Thread |-> 1]
  /\ exiting = "no"
  /\ alive = TRUE
  /\ passed = {}
  /\ sent = {}
  /\ earlier = [m \in Message |-> {}]
  /\ awaited = [t \in Thread |-> {}]

-----------------------------------------------------------------------------
\* A condition variable may wake a thread without being notified; the thread
\* then evaluates its predicate again.
SpuriousWakeup(t) ==
  /\ ~Awake(t)
  /\ asleep' = [c \in CV |-> asleep[c] \ {t}]
  /\ UNCHANGED <<shared, pc, msg, rest, next, exiting, alive, history>>

-----------------------------------------------------------------------------
(* Push.                                                                   *)

\* A call with the Async attribute that is not fatal.
Push(t) ==
  /\ pc[t] = "user"
  /\ next[t] <= MaxMsgs
  /\ msg' = [msg EXCEPT ![t] = <<t, next[t]>>]
  /\ next' = [next EXCEPT ![t] = @ + 1]
  /\ earlier' = [earlier EXCEPT ![<<t, next[t]>>] = passed]
  /\ Goto(t, "enqueue")
  /\ UNCHANGED <<shared, asleep, rest, exiting, alive, passed, sent, awaited>>

\* Enqueue after the wait for space: the program exits, so the caller sends
\* the message itself.
EnqueueStopped(t) ==
  /\ pc[t] = "enqueue"
  /\ Awake(t)
  /\ stopped
  /\ Goto(t, "send")
  /\ UNCHANGED <<shared, asleep, msg, rest, next, exiting, alive, history>>

\* Variant: once woken, a caller takes the space for granted.
EnqueueWithoutRecheck(t) ==
  /\ pc[t] = "enqueue"
  /\ Awake(t)
  /\ ~stopped
  /\ Fits(msg[t]) \/ bytes < Capacity
  /\ started' = TRUE
  /\ bytes' = bytes + SizeOf(msg[t])
  /\ queue' = Append(queue, msg[t])
  /\ pc' = [pc EXCEPT ![t] = "notify", ![LT] = IF started THEN @ ELSE "take"]
  /\ UNCHANGED <<sending, stopped, asleep, msg, rest, next, exiting, alive,
                 history>>

\* Enqueue: there is space, the message is queued, and the logging thread is
\* started by the first one.
Enqueue(t) ==
  /\ pc[t] = "enqueue"
  /\ Awake(t)
  /\ ~stopped
  /\ Fits(msg[t])
  /\ started' = TRUE
  /\ bytes' = bytes + SizeOf(msg[t])
  /\ queue' = Append(queue, msg[t])
  /\ pc' = [pc EXCEPT ![t] = "notify", ![LT] = IF started THEN @ ELSE "take"]
  /\ UNCHANGED <<sending, stopped, asleep, msg, rest, next, exiting, alive,
                 history>>

\* Enqueue: there is no space yet.
AwaitSpace(t) ==
  /\ pc[t] = "enqueue"
  /\ Awake(t)
  /\ ~stopped
  /\ ~Fits(msg[t])
  /\ Sleep(t, "space")
  /\ UNCHANGED <<shared, pc, msg, rest, next, exiting, alive, history>>

\* The call returns; what it passed or sent is the caller's no longer.
ReturnFromPush(t) ==
  /\ passed' = passed \cup {msg[t]}
  /\ msg' = [msg EXCEPT ![t] = NoMsg]
  /\ Goto(t, "user")

\* pending_.notify_one(): only the logging thread waits there.
NotifyPending(t) ==
  /\ pc[t] = "notify"
  /\ asleep' = [asleep EXCEPT !["pending"] = {}]
  /\ ReturnFromPush(t)
  /\ UNCHANGED <<shared, rest, next, exiting, alive, sent, earlier, awaited>>

\* Push after Enqueue refused the message.
SendByCaller(t) ==
  /\ t # LT
  /\ pc[t] = "send"
  /\ sent' = sent \cup {msg[t]}
  /\ ReturnFromPush(t)
  /\ UNCHANGED <<shared, asleep, rest, next, exiting, alive, earlier, awaited>>

-----------------------------------------------------------------------------
(* Wait, from FlushLogFiles, ShutdownLogging or a fatal message.           *)

Wait(t) ==
  /\ pc[t] = "user"
  /\ awaited' = [awaited EXCEPT ![t] = passed]
  /\ Goto(t, "wait")
  /\ UNCHANGED <<shared, asleep, msg, rest, next, exiting, alive, passed, sent,
                 earlier>>

\* DispatchDeferred of a fatal message: wait, then send it and abort.
LogFatal(t) ==
  /\ t \in FatalThreads
  /\ pc[t] = "user"
  /\ next[t] <= MaxMsgs
  /\ msg' = [msg EXCEPT ![t] = <<t, next[t]>>]
  /\ next' = [next EXCEPT ![t] = @ + 1]
  /\ earlier' = [earlier EXCEPT ![<<t, next[t]>>] = passed]
  /\ awaited' = [awaited EXCEPT ![t] = passed]
  /\ Goto(t, "fatalWait")
  /\ UNCHANGED <<shared, asleep, rest, exiting, alive, passed, sent>>

\* Variant: an empty queue is enough, the message being sent is forgotten.
WaitIsOverWhenQueueEmpty == queue = <<>> \/ stopped

WaitIsOver == Idle \/ stopped

LeaveWait(t) ==
  /\ pc[t] \in {"wait", "fatalWait"}
  /\ Awake(t)
  /\ WaitIsOver
  /\ Goto(t, IF pc[t] = "wait" THEN "user" ELSE "fatalSend")
  /\ awaited' = [awaited EXCEPT ![t] = {}]
  /\ UNCHANGED <<shared, asleep, msg, rest, next, exiting, alive, passed, sent,
                 earlier>>

SleepInWait(t) ==
  /\ pc[t] \in {"wait", "fatalWait"}
  /\ Awake(t)
  /\ ~WaitIsOver
  /\ Sleep(t, "idle")
  /\ UNCHANGED <<shared, pc, msg, rest, next, exiting, alive, history>>

SendFatal(t) ==
  /\ pc[t] = "fatalSend"
  /\ sent' = sent \cup {msg[t]}
  /\ alive' = FALSE
  /\ UNCHANGED <<shared, asleep, pc, msg, rest, next, exiting, passed, earlier,
                 awaited>>

-----------------------------------------------------------------------------
(* The logging thread: Run, Take and Finish.                               *)

\* Variant: nobody is told that there is space again.
TakeSilently ==
  /\ pc[LT] = "take"
  /\ Awake(LT)
  /\ queue # <<>>
  /\ msg' = [msg EXCEPT ![LT] = Head(queue)]
  /\ queue' = Tail(queue)
  /\ bytes' = bytes - SizeOf(Head(queue))
  /\ sending' = TRUE
  /\ Goto(LT, "send")
  /\ UNCHANGED <<stopped, started, asleep, rest, next, exiting, alive, history>>

Take ==
  /\ pc[LT] = "take"
  /\ Awake(LT)
  /\ queue # <<>>
  /\ msg' = [msg EXCEPT ![LT] = Head(queue)]
  /\ queue' = Tail(queue)
  /\ bytes' = bytes - SizeOf(Head(queue))
  /\ sending' = TRUE
  /\ Goto(LT, "notifySpace")
  /\ UNCHANGED <<stopped, started, asleep, rest, next, exiting, alive, history>>

AwaitMessage ==
  /\ pc[LT] = "take"
  /\ Awake(LT)
  /\ queue = <<>>
  /\ Sleep(LT, "pending")
  /\ UNCHANGED <<shared, pc, msg, rest, next, exiting, alive, history>>

NotifySpace ==
  /\ pc[LT] = "notifySpace"
  /\ asleep' = [asleep EXCEPT !["space"] = {}]
  /\ Goto(LT, "send")
  /\ UNCHANGED <<shared, msg, rest, next, exiting, alive, history>>

\* A sink logs, flushes or waits on the logging thread: OnLoggingThread makes
\* Enqueue and Wait return at once, and the nested message is sent in place.
BeginNestedCall ==
  /\ pc[LT] = "send"
  /\ Goto(LT, "nested")
  /\ UNCHANGED <<shared, asleep, msg, rest, next, exiting, alive, history>>

EndNestedCall ==
  /\ pc[LT] = "nested"
  /\ OnLoggingThread(LT)
  /\ Goto(LT, "send")
  /\ UNCHANGED <<shared, asleep, msg, rest, next, exiting, alive, history>>

SendByThread ==
  /\ pc[LT] = "send"
  /\ sent' = sent \cup {msg[LT]}
  /\ msg' = [msg EXCEPT ![LT] = NoMsg]
  /\ Goto(LT, "finish")
  /\ UNCHANGED <<shared, asleep, rest, next, exiting, alive, passed, earlier,
                 awaited>>

Finish ==
  /\ pc[LT] = "finish"
  /\ sending' = FALSE
  /\ Goto(LT, IF queue = <<>> THEN "notifyIdle" ELSE "take")
  /\ UNCHANGED <<queue, bytes, stopped, started, asleep, msg, rest, next,
                 exiting, alive, history>>

NotifyIdle ==
  /\ pc[LT] = "notifyIdle"
  /\ asleep' = [asleep EXCEPT !["idle"] = {}]
  /\ Goto(LT, "take")
  /\ UNCHANGED <<shared, msg, rest, next, exiting, alive, history>>

-----------------------------------------------------------------------------
(* Stop, which exit() runs.                                                *)

\* exit() is called by a thread of the application, or by a sink on the
\* logging thread, which then does not finish the message it sends.
Exit(t) ==
  /\ t \in ExitThreads
  /\ exiting = "no"
  /\ pc[t] = IF t = LT THEN "send" ELSE "user"
  /\ exiting' = "running"
  /\ Goto(t, "exitWait")
  /\ UNCHANGED <<shared, asleep, msg, rest, next, alive, history>>

SleepInStop(t) ==
  /\ pc[t] = "exitWait"
  /\ Awake(t)
  /\ ~OnLoggingThread(t)
  /\ ~Idle
  /\ Sleep(t, "idle")
  /\ UNCHANGED <<shared, pc, msg, rest, next, exiting, alive, history>>

Stop(t) ==
  /\ pc[t] = "exitWait"
  /\ Awake(t)
  /\ OnLoggingThread(t) \/ Idle
  /\ stopped' = TRUE
  /\ rest' = queue
  /\ queue' = <<>>
  /\ bytes' = 0
  /\ Goto(t, "exitNotify")
  /\ UNCHANGED <<sending, started, asleep, msg, next, exiting, alive, history>>

\* space_ and idle_ are notified.
NotifyStopped(t) ==
  /\ pc[t] = "exitNotify"
  /\ asleep' = [asleep EXCEPT !["space"] = {}, !["idle"] = {}]
  /\ Goto(t, "exitSend")
  /\ UNCHANGED <<shared, msg, rest, next, exiting, alive, history>>

SendRemaining(t) ==
  /\ pc[t] = "exitSend"
  /\ rest # <<>>
  /\ sent' = sent \cup {Head(rest)}
  /\ rest' = Tail(rest)
  /\ UNCHANGED <<shared, asleep, pc, msg, next, exiting, alive, passed, earlier,
                 awaited>>

\* Later exit handlers of an application thread may still log.
LeaveStop(t) ==
  /\ pc[t] = "exitSend"
  /\ rest = <<>>
  /\ exiting' = "done"
  /\ Goto(t, IF t = LT THEN "late" ELSE "user")
  /\ UNCHANGED <<shared, asleep, msg, rest, next, alive, history>>

EndProcess ==
  /\ exiting = "done"
  /\ alive' = FALSE
  /\ UNCHANGED <<shared, asleep, pc, msg, rest, next, exiting, history>>

-----------------------------------------------------------------------------
(* fork() on a thread of the application.  The state becomes the child's:  *)
(* the other threads are gone, ResumeChildAfterFork has abandoned the      *)
(* thread and emptied the queue.  What is pending is the parent's to send. *)

\* Variant: the child keeps the mark of the message its parent sends.
ForkKeepingSending(t) ==
  /\ MayFork
  /\ pc[t] = "user"
  /\ queue' = <<>>
  /\ bytes' = 0
  /\ started' = FALSE
  /\ UNCHANGED <<sending, stopped>>
  /\ pc' = [u \in All |-> IF u = t THEN "user" ELSE "gone"]
  /\ msg' = [u \in All |-> NoMsg]
  /\ asleep' = [c \in CV |-> {}]
  /\ rest' = <<>>
  /\ exiting' = IF exiting = "running" THEN "no" ELSE exiting
  /\ passed' = passed \cap sent
  /\ UNCHANGED <<next, alive, sent, earlier, awaited>>

Fork(t) ==
  /\ MayFork
  /\ pc[t] = "user"
  /\ queue' = <<>>
  /\ bytes' = 0
  /\ sending' = FALSE
  /\ started' = FALSE
  /\ UNCHANGED stopped
  /\ pc' = [u \in All |-> IF u = t THEN "user" ELSE "gone"]
  /\ msg' = [u \in All |-> NoMsg]
  /\ asleep' = [c \in CV |-> {}]
  /\ rest' = <<>>
  /\ exiting' = IF exiting = "running" THEN "no" ELSE exiting
  /\ passed' = passed \cap sent
  /\ UNCHANGED <<next, alive, sent, earlier, awaited>>

-----------------------------------------------------------------------------
\* The steps of a call of the library that has begun.
CallerStep(t) ==
  \/ EnqueueStopped(t) \/ Enqueue(t) \/ AwaitSpace(t)
  \/ NotifyPending(t) \/ SendByCaller(t)
  \/ LeaveWait(t) \/ SleepInWait(t) \/ SendFatal(t)

StopStep(t) ==
  \/ SleepInStop(t) \/ Stop(t) \/ NotifyStopped(t)
  \/ SendRemaining(t) \/ LeaveStop(t)

ThreadStep ==
  \/ Take \/ AwaitMessage \/ NotifySpace \/ EndNestedCall \/ SendByThread
  \/ Finish \/ NotifyIdle

UserStep(t) == Push(t) \/ Wait(t) \/ LogFatal(t) \/ Fork(t)

Next ==
  /\ alive
  /\ \/ \E t \in Thread : CallerStep(t) \/ UserStep(t)
     \/ \E t \in All : StopStep(t) \/ Exit(t) \/ SpuriousWakeup(t)
     \/ ThreadStep
     \/ BeginNestedCall
     \/ EndProcess

Spec == Init /\ [][Next]_vars

\* Every thread is scheduled, and a destination accepts a message some day.
\* User code need not do anything: it may stop logging, never exit, never fork.
Fairness ==
  /\ \A t \in Thread : WF_vars(alive /\ CallerStep(t))
  /\ \A t \in All : WF_vars(alive /\ StopStep(t))
  /\ WF_vars(alive /\ (Take \/ AwaitMessage \/ NotifySpace \/ EndNestedCall
                        \/ Finish \/ NotifyIdle))
  /\ SF_vars(alive /\ SendByThread)

FairSpec == Spec /\ Fairness

-----------------------------------------------------------------------------
\* The bytes of the first i messages of a queue, as far as there is room.
Totals(q) ==
  {sum \in [0 .. Len(q) -> 0 .. Capacity] :
     /\ sum[0] = 0
     /\ \A i \in 1 .. Len(q) : sum[i] = sum[i - 1] + SizeOf(q[i])}

\* pending_bytes_ counts the queued messages, through Stop and fork as well,
\* and callers are held back before it exceeds kMaxPendingBytes.
QueueWithinCapacity == \E sum \in Totals(queue) : bytes = sum[Len(queue)]

\* The liveness properties are about a program in which every thread logs a
\* bounded number of messages: nothing in the code keeps a steady stream of
\* messages from starving a thread that waits for an idle logging thread, or
\* small messages from starving a large one.

\* Enqueue: a caller that waits for space gets it, or is told that the program
\* exits.
PushReturns ==
  \A t \in Thread : pc[t] = "enqueue" ~> (pc[t] # "enqueue" \/ ~alive)

\* Wait and Stop: a thread that flushes or exits gets past the wait, in the
\* child of a fork as well, where no logging thread exists to notify it.
WaitReturns ==
  \A t \in Thread :
    pc[t] \in {"wait", "exitWait"} ~> (pc[t] \notin {"wait", "exitWait"}
                                         \/ ~alive)

\* The contract: a message is held by the queue, by the logging thread, or by
\* Stop, which took it from the queue.
Held == Range(queue) \cup Range(rest) \cup ({msg[LT]} \ {NoMsg})
\* exit() runs within a sink.
Leaving == pc[LT] \in {"exitWait", "exitNotify", "exitSend", "late"}
Abandoned == IF Leaving THEN {msg[LT]} ELSE {}
Waiting == {t \in Thread : pc[t] \in {"wait", "fatalWait"}}
Closed == exiting = "done"

Promise ==
  INSTANCE AsyncContract WITH
    held <- Held, abandoned <- Abandoned, waiting <- Waiting, closed <- Closed

\* Push, Wait, Stop and the fork handlers keep what experimental/log.h says of
\* the Async attribute: every message is sent once, "in the order they were
\* passed", WaitForPendingMessages waits "until the logging thread sent the
\* messages passed so far", an orderly exit and a fatal message lose none, and
\* what was passed is sent.
PromiseKept == Promise!Contract
=============================================================================
