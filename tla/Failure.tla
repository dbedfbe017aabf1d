------------------------------- MODULE Failure -------------------------------
(***************************************************************************)
(* How a process that uses ng-log dies: fatal messages (LogMessage::Init,  *)
(* Flush, SendToLog, Fail; RawLog; DumpStackTraceAndExit) and the failure  *)
(* signal handler (src/src/signalhandler.cc), which may interrupt a thread *)
(* anywhere, also inside a message and inside the handler itself.          *)
(*                                                                         *)
(* A thread has its ordinary code (at[t]) and a stack of handler           *)
(* activations (frames[t]) that run on top of it; a step of ordinary code  *)
(* is possible only with no activation.  A signal is blocked on a thread   *)
(* while the thread runs the handler for it (sa_mask is empty, there is no *)
(* SA_NODEFER).  The log file is the sequence of its lines, of which the   *)
(* first `synced` have left the stdio buffer; its stdio lock is `stream`.  *)
(***************************************************************************)
EXTENDS Naturals, Sequences, FiniteSets, Functions

CONSTANTS
  Thread,
  NoThread, NoMsg,
  Logs,          \* Logs[t]: the messages t logs, of "INFO", "FATAL" and "RAW"
  FailFunctions, \* what the installed failure function may do: a subset of
                 \* "dump" (DumpStackTraceAndExit), "return" and "throw"
  MaxMsgs,       \* bound: messages of a thread
  MaxTerms,      \* bound: SIGTERMs sent to the process
  MaxFaults      \* bound: faults in ordinary code and in dumps

ASSUME FailureAssumption ==
  /\ NoThread \notin Thread
  /\ NoMsg \notin Thread \X (1 .. MaxMsgs)
  /\ Logs \in [Thread -> SUBSET {"INFO", "FATAL", "RAW"}]
  /\ FailFunctions \subseteq {"dump", "return", "throw"}
  /\ {MaxMsgs, MaxTerms, MaxFaults} \subseteq Nat

VARIABLES
  \* The process.
  alive,
  isInit,      \* it is PID 1: default dispositions of sent signals are ignored
  disposition, \* of every signal: "handler" or "default"
  pending,     \* the signals sent to the process and not yet delivered
  terms, faults,
  \* The handler.
  owned,       \* g_failure_signal_handler_entered
  entered,     \* t_failure_signal_handler_entered of every thread
  frames,      \* the activations: records of signal and pc, outermost first
  faulting,    \* the ordinary code of the thread is at a faulting instruction
  \* Messages.
  at,          \* where the ordinary code is
  msg,         \* the message it logs: <<thread, number>>
  severity,    \* of that message
  count,       \* messages begun
  exclusive,   \* fatal_msg_exclusive
  first,       \* the message in fatal_msg_data_exclusive
  record,      \* crash_reason of logging.cc and of raw_logging.cc
  reason,      \* g_reason: which record it points to
  once,        \* crashed, the std::once_flag
  \* The log.
  logMutex,    \* owner of log_mutex
  stream,      \* owner of the stdio lock of the log file
  file, synced

process == <<alive, isInit, disposition, pending, terms, faults>>
handler == <<owned, entered, frames, faulting>>
fatal == <<exclusive, first, record, reason, once>>
log == <<logMutex, stream, file, synced>>
message == <<msg, severity, count>>
vars == <<process, handler, at, message, fatal, log>>

Signal == {"SEGV", "ABRT", "TERM"}   \* of kFailureSignals
Message == Thread \X (1 .. MaxMsgs)
Blocked(t) == {f.signal : f \in Range(frames[t])}
Top(t) == frames[t][Len(frames[t])]
Push(t, sig) ==
  frames' = [frames EXCEPT ![t] = Append(@, [signal |-> sig, pc |-> "check"])]
Pop(t) == frames' = [frames EXCEPT ![t] = SubSeq(@, 1, Len(@) - 1)]

At(t, l) == alive /\ frames[t] = <<>> /\ at[t] = l
Goto(t, l) == at' = [at EXCEPT ![t] = l]
In(t, l) == alive /\ frames[t] # <<>> /\ Top(t).pc = l
Move(t, l) == frames' = [frames EXCEPT ![t][Len(frames[t])].pc = l]

Init ==
  /\ alive = TRUE
  /\ isInit \in BOOLEAN
  /\ disposition = [s \in Signal |-> "handler"]
  /\ pending = {} /\ terms = 0 /\ faults = 0
  /\ owned = FALSE
  /\ entered = [t \in Thread |-> FALSE]
  /\ frames = [t \in Thread |-> <<>>]
  /\ faulting = [t \in Thread |-> FALSE]
  /\ at = [t \in Thread |-> "user"]
  /\ msg = [t \in Thread |-> NoMsg]
  /\ severity = [t \in Thread |-> "INFO"]
  /\ count = [t \in Thread |-> 0]
  /\ exclusive = TRUE
  /\ first = NoMsg
  /\ record = [r \in {"log", "raw"} |-> NoMsg]
  /\ reason = "none"
  /\ once = "unset"
  /\ logMutex = NoThread /\ stream = NoThread
  /\ file = <<>> /\ synced = 0

-----------------------------------------------------------------------------
(* Signals, as the system delivers them.                                   *)

Die == alive' = FALSE

\* kill(getpid(), SIGTERM) by somebody else.
SendTerm ==
  /\ alive /\ terms < MaxTerms
  /\ terms' = terms + 1
  /\ pending' = pending \cup {"TERM"}
  /\ UNCHANGED <<alive, isInit, disposition, faults, handler, at, message,
                 fatal, log>>

\* A pending signal is taken by a thread that does not block it.  The default
\* action of every signal here ends the process, except for PID 1.
Deliver(t, sig) ==
  /\ alive /\ sig \in pending \ Blocked(t)
  /\ pending' = pending \ {sig}
  /\ \/ /\ disposition[sig] = "handler"
        /\ Push(t, sig)
        /\ UNCHANGED alive
     \/ /\ disposition[sig] = "default"
        /\ alive' = isInit
        /\ UNCHANGED frames
  /\ UNCHANGED <<isInit, disposition, terms, faults, owned, entered, faulting,
                 at, message, fatal, log>>

\* A fault cannot be ignored or put off: when it is blocked or has no handler
\* the process ends.
RaiseFault(t) ==
  IF disposition["SEGV"] = "handler" /\ "SEGV" \notin Blocked(t)
    THEN Push(t, "SEGV") /\ UNCHANGED alive
    ELSE Die /\ UNCHANGED frames

\* Ordinary code faults, and faults again whenever the handler returns to it.
Fault(t) ==
  /\ alive /\ frames[t] = <<>>
  /\ at[t] \in {"user", "sinks", "dump"}
  /\ \/ faulting[t] /\ UNCHANGED faults
     \/ ~faulting[t] /\ faults < MaxFaults /\ faults' = faults + 1
  /\ faulting' = [faulting EXCEPT ![t] = TRUE]
  /\ RaiseFault(t)
  /\ UNCHANGED <<isInit, disposition, pending, terms, owned, entered, at,
                 message, fatal, log>>

\* Dumping the stack faults: the unwinder walks a damaged stack.
DumpFault(t) ==
  /\ In(t, "dump")
  /\ faults < MaxFaults
  /\ faults' = faults + 1
  /\ RaiseFault(t)
  /\ UNCHANGED <<isInit, disposition, pending, terms, owned, entered, faulting,
                 at, message, fatal, log>>

-----------------------------------------------------------------------------
(* FailureSignalHandler.                                                   *)

HandlerStep(t, from, to) ==
  /\ In(t, from)
  /\ Move(t, to)
  /\ UNCHANGED <<faulting, at, message, fatal>>

\* Re-entered on this thread: do not dump again, just die.  A signal between
\* the test and the store of the flag is handled, flag and all, before the
\* store, so that the two are one step.
CheckReentry(t) ==
  /\ HandlerStep(t, "check", IF entered[t] THEN "redefault" ELSE "cas")
  /\ entered' = [entered EXCEPT ![t] = TRUE]
  /\ UNCHANGED <<process, owned, log>>

\* Variant: the flag is read and stored in two steps; the read was before.
CasSucceedsBlindly(t) ==
  /\ HandlerStep(t, "cas", "dump")
  /\ owned' = TRUE
  /\ UNCHANGED <<process, entered, log>>

\* The loop until this thread owns the dump.  A compare_exchange_weak that
\* fails, for a reason or without one, and the loads of the inner loop change
\* nothing.
CasSucceeds(t) ==
  /\ ~owned
  /\ HandlerStep(t, "cas", "dump")
  /\ owned' = TRUE
  /\ UNCHANGED <<process, entered, log>>

\* HandleSignal up to its *** TRANSITION ***.
Dump(t) ==
  /\ HandlerStep(t, "dump", "flush")
  /\ UNCHANGED <<process, owned, entered, log>>

\* Variant: the flush that takes log_mutex.
FlushLogFilesLocked(t) ==
  /\ logMutex = NoThread
  /\ stream \in {NoThread, t}
  /\ HandlerStep(t, "flush", "default")
  /\ synced' = Len(file)
  /\ UNCHANGED <<process, owned, entered, logMutex, stream, file>>

\* FlushLogFilesUnsafe takes none of the library's locks; fflush takes the
\* stdio lock, which its owner may take again.
FlushLogFilesUnsafe(t) ==
  /\ stream \in {NoThread, t}
  /\ HandlerStep(t, "flush", "default")
  /\ synced' = Len(file)
  /\ UNCHANGED <<process, owned, entered, logMutex, stream, file>>

\* InvokeDefaultSignalHandler: sigaction(SIG_DFL) and kill(getpid()).  The
\* signal stays pending while this thread, the only one perhaps, blocks it.
InvokeDefaultSignalHandler(t, from, to) ==
  /\ HandlerStep(t, from, to)
  /\ disposition' = [disposition EXCEPT ![Top(t).signal] = "default"]
  /\ pending' = pending \cup {Top(t).signal}
  /\ UNCHANGED <<alive, isInit, terms, faults, owned, entered, log>>

Release(t) ==
  /\ HandlerStep(t, "release", "clear")
  /\ owned' = FALSE
  /\ UNCHANGED <<process, entered, log>>

\* t_failure_signal_handler_entered = 0, and the handler returns.
Return(t) ==
  /\ In(t, "clear") /\ Pop(t)
  /\ entered' = [entered EXCEPT ![t] = FALSE]
  /\ UNCHANGED <<process, owned, faulting, at, message, fatal, log>>

ReturnReentered(t) ==
  /\ In(t, "return") /\ Pop(t)
  /\ UNCHANGED <<process, owned, entered, faulting, at, message, fatal, log>>

Handle(t) ==
  \/ CheckReentry(t) \/ CasSucceeds(t) \/ Dump(t) \/ FlushLogFilesUnsafe(t)
  \/ InvokeDefaultSignalHandler(t, "default", "release")
  \/ InvokeDefaultSignalHandler(t, "redefault", "return")
  \/ Release(t) \/ Return(t) \/ ReturnReentered(t)

-----------------------------------------------------------------------------
(* Messages.                                                               *)

Begin(t, s) ==
  /\ At(t, "user") /\ ~faulting[t] /\ s \in Logs[t] /\ count[t] < MaxMsgs
  /\ count' = [count EXCEPT ![t] = @ + 1]
  /\ msg' = [msg EXCEPT ![t] = <<t, count[t] + 1>>]
  /\ severity' = [severity EXCEPT ![t] = s]

\* Init of a message that is not fatal.
LogInfo(t) ==
  /\ Begin(t, "INFO") /\ Goto(t, "lock")
  /\ UNCHANGED <<process, handler, fatal, log>>

\* Variant: every fatal message takes the exclusive space.
LogFatalAlwaysExclusive(t) ==
  /\ Begin(t, "FATAL") /\ Goto(t, "lock")
  /\ first' = msg'[t]
  /\ UNCHANGED <<process, handler, exclusive, record, reason, once, log>>

\* Init of a fatal message, under fatal_msg_lock: the first one takes the
\* exclusive space.
LogFatal(t) ==
  /\ Begin(t, "FATAL") /\ Goto(t, "lock")
  /\ exclusive' = FALSE
  /\ first' = IF exclusive THEN msg'[t] ELSE first
  /\ UNCHANGED <<process, handler, record, reason, once, log>>

OrdinaryStep(t, from, to) ==
  /\ At(t, from) /\ Goto(t, to)
  /\ UNCHANGED <<process, handler, message>>

\* Flush takes log_mutex and calls fwrite.
Lock(t) ==
  /\ OrdinaryStep(t, "lock", "inside")
  /\ logMutex = NoThread /\ stream = NoThread
  /\ logMutex' = t /\ stream' = t
  /\ UNCHANGED <<fatal, file, synced>>

AfterWrite(t) ==
  CASE severity[t] = "INFO" -> "user"
    [] msg[t] = first       -> "record"
    [] OTHER                -> "fflush"

\* LogToAllLogfilesLocked.  The line may stay in the stdio buffer.  A message
\* that is not fatal is done and releases log_mutex.
Write(t) ==
  /\ OrdinaryStep(t, "inside", AfterWrite(t))
  /\ file' = Append(file, msg[t])
  /\ stream' = NoThread
  /\ logMutex' = IF severity[t] = "INFO" THEN NoThread ELSE logMutex
  /\ UNCHANGED <<fatal, synced>>

RecordCrashReason(t) ==
  /\ OrdinaryStep(t, "record", "publish")
  /\ record' = [record EXCEPT !["log"] = first]
  /\ UNCHANGED <<exclusive, first, reason, once, log>>

\* Variant: the later reason wins.
SetLastCrashReason(r) == reason' = r

\* The compare-and-swap: the earliest reason stays.
SetCrashReason(r) == reason' = IF reason = "none" THEN r ELSE reason

PublishReason(t) ==
  /\ OrdinaryStep(t, "publish", "fflush")
  /\ SetCrashReason("log")
  /\ UNCHANGED <<exclusive, first, record, once, log>>

\* Variant: only the first fatal message flushes.
FlushFirstOnly(t) ==
  /\ OrdinaryStep(t, "fflush", "sinks")
  /\ synced' = IF msg[t] = first THEN Len(file) ELSE synced
  /\ logMutex' = NoThread
  /\ UNCHANGED <<fatal, stream, file>>

\* Every fatal message flushes all log files (Write(true, ..., "", 0)) and
\* releases log_mutex.
FlushFiles(t) ==
  /\ OrdinaryStep(t, "fflush", "sinks")
  /\ synced' = Len(file)
  /\ logMutex' = NoThread
  /\ UNCHANGED <<fatal, stream, file>>

\* The registered sinks are called and waited for.  A sink that throws leaves
\* the destructor before Fail.
CallSinks(t) ==
  /\ ~faulting[t]
  /\ \E to \in {"fail"} \cup (IF "throw" \in FailFunctions THEN {"user"} ELSE {}) :
       OrdinaryStep(t, "sinks", to)
  /\ UNCHANGED <<fatal, log>>

\* RawLog of a fatal message: std::call_once around the record.
RawFatal(t) ==
  /\ Begin(t, "RAW") /\ Goto(t, "once")
  /\ UNCHANGED <<process, handler, fatal, log>>

CallOnce(t) ==
  /\ once = "unset"
  /\ OrdinaryStep(t, "once", "onceSet")
  /\ once' = "running"
  /\ record' = [record EXCEPT !["raw"] = msg[t]]
  /\ UNCHANGED <<exclusive, first, reason, log>>

OnceReturns(t) ==
  /\ OrdinaryStep(t, "onceSet", "fail")
  /\ once' = "done"
  /\ SetCrashReason("raw")
  /\ UNCHANGED <<exclusive, first, record, log>>

OnceSkipped(t) ==
  /\ once = "done"
  /\ OrdinaryStep(t, "once", "fail")
  /\ UNCHANGED <<fatal, log>>

\* Fail calls the failure function, and abort when that returns.
Fail(t) ==
  /\ \E f \in FailFunctions :
       OrdinaryStep(t, "fail", CASE f = "dump"   -> "dump"
                                 [] f = "return" -> "abort"
                                 [] f = "throw"  -> "user")
  /\ UNCHANGED <<fatal, log>>

\* DumpStackTraceAndExit: the stack is dumped and SIGABRT gets its default
\* action, so that abort does not call our handler.
DumpStackTraceAndExit(t) ==
  /\ At(t, "dump") /\ ~faulting[t] /\ Goto(t, "abort")
  /\ disposition' = [disposition EXCEPT !["ABRT"] = "default"]
  /\ UNCHANGED <<alive, isInit, pending, terms, faults, handler, message, fatal,
                 log>>

\* abort: SIGABRT goes to a handler first, and the process ends in any case.
Abort(t) ==
  /\ At(t, "abort")
  /\ Goto(t, "aborted")
  /\ \/ disposition["ABRT"] = "handler" /\ Push(t, "ABRT") /\ UNCHANGED alive
     \/ disposition["ABRT"] = "default" /\ Die /\ UNCHANGED frames
  /\ UNCHANGED <<isInit, disposition, pending, terms, faults, owned, entered,
                 faulting, message, fatal, log>>

AbortAgain(t) ==
  /\ At(t, "aborted")
  /\ Die
  /\ UNCHANGED <<isInit, disposition, pending, terms, faults, handler, at,
                 message, fatal, log>>

Dispatch(t) ==
  \/ Lock(t) \/ Write(t) \/ RecordCrashReason(t)
  \/ PublishReason(t) \/ FlushFiles(t) \/ CallSinks(t)
  \/ CallOnce(t) \/ OnceReturns(t) \/ OnceSkipped(t)
  \/ Fail(t) \/ DumpStackTraceAndExit(t) \/ Abort(t) \/ AbortAgain(t)

Next ==
  \/ SendTerm
  \/ \E t \in Thread :
       \/ \E sig \in Signal : Deliver(t, sig)
       \/ Fault(t) \/ DumpFault(t) \/ Handle(t)
       \/ LogInfo(t) \/ LogFatal(t) \/ RawFatal(t) \/ Dispatch(t)

Spec == Init /\ [][Next]_vars

(* A thread in the library or in the handler goes on, and so does one at a *)
(* faulting instruction; pending signals that somebody does not block are  *)
(* delivered.  What the application chooses to do has no fairness.         *)
Fairness ==
  /\ \A t \in Thread :
       WF_vars(Handle(t) \/ Dispatch(t) \/ (faulting[t] /\ Fault(t)))
  /\ WF_vars(\E t \in Thread, sig \in Signal : Deliver(t, sig))

FairSpec == Spec /\ Fairness

-----------------------------------------------------------------------------
(* Properties.                                                             *)

\* One thread at a time produces a dump: of all activations of the handler on
\* all threads, nested ones included, at most one is between taking and
\* releasing the ownership flag (the loop at signalhandler.cc:866).
Dumping == {a \in Thread \X (1 .. Cardinality(Signal)) :
              /\ a[2] \in DOMAIN frames[a[1]]
              /\ frames[a[1]][a[2]].pc \in {"dump", "flush", "default", "release"}}
OneDumpAtATime == Cardinality(Dumping) <= 1

\* Whenever the process ends, a debugger that follows g_reason finds the
\* complete record of one crash: of the fatal message that came first for LOG,
\* or of a raw one (RecordCrashReason before SetCrashReason, logging.cc:2722,
\* and the call_once of RawLog).
ReasonIsComplete ==
  reason # "none" => /\ record[reason] # NoMsg
                     /\ reason = "log" => record["log"] = first

\* What was found there once is what is found later: no second crash replaces
\* or rewrites the reason of the first.
ReasonKept ==
  [][reason # "none" => /\ reason' = reason
                        /\ record'[reason] = record[reason]]_vars

\* A fatal message is out of the stdio buffer before the failure function
\* runs, with all lines of the log before it, whichever thread's message came
\* first (the flush at the end of SendToLog).
FatalIsOnDisk ==
  \A t \in Thread :
    severity[t] = "FATAL" /\ at[t] \in {"sinks", "fail", "dump", "abort"} =>
      \E i \in 1 .. synced : file[i] = msg[t]

\* A thread was interrupted inside fwrite or fflush, so that the stdio lock is
\* not released while it is in the handler.
StdioInterrupted == stream # NoThread /\ frames[stream] # <<>>

\* The handler runs, the failure function was reached, or the code faulted.
Failing(t) ==
  \/ frames[t] # <<>>
  \/ faulting[t]
  \/ at[t] \in {"fail", "dump", "abort", "aborted"}

\* The handler does not hang and a failing process dies: unless the process
\* ends, a thread in the handler leaves it (PID 1 survives a SIGTERM), one
\* whose failure function does not throw never goes on, and one that faulted
\* dies of it, also in PID 1.  The one exception is the hang that the comment
\* at signalhandler.cc:826 expects: a thread was interrupted inside stdio and
\* waits for the dump of a thread that waits for the stdio lock.
FailureEnds ==
  \A t \in Thread :
    []<>(~alive \/ ~Failing(t)) \/ <>[]StdioInterrupted
=============================================================================
