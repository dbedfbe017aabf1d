----------------------------- MODULE Subprocess -----------------------------
(***************************************************************************)
(* A helper process started from the crash path: the signal-safe           *)
(* Subprocess of src/src/subprocess_fork.cc as RunAddr2Line of             *)
(* src/src/addr2line.cc uses it, between a child that may fail to start,   *)
(* hang, write slowly, write too much or exit at any moment, other threads *)
(* that fork and that wait for children, and a kernel that reuses process  *)
(* identifiers.                                                            *)
(***************************************************************************)
EXTENDS Naturals, FiniteSets

CONSTANTS
  OutSize,   \* the size of the buffer for the output
  PipeSize,  \* bytes the pipe of the output holds
  MaxOutput, \* bound: bytes the child writes
  Timeout    \* --addr2line_timeout_ms

ASSUME SubprocessAssumption ==
  {OutSize, PipeSize, MaxOutput, Timeout} \subseteq Nat \ {0}

VARIABLES
  \* The process.
  pc,
  pipe,      \* the pipe being created: 1 stdin, 2 stdout, 3 exec error
  fds,       \* open descriptors of the process: <<pipe, end>>
  hasPid,    \* pid_ >= 0
  total,     \* total_read
  remaining, \* remaining_milliseconds of Wait
  killOk,    \* kill_result = 0
  waitFailed,
  returned,  \* what RunAddr2Line returns
  \* The child.
  child,     \* "none", "setup" before exec, "failing", "program", "zombie", "gone"
  status,    \* how it ended: "ok" exit code 0, "bad" another one, "signal"
  killed,    \* SIGKILL is pending
  execError, \* it wrote to the exec error pipe
  written,   \* bytes it wrote to stdout
  \* The rest of the system.
  clock,
  ignored,   \* the application ignores SIGCHLD: the system reaps children
  waiter,    \* another thread of the application calls wait()
  foreign,   \* descriptors that a program started by another thread inherited
  reused,    \* the identifier of the child belongs to another process
  \* History.
  told,      \* waitpid() has told this thread that the child is gone
  strangers  \* the kills of another process: "told", after that, or "untold"

parent == <<pc, pipe, fds, hasPid, total, remaining, killOk, waitFailed, returned>>
process == <<child, status, killed, execError, written>>
system == <<clock, ignored, waiter, foreign, reused>>
history == <<told, strangers>>
vars == <<parent, process, system, history>>

Pipe == 1 .. 3
Ends(p) == {<<p, "read">>, <<p, "write">>}

Init ==
  /\ pc = "pipe" /\ pipe = 1 /\ fds = {} /\ hasPid = FALSE
  /\ total = 0 /\ remaining = 0 /\ killOk = FALSE /\ waitFailed = FALSE
  /\ returned = 0
  /\ child = "none" /\ status = "none" /\ killed = FALSE
  /\ execError = FALSE /\ written = 0
  /\ clock = 0 /\ ignored \in BOOLEAN /\ waiter \in BOOLEAN
  /\ foreign = {} /\ reused = FALSE
  /\ told = FALSE /\ strangers = {}

-----------------------------------------------------------------------------
(* Spawn.                                                                  *)

Return(n) == pc' = "done" /\ returned' = n

\* The ends that the child uses, and those that its parent keeps open when the
\* child has been started.
ChildEnds == {<<1, "read">>, <<2, "write">>, <<3, "write">>}
Streams == {<<1, "write">>, <<2, "read">>}

\* Variant: the first pipe is forgotten when the third one fails.
CloseLast(p) == IF p = 1 THEN {} ELSE Ends(p - 1)

\* What Spawn closes when pipe p cannot be created: those created before.
CloseEarlier(p) == CASE p = 1 -> {} [] p = 2 -> Ends(1) [] p = 3 -> Ends(1) \cup Ends(2)

\* pipe(), then two fcntl(): a program that another thread starts in between
\* inherits the pipe.
CreatePipe ==
  /\ pc = "pipe"
  /\ pc' = "cloexec"
  /\ fds' = fds \cup Ends(pipe)
  /\ UNCHANGED <<pipe, hasPid, total, remaining, killOk, waitFailed, returned,
                 process, system, history>>

SetCloseOnExec ==
  /\ pc = "cloexec"
  /\ IF pipe = 3 THEN pc' = "fork" /\ UNCHANGED pipe
                 ELSE pc' = "pipe" /\ pipe' = pipe + 1
  /\ UNCHANGED <<fds, hasPid, total, remaining, killOk, waitFailed, returned,
                 process, system, history>>

PipeFails ==
  /\ pc = "pipe"
  /\ fds' = fds \ CloseEarlier(pipe)
  /\ Return(0)
  /\ UNCHANGED <<pipe, hasPid, total, remaining, killOk, waitFailed, process,
                 system, history>>

\* fcntl() fails: CreateCloseOnExecPipe closes the new pipe, Spawn the others.
SetCloseOnExecFails ==
  /\ pc = "cloexec"
  /\ fds' = (fds \ Ends(pipe)) \ CloseEarlier(pipe)
  /\ Return(0)
  /\ UNCHANGED <<pipe, hasPid, total, remaining, killOk, waitFailed, process,
                 system, history>>

Fork ==
  /\ pc = "fork"
  /\ pc' = "execError"
  /\ child' = "setup"
  /\ fds' = fds \ ChildEnds
  /\ UNCHANGED <<pipe, hasPid, total, remaining, killOk, waitFailed, returned,
                 status, killed, execError, written, system, history>>

\* _Fork() fails, when all the pipes are open.
ForkFails ==
  /\ pc = "fork"
  /\ fds' = (fds \ ChildEnds) \ (Streams \cup {<<3, "read">>})
  /\ Return(0)
  /\ UNCHANGED <<pipe, hasPid, total, remaining, killOk, waitFailed, process,
                 system, history>>

\* The child, an open end that other programs inherited, or nobody.
MayWrite(p) ==
  <<p, "write">> \in foreign \/ child \in (IF p = 3 THEN {"setup", "failing"}
                                           ELSE {"setup", "failing", "program"})

\* read() of the exec error: blocks until something is written or nobody can.
\* CloseStdin follows the successful Spawn.
ReadExecError ==
  /\ pc = "execError" /\ (execError \/ ~MayWrite(3))
  /\ IF execError
       THEN pc' = "spawnKill" /\ fds' = fds \ {<<3, "read">>} /\ UNCHANGED hasPid
       ELSE pc' = "read" /\ fds' = fds \ {<<3, "read">>, <<1, "write">>} /\ hasPid' = TRUE
  /\ UNCHANGED <<pipe, total, remaining, killOk, waitFailed, returned, process,
                 system, history>>

-----------------------------------------------------------------------------
(* The read loop of RunAddr2Line and ReadStdout.                           *)

StartWait ==
  /\ pc' = "wait"
  /\ remaining' = Timeout - clock

\* The loop ends when the buffer is full or the time is over.
CheckDeadline ==
  /\ pc = "read"
  /\ IF total = OutSize \/ clock = Timeout
       THEN StartWait
       ELSE pc' = "pollOut" /\ UNCHANGED remaining
  /\ UNCHANGED <<pipe, fds, hasPid, total, killOk, waitFailed, returned, process,
                 system, history>>

\* poll() reports output, which read() takes.
ReadSome ==
  /\ pc = "pollOut" /\ written > total
  /\ pc' = "read"
  /\ total' = IF written > OutSize THEN OutSize ELSE written
  /\ UNCHANGED <<pipe, fds, hasPid, remaining, killOk, waitFailed, returned,
                 process, system, history>>

\* poll() reports end of file, or nothing until the time is over.
ReadNothing ==
  /\ pc = "pollOut" /\ written = total
  /\ clock = Timeout \/ ~MayWrite(2)
  /\ StartWait
  /\ UNCHANGED <<pipe, fds, hasPid, total, killOk, waitFailed, returned, process,
                 system, history>>

\* An owner that destroys the object instead.
Abandon ==
  /\ pc = "read"
  /\ pc' = "reset"
  /\ UNCHANGED <<pipe, fds, hasPid, total, remaining, killOk, waitFailed,
                 returned, process, system, history>>

-----------------------------------------------------------------------------
(* Wait and Reset.                                                         *)

Running == child \in {"setup", "failing", "program"}

ForgetPid == hasPid' = FALSE

\* waitpid() of a child that ended, or that somebody else has reaped.
Reap ==
  /\ child' = IF child = "zombie" THEN "gone" ELSE child
  /\ told' = TRUE
  /\ UNCHANGED strangers

\* Variant: any exit code will do.
SucceededUnlessFailed(how) == how # "failed"

Succeeded(how) == how \in {"ok", "unavailable"}
Finish(how) ==
  /\ pc' = "reset"
  /\ returned' = IF Succeeded(how) THEN total ELSE 0

\* Variant: the identifier of a child that somebody else has reaped is kept.
WaitEndedKeepingPid ==
  /\ pc = "wait" /\ ~Running
  /\ Reap /\ (IF child = "zombie" THEN ForgetPid ELSE UNCHANGED hasPid)
  /\ Finish(IF child = "zombie" THEN status ELSE "unavailable")
  /\ UNCHANGED <<pipe, fds, total, remaining, killOk, waitFailed, status, killed,
                 execError, written, system>>

\* waitpid(WNOHANG) finds the child ended, or reaped by somebody else.
WaitEnded ==
  /\ pc = "wait" /\ ~Running
  /\ Reap /\ ForgetPid
  /\ Finish(IF child = "zombie" THEN status ELSE "unavailable")
  /\ UNCHANGED <<pipe, fds, total, remaining, killOk, waitFailed, status, killed,
                 execError, written, system>>

\* Variant: no end to the waiting.
WaitRunningForever ==
  /\ pc = "wait" /\ Running
  /\ pc' = "poll"
  /\ UNCHANGED <<pipe, fds, hasPid, total, remaining, killOk, waitFailed,
                 returned, process, system, history>>

WaitRunning ==
  /\ pc = "wait" /\ Running
  /\ pc' = IF remaining = 0 THEN "kill" ELSE "poll"
  /\ UNCHANGED <<pipe, fds, hasPid, total, remaining, killOk, waitFailed,
                 returned, process, system, history>>

\* poll() of nothing for the interval; it may fail.
Poll ==
  /\ pc = "poll"
  /\ \/ /\ pc' = "wait"
        /\ remaining' = IF remaining = 0 THEN 0 ELSE remaining - 1
        /\ UNCHANGED waitFailed
     \/ /\ pc' = "kill" /\ waitFailed' = TRUE
        /\ UNCHANGED remaining
  /\ UNCHANGED <<pipe, fds, hasPid, total, killOk, returned, process, system, history>>

\* kill(SIGKILL), which succeeds for a child that was not reaped yet and for
\* the stranger that has its identifier.
Kill(from, to) ==
  /\ pc = from
  /\ pc' = to
  /\ killOk' = (child # "gone" \/ reused)
  /\ killed' = (killed \/ Running)
  /\ strangers' = strangers \cup
       (IF child = "gone" /\ reused THEN {IF told THEN "told" ELSE "untold"} ELSE {})
  /\ UNCHANGED <<pipe, fds, hasPid, total, remaining, waitFailed, returned,
                 child, status, execError, written, system, told>>

\* The blocking waitpid() of Wait.
ReapAfterKill ==
  /\ pc = "reap" /\ ~Running
  /\ Reap /\ ForgetPid
  /\ Finish(IF child = "gone" \/ waitFailed \/ killOk THEN "failed" ELSE status)
  /\ UNCHANGED <<pipe, fds, total, remaining, killOk, waitFailed, status, killed,
                 execError, written, system>>

\* The one of Spawn after an exec error.
ReapAfterFailure ==
  /\ pc = "spawnReap" /\ ~Running
  /\ Reap
  /\ fds' = fds \ Streams
  /\ Return(0)
  /\ UNCHANGED <<pipe, hasPid, total, remaining, killOk, waitFailed, status,
                 killed, execError, written, system>>

\* The destructor: Reset kills a child that was not waited for, and closes the
\* streams that are open.
Reset ==
  /\ pc = "reset"
  /\ IF hasPid THEN pc' = "resetKill" /\ UNCHANGED <<fds, returned>>
               ELSE fds' = fds \ Streams /\ Return(returned)
  /\ ForgetPid
  /\ UNCHANGED <<pipe, total, remaining, killOk, waitFailed, process, system, history>>

ReapAfterReset ==
  /\ pc = "resetReap" /\ ~Running
  /\ Reap
  /\ fds' = fds \ Streams
  /\ Return(returned)
  /\ UNCHANGED <<pipe, hasPid, total, remaining, killOk, waitFailed, status,
                 killed, execError, written, system>>

Run ==
  \/ CreatePipe \/ PipeFails \/ SetCloseOnExec \/ SetCloseOnExecFails
  \/ Fork \/ ForkFails \/ ReadExecError
  \/ CheckDeadline \/ ReadSome \/ ReadNothing \/ Abandon
  \/ WaitEnded \/ WaitRunning \/ Poll
  \/ Kill("kill", "reap") \/ ReapAfterKill
  \/ Kill("spawnKill", "spawnReap") \/ ReapAfterFailure
  \/ Reset \/ Kill("resetKill", "resetReap") \/ ReapAfterReset

-----------------------------------------------------------------------------
(* The child: SpawnProcessWithFork after _Fork, then the program.          *)

EndChild(how) ==
  /\ child' = IF ignored THEN "gone" ELSE "zombie"
  /\ status' = how

Exec ==
  /\ child = "setup" /\ ~killed
  /\ child' = "program"
  /\ UNCHANGED <<parent, status, killed, execError, written, system, history>>

\* A dup2() or the exec fails.
WriteExecError ==
  /\ child = "setup" /\ ~killed
  /\ child' = "failing"
  /\ execError' = TRUE
  /\ UNCHANGED <<parent, status, killed, written, system, history>>

ExitAfterError ==
  /\ child = "failing"
  /\ EndChild(IF killed THEN "signal" ELSE "bad")
  /\ UNCHANGED <<parent, killed, execError, written, system, history>>

ProgramWrites ==
  /\ child = "program" /\ ~killed
  /\ written < MaxOutput /\ written - total < PipeSize
  /\ written' = written + 1
  /\ UNCHANGED <<parent, child, status, killed, execError, system, history>>

ProgramExits ==
  /\ child = "program" /\ ~killed
  /\ \E how \in {"ok", "bad", "signal"} : EndChild(how)
  /\ UNCHANGED <<parent, killed, execError, written, system, history>>

ChildKilled ==
  /\ killed /\ child \in {"setup", "program"}
  /\ EndChild("signal")
  /\ UNCHANGED <<parent, killed, execError, written, system, history>>

-----------------------------------------------------------------------------
(* The rest of the system.                                                 *)

Tick ==
  /\ clock < Timeout /\ pc # "done"
  /\ clock' = clock + 1
  /\ UNCHANGED <<parent, process, ignored, waiter, foreign, reused, history>>

\* Another thread starts a program that inherits what is not close-on-exec.
ForeignFork ==
  /\ pc = "cloexec" /\ foreign = {}
  /\ foreign' = Ends(pipe)
  /\ UNCHANGED <<parent, process, clock, ignored, waiter, reused, history>>

ForeignExits ==
  /\ foreign # {}
  /\ foreign' = {}
  /\ UNCHANGED <<parent, process, clock, ignored, waiter, reused, history>>

OtherWaiter ==
  /\ waiter /\ child = "zombie"
  /\ child' = "gone"
  /\ UNCHANGED <<parent, status, killed, execError, written, system, history>>

\* The kernel gives the identifier of a reaped child to another process.
ReusePid ==
  /\ child = "gone" /\ ~reused
  /\ reused' = TRUE
  /\ UNCHANGED <<parent, process, clock, ignored, waiter, foreign, history>>

Next ==
  \/ Run
  \/ Exec \/ WriteExecError \/ ExitAfterError
  \/ ProgramWrites \/ ProgramExits \/ ChildKilled
  \/ Tick \/ ForeignFork \/ ForeignExits \/ OtherWaiter \/ ReusePid

Spec == Init /\ [][Next]_vars

(* The thread and the setup of the child run, time passes, SIGKILL kills.  *)
(* The program, the other threads and the programs they start are free.    *)
Fairness ==
  /\ WF_vars(Run) /\ WF_vars(Tick)
  /\ WF_vars(Exec \/ WriteExecError \/ ExitAfterError) /\ WF_vars(ChildKilled)

FairSpec == Spec /\ Fairness

-----------------------------------------------------------------------------
(* Properties.                                                             *)

\* "Its ID may belong to another process by now, so it must not be killed"
\* (subprocess_fork.cc:476): once waitpid() has returned the child or has said that
\* somebody else has reaped it, neither Wait nor Reset, nor both one after the
\* other, kills a process that has its identifier by then; and before that only if
\* the child can be reaped behind the back of its owner.
NoStrangerKilled ==
  /\ "told" \notin strangers
  /\ "untold" \in strangers => waiter \/ ignored

\* Whatever failed and whoever reaped the child, nothing is left behind when
\* RunAddr2Line returns: no descriptor, whichever way out of Spawn was taken,
\* no running child and no zombie.
NothingLeft ==
  pc = "done" => fds = {} /\ ~hasPid /\ child \in {"none", "gone"}

\* Output is used only when the program was started, nobody killed it, and it
\* ended by itself with success, or with a status nobody can know.
OutputOfSuccess ==
  pc = "done" /\ returned > 0 =>
    /\ ~execError /\ ~killed
    /\ status # "ok" => ignored \/ waiter

\* A program that hangs, floods its output or never starts does not stop the
\* crash path.  The exception is a program of another thread that inherited the
\* exec error pipe before it was close-on-exec and does not end.
RunEnds == <>(pc = "done") \/ <>[](<<3, "write">> \in foreign)
=============================================================================
