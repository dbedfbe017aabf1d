--------------------------- MODULE Helpers_proofs ---------------------------
(***************************************************************************)
(* Proofs about the two helpers that work beside the threads that log: the *)
(* process that symbolizes, and the log cleaner.                           *)
(***************************************************************************)
EXTENDS Subprocess, Integers, TLAPS

Places == {"pipe", "cloexec", "fork", "execError", "spawnKill", "spawnReap",
           "read", "pollOut", "wait", "poll", "kill", "reap",
           "reset", "resetKill", "resetReap", "done"}

TypeOK ==
  /\ pc \in Places
  /\ child \in {"none", "setup", "failing", "program", "zombie", "gone"}
  /\ status \in {"none", "ok", "bad", "signal"}
  /\ total \in Nat /\ returned \in Nat /\ written \in Nat

\* There is a child exactly from Fork on, but for a Spawn that gave up before.
ChildIsForked ==
  /\ pc \in {"pipe", "cloexec", "fork"} => child = "none"
  /\ child = "none" => pc \in {"pipe", "cloexec", "fork", "done"}

\* pid_ is set from the end of Spawn to waitpid() or Reset, and it is cleared
\* by whoever reaps the child.
PidIsOwned ==
  /\ pc \in {"read", "pollOut", "wait", "poll", "kill", "reap"} => hasPid
  /\ pc \notin {"read", "pollOut", "wait", "poll", "kill", "reap", "reset"} => ~hasPid
  /\ pc = "reset" /\ ~hasPid => child = "gone"

\* A child is reaped by this thread at the very end, or behind its back.
ReapedOnce ==
  child = "gone" => \/ waiter \/ ignored
                    \/ pc = "reset" /\ ~hasPid
                    \/ pc = "done"

\* What Spawn has learned from the exec error pipe: past it, the program runs
\* or has run, and nobody is left to report an error.
ProgramStarted ==
  /\ pc \in {"read", "pollOut", "wait", "poll", "kill", "reap", "reset"} =>
       ~execError /\ child \in {"program", "zombie", "gone"}
  /\ returned > 0 => ~execError /\ child = "gone"

\* After SIGKILL the result of Wait is a failure: kill() found the child, or
\* somebody else had reaped it.
KilledMeansFailed ==
  /\ killed => \/ pc \in {"reap", "spawnReap", "resetReap"}
               \/ pc \in {"reset", "done"} /\ ~hasPid /\ returned = 0
  /\ pc = "reap" => killOk \/ child = "gone"
  /\ returned > 0 => pc \in {"reset", "done"} /\ ~hasPid

\* What waitpid() has told this thread is the last it does with the identifier.
ToldIsForgotten == told => pc \in {"reset", "done"} /\ ~hasPid

\* The descriptors that may be open at each place.
FdsAreKnown ==
  /\ pipe \in 1 .. 3
  /\ pc = "pipe" => fds \subseteq CloseEarlier(pipe)
  /\ pc = "cloexec" => fds \subseteq CloseEarlier(pipe) \cup Ends(pipe)
  /\ pc = "fork" => fds \subseteq Ends(1) \cup Ends(2) \cup Ends(3)
  /\ pc = "execError" => fds \subseteq Streams \cup {<<3, "read">>}
  /\ pc \notin {"pipe", "cloexec", "fork", "execError"} => fds \subseteq Streams

\* The status of a child whose output is used.
UsedIsOk == returned > 0 => status = "ok" \/ ignored \/ waiter

IInv ==
  /\ TypeOK /\ ChildIsForked /\ PidIsOwned /\ ReapedOnce
  /\ ProgramStarted /\ KilledMeansFailed /\ ToldIsForgotten /\ UsedIsOk
  /\ NoStrangerKilled /\ FdsAreKnown /\ NothingLeft


-----------------------------------------------------------------------------
LEMMA InitInductive == Init => IInv
BY DEF Init, IInv, TypeOK, Places, ChildIsForked, PidIsOwned, ReapedOnce,
       ProgramStarted, KilledMeansFailed, ToldIsForgotten, UsedIsOk,
       NoStrangerKilled, FdsAreKnown, NothingLeft

\* The close lists of Spawn: what is closed for the second and the third pipe
\* are the pipes before, and the three lists of the end are all their ends.
LEMMA Descriptors ==
  /\ CloseEarlier(1) = {}
  /\ CloseEarlier(2) = CloseEarlier(1) \cup Ends(1)
  /\ CloseEarlier(3) = CloseEarlier(2) \cup Ends(2)
  /\ Ends(1) \cup Ends(2) \cup Ends(3) = CloseEarlier(3) \cup Ends(3)
  /\ Ends(1) \cup Ends(2) \cup Ends(3) = ChildEnds \cup Streams \cup {<<3, "read">>}
<1>1. CloseEarlier(1) = {} /\ CloseEarlier(2) = Ends(1)
  BY DEF CloseEarlier
<1>2. CloseEarlier(3) = Ends(1) \cup Ends(2)
  BY DEF CloseEarlier
<1>3. Ends(1) \cup Ends(2) \cup Ends(3) = ChildEnds \cup Streams \cup {<<3, "read">>}
  BY DEF Ends, ChildEnds, Streams
<1>. QED BY <1>1, <1>2, <1>3

\* Every step of the thread, of the child and of the rest of the system.
LEMMA NextInductive == IInv /\ [Next]_vars => IInv'
<1>. SUFFICES ASSUME IInv, [Next]_vars
             PROVE  IInv'
  OBVIOUS
<1>. USE DEF IInv, TypeOK, Places, ChildIsForked, PidIsOwned, ReapedOnce,
             ProgramStarted, KilledMeansFailed, ToldIsForgotten, UsedIsOk,
             NoStrangerKilled, FdsAreKnown, NothingLeft, parent, process, system,
             history
<1>1. CASE CreatePipe
  BY <1>1 DEF CreatePipe
<1>2. CASE SetCloseOnExec
  <2>1. FdsAreKnown'
    BY <1>2, Descriptors DEF SetCloseOnExec
  <2>. QED BY <1>2, <2>1 DEF SetCloseOnExec
<1>3. CASE PipeFails \/ SetCloseOnExecFails \/ ForkFails
  <2>1. fds' = {}
    BY <1>3, Descriptors DEF PipeFails, SetCloseOnExecFails, ForkFails
  <2>. QED BY <1>3, <2>1 DEF PipeFails, SetCloseOnExecFails, ForkFails, Return
<1>4. CASE Fork
  <2>1. fds' \subseteq Streams \cup {<<3, "read">>}
    BY <1>4, Descriptors DEF Fork
  <2>. QED BY <1>4, <2>1 DEF Fork
<1>5. CASE ReadExecError
  BY <1>5 DEF ReadExecError, MayWrite
<1>6. CASE CheckDeadline
  BY <1>6 DEF CheckDeadline, StartWait
<1>7. CASE ReadSome
  BY <1>7, SubprocessAssumption DEF ReadSome
<1>8. CASE ReadNothing
  BY <1>8 DEF ReadNothing, StartWait
<1>9. CASE Abandon
  BY <1>9 DEF Abandon
<1>10. CASE WaitEnded
  BY <1>10 DEF WaitEnded, Running, Reap, ForgetPid, Finish, Succeeded
<1>11. CASE WaitRunning
  BY <1>11 DEF WaitRunning, Running
<1>12. CASE Poll
  BY <1>12 DEF Poll
<1>13. CASE Kill("kill", "reap")
  BY <1>13 DEF Kill, Running
<1>14. CASE ReapAfterKill
  BY <1>14 DEF ReapAfterKill, Running, Reap, ForgetPid, Finish, Succeeded
<1>15. CASE Kill("spawnKill", "spawnReap")
  BY <1>15 DEF Kill, Running
<1>16. CASE ReapAfterFailure
  BY <1>16 DEF ReapAfterFailure, Running, Reap, Return
<1>17. CASE Reset
  BY <1>17 DEF Reset, ForgetPid, Return
<1>18. CASE Kill("resetKill", "resetReap")
  BY <1>18 DEF Kill, Running
<1>19. CASE ReapAfterReset
  BY <1>19 DEF ReapAfterReset, Running, Reap, Return
<1>20. CASE Exec
  BY <1>20 DEF Exec
<1>21. CASE WriteExecError
  BY <1>21 DEF WriteExecError
<1>22. CASE ExitAfterError
  BY <1>22 DEF ExitAfterError, EndChild
<1>23. CASE ProgramWrites
  BY <1>23 DEF ProgramWrites
<1>24. CASE ProgramExits
  BY <1>24 DEF ProgramExits, EndChild
<1>25. CASE ChildKilled
  BY <1>25 DEF ChildKilled, EndChild
<1>26. CASE Tick
  BY <1>26 DEF Tick
<1>27. CASE ForeignFork
  BY <1>27 DEF ForeignFork
<1>28. CASE ForeignExits
  BY <1>28 DEF ForeignExits
<1>29. CASE OtherWaiter
  BY <1>29 DEF OtherWaiter
<1>30. CASE ReusePid
  BY <1>30 DEF ReusePid
<1>31. CASE UNCHANGED vars
  BY <1>31 DEF vars
<1>. QED
  BY <1>1, <1>2, <1>3, <1>4, <1>5, <1>6, <1>7, <1>8, <1>9, <1>10, <1>11,
     <1>12, <1>13, <1>14, <1>15, <1>16, <1>17, <1>18, <1>19, <1>20, <1>21,
     <1>22, <1>23, <1>24, <1>25, <1>26, <1>27, <1>28, <1>29, <1>30, <1>31
  DEF Next, Run

-----------------------------------------------------------------------------
\* Whatever fails, whoever reaps the child and whenever it ends, the control
\* of the thread, pid_ and the fate of the child stay consistent.
THEOREM InductiveInvariant == Spec => []IInv
BY InitInductive, NextInductive, PTL DEF Spec

\* For every size, number of bytes and timeout: neither Wait nor Reset nor the
\* cleanup of a failed Spawn kills a process that has the identifier of a child
\* this thread has reaped itself.
THEOREM StrangersAreSpared == Spec => []NoStrangerKilled
<1>1. IInv => NoStrangerKilled
  BY DEF IInv
<1>. QED BY <1>1, InductiveInvariant, PTL

\* RunAddr2Line returns without a descriptor, a running child or a zombie.
THEOREM NothingIsLeft == Spec => []NothingLeft
<1>1. IInv => NothingLeft
  BY DEF IInv
<1>. QED BY <1>1, InductiveInvariant, PTL

\* Output is returned only for a program that was started, was not killed and
\* ended well, as far as its status can be known.
THEOREM OnlySuccessIsUsed == Spec => []OutputOfSuccess
<1>1. IInv => OutputOfSuccess
  <2>. SUFFICES ASSUME IInv, pc = "done", returned > 0
               PROVE  /\ ~execError /\ ~killed
                      /\ status # "ok" => ignored \/ waiter
    BY DEF OutputOfSuccess
  <2>1. ~execError
    BY DEF IInv, ProgramStarted
  <2>2. ~killed
    BY DEF IInv, TypeOK, KilledMeansFailed
  <2>3. status # "ok" => ignored \/ waiter
    BY DEF IInv, UsedIsOk
  <2>. QED BY <2>1, <2>2, <2>3
<1>. QED BY <1>1, InductiveInvariant, PTL

-----------------------------------------------------------------------------
(* The log cleaner, whose constants and variables these are.               *)

CONSTANTS
  Caller, Controllers, Worker, NoWorker, File, Pattern, PatternOf, Old,
  Windows, CleanSecs, MayTouch, MaxClock

VARIABLES
  enabled, thread, overdue, nextScan, asleep, deadline, cleanerPc, now, due,
  window, victims, joins, cleanerClock, mtime, owed

Cleaner == INSTANCE LogCleaner WITH pc <- cleanerPc, clock <- cleanerClock

\* What LogCleaner assumes of its constants.
CleanerAssumptions ==
  Cleaner!CallerAssumption /\ Cleaner!FileAssumption /\ Cleaner!TimeAssumption

\* One thread enables and disables the cleaner.  With two, the second may give
\* the cleaner another window while the first is in Disable.
OneController == \A c, d \in Controllers : c = d

CleanerTypeOK ==
  /\ enabled \in BOOLEAN
  /\ overdue \in Nat /\ cleanerClock \in Nat
  /\ nextScan \in [Pattern -> Nat \cup {-1}]
  /\ mtime \in [File -> Nat \cup {-1}]
  /\ DOMAIN cleanerPc = Cleaner!Actor
  /\ now \in [Cleaner!Actor -> Nat] /\ window \in [Cleaner!Actor -> Nat]
  /\ due \in [Cleaner!Actor -> SUBSET Pattern]
  /\ victims \in [Cleaner!Actor -> SUBSET File]
  /\ owed \in [Caller -> SUBSET File]

Stopping == {"notifyStop", "join", "final"}

\* Only the controlling thread owes anything, and only in Disable.
OwedInDisable(c) ==
  owed[c] # {} =>
    /\ c \in Controllers
    /\ cleanerPc[c] \in Stopping \cup {"readTime", "scan"}

\* How the final scan of c comes to a file.
FoundByScan(c) ==
  \A f \in owed[c] :
    mtime[f] # -1 =>
      /\ cleanerPc[c] \in Stopping =>
           PatternOf[f] \in Cleaner!Known /\ cleanerClock - mtime[f] >= overdue
      /\ cleanerPc[c] = "readTime" =>
           PatternOf[f] \in due[c] /\ cleanerClock - mtime[f] >= window[c]
      /\ cleanerPc[c] = "scan" =>
           \/ f \in victims[c]
           \/ PatternOf[f] \in due[c] /\ now[c] - mtime[f] >= window[c]

CleanerIInv ==
  CleanerTypeOK /\ \A c \in Caller : OwedInDisable(c) /\ FoundByScan(c)

LEMMA CleanerInit == CleanerAssumptions /\ Cleaner!Init => CleanerIInv
<1>. SUFFICES ASSUME CleanerAssumptions, Cleaner!Init PROVE CleanerIInv
  OBVIOUS
<1>. USE DEF Cleaner!Init, CleanerAssumptions, Cleaner!FileAssumption,
    Cleaner!CallerAssumption
<1>1. CleanerTypeOK
  BY DEF CleanerTypeOK
<1>2. \A c \in Caller : OwedInDisable(c) /\ FoundByScan(c)
  BY DEF OwedInDisable, FoundByScan
<1>. QED BY <1>1, <1>2 DEF CleanerIInv

LEMMA CleanerTypes ==
  CleanerAssumptions /\ CleanerIInv /\ [Cleaner!Next]_Cleaner!vars
    => CleanerTypeOK'
<1>. SUFFICES ASSUME CleanerAssumptions, CleanerIInv,
                     [Cleaner!Next]_Cleaner!vars
             PROVE  CleanerTypeOK'
  OBVIOUS
<1>. USE DEF CleanerAssumptions, Cleaner!TimeAssumption, Cleaner!FileAssumption,
    Cleaner!CallerAssumption, CleanerTypeOK, CleanerIInv, Cleaner!cleaner,
    Cleaner!waiters, Cleaner!scan, Cleaner!Goto, Cleaner!Actor
<1>1. CASE UNCHANGED Cleaner!vars
  BY <1>1 DEF Cleaner!vars
<1>2. ASSUME NEW c \in Caller, NEW w \in Windows, Cleaner!Enable(c, w)
      PROVE  CleanerTypeOK'
  BY <1>2 DEF Cleaner!Enable, Cleaner!Known
<1>3. ASSUME NEW c \in Caller, NEW f \in File, Cleaner!AddLogFile(c, f)
      PROVE  CleanerTypeOK'
  BY <1>3 DEF Cleaner!AddLogFile
<1>4. ASSUME NEW c \in Caller,
             Cleaner!Disable(c) \/ Cleaner!DisableAgain(c) \/ Cleaner!Destroy(c)
      PROVE  CleanerTypeOK'
  <2>1. CASE Cleaner!Disable(c)
    <3>1. owed' \in [Caller -> SUBSET File]
      BY <2>1 DEF Cleaner!Disable, Cleaner!Overdue
    <3>. QED BY <2>1, <3>1 DEF Cleaner!Disable
  <2>2. CASE Cleaner!DisableAgain(c)
    BY <2>2 DEF Cleaner!DisableAgain
  <2>3. CASE Cleaner!Destroy(c)
    BY <2>3 DEF Cleaner!Destroy
  <2>. QED BY <1>4, <2>1, <2>2, <2>3
<1>5. ASSUME NEW c \in Caller, Cleaner!CallerStep(c) PROVE CleanerTypeOK'
  BY <1>5 DEF Cleaner!CallerStep, Cleaner!Notify, Cleaner!NotifyStop,
      Cleaner!Join, Cleaner!FinalScan, Cleaner!Known
<1>6. ASSUME NEW x \in Worker,
             Cleaner!WorkerStep(x) \/ Cleaner!SpuriousWakeup(x)
      PROVE  CleanerTypeOK'
  <2>1. CASE Cleaner!TakeDue(x)
    BY <2>1 DEF Cleaner!TakeDue, Cleaner!DueAt, Cleaner!Known
  <2>2. CASE \/ Cleaner!ReadClock(x) \/ Cleaner!EndWorker(x) \/ Cleaner!Sleep(x)
            \/ Cleaner!TimeOut(x) \/ Cleaner!Wake(x) \/ Cleaner!SpuriousWakeup(x)
    BY <2>2 DEF Cleaner!ReadClock, Cleaner!EndWorker, Cleaner!Sleep,
        Cleaner!TimeOut, Cleaner!Wake, Cleaner!SpuriousWakeup
  <2>. QED BY <1>6, <2>1, <2>2 DEF Cleaner!WorkerStep
<1>7. ASSUME NEW x \in Cleaner!Actor, Cleaner!ScanStep(x) PROVE CleanerTypeOK'
  BY <1>7 DEF Cleaner!ScanStep, Cleaner!BeginScan, Cleaner!FindOverdue,
      Cleaner!Unlink, Cleaner!EndScan, Cleaner!Overdue
<1>8. ASSUME NEW f \in File, Cleaner!Touch(f) PROVE CleanerTypeOK'
  BY <1>8 DEF Cleaner!Touch
<1>9. CASE Cleaner!Tick
  BY <1>9 DEF Cleaner!Tick
<1>. QED
  BY <1>1, <1>2, <1>3, <1>4, <1>5, <1>6, <1>7, <1>8, <1>9 DEF Cleaner!Next

\* A call of the thread c, or a step on.
Acts(c) ==
  \/ \E w \in Windows : Cleaner!Enable(c, w)
  \/ \E f \in File : Cleaner!AddLogFile(c, f)
  \/ Cleaner!Disable(c) \/ Cleaner!DisableAgain(c) \/ Cleaner!Destroy(c)
  \/ Cleaner!CallerStep(c)

\* A step of the thread c itself.
LEMMA OwnStep ==
  ASSUME CleanerAssumptions, OneController, CleanerIInv, NEW c \in Caller,
         Acts(c) \/ Cleaner!ScanStep(c)
  PROVE  OwedInDisable(c)' /\ FoundByScan(c)'
<1>. USE DEF CleanerAssumptions, Cleaner!TimeAssumption, Cleaner!FileAssumption,
    Cleaner!CallerAssumption, CleanerTypeOK, CleanerIInv, Cleaner!cleaner,
    Cleaner!waiters, Cleaner!scan, Cleaner!Goto, Cleaner!Actor, Stopping
<1>1. OwedInDisable(c) /\ FoundByScan(c)
  OBVIOUS
<1>. USE <1>1 DEF OwedInDisable, FoundByScan
<1>2. ASSUME NEW w \in Windows, Cleaner!Enable(c, w)
      PROVE  OwedInDisable(c)' /\ FoundByScan(c)'
  BY <1>2 DEF Cleaner!Enable
<1>3. ASSUME NEW f \in File, Cleaner!AddLogFile(c, f)
      PROVE  OwedInDisable(c)' /\ FoundByScan(c)'
  BY <1>3 DEF Cleaner!AddLogFile
<1>4. CASE Cleaner!Disable(c)
  BY <1>4 DEF Cleaner!Disable, Cleaner!Overdue, Cleaner!Known
<1>5. CASE Cleaner!DisableAgain(c) \/ Cleaner!Destroy(c)
  BY <1>5 DEF Cleaner!DisableAgain, Cleaner!Destroy
<1>6. CASE Cleaner!Notify(c) \/ Cleaner!NotifyStop(c) \/ Cleaner!Join(c)
  BY <1>6 DEF Cleaner!Notify, Cleaner!NotifyStop, Cleaner!Join,
      Cleaner!AfterNotify, Cleaner!AfterJoin, Cleaner!Known
<1>7. CASE Cleaner!FinalScan(c)
  BY <1>7 DEF Cleaner!FinalScan
<1>8. CASE Cleaner!BeginScan(c)
  BY <1>8 DEF Cleaner!BeginScan
<1>9. CASE Cleaner!FindOverdue(c)
  BY <1>9 DEF Cleaner!FindOverdue, Cleaner!Overdue
<1>10. CASE Cleaner!Unlink(c)
  BY <1>10 DEF Cleaner!Unlink
<1>11. CASE Cleaner!EndScan(c)
  BY <1>11 DEF Cleaner!EndScan
<1>. QED
  BY <1>2, <1>3, <1>4, <1>5, <1>6, <1>7, <1>8, <1>9, <1>10, <1>11
  DEF Acts, Cleaner!CallerStep, Cleaner!ScanStep

\* A step of anybody else: of another thread, of a worker, of a logger, of time.
LEMMA OtherStep ==
  ASSUME CleanerAssumptions, OneController, CleanerIInv,
         [Cleaner!Next]_Cleaner!vars, NEW c \in Caller,
         ~Acts(c), ~Cleaner!ScanStep(c)
  PROVE  OwedInDisable(c)' /\ FoundByScan(c)'
<1>. USE DEF CleanerAssumptions, Cleaner!TimeAssumption, Cleaner!FileAssumption,
    Cleaner!CallerAssumption, CleanerTypeOK, CleanerIInv, Cleaner!cleaner,
    Cleaner!waiters, Cleaner!scan, Cleaner!Goto, Cleaner!Actor, Stopping
<1>0. OwedInDisable(c) /\ FoundByScan(c)
  OBVIOUS
<1>. USE <1>0 DEF OwedInDisable, FoundByScan
<1>1. CASE UNCHANGED Cleaner!vars
  BY <1>1 DEF Cleaner!vars, Cleaner!Known
<1>2. ASSUME NEW d \in Caller, d # c, NEW w \in Windows, Cleaner!Enable(d, w)
      PROVE  OwedInDisable(c)' /\ FoundByScan(c)'
  BY <1>2 DEF Cleaner!Enable, OneController
<1>3. ASSUME NEW d \in Caller, d # c, NEW f \in File, Cleaner!AddLogFile(d, f)
      PROVE  OwedInDisable(c)' /\ FoundByScan(c)'
  BY <1>3 DEF Cleaner!AddLogFile, Cleaner!Known
<1>4. ASSUME NEW d \in Caller, d # c,
             Cleaner!Disable(d) \/ Cleaner!DisableAgain(d) \/ Cleaner!Destroy(d)
      PROVE  OwedInDisable(c)' /\ FoundByScan(c)'
  BY <1>4 DEF Cleaner!Disable, Cleaner!DisableAgain, Cleaner!Destroy,
      OneController
<1>5. ASSUME NEW d \in Caller, d # c, Cleaner!CallerStep(d)
      PROVE  OwedInDisable(c)' /\ FoundByScan(c)'
  BY <1>5 DEF Cleaner!CallerStep, Cleaner!Notify, Cleaner!NotifyStop,
      Cleaner!Join, Cleaner!FinalScan, Cleaner!Known
<1>6. ASSUME NEW x \in Worker,
             Cleaner!WorkerStep(x) \/ Cleaner!SpuriousWakeup(x)
      PROVE  OwedInDisable(c)' /\ FoundByScan(c)'
  <2>1. CASE Cleaner!TakeDue(x)
    BY <2>1 DEF Cleaner!TakeDue, Cleaner!DueAt, Cleaner!Known
  <2>2. CASE \/ Cleaner!ReadClock(x) \/ Cleaner!EndWorker(x) \/ Cleaner!Sleep(x)
            \/ Cleaner!TimeOut(x) \/ Cleaner!Wake(x) \/ Cleaner!SpuriousWakeup(x)
    BY <2>2 DEF Cleaner!ReadClock, Cleaner!EndWorker, Cleaner!Sleep,
        Cleaner!TimeOut, Cleaner!Wake, Cleaner!SpuriousWakeup, Cleaner!Known
  <2>. QED BY <1>6, <2>1, <2>2 DEF Cleaner!WorkerStep
<1>7. ASSUME NEW x \in Cleaner!Actor, x # c, Cleaner!ScanStep(x)
      PROVE  OwedInDisable(c)' /\ FoundByScan(c)'
  <2>1. CASE Cleaner!BeginScan(x)
    BY <1>7, <2>1 DEF Cleaner!BeginScan, Cleaner!Known
  <2>2. CASE Cleaner!FindOverdue(x)
    BY <1>7, <2>2 DEF Cleaner!FindOverdue, Cleaner!Known
  <2>3. CASE Cleaner!Unlink(x)
    BY <1>7, <2>3 DEF Cleaner!Unlink, Cleaner!Known
  <2>4. CASE Cleaner!EndScan(x)
    BY <1>7, <2>4 DEF Cleaner!EndScan, Cleaner!Known
  <2>. QED BY <1>7, <2>1, <2>2, <2>3, <2>4 DEF Cleaner!ScanStep
<1>8. ASSUME NEW f \in File, Cleaner!Touch(f)
      PROVE  OwedInDisable(c)' /\ FoundByScan(c)'
  BY <1>8 DEF Cleaner!Touch, Cleaner!Known
<1>9. CASE Cleaner!Tick
  BY <1>9 DEF Cleaner!Tick, Cleaner!Known
<1>10. CASE \E d \in Caller : Acts(d)
  <2>1. PICK d \in Caller : Acts(d)
    BY <1>10
  <2>2. d # c
    BY <2>1
  <2>. QED BY <1>2, <1>3, <1>4, <1>5, <2>1, <2>2 DEF Acts
<1>11. CASE \E x \in Cleaner!Actor : Cleaner!ScanStep(x)
  BY <1>7, <1>11
<1>. QED
  BY <1>1, <1>6, <1>8, <1>9, <1>10, <1>11 DEF Cleaner!Next, Acts

-----------------------------------------------------------------------------
\* Whatever the workers, the loggers and time do while it stops the cleaner, the
\* controlling thread comes to every file it owes.
THEOREM CleanerInvariant ==
  CleanerAssumptions /\ OneController /\ Cleaner!Spec => []CleanerIInv
<1>. SUFFICES ASSUME CleanerAssumptions, OneController
             PROVE  Cleaner!Spec => []CleanerIInv
  OBVIOUS
<1>1. CleanerIInv /\ [Cleaner!Next]_Cleaner!vars => CleanerIInv'
  <2>. SUFFICES ASSUME CleanerIInv, [Cleaner!Next]_Cleaner!vars
               PROVE  CleanerIInv'
    OBVIOUS
  <2>1. CleanerTypeOK'
    BY CleanerTypes
  <2>2. \A c \in Caller : OwedInDisable(c)' /\ FoundByScan(c)'
    BY OwnStep, OtherStep
  <2>. QED BY <2>1, <2>2 DEF CleanerIInv
<1>. QED BY CleanerInit, <1>1, PTL DEF Cleaner!Spec

\* When Disable returns, every file that was overdue when it was called is gone,
\* but for those written to since: for any number of files, patterns, workers
\* and other threads that create log files.
THEOREM DisableCleans ==
  CleanerAssumptions /\ OneController /\ Cleaner!Spec => Cleaner!DisableCleansUp
<1>. SUFFICES ASSUME CleanerAssumptions, OneController
             PROVE  Cleaner!Spec => Cleaner!DisableCleansUp
  OBVIOUS
<1>1. ASSUME CleanerIInv, [Cleaner!Next]_Cleaner!vars
      PROVE  [\A c \in Caller :
       cleanerPc[c] = "scan" /\ cleanerPc'[c] = "user"
         => \A f \in owed[c] : mtime[f] = -1]_Cleaner!vars
  <2>. SUFFICES ASSUME Cleaner!Next, NEW c \in Caller,
                       cleanerPc[c] = "scan", cleanerPc'[c] = "user"
                PROVE  \A f \in owed[c] : mtime[f] = -1
    BY <1>1
  <2>. USE DEF CleanerAssumptions, Cleaner!CallerAssumption, Cleaner!cleaner,
      Cleaner!waiters, Cleaner!scan, Cleaner!Goto, Cleaner!Actor
  <2>1. DOMAIN cleanerPc = Cleaner!Actor /\ FoundByScan(c)
    BY <1>1 DEF CleanerIInv, CleanerTypeOK
  <2>2. Cleaner!EndScan(c)
    BY <2>1 DEF Cleaner!Next, Cleaner!CallerStep, Cleaner!WorkerStep,
        Cleaner!ScanStep, Cleaner!Enable, Cleaner!AddLogFile,
        Cleaner!Disable, Cleaner!DisableAgain, Cleaner!Destroy,
        Cleaner!Notify, Cleaner!NotifyStop, Cleaner!Join, Cleaner!FinalScan,
        Cleaner!ReadClock, Cleaner!EndWorker, Cleaner!TakeDue,
        Cleaner!Sleep, Cleaner!TimeOut, Cleaner!Wake,
        Cleaner!SpuriousWakeup, Cleaner!BeginScan, Cleaner!FindOverdue,
        Cleaner!Unlink, Cleaner!EndScan, Cleaner!Touch, Cleaner!Tick,
        Cleaner!AfterNotify, Cleaner!AfterJoin
  <2>. QED BY <2>1, <2>2 DEF Cleaner!EndScan, FoundByScan, Stopping
<1>. QED BY <1>1, CleanerInvariant, PTL DEF Cleaner!Spec,
    Cleaner!DisableCleansUp
=============================================================================
