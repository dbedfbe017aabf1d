----------------------------- MODULE LogCleaner -----------------------------
(***************************************************************************)
(* The log cleaner (src/src/internal/log_cleaner.cc): a thread that scans  *)
(* the directories of the log files for overdue ones and removes them.     *)
(* Enable starts the thread, Disable stops it and scans once more itself,  *)
(* AddLogFile registers the pattern of a log file that was just created.   *)
(*                                                                         *)
(* A critical section of mutex_ is one step, notifications come after it,  *)
(* and scans run without the lock: a file is looked at in one step and     *)
(* removed in a later one.                                                 *)
(***************************************************************************)
EXTENDS Integers, FiniteSets, FiniteSetsExt

CONSTANTS
  Caller,      \* the threads of the application
  Controllers, \* those that enable and disable the cleaner
  Worker,      \* the cleaner threads that may be started
  NoWorker,    \* "no thread"
  File,        \* the log files
  Pattern,     \* their patterns
  PatternOf,   \* PatternOf[f]
  Old,         \* the files that exist from the start
  Windows,     \* the values EnableLogCleaner is called with
  CleanSecs,   \* FLAGS_logcleansecs
  MayTouch,    \* whether files are written to after their creation
  MaxClock     \* bound: time that passes

ASSUME CallerAssumption ==
  Controllers \subseteq Caller /\ Caller \cap Worker = {}
ASSUME WorkerAssumption == NoWorker \notin Worker
ASSUME FileAssumption == PatternOf \in [File -> Pattern] /\ Old \subseteq File
ASSUME TimeAssumption ==
  /\ Windows \subseteq Nat
  /\ CleanSecs \in Nat \ {0}
  /\ MaxClock \in Nat
  /\ MayTouch \in BOOLEAN

VARIABLES
  enabled,  \* enabled_
  thread,   \* thread_
  overdue,  \* overdue_
  nextScan, \* patterns_: next_cleanup_time of the known patterns, -1 of others
  asleep,   \* the workers blocked on cond_
  deadline, \* deadline[x]: when the wait of a worker times out, or -1
  pc,       \* where a thread is
  now,      \* now[x]: the time a thread has read
  due,      \* due[x]: the patterns that a scan has not reached
  window,   \* window[x]: the overdue window a scan works with
  victims,  \* victims[x]: the overdue files that a scan found
  joins,    \* joins[c]: the thread that Disable joins
  clock,
  mtime,    \* mtime[f]: the last modification, -1 for a file that is absent
  \* History.
  owed      \* owed[c]: the overdue files when c called Disable

vars == <<enabled, thread, overdue, nextScan, asleep, deadline, pc, now, due,
          window, victims, joins, clock, mtime, owed>>
scan == <<now, due, window, victims>>
cleaner == <<enabled, thread, overdue, nextScan>>
waiters == <<asleep, deadline>>

Actor == Caller \cup Worker
Known == {p \in Pattern : nextScan[p] >= 0}
Goto(x, l) == pc' = [pc EXCEPT ![x] = l]

\* IsLogLastModifiedOver: the files of a pattern that are overdue at time t.
Overdue(P, t, w) ==
  {f \in File : PatternOf[f] \in P /\ mtime[f] >= 0 /\ t - mtime[f] >= w}

Init ==
  /\ enabled = FALSE
  /\ thread = NoWorker
  /\ overdue = 7
  /\ nextScan = [p \in Pattern |-> -1]
  /\ asleep = {}
  /\ deadline = [x \in Worker |-> -1]
  /\ pc = [x \in Actor |-> IF x \in Caller THEN "user" ELSE "unborn"]
  /\ now = [x \in Actor |-> 0]
  /\ due = [x \in Actor |-> {}]
  /\ window = [x \in Actor |-> 0]
  /\ victims = [x \in Actor |-> {}]
  /\ joins = [c \in Caller |-> NoWorker]
  /\ clock = 0
  /\ mtime = [f \in File |-> IF f \in Old THEN 0 ELSE -1]
  /\ owed = [c \in Caller |-> {}]

-----------------------------------------------------------------------------
(* Enable, Disable and AddLogFile.                                         *)

Enable(c, w) ==
  /\ c \in Controllers
  /\ pc[c] = "user"
  /\ overdue' = w
  /\ enabled' = TRUE
  /\ IF enabled
     THEN /\ Goto(c, "notify")
          /\ UNCHANGED <<thread, nextScan>>
     ELSE \E x \in Worker :
            /\ pc[x] = "unborn"
            /\ thread' = x
            /\ pc' = [pc EXCEPT ![c] = "notify", ![x] = "start"]
            /\ nextScan' = [p \in Pattern |-> IF p \in Known THEN 0 ELSE -1]
  /\ UNCHANGED <<waiters, scan, joins, clock, mtime, owed>>

\* cond_.notify_one(): one of the threads that wait there.
NotifyOne ==
  \/ asleep = {} /\ UNCHANGED asleep
  \/ \E x \in asleep : asleep' = asleep \ {x}

\* Variant: the waiting thread is not woken.
NotifyNobody(c) ==
  /\ pc[c] = "notify"
  /\ Goto(c, "user")
  /\ UNCHANGED <<cleaner, waiters, scan, joins, clock, mtime, owed>>

Notify(c) ==
  /\ pc[c] = "notify"
  /\ NotifyOne
  /\ Goto(c, "user")
  /\ UNCHANGED <<cleaner, deadline, scan, joins, clock, mtime, owed>>

\* LogFileObject created a file and registers it: its pattern is due at once.
AddLogFile(c, f) ==
  /\ pc[c] = "user"
  /\ mtime[f] = -1
  /\ mtime' = [mtime EXCEPT ![f] = clock]
  /\ nextScan' = [nextScan EXCEPT ![PatternOf[f]] = 0]
  /\ owed' = [d \in Caller |-> owed[d] \ {f}]
  /\ Goto(c, "notify")
  /\ UNCHANGED <<enabled, thread, overdue, waiters, scan, joins, clock>>

\* Disabling a cleaner that is not enabled: Stop finds no thread to join, and
\* nothing is removed.
DisableAgain(c) ==
  /\ c \in Controllers
  /\ pc[c] = "user"
  /\ ~enabled
  /\ Goto(c, "notify")
  /\ UNCHANGED <<cleaner, waiters, scan, joins, clock, mtime, owed>>

\* Disable calls Stop, which takes the thread over to join it.
Disable(c) ==
  /\ c \in Controllers
  /\ pc[c] = "user"
  /\ enabled
  /\ enabled' = FALSE
  /\ joins' = [joins EXCEPT ![c] = thread]
  /\ thread' = NoWorker
  /\ owed' = [owed EXCEPT ![c] = Overdue(Known, clock, overdue)]
  /\ Goto(c, "notifyStop")
  /\ UNCHANGED <<overdue, nextScan, waiters, scan, clock, mtime>>

\* The destructor, when the process exits, calls Stop alone.  Nobody calls the
\* cleaner any more.
Destroy(c) ==
  /\ c \in Controllers
  /\ \A d \in Caller : pc[d] = "user"
  /\ enabled
  /\ enabled' = FALSE
  /\ joins' = [joins EXCEPT ![c] = thread]
  /\ thread' = NoWorker
  /\ pc' = [x \in Actor |-> IF x = c THEN "exitStop"
                            ELSE IF x \in Caller THEN "gone" ELSE pc[x]]
  /\ UNCHANGED <<overdue, nextScan, waiters, scan, clock, mtime, owed>>

\* Where Stop goes on, for Disable and for the destructor.
AfterNotify(c) == IF pc[c] = "notifyStop" THEN "join" ELSE "exitJoin"
AfterJoin(c) == IF pc[c] = "join" THEN "final" ELSE "gone"

\* Variant: nobody wakes the thread.
NotifyStopSilently(c) ==
  /\ pc[c] \in {"notifyStop", "exitStop"}
  /\ UNCHANGED asleep
  /\ Goto(c, AfterNotify(c))
  /\ UNCHANGED <<cleaner, deadline, scan, joins, clock, mtime, owed>>

NotifyStop(c) ==
  /\ pc[c] \in {"notifyStop", "exitStop"}
  /\ NotifyOne
  /\ Goto(c, AfterNotify(c))
  /\ UNCHANGED <<cleaner, deadline, scan, joins, clock, mtime, owed>>

Join(c) ==
  /\ pc[c] \in {"join", "exitJoin"}
  /\ pc[joins[c]] = "ended"
  /\ joins' = [joins EXCEPT ![c] = NoWorker]
  /\ Goto(c, AfterJoin(c))
  /\ UNCHANGED <<cleaner, waiters, scan, clock, mtime, owed>>

\* Variant: only the patterns that are due are scanned.
FinalScanOfDue(c) ==
  /\ pc[c] = "final"
  /\ due' = [due EXCEPT ![c] = {p \in Known : nextScan[p] <= clock}]
  /\ window' = [window EXCEPT ![c] = overdue]
  /\ Goto(c, "readTime")
  /\ UNCHANGED <<cleaner, waiters, now, victims, joins, clock, mtime, owed>>

\* "... so run a final scan here", of every pattern.
FinalScan(c) ==
  /\ pc[c] = "final"
  /\ due' = [due EXCEPT ![c] = Known]
  /\ window' = [window EXCEPT ![c] = overdue]
  /\ Goto(c, "readTime")
  /\ UNCHANGED <<cleaner, waiters, now, victims, joins, clock, mtime, owed>>

-----------------------------------------------------------------------------
(* Worker.                                                                 *)

\* The time is read before the lock is taken.
ReadClock(x) ==
  /\ pc[x] = "start"
  /\ now' = [now EXCEPT ![x] = clock]
  /\ Goto(x, "check")
  /\ UNCHANGED <<cleaner, waiters, due, window, victims, joins, clock, mtime,
                 owed>>

EndWorker(x) ==
  /\ pc[x] = "check"
  /\ ~enabled
  /\ Goto(x, "ended")
  /\ UNCHANGED <<cleaner, waiters, scan, joins, clock, mtime, owed>>

DueAt(t) == {p \in Known : nextScan[p] <= t}

\* The patterns that are due are taken, and their next scan scheduled.
TakeDue(x) ==
  /\ pc[x] = "check"
  /\ enabled
  /\ DueAt(now[x]) # {}
  /\ due' = [due EXCEPT ![x] = DueAt(now[x])]
  /\ window' = [window EXCEPT ![x] = overdue]
  /\ nextScan' = [p \in Pattern |-> IF p \in DueAt(now[x])
                                     THEN now[x] + CleanSecs ELSE nextScan[p]]
  /\ Goto(x, "readTime")
  /\ UNCHANGED <<enabled, thread, overdue, waiters, now, victims, joins, clock,
                 mtime, owed>>

\* The earliest time at which a pattern is due, if there is a pattern.
NextDeadline ==
  IF Known = {} THEN -1 ELSE Min({nextScan[p] : p \in Known})

\* Nothing is due: wait for a notification or for the earliest deadline.
Sleep(x) ==
  /\ pc[x] = "check"
  /\ enabled
  /\ DueAt(now[x]) = {}
  /\ asleep' = asleep \cup {x}
  /\ deadline' = [deadline EXCEPT ![x] = NextDeadline]
  /\ Goto(x, "sleep")
  /\ UNCHANGED <<cleaner, scan, joins, clock, mtime, owed>>

\* The deadline passes, or the condition variable wakes the thread for no
\* reason.
TimeOut(x) ==
  /\ x \in asleep
  /\ deadline[x] >= 0
  /\ deadline[x] <= clock
  /\ asleep' = asleep \ {x}
  /\ UNCHANGED <<cleaner, deadline, pc, scan, joins, clock, mtime, owed>>

SpuriousWakeup(x) ==
  /\ x \in asleep
  /\ asleep' = asleep \ {x}
  /\ UNCHANGED <<cleaner, deadline, pc, scan, joins, clock, mtime, owed>>

\* The wait of an empty cleaner has a predicate, the other one loops.
Wake(x) ==
  /\ pc[x] = "sleep"
  /\ x \notin asleep
  /\ deadline' = [deadline EXCEPT ![x] = -1]
  /\ Goto(x, "start")
  /\ UNCHANGED <<cleaner, asleep, scan, joins, clock, mtime, owed>>

-----------------------------------------------------------------------------
(* CleanOverdueLogs, on the worker and in Disable.                         *)

\* The wall clock is read when the scan begins.
BeginScan(x) ==
  /\ pc[x] = "readTime"
  /\ now' = [now EXCEPT ![x] = clock]
  /\ Goto(x, "scan")
  /\ UNCHANGED <<cleaner, waiters, due, window, victims, joins, clock, mtime,
                 owed>>

\* GetOverdueLogNames: the files of a pattern are looked at.
FindOverdue(x) ==
  /\ pc[x] = "scan"
  /\ victims[x] = {}
  /\ \E p \in due[x] :
       /\ due' = [due EXCEPT ![x] = @ \ {p}]
       /\ victims' = [victims EXCEPT ![x] = Overdue({p}, now[x], window[x])]
  /\ UNCHANGED <<cleaner, waiters, pc, now, window, joins, clock, mtime, owed>>

\* UnlinkPath, which does nothing for a file that is gone already.
Unlink(x) ==
  /\ pc[x] = "scan"
  /\ \E f \in victims[x] :
       /\ victims' = [victims EXCEPT ![x] = @ \ {f}]
       /\ mtime' = [mtime EXCEPT ![f] = -1]
  /\ UNCHANGED <<cleaner, waiters, pc, now, due, window, joins, clock, owed>>

EndScan(x) ==
  /\ pc[x] = "scan"
  /\ due[x] = {}
  /\ victims[x] = {}
  /\ Goto(x, IF x \in Caller THEN "user" ELSE "start")
  /\ now' = [now EXCEPT ![x] = 0]
  /\ window' = [window EXCEPT ![x] = 0]
  /\ IF x \in Caller THEN owed' = [owed EXCEPT ![x] = {}] ELSE UNCHANGED owed
  /\ UNCHANGED <<cleaner, waiters, due, victims, joins, clock, mtime>>

-----------------------------------------------------------------------------
\* A logger writes to its file.
Touch(f) ==
  /\ MayTouch
  /\ mtime[f] >= 0
  /\ mtime[f] < clock
  /\ mtime' = [mtime EXCEPT ![f] = clock]
  /\ owed' = [d \in Caller |-> owed[d] \ {f}]
  /\ UNCHANGED <<cleaner, waiters, pc, scan, joins, clock>>

Tick ==
  /\ clock < MaxClock
  /\ clock' = clock + 1
  /\ UNCHANGED <<cleaner, waiters, pc, scan, joins, mtime, owed>>

CallerStep(c) == Notify(c) \/ NotifyStop(c) \/ Join(c) \/ FinalScan(c)

WorkerStep(x) ==
  \/ ReadClock(x) \/ EndWorker(x) \/ TakeDue(x) \/ Sleep(x) \/ TimeOut(x)
  \/ Wake(x)

ScanStep(x) == BeginScan(x) \/ FindOverdue(x) \/ Unlink(x) \/ EndScan(x)

Next ==
  \/ \E c \in Caller :
       \/ \E w \in Windows : Enable(c, w)
       \/ \E f \in File : AddLogFile(c, f)
       \/ Disable(c) \/ DisableAgain(c) \/ Destroy(c)
       \/ CallerStep(c)
  \/ \E x \in Worker : WorkerStep(x) \/ SpuriousWakeup(x)
  \/ \E x \in Actor : ScanStep(x)
  \/ \E f \in File : Touch(f)
  \/ Tick

Spec == Init /\ [][Next]_vars

\* Threads are scheduled.  Time need not pass, and nobody need call anything.
Fairness ==
  /\ \A c \in Caller : WF_vars(CallerStep(c))
  /\ \A x \in Worker : WF_vars(WorkerStep(x))
  /\ \A x \in Actor : WF_vars(ScanStep(x))

FairSpec == Spec /\ Fairness

-----------------------------------------------------------------------------
\* "Callers ... expect cleaning to have happened by the time Disable()
\* returns": the files that were overdue when it was called are gone, but for
\* those written to since.
DisableCleansUp ==
  [][\A c \in Caller :
       pc[c] = "scan" /\ pc'[c] = "user"
         => \A f \in owed[c] : mtime[f] = -1]_vars

\* "This feature can be disabled at any time": Disable gets past the join, and
\* so does the exit of the process (one thread enables and disables it).
Joining(c) == pc[c] \in {"join", "exitJoin"}

DisableReturns == \A c \in Caller : Joining(c) ~> ~Joining(c)

\* AddLogFile "wakes up the cleaner thread so that logs which became overdue
\* are removed promptly": a file of a pattern that is due and that is overdue is
\* removed, unless it is written to, or the cleaner is disabled or given another
\* window first.
OverdueIsRemoved ==
  \A f \in File, m \in 0 .. MaxClock, w \in Windows :
    (enabled /\ nextScan[PatternOf[f]] = 0 /\ mtime[f] = m /\ overdue = w
       /\ clock - m >= w)
      ~> ~(enabled /\ mtime[f] = m /\ overdue = w)
=============================================================================
