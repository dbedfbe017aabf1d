# Verification of ng-log

TLA+ models of the concurrent and stateful core of ng-log, the TLC runs that
check them on small instances, and TLAPS proofs about them. `PROJECT.json` maps
every definition to the source lines it models, and lists runs, mutants,
findings, hazards and theorems.

## 1. The system and its hard parts

ng-log is a library: its callers are the threads of an application. A `LOG`
statement composes a message (`LogMessage`), `Flush` dispatches it under
`log_mutex` to the log files of its severity (`LogFileObject`), to stderr and,
outside that lock, to the registered sinks. The experimental API can hand the
message to a logging thread instead. Beside that path are the log cleaner, the
failure signal handler, VLOG levels, flags, and the subprocess that symbolizes
stack traces.

| component | state | operations | interacts through | what is hard | correct when | module |
|---|---|---|---|---|---|---|
| sink registry (`logging.cc`) | `sinks_`, `sinks_present_`, call counts, `sink_waiting_call_counts_` | add, remove, dispatch, wait, shut down | callbacks of sinks, which log, add and remove themselves; condition variable | removal while others call; removal inside callbacks; exceptions; flag read without lock | a removed sink is never called; removal returns; counts are exact | `LogSinks` |
| logging thread (`experimental/async.cc`) | `queue_`, `pending_bytes_`, `sending_`, `stopped_`, `thread_` | Push, Wait, Stop, fork handlers, Run | queue, three condition variables, `atexit`, `pthread_atfork` | exit and fork with messages in flight; a sink that logs, flushes or exits on the logging thread | each message is sent once, in order, within capacity; waits end | `LogThread`, `AsyncContract` |
| log file (`logging.cc`) | `file_`, `file_pid_`, `file_length_`, attempt counter, flush time, dropped length, `stop_writing` | Write, Flush, SetBasename, SetExtension, destructor | file system, record locks, fork, log cleaner | processes that share a file; fork with a full buffer; full disk; mutex released in the middle of Write | no line lost without cause, twice or in a foreign file; one writer | `LogFile` |
| log cleaner (`internal/log_cleaner.cc`) | `enabled_`, `thread_`, `overdue_`, `patterns_` | Enable, Disable, AddLogFile, Worker, destructor | file system, condition variable, log file creation | Enable and Disable at the same time; stat and unlink apart | Disable ends with a clean directory; only overdue files go | `LogCleaner` |
| message dispatch (`logging.cc`), raw logging (`raw_logging.cc`) | fatal buffers, crash reasons, `log_mutex` | Init, Flush, SendToLog, Fail, RawLog | all of the above | fatal messages of several threads; recursion; failure functions that return | first fatal message wins, is on disk; process ends | `Failure` |
| signal handler (`signalhandler.cc`) | ownership flag, per-thread entry flag, dispositions | handler, default handler | signals that interrupt any step of the above | several threads fail; failure while dumping; PID 1 | one dump at a time, process ends | `Failure` |
| VLOG (`vlog_is_on.cc`) | module list, cached levels | VLOG test, SetVLOGLevel, `FLAGS_v` | call sites | caches read without lock | after SetVLOGLevel every site uses the new level | `VLog` |
| call sites (`experimental/site.cc`) | locations, slots, overflow | find, register, publish | rate limits | lock-free publication | one state per site and type | `SiteRegistry` |
| rate limits (`experimental/attributes.cc`, `logging.h`) | atomic counters | EveryN, FirstN, EveryT and the `LOG_EVERY_*` helpers | call sites | compare-and-swap loops, wrapping counters, a clock read too early | exactly the promised occurrences | `RateLimit` |
| flag registry (`internal/flag_registry.cc`, `internal/process_flag_registry.cc`, `flags.h`) | values and their states, registered flags, the shared table of names | register, get, set, save, restore, environment defaults, fork handlers, loading | all others | several copies of the library; fork with held locks; flags read before they are initialized | one value per flag; explicit values win; a child inherits no lock | `Flags` |
| subprocess (`subprocess_fork.cc`), addr2line (`addr2line.cc`) | pipes, child, deadline | Spawn, ReadStdout, Wait, Reset, RunAddr2Line | kernel, other threads that fork and wait | timeouts racing answers, zombies, reused process ids | no hang, child reaped, nobody else killed | `Subprocess` |

The remaining components (destinations per severity, lock metrics, text
algorithms, demangler and symbolizer, unwinders, formatting, check macros,
e-mail) are not modelled, for the reasons in section 6.

## 2. Plan

Done: `LogSinks`, `LogThread` with the contract it implements
(`AsyncContract`), `LogFile`, `LogCleaner`, `Failure` (message dispatch, fatal
messages, raw logging and signal handler composed as the way a process dies),
`VLog`, `RateLimit` on top of `SiteRegistry`, `Subprocess` with the addr2line
caller, and `Flags` (values, registries, the table that copies share, fork).
Every safety property and every action property that the runs check has a
theorem (section 5).

Left, in this order:

1. The parts of the liveness arguments that are invariants: which lock or
   condition a waiting thread waits for and who will grant it (the logging
   thread and its `Stop`; the worker of the cleaner that `Disable` joins).
2. Theorems that cover more programs than the runs: what still holds of
   `LogFile` when processes share a file and drop pages, and of `LogCleaner`
   with several controlling threads.
3. The duplicate wakeups: that a notification the code does not send is never
   missed (`WaitForSinkCalls`, second branch).

## 3. Modules

Every component module has Init, one action per step between two
synchronisation points of the code, `Next`, `Spec` and, with liveness,
`FairSpec`. `MC<module>` gives the instances their constants. Definitions
called "Variant" are plausible bugs, used as mutants only. A critical section
is one action; a notification that the code sends after unlocking is an action
of its own; a condition variable is the set of the threads asleep on it, and a
woken thread evaluates its predicate again in a later step. All three models
with condition variables have spurious wakeups. Code without locks
(`SiteRegistry`, `RateLimit`, the VLOG test, flag values) has one action for
each atomic load, store or exchange.

### LogSinks

`sinks` is the vector `*sinks_`: pairs of a ticket and a sink, whose tickets
give its order. `calls`, `threadCalls` and `waiting` are the three count maps
(0 for an absent entry); `asleep` are the threads in `sink_call_cond_.wait`.
`stack[t]` holds the callbacks that thread `t` is in, since a callback may log
(and call sinks again), add, remove, throw or shut down logging. `retired` is
history: the sinks that a completed removal has released to their owners.

Bounds: `MaxAdds` registrations, `MaxDepth` nested callbacks. With depth 2 a
thread is inside a callback twice, which is what the counts per thread are for.

### LogThread and AsyncContract

`queue`, `bytes`, `sending`, `stopped` and `started` are the fields;
`asleep[c]` the threads on `pending_`, `idle_` and `space_`. A message is a
pair of its thread and number, with a size. A sink on the logging thread may
log, flush (both return at once) or call `exit`. `Fork` continues in the child:
the other threads vanish, `ResumeChildAfterFork` runs, and what the parent has
queued is out of the child's history. `LogFatal` is `DispatchDeferred` for a
fatal message, which waits for the queue and sends itself.

`AsyncContract` is what the Async attribute promises, without queue, thread,
locks or condition variables: a message is held or sent, once, after every
message whose call had returned when its own began; whoever waits, waits for
what was passed before; an orderly exit has sent everything; what was passed is
sent. `PromiseKept` is the refinement. Held are the messages in the queue, in
the part of the queue that `Stop` has taken, and in the hands of the logging
thread; waiting are the threads in `Wait` and those with a fatal message; a
message is abandoned when the sink that is being sent it calls `exit`. From
that moment the contract promises neither order nor waits (see the observations
in section 4), but still every other message, once.

Bounds: two threads, two messages each of sizes 1 and 2, capacity 3. Two
messages fit together and a third has to wait, and a wakeup that frees one byte
is not enough for the larger message.

### LogFile

Processes interleave at system calls (stat; open, lock and truncate; write);
`mutex_` makes the operations of one process exclusive, except for the window
around `posix_fadvise` (`advice`, `EndAdvice`). `obj[p]` are the fields and the
stdio buffer, `files[n]` the length, the lines and the owner of the record lock
of a file. The system's rule that closing any descriptor of a file drops the
process's record locks on it is `Unlock`. Lines are pairs of a process and a
number, so that a line written twice or to a foreign file is visible. A process
is `trouble`d once a file could not be created, a write met a full disk, it was
told not to write or it was killed; only such processes may lose lines. stdio
drops its buffer when a write of it fails, as the libraries of glibc and musl
do, and the code does not look at the results of `fflush` and `fclose`: on a
full disk a flush, a rollover, an exit and an overflowing `fwrite` empty the
buffer and mark the process. `inexact` is history of an object: its length was
set from a size that had changed by the time of the lock, or for a file that was
not opened, or counts bytes that a full disk did not take; `size` is what `stat`
has read. Sizes are units; `Mebi` units are a mebibyte. `SetExtension` changes
the name exactly as `SetBasename` does and is represented by it. The flags of
the program and what its user may do are one value, `settings`, chosen
initially: one run covers three programs.

Bounds: two processes, one second. `Forking`: the header and one message fill a
file, so the second message rolls over, within the same second or after it, the
first of the two default directories is not writable, and a parent and a child
have two messages each. `Sharing`: two processes with one file name, whose
third message rolls over. `Growing`: one process and seven messages, enough for
two page drops and a rollover.

### LogCleaner

Scans run without the lock: a pattern's files are looked at in one step
(`FindOverdue`) and removed one by one (`Unlink`). Time is a counter. `Worker`
reads the clock before it takes the lock, as in the code. The wait of the
worker has the deadline it computed when it went to sleep (`deadline`). The
steady and the system clock are one clock: the model has no clock adjustment.
`Destroy` is the destructor, which joins but does not scan.

Bounds: two callers of which one enables and disables, two workers (so Enable
and Disable happen twice), a file that an earlier process left and one that is
created, two windows, one tick. A removed file may be created again.

### Failure

A thread has its ordinary code (`at[t]`: inside a message, in the failure
function, in `RawLog`) and a stack `frames[t]` of handler activations on top of
it; ordinary code moves only while no handler is active. A signal is blocked
while its own handler runs, and only that one. Faults strike at any step of
ordinary code and in the dump; SIGTERM arrives at any step. `isInit` chooses
PID 1, which default dispositions do not kill. The log file is the sequence of
its lines, of which `synced` have left the stdio buffer; `stream` is the lock
of stdio, on which a handler that interrupts its holder would block. The failure
function may dump and exit, return or throw.

Bounds: two threads of which one logs an informational, fatal or raw and the
other a fatal or raw message, one message each, one SIGTERM, one fault, with
`dump` and `return`. These make all pairs of kinds meet that share state, and
up to three activations on one thread. With `throw` control returns to the
program, which with one message each could only stop or fault: the instance
leaves it out.

### VLog

A list element is never freed: its address is its index in `info`, and `list`
gives the order. `level`, `hasDefault`, `initialized` are the fields of a site's
cache, loaded one by one (`LoadLevel`, `LoadValue`, `LoadInitialized`,
`LoadDefault`); what runs under `vmodule_mutex` is one action. `inited` chooses
between calls before and after the flags were parsed. `SafeFNMatch` fills the
table of the positions in pattern and string row by row, from the end of the
pattern: a row is a function of the positions in the string, and `Matched` is
what the loop decides from the row below and the entry to its right. It is
checked against a declarative definition of a glob for all patterns and words up
to a bound, and proved against it without one. `Observe` records every level
that was in effect while a test ran, `followed` the element whose level the tests
of a site have used, and `first` the site whose test ran the first
`InitializeVLOG3` of the process, which matches without filling the cache. The
two threads are interchangeable (`SYMMETRY`; the run checks no liveness).

Bounds: sites `ab` and `b`, `--vmodule=a*=1`, patterns `a*`, `ab`, `*b`, levels
0 and 2, two changes: an exact pattern, one that governs already and one that
covers a site of each kind.

### SiteRegistry and RateLimit

`SiteRegistry` is the table of locations (read without lock, extended under
`mutex_`), and per site the slots and the overflow of its states. A thread
constructs a state before it publishes it and destroys it when another thread
was faster. `RateLimit` extends it with the limits of the state that was found:
a load, then attempts to swap, which may fail for no reason.

Bounds: three locations, two of them of one site, so that the table of two
slots is full; one state slot, so that a second state goes to the overflow;
three lookups; `N` equal to the largest value of the counter, which therefore
wraps; three ticks with a period of one.

### Subprocess

The thread in `RunAddr2Line` between a child that may fail before exec, hang,
flood its output or exit, a kernel that reaps (`ignored`), reuses process ids
and kills, and other threads of the application that fork between `pipe` and
`fcntl` (`foreign` descriptors) and that call `wait`. `fds` are the open ends of
the three pipes; each exit of `Spawn` removes the ones that it closes
(`PipeFails`, `SetCloseOnExecFails`, `ForkFails`, `ReapAfterFailure`), and so do
the start of the program, `CloseStdin` and `Reset`. History: `told`, that
`waitpid` has said that the child is gone, and `strangers`, who else was killed
before and after that.

Bounds: a buffer of two bytes, a pipe of two, an output of up to three, a
timeout of two ticks: the output overflows both, and the child may answer
before, at and after the deadline.

### Flags

Operations are records: what, on which flag, with which value found so far;
`mutex`, `shared` and `lock` are the owners of the locks of a registry, of a
table of names and of a flag's value. `load`, `anchors`, `cell` and `table` model
how copies of the library that are loaded one after the other find one table.
`explicit` and `life` are history. Values are saved in two ways. `ScopedFlags<>`
(`save`) reads registration, value and explicit bit of a flag under the lock of
the registry. `ScopedFlag<T>` (`scope`) reads the registration under that lock,
gives it up, reads the value without a lock and the bit under the value's, and
then sets the flag; it may save a static flag before its registration, with
registration 0, which is always restored. The handlers of `pthread_atfork` run in
the order `Before` gives; the child has one thread.

Bounds: two threads, two copies, a static and a dynamic flag in one copy and a
dynamic flag of the same name in the other, three operations (not counting
destructors).

## 4. Runs

| run | shows | size |
|---|---|---|
| `sinks_safety` | counts equal the calls in progress; the presence flag misses no sink; retired sinks are not called; no lost wakeup; a removal inside a callback waits for the others | 2 threads, 2 sinks, 2 additions, depth 2, any removals, one thread shuts down |
| `sinks_live` | removal returns, and nothing deadlocks, when callbacks do not remove each other's sinks in a cycle | depth 1, acyclic removals |
| `async` | `LogThread` implements `AsyncContract`, liveness included; capacity; push and wait return; with fork, fatal messages, exit on any thread | 2 threads, 2 messages each |
| `file` | no line twice, in a foreign file or lost without cause; lengths are right; one writer per file; dropped ranges are disjoint and leave the last mebibyte; a file that cannot be created is tried again with the n-th message | 3 programs, 2 processes; 480,000 states |
| `cleaner` | for one controlling thread: Disable returns, with the overdue files gone; the destructor returns; overdue files of a due pattern are removed | 2 callers, 2 workers, 2 files |
| `failure` | one dump at a time; the crash reason is complete and stays; a fatal message has left the buffer when the process dies of it; every failure ends the process | 2 threads, one message each |
| `vlog` | a test's verdict is one that was current while it ran; a site keeps following the element it has followed, whose pattern matches; `SafeFNMatch` is the glob | 2 threads, 2 sites, 2 changes; 190,000 states up to symmetry |
| `sites` | one state per site and type; exact EveryN, FirstN and EveryT | 2 threads, 3 lookups |
| `subprocess` | nobody else is killed once `waitpid` has told that the child is gone; no descriptor, child or zombie is left; only output of a success is used; the run ends | see section 3; 36,000 states |
| `flags` | explicit values are kept; reads see an initialized value; a restore does not touch another flag's life; a child inherits no lock; names are unique | 2 threads, 2 copies, 3 operations; 1,900,000 states |

Two runs show a disagreement of the code with its comments (the findings in
`PROJECT.json` quote them):

| run | what happens |
|---|---|
| `vlog_race` | a VLOG test loads the null level of a fresh site, another thread fills the cache with the level of a module, and the first then finds `initialized` set and dereferences the null default level |
| `flags_copies` | with two copies of the library that share a table of names, `fork()` runs the prepare handlers of both, and the second takes the table's lock that the first one holds |

Observations made with the same models under other constants, or with steps
that the model has and no property constrains:

- Sinks whose callbacks remove each other's sink wait forever, as does a
  callback that calls `ShutdownLogging` while another thread removes its sink
  (`logging.cc:1554`; `sinks_live` excludes cycles).
- A message larger than the capacity waits, on an empty queue as well
  (`async.h:31`, `async.cc:108`).
- After `exit` in a sink on the logging thread, `Stop` sets `stopped_` before it
  sends the remaining messages, so a flush on another thread returns early and
  a message logged there overtakes them (`async.cc:51`, `async.cc:68-76`).
- Closing the descriptor duplicated for `posix_fadvise` releases the record
  lock (`logging.cc:2206`), and a second process opens the file. `Sharing` does
  not drop pages.
- With a shared name the size is read with `stat` before the lock is taken
  (`logging.cc:1774-1783`): it is stale when another process writes or
  truncates in between, and so is the decision to truncate. When the lock is
  not obtained the length stays behind without a file, so that for a full file
  every message resets the attempt counter and tries again (`logging.cc:1988`),
  or goes over to a file in the next directory. A file that is no longer of
  the maximum size may be truncated, contrary to the comment at
  `logging.cc:1775` ("truncate the file if it exceeds the max size"), and the
  pages to drop are computed from the recorded length. `LengthIsActual` excepts
  sizes that were stale when the lock was taken; `AttemptsSpaced` is about
  timestamped names.
- On a full disk `file_length_` exceeds the "actual file length" of its comment
  (`logging.cc:542`), with `FLAGS_stop_logging_if_full_disk` as well: it counts
  the lines that were in the buffer when `fflush` (`logging.cc:1724`) or the
  `fwrite` of a later message (`logging.cc:2151`) failed, and stdio has dropped
  them. `LengthIsActual` and `LinesKept` except what a full disk did not take.
- The first `InitializeVLOG3` of a process returns the element it matches without
  filling the cache of the site (`vlog_is_on.cc:244-255`). After `SetVLOGLevel`
  with another pattern the site may follow that one, contrary to "is now what
  controls the VLOG at the caller site forever" (`vlog_is_on.cc:245-246`) and to
  `vlog_is_on.h:52-55`.
  `BindingKept` excepts that site until its cache is filled.
- The value and the explicit bit that `ScopedFlag<T>` saves are read one after
  the other (`flags.h:1337-1338`), so that a set by another thread in between
  leaves a pair that the flag never had.
- Enable while another thread is in Disable keeps the old worker, which Disable
  joins without end (`log_cleaner.cc:109`), or lets a worker scan beside the
  final scan (`log_cleaner.cc:139-141`). `cleaner` has one controlling thread.
- A file that is written to between the look at its modification time and
  `unlink` is removed (`log_cleaner.cc:281-285`).
- The wakeup that `Enable` sends does not make the worker scan: no pattern is
  due, and the new window counts from the next scheduled scan.
- The notification in the second branch of `WaitForSinkCalls` is redundant for
  safety: when it could make another thread's condition true, the announcing
  thread's own condition is true as well.
- Output read before the deadline is used although the program was too slow to
  finish it, when the program has ended by the time of `Wait`
  (`addr2line.cc:246-250`).
- When SIGCHLD is ignored or another thread waits for any child, the process id
  may be reused and killed before `waitpid` has told that the child is gone;
  `NoStrangerKilled` excepts that. Afterwards nobody is killed in these cases
  either (`subprocess_fork.cc:478`).
- Another thread can end the process between the write of a fatal message and its
  flush (`logging.cc:2733`): its line is then lost with the buffer, and
  `FatalIsOnDisk` says nothing about it.
- A program that another thread starts between `pipe` and `fcntl` inherits the
  exec-error pipe and keeps `Spawn` waiting until it ends; `RunEnds` excludes it.
- Copies of the library that are loaded at the same time may elect an anchor
  that the other one unmaps, and end up with separate tables; `NamesAreUnique`
  excludes such loads (`apart`).
- `SafeFNMatch_` wants the last character of the pattern for an exhausted string:
  two stars in a row do not match what one matches (`vlog_is_on.cc:41`).
  `MatchIsGlob` claims exactness for patterns without adjacent stars.
- A fatal `RawLog` that is suppressed by its severity returns to the caller
  (`raw_logging.cc:200-205`).

Deadlock checking is on in `sinks_live`. It is off where a bounded behaviour runs
out (messages, clock, workers, lookups), where a process ends (`async`,
`failure`, `subprocess`), in `sinks_safety`, which the cross removal stops, and
in `flags`, where a fork with two copies waits forever.

### Fairness

Threads are scheduled: weak fairness of the steps inside the library. Nobody is
obliged to log, remove, fork or exit.

- `LogSinks` adds strong fairness of the end of a callback (user callbacks
  return) and of the acquisition of the shared lock of the sinks (other threads
  may take and release it in between).
- `LogThread` adds strong fairness of the end of `Send` on the logging thread,
  since a sink may log and flush any number of times before it returns. The
  number of messages is bounded: with steady logging by others, `Wait` and
  `Stop`, which wait for an instant at which the queue is empty, can be
  starved, and the code promises nothing else.
- In `LogCleaner` the callers, workers and scans run; time need not pass.
- In `Failure` every thread takes its steps, an instruction that faults faults
  again after the handler returned, and a pending signal is delivered. A thread
  that the handler interrupts inside stdio is an exception of `FailureEnds`: the
  comment at `signalhandler.cc:826` accepts that hang.
- In `Subprocess` the thread, the setup of the child, time and SIGKILL proceed;
  the program and all other threads are free.

## 5. Proofs

A theorem holds for every value of the constants that satisfies the assumptions
of its module: any number of threads, processes, sinks, messages, files, flags
and sites, any sizes and any bounds. Each proof module has one
`InductiveInvariant`; its `IInv` is a conjunction of named parts, shown of the
initial states, of every action and of stuttering. The parts were checked by TLC
on the instances of section 4 before they were proved.

| module | theorems about the runs' properties |
|---|---|
| `LogSinks_proofs` | `CountsMatchCalls`, `RetiredSinksAreNotCalled`, `NoLostWakeup`, `RemovalInsideWaitsForOthers`, `PresentFlagMissesNoSink` |
| `LogThread_proofs` | `QueueWithinCapacity`; the safety of `AsyncContract` |
| `LogFile_proofs` | `LinesInOnePlace`, `LengthIsActual`, `LinesKept`, `ExclusiveWriter`, `DropsSound`, `AttemptsSpaced` |
| `Failure_proofs` | `OneDumpAtATime`, `ReasonIsComplete`, `ReasonKept`, `FatalIsOnDisk` |
| `VLog_proofs` | `VerdictIsCurrent`, `BindingKept`, `MatchIsGlob` |
| `RateLimit_proofs` | `OneState`, `EveryNExact`, `FirstNExact`, `PeriodsApart` |
| `Helpers_proofs` | `NoStrangerKilled`, `NothingLeft`, `OutputOfSuccess`, `DisableCleansUp` |
| `Flags_proofs` | `ExplicitKept`, `ReadsAreInitialized`, `LifetimeRespected`, `NamesAreUnique`, `ChildInheritsNothing` |

### The arguments

**LogSinks.** The four invariants need each other: that a retired sink is not
called rests on the counts, because removal ends when a count is zero; the
counts rest on the types, because decrements must not go below zero; and the
wakeups rest on the counts, because the condition that a thread sleeps on
changes only where a count does. `ArgKnown` (a thread in AddLogSink or
RemoveLogSink knows its sink) and `RoomForCallback` (a thread going through the
sinks has a free place on its stack) complete them. The counts are
cardinalities of sets of stack positions, so the lemmas are about how pushing
and popping a frame changes such a set. The presence flag needs a second
invariant: whoever is between a change of the registry and the store of the flag
owns the exclusive lock (`WriterHolds`), and a deletion has emptied the registry
before (`DeletionEmpties`).

**LogThread.** `BytesCounted` says that `bytes` is the last of the running sums
of the queue's sizes. `PlaceInv` follows a message: a call owns it until it is
queued (`CallsOwn`), then it is held in exactly one place (`HeldOnce`), until it
is sent; only one thread is in `Stop` (`ExitIsOne`), which leaves the queue empty
(`StopEmpties`); and `InOrder` relates what a message has to follow to the queue
in front of it. `SafePromiseKept` is the refinement: under the mapping `Held`,
`Leaving`, `Abandoned`, `Waiting`, `Closed`, every step is a step of
`AsyncContract` or a stutter. `PlaceInv` is what the step of `Send` and the
return of `Wait` need of the past.

**LogFile.** The processes are verified one by one. `Local(p)` says what holds
of one process (its place in Write, its buffer, what it has on disk, its length,
its lock, the pages it drops, its attempts), `FilesInv` what holds of the files.
Every action of `p` is shown to preserve `Local(p)` and to satisfy a frame
condition (it changes no object but its own and only its own lines), under which
the others keep theirs. Fork counts as a step of the child, which takes over the
parent's buffer without owning the file. Two theorems have a condition.
`ExclusiveWriter` is claimed for files with names of their own or without page
dropping, since closing the duplicated descriptor gives up the lock.
`DropsSound` is claimed for names of their own, since a shared file may be
truncated while the system drops pages of it. For the three programs of the run
they hold without a condition. `LengthIsActual` and `LinesKept` hold of all
programs; their exceptions (`inexact`, `trouble`) are part of the properties.
For a shared file the length rests on the lock: whoever has it open owns it, so
nobody else changes what is on disk.

**Failure.** `DumpIsOwned` is the mutual exclusion: the ownership flag is set
while an activation dumps, and there is no second one, of whatever thread and at
whatever depth. `SignalsBlocked` bounds the depth. `FirstTaken`, `FirstRecorded`
and `RawRecorded` order the claim of the exclusive space, the record and the
publication, which `ReasonIsComplete` and `ReasonKept` rest on; `LineWritten`
brings the line of a message from the file to the flush of `FatalIsOnDisk`.

**VLog.** `Cached` relates the parts of a cache, which are loaded without lock:
a pointer selects an element that matches, and an initialized site without one
is where `SetVLOGLevel` will find it. `Observes`, `Points` and `Governs` carry
to each load of a running test what its earlier loads have established: the
level now in effect is among those the test has seen. `Uses` says that the
element which the tests of a site have followed matches and is the one in its
cache; only for the site whose test parsed `--vmodule` the cache may still be
empty. `MatchIsExact` is about the operator alone. Its proof needs induction
over the pattern and, within a row, over the string, from the end of each.
`FirstIsThere` (a set of naturals that is not empty has a least element, from
the well-foundedness of strict inclusion among finite sets) gives `Downward`: of
a row that is wrong somewhere, the last wrong entry is the one to look at, and
it contradicts `Matched`.

**RateLimit.** `RegistryInv` says that what a thread is about to publish is its
own (`FreshState`) and that a published state is the only one of its site and
type (`PublishedOnce`). `LimitInv` then relates the counter to the history:
for EveryN the position in the round of N and the number of rounds, for FirstN
the decided occurrences until the counter stops, for EveryT the last admission.
Decided occurrences are the calls without those in progress, a cardinality.
`LoadedBefore` says that what a thread has loaded is not ahead of the counter.

**Flags.** A rely-guarantee argument. `Local(t)` is what thread `t` relies on in
the middle of an operation: what it does (`Operates`), which locks it has
(`Locks`), how far its fork has locked the registries (`Forks`), that it alone
initializes a value (`Initializes`), that the flag it uses is alive
(`Reaches`), that a dynamic flag it has constructed is registered (`Owns`), so
that only a static flag is saved with registration 0, and that any other saved
registration tells the life of a flag (`Saves`).
For each action there is one lemma for the thread that takes it and one for the
others. `Global` is about values, registrations, names and the election of the
shared table; `NamesAreUnique` needs `LoadInv`: copies that are loaded one after
the other have one anchor.

**Helpers.** For the subprocess, `PidIsOwned` and `ReapedOnce` tie `pid_` to the
child: it is set from the end of Spawn to `waitpid`, so that nobody is killed
after `waitpid` has told that the child is gone (`ToldIsForgotten`).
`FdsAreKnown` gives, for every place in the run, the ends that may be open
there, which the close list of each exit has to cover. `ProgramStarted` and
`KilledMeansFailed` are what the use of its output rests on. For the log
cleaner, `FoundByScan` says how the final scan will come to each file that was
overdue when `Disable` was called: before the scan by its pattern and the
window, in the scan by the pattern that is still due or the list of victims.
`OwedInDisable` and `OneController` exclude that another thread enables the
cleaner with another window meanwhile. The assumptions of `LogCleaner` are
hypotheses of these theorems, whose module instantiates it.

### Assumptions

They are the ASSUMEs of the modules, which TLC evaluates in the runs. Most say
that a "no thread" is not a thread and that sizes and bounds are natural
numbers. The others: threads of `LogSinks` and `RateLimit` are finitely many; in
`Flags`, a static flag has one owner at most, and of any set of handlers one
runs first (`BeforeAssumption`); in `VLog` patterns are finite strings.

### Model-checked only

Liveness: fairness and ENABLED are out of the prover's reach. These are
`RemovalReturns`, the liveness of `PromiseKept`, `PushReturns`, `WaitReturns`,
`DisableReturns`, `OverdueIsRemoved`, `FailureEnds` and `RunEnds`. The two
findings are runs as well.

## 6. Not modelled

In general: memory ordering weaker than sequential consistency; failures of
allocation and of system calls other than those named in the modules; Windows;
the text of messages, headers, names and dumps; symbolic links to log files.

By component:

- Logging thread: a fork by a sink on the logging thread itself.
- Log file and dispatch: threads that hold `log_mutex` or a file's mutex while
  another one forks (`LogFile` runs one thread of a process at a time and
  `Failure` does not fork); a child in which `/dev/null` cannot be opened; a
  write that takes a part of the buffer; a creation that fails since the disk is
  full.
- Destinations per severity: `Failure` and `LogFile` have one destination; the
  loggers, thresholds and stderr settings are configuration under `log_mutex`.
- Attributes that only configure a message, and counters that are only printed.
- Flags: parsing of command lines and of values, help, modules, string flags;
  moving and reapplying a `ScopedFlag<T>` (a set under the check that `Restore`
  makes). `pthread_atfork` is taken to wait for a fork that runs the handlers, as
  glibc before 2.36 does. Newer releases give up their lock around each handler,
  and a copy that is loaded then may have its handlers called for the parent
  only, with its locks left to the child; `ChildInheritsNothing` does not cover
  that. With copies that share a table the fork does not get as far as that
  property looks (the run `flags_copies`), so that it is about one copy and about
  copies with separate tables.
- Subprocess: the variants over `posix_spawn` and Windows, and writing to the
  input of a child.
- Lock metrics: independent relaxed counters, on which nothing depends.
- Text algorithms (UTF-8, edit distance, paths, styles): sequential functions of
  strings, without state. `SafeFNMatch_` is modelled because VLOG depends on it.
- Demangler and symbolizer: recursive descent over characters and the parsing of
  ELF files; a model would repeat the code.
- Stack unwinders: they read the machine stack.
- Formatting, colors, hyperlinks, check macros: layout and compile-time
  templates; at run time a failed check is a fatal message.
- E-mail: hands a message to an external program.

Most lines of the repository are tests, text (formatting, parsing, demangling,
help) and platform code. The mapped lines are a small share of them for that
reason: they are the code in which several threads, processes or signals meet.
