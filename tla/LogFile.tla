------------------------------ MODULE LogFile ------------------------------
(***************************************************************************)
(* The log file of one severity (LogFileObject, src/src/logging.cc): when  *)
(* it is created, rolled over, flushed and closed, what happens to it in   *)
(* the child of a fork, how it is shared between processes that log to the *)
(* same file, and how its pages are dropped from the page cache.           *)
(*                                                                         *)
(* mutex_ serialises the operations of a process, except that it is        *)
(* released around posix_fadvise.  Processes interleave at their system    *)
(* calls: stat, open with fcntl(F_SETLK) and ftruncate, write.  Sizes are  *)
(* in units of which Mebi make a mebibyte.                                 *)
(***************************************************************************)
EXTENDS Integers, Sequences, FiniteSets

CONSTANTS
  Proc,        \* the processes
  NoProc,      \* "no process"
  Dir,         \* base names of log files, directory included
  NoDir,       \* the empty base name: "don't write"
  NoName,      \* "no file"
  Settings,    \* what the application and its user may choose: see below
  BufSecs,     \* FLAGS_logbufsecs
  MaxClock     \* bound: seconds that pass

VARIABLE settings \* the choice of a program, which it keeps

Starters == settings.starters       \* the processes that run from the start
Children == settings.children       \* those that a process may fork
Defaults == settings.defaults       \* GetLoggingDirectories(), a sequence of base names
Selectable == settings.selectable   \* the base names that SetLogDestination gets
Unwritable == settings.unwritable   \* those in directories that cannot be written to
Timestamped == settings.timestamped \* FLAGS_timestamp_in_logfile_name
DropMemory == settings.dropMemory   \* FLAGS_drop_log_memory
StopIfFull == settings.stopIfFull   \* FLAGS_stop_logging_if_full_disk
MayFill == settings.mayFill         \* whether the disk may fill up
MayForce == settings.mayForce       \* whether messages exceed FLAGS_logbuflevel
Mebi == settings.mebi               \* kMebibyte
MaxLogSize == settings.maxLogSize   \* MaxLogSize(), in mebibytes
FlushBytes == settings.flushBytes   \* kFlushBytes
Frequency == settings.frequency     \* kRolloverAttemptFrequency
HeaderLen == settings.headerLen     \* bytes of the file header
MsgLen == settings.msgLen           \* bytes of a message
MaxLines == settings.maxLines       \* bound: messages a process logs

ASSUME ProcAssumption == NoProc \notin Proc
ASSUME TimeAssumption == BufSecs \in Nat /\ MaxClock \in Nat
ASSUME NameAssumption == NoName \notin Dir \X (0 .. MaxClock) \X (Proc \cup {NoProc})
ASSUME SettingsAssumption ==
  \A c \in Settings :
    /\ c.starters \subseteq Proc /\ c.children \subseteq Proc \ c.starters
    /\ NoDir \notin Dir /\ c.defaults \in Seq(Dir) /\ c.defaults # <<>>
    /\ c.selectable \subseteq Dir \cup {NoDir} /\ c.unwritable \subseteq Dir
    /\ {c.timestamped, c.dropMemory, c.stopIfFull, c.mayFill, c.mayForce}
         \subseteq BOOLEAN
    /\ {c.mebi, c.maxLogSize, c.frequency} \subseteq Nat \ {0}
    /\ {c.flushBytes, c.headerLen, c.msgLen, c.maxLines} \subseteq Nat

Line == Proc \X (1 .. MaxLines)
Name == IF Timestamped THEN Dir \X (0 .. MaxClock) \X Proc
        ELSE Dir \X {0} \X {NoProc}

VARIABLES
  obj,     \* obj[p]: the fields of the LogFileObject, and the stdio buffer
  work,    \* work[p]: what a Write in progress has found out
  pc,      \* pc[p]: where the thread of p that holds mutex_ is
  stop,    \* stop[p]: stop_writing
  advice,  \* advice[p]: the posix_fadvise calls in progress
  next,    \* next[p]: the number of messages p has logged
  running, \* the processes that run
  \* The system.
  files,   \* files[n]: the file of name n
  full,    \* whether the disk is full
  clock,   \* seconds
  \* History.
  trouble, \* the processes that failed to create a file, lost lines to a full
           \* disk, were told not to write or were killed
  since    \* since[p]: messages since the creation of the file failed, or -1

vars == <<settings, obj, work, pc, stop, advice, next, running, files, full, clock,
          trouble, since>>

\* The fields of LogFileObject, in the order of the code: file_, file_pid_,
\* base_filename_, filename_source_, file_length_, bytes_since_flush_,
\* dropped_mem_length_, rollover_attempt_, next_flush_time_; then the lines and
\* the bytes in the buffer of file_, and, as history, whether file_length_ was set
\* for what was another file by the time it was opened, or counts bytes that a
\* full disk did not take.
NewObject ==
  [file |-> NoName, pid |-> NoProc, base |-> NoDir, selected |-> FALSE,
   length |-> 0, unflushed |-> 0, dropped |-> 0, attempt |-> Frequency - 1,
   flushAt |-> 0, lines |-> <<>>, buffered |-> 0, inexact |-> FALSE]

NoWork ==
  [todo |-> <<>>, size |-> 0, truncate |-> FALSE, force |-> FALSE, stamp |-> 0]

Init ==
  /\ settings \in Settings
  /\ obj = [p \in Proc |-> NewObject]
  /\ work = [p \in Proc |-> NoWork]
  /\ pc = [p \in Proc |-> "idle"]
  /\ stop = [p \in Proc |-> FALSE]
  /\ advice = [p \in Proc |-> {}]
  /\ next = [p \in Proc |-> 0]
  /\ running = Starters
  /\ files = [n \in Name |-> [exists |-> FALSE, len |-> 0, lines |-> <<>>,
                              lock |-> NoProc]]
  /\ full = FALSE
  /\ clock = 0
  /\ trouble = {}
  /\ since = [p \in Proc |-> -1]

-----------------------------------------------------------------------------
(* The helpers of the operations: functions of an object, and of the files.*)

\* MakeLogFilename: the time and the process are part of the name, or not.
MakeLogFilename(d, t, p) ==
  IF Timestamped THEN <<d, t, p>> ELSE <<d, 0, NoProc>>

\* What is reset whenever the file is given up.
Reset(o) ==
  [file |-> NoName, pid |-> o.pid, base |-> o.base, selected |-> o.selected,
   length |-> 0, unflushed |-> 0, dropped |-> 0, attempt |-> Frequency - 1,
   flushAt |-> o.flushAt, lines |-> <<>>, buffered |-> 0, inexact |-> FALSE]

\* The buffer reaches the file, unless the disk is full.
Drain(F, o) ==
  IF o.file = NoName \/ full THEN F
  ELSE [F EXCEPT ![o.file].lines = @ \o o.lines,
                 ![o.file].len = @ + o.buffered]

\* The disk is full, and there is something in the buffer.
Unwritten(o) == full /\ (o.lines # <<>> \/ o.buffered > 0)

\* The buffer is empty afterwards, also when the system did not take it: nobody
\* looks at the result of fflush and fclose, and stdio does not try again.
Drained(o) ==
  IF o.file = NoName THEN o
  ELSE [o EXCEPT !.lines = <<>>, !.buffered = 0, !.inexact = @ \/ Unwritten(o)]

\* Who loses lines when the buffer is written.
Losers(p, o) == IF Unwritten(o) THEN {p} ELSE {}

\* The system drops the record locks of a process on a file as soon as the
\* process closes any descriptor of that file.
Unlock(F, p, n) ==
  IF n # NoName /\ F[n].lock = p THEN [F EXCEPT ![n].lock = NoProc] ELSE F

\* Variant: the descriptor is closed under the stream.
CloseWithoutFlush(F, p, o) == Unlock(F, p, o.file)

\* fclose: the buffer is written.
Close(F, p, o) == Unlock(Drain(F, o), p, o.file)

\* Variant: the file is closed like any other, with what it has buffered.
DiscardByClosing(F, p, o) ==
  IF o.file # NoName /\ o.pid # p THEN Close(F, p, o) ELSE F

\* DiscardFileIfInherited: the buffer goes to the null device.
DiscardFiles(F, p, o) == F

Discard(p, o) == IF o.file # NoName /\ o.pid # p THEN Reset(o) ELSE o

\* FlushUnlocked.
Flushed(o) == [Drained(o) EXCEPT !.unflushed = 0, !.flushAt = clock + BufSecs]

\* A file of the maximum size is rolled over.
Oversize(len) == len \div Mebi >= MaxLogSize

Return(p) ==
  /\ pc' = [pc EXCEPT ![p] = "idle"]
  /\ work' = [work EXCEPT ![p] = NoWork]

Idle(p) == p \in running /\ pc[p] = "idle"

-----------------------------------------------------------------------------
(* Write.                                                                  *)

\* "We don't log if the base_name_ is empty."
WriteNowhere(p) ==
  /\ Idle(p)
  /\ next[p] < MaxLines
  /\ obj[p].selected
  /\ obj[p].base = NoDir
  /\ next' = [next EXCEPT ![p] = @ + 1]
  /\ trouble' = trouble \cup {p}
  /\ UNCHANGED <<obj, work, pc, stop, advice, running, files, full, clock,
                 since>>

\* The file of a parent is discarded, a full one is closed, and unless a file
\* is open every Frequency-th message tries to create one.
BeginWrite(p, force) ==
  /\ Idle(p)
  /\ next[p] < MaxLines
  /\ ~(obj[p].selected /\ obj[p].base = NoDir)
  /\ next' = [next EXCEPT ![p] = @ + 1]
  /\ LET o == Discard(p, obj[p])
         r == IF Oversize(o.length) THEN Reset(o) ELSE o
         F == DiscardFiles(files, p, obj[p])
         lost == IF Oversize(o.length) THEN Losers(p, o) ELSE {}
     IN /\ files' = IF Oversize(o.length) THEN Close(F, p, o) ELSE F
        /\ \/ /\ r.file # NoName
              /\ obj' = [obj EXCEPT ![p] = r]
              /\ pc' = [pc EXCEPT ![p] = "fwrite"]
              /\ work' = [work EXCEPT ![p] = [NoWork EXCEPT !.force = force]]
              /\ UNCHANGED <<trouble, since>>
           \/ /\ r.file = NoName
              /\ r.attempt + 1 # Frequency
              /\ obj' = [obj EXCEPT ![p] = [r EXCEPT !.attempt = @ + 1]]
              /\ trouble' = trouble \cup {p}
              /\ since' = [since EXCEPT ![p] = IF @ < 0 THEN @ ELSE @ + 1]
              /\ UNCHANGED <<pc, work>>
           \/ /\ r.file = NoName
              /\ r.attempt + 1 = Frequency
              /\ obj' = [obj EXCEPT ![p] = [r EXCEPT !.attempt = 0, !.pid = p]]
              /\ pc' = [pc EXCEPT ![p] = "stat"]
              /\ work' = [work EXCEPT ![p] =
                   [todo |-> IF r.selected THEN <<r.base>> ELSE Defaults,
                    size |-> 0, truncate |-> FALSE, force |-> force, stamp |-> clock]]
              /\ trouble' = trouble \cup lost
              /\ UNCHANGED since
  /\ UNCHANGED <<stop, advice, running, full, clock>>

\* The name that p tries next.
Candidate(p) == MakeLogFilename(Head(work[p].todo), work[p].stamp, p)

\* CreateLogfile, first half: an existing file is continued, or truncated when
\* it has the maximum size.  Names with a timestamp are new.  (If there is no
\* file, file_length_ may still be that of a file in another directory that could
\* not be locked.)
StatFile(p) ==
  /\ p \in running
  /\ pc[p] = "stat"
  /\ LET f == files[Candidate(p)]
         found == ~Timestamped /\ f.exists
     IN /\ work' = [work EXCEPT ![p].truncate = found /\ Oversize(f.len),
                                ![p].size = IF found THEN f.len ELSE 0]
        /\ obj' = [obj EXCEPT ![p].length = IF found THEN f.len ELSE @,
                              ![p].base = Head(work[p].todo),
                              ![p].inexact = ~found /\ obj[p].length > 0]
  /\ pc' = [pc EXCEPT ![p] = "open"]
  /\ UNCHANGED <<stop, advice, next, running, files, full, clock, trouble,
                 since>>

\* open() fails, with O_EXCL for an existing file.
CannotOpen(p) ==
  \/ Head(work[p].todo) \in Unwritable
  \/ Timestamped /\ files[Candidate(p)].exists

Locked(p) == files[Candidate(p)].lock \notin {p, NoProc}

\* Variant: a file that cannot be created is tried again with every message.
CannotCreateRetrying(p) ==
  /\ p \in running
  /\ pc[p] = "open"
  /\ CannotOpen(p) \/ Locked(p)
  /\ IF Len(work[p].todo) > 1
     THEN /\ work' = [work EXCEPT ![p].todo = Tail(@)]
          /\ pc' = [pc EXCEPT ![p] = "stat"]
          /\ UNCHANGED <<obj, trouble, since>>
     ELSE /\ Return(p)
          /\ obj' = [obj EXCEPT ![p].attempt = Frequency - 1]
          /\ trouble' = trouble \cup {p}
          /\ since' = [since EXCEPT ![p] = 0]
  /\ UNCHANGED <<files, stop, advice, next, running, full, clock>>

\* CreateLogfile, second half, fails: open() does, or another process has the
\* lock (the file then exists).  The next directory is tried, if there is one.
CannotCreate(p) ==
  /\ p \in running
  /\ pc[p] = "open"
  /\ CannotOpen(p) \/ Locked(p)
  /\ files' = IF CannotOpen(p) THEN files
              ELSE [files EXCEPT ![Candidate(p)].exists = TRUE]
  /\ IF Len(work[p].todo) > 1
     THEN /\ work' = [work EXCEPT ![p].todo = Tail(@)]
          /\ pc' = [pc EXCEPT ![p] = "stat"]
          /\ UNCHANGED <<trouble, since>>
     ELSE /\ Return(p)
          /\ trouble' = trouble \cup {p}
          /\ since' = [since EXCEPT ![p] = 0]
  /\ UNCHANGED <<obj, stop, advice, next, running, full, clock>>

\* Variant: the length is not reset when the file is truncated.
WithHeaderAfterAll(o, n, cut, stale) ==
  [o EXCEPT !.file = n, !.buffered = HeaderLen, !.unflushed = @ + HeaderLen,
            !.length = @ + HeaderLen, !.inexact = ~cut /\ (@ \/ stale)]

\* The file has been created, and the header is in its buffer.
WithHeader(o, n, cut, stale) ==
  [o EXCEPT !.file = n, !.buffered = HeaderLen, !.unflushed = @ + HeaderLen,
            !.length = (IF cut THEN 0 ELSE @) + HeaderLen,
            !.inexact = ~cut /\ (@ \/ stale)]

\* Variant: the lock is not taken.
CreateLogfileUnlocked(p) ==
  /\ p \in running
  /\ pc[p] = "open"
  /\ ~CannotOpen(p)
  /\ LET n == Candidate(p)
         cut == work[p].truncate
         stale == files[n].len # work[p].size
     IN /\ files' = [files EXCEPT ![n] =
             [exists |-> TRUE,
              len |-> IF cut THEN 0 ELSE @.len,
              lines |-> IF cut THEN <<>> ELSE @.lines,
              lock |-> @.lock]]
        /\ obj' = [obj EXCEPT ![p] = WithHeader(obj[p], n, cut, stale)]
  /\ pc' = [pc EXCEPT ![p] = "fwrite"]
  /\ since' = [since EXCEPT ![p] = -1]
  /\ UNCHANGED <<work, stop, advice, next, running, full, clock, trouble>>

\* CreateLogfile succeeds, and the header is written.
CreateLogfile(p) ==
  /\ p \in running
  /\ pc[p] = "open"
  /\ ~CannotOpen(p)
  /\ ~Locked(p)
  /\ LET n == Candidate(p)
         cut == work[p].truncate
         stale == files[n].len # work[p].size
     IN /\ files' = [files EXCEPT ![n] =
             [exists |-> TRUE,
              len |-> IF cut THEN 0 ELSE @.len,
              lines |-> IF cut THEN <<>> ELSE @.lines,
              lock |-> p]]
        /\ obj' = [obj EXCEPT ![p] = WithHeader(obj[p], n, cut, stale)]
  /\ pc' = [pc EXCEPT ![p] = "fwrite"]
  /\ since' = [since EXCEPT ![p] = -1]
  /\ UNCHANGED <<work, stop, advice, next, running, full, clock, trouble>>

\* While writing is stopped messages are dropped; the first one that is late
\* enough ends that.
SkipLine(p) ==
  /\ p \in running
  /\ pc[p] = "fwrite"
  /\ stop[p]
  /\ stop' = [stop EXCEPT ![p] = clock < obj[p].flushAt]
  /\ trouble' = trouble \cup {p}
  /\ Return(p)
  /\ UNCHANGED <<obj, advice, next, running, files, full, clock, since>>

\* Variant: the mebibyte that is kept for the readers is forgotten.
DropLengthTooLong(len) == (len \div Mebi) * Mebi

\* The bytes of the file that are not among the last one or two mebibytes.
DropLength(len) == (len \div Mebi) * Mebi - Mebi

MayDrop(o) ==
  /\ DropMemory
  /\ o.length >= 3 * Mebi
  /\ DropLength(o.length) - o.dropped >= 2 * Mebi

MustFlush(p, o) ==
  work[p].force \/ o.unflushed >= FlushBytes \/ clock >= o.flushAt

\* The message counts whether or not it could be stored.
Count(o) == [o EXCEPT !.length = @ + MsgLen, !.unflushed = @ + MsgLen]

\* The end of Write, for object o and files F: the file is flushed and its pages
\* are dropped when that is due.  The descriptor is duplicated for the
\* posix_fadvise that follows, if the system has one left.
FinishWrite(p, o, F) ==
  IF ~MustFlush(p, o)
  THEN /\ obj' = [obj EXCEPT ![p] = o]
       /\ files' = F
       /\ UNCHANGED advice
  ELSE LET d == Flushed(o)
           drop == [file |-> d.file, from |-> d.dropped,
                    to |-> DropLength(d.length), len |-> d.length]
       IN /\ files' = Drain(F, o)
          /\ IF MayDrop(d)
             THEN /\ obj' = [obj EXCEPT ![p] = [d EXCEPT !.dropped = drop.to]]
                  /\ \E dup \in {{}, {drop}} :
                       advice' = [advice EXCEPT ![p] = @ \cup dup]
             ELSE /\ obj' = [obj EXCEPT ![p] = d]
                  /\ UNCHANGED advice

\* fwrite has to make room in the buffer and finds the disk full.  What was in
\* the buffer and the line are lost.  Writing stops if the flag says so, else the
\* line counts as if it had been stored.
DiskFull(p) ==
  /\ p \in running
  /\ pc[p] = "fwrite"
  /\ ~stop[p]
  /\ full
  /\ trouble' = trouble \cup {p}
  /\ stop' = [stop EXCEPT ![p] = StopIfFull]
  /\ IF StopIfFull
     THEN /\ obj' = [obj EXCEPT ![p] = Drained(@)]
          /\ UNCHANGED <<files, advice>>
     ELSE FinishWrite(p, [Count(Drained(obj[p])) EXCEPT !.inexact = TRUE], files)
  /\ Return(p)
  /\ UNCHANGED <<next, running, full, clock, since>>

\* fwrite puts the line into the buffer, which may make it write what it holds.
WriteLine(p) ==
  /\ p \in running
  /\ pc[p] = "fwrite"
  /\ ~stop[p]
  /\ \E drain \in {FALSE} \cup {~full} :
       LET o == IF drain THEN Drained(obj[p]) ELSE obj[p]
           w == Count([o EXCEPT !.lines = Append(@, <<p, next[p]>>),
                                !.buffered = @ + MsgLen])
       IN /\ FinishWrite(p, w, IF drain THEN Drain(files, obj[p]) ELSE files)
          /\ trouble' = trouble \cup (IF MustFlush(p, w) THEN Losers(p, w) ELSE {})
  /\ Return(p)
  /\ UNCHANGED <<stop, next, running, full, clock, since>>

\* posix_fadvise returns and the duplicate of the descriptor is closed.
EndAdvice(p, a) ==
  /\ p \in running
  /\ a \in advice[p]
  /\ pc[p] = "idle"
  /\ advice' = [advice EXCEPT ![p] = @ \ {a}]
  /\ files' = Unlock(files, p, a.file)
  /\ UNCHANGED <<obj, work, pc, stop, next, running, full, clock, trouble,
                 since>>

-----------------------------------------------------------------------------
(* The other operations.                                                   *)

Flush(p) ==
  /\ Idle(p)
  /\ LET o == Discard(p, obj[p])
     IN /\ obj' = [obj EXCEPT ![p] = Flushed(o)]
        /\ files' = Drain(DiscardFiles(files, p, obj[p]), o)
        /\ trouble' = trouble \cup Losers(p, o)
  /\ UNCHANGED <<work, pc, stop, advice, next, running, full, clock, since>>

\* SetBasename, from SetLogDestination; SetExtension changes the name alike.
SetBasename(p, d) ==
  /\ Idle(p)
  /\ d \in Selectable
  /\ LET o == Discard(p, obj[p])
         F == DiscardFiles(files, p, obj[p])
     IN IF obj[p].base = d
        THEN /\ obj' = [obj EXCEPT ![p].selected = TRUE]
             /\ UNCHANGED <<files, since, trouble>>
        ELSE /\ obj' = [obj EXCEPT ![p] =
                          [Reset(o) EXCEPT !.selected = TRUE, !.base = d]]
             /\ files' = Close(F, p, o)
             /\ since' = [since EXCEPT ![p] = -1]
             /\ trouble' = trouble \cup Losers(p, o)
  /\ UNCHANGED <<work, pc, stop, advice, next, running, full, clock>>

\* The process ends: the destructor closes the file, the system the rest.
Exit(p) ==
  /\ Idle(p)
  /\ LET o == Discard(p, obj[p])
         F == Close(DiscardFiles(files, p, obj[p]), p, o)
     IN /\ files' = [n \in Name |->
                       [F[n] EXCEPT !.lock = IF @ = p THEN NoProc ELSE @]]
        /\ trouble' = trouble \cup Losers(p, o)
  /\ obj' = [obj EXCEPT ![p] = NewObject]
  /\ running' = running \ {p}
  /\ advice' = [advice EXCEPT ![p] = {}]
  /\ UNCHANGED <<work, pc, stop, next, full, clock, since>>

\* The process is killed, in the middle of whatever it does.
Crash(p) ==
  /\ p \in running
  /\ files' = [n \in Name |->
                 [files[n] EXCEPT !.lock = IF @ = p THEN NoProc ELSE @]]
  /\ obj' = [obj EXCEPT ![p] = NewObject]
  /\ running' = running \ {p}
  /\ advice' = [advice EXCEPT ![p] = {}]
  /\ trouble' = trouble \cup {p}
  /\ Return(p)
  /\ UNCHANGED <<stop, next, full, clock, since>>

\* The child gets a copy of the object and of the buffer, and no locks.
Fork(p, c) ==
  /\ Idle(p)
  /\ c \in Children \ running
  /\ next[c] = 0
  /\ obj' = [obj EXCEPT ![c] = obj[p]]
  /\ stop' = [stop EXCEPT ![c] = stop[p]]
  /\ running' = running \cup {c}
  /\ trouble' = IF p \in trouble THEN trouble \cup {c} ELSE trouble
  /\ UNCHANGED <<work, pc, advice, next, files, full, clock, since>>

Tick ==
  /\ clock < MaxClock
  /\ clock' = clock + 1
  /\ UNCHANGED <<obj, work, pc, stop, advice, next, running, files, full,
                 trouble, since>>

FillDisk ==
  /\ MayFill
  /\ full' = ~full
  /\ UNCHANGED <<obj, work, pc, stop, advice, next, running, files, clock,
                 trouble, since>>

-----------------------------------------------------------------------------
Step(p) ==
  \/ WriteNowhere(p)
  \/ \E force \in {FALSE, MayForce} : BeginWrite(p, force)
  \/ StatFile(p)
  \/ CannotCreate(p)
  \/ CreateLogfile(p)
  \/ SkipLine(p)
  \/ DiskFull(p)
  \/ WriteLine(p)
  \/ \E a \in advice[p] : EndAdvice(p, a)
  \/ Flush(p)
  \/ \E d \in Selectable : SetBasename(p, d)
  \/ Exit(p)
  \/ Crash(p)
  \/ \E c \in Proc : Fork(p, c)

Next ==
  /\ (\E p \in Proc : Step(p)) \/ Tick \/ FillDisk
  /\ UNCHANGED settings

Spec == Init /\ [][Next]_vars

-----------------------------------------------------------------------------
\* The places on disk that hold line l.
Places(l) ==
  UNION {{<<n, i>> : i \in {j \in DOMAIN files[n].lines : files[n].lines[j] = l}}
         : n \in Name}

\* "... so that the lines are not written twice" and "A child process created by
\* fork() must write to its own file": whatever is buffered when a process
\* forks, no line reaches the disk more than once, and a file named after a
\* process has only lines of that process.
LinesInOnePlace ==
  /\ \A l \in Line : Cardinality(Places(l)) <= 1
  /\ Timestamped =>
       \A n \in Name : \A i \in DOMAIN files[n].lines : files[n].lines[i][1] = n[3]

\* "It is the actual file length" (LogSize): what is on disk and in the buffer of
\* the process that opened the file, through rollovers, changes of the name,
\* forks, flushes and the truncation of a shared file.  There are two exceptions.
\* What a full disk does not take stays counted (fflush is not looked at, and
\* neither is fwrite unless FLAGS_stop_logging_if_full_disk is set), and the size of
\* a shared file is read before the lock is taken and may be stale by then.  (To
\* drop pages gives up the lock of a shared file.)
LengthIsActual ==
  \A p \in running :
    LET o == obj[p] IN
    o.file # NoName /\ o.pid = p /\ ~o.inexact /\ (Timestamped \/ ~DropMemory)
      => o.length = files[o.file].len + o.buffered

\* As long as every file could be created and no write met a full disk, a process
\* whose files have their own names loses no line: rollover, a change of the
\* name, flushes, forks and the exit of the process leave each line it has logged
\* in a file or in its buffer.  A disk that is full while lines are only buffered
\* does no harm.  (A file without a timestamp in its name is truncated.)
LinesKept ==
  \A p \in Proc \ trouble :
    \A i \in 1 .. next[p] :
      \/ i = next[p] /\ pc[p] # "idle"
      \/ Places(<<p, i>>) # {}
      \/ \E j \in DOMAIN obj[p].lines : obj[p].lines[j] = <<p, i>>
      \/ ~Timestamped

\* "Mark the file as exclusive write access to avoid two clients logging to the
\* same file": no two processes have the same file open, but for a child that
\* has not used it yet.
ExclusiveWriter ==
  \A p, q \in running :
    LET o == obj[p]
        r == obj[q]
    IN p # q /\ o.file # NoName /\ o.pid = p /\ r.pid = q => r.file # o.file

\* "Try to rollover the log file every 32 log messages": after the creation of
\* a file with its own name failed, it is tried again with the 32nd message,
\* unless the name was changed.  (A shared file that is full and locked by
\* another process leaves its length behind, and is tried with every message.)
AttemptsSpaced ==
  [][\A p \in Proc :
       Timestamped /\ pc[p] = "idle" /\ pc'[p] = "stat"
         => since[p] \in {-1, Frequency - 1}]_vars

\* The pages that are dropped: never the last mebibyte, never the same page
\* twice, although mutex_ is released while the system drops them; and the
\* unsigned difference of the lengths does not wrap around.
DropsSound ==
  \A p \in running :
    /\ \A a \in advice[p] : a.from < a.to /\ a.to + Mebi <= a.len
    /\ \A a, b \in advice[p] :
         a # b /\ a.file = b.file => a.to <= b.from \/ b.to <= a.from
    /\ 0 <= obj[p].dropped
    /\ obj[p].file # NoName /\ obj[p].dropped > 0
         => obj[p].dropped <= DropLength(obj[p].length)
=============================================================================
