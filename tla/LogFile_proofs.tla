---------------------------- MODULE LogFile_proofs ----------------------------
(* Proofs about the log file of a severity, for any number of processes,   *)
(* any names of files and any settings.                                    *)
(*                                                                         *)
(* Every step is that of one process (for a fork: of the child), which     *)
(* keeps what holds of itself and of the files; Guarantee says what the    *)
(* others can rely on, and one lemma that they keep theirs.                *)
EXTENDS LogFile, FiniteSetTheorems, SequenceTheorems, TLAPS

Entry == Proc \X Nat
Object ==
  [file : Name \cup {NoName}, pid : Proc \cup {NoProc}, base : Dir \cup {NoDir},
   selected : BOOLEAN, length : Nat, unflushed : Nat, dropped : Int, attempt : Nat,
   flushAt : Int, lines : Seq(Entry), buffered : Nat, inexact : BOOLEAN]
File == [exists : BOOLEAN, len : Nat, lines : Seq(Entry), lock : Proc \cup {NoProc}]
Work == [todo : Seq(Dir), size : Nat, truncate : BOOLEAN, force : BOOLEAN,
         stamp : 0 .. MaxClock]
Advice == [file : Name, from : Int, to : Int, len : Nat]

TypeOK ==
  /\ settings \in Settings
  /\ obj \in [Proc -> Object] /\ work \in [Proc -> Work]
  /\ pc \in [Proc -> {"idle", "stat", "open", "fwrite"}]
  /\ stop \in [Proc -> BOOLEAN] /\ advice \in [Proc -> SUBSET Advice]
  /\ next \in [Proc -> Nat] /\ running \subseteq Proc
  /\ files \in [Name -> File] /\ full \in BOOLEAN /\ clock \in 0 .. MaxClock
  /\ trouble \subseteq Proc /\ since \in [Proc -> Int]

-----------------------------------------------------------------------------
(* What holds of a process.                                                *)

HasFile(p) == obj[p].file # NoName
\* A child that has not used the file of its parent does not own it.
Owns(p) == HasFile(p) /\ obj[p].pid = p

\* Where it is in Write.
Phase(p) ==
  /\ p \notin running => pc[p] = "idle" /\ advice[p] = {} /\ ~HasFile(p)
  /\ pc[p] \in {"stat", "open"} =>
       ~HasFile(p) /\ obj[p].pid = p /\ work[p].todo # <<>> /\ obj[p].attempt = 0
  /\ pc[p] = "open" /\ Timestamped => ~work[p].truncate
  /\ pc[p] = "fwrite" => Owns(p)
  /\ next[p] = 0 => pc[p] = "idle" /\ since[p] = -1

\* Its object: the file has the name of the process that opened it.
Opened(p) ==
  /\ obj[p].pid # NoProc => next[obj[p].pid] > 0
  /\ HasFile(p) => files[obj[p].file].exists /\ obj[p].pid \in Proc
  /\ HasFile(p) /\ Timestamped => obj[p].file[3] = obj[p].pid
  /\ ~HasFile(p) => /\ obj[p].lines = <<>> /\ obj[p].buffered = 0 /\ obj[p].dropped = 0
                    /\ Timestamped => obj[p].length = 0

\* The buffer: lines of the process that opened the file, each once.
Buffer(p) ==
  /\ \A i \in DOMAIN obj[p].lines : obj[p].lines[i][1] = obj[p].pid
  /\ Owns(p) =>
       /\ \A i, j \in DOMAIN obj[p].lines : obj[p].lines[i] = obj[p].lines[j] => i = j
       /\ \A i \in DOMAIN obj[p].lines :
            /\ \A n \in Name : \A j \in DOMAIN files[n].lines :
                 files[n].lines[j] # obj[p].lines[i]
            /\ obj[p].lines[i][2] <= next[p]
            /\ pc[p] # "idle" => obj[p].lines[i][2] # next[p]

\* Its lines on disk; the line that it is about to write is not there.
OnDisk(p) ==
  \A n \in Name : \A i \in DOMAIN files[n].lines :
    files[n].lines[i][1] = p =>
      /\ files[n].lines[i][2] <= next[p]
      /\ pc[p] # "idle" => files[n].lines[i][2] # next[p]

\* No line of a process without trouble is lost.
Kept(p) ==
  Timestamped /\ p \notin trouble =>
    \A i \in 1 .. next[p] :
      \/ i = next[p] /\ pc[p] # "idle"
      \/ \E n \in Name : \E j \in DOMAIN files[n].lines : files[n].lines[j] = <<p, i>>
      \/ \E j \in DOMAIN obj[p].lines : obj[p].lines[j] = <<p, i>>

\* The length is that of the file which has been looked at, then of the open one.
Measured(p) ==
  /\ pc[p] = "open" /\ ~work[p].truncate /\ ~obj[p].inexact => obj[p].length = work[p].size
  /\ Owns(p) /\ ~obj[p].inexact /\ (Timestamped \/ ~DropMemory) =>
       obj[p].length = files[obj[p].file].len + obj[p].buffered

\* The close of a duplicate of the descriptor gives up the lock.
LockHeld(p) ==
  /\ ~DropMemory => advice[p] = {}
  /\ ~Timestamped /\ ~DropMemory /\ Owns(p) => files[obj[p].file].lock = p

\* The pages that are dropped.
Drops(p) ==
  /\ 0 <= obj[p].dropped
  /\ HasFile(p) /\ obj[p].dropped > 0 => obj[p].dropped <= DropLength(obj[p].length)
  /\ \A a \in advice[p] :
       a.from < a.to /\ a.to + Mebi <= a.len /\ files[a.file].exists
  /\ Timestamped =>
       /\ \A a, b \in advice[p] :
            a # b /\ a.file = b.file => a.to <= b.from \/ b.to <= a.from
       /\ \A a \in advice[p] : Owns(p) /\ a.file = obj[p].file => a.to <= obj[p].dropped

\* The attempts since the creation of a file failed.
Attempts(p) ==
  Timestamped /\ since[p] # -1 /\ p \in running =>
    /\ pc[p] # "fwrite" /\ ~HasFile(p)
    /\ since[p] >= 0
    /\ pc[p] = "idle" => obj[p].attempt = since[p]

Local(p) ==
  /\ Phase(p) /\ Opened(p) /\ Buffer(p) /\ OnDisk(p) /\ Kept(p)
  /\ Measured(p) /\ LockHeld(p) /\ Drops(p) /\ Attempts(p)

-----------------------------------------------------------------------------
(* What holds of the files.                                                *)

\* A file that does not exist is empty.
Absent == \A n \in Name : ~files[n].exists => files[n].len = 0 /\ files[n].lines = <<>>

\* No line is at two places.
LinesDistinct ==
  \A m, n \in Name : \A i \in DOMAIN files[m].lines, j \in DOMAIN files[n].lines :
    files[m].lines[i] = files[n].lines[j] => m = n /\ i = j

\* A file that is named after a process has its lines.
LinesOfOwner ==
  Timestamped =>
    \A n \in Name : \A i \in DOMAIN files[n].lines : files[n].lines[i][1] = n[3]

FilesInv == Absent /\ LinesDistinct /\ LinesOfOwner /\ (full => MayFill)

IInv == TypeOK /\ FilesInv /\ \A p \in Proc : Local(p)

-----------------------------------------------------------------------------
(* Facts for the provers.                                                  *)

LEMMA SettingsTyped ==
  ASSUME settings \in Settings
  PROVE  /\ Defaults \in Seq(Dir) /\ Defaults # <<>>
         /\ Selectable \subseteq Dir \cup {NoDir}
         /\ Children \subseteq Proc /\ Starters \subseteq Proc
         /\ Timestamped \in BOOLEAN /\ DropMemory \in BOOLEAN /\ StopIfFull \in BOOLEAN
         /\ MayFill \in BOOLEAN /\ MayForce \in BOOLEAN
         /\ Mebi \in Nat \ {0} /\ MaxLogSize \in Nat \ {0} /\ Frequency \in Nat \ {0}
         /\ FlushBytes \in Nat /\ HeaderLen \in Nat /\ MsgLen \in Nat /\ MaxLines \in Nat
BY SettingsAssumption DEF Defaults, Selectable, Children, Starters, Timestamped, DropMemory,
   StopIfFull, MayFill, MayForce, Mebi, MaxLogSize, Frequency, FlushBytes, HeaderLen,
   MsgLen, MaxLines

\* The settings of a program are kept, and all that depends on them alone.
LEMMA SettingsStay ==
  ASSUME UNCHANGED settings
  PROVE  /\ Name' = Name /\ Object' = Object /\ File' = File /\ Work' = Work
         /\ Advice' = Advice
         /\ Timestamped' = Timestamped /\ DropMemory' = DropMemory
         /\ StopIfFull' = StopIfFull /\ MayFill' = MayFill /\ Mebi' = Mebi
         /\ \A len : DropLength(len)' = DropLength(len)
<1>1. Timestamped' = Timestamped /\ Mebi' = Mebi
  BY DEF Timestamped, Mebi
<1>2. Name' = Name
  BY <1>1 DEF Name
<1>. QED BY <1>1, <1>2 DEF Object, File, Work, Advice, DropMemory, StopIfFull, MayFill, DropLength

LEMMA NoNameIsNone ==
  ASSUME settings \in Settings
  PROVE  NoName \notin Name
BY NameAssumption, TimeAssumption DEF Name

\* An element of a concatenation is one of its parts.
LEMMA Concatenation ==
  ASSUME NEW S, NEW s \in Seq(S), NEW t \in Seq(S)
  PROVE  /\ s \o t \in Seq(S) /\ DOMAIN (s \o t) = 1 .. (Len(s) + Len(t))
         /\ Len(s) \in Nat /\ Len(t) \in Nat
         /\ DOMAIN s = 1 .. Len(s) /\ DOMAIN t = 1 .. Len(t)
         /\ \A i \in DOMAIN s : i \in DOMAIN (s \o t) /\ (s \o t)[i] = s[i]
         /\ \A i \in DOMAIN t :
              Len(s) + i \in DOMAIN (s \o t) /\ (s \o t)[Len(s) + i] = t[i]
         /\ \A i \in DOMAIN (s \o t) :
              \/ i \in DOMAIN s
              \/ i - Len(s) \in DOMAIN t /\ (s \o t)[i] = t[i - Len(s)]
OBVIOUS

LEMMA DropLengthBounds ==
  ASSUME settings \in Settings, NEW len \in Nat
  PROVE  /\ DropLength(len) \in Int /\ DropLength(len) + Mebi <= len
         /\ \A more \in Nat : DropLength(len) <= DropLength(len + more)
<1>. DEFINE m == Mebi
<1>1. m \in Nat \ {0}
  BY SettingsTyped
<1>. HIDE DEF m
<1>2. /\ len \div m \in Nat /\ (len \div m) * m \in Nat
      /\ (len \div m) * m <= len
  BY <1>1
<1>3. ASSUME NEW more \in Nat
      PROVE  (len \div m) * m <= ((len + more) \div m) * m
  <2>. DEFINE a == len \div m
              b == (len + more) \div m
  <2>1. a \in Nat /\ b \in Nat /\ a * m <= len /\ len + more < (b + 1) * m
    BY <1>1, <1>3
  <2>. HIDE DEF a, b
  <2>2. a * m < (b + 1) * m
    BY <1>1, <1>3, <2>1
  <2>3. a <= b
    BY <1>1, <2>1, <2>2
  <2>4. a * m <= b * m
    BY <1>1, <2>1, <2>3
  <2>. QED BY <2>4 DEF a, b
<1>. QED BY <1>1, <1>2, <1>3 DEF DropLength, m

\* A file of length 0 is not too long.
LEMMA EmptyIsShort ==
  ASSUME settings \in Settings
  PROVE  ~Oversize(0)
<1>1. Mebi \in Nat \ {0} /\ MaxLogSize \in Nat \ {0}
  BY SettingsTyped
<1>2. 0 \div Mebi = 0
  BY <1>1
<1>. QED BY <1>1, <1>2 DEF Oversize

-----------------------------------------------------------------------------
(* What a step of a process leaves to the others.                          *)

\* Nothing of them changes; the files may get lines of p, and a file that is
\* named after another process, or locked by it, does not change.
FrameOfFiles(p) ==
  \A n \in Name :
    /\ files[n].exists => files'[n].exists
    /\ \A q \in Proc \ {p} : files[n].lock = q => files'[n].lock = q
    /\ ~Timestamped /\ ~DropMemory =>
         \A q \in Proc \ {p} : files[n].lock = q => files'[n].len = files[n].len
    /\ \A i \in DOMAIN files'[n].lines :
         \/ files'[n].lines[i][1] = p
         \/ \E j \in DOMAIN files[n].lines : files[n].lines[j] = files'[n].lines[i]
    /\ Timestamped =>
         /\ n[3] # p => files'[n].len = files[n].len
         /\ \A j \in DOMAIN files[n].lines :
              \E i \in DOMAIN files'[n].lines : files'[n].lines[i] = files[n].lines[j]

Frame(p) ==
  /\ UNCHANGED settings
  /\ \A q \in Proc \ {p} :
       /\ obj'[q] = obj[q] /\ work'[q] = work[q] /\ pc'[q] = pc[q]
       /\ advice'[q] = advice[q] /\ next'[q] = next[q] /\ since'[q] = since[q]
       /\ (q \in running' <=> q \in running) /\ (q \in trouble' <=> q \in trouble)
  /\ next'[p] >= next[p]
  /\ FrameOfFiles(p)

LEMMA OthersKeep ==
  ASSUME TypeOK, TypeOK', NEW p \in Proc, Frame(p), NEW q \in Proc, q # p, Local(q)
  PROVE  Local(q)'
<1>. USE DEF Local
<1>1. /\ obj'[q] = obj[q] /\ work'[q] = work[q] /\ pc'[q] = pc[q]
      /\ advice'[q] = advice[q] /\ next'[q] = next[q] /\ since'[q] = since[q]
      /\ (q \in running' <=> q \in running) /\ (q \in trouble' <=> q \in trouble)
  BY DEF Frame
<1>2. UNCHANGED settings /\ FrameOfFiles(p)
  BY DEF Frame
<1>3. /\ Name' = Name /\ Timestamped' = Timestamped /\ DropMemory' = DropMemory
      /\ StopIfFull' = StopIfFull /\ MayFill' = MayFill /\ Mebi' = Mebi
      /\ \A len : DropLength(len)' = DropLength(len)
  BY <1>2, SettingsStay
<1>4. (HasFile(q)' <=> HasFile(q)) /\ (Owns(q)' <=> Owns(q))
  BY <1>1 DEF HasFile, Owns
<1>5. HasFile(q) => obj[q].file \in Name
  BY DEF HasFile, TypeOK, Object
<1>6. Phase(q)'
  BY <1>1, <1>3, <1>4 DEF Phase
<1>7. Opened(q)'
  <2>1. \A r \in Proc : next[r] \in Nat /\ next'[r] \in Nat /\ next'[r] >= next[r]
    BY DEF Frame, TypeOK
  <2>2. obj[q].pid # NoProc => obj[q].pid \in Proc
    BY DEF TypeOK, Object
  <2>3. obj[q].pid # NoProc => next'[obj[q].pid] > 0
    BY <2>1, <2>2 DEF Opened
  <2>4. HasFile(q) => files'[obj[q].file].exists
    BY <1>2, <1>5 DEF Opened, FrameOfFiles
  <2>. QED BY <1>1, <1>3, <1>4, <2>3, <2>4 DEF Opened
<1>8. Buffer(q)'
  <2>1. ASSUME Owns(q), NEW i \in DOMAIN obj[q].lines, NEW n \in Name,
               NEW j \in DOMAIN files'[n].lines
        PROVE  files'[n].lines[j] # obj[q].lines[i]
    <3>1. obj[q].lines[i][1] # p
      BY <2>1 DEF Buffer, Owns
    <3>2. CASE files'[n].lines[j][1] = p
      BY <3>1, <3>2
    <3>3. CASE \E k \in DOMAIN files[n].lines : files[n].lines[k] = files'[n].lines[j]
      BY <2>1, <3>3 DEF Buffer
    <3>. QED BY <1>2, <3>2, <3>3 DEF FrameOfFiles
  <2>. QED BY <1>1, <1>3, <1>4, <2>1 DEF Buffer
<1>9. OnDisk(q)'
  <2>1. ASSUME NEW n \in Name, NEW i \in DOMAIN files'[n].lines, files'[n].lines[i][1] = q
        PROVE  /\ files'[n].lines[i][2] <= next[q]
               /\ pc[q] # "idle" => files'[n].lines[i][2] # next[q]
    <3>1. PICK j \in DOMAIN files[n].lines : files[n].lines[j] = files'[n].lines[i]
      BY <1>2, <2>1 DEF FrameOfFiles
    <3>. QED BY <2>1, <3>1 DEF OnDisk
  <2>. QED BY <1>1, <1>3, <2>1 DEF OnDisk
<1>10. Kept(q)'
  <2>. SUFFICES ASSUME Timestamped, q \notin trouble, NEW i \in 1 .. next[q]
                PROVE  \/ i = next[q] /\ pc[q] # "idle"
                       \/ \E n \in Name : \E j \in DOMAIN files'[n].lines :
                            files'[n].lines[j] = <<q, i>>
                       \/ \E j \in DOMAIN obj[q].lines : obj[q].lines[j] = <<q, i>>
    BY <1>1, <1>3 DEF Kept
  <2>1. CASE \E n \in Name : \E j \in DOMAIN files[n].lines : files[n].lines[j] = <<q, i>>
    BY <1>2, <2>1 DEF FrameOfFiles
  <2>. QED BY <2>1 DEF Kept
<1>11. Measured(q)'
  <2>1. Timestamped /\ Owns(q) => files'[obj[q].file].len = files[obj[q].file].len
    BY <1>2, <1>5 DEF Opened, Owns, FrameOfFiles
  <2>2. ~Timestamped /\ ~DropMemory /\ Owns(q) =>
          files'[obj[q].file].len = files[obj[q].file].len
    BY <1>2, <1>5 DEF LockHeld, Owns, FrameOfFiles
  <2>. QED BY <1>1, <1>3, <1>4, <2>1, <2>2 DEF Measured
<1>12. LockHeld(q)'
  <2>1. Owns(q) /\ files[obj[q].file].lock = q => files'[obj[q].file].lock = q
    BY <1>2, <1>5 DEF Owns, FrameOfFiles
  <2>. QED BY <1>1, <1>3, <1>4, <2>1 DEF LockHeld
<1>13. Drops(q)'
  <2>1. \A a \in advice[q] : a.file \in Name /\ files'[a.file].exists
    BY <1>2 DEF Drops, FrameOfFiles, TypeOK, Advice
  <2>. QED BY <1>1, <1>3, <1>4, <2>1 DEF Drops
<1>14. Attempts(q)'
  BY <1>1, <1>3, <1>4 DEF Attempts
<1>. QED BY <1>6, <1>7, <1>8, <1>9, <1>10, <1>11, <1>12, <1>13, <1>14

-----------------------------------------------------------------------------
(* Lines that reach the disk.                                              *)

\* A line of p that is in no file and may be there after the step.
Storable(p, line) ==
  /\ line[1] = p /\ line[2] <= next'[p] /\ (pc'[p] # "idle" => line[2] # next'[p])
  /\ \A n \in Name : \A j \in DOMAIN files[n].lines : files[n].lines[j] # line

\* A file gets lines s at its end, or is truncated if it is shared.
Receives(p, m, n, s) ==
  \/ files'[m].lines = files[m].lines
  \/ ~Timestamped /\ files'[m].lines = <<>>
  \/ m = n /\ (Timestamped => n[3] = p) /\ files'[m].lines = files[m].lines \o s

\* A message is new, or its number remains.
Numbers(p) ==
  \/ next'[p] = next[p] + 1
  \/ next'[p] = next[p] /\ (pc[p] = "idle" => pc'[p] = "idle")

LEMMA LinesMove ==
  ASSUME TypeOK, TypeOK', UNCHANGED settings, FilesInv, NEW p \in Proc, Local(p), Numbers(p),
         NEW n, NEW s \in Seq(Entry),
         \A m \in Name : Receives(p, m, n, s),
         \A i, j \in DOMAIN s : s[i] = s[j] => i = j,
         \A i \in DOMAIN s : Storable(p, s[i])
  PROVE  /\ LinesDistinct' /\ LinesOfOwner' /\ OnDisk(p)'
         /\ \A m \in Name : \A i \in DOMAIN files'[m].lines :
              \/ \E j \in DOMAIN files[m].lines : files[m].lines[j] = files'[m].lines[i]
              \/ \E j \in DOMAIN s : s[j] = files'[m].lines[i]
         /\ \A m \in Name : \A i \in DOMAIN files'[m].lines :
              \/ files'[m].lines[i][1] = p
              \/ \E j \in DOMAIN files[m].lines : files[m].lines[j] = files'[m].lines[i]
         /\ Timestamped =>
              \A m \in Name : \A j \in DOMAIN files[m].lines :
                \E i \in DOMAIN files'[m].lines : files'[m].lines[i] = files[m].lines[j]
<1>0. \A m \in Name : files[m].lines \in Seq(Entry)
  BY DEF TypeOK, File
\* Where a line on disk comes from.
<1>1. ASSUME NEW m \in Name, NEW i \in DOMAIN files'[m].lines
      PROVE  \/ i \in DOMAIN files[m].lines /\ files'[m].lines[i] = files[m].lines[i]
             \/ /\ m = n /\ (Timestamped => n[3] = p)
                /\ i - Len(files[m].lines) \in DOMAIN s
                /\ files'[m].lines[i] = s[i - Len(files[m].lines)]
  <2>1. CASE files'[m].lines = files[m].lines
    BY <1>1, <2>1
  <2>2. CASE files'[m].lines = <<>>
    BY <1>1, <2>2
  <2>3. CASE m = n /\ (Timestamped => n[3] = p) /\ files'[m].lines = files[m].lines \o s
    BY <1>0, <1>1, <2>3, Concatenation
  <2>. QED BY <2>1, <2>2, <2>3 DEF Receives
<1>2. ASSUME NEW m \in Name, NEW i \in DOMAIN files'[m].lines,
             NEW k \in Name, NEW j \in DOMAIN files'[k].lines,
             files'[m].lines[i] = files'[k].lines[j]
      PROVE  m = k /\ i = j
  <2>. DEFINE i1 == i - Len(files[m].lines)
              j1 == j - Len(files[k].lines)
  <2>1. i \in Int /\ j \in Int /\ Len(files[m].lines) \in Nat /\ Len(files[k].lines) \in Nat
    <3>1. files' \in [Name -> File]
      BY SettingsStay DEF TypeOK
    <3>2. /\ files'[m].lines \in Seq(Entry) /\ files'[k].lines \in Seq(Entry)
          /\ files[m].lines \in Seq(Entry) /\ files[k].lines \in Seq(Entry)
      BY <1>0, <3>1 DEF File
    <3>3. DOMAIN files'[m].lines \subseteq Nat /\ DOMAIN files'[k].lines \subseteq Nat
      BY <3>2
    <3>. QED BY <1>2, <3>2, <3>3
  <2>2. CASE files'[m].lines[i] = files[m].lines[i] /\ i \in DOMAIN files[m].lines
    <3>1. CASE files'[k].lines[j] = files[k].lines[j] /\ j \in DOMAIN files[k].lines
      <4>1. files[m].lines[i] = files[k].lines[j]
        BY <1>2, <2>2, <3>1
      <4>2. LinesDistinct
        BY DEF FilesInv
      <4>. QED BY <2>2, <3>1, <4>1, <4>2 DEF LinesDistinct
    <3>2. CASE j1 \in DOMAIN s /\ files'[k].lines[j] = s[j1]
      BY <1>2, <2>2, <3>2 DEF Storable
    <3>. QED BY <1>1, <3>1, <3>2
  <2>3. CASE m = n /\ i1 \in DOMAIN s /\ files'[m].lines[i] = s[i1]
    <3>1. CASE files'[k].lines[j] = files[k].lines[j] /\ j \in DOMAIN files[k].lines
      BY <1>2, <2>3, <3>1 DEF Storable
    <3>2. CASE k = n /\ j1 \in DOMAIN s /\ files'[k].lines[j] = s[j1]
      <4>1. i1 = j1
        BY <1>2, <2>3, <3>2
      <4>. QED BY <2>1, <2>3, <3>2, <4>1
    <3>. QED BY <1>1, <3>1, <3>2
  <2>. QED BY <1>1, <2>2, <2>3
<1>3. ASSUME Timestamped, NEW m \in Name, NEW i \in DOMAIN files'[m].lines
      PROVE  files'[m].lines[i][1] = m[3]
  BY <1>1, <1>3 DEF FilesInv, LinesOfOwner, Storable
<1>4. OnDisk(p)'
  <2>1. ASSUME NEW m \in Name, NEW i \in DOMAIN files'[m].lines, files'[m].lines[i][1] = p
        PROVE  /\ files'[m].lines[i][2] <= next'[p]
               /\ pc'[p] # "idle" => files'[m].lines[i][2] # next'[p]
    <3>1. CASE i \in DOMAIN files[m].lines /\ files'[m].lines[i] = files[m].lines[i]
      <4>1. /\ files[m].lines[i][2] <= next[p] /\ next[p] \in Nat /\ files[m].lines[i][2] \in Nat
            /\ pc[p] # "idle" => files[m].lines[i][2] # next[p]
        <5>1. files[m].lines[i] \in Entry
          BY <1>0, <3>1
        <5>. QED BY <2>1, <3>1, <5>1 DEF Local, OnDisk, TypeOK, Entry
      <4>. QED BY <3>1, <4>1 DEF Numbers
    <3>2. CASE \E j \in DOMAIN s : files'[m].lines[i] = s[j]
      BY <3>2 DEF Storable
    <3>. QED BY <1>1, <2>1, <3>1, <3>2
  <2>2. Name' = Name
    BY SettingsStay
  <2>. QED BY <2>1, <2>2 DEF OnDisk
<1>5. ASSUME NEW m \in Name, NEW i \in DOMAIN files'[m].lines
      PROVE  \/ \E j \in DOMAIN files[m].lines : files[m].lines[j] = files'[m].lines[i]
             \/ \E j \in DOMAIN s : s[j] = files'[m].lines[i]
  BY <1>1, <1>5
<1>6. ASSUME NEW m \in Name, NEW i \in DOMAIN files'[m].lines
      PROVE  \/ files'[m].lines[i][1] = p
             \/ \E j \in DOMAIN files[m].lines : files[m].lines[j] = files'[m].lines[i]
  BY <1>5, <1>6 DEF Storable
<1>7. ASSUME Timestamped, NEW m \in Name, NEW j \in DOMAIN files[m].lines
      PROVE  \E i \in DOMAIN files'[m].lines : files'[m].lines[i] = files[m].lines[j]
  <2>1. CASE files'[m].lines = files[m].lines \o s
    BY <1>0, <2>1, Concatenation
  <2>. QED BY <1>7, <2>1 DEF Receives
<1>8. LinesDistinct' /\ LinesOfOwner'
  BY <1>2, <1>3, SettingsStay DEF LinesDistinct, LinesOfOwner
<1>. QED BY <1>4, <1>5, <1>6, <1>7, <1>8

\* Drain and Close: the buffer of o reaches its file, unless a full disk takes nothing.
Stored(o, G) ==
  /\ \A n \in Name : G[n].exists = files[n].exists
  /\ \A n \in Name :
       n = o.file /\ ~Unwritten(o) =>
         G[n].lines = files[n].lines \o o.lines /\ G[n].len = files[n].len + o.buffered
  /\ \A n \in Name :
       n # o.file \/ Unwritten(o) => G[n].lines = files[n].lines /\ G[n].len = files[n].len

LEMMA DrainIs ==
  ASSUME TypeOK, NEW F \in [Name -> File], NEW o \in Object
  PROVE  /\ Drain(F, o) \in [Name -> File]
         /\ \A n \in Name : /\ Drain(F, o)[n].exists = F[n].exists
                            /\ Drain(F, o)[n].lock = F[n].lock
                            /\ n # o.file => Drain(F, o)[n] = F[n]
         /\ o.file \in Name /\ ~Unwritten(o) =>
              /\ Drain(F, o)[o.file].lines = F[o.file].lines \o o.lines
              /\ Drain(F, o)[o.file].len = F[o.file].len + o.buffered
         /\ o.file = NoName \/ full => Drain(F, o) = F
<1>1. CASE o.file = NoName \/ full
  <2>1. Drain(F, o) = F /\ NoName \notin Name
    BY <1>1, NoNameIsNone DEF Drain, TypeOK
  <2>2. ASSUME o.file \in Name, ~Unwritten(o)
        PROVE  F[o.file].lines = F[o.file].lines \o o.lines
               /\ F[o.file].len = F[o.file].len + o.buffered
    <3>1. o.lines = <<>> /\ o.buffered = 0
      BY <1>1, <2>1, <2>2 DEF Unwritten, Object
    <3>2. F[o.file].lines \in Seq(Entry) /\ F[o.file].len \in Nat
      BY <2>2 DEF File
    <3>. QED BY <3>1, <3>2
  <2>. QED BY <2>1, <2>2
<1>2. CASE o.file \in Name /\ ~full
  <2>. DEFINE f == F[o.file]
              g == [f EXCEPT !.lines = f.lines \o o.lines, !.len = f.len + o.buffered]
  <2>1. f \in File /\ o.lines \in Seq(Entry) /\ o.buffered \in Nat /\ o.file # NoName
    BY <1>2, NoNameIsNone DEF TypeOK, Object
  <2>2. f.lines \o o.lines \in Seq(Entry) /\ f.len + o.buffered \in Nat
    BY <2>1, Concatenation DEF File
  <2>3. /\ g \in File /\ g.exists = f.exists /\ g.lock = f.lock
        /\ g.lines = f.lines \o o.lines /\ g.len = f.len + o.buffered
    BY <2>1, <2>2 DEF File
  <2>4. Drain(F, o) = [F EXCEPT ![o.file] = g]
    BY <1>2, <2>1 DEF Drain, File
  <2>. HIDE DEF f, g
  <2>5. /\ Drain(F, o) \in [Name -> File] /\ Drain(F, o)[o.file] = g
        /\ \A n \in Name : n # o.file => Drain(F, o)[n] = F[n]
    BY <1>2, <2>3, <2>4
  <2>. QED BY <1>2, <2>1, <2>3, <2>5 DEF f
<1>. QED BY <1>1, <1>2 DEF Object

LEMMA DrainStores ==
  ASSUME TypeOK, NEW o \in Object
  PROVE  /\ Drain(files, o) \in [Name -> File] /\ Stored(o, Drain(files, o))
         /\ \A n \in Name : Drain(files, o)[n].lock = files[n].lock
<1>1. files \in [Name -> File] /\ NoName \notin Name
  BY NoNameIsNone DEF TypeOK
<1>. DEFINE G == Drain(files, o)
<1>2. /\ G \in [Name -> File]
      /\ \A n \in Name : /\ G[n].exists = files[n].exists
                         /\ G[n].lock = files[n].lock
                         /\ n # o.file => G[n] = files[n]
      /\ o.file \in Name /\ ~Unwritten(o) =>
           /\ G[o.file].lines = files[o.file].lines \o o.lines
           /\ G[o.file].len = files[o.file].len + o.buffered
      /\ o.file = NoName \/ full => G = files
  BY <1>1, DrainIs
<1>. HIDE DEF G
<1>3. Unwritten(o) => full
  BY DEF Unwritten
<1>4. Stored(o, G)
  BY <1>1, <1>2, <1>3 DEF Stored
<1>. QED BY <1>2, <1>4 DEF G

LEMMA UnlockKeeps ==
  ASSUME settings \in Settings, NEW F \in [Name -> File], NEW p \in Proc,
         NEW n \in Name \cup {NoName}
  PROVE  /\ Unlock(F, p, n) \in [Name -> File]
         /\ \A m \in Name :
              /\ Unlock(F, p, n)[m].exists = F[m].exists /\ Unlock(F, p, n)[m].len = F[m].len
              /\ Unlock(F, p, n)[m].lines = F[m].lines
              /\ \/ Unlock(F, p, n)[m].lock = F[m].lock
                 \/ m = n /\ F[m].lock = p
<1>1. CASE n = NoName \/ F[n].lock # p
  BY <1>1 DEF Unlock
<1>2. CASE n \in Name /\ F[n].lock = p
  <2>. DEFINE g == [F[n] EXCEPT !.lock = NoProc]
  <2>1. Unlock(F, p, n) = [F EXCEPT ![n] = g]
    BY <1>2, NoNameIsNone DEF Unlock
  <2>2. g \in File /\ g.exists = F[n].exists /\ g.len = F[n].len /\ g.lines = F[n].lines
    BY <1>2 DEF File
  <2>. HIDE DEF g
  <2>. QED BY <1>2, <2>1, <2>2
<1>. QED BY <1>1, <1>2

LEMMA CloseStores ==
  ASSUME TypeOK, NEW p \in Proc, NEW o \in Object
  PROVE  /\ Close(files, p, o) \in [Name -> File] /\ Stored(o, Close(files, p, o))
         /\ \A n \in Name :
              Close(files, p, o)[n].lock = files[n].lock \/ (n = o.file /\ files[n].lock = p)
<1>. DEFINE D == Drain(files, o)
<1>1. D \in [Name -> File] /\ Stored(o, D) /\ \A n \in Name : D[n].lock = files[n].lock
  BY DrainStores
<1>2. Close(files, p, o) = Unlock(D, p, o.file) /\ o.file \in Name \cup {NoName}
  BY DEF Close, Object
<1>3. settings \in Settings
  BY DEF TypeOK
<1>. HIDE DEF D
<1>4. /\ Unlock(D, p, o.file) \in [Name -> File]
      /\ \A n \in Name :
           /\ Unlock(D, p, o.file)[n].exists = D[n].exists
           /\ Unlock(D, p, o.file)[n].len = D[n].len
           /\ Unlock(D, p, o.file)[n].lines = D[n].lines
           /\ \/ Unlock(D, p, o.file)[n].lock = D[n].lock
              \/ n = o.file /\ D[n].lock = p
  BY <1>1, <1>2, <1>3, UnlockKeeps
<1>. DEFINE G == Close(files, p, o)
<1>5. /\ G \in [Name -> File]
      /\ \A n \in Name :
           /\ G[n].exists = D[n].exists /\ G[n].len = D[n].len /\ G[n].lines = D[n].lines
           /\ G[n].lock = D[n].lock \/ (n = o.file /\ D[n].lock = p)
  BY <1>2, <1>4
<1>. HIDE DEF G
<1>6. Stored(o, G)
  BY <1>1, <1>5, ZenonT(30) DEF Stored
<1>7. \A n \in Name : G[n].lock = files[n].lock \/ (n = o.file /\ files[n].lock = p)
  BY <1>1, <1>5
<1>. QED BY <1>5, <1>6, <1>7 DEF G

-----------------------------------------------------------------------------
(* Objects.                                                                *)

LEMMA ResetIs ==
  ASSUME settings \in Settings, NEW o \in Object
  PROVE  /\ Reset(o) \in Object
         /\ Reset(o).file = NoName /\ Reset(o).lines = <<>> /\ Reset(o).buffered = 0
         /\ ~Reset(o).inexact /\ Reset(o).length = 0 /\ Reset(o).dropped = 0 /\ Reset(o).attempt = Frequency - 1
         /\ Reset(o).pid = o.pid /\ Reset(o).base = o.base /\ Reset(o).selected = o.selected
<1>1. Frequency \in Nat \ {0}
  BY SettingsTyped
<1>2. <<>> \in Seq(Entry) /\ Frequency - 1 \in Nat
  BY <1>1
<1>. QED BY <1>2 DEF Reset, Object

LEMMA DrainedIs ==
  ASSUME TypeOK, NEW o \in Object
  PROVE  /\ Drained(o) \in Object
         /\ Drained(o).file = o.file /\ Drained(o).pid = o.pid /\ Drained(o).base = o.base
         /\ Drained(o).selected = o.selected /\ Drained(o).length = o.length
         /\ Drained(o).dropped = o.dropped /\ Drained(o).attempt = o.attempt
         /\ o.file = NoName => Drained(o) = o
         /\ o.file # NoName =>
              /\ Drained(o).lines = <<>> /\ Drained(o).buffered = 0
              /\ ~Drained(o).inexact => ~o.inexact /\ ~Unwritten(o)
              /\ o.inexact => Drained(o).inexact
              /\ Unwritten(o) => Drained(o).inexact
              /\ ~Unwritten(o) => Drained(o).inexact = o.inexact
<1>1. CASE o.file = NoName
  BY <1>1 DEF Drained
<1>2. CASE o.file # NoName
  <2>. DEFINE inexact == o.inexact \/ Unwritten(o)
  <2>1. <<>> \in Seq(Entry) /\ inexact \in BOOLEAN
    OBVIOUS
  <2>2. Drained(o) = [o EXCEPT !.lines = <<>>, !.buffered = 0, !.inexact = inexact]
    BY <1>2 DEF Drained
  <2>3. o.inexact \in BOOLEAN /\ (~Unwritten(o) => inexact = o.inexact)
    BY DEF Object
  <2>4. /\ ~inexact => ~o.inexact /\ ~Unwritten(o)
        /\ o.inexact => inexact
        /\ Unwritten(o) => inexact
    OBVIOUS
  <2>. HIDE DEF inexact
  <2>. DEFINE e == [o EXCEPT !.lines = <<>>, !.buffered = 0, !.inexact = inexact]
  <2>5. /\ e \in Object /\ e.file = o.file /\ e.pid = o.pid /\ e.base = o.base
        /\ e.selected = o.selected /\ e.length = o.length /\ e.dropped = o.dropped
        /\ e.attempt = o.attempt /\ e.lines = <<>> /\ e.buffered = 0
    BY <2>1 DEF Object
  <2>6. e.inexact = inexact
    BY DEF Object
  <2>. HIDE DEF e
  <2>7. Drained(o) = e
    BY <2>2 DEF e
  <2>8. /\ ~e.inexact => ~o.inexact /\ ~Unwritten(o)
        /\ o.inexact => e.inexact
        /\ Unwritten(o) => e.inexact
        /\ ~Unwritten(o) => e.inexact = o.inexact
    BY <2>3, <2>4, <2>6, ZenonT(30)
  <2>. QED BY <1>2, <2>5, <2>7, <2>8
<1>. QED BY <1>1, <1>2

LEMMA FlushedIs ==
  ASSUME TypeOK, NEW o \in Object
  PROVE  /\ Flushed(o) \in Object
         /\ Flushed(o).file = o.file /\ Flushed(o).pid = o.pid /\ Flushed(o).base = o.base
         /\ Flushed(o).selected = o.selected /\ Flushed(o).length = o.length
         /\ Flushed(o).dropped = o.dropped /\ Flushed(o).attempt = o.attempt
         /\ Flushed(o).lines = Drained(o).lines /\ Flushed(o).buffered = Drained(o).buffered
         /\ Flushed(o).inexact = Drained(o).inexact
<1>1. clock + BufSecs \in Int
  BY TimeAssumption DEF TypeOK
<1>2. Drained(o) \in Object
  BY DrainedIs
<1>3. /\ Flushed(o) \in Object
      /\ Flushed(o).file = Drained(o).file /\ Flushed(o).pid = Drained(o).pid
      /\ Flushed(o).base = Drained(o).base /\ Flushed(o).selected = Drained(o).selected
      /\ Flushed(o).length = Drained(o).length /\ Flushed(o).dropped = Drained(o).dropped
      /\ Flushed(o).attempt = Drained(o).attempt /\ Flushed(o).lines = Drained(o).lines
      /\ Flushed(o).buffered = Drained(o).buffered
      /\ Flushed(o).inexact = Drained(o).inexact
  BY <1>1, <1>2 DEF Flushed, Object
<1>. QED BY <1>3, DrainedIs

\* What an operation works on: the file of the process itself, or none.
Own(p, o) ==
  /\ o \in Object /\ o.pid = obj[p].pid
  /\ o.file # NoName => o = obj[p] /\ Owns(p)
  /\ o.file = NoName => /\ o.lines = <<>> /\ o.buffered = 0 /\ o.dropped = 0
                        /\ Timestamped => o.length = 0
                        /\ HasFile(p) => ~Owns(p)

LEMMA DiscardIs ==
  ASSUME TypeOK, NEW p \in Proc, Local(p)
  PROVE  /\ Own(p, Discard(p, obj[p]))
         /\ ~HasFile(p) => Discard(p, obj[p]) = obj[p]
         /\ Discard(p, obj[p]).base = obj[p].base
         /\ Discard(p, obj[p]).selected = obj[p].selected
<1>1. obj[p] \in Object /\ settings \in Settings
  BY DEF TypeOK
<1>2. CASE obj[p].file # NoName /\ obj[p].pid # p
  BY <1>1, <1>2, ResetIs DEF Discard, Own, HasFile, Owns
<1>3. CASE ~(obj[p].file # NoName /\ obj[p].pid # p)
  BY <1>1, <1>3 DEF Discard, Own, HasFile, Owns, Local, Opened
<1>. QED BY <1>2, <1>3

-----------------------------------------------------------------------------
(* Steps of a process, in parts.                                           *)

Holds(p) == TypeOK' /\ FilesInv' /\ Frame(p) /\ Local(p)'

\* The locks of the others remain.
OwnLocks(p) ==
  \A n \in Name : files'[n].lock # files[n].lock => files[n].lock \in {p, NoProc}

LEMMA QuietFiles ==
  ASSUME TypeOK, TypeOK', UNCHANGED <<settings, full>>, FilesInv, NEW p \in Proc, Local(p),
         Numbers(p), OwnLocks(p),
         \A n \in Name :
           /\ files'[n].lines = files[n].lines /\ files'[n].len = files[n].len
           /\ files[n].exists => files'[n].exists
  PROVE  FilesInv' /\ FrameOfFiles(p) /\ OnDisk(p)'
<1>. DEFINE s == <<>>
<1>1. s \in Seq(Entry) /\ DOMAIN s = {} /\ \A m \in Name : Receives(p, m, NoName, s)
  BY DEF Receives
<1>. HIDE DEF s
<1>2. LinesDistinct' /\ LinesOfOwner' /\ OnDisk(p)'
  BY <1>1, LinesMove
<1>3. Name' = Name /\ MayFill' = MayFill
  BY SettingsStay
<1>4. Absent'
  BY <1>3 DEF FilesInv, Absent
<1>5. FrameOfFiles(p)
  BY <1>2, ProcAssumption DEF FrameOfFiles, OwnLocks
<1>. QED BY <1>2, <1>3, <1>4, <1>5 DEF FilesInv

\* Its lines that are not on disk yet may be stored.
LEMMA BufferStorable ==
  ASSUME TypeOK, TypeOK', NEW p \in Proc, Local(p), Numbers(p), Owns(p),
         NEW i \in DOMAIN obj[p].lines
  PROVE  Storable(p, obj[p].lines[i])
<1>1. obj[p].lines[i] \in Entry
  BY DEF TypeOK, Object
<1>2. /\ obj[p].lines[i][1] = p
      /\ obj[p].lines[i][2] <= next[p] /\ (pc[p] # "idle" => obj[p].lines[i][2] # next[p])
      /\ \A n \in Name : \A j \in DOMAIN files[n].lines : files[n].lines[j] # obj[p].lines[i]
  BY DEF Local, Buffer, Owns
<1>3. obj[p].lines[i][2] \in Nat /\ next[p] \in Nat
  BY <1>1 DEF Entry, TypeOK
<1>. QED BY <1>2, <1>3 DEF Storable, Numbers

LEMMA StoringFiles ==
  ASSUME TypeOK, TypeOK', UNCHANGED <<settings, full>>, FilesInv, NEW p \in Proc, Local(p),
         Numbers(p), OwnLocks(p),
         NEW n \in Name, Timestamped => n[3] = p, files[n].exists,
         ~Timestamped /\ ~DropMemory => files[n].lock = p,
         NEW s \in Seq(Entry), \A i, j \in DOMAIN s : s[i] = s[j] => i = j,
         \A i \in DOMAIN s : Storable(p, s[i]),
         files'[n].lines = files[n].lines \o s,
         \A m \in Name :
           /\ files'[m].exists = files[m].exists
           /\ m # n => files'[m].lines = files[m].lines /\ files'[m].len = files[m].len
  PROVE  /\ FilesInv' /\ FrameOfFiles(p) /\ OnDisk(p)'
         /\ \A m \in Name : \A i \in DOMAIN files'[m].lines :
              \/ \E j \in DOMAIN files[m].lines : files[m].lines[j] = files'[m].lines[i]
              \/ \E j \in DOMAIN s : s[j] = files'[m].lines[i]
         /\ \A i \in DOMAIN s : \E j \in DOMAIN files'[n].lines : files'[n].lines[j] = s[i]
<1>1. \A m \in Name : Receives(p, m, n, s)
  BY DEF Receives
<1>2. /\ LinesDistinct' /\ LinesOfOwner' /\ OnDisk(p)'
      /\ \A m \in Name : \A i \in DOMAIN files'[m].lines :
           \/ \E j \in DOMAIN files[m].lines : files[m].lines[j] = files'[m].lines[i]
           \/ \E j \in DOMAIN s : s[j] = files'[m].lines[i]
      /\ \A m \in Name : \A i \in DOMAIN files'[m].lines :
           \/ files'[m].lines[i][1] = p
           \/ \E j \in DOMAIN files[m].lines : files[m].lines[j] = files'[m].lines[i]
      /\ Timestamped =>
           \A m \in Name : \A j \in DOMAIN files[m].lines :
             \E i \in DOMAIN files'[m].lines : files'[m].lines[i] = files[m].lines[j]
  BY <1>1, LinesMove
<1>3. Name' = Name /\ MayFill' = MayFill
  BY SettingsStay
<1>4. Absent'
  <2>1. \A m \in Name : ~files'[m].exists => m # n /\ ~files[m].exists
    OBVIOUS
  <2>. QED BY <1>3, <2>1 DEF FilesInv, Absent
<1>5. FrameOfFiles(p)
  BY <1>2, ProcAssumption DEF FrameOfFiles, OwnLocks
<1>6. files[n].lines \in Seq(Entry)
  BY DEF TypeOK, File
<1>7. ASSUME NEW i \in DOMAIN s
      PROVE  \E j \in DOMAIN files'[n].lines : files'[n].lines[j] = s[i]
  <2>. DEFINE t == files[n].lines
  <2>1. t \in Seq(Entry) /\ files'[n].lines = t \o s
    BY <1>6
  <2>. HIDE DEF t
  <2>2. \A k \in DOMAIN s : Len(t) + k \in DOMAIN (t \o s) /\ (t \o s)[Len(t) + k] = s[k]
    BY <2>1, Concatenation
  <2>. QED BY <1>7, <2>1, <2>2
<1>. QED BY <1>2, <1>3, <1>4, <1>5, <1>7 DEF FilesInv

\* Drain and Close, by the process that opened the file.
LEMMA StoreOwn ==
  ASSUME TypeOK, TypeOK', UNCHANGED <<settings, full>>, FilesInv, NEW p \in Proc, Local(p),
         Numbers(p), OwnLocks(p), NEW o, Own(p, o), Stored(o, files')
  PROVE  /\ FilesInv' /\ FrameOfFiles(p) /\ OnDisk(p)'
         /\ ~Unwritten(o) =>
              \A i \in DOMAIN o.lines : \E n \in Name : \E j \in DOMAIN files'[n].lines :
                files'[n].lines[j] = o.lines[i]
<1>1. CASE o.file = NoName \/ Unwritten(o)
  <2>1. \A n \in Name :
          /\ files'[n].exists = files[n].exists
          /\ files'[n].lines = files[n].lines /\ files'[n].len = files[n].len
    BY <1>1, NoNameIsNone DEF Stored, TypeOK
  <2>2. FilesInv' /\ FrameOfFiles(p) /\ OnDisk(p)'
    BY <2>1, QuietFiles
  <2>3. ~Unwritten(o) => o.lines = <<>>
    BY <1>1 DEF Own
  <2>. QED BY <2>2, <2>3
<1>2. CASE o.file # NoName /\ ~Unwritten(o)
  <2>1. o = obj[p] /\ Owns(p)
    BY <1>2 DEF Own
  <2>2. o.file \in Name /\ o.lines \in Seq(Entry)
    BY <1>2, <2>1 DEF TypeOK, Object
  <2>3. /\ Timestamped => o.file[3] = p
        /\ files[o.file].exists
        /\ ~Timestamped /\ ~DropMemory => files[o.file].lock = p
    BY <1>2, <2>1 DEF Local, Opened, Owns, LockHeld
  <2>4. /\ \A i, j \in DOMAIN o.lines : o.lines[i] = o.lines[j] => i = j
        /\ \A i \in DOMAIN o.lines : Storable(p, o.lines[i])
    BY <2>1, BufferStorable DEF Local, Buffer
  <2>5. /\ files'[o.file].lines = files[o.file].lines \o o.lines
        /\ \A m \in Name :
             /\ files'[m].exists = files[m].exists
             /\ m # o.file => files'[m].lines = files[m].lines /\ files'[m].len = files[m].len
    BY <1>2, <2>2 DEF Stored
  <2>6. /\ FilesInv' /\ FrameOfFiles(p) /\ OnDisk(p)'
        /\ \A i \in DOMAIN o.lines : \E j \in DOMAIN files'[o.file].lines :
             files'[o.file].lines[j] = o.lines[i]
    BY <2>2, <2>3, <2>4, <2>5, StoringFiles
  <2>. QED BY <2>2, <2>6
<1>. QED BY <1>1, <1>2

\* The buffer is empty, or as before.
LEMMA BufferStays ==
  ASSUME TypeOK, TypeOK', UNCHANGED settings, NEW p \in Proc, Local(p), Numbers(p),
         \/ obj'[p].lines = <<>>
         \/ /\ obj'[p].lines = obj[p].lines /\ obj'[p].pid = obj[p].pid
            /\ Owns(p)' => Owns(p)
            /\ \A n \in Name : files'[n].lines = files[n].lines
  PROVE  Buffer(p)'
<1>1. CASE obj'[p].lines = <<>>
  BY <1>1 DEF Buffer
<1>2. CASE obj'[p].lines # <<>>
  <2>1. Name' = Name
    BY SettingsStay
  <2>2. Owns(p)' => \A i \in DOMAIN obj[p].lines : Storable(p, obj[p].lines[i])
    BY <1>2, BufferStorable
  <2>. QED BY <1>2, <2>1, <2>2 DEF Local, Buffer, Storable
<1>. QED BY <1>1, <1>2

\* A line that is buffered remains there or reaches the disk.
LEMMA KeptStays ==
  ASSUME TypeOK, TypeOK', UNCHANGED settings, NEW p \in Proc, Local(p), FrameOfFiles(p),
         p \notin trouble' => p \notin trouble,
         \/ next'[p] = next[p] + 1 /\ pc[p] = "idle" /\ pc'[p] # "idle"
         \/ next'[p] = next[p] /\ (pc[p] # "idle" => pc'[p] # "idle"),
         p \notin trouble' =>
           \A i \in DOMAIN obj[p].lines : obj[p].lines[i][1] = p =>
             \/ \E n \in Name : \E j \in DOMAIN files'[n].lines :
                  files'[n].lines[j] = obj[p].lines[i]
             \/ \E j \in DOMAIN obj'[p].lines : obj'[p].lines[j] = obj[p].lines[i]
  PROVE  Kept(p)'
<1>1. Name' = Name /\ Timestamped' = Timestamped /\ next[p] \in Nat
  BY SettingsStay DEF TypeOK
<1>. SUFFICES ASSUME Timestamped, p \notin trouble', NEW i \in 1 .. next'[p]
              PROVE  \/ i = next'[p] /\ pc'[p] # "idle"
                     \/ \E n \in Name : \E j \in DOMAIN files'[n].lines :
                          files'[n].lines[j] = <<p, i>>
                     \/ \E j \in DOMAIN obj'[p].lines : obj'[p].lines[j] = <<p, i>>
  BY <1>1 DEF Kept
<1>2. CASE i = next[p] + 1
  BY <1>1, <1>2
<1>3. CASE i \in 1 .. next[p]
  <2>1. CASE i = next[p] /\ pc[p] # "idle"
    BY <2>1
  <2>2. CASE \E n \in Name : \E j \in DOMAIN files[n].lines : files[n].lines[j] = <<p, i>>
    BY <2>2 DEF FrameOfFiles
  <2>3. CASE \E j \in DOMAIN obj[p].lines : obj[p].lines[j] = <<p, i>>
    <3>1. PICK j \in DOMAIN obj[p].lines : obj[p].lines[j] = <<p, i>>
      BY <2>3
    <3>2. obj[p].lines[j][1] = p
      BY <3>1
    <3>. QED BY <3>1, <3>2
  <2>. QED BY <1>3, <2>1, <2>2, <2>3 DEF Local, Kept
<1>. QED BY <1>1, <1>2, <1>3

-----------------------------------------------------------------------------
(* Steps that leave the lines where they are.                              *)

LEMMA ReturnTyped ==
  NoWork \in Work
BY TimeAssumption DEF NoWork, Work

\* The name that is tried is one of the process.
LEMMA CandidateIs ==
  ASSUME TypeOK, NEW p \in Proc, work[p].todo # <<>>
  PROVE  /\ Candidate(p) \in Name /\ Head(work[p].todo) \in Dir
         /\ Timestamped => Candidate(p)[3] = p
<1>1. work[p].todo \in Seq(Dir) /\ work[p].stamp \in 0 .. MaxClock
  BY DEF TypeOK, Work
<1>2. Head(work[p].todo) \in Dir
  BY <1>1
<1>. QED BY <1>1, <1>2 DEF Candidate, MakeLogFilename, Name

LEMMA WriteNowhereKeeps ==
  ASSUME TypeOK, FilesInv, NEW p \in Proc, Local(p), WriteNowhere(p), UNCHANGED settings
  PROVE  Holds(p)
<1>1. /\ pc[p] = "idle" /\ p \in running /\ next' = [next EXCEPT ![p] = @ + 1]
      /\ trouble' = trouble \cup {p}
      /\ UNCHANGED <<obj, work, pc, stop, advice, running, files, full, clock, since>>
  BY DEF WriteNowhere, Idle
<1>2. /\ next' \in [Proc -> Nat] /\ next'[p] = next[p] + 1
      /\ \A q \in Proc : q # p => next'[q] = next[q]
  BY <1>1 DEF TypeOK
<1>3. TypeOK'
  BY <1>1, <1>2, SettingsStay DEF TypeOK
<1>4. FilesInv' /\ FrameOfFiles(p) /\ OnDisk(p)'
  BY <1>1, <1>2, <1>3, QuietFiles DEF OwnLocks, Numbers
<1>5. Frame(p)
  BY <1>1, <1>2, <1>4 DEF Frame, TypeOK
<1>6. HasFile(p)' = HasFile(p) /\ Owns(p)' = Owns(p)
  BY <1>1 DEF HasFile, Owns
<1>7. Phase(p)' /\ Opened(p)'
  <2>1. obj[p].pid # NoProc => next'[obj[p].pid] > 0
    <3>1. obj[p].pid # NoProc => obj[p].pid \in Proc /\ next[obj[p].pid] > 0
      BY DEF Local, Opened, TypeOK, Object
    <3>2. \A q \in Proc : next[q] \in Nat /\ next'[q] \in {next[q], next[q] + 1}
      BY <1>2 DEF TypeOK
    <3>. QED BY <3>1, <3>2
  <2>. QED BY <1>1, <1>2, <1>6, <2>1, SettingsStay DEF Local, Phase, Opened, TypeOK
<1>8. Buffer(p)' /\ Kept(p)'
  BY <1>1, <1>2, <1>3, <1>6, BufferStays DEF Numbers, Kept
<1>9. Measured(p)' /\ LockHeld(p)' /\ Drops(p)' /\ Attempts(p)'
  BY <1>1, <1>6, SettingsStay DEF Local, Measured, LockHeld, Drops, Attempts
<1>. QED BY <1>3, <1>4, <1>5, <1>7, <1>8, <1>9 DEF Holds, Local

LEMMA StatFileKeeps ==
  ASSUME TypeOK, FilesInv, NEW p \in Proc, Local(p), StatFile(p), UNCHANGED settings
  PROVE  Holds(p)
<1>. DEFINE n == Candidate(p)
            found == ~Timestamped /\ files[n].exists
            d == Head(work[p].todo)
            len == IF found THEN files[n].len ELSE obj[p].length
            cut == found /\ Oversize(files[n].len)
            size == IF found THEN files[n].len ELSE 0
            inexact == ~found /\ obj[p].length > 0
<1>1. /\ pc[p] = "stat" /\ p \in running /\ pc' = [pc EXCEPT ![p] = "open"]
      /\ work' = [work EXCEPT ![p].truncate = cut, ![p].size = size]
      /\ obj' = [obj EXCEPT ![p].length = len, ![p].base = d, ![p].inexact = inexact]
      /\ UNCHANGED <<stop, advice, next, running, files, full, clock, trouble, since>>
  BY DEF StatFile
<1>2. /\ work[p].todo \in Seq(Dir) /\ work[p].todo # <<>> /\ work[p].stamp \in 0 .. MaxClock
      /\ ~HasFile(p) /\ obj[p].pid = p /\ obj[p] \in Object /\ work[p] \in Work
  BY <1>1 DEF Local, Phase, TypeOK, Work
<1>3. d \in Dir
  BY <1>2
<1>4. n \in Name
  BY <1>2, <1>3 DEF Candidate, MakeLogFilename, Name
<1>5. len \in Nat /\ cut \in BOOLEAN /\ (Timestamped => len = obj[p].length /\ ~cut)
  BY <1>2, <1>4, SettingsTyped DEF TypeOK, File, Object, Oversize
<1>5a. size \in Nat /\ inexact \in BOOLEAN /\ (~inexact => len = size)
  BY <1>2, <1>4, SMTT(30) DEF TypeOK, File, Object
<1>. HIDE DEF n, found, d, len, cut, size, inexact
<1>6. /\ obj'[p] \in Object /\ obj'[p].file = obj[p].file /\ obj'[p].pid = obj[p].pid
      /\ obj'[p].lines = obj[p].lines /\ obj'[p].buffered = obj[p].buffered
      /\ obj'[p].dropped = obj[p].dropped /\ obj'[p].attempt = obj[p].attempt
      /\ obj'[p].length = len /\ obj'[p].inexact = inexact
  BY <1>1, <1>2, <1>3, <1>5, <1>5a DEF Object, TypeOK
<1>7. /\ work'[p] \in Work /\ work'[p].truncate = cut /\ work'[p].todo = work[p].todo
      /\ work'[p].size = size
  BY <1>1, <1>2, <1>5, <1>5a DEF Work, TypeOK
<1>8. \A q \in Proc : q # p => obj'[q] = obj[q] /\ work'[q] = work[q] /\ pc'[q] = pc[q]
  BY <1>1 DEF TypeOK
<1>9. TypeOK' /\ pc'[p] = "open"
  BY <1>1, <1>6, <1>7, <1>8, SettingsStay DEF TypeOK
<1>10. FilesInv' /\ FrameOfFiles(p) /\ OnDisk(p)'
  BY <1>1, <1>9, QuietFiles DEF OwnLocks, Numbers
<1>11. Frame(p)
  BY <1>1, <1>8, <1>10 DEF Frame, TypeOK
<1>12. ~HasFile(p)' /\ ~Owns(p)' /\ ~Owns(p)
  BY <1>2, <1>6 DEF HasFile, Owns
<1>13. Phase(p)'
  BY <1>1, <1>2, <1>5, <1>6, <1>7, <1>9, <1>12, SettingsStay DEF Local, Phase
<1>14. Opened(p)'
  BY <1>1, <1>2, <1>5, <1>6, <1>12, SettingsStay DEF Local, Opened
<1>15. Buffer(p)' /\ Kept(p)'
  BY <1>1, <1>6, <1>9, <1>10, <1>12, BufferStays, KeptStays DEF Numbers
<1>16. Measured(p)' /\ LockHeld(p)'
  BY <1>1, <1>5a, <1>6, <1>7, <1>12, SettingsStay DEF Local, Measured, LockHeld
<1>17. Drops(p)'
  BY <1>1, <1>2, <1>6, <1>12, SettingsStay DEF Local, Drops, TypeOK, Advice
<1>18. Attempts(p)'
  BY <1>1, <1>9, <1>12, SettingsStay DEF Local, Attempts
<1>. QED BY <1>9, <1>10, <1>11, <1>13, <1>14, <1>15, <1>16, <1>17, <1>18 DEF Holds, Local

LEMMA SkipLineKeeps ==
  ASSUME TypeOK, FilesInv, NEW p \in Proc, Local(p), SkipLine(p), UNCHANGED settings
  PROVE  Holds(p)
<1>1. /\ pc[p] = "fwrite" /\ p \in running /\ pc' = [pc EXCEPT ![p] = "idle"]
      /\ work' = [work EXCEPT ![p] = NoWork] /\ trouble' = trouble \cup {p}
      /\ stop' = [stop EXCEPT ![p] = clock < obj[p].flushAt]
      /\ UNCHANGED <<obj, advice, next, running, files, full, clock, since>>
  BY DEF SkipLine, Return
<1>2. /\ \A q \in Proc : q # p => work'[q] = work[q] /\ pc'[q] = pc[q]
      /\ pc'[p] = "idle"
  BY <1>1 DEF TypeOK
<1>3. TypeOK'
  BY <1>1, ReturnTyped, SettingsStay DEF TypeOK, SkipLine
<1>4. FilesInv' /\ FrameOfFiles(p) /\ OnDisk(p)'
  BY <1>1, <1>2, <1>3, QuietFiles DEF OwnLocks, Numbers
<1>5. Frame(p)
  BY <1>1, <1>2, <1>4 DEF Frame, TypeOK
<1>6. HasFile(p)' = HasFile(p) /\ Owns(p)' = Owns(p)
  BY <1>1 DEF HasFile, Owns
<1>7. Phase(p)' /\ Opened(p)'
  BY <1>1, <1>2, <1>6, SettingsStay DEF Local, Phase, Opened
<1>8. Buffer(p)' /\ Kept(p)'
  BY <1>1, <1>2, <1>3, <1>6, BufferStays DEF Numbers, Kept
<1>9. Measured(p)' /\ LockHeld(p)' /\ Drops(p)' /\ Attempts(p)'
  BY <1>1, <1>2, <1>6, SettingsStay DEF Local, Measured, LockHeld, Drops, Attempts
<1>. QED BY <1>3, <1>4, <1>5, <1>7, <1>8, <1>9 DEF Holds, Local

LEMMA CannotCreateKeeps ==
  ASSUME TypeOK, FilesInv, NEW p \in Proc, Local(p), CannotCreate(p), UNCHANGED settings
  PROVE  Holds(p)
<1>1. /\ pc[p] = "open" /\ p \in running
      /\ UNCHANGED <<obj, stop, advice, next, running, full, clock>>
  BY DEF CannotCreate
<1>2. /\ ~HasFile(p) /\ ~Owns(p) /\ obj[p].attempt = 0 /\ obj[p].pid = p
      /\ Candidate(p) \in Name /\ work[p] \in Work /\ next[p] # 0
  BY <1>1, CandidateIs DEF Local, Phase, TypeOK, Owns
<1>3. \/ /\ Len(work[p].todo) > 1 /\ work' = [work EXCEPT ![p].todo = Tail(@)]
         /\ pc' = [pc EXCEPT ![p] = "stat"] /\ UNCHANGED <<trouble, since>>
      \/ /\ pc' = [pc EXCEPT ![p] = "idle"] /\ work' = [work EXCEPT ![p] = NoWork]
         /\ trouble' = trouble \cup {p} /\ since' = [since EXCEPT ![p] = 0]
  BY DEF CannotCreate, Return
<1>4. /\ pc' \in [Proc -> {"idle", "stat", "open", "fwrite"}]
      /\ work' \in [Proc -> Work] /\ trouble' \subseteq Proc /\ since' \in [Proc -> Int]
      /\ \A q \in Proc : q # p => /\ work'[q] = work[q] /\ pc'[q] = pc[q]
                                  /\ since'[q] = since[q] /\ (q \in trouble' <=> q \in trouble)
      /\ \/ pc'[p] = "stat" /\ work'[p].todo # <<>> /\ since'[p] = since[p] /\ trouble' = trouble
         \/ pc'[p] = "idle" /\ since'[p] = 0 /\ p \in trouble'
  <2>1. CASE Len(work[p].todo) > 1 /\ work' = [work EXCEPT ![p].todo = Tail(@)]
             /\ pc' = [pc EXCEPT ![p] = "stat"] /\ UNCHANGED <<trouble, since>>
    <3>1. work[p].todo \in Seq(Dir)
      BY <1>2 DEF Work
    <3>. DEFINE rest == Tail(work[p].todo)
    <3>2. rest \in Seq(Dir) /\ rest # <<>>
      <4>1. rest \in Seq(Dir) /\ Len(rest) = Len(work[p].todo) - 1 /\ Len(rest) > 0
        BY <2>1, <3>1
      <4>. HIDE DEF rest
      <4>. QED BY <4>1
    <3>. HIDE DEF rest
    <3>3. work' = [work EXCEPT ![p].todo = rest]
      BY <2>1 DEF rest
    <3>4. work' \in [Proc -> Work] /\ work'[p].todo = rest
      BY <1>2, <3>2, <3>3 DEF TypeOK, Work
    <3>. QED BY <2>1, <3>2, <3>3, <3>4 DEF TypeOK
  <2>2. CASE pc' = [pc EXCEPT ![p] = "idle"] /\ work' = [work EXCEPT ![p] = NoWork]
             /\ trouble' = trouble \cup {p} /\ since' = [since EXCEPT ![p] = 0]
    BY <2>2, ReturnTyped DEF TypeOK
  <2>. QED BY <1>3, <2>1, <2>2
<1>5. /\ files' \in [Name -> File]
      /\ \A n \in Name : /\ files'[n].lines = files[n].lines /\ files'[n].len = files[n].len
                         /\ files'[n].lock = files[n].lock
                         /\ files[n].exists => files'[n].exists
  <2>1. CASE files' = files
    BY <2>1 DEF TypeOK
  <2>2. CASE files' = [files EXCEPT ![Candidate(p)].exists = TRUE]
    <3>. DEFINE n == Candidate(p)
                g == [files[n] EXCEPT !.exists = TRUE]
    <3>1. n \in Name /\ files[n] \in File
      BY <1>2 DEF TypeOK
    <3>2. /\ g \in File /\ g.lines = files[n].lines /\ g.len = files[n].len
          /\ g.lock = files[n].lock /\ g.exists = TRUE
      BY <3>1 DEF File
    <3>3. files' = [files EXCEPT ![n] = g]
      BY <2>2
    <3>. HIDE DEF n, g
    <3>. QED BY <3>1, <3>2, <3>3 DEF TypeOK
  <2>. QED BY <2>1, <2>2 DEF CannotCreate
<1>6. TypeOK'
  BY <1>1, <1>4, <1>5, SettingsStay DEF TypeOK
<1>7. FilesInv' /\ FrameOfFiles(p) /\ OnDisk(p)'
  BY <1>1, <1>5, <1>6, QuietFiles DEF OwnLocks, Numbers
<1>8. Frame(p)
  BY <1>1, <1>4, <1>7 DEF Frame, TypeOK
<1>9. HasFile(p)' = HasFile(p) /\ Owns(p)' = Owns(p)
  BY <1>1 DEF HasFile, Owns
<1>10. Phase(p)' /\ Opened(p)'
  BY <1>1, <1>2, <1>4, <1>9, SettingsStay DEF Local, Phase, Opened
<1>11. Buffer(p)'
  BY <1>1, <1>2, <1>6, BufferStays DEF Numbers, Local, Opened
<1>12. Kept(p)'
  BY <1>1, <1>2, <1>4, <1>6, <1>7, KeptStays DEF Kept
<1>13. Measured(p)' /\ LockHeld(p)'
  BY <1>1, <1>2, <1>4, <1>9, SettingsStay DEF Local, Measured, LockHeld
<1>14. Drops(p)'
  BY <1>1, <1>2, <1>5, <1>9, SettingsStay DEF Local, Drops, TypeOK, Advice
<1>15. Attempts(p)'
  <2>1. Timestamped' = Timestamped
    BY SettingsStay
  <2>2. CASE pc'[p] = "stat" /\ since'[p] = since[p]
    BY <1>1, <1>2, <1>9, <2>1, <2>2 DEF Local, Attempts
  <2>3. CASE pc'[p] = "idle" /\ since'[p] = 0
    BY <1>1, <1>2, <1>9, <2>1, <2>3 DEF Attempts
  <2>. QED BY <1>4, <2>2, <2>3
<1>. QED BY <1>6, <1>7, <1>8, <1>10, <1>11, <1>12, <1>13, <1>14, <1>15 DEF Holds, Local

LEMMA EndAdviceKeeps ==
  ASSUME TypeOK, FilesInv, NEW p \in Proc, Local(p), NEW a \in advice[p], EndAdvice(p, a),
         UNCHANGED settings
  PROVE  Holds(p)
<1>1. /\ p \in running /\ pc[p] = "idle" /\ advice' = [advice EXCEPT ![p] = @ \ {a}]
      /\ files' = Unlock(files, p, a.file)
      /\ UNCHANGED <<obj, work, pc, stop, next, running, full, clock, trouble, since>>
  BY DEF EndAdvice
<1>2. a.file \in Name
  BY DEF TypeOK, Advice
<1>3. /\ files' \in [Name -> File]
      /\ \A n \in Name : /\ files'[n].lines = files[n].lines /\ files'[n].len = files[n].len
                         /\ files'[n].exists = files[n].exists
                         /\ files'[n].lock # files[n].lock => files[n].lock = p
  BY <1>1, <1>2, UnlockKeeps DEF TypeOK
<1>4. /\ advice' \in [Proc -> SUBSET Advice] /\ advice'[p] = advice[p] \ {a}
      /\ \A q \in Proc : q # p => advice'[q] = advice[q]
  BY <1>1 DEF TypeOK
<1>5. TypeOK'
  BY <1>1, <1>3, <1>4, SettingsStay DEF TypeOK
<1>6. FilesInv' /\ FrameOfFiles(p) /\ OnDisk(p)'
  BY <1>1, <1>3, <1>5, QuietFiles DEF OwnLocks, Numbers
<1>7. Frame(p)
  BY <1>1, <1>4, <1>6 DEF Frame, TypeOK
<1>8. HasFile(p)' = HasFile(p) /\ Owns(p)' = Owns(p) /\ (HasFile(p) => obj[p].file \in Name)
  BY <1>1 DEF HasFile, Owns, TypeOK, Object
<1>9. Phase(p)' /\ Opened(p)'
  BY <1>1, <1>3, <1>4, <1>8, SettingsStay DEF Local, Phase, Opened
<1>10. Buffer(p)' /\ Kept(p)'
  BY <1>1, <1>3, <1>5, <1>6, <1>8, BufferStays, KeptStays DEF Numbers
<1>11. Measured(p)' /\ LockHeld(p)'
  BY <1>1, <1>3, <1>4, <1>8, SettingsStay DEF Local, Measured, LockHeld, Owns
<1>12. Drops(p)'
  BY <1>1, <1>3, <1>4, <1>8, SettingsStay DEF Local, Drops, TypeOK, Advice
<1>13. Attempts(p)'
  BY <1>1, <1>8, SettingsStay DEF Local, Attempts
<1>. QED BY <1>5, <1>6, <1>7, <1>9, <1>10, <1>11, <1>12, <1>13 DEF Holds, Local

-----------------------------------------------------------------------------
(* A file is created.                                                      *)

LEMMA CreateLogfileKeeps ==
  ASSUME TypeOK, FilesInv, NEW p \in Proc, Local(p), CreateLogfile(p), UNCHANGED settings
  PROVE  Holds(p)
<1>. DEFINE n == Candidate(p)
            cut == work[p].truncate
            f == files[n]
            len == IF cut THEN 0 ELSE f.len
            lines == IF cut THEN <<>> ELSE f.lines
            o == obj[p]
            length == (IF cut THEN 0 ELSE o.length) + HeaderLen
            unflushed == o.unflushed + HeaderLen
            stale == f.len # work[p].size
            created == WithHeader(o, n, cut, stale)
            inexact == ~cut /\ (o.inexact \/ stale)
<1>1. /\ pc[p] = "open" /\ p \in running /\ pc' = [pc EXCEPT ![p] = "fwrite"]
      /\ files' = [files EXCEPT ![n] = [exists |-> TRUE, len |-> len, lines |-> lines,
                                        lock |-> p]]
      /\ obj' = [obj EXCEPT ![p] = created]
      /\ since' = [since EXCEPT ![p] = -1]
      /\ UNCHANGED <<work, stop, advice, next, running, full, clock, trouble>>
      /\ f.lock \in {p, NoProc} /\ (Timestamped => ~f.exists)
  <2>1. /\ pc[p] = "open" /\ p \in running /\ pc' = [pc EXCEPT ![p] = "fwrite"]
        /\ since' = [since EXCEPT ![p] = -1]
        /\ UNCHANGED <<work, stop, advice, next, running, full, clock, trouble>>
        /\ ~CannotOpen(p) /\ ~Locked(p)
    BY DEF CreateLogfile
  <2>2. files' = [files EXCEPT ![n] = [exists |-> TRUE, len |-> len, lines |-> lines,
                                       lock |-> p]]
    BY DEF CreateLogfile
  <2>3. obj' = [obj EXCEPT ![p] = created]
    BY DEF CreateLogfile
  <2>4. f.lock \in {p, NoProc} /\ (Timestamped => ~f.exists)
    BY <2>1 DEF CannotOpen, Locked
  <2>. QED BY <2>1, <2>2, <2>3, <2>4
<1>2. /\ ~HasFile(p) /\ o.pid = p /\ n \in Name /\ (Timestamped => n[3] = p)
      /\ work[p] \in Work /\ next[p] # 0 /\ o \in Object /\ f \in File
      /\ (Timestamped => ~cut) /\ cut \in BOOLEAN /\ HeaderLen \in Nat
  BY <1>1, CandidateIs, SettingsTyped DEF Local, Phase, TypeOK, Work
<1>3. o.lines = <<>> /\ o.dropped = 0 /\ (Timestamped => o.length = 0)
  BY <1>2 DEF Local, Opened
<1>4. len \in Nat /\ lines \in Seq(Entry) /\ length \in Nat /\ unflushed \in Nat
  <2>1. <<>> \in Seq(Entry)
    OBVIOUS
  <2>2. f.len \in Nat /\ f.lines \in Seq(Entry)
    BY <1>2 DEF File
  <2>3. o.length \in Nat /\ o.unflushed \in Nat
    BY <1>2 DEF Object
  <2>. QED BY <1>2, <2>1, <2>2, <2>3
<1>5. /\ Timestamped => len = f.len /\ lines = f.lines /\ f.len = 0 /\ length = HeaderLen
      /\ lines = f.lines \/ (~Timestamped /\ lines = <<>>)
  BY <1>1, <1>2, <1>3 DEF FilesInv, Absent
<1>6. n # NoName
  BY <1>2, NoNameIsNone DEF TypeOK
<1>5a. ~inexact => length = len + HeaderLen
  <2>1. CASE cut
    BY <1>2, <2>1
  <2>2. CASE ~cut /\ ~o.inexact /\ ~stale
    BY <1>1, <1>2, <2>2 DEF Local, Measured
  <2>. QED BY <2>1, <2>2
<1>5b. inexact \in BOOLEAN
  OBVIOUS
<1>. HIDE DEF n, cut, f, len, lines, length, unflushed, o, stale
<1>6a. created = [o EXCEPT !.file = n, !.length = length, !.unflushed = unflushed,
                           !.buffered = HeaderLen, !.inexact = inexact]
  BY DEF WithHeader, length, unflushed
<1>. HIDE DEF inexact
<1>. HIDE DEF created
<1>6b. /\ created \in Object /\ created.file = n /\ created.pid = p /\ created.length = length
       /\ created.lines = <<>> /\ created.buffered = HeaderLen /\ created.dropped = 0
       /\ created.inexact = inexact
  BY <1>2, <1>3, <1>4, <1>5b, <1>6a DEF Object
<1>7. /\ obj'[p] \in Object /\ obj'[p].file = n /\ obj'[p].pid = p /\ obj'[p].length = length
      /\ obj'[p].lines = <<>> /\ obj'[p].buffered = HeaderLen /\ obj'[p].dropped = 0
      /\ obj'[p].inexact = inexact
      /\ \A q \in Proc : q # p => obj'[q] = obj[q]
  BY <1>1, <1>6b DEF TypeOK
<1>8. /\ files' \in [Name -> File]
      /\ files'[n] = [exists |-> TRUE, len |-> len, lines |-> lines, lock |-> p]
      /\ \A m \in Name : m # n => files'[m] = files[m]
  BY <1>1, <1>2, <1>4 DEF TypeOK, File
<1>9. pc'[p] = "fwrite" /\ since'[p] = -1 /\ \A q \in Proc : q # p => pc'[q] = pc[q]
                                                                   /\ since'[q] = since[q]
  BY <1>1 DEF TypeOK
<1>10. TypeOK'
  BY <1>1, <1>7, <1>8, SettingsStay DEF TypeOK
<1>11. /\ LinesDistinct' /\ LinesOfOwner' /\ OnDisk(p)'
       /\ \A m \in Name : \A i \in DOMAIN files'[m].lines :
            \/ files'[m].lines[i][1] = p
            \/ \E j \in DOMAIN files[m].lines : files[m].lines[j] = files'[m].lines[i]
       /\ Timestamped =>
            \A m \in Name : \A j \in DOMAIN files[m].lines :
              \E i \in DOMAIN files'[m].lines : files'[m].lines[i] = files[m].lines[j]
  <2>. DEFINE s == <<>>
  <2>1. s \in Seq(Entry) /\ DOMAIN s = {} /\ \A m \in Name : Receives(p, m, NoName, s)
    BY <1>2, <1>5, <1>8 DEF Receives, f
  <2>. HIDE DEF s
  <2>. QED BY <1>1, <1>10, <2>1, LinesMove DEF Numbers
<1>12. Absent'
  BY <1>8, SettingsStay DEF FilesInv, Absent
<1>13. FrameOfFiles(p)
  BY <1>1, <1>2, <1>5, <1>8, <1>11, ProcAssumption DEF FrameOfFiles, f
<1>14. FilesInv' /\ Frame(p)
  BY <1>1, <1>7, <1>9, <1>11, <1>12, <1>13, SettingsStay DEF FilesInv, Frame, TypeOK
<1>15. HasFile(p)' /\ Owns(p)'
  BY <1>6, <1>7 DEF HasFile, Owns
<1>16. Phase(p)'
  BY <1>1, <1>2, <1>9, <1>15 DEF Phase
<1>17. Opened(p)'
  <2>1. next'[p] > 0
    BY <1>1, <1>2 DEF TypeOK
  <2>. QED BY <1>2, <1>7, <1>8, <1>15, <2>1, SettingsStay DEF Opened
<1>18. Buffer(p)'
  BY <1>7 DEF Buffer
<1>19. Kept(p)'
  BY <1>1, <1>3, <1>9, <1>10, <1>13, KeptStays DEF o
<1>20. Measured(p)' /\ LockHeld(p)'
  <2>1. /\ Timestamped' = Timestamped /\ DropMemory' = DropMemory
        /\ files'[n].len = len /\ files'[n].lock = p
    BY <1>8, SettingsStay
  <2>2. ~obj'[p].inexact => obj'[p].length = files'[n].len + obj'[p].buffered
    BY <1>5a, <1>7, <2>1
  <2>3. Measured(p)'
    BY <1>7, <1>9, <2>1, <2>2 DEF Measured
  <2>4. LockHeld(p)'
    BY <1>1, <1>7, <2>1 DEF LockHeld, Local
  <2>. QED BY <2>3, <2>4
<1>21. Drops(p)'
  <2>1. \A a \in advice[p] : /\ a.file \in Name /\ files[a.file].exists /\ files'[a.file].exists
                             /\ Timestamped => a.file # n
    BY <1>1, <1>8 DEF Local, Drops, TypeOK, Advice, f
  <2>. QED BY <1>1, <1>7, <2>1, SettingsStay DEF Local, Drops
<1>22. Attempts(p)'
  BY <1>9 DEF Attempts
<1>. QED BY <1>10, <1>11, <1>14, <1>16, <1>17, <1>18, <1>19, <1>20, <1>21, <1>22
     DEF Holds, Local

-----------------------------------------------------------------------------
(* The file is given up.                                                   *)

\* What holds of an object without a file.
Bare(o) ==
  /\ o.file = NoName /\ o.lines = <<>> /\ o.buffered = 0 /\ o.dropped = 0
  /\ Timestamped => o.length = 0

LEMMA BareKeeps ==
  ASSUME TypeOK, TypeOK', UNCHANGED settings, NEW p \in Proc, Local(p), FrameOfFiles(p),
         pc'[p] # "open",
         Bare(obj'[p]), advice'[p] \subseteq advice[p], next'[p] >= next[p],
         obj'[p].pid \in {obj[p].pid, NoProc} \/ (obj'[p].pid = p /\ next'[p] > 0),
         \A q \in Proc : q # p => next'[q] = next[q]
  PROVE  ~HasFile(p)' /\ Opened(p)' /\ Buffer(p)' /\ Measured(p)' /\ LockHeld(p)' /\ Drops(p)'
<1>1. /\ Timestamped' = Timestamped /\ Name' = Name /\ DropMemory' = DropMemory /\ Mebi' = Mebi
  BY SettingsStay
<1>2. ~HasFile(p)' /\ ~Owns(p)'
  BY DEF HasFile, Owns, Bare
<1>3. Opened(p)'
  <2>1. obj'[p].pid # NoProc => next'[obj'[p].pid] > 0
    <3>1. /\ obj[p].pid # NoProc => obj[p].pid \in Proc /\ next[obj[p].pid] > 0
          /\ \A q \in Proc : next[q] \in Nat /\ next'[q] \in Nat
      BY DEF TypeOK, Object, Local, Opened
    <3>. QED BY <3>1
  <2>. QED BY <1>1, <1>2, <2>1 DEF Opened, Bare
<1>4. Buffer(p)'
  BY <1>2 DEF Buffer, Bare
<1>5. Measured(p)' /\ LockHeld(p)'
  BY <1>1, <1>2 DEF Measured, LockHeld, Local
<1>6. Drops(p)'
  <2>1. \A a \in advice[p] : a.file \in Name /\ files'[a.file].exists
    BY DEF Local, Drops, FrameOfFiles, TypeOK, Advice
  <2>. QED BY <1>1, <1>2, <2>1 DEF Local, Drops, Bare
<1>. QED BY <1>2, <1>3, <1>4, <1>5, <1>6

\* The lines of a file that is closed or flushed reach it, unless a full disk takes
\* nothing.
LEMMA ClosedKept ==
  ASSUME TypeOK, TypeOK', UNCHANGED <<settings, full>>, FilesInv, NEW p \in Proc, Local(p),
         Numbers(p), OwnLocks(p), NEW o, Own(p, o), Stored(o, files'),
         p \notin trouble' => p \notin trouble,
         \/ next'[p] = next[p] + 1 /\ pc[p] = "idle" /\ pc'[p] # "idle"
         \/ next'[p] = next[p] /\ (pc[p] # "idle" => pc'[p] # "idle"),
         Unwritten(o) => p \in trouble'
  PROVE  Kept(p)'
<1>1. /\ FrameOfFiles(p)
      /\ ~Unwritten(o) =>
           \A i \in DOMAIN o.lines : \E n \in Name : \E j \in DOMAIN files'[n].lines :
             files'[n].lines[j] = o.lines[i]
  BY StoreOwn
<1>2. ASSUME p \notin trouble', NEW i \in DOMAIN obj[p].lines, obj[p].lines[i][1] = p
      PROVE  \/ \E n \in Name : \E j \in DOMAIN files'[n].lines :
                  files'[n].lines[j] = obj[p].lines[i]
             \/ \E j \in DOMAIN obj'[p].lines : obj'[p].lines[j] = obj[p].lines[i]
  <2>1. obj[p].pid = p /\ HasFile(p)
    BY <1>2 DEF Local, Buffer, Opened
  <2>2. o = obj[p]
    BY <2>1 DEF Own, Owns
  <2>. QED BY <1>1, <1>2, <2>2
<1>. QED BY <1>1, <1>2, KeptStays

LEMMA NewObjectIs ==
  ASSUME settings \in Settings
  PROVE  NewObject \in Object /\ Bare(NewObject) /\ NewObject.pid = NoProc
<1>1. Frequency - 1 \in Nat /\ <<>> \in Seq(Entry)
  BY SettingsTyped
<1>. QED BY <1>1 DEF NewObject, Object, Bare

\* The process is gone, with its locks.
LEMMA GoneKeeps ==
  ASSUME TypeOK, FilesInv, NEW p \in Proc, Local(p), TypeOK', FilesInv', FrameOfFiles(p),
         OnDisk(p)', p \in running, running' = running \ {p},
         obj' = [obj EXCEPT ![p] = NewObject], advice' = [advice EXCEPT ![p] = {}],
         pc'[p] = "idle", \A q \in Proc \ {p} : pc'[q] = pc[q] /\ work'[q] = work[q],
         UNCHANGED <<settings, next, since>>, Kept(p)',
         \A q \in Proc \ {p} : q \in trouble' <=> q \in trouble
  PROVE  Holds(p)
<1>1. settings \in Settings
  BY DEF TypeOK
<1>2. /\ obj'[p] = NewObject /\ advice'[p] = {}
      /\ \A q \in Proc \ {p} : obj'[q] = obj[q] /\ advice'[q] = advice[q]
  BY DEF TypeOK
<1>3. Frame(p)
  BY <1>2 DEF Frame, TypeOK
<1>4. Bare(obj'[p]) /\ obj'[p].pid = NoProc
  BY <1>1, <1>2, NewObjectIs
<1>5. ~HasFile(p)' /\ Opened(p)' /\ Buffer(p)' /\ Measured(p)' /\ LockHeld(p)' /\ Drops(p)'
  BY <1>2, <1>4, BareKeeps DEF TypeOK
<1>6. Phase(p)'
  BY <1>2, <1>5 DEF Local, Phase
<1>7. Attempts(p)'
  BY DEF Attempts
<1>. QED BY <1>3, <1>5, <1>6, <1>7 DEF Holds, Local

LEMMA CrashKeeps ==
  ASSUME TypeOK, FilesInv, NEW p \in Proc, Local(p), Crash(p), UNCHANGED settings
  PROVE  Holds(p)
<1>1. /\ p \in running /\ running' = running \ {p}
      /\ obj' = [obj EXCEPT ![p] = NewObject] /\ advice' = [advice EXCEPT ![p] = {}]
      /\ pc' = [pc EXCEPT ![p] = "idle"] /\ work' = [work EXCEPT ![p] = NoWork]
      /\ files' = [n \in Name |->
                     [files[n] EXCEPT !.lock = IF @ = p THEN NoProc ELSE @]]
      /\ trouble' = trouble \cup {p}
      /\ UNCHANGED <<stop, next, full, clock, since>>
  BY DEF Crash, Return
<1>2. /\ files' \in [Name -> File]
      /\ \A n \in Name :
           /\ files'[n].lines = files[n].lines /\ files'[n].len = files[n].len
           /\ files'[n].exists = files[n].exists
           /\ files'[n].lock # files[n].lock => files[n].lock = p
  BY <1>1 DEF TypeOK, File
<1>3. TypeOK'
  BY <1>1, <1>2, NewObjectIs, ReturnTyped, SettingsStay DEF TypeOK
<1>4. pc'[p] = "idle" /\ \A q \in Proc \ {p} : pc'[q] = pc[q] /\ work'[q] = work[q]
  BY <1>1 DEF TypeOK
<1>5. FilesInv' /\ FrameOfFiles(p) /\ OnDisk(p)'
  BY <1>1, <1>2, <1>3, <1>4, QuietFiles, ZenonT(30) DEF OwnLocks, Numbers
<1>6. Kept(p)' /\ \A q \in Proc \ {p} : q \in trouble' <=> q \in trouble
  BY <1>1 DEF Kept
<1>. QED BY <1>1, <1>3, <1>4, <1>5, <1>6, GoneKeeps

LEMMA ExitKeeps ==
  ASSUME TypeOK, FilesInv, NEW p \in Proc, Local(p), Exit(p), UNCHANGED settings
  PROVE  Holds(p)
<1>. DEFINE o == Discard(p, obj[p])
            F == Close(files, p, o)
<1>1. /\ p \in running /\ pc[p] = "idle" /\ running' = running \ {p}
      /\ obj' = [obj EXCEPT ![p] = NewObject] /\ advice' = [advice EXCEPT ![p] = {}]
      /\ files' = [n \in Name |-> [F[n] EXCEPT !.lock = IF @ = p THEN NoProc ELSE @]]
      /\ trouble' = trouble \cup Losers(p, o)
      /\ UNCHANGED <<work, pc, stop, next, full, clock, since>>
  BY DEF Exit, Idle, DiscardFiles
<1>2. Own(p, o)
  BY DiscardIs
<1>3. /\ F \in [Name -> File] /\ Stored(o, F)
      /\ \A n \in Name : F[n].lock = files[n].lock \/ (n = o.file /\ files[n].lock = p)
  BY <1>2, CloseStores DEF Own
<1>. HIDE DEF o, F
<1>4. /\ files' \in [Name -> File]
      /\ \A n \in Name :
           /\ files'[n].lines = F[n].lines /\ files'[n].len = F[n].len
           /\ files'[n].exists = F[n].exists
           /\ files'[n].lock # F[n].lock => F[n].lock = p
  BY <1>1, <1>3, ZenonT(30) DEF File
<1>5. Stored(o, files')
  BY <1>3, <1>4 DEF Stored
<1>6. OwnLocks(p)
  BY <1>3, <1>4 DEF OwnLocks
<1>6a. /\ trouble' \subseteq Proc /\ trouble \subseteq trouble' /\ (Unwritten(o) => p \in trouble')
       /\ \A q \in Proc \ {p} : q \in trouble' <=> q \in trouble
  BY <1>1 DEF Losers, TypeOK
<1>7. TypeOK'
  BY <1>1, <1>4, <1>6a, NewObjectIs, SettingsStay DEF TypeOK
<1>8. FilesInv' /\ FrameOfFiles(p) /\ OnDisk(p)'
  BY <1>1, <1>2, <1>5, <1>6, <1>7, StoreOwn DEF Numbers
<1>9. Kept(p)'
  BY <1>1, <1>2, <1>5, <1>6, <1>6a, <1>7, ClosedKept DEF Numbers
<1>. QED BY <1>1, <1>6a, <1>7, <1>8, <1>9, GoneKeeps

\* A child that is forked has not used the file of its parent.
LEMMA ForkKeeps ==
  ASSUME TypeOK, FilesInv, NEW p \in Proc, Local(p), NEW c \in Proc, Local(c), Fork(p, c),
         UNCHANGED settings
  PROVE  Holds(c)
<1>1. /\ p \in running /\ c \notin running /\ next[c] = 0
      /\ obj' = [obj EXCEPT ![c] = obj[p]] /\ stop' = [stop EXCEPT ![c] = stop[p]]
      /\ running' = running \cup {c}
      /\ trouble' = IF p \in trouble THEN trouble \cup {c} ELSE trouble
      /\ UNCHANGED <<work, pc, advice, next, files, full, clock, since>>
  BY DEF Fork, Idle
<1>2. /\ obj'[c] = obj[p] /\ \A q \in Proc : q # c => obj'[q] = obj[q]
      /\ obj' \in [Proc -> Object] /\ stop' \in [Proc -> BOOLEAN]
  BY <1>1 DEF TypeOK
<1>3. pc[c] = "idle" /\ advice[c] = {} /\ since[c] = -1
  BY <1>1 DEF Local, Phase
<1>4. TypeOK'
  BY <1>1, <1>2, SettingsStay DEF TypeOK
<1>5. FilesInv' /\ FrameOfFiles(c) /\ OnDisk(c)'
  BY <1>1, <1>4, QuietFiles DEF OwnLocks, Numbers
<1>6. Frame(c)
  BY <1>1, <1>2, <1>5 DEF Frame, TypeOK
<1>7. HasFile(c)' = HasFile(p) /\ ~Owns(c)'
  <2>1. obj[p].pid # c
    BY <1>1, ProcAssumption DEF Local, Opened
  <2>. QED BY <1>2, <2>1 DEF HasFile, Owns
<1>8. Phase(c)'
  BY <1>1, <1>3 DEF Phase
<1>9. Opened(c)'
  BY <1>1, <1>2, <1>7, SettingsStay DEF Local, Opened
<1>10. Buffer(c)'
  BY <1>2, <1>7 DEF Local, Buffer
<1>11. Kept(c)'
  <2>1. next'[c] = 0
    BY <1>1
  <2>. QED BY <2>1 DEF Kept
<1>12. Measured(c)' /\ LockHeld(c)'
  BY <1>1, <1>3, <1>7 DEF Measured, LockHeld
<1>13. Drops(c)'
  BY <1>1, <1>2, <1>3, <1>7, SettingsStay DEF Local, Drops
<1>14. Attempts(c)'
  BY <1>1, <1>3 DEF Attempts
<1>. QED BY <1>4, <1>5, <1>6, <1>8, <1>9, <1>10, <1>11, <1>12, <1>13, <1>14 DEF Holds, Local

\* Another name: the file is closed, and the next message creates one.
LEMMA SetBasenameKeeps ==
  ASSUME TypeOK, FilesInv, NEW p \in Proc, Local(p), NEW d \in Selectable, SetBasename(p, d),
         UNCHANGED settings
  PROVE  Holds(p)
<1>0. /\ p \in running /\ pc[p] = "idle" /\ settings \in Settings /\ d \in Dir \cup {NoDir}
      /\ UNCHANGED <<work, pc, stop, advice, next, running, full, clock>>
  BY SettingsTyped DEF SetBasename, Idle, TypeOK
<1>1. CASE obj[p].base = d
  <2>1. /\ obj' = [obj EXCEPT ![p].selected = TRUE] /\ UNCHANGED <<files, since, trouble>>
    BY <1>1 DEF SetBasename
  <2>2. /\ obj' \in [Proc -> Object] /\ \A q \in Proc : q # p => obj'[q] = obj[q]
        /\ obj'[p].file = obj[p].file /\ obj'[p].pid = obj[p].pid
        /\ obj'[p].length = obj[p].length /\ obj'[p].dropped = obj[p].dropped
        /\ obj'[p].attempt = obj[p].attempt /\ obj'[p].inexact = obj[p].inexact
        /\ obj'[p].lines = obj[p].lines /\ obj'[p].buffered = obj[p].buffered
    <3>. DEFINE o == [obj[p] EXCEPT !.selected = TRUE]
    <3>1. /\ o \in Object /\ o.file = obj[p].file /\ o.pid = obj[p].pid
          /\ o.length = obj[p].length /\ o.dropped = obj[p].dropped
          /\ o.attempt = obj[p].attempt /\ o.inexact = obj[p].inexact
          /\ o.lines = obj[p].lines /\ o.buffered = obj[p].buffered
      BY ZenonT(30) DEF TypeOK, Object
    <3>2. obj' = [obj EXCEPT ![p] = o]
      BY <2>1
    <3>. HIDE DEF o
    <3>. QED BY <3>1, <3>2 DEF TypeOK
  <2>3. TypeOK'
    BY <1>0, <2>1, <2>2, SettingsStay DEF TypeOK
  <2>4. FilesInv' /\ FrameOfFiles(p) /\ OnDisk(p)'
    BY <1>0, <2>1, <2>3, QuietFiles DEF OwnLocks, Numbers
  <2>5. Frame(p)
    BY <1>0, <2>1, <2>2, <2>4 DEF Frame, TypeOK
  <2>6. HasFile(p)' = HasFile(p) /\ Owns(p)' = Owns(p)
    BY <2>2 DEF HasFile, Owns
  <2>7. Phase(p)' /\ Opened(p)'
    BY <1>0, <2>1, <2>2, <2>6, SettingsStay DEF Local, Phase, Opened
  <2>8. Buffer(p)' /\ Kept(p)'
    BY <1>0, <2>1, <2>2, <2>3, <2>4, <2>6, BufferStays, KeptStays DEF Numbers
  <2>9. Measured(p)' /\ LockHeld(p)' /\ Attempts(p)'
    BY <1>0, <2>1, <2>2, <2>6, SettingsStay DEF Local, Measured, LockHeld, Attempts
  <2>10. Drops(p)'
    BY <1>0, <2>1, <2>2, <2>6, SettingsStay DEF Local, Drops
  <2>. QED BY <2>3, <2>4, <2>5, <2>7, <2>8, <2>9, <2>10 DEF Holds, Local
<1>2. CASE obj[p].base # d
  <2>. DEFINE o == Discard(p, obj[p])
              r == [Reset(o) EXCEPT !.selected = TRUE, !.base = d]
  <2>1. /\ obj' = [obj EXCEPT ![p] = r] /\ files' = Close(files, p, o)
        /\ since' = [since EXCEPT ![p] = -1]
        /\ trouble' = trouble \cup Losers(p, o)
    BY <1>2 DEF SetBasename, DiscardFiles
  <2>2. Own(p, o)
    BY DiscardIs
  <2>3. r \in Object /\ Bare(r) /\ r.pid = obj[p].pid
    <3>1. o \in Object /\ o.pid = obj[p].pid
      BY <2>2 DEF Own
    <3>. HIDE DEF o
    <3>. DEFINE R == Reset(o)
    <3>2. /\ R \in Object /\ R.file = NoName /\ R.lines = <<>> /\ R.buffered = 0
          /\ R.length = 0 /\ R.dropped = 0 /\ R.pid = obj[p].pid
      BY <1>0, <3>1, ResetIs
    <3>3. r = [R EXCEPT !.selected = TRUE, !.base = d]
      OBVIOUS
    <3>. HIDE DEF R, r
    <3>. QED BY <1>0, <3>2, <3>3 DEF Object, Bare
  <2>4. /\ files' \in [Name -> File] /\ Stored(o, files') /\ OwnLocks(p)
    BY <2>1, <2>2, CloseStores DEF Own, OwnLocks
  <2>. HIDE DEF o, r
  <2>5. /\ obj' \in [Proc -> Object] /\ obj'[p] = r /\ since'[p] = -1 /\ since' \in [Proc -> Int]
        /\ \A q \in Proc : q # p => obj'[q] = obj[q] /\ since'[q] = since[q]
    BY <2>1, <2>3 DEF TypeOK
  <2>6. /\ trouble' \subseteq Proc /\ trouble \subseteq trouble' /\ (Unwritten(o) => p \in trouble')
        /\ \A q \in Proc : q # p => (q \in trouble' <=> q \in trouble)
    BY <2>1 DEF Losers, TypeOK
  <2>7. TypeOK'
    BY <1>0, <2>4, <2>5, <2>6, SettingsStay DEF TypeOK
  <2>8. FilesInv' /\ FrameOfFiles(p) /\ OnDisk(p)'
    BY <1>0, <2>2, <2>4, <2>7, StoreOwn DEF Numbers
  <2>9. Frame(p)
    BY <1>0, <2>5, <2>6, <2>8 DEF Frame, TypeOK
  <2>10. ~HasFile(p)' /\ Opened(p)' /\ Buffer(p)' /\ Measured(p)' /\ LockHeld(p)' /\ Drops(p)'
    BY <1>0, <2>3, <2>5, <2>7, <2>8, BareKeeps DEF TypeOK
  <2>11. Phase(p)' /\ Attempts(p)'
    BY <1>0, <2>5, <2>10 DEF Phase, Attempts
  <2>12. Kept(p)'
    BY <1>0, <2>2, <2>4, <2>6, <2>7, ClosedKept DEF Numbers
  <2>. QED BY <2>7, <2>8, <2>9, <2>10, <2>11, <2>12 DEF Holds, Local
<1>. QED BY <1>1, <1>2

\* The buffer reaches the file, which stays open.
LEMMA FlushKeeps ==
  ASSUME TypeOK, FilesInv, NEW p \in Proc, Local(p), Flush(p), UNCHANGED settings
  PROVE  Holds(p)
<1>. DEFINE o == Discard(p, obj[p])
            r == Flushed(o)
<1>1. /\ p \in running /\ pc[p] = "idle" /\ settings \in Settings
      /\ obj' = [obj EXCEPT ![p] = r] /\ files' = Drain(files, o)
      /\ trouble' = trouble \cup Losers(p, o)
      /\ UNCHANGED <<work, pc, stop, advice, next, running, full, clock, since>>
  BY DEF Flush, Idle, DiscardFiles, TypeOK
<1>2. Own(p, o) /\ (~HasFile(p) => o = obj[p])
  BY DiscardIs
<1>3. /\ files' \in [Name -> File] /\ Stored(o, files')
      /\ \A n \in Name : files'[n].lock = files[n].lock
  BY <1>1, <1>2, DrainStores DEF Own
<1>4. /\ r \in Object /\ r.file = o.file /\ r.pid = o.pid /\ r.length = o.length
      /\ r.dropped = o.dropped /\ r.attempt = o.attempt
      /\ o.file = NoName => r.lines = o.lines /\ r.buffered = o.buffered
      /\ o.file # NoName => /\ r.lines = <<>> /\ r.buffered = 0
                            /\ ~r.inexact => ~o.inexact /\ ~Unwritten(o)
  <2>1. o \in Object
    BY <1>2 DEF Own
  <2>. HIDE DEF o
  <2>. QED BY <2>1, FlushedIs, DrainedIs
<1>. HIDE DEF o, r
<1>5. /\ obj' \in [Proc -> Object] /\ obj'[p] = r
      /\ \A q \in Proc : q # p => obj'[q] = obj[q]
  BY <1>1, <1>4 DEF TypeOK
<1>5a. /\ trouble' \subseteq Proc /\ trouble \subseteq trouble' /\ (Unwritten(o) => p \in trouble')
       /\ \A q \in Proc : q # p => (q \in trouble' <=> q \in trouble)
  BY <1>1 DEF Losers, TypeOK
<1>6. TypeOK' /\ OwnLocks(p)
  BY <1>1, <1>3, <1>5, <1>5a, SettingsStay DEF TypeOK, OwnLocks
<1>7. FilesInv' /\ FrameOfFiles(p) /\ OnDisk(p)'
  BY <1>1, <1>2, <1>3, <1>6, StoreOwn DEF Numbers
<1>8. Frame(p)
  BY <1>1, <1>5, <1>5a, <1>7 DEF Frame, TypeOK
<1>9. Kept(p)'
  BY <1>1, <1>2, <1>3, <1>5a, <1>6, ClosedKept DEF Numbers
<1>10. Attempts(p)'
  BY <1>1, <1>2, <1>4, <1>5, SettingsStay DEF Local, Attempts, HasFile
<1>11. CASE o.file = NoName
  <2>1. Bare(obj'[p]) /\ obj'[p].pid = obj[p].pid
    BY <1>2, <1>4, <1>5, <1>11 DEF Own, Bare
  <2>2. ~HasFile(p)' /\ Opened(p)' /\ Buffer(p)' /\ Measured(p)' /\ LockHeld(p)' /\ Drops(p)'
    BY <1>1, <1>6, <1>7, <2>1, BareKeeps DEF TypeOK
  <2>3. Phase(p)'
    BY <1>1, <2>2 DEF Local, Phase
  <2>. QED BY <1>6, <1>7, <1>8, <1>9, <1>10, <2>2, <2>3 DEF Holds, Local
<1>12. CASE o.file # NoName
  <2>1. o = obj[p] /\ Owns(p) /\ HasFile(p) /\ obj[p].file \in Name
    BY <1>2, <1>12 DEF Own, Owns, HasFile, TypeOK, Object
  <2>2. HasFile(p)' /\ Owns(p)' /\ obj'[p].file = obj[p].file /\ obj'[p].pid = obj[p].pid
        /\ obj'[p].length = obj[p].length /\ obj'[p].dropped = obj[p].dropped
    BY <1>4, <1>5, <2>1 DEF HasFile, Owns
  <2>3. \A n \in Name : files'[n].exists = files[n].exists
    BY <1>3 DEF Stored
  <2>4. Phase(p)' /\ Opened(p)'
    BY <1>1, <2>1, <2>2, <2>3, SettingsStay DEF Local, Phase, Opened
  <2>5. Buffer(p)'
    BY <1>1, <1>4, <1>5, <1>6, <1>12, BufferStays DEF Numbers
  <2>6. Measured(p)'
    <3>1. /\ files[obj[p].file].len \in Nat /\ obj[p].buffered \in Nat
          /\ r.buffered = 0
      BY <1>4, <1>12, <2>1 DEF TypeOK, File, Object
    <3>2. ~r.inexact => /\ ~obj[p].inexact
                        /\ files'[obj[p].file].len = files[obj[p].file].len + obj[p].buffered
      BY <1>3, <1>4, <1>12, <2>1 DEF Stored
    <3>. QED BY <1>1, <1>5, <2>1, <2>2, <3>1, <3>2, SettingsStay DEF Local, Measured
  <2>7. LockHeld(p)'
    BY <1>1, <1>3, <2>1, <2>2, SettingsStay DEF Local, LockHeld
  <2>8. Drops(p)'
    <3>1. \A a \in advice[p] : a.file \in Name
      BY DEF TypeOK, Advice
    <3>. QED BY <1>1, <2>1, <2>2, <2>3, <3>1, SettingsStay DEF Local, Drops
  <2>. QED BY <1>6, <1>7, <1>8, <1>9, <1>10, <2>4, <2>5, <2>6, <2>7, <2>8 DEF Holds, Local
<1>. QED BY <1>11, <1>12

-----------------------------------------------------------------------------
(* A message.                                                              *)

LEMMA BeginWriteKeeps ==
  ASSUME TypeOK, FilesInv, NEW p \in Proc, Local(p), NEW force \in {FALSE, MayForce},
         BeginWrite(p, force), UNCHANGED settings
  PROVE  Holds(p)
<1>. DEFINE o == Discard(p, obj[p])
            r == IF Oversize(o.length) THEN Reset(o) ELSE o
            retried == [r EXCEPT !.attempt = @ + 1]
            created == [r EXCEPT !.attempt = 0, !.pid = p]
            todo == IF r.selected THEN <<r.base>> ELSE Defaults
            lost == IF Oversize(o.length) THEN Losers(p, o) ELSE {}
<1>1. /\ p \in running /\ pc[p] = "idle" /\ next' = [next EXCEPT ![p] = @ + 1]
      /\ ~(obj[p].selected /\ obj[p].base = NoDir)
      /\ files' = IF Oversize(o.length) THEN Close(files, p, o) ELSE files
      /\ UNCHANGED <<stop, advice, running, full, clock>>
  BY DEF BeginWrite, Idle, DiscardFiles
<1>2. \/ /\ r.file # NoName
         /\ obj' = [obj EXCEPT ![p] = r] /\ pc' = [pc EXCEPT ![p] = "fwrite"]
         /\ work' = [work EXCEPT ![p] = [NoWork EXCEPT !.force = force]]
         /\ UNCHANGED <<trouble, since>>
      \/ /\ r.file = NoName
         /\ obj' = [obj EXCEPT ![p] = retried] /\ trouble' = trouble \cup {p}
         /\ since' = [since EXCEPT ![p] = IF @ < 0 THEN @ ELSE @ + 1]
         /\ UNCHANGED <<pc, work>>
      \/ /\ r.file = NoName
         /\ obj' = [obj EXCEPT ![p] = created] /\ pc' = [pc EXCEPT ![p] = "stat"]
         /\ work' = [work EXCEPT ![p] = [todo |-> todo, size |-> 0, truncate |-> FALSE,
                                         force |-> force, stamp |-> clock]]
         /\ trouble' = trouble \cup lost
         /\ UNCHANGED since
  BY DEF BeginWrite, DiscardFiles
<1>3. settings \in Settings /\ force \in BOOLEAN
  BY SettingsTyped DEF TypeOK
<1>4. /\ Own(p, o) /\ (~HasFile(p) => o = obj[p])
      /\ o.base = obj[p].base /\ o.selected = obj[p].selected
  BY DiscardIs
<1>. HIDE DEF o
<1>5. /\ r \in Object /\ r.pid = obj[p].pid
      /\ r.base = obj[p].base /\ r.selected = obj[p].selected
      /\ r.file # NoName => r = o /\ ~Oversize(o.length)
      /\ r.file = NoName => Bare(r)
      /\ Timestamped /\ ~HasFile(p) => r = obj[p]
  <2>1. o \in Object /\ o.pid = obj[p].pid
    BY <1>4 DEF Own
  <2>2. CASE Oversize(o.length)
    <3>1. ~(Timestamped /\ ~HasFile(p))
      <4>1. SUFFICES ASSUME Timestamped, ~HasFile(p) PROVE FALSE
        OBVIOUS
      <4>2. o.length = 0
        BY <1>4, <4>1 DEF Own, HasFile
      <4>. QED BY <1>3, <2>2, <4>2, EmptyIsShort
    <3>2. /\ Reset(o) \in Object /\ Reset(o).file = NoName /\ Reset(o).lines = <<>>
          /\ Reset(o).buffered = 0 /\ Reset(o).length = 0 /\ Reset(o).dropped = 0
          /\ Reset(o).pid = o.pid /\ Reset(o).base = o.base
          /\ Reset(o).selected = o.selected
      BY <1>3, <2>1, ResetIs
    <3>. QED BY <1>4, <2>1, <2>2, <3>1, <3>2 DEF Bare
  <2>3. CASE ~Oversize(o.length)
    BY <1>4, <2>1, <2>3 DEF Own, Bare
  <2>. QED BY <2>2, <2>3
<1>6. /\ files' \in [Name -> File] /\ OwnLocks(p)
      /\ Oversize(o.length) => Stored(o, files')
      /\ ~Oversize(o.length) => files' = files
  <2>1. CASE Oversize(o.length)
    BY <1>1, <1>4, <2>1, CloseStores DEF Own, OwnLocks
  <2>2. CASE ~Oversize(o.length)
    BY <1>1, <2>2 DEF OwnLocks, TypeOK
  <2>. QED BY <2>1, <2>2
<1>. HIDE DEF r
<1>7. /\ retried \in Object /\ (r.file = NoName => Bare(retried))
      /\ retried.pid = obj[p].pid /\ retried.attempt = r.attempt + 1
  <2>1. r.attempt + 1 \in Nat
    BY <1>5 DEF Object
  <2>. QED BY <1>5, <2>1 DEF Object, Bare
<1>8. /\ created \in Object /\ (r.file = NoName => Bare(created))
      /\ created.pid = p /\ created.attempt = 0
  BY <1>5 DEF Object, Bare
<1>9. todo \in Seq(Dir) /\ todo # <<>>
  <2>1. r.selected => r.base \in Dir
    BY <1>1, <1>5 DEF Object
  <2>2. CASE r.selected
    BY <2>1, <2>2
  <2>3. CASE ~r.selected
    BY <1>3, <2>3, SettingsTyped
  <2>. QED BY <2>2, <2>3
<1>10. lost \subseteq {p} /\ (Unwritten(o) /\ Oversize(o.length) => p \in lost)
  BY DEF Losers
<1>. HIDE DEF retried, created, todo, lost
<1>11. /\ next' \in [Proc -> Nat] /\ next'[p] = next[p] + 1 /\ next'[p] > 0
       /\ next'[p] >= next[p] /\ \A q \in Proc : q # p => next'[q] = next[q]
  BY <1>1 DEF TypeOK
<1>12. /\ obj' \in [Proc -> Object] /\ work' \in [Proc -> Work]
       /\ pc' \in [Proc -> {"idle", "stat", "open", "fwrite"}]
       /\ trouble' \subseteq Proc /\ trouble \subseteq trouble' /\ since' \in [Proc -> Int]
       /\ \A q \in Proc : q # p =>
            /\ obj'[q] = obj[q] /\ work'[q] = work[q] /\ pc'[q] = pc[q] /\ since'[q] = since[q]
            /\ (q \in trouble' <=> q \in trouble)
       /\ \/ /\ r.file # NoName /\ obj'[p] = r /\ pc'[p] = "fwrite" /\ since'[p] = since[p]
             /\ trouble' = trouble
          \/ /\ r.file = NoName /\ obj'[p] = retried /\ pc'[p] = "idle" /\ p \in trouble'
             /\ since'[p] = IF since[p] < 0 THEN since[p] ELSE since[p] + 1
          \/ /\ r.file = NoName /\ obj'[p] = created /\ pc'[p] = "stat"
             /\ work'[p].todo = todo /\ since'[p] = since[p] /\ lost \subseteq trouble'
  <2>1. CASE /\ r.file # NoName
             /\ obj' = [obj EXCEPT ![p] = r] /\ pc' = [pc EXCEPT ![p] = "fwrite"]
             /\ work' = [work EXCEPT ![p] = [NoWork EXCEPT !.force = force]]
             /\ UNCHANGED <<trouble, since>>
    <3>. DEFINE w == [NoWork EXCEPT !.force = force]
    <3>1. w \in Work
      BY <1>3, ReturnTyped DEF Work
    <3>2. work' = [work EXCEPT ![p] = w]
      BY <2>1
    <3>. HIDE DEF w
    <3>. QED BY <1>5, <2>1, <3>1, <3>2 DEF TypeOK
  <2>2. CASE /\ r.file = NoName
             /\ obj' = [obj EXCEPT ![p] = retried] /\ trouble' = trouble \cup {p}
             /\ since' = [since EXCEPT ![p] = IF @ < 0 THEN @ ELSE @ + 1]
             /\ UNCHANGED <<pc, work>>
    <3>1. /\ since' \in [Proc -> Int] /\ \A q \in Proc : q # p => since'[q] = since[q]
          /\ since'[p] = IF since[p] < 0 THEN since[p] ELSE since[p] + 1
      BY <2>2 DEF TypeOK
    <3>. QED BY <1>1, <1>7, <2>2, <3>1 DEF TypeOK
  <2>3. CASE /\ r.file = NoName
             /\ obj' = [obj EXCEPT ![p] = created] /\ pc' = [pc EXCEPT ![p] = "stat"]
             /\ work' = [work EXCEPT ![p] = [todo |-> todo, size |-> 0, truncate |-> FALSE,
                                             force |-> force, stamp |-> clock]]
             /\ trouble' = trouble \cup lost
             /\ UNCHANGED since
    <3>. DEFINE w == [todo |-> todo, size |-> 0, truncate |-> FALSE, force |-> force,
                      stamp |-> clock]
    <3>1. w \in Work /\ w.todo = todo
      BY <1>3, <1>9 DEF Work, TypeOK
    <3>2. work' = [work EXCEPT ![p] = w]
      BY <2>3
    <3>. HIDE DEF w
    <3>3. /\ work' \in [Proc -> Work] /\ work'[p].todo = todo
          /\ \A q \in Proc : q # p => work'[q] = work[q]
      BY <3>1, <3>2 DEF TypeOK
    <3>4. /\ trouble' \subseteq Proc /\ trouble \subseteq trouble' /\ lost \subseteq trouble'
          /\ \A q \in Proc : q # p => (q \in trouble' <=> q \in trouble)
      BY <1>10, <2>3 DEF TypeOK
    <3>. QED BY <1>8, <2>3, <3>3, <3>4 DEF TypeOK
  <2>. QED BY <1>2, <2>1, <2>2, <2>3
<1>13. TypeOK' /\ Numbers(p)
  BY <1>1, <1>3, <1>6, <1>11, <1>12, SettingsStay DEF TypeOK, Numbers
<1>14. FilesInv' /\ FrameOfFiles(p) /\ OnDisk(p)'
  <2>1. CASE Oversize(o.length)
    BY <1>1, <1>4, <1>6, <1>13, <2>1, StoreOwn
  <2>2. CASE ~Oversize(o.length)
    BY <1>1, <1>6, <1>13, <2>2, QuietFiles
  <2>. QED BY <2>1, <2>2
<1>15. Frame(p)
  BY <1>1, <1>11, <1>12, <1>14 DEF Frame, TypeOK
<1>16. CASE /\ r.file # NoName /\ obj'[p] = r /\ pc'[p] = "fwrite" /\ since'[p] = since[p]
            /\ trouble' = trouble
  <2>1. /\ obj'[p] = obj[p] /\ Owns(p) /\ HasFile(p) /\ files' = files
    BY <1>4, <1>5, <1>6, <1>16 DEF Own, HasFile
  <2>2. HasFile(p)' = HasFile(p) /\ Owns(p)' = Owns(p)
    BY <2>1 DEF HasFile, Owns
  <2>3. Phase(p)'
    BY <1>1, <1>11, <1>16, <2>1, <2>2 DEF Phase
  <2>4. Opened(p)'
    BY <1>11, <2>1, <2>2, SettingsStay DEF Local, Opened, Owns
  <2>5. Buffer(p)'
    BY <1>13, <2>1, <2>2, BufferStays
  <2>6. Kept(p)'
    BY <1>1, <1>11, <1>13, <1>14, <1>16, <2>1, KeptStays
  <2>7. Measured(p)' /\ LockHeld(p)' /\ Drops(p)'
    BY <1>1, <1>16, <2>1, <2>2, SettingsStay DEF Local, Measured, LockHeld, Drops
  <2>8. Attempts(p)'
    BY <1>1, <1>16, <2>1, SettingsStay DEF Local, Attempts
  <2>. QED BY <1>13, <1>14, <1>15, <2>3, <2>4, <2>5, <2>6, <2>7, <2>8 DEF Holds, Local
<1>17. CASE /\ r.file = NoName /\ obj'[p] = retried /\ pc'[p] = "idle" /\ p \in trouble'
            /\ since'[p] = IF since[p] < 0 THEN since[p] ELSE since[p] + 1
  <2>1. Bare(obj'[p]) /\ obj'[p].pid = obj[p].pid
    BY <1>7, <1>17
  <2>2. ~HasFile(p)' /\ Opened(p)' /\ Buffer(p)' /\ Measured(p)' /\ LockHeld(p)' /\ Drops(p)'
    BY <1>1, <1>11, <1>13, <1>14, <1>17, <2>1, BareKeeps
  <2>3. Phase(p)' /\ Kept(p)'
    BY <1>1, <1>11, <1>17, <2>2 DEF Phase, Kept
  <2>4. Attempts(p)'
    <3>1. SUFFICES ASSUME Timestamped, since'[p] # -1
                   PROVE  since'[p] >= 0 /\ obj'[p].attempt = since'[p]
      BY <1>17, <2>2, SettingsStay DEF Attempts
    <3>2. since[p] # -1 /\ since[p] \in Int
      BY <1>17, <3>1 DEF TypeOK
    <3>3. ~HasFile(p) /\ since[p] >= 0 /\ obj[p].attempt = since[p]
      BY <1>1, <3>1, <3>2 DEF Local, Attempts
    <3>. QED BY <1>5, <1>7, <1>17, <3>1, <3>2, <3>3
  <2>. QED BY <1>13, <1>14, <1>15, <2>2, <2>3, <2>4 DEF Holds, Local
<1>18. CASE /\ r.file = NoName /\ obj'[p] = created /\ pc'[p] = "stat"
            /\ work'[p].todo = todo /\ since'[p] = since[p] /\ lost \subseteq trouble'
  <2>1. Bare(obj'[p]) /\ obj'[p].pid = p /\ obj'[p].attempt = 0
    BY <1>8, <1>18
  <2>2. ~HasFile(p)' /\ Opened(p)' /\ Buffer(p)' /\ Measured(p)' /\ LockHeld(p)' /\ Drops(p)'
    BY <1>1, <1>11, <1>13, <1>14, <1>18, <2>1, BareKeeps
  <2>3. Phase(p)'
    BY <1>1, <1>9, <1>11, <1>18, <2>1, <2>2 DEF Phase
  <2>4. Attempts(p)'
    BY <1>1, <1>18, <2>2, SettingsStay DEF Local, Attempts
  <2>5. Kept(p)'
    <3>1. CASE Oversize(o.length)
      BY <1>1, <1>4, <1>6, <1>10, <1>11, <1>12, <1>13, <1>18, <3>1, ClosedKept
    <3>2. CASE ~Oversize(o.length)
      <4>1. o.file = NoName
        BY <1>18, <3>2 DEF r
      <4>2. \A i \in DOMAIN obj[p].lines : obj[p].lines[i][1] # p
        <5>1. CASE HasFile(p)
          BY <1>4, <4>1, <5>1 DEF Own, Owns, Local, Buffer
        <5>2. CASE ~HasFile(p)
          BY <5>2 DEF Local, Opened
        <5>. QED BY <5>1, <5>2
      <4>. QED BY <1>1, <1>11, <1>12, <1>13, <1>14, <1>18, <4>2, KeptStays
    <3>. QED BY <3>1, <3>2
  <2>. QED BY <1>13, <1>14, <1>15, <2>2, <2>3, <2>4, <2>5 DEF Holds, Local
<1>. QED BY <1>12, <1>16, <1>17, <1>18

\* What FinishWrite does: the pages are dropped from the end of those that have
\* been, or not at all.
Advises(p, file, from, len) ==
  \/ advice'[p] = advice[p] /\ obj'[p].dropped = from
  \/ /\ DropMemory /\ obj'[p].dropped = DropLength(len)
     /\ DropLength(len) - from >= 2 * Mebi
     /\ advice'[p] \subseteq
          advice[p] \cup {[file |-> file, from |-> from, to |-> DropLength(len), len |-> len]}

LEMMA FinishIs ==
  ASSUME TypeOK, NEW p \in Proc, NEW o \in Object, o.file \in Name,
         NEW F \in [Name -> File], FinishWrite(p, o, F)
  PROVE  /\ obj' \in [Proc -> Object] /\ files' \in [Name -> File]
         /\ advice' \in [Proc -> SUBSET Advice]
         /\ \A q \in Proc : q # p => obj'[q] = obj[q] /\ advice'[q] = advice[q]
         /\ obj'[p].file = o.file /\ obj'[p].pid = o.pid /\ obj'[p].length = o.length
         /\ \/ /\ files' = F /\ obj'[p].lines = o.lines /\ obj'[p].buffered = o.buffered
               /\ obj'[p].inexact = o.inexact
            \/ /\ MustFlush(p, o)
               /\ files' = Drain(F, o) /\ obj'[p].lines = Drained(o).lines
               /\ obj'[p].buffered = Drained(o).buffered
               /\ obj'[p].inexact = Drained(o).inexact
         /\ Advises(p, o.file, o.dropped, o.length)
<1>1. CASE ~MustFlush(p, o)
  <2>1. obj' = [obj EXCEPT ![p] = o] /\ files' = F /\ advice' = advice
    BY <1>1 DEF FinishWrite
  <2>. QED BY <2>1 DEF TypeOK, Advises
<1>2. CASE MustFlush(p, o)
  <2>. DEFINE d == Flushed(o)
              drop == [file |-> d.file, from |-> d.dropped,
                       to |-> DropLength(d.length), len |-> d.length]
              e == [d EXCEPT !.dropped = DropLength(d.length)]
  <2>1. /\ files' = Drain(F, o)
        /\ \/ /\ MayDrop(d) /\ obj' = [obj EXCEPT ![p] = e]
              /\ \E dup \in {{}, {drop}} : advice' = [advice EXCEPT ![p] = @ \cup dup]
           \/ obj' = [obj EXCEPT ![p] = d] /\ advice' = advice
    BY <1>2 DEF FinishWrite
  <2>2. /\ d \in Object /\ d.file = o.file /\ d.pid = o.pid /\ d.length = o.length
        /\ d.dropped = o.dropped /\ d.lines = Drained(o).lines
        /\ d.buffered = Drained(o).buffered /\ d.inexact = Drained(o).inexact
    BY FlushedIs
  <2>3. files' \in [Name -> File]
    BY <2>1, DrainIs
  <2>4. DropLength(o.length) \in Int /\ o.length \in Nat /\ o.dropped \in Int
    BY DropLengthBounds DEF TypeOK, Object
  <2>. HIDE DEF d
  <2>5. /\ e \in Object /\ e.file = o.file /\ e.pid = o.pid /\ e.length = o.length
        /\ e.dropped = DropLength(o.length) /\ e.lines = d.lines /\ e.buffered = d.buffered
        /\ e.inexact = d.inexact
    BY <2>2, <2>4 DEF Object
  <2>6. /\ drop \in Advice
        /\ drop = [file |-> o.file, from |-> o.dropped, to |-> DropLength(o.length),
                   len |-> o.length]
    BY <2>2, <2>4 DEF Advice
  <2>. HIDE DEF drop, e
  <2>7. CASE /\ MayDrop(d) /\ obj' = [obj EXCEPT ![p] = e]
             /\ \E dup \in {{}, {drop}} : advice' = [advice EXCEPT ![p] = @ \cup dup]
    <3>1. /\ obj' \in [Proc -> Object] /\ obj'[p] = e
          /\ \A q \in Proc : q # p => obj'[q] = obj[q]
      BY <2>5, <2>7 DEF TypeOK
    <3>2. /\ advice' \in [Proc -> SUBSET Advice] /\ advice'[p] \subseteq advice[p] \cup {drop}
          /\ \A q \in Proc : q # p => advice'[q] = advice[q]
      BY <2>6, <2>7 DEF TypeOK
    <3>3. DropMemory /\ DropLength(o.length) - o.dropped >= 2 * Mebi
      BY <2>2, <2>7 DEF MayDrop
    <3>4. Advises(p, o.file, o.dropped, o.length)
      BY <2>5, <2>6, <3>1, <3>2, <3>3 DEF Advises
    <3>. QED BY <1>2, <2>1, <2>2, <2>3, <2>5, <3>1, <3>2, <3>4
  <2>8. CASE obj' = [obj EXCEPT ![p] = d] /\ advice' = advice
    BY <1>2, <2>1, <2>2, <2>3, <2>8 DEF TypeOK, Advises
  <2>. QED BY <2>1, <2>7, <2>8
<1>. QED BY <1>1, <1>2

LEMMA FinishKeeps ==
  ASSUME TypeOK, TypeOK', UNCHANGED <<settings, next, running, since>>,
         NEW p \in Proc, Local(p), p \in running, pc[p] = "fwrite", pc'[p] = "idle",
         obj'[p].file = obj[p].file, obj'[p].pid = obj[p].pid,
         obj'[p].length = obj[p].length + MsgLen,
         Advises(p, obj[p].file, obj[p].dropped, obj[p].length + MsgLen),
         \A n \in Name : files'[n].exists = files[n].exists /\ files'[n].lock = files[n].lock
  PROVE  Phase(p)' /\ Opened(p)' /\ LockHeld(p)' /\ Drops(p)' /\ Attempts(p)'
<1>. DEFINE file == obj[p].file
            from == obj[p].dropped
            len == obj[p].length + MsgLen
            to == DropLength(len)
            new == [file |-> file, from |-> from, to |-> to, len |-> len]
<1>1. /\ Timestamped' = Timestamped /\ DropMemory' = DropMemory /\ Mebi' = Mebi
      /\ \A l : DropLength(l)' = DropLength(l)
  BY SettingsStay
<1>2. /\ HasFile(p)' = HasFile(p) /\ Owns(p)' = Owns(p) /\ Owns(p) /\ HasFile(p)
      /\ file \in Name
  BY DEF HasFile, Owns, Local, Phase, TypeOK, Object
<1>3. Phase(p)' /\ Opened(p)'
  BY <1>1, <1>2 DEF Local, Phase, Opened
<1>4. LockHeld(p)'
  BY <1>1, <1>2 DEF Local, LockHeld, Advises
<1>5. Attempts(p)'
  BY <1>1 DEF Local, Attempts
<1>6. /\ MsgLen \in Nat /\ Mebi \in Nat \ {0} /\ obj[p].length \in Nat /\ from \in Int
      /\ len \in Nat
  <2>1. MsgLen \in Nat /\ Mebi \in Nat \ {0}
    BY SettingsTyped DEF TypeOK
  <2>2. obj[p].length \in Nat /\ from \in Int
    BY DEF TypeOK, Object
  <2>. QED BY <2>1, <2>2
<1>7. to \in Int /\ to + Mebi <= len /\ DropLength(obj[p].length) <= to
      /\ DropLength(obj[p].length) \in Int
  BY <1>6, DropLengthBounds DEF TypeOK
<1>8. /\ 0 <= from /\ (from > 0 => from <= DropLength(obj[p].length))
      /\ \A a \in advice[p] :
           /\ a.from < a.to /\ a.to + Mebi <= a.len /\ files'[a.file].exists
           /\ Timestamped /\ a.file = file => a.to <= from
      /\ Timestamped => \A a, b \in advice[p] :
           a # b /\ a.file = b.file => a.to <= b.from \/ b.to <= a.from
      /\ files'[file].exists
  BY <1>2 DEF Local, Drops, Opened, TypeOK, Advice
<1>9. advice[p] \subseteq Advice
  BY DEF TypeOK
<1>. HIDE DEF to, len
<1>10. CASE advice'[p] = advice[p] /\ obj'[p].dropped = from
  <2>1. from > 0 => from <= to
    BY <1>6, <1>7, <1>8
  <2>. QED BY <1>1, <1>2, <1>3, <1>4, <1>5, <1>8, <1>10, <2>1 DEF Drops, to, len
<1>11. CASE obj'[p].dropped = to /\ to - from >= 2 * Mebi
            /\ advice'[p] \subseteq advice[p] \cup {new}
  <2>1. from < to /\ 0 <= to
    BY <1>6, <1>7, <1>8, <1>11
  <2>2. /\ new.file = file /\ new.from = from /\ new.to = to /\ new.len = len
    OBVIOUS
  <2>. HIDE DEF new
  <2>3. \A a \in advice'[p] : a \in advice[p] \/ a = new
    BY <1>11
  <2>4. \A a \in advice'[p] : a.from < a.to /\ a.to + Mebi <= a.len /\ files'[a.file].exists
    BY <1>7, <1>8, <2>1, <2>2, <2>3
  <2>5. Timestamped => \A a \in advice'[p] : a.file = file => a.to <= to
    <3>1. \A a \in advice[p] : a.to \in Int
      BY <1>9 DEF Advice
    <3>. QED BY <1>6, <1>7, <1>8, <2>1, <2>2, <2>3, <3>1
  <2>6. Timestamped => \A a, b \in advice'[p] :
          a # b /\ a.file = b.file => a.to <= b.from \/ b.to <= a.from
    BY <1>8, <2>2, <2>3
  <2>7. /\ Mebi' = Mebi /\ Timestamped' = Timestamped /\ obj'[p].file = file
        /\ DropLength(obj[p].length)' = to
    BY <1>1 DEF to, len
  <2>8. Drops(p)'
    BY <1>7, <1>11, <2>1, <2>4, <2>5, <2>6, <2>7 DEF Drops
  <2>. QED BY <1>3, <1>4, <1>5, <2>8
<1>. QED BY <1>10, <1>11 DEF Advises, to, len

\* s and t are the lines of L and then x.
Split(L, x, s, t) == s \o t = Append(L, x)

\* Each line is once in one of them.
Divided(L, x, s, t) ==
  /\ \A i, j \in DOMAIN s : s[i] = s[j] => i = j
  /\ \A i, j \in DOMAIN t : t[i] = t[j] => i = j
  /\ \A i \in DOMAIN s : \A j \in DOMAIN t : s[i] # t[j]
  /\ \A i \in DOMAIN s : s[i] = x \/ \E k \in DOMAIN L : s[i] = L[k]
  /\ \A i \in DOMAIN t : t[i] = x \/ \E k \in DOMAIN L : t[i] = L[k]
  /\ (\E i \in DOMAIN s : s[i] = x) \/ (\E i \in DOMAIN t : t[i] = x)
  /\ \A k \in DOMAIN L :
       (\E i \in DOMAIN s : s[i] = L[k]) \/ (\E i \in DOMAIN t : t[i] = L[k])

\* File n gets the lines s, and nothing else changes but locks.
Stores(n, s) ==
  /\ files'[n].lines = files[n].lines \o s
  /\ \A m \in Name :
       /\ files'[m].exists = files[m].exists
       /\ m # n => files'[m].lines = files[m].lines /\ files'[m].len = files[m].len

LEMMA AppendIs ==
  ASSUME NEW S, NEW L \in Seq(S), NEW x \in S
  PROVE  /\ Append(L, x) \in Seq(S) /\ Len(L) \in Nat
         /\ DOMAIN L = 1 .. Len(L) /\ DOMAIN Append(L, x) = 1 .. (Len(L) + 1)
         /\ Append(L, x)[Len(L) + 1] = x
         /\ \A i \in DOMAIN L : Append(L, x)[i] = L[i]
OBVIOUS

LEMMA SplitIs ==
  ASSUME NEW L \in Seq(Entry), NEW x \in Entry, NEW s \in Seq(Entry), NEW t \in Seq(Entry),
         Split(L, x, s, t),
         \A i, j \in DOMAIN L : L[i] = L[j] => i = j, \A i \in DOMAIN L : L[i] # x
  PROVE  Divided(L, x, s, t)
<1>. DEFINE all == Append(L, x)
            b == Len(s)
            c == Len(L)
<1>1. /\ c \in Nat /\ DOMAIN L = 1 .. c /\ DOMAIN all = 1 .. (c + 1)
      /\ all[c + 1] = x /\ \A i \in DOMAIN L : all[i] = L[i]
  BY AppendIs
<1>2. /\ b \in Nat /\ DOMAIN s = 1 .. b /\ DOMAIN t = 1 .. Len(t) /\ Len(t) \in Nat
      /\ \A i \in DOMAIN s : i \in DOMAIN (s \o t) /\ (s \o t)[i] = s[i]
      /\ \A i \in DOMAIN t : b + i \in DOMAIN (s \o t) /\ (s \o t)[b + i] = t[i]
      /\ \A i \in DOMAIN (s \o t) :
           \/ i \in DOMAIN s
           \/ i - b \in DOMAIN t /\ (s \o t)[i] = t[i - b]
  BY Concatenation
<1>3. s \o t = all
  BY DEF Split
<1>. HIDE DEF all, b, c
<1>4. /\ \A i \in DOMAIN s : i \in DOMAIN all /\ all[i] = s[i]
      /\ \A i \in DOMAIN t : b + i \in DOMAIN all /\ all[b + i] = t[i]
      /\ \A i \in DOMAIN all : i \in DOMAIN s \/ (i - b \in DOMAIN t /\ all[i] = t[i - b])
  BY <1>2, <1>3
<1>5. \A i \in DOMAIN all : (i \in DOMAIN L /\ all[i] = L[i]) \/ (i = c + 1 /\ all[i] = x)
  BY <1>1
<1>6. ASSUME NEW i \in DOMAIN all, NEW j \in DOMAIN all, all[i] = all[j]
      PROVE  i = j
  BY <1>5, <1>6
<1>7. \A i, j \in DOMAIN s : s[i] = s[j] => i = j
  BY <1>4, <1>6
<1>8. ASSUME NEW i \in DOMAIN t, NEW j \in DOMAIN t, t[i] = t[j]
      PROVE  i = j
  <2>1. b + i = b + j
    BY <1>4, <1>6, <1>8
  <2>2. i \in Nat /\ j \in Nat
    BY <1>2
  <2>. QED BY <1>2, <2>1, <2>2
<1>9. ASSUME NEW i \in DOMAIN s, NEW j \in DOMAIN t, s[i] = t[j]
      PROVE  FALSE
  <2>1. i = b + j
    BY <1>4, <1>6, <1>9
  <2>2. i \in 1 .. b /\ j \in 1 .. Len(t)
    BY <1>2
  <2>. QED BY <1>2, <2>1, <2>2
<1>10. \A i \in DOMAIN s : s[i] = x \/ \E k \in DOMAIN L : s[i] = L[k]
  BY <1>4, <1>5
<1>11. \A i \in DOMAIN t : t[i] = x \/ \E k \in DOMAIN L : t[i] = L[k]
  BY <1>4, <1>5
<1>12. \A i \in DOMAIN all : (\E k \in DOMAIN s : s[k] = all[i]) \/ (\E k \in DOMAIN t : t[k] = all[i])
  BY <1>4
<1>13. c + 1 \in DOMAIN all /\ \A k \in DOMAIN L : k \in DOMAIN all
  BY <1>1
<1>14. (\E i \in DOMAIN s : s[i] = x) \/ (\E i \in DOMAIN t : t[i] = x)
  BY <1>1, <1>12, <1>13
<1>15. \A k \in DOMAIN L : (\E i \in DOMAIN s : s[i] = L[k]) \/ (\E i \in DOMAIN t : t[i] = L[k])
  BY <1>1, <1>12, <1>13
<1>. QED BY <1>7, <1>8, <1>9, <1>10, <1>11, <1>14, <1>15 DEF Divided

\* The new line follows those of the buffer, and the first of them are stored.
LEMMA LineMoves ==
  ASSUME TypeOK, TypeOK', UNCHANGED <<settings, full, next, running>>, FilesInv,
         NEW p \in Proc, Local(p), pc[p] = "fwrite", pc'[p] = "idle", OwnLocks(p),
         NEW s \in Seq(Entry), NEW t \in Seq(Entry),
         Split(obj[p].lines, <<p, next[p]>>, s, t),
         obj'[p].lines = t, obj'[p].pid = obj[p].pid, trouble \subseteq trouble',
         Stores(obj[p].file, s)
  PROVE  FilesInv' /\ FrameOfFiles(p) /\ OnDisk(p)' /\ Buffer(p)' /\ Kept(p)'
<1>. DEFINE L == obj[p].lines
            x == <<p, next[p]>>
            n == obj[p].file
<1>1. /\ Owns(p) /\ n \in Name /\ L \in Seq(Entry) /\ Numbers(p) /\ next[p] \in Nat
      /\ obj[p].pid = p /\ x \in Entry
  BY DEF Owns, HasFile, Local, Phase, TypeOK, Object, Numbers, Entry
<1>2. /\ Timestamped => n[3] = p
      /\ files[n].exists
      /\ ~Timestamped /\ ~DropMemory => files[n].lock = p
  BY <1>1 DEF Local, Opened, Owns, LockHeld
<1>3. \A i \in DOMAIN L : Storable(p, L[i])
  BY <1>1, BufferStorable
<1>4. \A i \in DOMAIN L : L[i] # x
  BY <1>1 DEF Local, Buffer
<1>5. Storable(p, x)
  <2>1. \A m \in Name : \A j \in DOMAIN files[m].lines : files[m].lines[j] # x
    <3>. SUFFICES ASSUME NEW m \in Name, NEW j \in DOMAIN files[m].lines,
                         files[m].lines[j] = x
                  PROVE  FALSE
      OBVIOUS
    <3>. QED BY DEF Local, OnDisk
  <2>. QED BY <1>1, <2>1 DEF Storable
<1>6. \A i, j \in DOMAIN L : L[i] = L[j] => i = j
  BY <1>1 DEF Local, Buffer
<1>7. Split(L, x, s, t) /\ Stores(n, s)
  OBVIOUS
<1>. HIDE DEF L, x, n
<1>8. Divided(L, x, s, t)
  BY <1>1, <1>4, <1>6, <1>7, SplitIs
<1>9. (\A i \in DOMAIN s : Storable(p, s[i])) /\ (\A i \in DOMAIN t : Storable(p, t[i]))
  BY <1>3, <1>5, <1>8 DEF Divided
<1>10. /\ FilesInv' /\ FrameOfFiles(p) /\ OnDisk(p)'
       /\ \A m \in Name : \A i \in DOMAIN files'[m].lines :
            \/ \E j \in DOMAIN files[m].lines : files[m].lines[j] = files'[m].lines[i]
            \/ \E j \in DOMAIN s : s[j] = files'[m].lines[i]
       /\ \A i \in DOMAIN s : \E j \in DOMAIN files'[n].lines : files'[n].lines[j] = s[i]
  <2>1. \A i, j \in DOMAIN s : s[i] = s[j] => i = j
    BY <1>8 DEF Divided
  <2>2. /\ files'[n].lines = files[n].lines \o s
        /\ \A m \in Name :
             /\ files'[m].exists = files[m].exists
             /\ m # n => files'[m].lines = files[m].lines /\ files'[m].len = files[m].len
    BY <1>7 DEF Stores
  <2>. QED BY <1>1, <1>2, <1>9, <2>1, <2>2, StoringFiles
<1>11. Name' = Name /\ Timestamped' = Timestamped
  BY SettingsStay
<1>12. Buffer(p)'
  <2>1. \A i \in DOMAIN t : t[i][1] = p /\ t[i][2] <= next'[p]
    BY <1>9 DEF Storable
  <2>2. ASSUME NEW i \in DOMAIN t, NEW m \in Name, NEW j \in DOMAIN files'[m].lines
        PROVE  files'[m].lines[j] # t[i]
    <3>1. \A k \in DOMAIN files[m].lines : files[m].lines[k] # t[i]
      BY <1>9 DEF Storable
    <3>. QED BY <1>8, <1>10, <3>1, SMTT(30) DEF Divided
  <2>. QED BY <1>1, <1>8, <1>11, <2>1, <2>2 DEF Buffer, Divided
<1>13. Kept(p)'
  <2>. SUFFICES ASSUME Timestamped, p \notin trouble, NEW i \in 1 .. next[p]
                PROVE  \/ \E m \in Name : \E j \in DOMAIN files'[m].lines :
                            files'[m].lines[j] = <<p, i>>
                       \/ \E j \in DOMAIN t : t[j] = <<p, i>>
    BY <1>11 DEF Kept
  <2>1. (\E j \in DOMAIN s : s[j] = <<p, i>>) =>
          \E m \in Name : \E j \in DOMAIN files'[m].lines : files'[m].lines[j] = <<p, i>>
    BY <1>1, <1>10
  <2>2. CASE i = next[p]
    BY <1>8, <2>1, <2>2 DEF x, Divided
  <2>3. CASE \E m \in Name : \E j \in DOMAIN files[m].lines : files[m].lines[j] = <<p, i>>
    <3>1. PICK m \in Name : \E j \in DOMAIN files[m].lines : files[m].lines[j] = <<p, i>>
      BY <2>3
    <3>2. PICK j \in DOMAIN files[m].lines : files[m].lines[j] = <<p, i>>
      BY <3>1
    <3>3. \E k \in DOMAIN files'[m].lines : files'[m].lines[k] = files[m].lines[j]
      BY <1>10 DEF FrameOfFiles
    <3>. QED BY <3>2, <3>3
  <2>4. CASE \E j \in DOMAIN L : L[j] = <<p, i>>
    BY <1>8, <2>1, <2>4 DEF Divided
  <2>. QED BY <2>2, <2>3, <2>4 DEF Local, Kept, L
<1>. QED BY <1>10, <1>12, <1>13

LEMMA Splits ==
  ASSUME NEW L \in Seq(Entry), NEW x \in Entry, NEW a \in Seq(Entry)
  PROVE  /\ <<>> \in Seq(Entry) /\ <<x>> \in Seq(Entry) /\ Append(L, x) \in Seq(Entry)
         /\ Append(<<>>, x) = <<x>>
         /\ Split(L, x, <<>>, Append(L, x)) /\ Split(L, x, L, <<x>>)
         /\ Split(L, x, Append(L, x), <<>>)
         /\ a \o <<>> = a /\ (a \o L) \o <<x>> = a \o Append(L, x)
<1>1. <<>> \in Seq(Entry) /\ <<x>> \in Seq(Entry) /\ Append(L, x) \in Seq(Entry)
  OBVIOUS
<1>2. Append(<<>>, x) = <<x>>
  OBVIOUS
<1>3. Split(L, x, <<>>, Append(L, x))
  <2>. DEFINE t == Append(L, x)
  <2>1. t \in Seq(Entry)
    BY <1>1
  <2>. HIDE DEF t
  <2>2. <<>> \o t = t
    BY <2>1
  <2>. QED BY <2>2 DEF Split, t
<1>4. Split(L, x, L, <<x>>)
  BY AppendIsConcat DEF Split
<1>5. Split(L, x, Append(L, x), <<>>)
  <2>. DEFINE t == Append(L, x)
  <2>1. t \in Seq(Entry)
    BY <1>1
  <2>. HIDE DEF t
  <2>2. t \o <<>> = t
    BY <2>1
  <2>. QED BY <2>2 DEF Split, t
<1>6. a \o <<>> = a
  OBVIOUS
<1>7. (a \o L) \o <<x>> = a \o (L \o <<x>>)
  BY <1>1, ConcatAssociative
<1>. QED BY <1>1, <1>2, <1>3, <1>4, <1>5, <1>6, <1>7 DEF Split

LEMMA CountIs ==
  ASSUME settings \in Settings, NEW o \in Object
  PROVE  /\ Count(o) \in Object /\ Count(o).length = o.length + MsgLen
         /\ Count(o).file = o.file /\ Count(o).pid = o.pid /\ Count(o).dropped = o.dropped
         /\ Count(o).lines = o.lines /\ Count(o).buffered = o.buffered
         /\ Count(o).inexact = o.inexact
<1>1. MsgLen \in Nat /\ o.length \in Nat /\ o.unflushed \in Nat
  BY SettingsTyped DEF Object
<1>2. o.length + MsgLen \in Nat /\ o.unflushed + MsgLen \in Nat
  BY <1>1
<1>. QED BY <1>2 DEF Count, Object

\* A line is put into the buffer.
Put(o, x) == Count([o EXCEPT !.lines = Append(@, x), !.buffered = @ + MsgLen])

LEMMA PutIs ==
  ASSUME settings \in Settings, NEW o \in Object, NEW x \in Entry
  PROVE  /\ Put(o, x) \in Object /\ Put(o, x).length = o.length + MsgLen
         /\ Put(o, x).file = o.file /\ Put(o, x).pid = o.pid
         /\ Put(o, x).dropped = o.dropped /\ Put(o, x).lines = Append(o.lines, x)
         /\ Put(o, x).buffered = o.buffered + MsgLen /\ Put(o, x).inexact = o.inexact
<1>. DEFINE lines == Append(o.lines, x)
            buffered == o.buffered + MsgLen
            e == [o EXCEPT !.lines = lines, !.buffered = buffered]
<1>1. lines \in Seq(Entry)
  BY DEF Object
<1>2. MsgLen \in Nat /\ o.buffered \in Nat /\ buffered \in Nat
  BY SettingsTyped, SMTT(30) DEF Object
<1>3. Put(o, x) = Count(e)
  BY DEF Put
<1>. HIDE DEF lines, buffered
<1>4. /\ e \in Object /\ e.file = o.file /\ e.pid = o.pid /\ e.dropped = o.dropped
      /\ e.lines = lines /\ e.buffered = buffered /\ e.length = o.length
      /\ e.inexact = o.inexact
  BY <1>1, <1>2 DEF Object
<1>. HIDE DEF e
<1>5. /\ Count(e) \in Object /\ Count(e).length = e.length + MsgLen
      /\ Count(e).file = e.file /\ Count(e).pid = e.pid /\ Count(e).dropped = e.dropped
      /\ Count(e).lines = e.lines /\ Count(e).buffered = e.buffered
      /\ Count(e).inexact = e.inexact
  BY <1>4, CountIs
<1>. QED BY <1>3, <1>4, <1>5 DEF lines, buffered

\* The disk is full: the buffer and the line are lost, and the line is counted unless
\* writing stops.
LEMMA DiskFullKeeps ==
  ASSUME TypeOK, FilesInv, NEW p \in Proc, Local(p), DiskFull(p), UNCHANGED settings
  PROVE  Holds(p)
<1>1. /\ p \in running /\ pc[p] = "fwrite" /\ full
      /\ pc' = [pc EXCEPT ![p] = "idle"] /\ work' = [work EXCEPT ![p] = NoWork]
      /\ trouble' = trouble \cup {p} /\ stop' = [stop EXCEPT ![p] = StopIfFull]
      /\ IF StopIfFull
         THEN obj' = [obj EXCEPT ![p] = Drained(obj[p])] /\ UNCHANGED <<files, advice>>
         ELSE FinishWrite(p, [Count(Drained(obj[p])) EXCEPT !.inexact = TRUE], files)
      /\ UNCHANGED <<next, running, full, clock, since>>
  BY DEF DiskFull, Return
<1>2. /\ \A q \in Proc : q # p => work'[q] = work[q] /\ pc'[q] = pc[q]
      /\ pc'[p] = "idle" /\ p \in trouble' /\ trouble' \subseteq Proc
      /\ \A q \in Proc : q # p => (q \in trouble' <=> q \in trouble)
      /\ pc' \in [Proc -> {"idle", "stat", "open", "fwrite"}] /\ work' \in [Proc -> Work]
      /\ stop' \in [Proc -> BOOLEAN]
  BY <1>1, ReturnTyped, SettingsTyped DEF TypeOK
<1>3. /\ Owns(p) /\ HasFile(p) /\ obj[p] \in Object /\ obj[p].file \in Name
      /\ obj[p].file # NoName /\ files \in [Name -> File] /\ settings \in Settings
  BY <1>1 DEF Owns, Local, Phase, HasFile, TypeOK, Object
<1>. DEFINE d == Drained(obj[p])
<1>4. /\ d \in Object /\ d.file = obj[p].file /\ d.pid = obj[p].pid
      /\ d.length = obj[p].length /\ d.dropped = obj[p].dropped /\ d.attempt = obj[p].attempt
      /\ d.lines = <<>> /\ d.buffered = 0
      /\ ~d.inexact => ~obj[p].inexact /\ ~Unwritten(obj[p])
  BY <1>3, DrainedIs
<1>. HIDE DEF d
<1>5. CASE StopIfFull
  <2>1. /\ obj' \in [Proc -> Object] /\ obj'[p] = d
        /\ \A q \in Proc : q # p => obj'[q] = obj[q]
        /\ UNCHANGED <<files, advice>>
    BY <1>1, <1>4, <1>5 DEF TypeOK, d
  <2>2. TypeOK'
    BY <1>1, <1>2, <2>1, SettingsStay DEF TypeOK
  <2>3. FilesInv' /\ FrameOfFiles(p) /\ OnDisk(p)'
    BY <1>1, <1>2, <2>1, <2>2, QuietFiles DEF OwnLocks, Numbers
  <2>4. Frame(p)
    BY <1>1, <1>2, <2>1, <2>3 DEF Frame, TypeOK
  <2>5. HasFile(p)' /\ Owns(p)'
    BY <1>3, <1>4, <2>1 DEF HasFile, Owns
  <2>6. Phase(p)' /\ Opened(p)'
    BY <1>1, <1>2, <1>3, <1>4, <2>1, <2>5, SettingsStay DEF Local, Phase, Opened
  <2>7. Buffer(p)' /\ Kept(p)'
    BY <1>1, <1>2, <1>4, <2>1, <2>2, BufferStays DEF Numbers, Kept
  \* A buffer that the disk could not take was empty.
  <2>8. Measured(p)'
    <3>1. ~d.inexact => ~obj[p].inexact /\ obj[p].buffered = d.buffered
      BY <1>1, <1>3, <1>4 DEF Unwritten, Object
    <3>. QED BY <1>2, <1>3, <1>4, <2>1, <2>5, <3>1, SettingsStay DEF Local, Measured
  <2>9. LockHeld(p)' /\ Drops(p)' /\ Attempts(p)'
    BY <1>1, <1>3, <1>4, <2>1, <2>5, SettingsStay DEF Local, LockHeld, Drops, Attempts
  <2>. QED BY <2>2, <2>3, <2>4, <2>6, <2>7, <2>8, <2>9 DEF Holds, Local
<1>6. CASE ~StopIfFull
  <2>. DEFINE e == Count(d)
              o == [e EXCEPT !.inexact = TRUE]
  <2>1. /\ e \in Object /\ e.length = obj[p].length + MsgLen
        /\ e.file = obj[p].file /\ e.pid = obj[p].pid /\ e.dropped = obj[p].dropped
        /\ e.lines = <<>> /\ e.buffered = 0
    BY <1>3, <1>4, CountIs
  <2>2. FinishWrite(p, o, files)
    BY <1>1, <1>6 DEF d
  <2>. HIDE DEF e
  <2>3. /\ o \in Object /\ o.length = obj[p].length + MsgLen
        /\ o.file = obj[p].file /\ o.pid = obj[p].pid /\ o.dropped = obj[p].dropped
        /\ o.lines = <<>> /\ o.buffered = 0 /\ o.inexact
    BY <2>1 DEF Object
  <2>. HIDE DEF o
  <2>4. /\ obj' \in [Proc -> Object] /\ files' \in [Name -> File]
        /\ advice' \in [Proc -> SUBSET Advice]
        /\ \A q \in Proc : q # p => obj'[q] = obj[q] /\ advice'[q] = advice[q]
        /\ obj'[p].file = o.file /\ obj'[p].pid = o.pid /\ obj'[p].length = o.length
        /\ \/ /\ files' = files /\ obj'[p].lines = o.lines /\ obj'[p].buffered = o.buffered
              /\ obj'[p].inexact = o.inexact
           \/ /\ MustFlush(p, o)
              /\ files' = Drain(files, o) /\ obj'[p].lines = Drained(o).lines
              /\ obj'[p].buffered = Drained(o).buffered
              /\ obj'[p].inexact = Drained(o).inexact
        /\ Advises(p, o.file, o.dropped, o.length)
    BY <1>3, <2>2, <2>3, FinishIs
  <2>5. Drain(files, o) = files /\ Drained(o).lines = <<>> /\ Drained(o).inexact
    <3>1. Drain(files, o) = files
      BY <1>1, <1>3, <2>3, DrainIs
    <3>2. Drained(o).lines = <<>> /\ (o.inexact => Drained(o).inexact)
      BY <1>3, <2>3, DrainedIs
    <3>. QED BY <2>3, <3>1, <3>2
  <2>6. files' = files /\ obj'[p].lines = <<>> /\ obj'[p].inexact
    BY <2>3, <2>4, <2>5
  <2>7. TypeOK'
    BY <1>1, <1>2, <2>4, SettingsStay DEF TypeOK
  <2>8. FilesInv' /\ FrameOfFiles(p) /\ OnDisk(p)'
    BY <1>1, <1>2, <2>6, <2>7, QuietFiles DEF OwnLocks, Numbers
  <2>9. Frame(p)
    BY <1>1, <1>2, <2>4, <2>8 DEF Frame, TypeOK
  <2>10. Phase(p)' /\ Opened(p)' /\ LockHeld(p)' /\ Drops(p)' /\ Attempts(p)'
    BY <1>1, <1>2, <2>3, <2>4, <2>6, <2>7, FinishKeeps
  <2>11. Buffer(p)' /\ Kept(p)'
    BY <1>1, <1>2, <2>6, <2>7, BufferStays DEF Numbers, Kept
  <2>12. Measured(p)'
    BY <1>2, <2>6 DEF Measured
  <2>. QED BY <2>7, <2>8, <2>9, <2>10, <2>11, <2>12 DEF Holds, Local
<1>. QED BY <1>5, <1>6

\* What WriteLine writes at its end.
Written(p, x, drain) == Put(IF drain THEN Drained(obj[p]) ELSE obj[p], x)

\* What WriteLine does to the lines, with or without making room first and with or
\* without a flush after, which a full disk may defeat.
LEMMA WriteLineStores ==
  ASSUME TypeOK, NEW p \in Proc, Owns(p), NEW x \in Entry, NEW drain \in {FALSE} \cup {~full},
         FinishWrite(p, Written(p, x, drain),
                     IF drain THEN Drain(files, obj[p]) ELSE files)
  PROVE  /\ obj' \in [Proc -> Object] /\ files' \in [Name -> File]
         /\ advice' \in [Proc -> SUBSET Advice]
         /\ \A q \in Proc : q # p => obj'[q] = obj[q] /\ advice'[q] = advice[q]
         /\ obj'[p].file = obj[p].file /\ obj'[p].pid = obj[p].pid
         /\ obj'[p].length = obj[p].length + MsgLen
         /\ Advises(p, obj[p].file, obj[p].dropped, obj[p].length + MsgLen)
         /\ \A m \in Name : files'[m].exists = files[m].exists /\ files'[m].lock = files[m].lock
         /\ \/ /\ MustFlush(p, Written(p, x, drain)) /\ Unwritten(Written(p, x, drain))
               /\ files' = files /\ obj'[p].lines = <<>> /\ obj'[p].inexact
            \/ /\ \E s, t \in Seq(Entry) : /\ Split(obj[p].lines, x, s, t)
                                           /\ obj'[p].lines = t /\ Stores(obj[p].file, s)
               /\ files'[obj[p].file].len + obj'[p].buffered =
                    files[obj[p].file].len + obj[p].buffered + MsgLen
               /\ ~obj'[p].inexact => ~obj[p].inexact
<1>. DEFINE b == obj[p]
            n == b.file
            L == b.lines
            f == files[n]
            o == IF drain THEN Drained(b) ELSE b
            F == IF drain THEN Drain(files, b) ELSE files
            w == Written(p, x, drain)
<1>1. /\ b \in Object /\ n \in Name /\ n # NoName /\ L \in Seq(Entry) /\ b.buffered \in Nat
      /\ files \in [Name -> File] /\ f \in File /\ f.lines \in Seq(Entry) /\ f.len \in Nat
      /\ settings \in Settings /\ MsgLen \in Nat /\ drain \in BOOLEAN /\ (drain => ~full)
  BY SettingsTyped DEF Owns, HasFile, TypeOK, Object, File
<1>. HIDE DEF b, f
<1>2. /\ o \in Object /\ o.file = n /\ o.pid = b.pid /\ o.length = b.length
      /\ o.dropped = b.dropped
      /\ drain => o.lines = <<>> /\ o.buffered = 0 /\ (~o.inexact => ~b.inexact)
      /\ ~drain => o.lines = L /\ o.buffered = b.buffered /\ o.inexact = b.inexact
  BY <1>1, DrainedIs
<1>3. /\ F \in [Name -> File]
      /\ \A m \in Name : /\ F[m].exists = files[m].exists /\ F[m].lock = files[m].lock
                         /\ m # n => F[m] = files[m]
      /\ drain => F[n].lines = f.lines \o L /\ F[n].len = f.len + b.buffered
      /\ ~drain => F = files
  <2>1. drain => ~Unwritten(b)
    BY <1>1 DEF Unwritten
  <2>. QED BY <1>1, <2>1, DrainIs DEF f
<1>3a. w = Put(o, x)
  BY DEF Written, b
<1>. HIDE DEF o, F
<1>4. /\ w \in Object /\ w.file = n /\ w.pid = b.pid /\ w.length = b.length + MsgLen
      /\ w.dropped = b.dropped
      /\ w.lines = Append(o.lines, x) /\ w.buffered = o.buffered + MsgLen
      /\ w.inexact = o.inexact
  BY <1>1, <1>2, <1>3a, PutIs
<1>5. FinishWrite(p, w, F)
  BY DEF F, b
<1>. HIDE DEF w
<1>6. /\ obj' \in [Proc -> Object] /\ files' \in [Name -> File]
      /\ advice' \in [Proc -> SUBSET Advice]
      /\ \A q \in Proc : q # p => obj'[q] = obj[q] /\ advice'[q] = advice[q]
      /\ obj'[p].file = w.file /\ obj'[p].pid = w.pid /\ obj'[p].length = w.length
      /\ \/ /\ files' = F /\ obj'[p].lines = w.lines /\ obj'[p].buffered = w.buffered
            /\ obj'[p].inexact = w.inexact
         \/ /\ MustFlush(p, w) /\ files' = Drain(F, w) /\ obj'[p].lines = Drained(w).lines
            /\ obj'[p].buffered = Drained(w).buffered /\ obj'[p].inexact = Drained(w).inexact
      /\ Advises(p, w.file, w.dropped, w.length)
  BY <1>1, <1>3, <1>4, <1>5, FinishIs
<1>7. /\ \A m \in Name : /\ Drain(F, w)[m].exists = F[m].exists
                         /\ Drain(F, w)[m].lock = F[m].lock
                         /\ m # n => Drain(F, w)[m] = F[m]
      /\ ~full => /\ Drain(F, w)[n].lines = F[n].lines \o w.lines
                  /\ Drain(F, w)[n].len = F[n].len + w.buffered
                  /\ Drained(w).lines = <<>> /\ Drained(w).buffered = 0
      /\ full => Drain(F, w) = F /\ Unwritten(w) /\ Drained(w).inexact /\ Drained(w).lines = <<>>
      /\ ~Drained(w).inexact => ~w.inexact
  <2>1. /\ w.file \in Name /\ w.file # NoName
        /\ Drained(w).lines = <<>> /\ Drained(w).buffered = 0
        /\ Unwritten(w) => Drained(w).inexact
        /\ ~Drained(w).inexact => ~w.inexact
    BY <1>1, <1>4, DrainedIs
  <2>1a. (full => Unwritten(w)) /\ (~full => ~Unwritten(w))
    <3>1. w.lines # <<>>
      BY <1>2, <1>4, AppendIs, SMTT(30) DEF Object
    <3>. QED BY <3>1 DEF Unwritten
  <2>2. /\ \A m \in Name : /\ Drain(F, w)[m].exists = F[m].exists
                           /\ Drain(F, w)[m].lock = F[m].lock
                           /\ m # w.file => Drain(F, w)[m] = F[m]
        /\ ~full => /\ Drain(F, w)[w.file].lines = F[w.file].lines \o w.lines
                    /\ Drain(F, w)[w.file].len = F[w.file].len + w.buffered
        /\ full => Drain(F, w) = F
    BY <1>3, <1>4, <2>1, <2>1a, DrainIs
  <2>. QED BY <1>4, <2>1, <2>1a, <2>2
<1>8. \A m \in Name : /\ files'[m].exists = files[m].exists /\ files'[m].lock = files[m].lock
                      /\ m # n => files'[m].lines = files[m].lines /\ files'[m].len = files[m].len
  BY <1>3, <1>6, <1>7
<1>9. /\ <<>> \in Seq(Entry) /\ <<x>> \in Seq(Entry) /\ Append(L, x) \in Seq(Entry)
      /\ Append(<<>>, x) = <<x>>
      /\ Split(L, x, <<>>, Append(L, x)) /\ Split(L, x, L, <<x>>)
      /\ Split(L, x, Append(L, x), <<>>)
      /\ f.lines \o <<>> = f.lines /\ (f.lines \o L) \o <<x>> = f.lines \o Append(L, x)
  BY <1>1, Splits
<1>9a. (~o.inexact => ~b.inexact) /\ (~obj'[p].inexact => ~w.inexact)
  BY <1>1, <1>2, <1>6, <1>7
<1>10. \/ /\ MustFlush(p, w) /\ Unwritten(w)
          /\ files' = files /\ obj'[p].lines = <<>> /\ obj'[p].inexact
       \/ \E s, t \in Seq(Entry) :
            /\ Split(L, x, s, t) /\ obj'[p].lines = t /\ files'[n].lines = f.lines \o s
            /\ files'[n].len + obj'[p].buffered = f.len + b.buffered + MsgLen
  \* Neither is room made nor is the file flushed.
  <2>1. CASE ~drain /\ files' = F /\ obj'[p].lines = w.lines /\ obj'[p].buffered = w.buffered
    <3>1. /\ obj'[p].lines = Append(L, x) /\ files'[n].lines = f.lines
          /\ files'[n].len = f.len /\ obj'[p].buffered = b.buffered + MsgLen
      BY <1>2, <1>3, <1>4, <2>1 DEF f
    <3>. HIDE DEF n, L
    <3>2. files'[n].len + obj'[p].buffered = f.len + b.buffered + MsgLen
      BY <1>1, <3>1
    <3>. QED BY <1>1, <1>9, <3>1, <3>2
  \* Room is made.
  <2>2. CASE drain /\ files' = F /\ obj'[p].lines = w.lines /\ obj'[p].buffered = w.buffered
    <3>1. /\ obj'[p].lines = <<x>> /\ files'[n].lines = f.lines \o L
          /\ files'[n].len = f.len + b.buffered /\ obj'[p].buffered = 0 + MsgLen
      BY <1>2, <1>3, <1>4, <1>9, <2>2 DEF f
    <3>. HIDE DEF n, L
    <3>2. files'[n].len + obj'[p].buffered = f.len + b.buffered + MsgLen
      BY <1>1, <3>1
    <3>. QED BY <1>1, <1>9, <3>1, <3>2
  \* The file is flushed.
  <2>3. CASE ~drain /\ ~full /\ files' = Drain(F, w) /\ obj'[p].lines = Drained(w).lines
             /\ obj'[p].buffered = Drained(w).buffered
    <3>1. /\ obj'[p].lines = <<>> /\ files'[n].lines = f.lines \o Append(L, x)
          /\ files'[n].len = f.len + (b.buffered + MsgLen) /\ obj'[p].buffered = 0
      BY <1>2, <1>3, <1>4, <1>7, <2>3 DEF f
    <3>. HIDE DEF n, L
    <3>2. files'[n].len + obj'[p].buffered = f.len + b.buffered + MsgLen
      BY <1>1, <3>1
    <3>. QED BY <1>1, <1>9, <3>1, <3>2
  \* Both.
  <2>4. CASE drain /\ files' = Drain(F, w) /\ obj'[p].lines = Drained(w).lines
             /\ obj'[p].buffered = Drained(w).buffered
    <3>1. /\ obj'[p].lines = <<>> /\ files'[n].lines = (f.lines \o L) \o <<x>>
          /\ files'[n].len = (f.len + b.buffered) + (0 + MsgLen) /\ obj'[p].buffered = 0
      <4>1. w.lines = <<x>> /\ w.buffered = 0 + MsgLen
        BY <1>2, <1>4, <1>9, <2>4
      <4>2. F[n].lines = f.lines \o L /\ F[n].len = f.len + b.buffered /\ ~full
        BY <1>1, <1>3, <2>4
      <4>. HIDE DEF n, L
      <4>. QED BY <1>7, <2>4, <4>1, <4>2
    <3>. HIDE DEF n, L
    <3>2. files'[n].len + obj'[p].buffered = f.len + b.buffered + MsgLen
      BY <1>1, <3>1
    <3>. QED BY <1>1, <1>9, <3>1, <3>2
  \* The flush fails.
  <2>5. CASE full /\ MustFlush(p, w) /\ files' = Drain(F, w) /\ obj'[p].lines = Drained(w).lines
             /\ obj'[p].inexact = Drained(w).inexact
    BY <1>1, <1>3, <1>7, <2>5
  <2>. QED BY <1>1, <1>6, <1>7, <2>1, <2>2, <2>3, <2>4, <2>5
<1>11. /\ w.file = n /\ w.pid = b.pid /\ w.dropped = b.dropped /\ w.length = b.length + MsgLen
  BY <1>4
<1>12. ~obj'[p].inexact => ~b.inexact
  BY <1>4, <1>9a
<1>13. \/ /\ MustFlush(p, w) /\ Unwritten(w)
          /\ files' = files /\ obj'[p].lines = <<>> /\ obj'[p].inexact
       \/ /\ \E s, t \in Seq(Entry) : Split(L, x, s, t) /\ obj'[p].lines = t /\ Stores(n, s)
          /\ files'[n].len + obj'[p].buffered = f.len + b.buffered + MsgLen
  BY <1>8, <1>10 DEF Stores, f
<1>. QED BY <1>6, <1>8, <1>11, <1>12, <1>13 DEF b, f, w

LEMMA WriteLineKeeps ==
  ASSUME TypeOK, FilesInv, NEW p \in Proc, Local(p), WriteLine(p), UNCHANGED settings
  PROVE  Holds(p)
<1>. DEFINE n == obj[p].file
            x == <<p, next[p]>>
<1>1. /\ p \in running /\ pc[p] = "fwrite"
      /\ pc' = [pc EXCEPT ![p] = "idle"] /\ work' = [work EXCEPT ![p] = NoWork]
      /\ UNCHANGED <<stop, next, running, full, clock, since>>
  BY DEF WriteLine, Return
<1>2. /\ \A q \in Proc : q # p => work'[q] = work[q] /\ pc'[q] = pc[q]
      /\ pc'[p] = "idle"
      /\ pc' \in [Proc -> {"idle", "stat", "open", "fwrite"}] /\ work' \in [Proc -> Work]
  BY <1>1, ReturnTyped DEF TypeOK
<1>3. /\ Owns(p) /\ n \in Name /\ x \in Entry
  BY <1>1 DEF Owns, Local, Phase, HasFile, TypeOK, Object, Entry
<1>4. PICK drain \in {FALSE} \cup {~full} :
        /\ FinishWrite(p, Written(p, x, drain), IF drain THEN Drain(files, obj[p]) ELSE files)
        /\ trouble' = trouble \cup (IF MustFlush(p, Written(p, x, drain))
                                   THEN Losers(p, Written(p, x, drain)) ELSE {})
  BY DEF WriteLine, Put, Written
<1>. DEFINE w == Written(p, x, drain)
<1>4a. /\ trouble \subseteq trouble' /\ trouble' \subseteq Proc
       /\ \A q \in Proc : q # p => (q \in trouble' <=> q \in trouble)
       /\ MustFlush(p, w) /\ Unwritten(w) => p \in trouble'
  BY <1>4 DEF Losers, TypeOK
<1>5. /\ obj' \in [Proc -> Object] /\ files' \in [Name -> File]
      /\ advice' \in [Proc -> SUBSET Advice]
      /\ \A q \in Proc : q # p => obj'[q] = obj[q] /\ advice'[q] = advice[q]
      /\ obj'[p].file = n /\ obj'[p].pid = obj[p].pid
      /\ obj'[p].length = obj[p].length + MsgLen
      /\ Advises(p, n, obj[p].dropped, obj[p].length + MsgLen)
      /\ \A m \in Name : files'[m].exists = files[m].exists /\ files'[m].lock = files[m].lock
      /\ \/ /\ MustFlush(p, w) /\ Unwritten(w)
            /\ files' = files /\ obj'[p].lines = <<>> /\ obj'[p].inexact
         \/ /\ \E s, t \in Seq(Entry) : /\ Split(obj[p].lines, x, s, t)
                                        /\ obj'[p].lines = t /\ Stores(n, s)
            /\ files'[n].len + obj'[p].buffered = files[n].len + obj[p].buffered + MsgLen
            /\ ~obj'[p].inexact => ~obj[p].inexact
  BY <1>3, <1>4, WriteLineStores
<1>. HIDE DEF w
<1>6. TypeOK' /\ OwnLocks(p)
  BY <1>1, <1>2, <1>4a, <1>5, SettingsStay DEF TypeOK, OwnLocks
<1>7. Phase(p)' /\ Opened(p)' /\ LockHeld(p)' /\ Drops(p)' /\ Attempts(p)'
  BY <1>1, <1>2, <1>5, <1>6, FinishKeeps
<1>8. /\ FilesInv' /\ FrameOfFiles(p) /\ OnDisk(p)'
      /\ Buffer(p)' /\ Kept(p)' /\ Measured(p)'
  <2>1. CASE p \in trouble' /\ files' = files /\ obj'[p].lines = <<>> /\ obj'[p].inexact
    <3>1. FilesInv' /\ FrameOfFiles(p) /\ OnDisk(p)'
      BY <1>1, <1>2, <1>6, <2>1, QuietFiles DEF Numbers
    <3>2. Buffer(p)'
      BY <1>1, <1>6, <2>1, BufferStays DEF Numbers
    <3>3. Kept(p)' /\ Measured(p)'
      BY <1>2, <2>1 DEF Kept, Measured
    <3>. QED BY <3>1, <3>2, <3>3
  <2>2. CASE /\ \E s, t \in Seq(Entry) : /\ Split(obj[p].lines, x, s, t)
                                        /\ obj'[p].lines = t /\ Stores(n, s)
             /\ files'[n].len + obj'[p].buffered = files[n].len + obj[p].buffered + MsgLen
             /\ ~obj'[p].inexact => ~obj[p].inexact
    <3>1. PICK s \in Seq(Entry), t \in Seq(Entry) :
            Split(obj[p].lines, x, s, t) /\ obj'[p].lines = t /\ Stores(n, s)
      BY <2>2
    <3>2. FilesInv' /\ FrameOfFiles(p) /\ OnDisk(p)' /\ Buffer(p)' /\ Kept(p)'
      BY <1>1, <1>2, <1>4a, <1>5, <1>6, <3>1, LineMoves
    <3>3. Timestamped' = Timestamped /\ DropMemory' = DropMemory
      BY SettingsStay
    <3>4. ~obj[p].inexact /\ (Timestamped \/ ~DropMemory) =>
            obj[p].length = files[n].len + obj[p].buffered
      BY <1>3 DEF Local, Measured
    <3>5. Measured(p)'
      BY <1>2, <1>5, <2>2, <3>3, <3>4 DEF Measured
    <3>. QED BY <3>2, <3>5
  <2>. QED BY <1>4a, <1>5, <2>1, <2>2
<1>9. Frame(p)
  BY <1>1, <1>2, <1>4a, <1>5, <1>8 DEF Frame, TypeOK
<1>. QED BY <1>6, <1>7, <1>8, <1>9 DEF Holds, Local

-----------------------------------------------------------------------------
(* The invariant.                                                          *)

LEMMA StepKeeps ==
  ASSUME IInv, NEW p \in Proc, Step(p), UNCHANGED settings
  PROVE  \E q \in Proc : Holds(q)
<1>. USE DEF IInv
<1>1. CASE WriteNowhere(p)
  BY <1>1, WriteNowhereKeeps
<1>2. CASE \E force \in {FALSE, MayForce} : BeginWrite(p, force)
  BY <1>2, BeginWriteKeeps
<1>3. CASE StatFile(p)
  BY <1>3, StatFileKeeps
<1>4. CASE CannotCreate(p)
  BY <1>4, CannotCreateKeeps
<1>5. CASE CreateLogfile(p)
  BY <1>5, CreateLogfileKeeps
<1>6. CASE SkipLine(p)
  BY <1>6, SkipLineKeeps
<1>7. CASE DiskFull(p)
  BY <1>7, DiskFullKeeps
<1>8. CASE WriteLine(p)
  BY <1>8, WriteLineKeeps
<1>9. CASE \E a \in advice[p] : EndAdvice(p, a)
  BY <1>9, EndAdviceKeeps
<1>10. CASE Flush(p)
  BY <1>10, FlushKeeps
<1>11. CASE \E d \in Selectable : SetBasename(p, d)
  BY <1>11, SetBasenameKeeps
<1>12. CASE Exit(p)
  BY <1>12, ExitKeeps
<1>13. CASE Crash(p)
  BY <1>13, CrashKeeps
<1>14. CASE \E c \in Proc : Fork(p, c)
  BY <1>14, ForkKeeps
<1>. QED BY <1>1, <1>2, <1>3, <1>4, <1>5, <1>6, <1>7, <1>8, <1>9, <1>10, <1>11, <1>12,
            <1>13, <1>14 DEF Step

\* Time and the disk are not what a process relies on.
LEMMA WorldKeeps ==
  ASSUME IInv,
         UNCHANGED <<settings, obj, work, pc, stop, advice, next, running, files, trouble,
                     since>>,
         clock' \in 0 .. MaxClock, full' \in BOOLEAN, full' => MayFill
  PROVE  IInv'
<1>. USE DEF IInv
<1>3. TypeOK'
  BY SettingsStay DEF TypeOK
<1>4. FilesInv'
  BY SettingsStay DEF FilesInv, Absent, LinesDistinct, LinesOfOwner
<1>5. ASSUME NEW p \in Proc
      PROVE  Local(p)'
  <2>1. HasFile(p)' = HasFile(p) /\ Owns(p)' = Owns(p)
    BY DEF HasFile, Owns
  <2>2. Name' = Name /\ Timestamped' = Timestamped
    BY SettingsStay
  <2>3. Phase(p)' /\ Opened(p)'
    BY <2>1, <2>2 DEF Local, Phase, Opened
  <2>4. Buffer(p)' /\ OnDisk(p)'
    BY <2>1, <2>2 DEF Local, Buffer, OnDisk
  <2>5. Kept(p)'
    BY <2>1, <2>2 DEF Local, Kept
  <2>6. Measured(p)' /\ LockHeld(p)' /\ Drops(p)' /\ Attempts(p)'
    BY <2>1, SettingsStay DEF Local, Measured, LockHeld, Drops, Attempts
  <2>. QED BY <2>3, <2>4, <2>5, <2>6 DEF Local
<1>. QED BY <1>3, <1>4, <1>5

LEMMA InitHolds ==
  ASSUME Init
  PROVE  IInv
<1>1. settings \in Settings /\ Starters \subseteq Proc
  BY SettingsTyped DEF Init
<1>2. NewObject \in Object /\ Bare(NewObject) /\ NewObject.pid = NoProc
  BY <1>1, NewObjectIs
<1>3. <<>> \in Seq(Entry)
  OBVIOUS
<1>4. files \in [Name -> File] /\ \A n \in Name : files[n].len = 0 /\ files[n].lines = <<>>
  BY <1>3 DEF Init, File
<1>5. TypeOK
  <2>1. obj \in [Proc -> Object] /\ work \in [Proc -> Work]
    BY <1>2, ReturnTyped DEF Init
  <2>2. /\ pc \in [Proc -> {"idle", "stat", "open", "fwrite"}] /\ stop \in [Proc -> BOOLEAN]
        /\ advice \in [Proc -> SUBSET Advice] /\ next \in [Proc -> Nat]
        /\ since \in [Proc -> Int]
    BY DEF Init
  <2>3. running \subseteq Proc /\ clock \in 0 .. MaxClock /\ trouble \subseteq Proc
    BY <1>1, TimeAssumption DEF Init
  <2>4. full \in BOOLEAN
    BY DEF Init
  <2>. QED BY <1>1, <1>4, <2>1, <2>2, <2>3, <2>4 DEF TypeOK
<1>6. FilesInv
  BY <1>4 DEF Init, FilesInv, Absent, LinesDistinct, LinesOfOwner
<1>7. ASSUME NEW p \in Proc
      PROVE  Local(p)
  <2>1. /\ obj[p] = NewObject /\ pc[p] = "idle" /\ advice[p] = {} /\ next[p] = 0
        /\ since[p] = -1
    BY <1>7 DEF Init
  <2>2. ~HasFile(p) /\ ~Owns(p)
    BY <1>2, <2>1 DEF HasFile, Owns, Bare
  <2>3. Phase(p) /\ Opened(p) /\ Buffer(p) /\ OnDisk(p) /\ Kept(p)
    BY <1>2, <1>4, <2>1, <2>2 DEF Phase, Opened, Buffer, OnDisk, Kept, Bare
  <2>4. Measured(p) /\ LockHeld(p) /\ Drops(p) /\ Attempts(p)
    BY <1>2, <2>1, <2>2 DEF Measured, LockHeld, Drops, Attempts, Bare
  <2>. QED BY <2>3, <2>4 DEF Local
<1>. QED BY <1>5, <1>6, <1>7 DEF IInv

LEMMA NextKeeps ==
  ASSUME IInv, [Next]_vars
  PROVE  IInv'
<1>1. CASE UNCHANGED vars
  BY <1>1, WorldKeeps DEF vars, IInv, TypeOK, FilesInv
<1>2. CASE UNCHANGED settings /\ Tick
  BY <1>2, WorldKeeps, TimeAssumption DEF Tick, IInv, TypeOK, FilesInv
<1>4. CASE UNCHANGED settings /\ FillDisk
  BY <1>4, WorldKeeps DEF FillDisk, IInv, TypeOK
<1>3. CASE UNCHANGED settings /\ \E p \in Proc : Step(p)
  <2>1. PICK q \in Proc : Holds(q)
    BY <1>3, StepKeeps
  <2>2. \A p \in Proc : p # q => Local(p)'
    BY <2>1, OthersKeep DEF Holds, IInv
  <2>. QED BY <2>1, <2>2 DEF Holds, IInv
<1>. QED BY <1>1, <1>2, <1>3, <1>4 DEF Next

\* The invariant of the specification.
THEOREM InductiveInvariant == Spec => []IInv
<1>. QED BY InitHolds, NextKeeps, PTL DEF Spec

-----------------------------------------------------------------------------
(* What the invariant says.                                                *)

\* No line reaches the disk twice, whatever is buffered when a process forks, and
\* a file that is named after a process has only its lines.
THEOREM LinesReachOnePlace == Spec => []LinesInOnePlace
<1>1. IInv => LinesInOnePlace
  <2>. SUFFICES ASSUME IInv PROVE LinesInOnePlace
    OBVIOUS
  <2>1. ASSUME NEW l \in Line
        PROVE  Cardinality(Places(l)) <= 1
    <3>1. ASSUME NEW a \in Places(l)
          PROVE  \E n \in Name : \E i \in DOMAIN files[n].lines :
                   a = <<n, i>> /\ files[n].lines[i] = l
      BY <3>1 DEF Places
    <3>2. ASSUME NEW a \in Places(l), NEW b \in Places(l)
          PROVE  a = b
      <4>1. PICK m \in Name : \E i \in DOMAIN files[m].lines :
                   a = <<m, i>> /\ files[m].lines[i] = l
        BY <3>1
      <4>2. PICK i \in DOMAIN files[m].lines : a = <<m, i>> /\ files[m].lines[i] = l
        BY <4>1
      <4>3. PICK n \in Name : \E j \in DOMAIN files[n].lines :
                   b = <<n, j>> /\ files[n].lines[j] = l
        BY <3>1
      <4>4. PICK j \in DOMAIN files[n].lines : b = <<n, j>> /\ files[n].lines[j] = l
        BY <4>3
      <4>. QED BY <4>2, <4>4 DEF IInv, FilesInv, LinesDistinct
    <3>3. CASE Places(l) = {}
      BY <3>3, FS_EmptySet
    <3>4. CASE Places(l) # {}
      <4>1. PICK a \in Places(l) : TRUE
        BY <3>4
      <4>2. Places(l) = {a}
        BY <3>2, <4>1
      <4>. QED BY <4>2, FS_Singleton
    <3>. QED BY <3>3, <3>4
  <2>. QED BY <2>1 DEF LinesInOnePlace, IInv, FilesInv, LinesOfOwner
<1>. QED BY <1>1, InductiveInvariant, PTL

\* LogSize is the actual length of the file that a process has open, whether it has
\* its own name or is shared, but for what a full disk did not take and for a size
\* that was stale when the file was opened.
THEOREM LengthOfFileIsActual == Spec => []LengthIsActual
<1>1. IInv => LengthIsActual
  BY DEF IInv, TypeOK, Local, Measured, Owns, HasFile, LengthIsActual
<1>. QED BY <1>1, InductiveInvariant, PTL

\* A process whose files could be created, and which never wrote to a full disk, loses
\* no line by rollover, another name, flushes, forks or its exit.
THEOREM NoLineIsLost == Spec => []LinesKept
<1>1. IInv => LinesKept
  <2>. SUFFICES ASSUME IInv, NEW p \in Proc \ trouble, NEW i \in 1 .. next[p],
                       ~(i = next[p] /\ pc[p] # "idle"), Timestamped
                PROVE  \/ Places(<<p, i>>) # {}
                       \/ \E j \in DOMAIN obj[p].lines : obj[p].lines[j] = <<p, i>>
    BY DEF LinesKept
  <2>2. \/ \E n \in Name : \E j \in DOMAIN files[n].lines : files[n].lines[j] = <<p, i>>
        \/ \E j \in DOMAIN obj[p].lines : obj[p].lines[j] = <<p, i>>
    BY DEF IInv, Local, Kept
  <2>3. CASE \E n \in Name : \E j \in DOMAIN files[n].lines : files[n].lines[j] = <<p, i>>
    <3>1. PICK n \in Name : \E j \in DOMAIN files[n].lines : files[n].lines[j] = <<p, i>>
      BY <2>3
    <3>2. PICK j \in DOMAIN files[n].lines : files[n].lines[j] = <<p, i>>
      BY <3>1
    <3>3. <<n, j>> \in Places(<<p, i>>)
      BY <3>2 DEF Places
    <3>. QED BY <3>3
  <2>. QED BY <2>2, <2>3
<1>. QED BY <1>1, InductiveInvariant, PTL

\* No two processes have the same file open for writing: by the name of the file, or
\* by the lock, which the end of a page drop would give up.
THEOREM OneWriterPerFile == Spec => [](Timestamped \/ ~DropMemory => ExclusiveWriter)
<1>1. IInv => (Timestamped \/ ~DropMemory => ExclusiveWriter)
  <2>. SUFFICES ASSUME IInv, Timestamped \/ ~DropMemory,
                       NEW p \in running, NEW q \in running, p # q,
                       obj[p].file # NoName, obj[p].pid = p, obj[q].pid = q,
                       obj[q].file = obj[p].file
                PROVE  FALSE
    BY DEF ExclusiveWriter
  <2>1. Owns(p) /\ Owns(q) /\ HasFile(p) /\ HasFile(q) /\ p \in Proc /\ q \in Proc
    BY DEF Owns, HasFile, IInv, TypeOK
  <2>2. CASE Timestamped
    BY <2>1, <2>2 DEF IInv, Local, Opened
  <2>3. CASE ~Timestamped /\ ~DropMemory
    BY <2>1, <2>3 DEF IInv, Local, LockHeld
  <2>. QED BY <2>2, <2>3
<1>. QED BY <1>1, InductiveInvariant, PTL

\* The pages of a file with its own name are dropped once, and never the last
\* mebibyte.
THEOREM DropsAreSound == Spec => [](Timestamped => DropsSound)
<1>1. IInv => (Timestamped => DropsSound)
  BY DEF IInv, TypeOK, Local, Drops, HasFile, DropsSound
<1>. QED BY <1>1, InductiveInvariant, PTL

\* The creation of a file that failed is tried again with the Frequency-th message.
THEOREM AttemptsAreSpaced == Spec => AttemptsSpaced
<1>1. ASSUME IInv, Next, NEW p \in Proc, Timestamped, pc[p] = "idle", pc'[p] = "stat"
      PROVE  since[p] \in {-1, Frequency - 1}
  <2>1. PICK force \in {FALSE, MayForce} : BeginWrite(p, force)
    <3>1. pc' # pc /\ pc \in [Proc -> {"idle", "stat", "open", "fwrite"}]
      BY <1>1 DEF IInv, TypeOK
    <3>2. PICK q \in Proc : Step(q)
      BY <1>1, <3>1 DEF Next, Tick, FillDisk
    <3>3. CASE \E force \in {FALSE, MayForce} : BeginWrite(q, force)
      <4>1. pc' = [pc EXCEPT ![q] = "fwrite"] \/ pc' = pc \/ pc' = [pc EXCEPT ![q] = "stat"]
        BY <3>3 DEF BeginWrite
      <4>2. p = q
        BY <1>1, <3>1, <4>1
      <4>. QED BY <3>3, <4>2
    <3>4. CASE CannotCreate(q)
      BY <1>1, <3>1, <3>4 DEF CannotCreate, Return
    <3>5. CASE StatFile(q) \/ CreateLogfile(q) \/ SkipLine(q) \/ DiskFull(q) \/ WriteLine(q)
               \/ Crash(q)
      <4>1. PICK l \in {"open", "fwrite", "idle"} : pc' = [pc EXCEPT ![q] = l]
        BY <3>5 DEF StatFile, CreateLogfile, SkipLine, DiskFull, WriteLine, Crash, Return
      <4>. QED BY <1>1, <3>1, <4>1
    <3>6. CASE \/ WriteNowhere(q) \/ Flush(q) \/ Exit(q) \/ (\E c \in Proc : Fork(q, c))
               \/ (\E a \in advice[q] : EndAdvice(q, a))
               \/ \E d \in Selectable : SetBasename(q, d)
      BY <3>1, <3>6 DEF WriteNowhere, Flush, Exit, Fork, EndAdvice, SetBasename
    <3>. QED BY <3>2, <3>3, <3>4, <3>5, <3>6 DEF Step
  <2>2. SUFFICES ASSUME since[p] # -1 PROVE since[p] = Frequency - 1
    OBVIOUS
  <2>3. /\ ~HasFile(p) /\ obj[p].attempt = since[p] /\ p \in running
        /\ settings \in Settings /\ since[p] \in Int /\ Frequency \in Nat
    BY <1>1, <2>1, <2>2, SettingsTyped DEF BeginWrite, Idle, IInv, TypeOK, Local, Attempts
  <2>4. Discard(p, obj[p]) = obj[p] /\ ~Oversize(obj[p].length)
    BY <1>1, <2>3, EmptyIsShort DEF Discard, HasFile, IInv, Local, Opened
  <2>5. obj[p].attempt + 1 = Frequency
    <3>. DEFINE o == Discard(p, obj[p])
                r == IF Oversize(o.length) THEN Reset(o) ELSE o
    <3>1. r.attempt + 1 = Frequency \/ pc' = [pc EXCEPT ![p] = "fwrite"] \/ pc' = pc
      BY <2>1 DEF BeginWrite
    <3>2. r = obj[p]
      BY <2>4
    <3>3. pc \in [Proc -> {"idle", "stat", "open", "fwrite"}]
      BY <1>1 DEF IInv, TypeOK
    <3>. HIDE DEF r
    <3>. QED BY <1>1, <3>1, <3>2, <3>3
  <2>. QED BY <2>3, <2>5
<1>2. IInv /\ [Next]_vars =>
        [\A p \in Proc : Timestamped /\ pc[p] = "idle" /\ pc'[p] = "stat"
           => since[p] \in {-1, Frequency - 1}]_vars
  BY <1>1
<1>. QED BY <1>2, InductiveInvariant, PTL DEF Spec, AttemptsSpaced
=============================================================================
