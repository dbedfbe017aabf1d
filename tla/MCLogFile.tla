----------------------------- MODULE MCLogFile -----------------------------
(* Programs for TLC.                                                       *)
EXTENDS LogFile

CONSTANTS p1, p2, d1, d2

\* A process and its child, each with a file of its own name, that log, flush,
\* change the name, roll over, exit and crash while the disk fills up.
Forking ==
  [starters |-> {p1}, children |-> {p2}, defaults |-> <<d1, d2>>, selectable |-> {NoDir},
   unwritable |-> {d1}, timestamped |-> TRUE, dropMemory |-> FALSE,
   stopIfFull |-> TRUE, mayFill |-> TRUE, mayForce |-> TRUE, mebi |-> 1,
   maxLogSize |-> 2, flushBytes |-> 3, frequency |-> 2, headerLen |-> 1,
   msgLen |-> 1, maxLines |-> 2]

\* Two processes that log to the same file, which is truncated when it is full,
\* and do not drop its pages.
Sharing ==
  [Forking EXCEPT !.starters = {p1, p2}, !.children = {}, !.defaults = <<d1>>,
     !.selectable = {}, !.unwritable = {}, !.timestamped = FALSE,
     !.stopIfFull = FALSE, !.mayForce = FALSE, !.headerLen = 0, !.maxLines = 3]

\* A process that drops the pages of a growing file, with a directory that is
\* not writable, and has no child.
Growing ==
  [Forking EXCEPT !.children = {}, !.selectable = {d1, NoDir},
     !.dropMemory = TRUE, !.mayFill = FALSE, !.mayForce = FALSE, !.mebi = 2,
     !.maxLogSize = 8, !.flushBytes = 4, !.frequency = 3, !.msgLen = 3,
     !.maxLines = 7]

Programs == {Forking, Sharing, Growing}
=============================================================================
