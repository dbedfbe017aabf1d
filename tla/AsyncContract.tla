---------------------------- MODULE AsyncContract ----------------------------
(***************************************************************************)
(* What the Async attribute promises, without a queue, a thread, a lock or *)
(* a condition variable: a message is accepted or sent by its call, sent   *)
(* once, after every message whose call had returned when its own began;   *)
(* whoever waits, waits for what was passed before; a program that has     *)
(* exited in order has sent everything; and what was passed is sent.       *)
(***************************************************************************)
CONSTANTS Thread, Message

VARIABLES
  held,    \* accepted and not sent
  sent,
  passed,  \* the messages whose call has returned
  earlier, \* earlier[m]: what had been passed when the call for m began
  waiting, \* the threads that wait for what was passed
  awaited, \* awaited[t]: what had been passed when the wait of t began
  abandoned, \* the message whose own sink called exit()
  closed,  \* exit() is past the logging thread
  alive

vars == <<held, sent, passed, earlier, waiting, awaited, abandoned, closed, alive>>

Init ==
  /\ held = {} /\ sent = {} /\ passed = {}
  /\ earlier = [m \in Message |-> {}]
  /\ waiting = {}
  /\ awaited = [t \in Thread |-> {}]
  /\ abandoned = {} /\ closed = FALSE /\ alive = TRUE

\* The call for a message begins.
Begin(m) ==
  /\ m \notin held \cup sent
  /\ earlier' = [earlier EXCEPT ![m] = passed]
  /\ UNCHANGED <<held, sent, passed, abandoned, closed, alive>>

\* A thread begins to wait, for a call of its own or for a fatal message.
BeginWait(t) ==
  /\ t \notin waiting
  /\ waiting' = waiting \cup {t}
  /\ awaited' = [awaited EXCEPT ![t] = passed]
  /\ UNCHANGED <<held, sent, passed, abandoned, closed, alive>>

\* Once exit() was called within a sink, the messages left are sent by the
\* thread that exits, and nobody is kept waiting for it.
Sent(messages) == messages \subseteq sent \/ abandoned # {}

\* Nothing that was passed before is left, but for what fork left to the
\* parent.
EndWait(t) ==
  /\ t \in waiting
  /\ Sent(awaited[t] \cap passed)
  /\ waiting' = waiting \ {t}
  /\ awaited' = [awaited EXCEPT ![t] = {}]
  /\ UNCHANGED <<held, sent, passed, earlier, abandoned, closed, alive>>

Accept(m) ==
  /\ m \notin held \cup sent
  /\ held' = held \cup {m}
  /\ UNCHANGED <<sent, passed, earlier, waiting, awaited, abandoned, closed, alive>>

InOrder(m) == Sent(earlier[m])

Send(m) ==
  /\ m \in held /\ InOrder(m)
  /\ held' = held \ {m}
  /\ sent' = sent \cup {m}
  /\ UNCHANGED <<passed, earlier, waiting, awaited, abandoned, closed, alive>>

\* The call that passed m returns.
Return(m) ==
  /\ m \in held \cup sent
  /\ passed' = passed \cup {m}
  /\ UNCHANGED <<held, sent, earlier, waiting, awaited, abandoned, closed, alive>>

\* The call sends the message itself, as the logging thread has ended.
SendInCall(m) ==
  /\ m \notin held \cup sent /\ InOrder(m)
  /\ sent' = sent \cup {m}
  /\ passed' = passed \cup {m}
  /\ UNCHANGED <<held, earlier, waiting, awaited, abandoned, closed, alive>>

\* The last message of the program.
SendFatal(m) ==
  /\ m \notin held \cup sent /\ InOrder(m)
  /\ sent' = sent \cup {m}
  /\ alive' = FALSE
  /\ UNCHANGED <<held, passed, earlier, waiting, awaited, abandoned, closed>>

\* exit() runs within the sinks of a message, which are not returned to.
Abandon(m) ==
  /\ m \in held
  /\ abandoned' = {m}
  /\ UNCHANGED <<held, sent, passed, earlier, waiting, awaited, closed, alive>>

\* exit() is past the logging thread: everything accepted has been sent.
Close ==
  /\ held \subseteq abandoned
  /\ closed' = TRUE
  /\ UNCHANGED <<held, sent, passed, earlier, waiting, awaited, abandoned, alive>>

End ==
  /\ alive' = FALSE
  /\ UNCHANGED <<held, sent, passed, earlier, waiting, awaited, abandoned, closed>>

\* The child has nothing to send, and what its parent has still to send is
\* not its to wait for.
Fork ==
  /\ held' = {} /\ waiting' = {} /\ abandoned' = {}
  /\ passed' = passed \cap sent
  /\ UNCHANGED <<sent, earlier, awaited, closed, alive>>

Next ==
  /\ alive
  /\ \/ \E m \in Message :
          \/ Begin(m) /\ UNCHANGED <<waiting, awaited>>
          \/ \E t \in Thread : Begin(m) /\ BeginWait(t)
          \/ Abandon(m) \/ Accept(m) \/ Send(m) \/ Return(m) \/ SendInCall(m) \/ SendFatal(m)
     \/ \E t \in Thread : (BeginWait(t) /\ UNCHANGED earlier) \/ EndWait(t)
     \/ Close \/ End \/ Fork

\* What was passed is sent, unless the process ends or the message is left to
\* the parent.
PassedIsSent ==
  \A m \in Message : m \in passed ~> (m \in sent \cup abandoned \/ m \notin passed \/ ~alive)

\* The contract without its promise that something happens.
SafeContract == Init /\ [][Next]_vars

Contract == Init /\ [][Next]_vars /\ PassedIsSent
=============================================================================
