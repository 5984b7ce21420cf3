---------------------------- MODULE AgentSession ----------------------------
(***************************************************************************)
(* What an agent session promises the senders of its messages, with no     *)
(* refcount, no hand-off queues, no tasks and no event loop.               *)
(*                                                                         *)
(* A turn is the interval during which some message is active.  A message  *)
(* that may join (MidTurn "accept") and arrives while a turn is open runs  *)
(* inside it; any other takes the next free slot and opens the turn of     *)
(* that number when its time comes.  Turns never overlap.  A session that  *)
(* closes stops only when no message is active; one that is aborted        *)
(* (cancelled, or failed in its setup) may stop at any point.              *)
(***************************************************************************)
EXTENDS Naturals, Sequences

CONSTANTS Message,   \* the messages senders may submit
          MidTurn    \* [Message -> {"accept", "queue", "reject"}]

VARIABLES turn,      \* number of the last turn opened
          active,    \* messages running inside the open turn
          queue,     \* messages waiting for a turn of their own
          slot,      \* the turn number each message was promised, 0 if none
          finished,  \* messages whose handler has ended
          closing,   \* no more messages are admitted, no more turns open
          stopped    \* the session is over

vars == <<turn, active, queue, slot, finished, closing, stopped>>

Init ==
  /\ turn = 0
  /\ active = {}
  /\ queue = << >>
  /\ slot = [m \in Message |-> 0]
  /\ finished = {}
  /\ closing = FALSE
  /\ stopped = FALSE

Joins(m) == MidTurn[m] = "accept" /\ active # {}

\* A session that runs on admits everyone but those who would not wait.
Admissible(m) ==
  /\ ~closing /\ ~stopped
  /\ MidTurn[m] = "reject" => active = {} /\ queue = << >>

Admit(m) ==
  /\ Admissible(m)
  /\ slot[m] = 0
  /\ IF Joins(m)
     THEN /\ active' = active \cup {m}
          /\ slot' = [slot EXCEPT ![m] = turn]
          /\ UNCHANGED queue
     ELSE /\ queue' = Append(queue, m)
          /\ slot' = [slot EXCEPT ![m] = turn + Len(queue) + 1]
          /\ UNCHANGED active
  /\ UNCHANGED <<turn, finished, closing, stopped>>

\* The head of the queue opens the turn it was promised, and nothing else is
\* running when it does.
OpenTurn ==
  /\ ~closing /\ ~stopped
  /\ active = {}
  /\ queue # << >>
  /\ slot[Head(queue)] = turn + 1
  /\ turn' = turn + 1
  /\ active' = {Head(queue)}
  /\ queue' = Tail(queue)
  /\ UNCHANGED <<slot, finished, closing, stopped>>

Finish(m) ==
  /\ ~stopped
  /\ m \in active
  /\ slot[m] = turn
  /\ active' = active \ {m}
  /\ finished' = finished \cup {m}
  /\ UNCHANGED <<turn, queue, slot, closing, stopped>>

Close ==
  /\ ~closing /\ ~stopped
  /\ closing' = TRUE
  /\ UNCHANGED <<turn, active, queue, slot, finished, stopped>>

\* An orderly end: whoever was running has finished.
Stop ==
  /\ closing /\ ~stopped
  /\ active = {}
  /\ stopped' = TRUE
  /\ UNCHANGED <<turn, active, queue, slot, finished, closing>>

Abort ==
  /\ ~stopped
  /\ stopped' = TRUE
  /\ UNCHANGED <<turn, active, queue, slot, finished, closing>>

Next ==
  \/ \E m \in Message : Admit(m) \/ Finish(m)
  \/ OpenTurn \/ Close \/ Stop \/ Abort

Spec == Init /\ [][Next]_vars

\* A message at the head of the queue is not left waiting on an idle session.
FairSpec == Spec /\ WF_vars(OpenTurn)
=============================================================================
