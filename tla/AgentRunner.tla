---------------------------- MODULE AgentRunner ----------------------------
(***************************************************************************)
(* The turn loop of AgentWorkflowRunner and the turn state of              *)
(* _WorkflowStatus (harness/agent_workflow.py): admission of messages, the *)
(* refcounted turn, the loop that opens turns and spawns participants,     *)
(* mid-turn steering, the idle clock, close, cancellation.                 *)
(*                                                                         *)
(* The workflow is single threaded.  One action is the code between two    *)
(* awaits of one task: an update or signal handler, one pass of the loop,  *)
(* a participant's prologue or epilogue.  Update and signal handlers of    *)
(* one workflow task all run before the loop's wait condition is looked    *)
(* at, so the loop may lag behind any number of them.                      *)
(***************************************************************************)
EXTENDS Naturals, Sequences, FiniteSets

CONSTANTS
  Message,         \* messages that may be submitted, each at most once
  MidTurn,         \* what the handler of a message declares: mid_turn=
  SteeringId,      \* ids steer() may mint
  CloseAfterIdle,  \* TRUE when AgentConfig.close_after_idle is set
  CancelEscapes,   \* TRUE when a handler may let a CancelledError escape
  None             \* no turn, no message

ASSUME MessageAssumption ==
  /\ IsFiniteSet(Message)
  /\ MidTurn \in [Message -> {"accept", "queue", "reject"}]
  /\ None \notin Message
ASSUME FlagAssumption == CloseAfterIdle \in BOOLEAN /\ CancelEscapes \in BOOLEAN

VARIABLES
  phase,           \* where the workflow's main task is
  closeReason,     \* _WorkflowStatus.close_reason; also _closed (# "open")
  currentTurn,     \* _current_turn
  currentTurnId,   \* _current_turn_id
  participants,    \* _turn_participants
  pending,         \* _pending_turns
  joining,         \* the runner's _joining
  ready,           \* participant tasks created and not yet started
  task,            \* where each message's participant is
  admission,       \* the _Admission of each message
  steering,        \* the runner's _steering
  log              \* the agent's event stream, oldest first

turnVars == <<currentTurn, currentTurnId, participants>>
queueVars == <<pending, joining, ready>>
vars == <<phase, closeReason, turnVars, queueVars, task, admission, steering, log>>

----------------------------------------------------------------------------
(* Data *)

\* An id minted together with an admission is named by the message it was
\* minted for: the turn id of a message that takes a slot is that message.
TurnId == Message \cup {None}
Turn == [turn_id : TurnId, turn_number : Nat]
NoTurn == [turn_id |-> None, turn_number |-> 0]
Disposition == {"none", "opened", "queued", "joined"}
Admission == [turn : Turn, disposition : Disposition]
NotAdmitted == [turn |-> NoTurn, disposition |-> "none"]

Waiting == {"wait", "waitBusy", "waitIdle"}
Terminal == {"completed", "cancelled", "failed"}
Phase == {"setup", "drain", "teardown", "cancelling"} \cup Waiting \cup Terminal
TaskState == {"unsent", "pending", "joining", "spawned", "running", "finished", "abandoned"}

\* "message_handler_end" stands for message_handler_end and
\* message_handler_error alike: a participant publishes exactly one of them and
\* the runner goes on in the same way.
EventKind == {"message_accepted", "turn_started", "message_handler_start",
              "message_handler_end", "steering_enqueued", "steering_claimed",
              "steering_dropped", "turn_end", "agent_closed"}
Event == [kind : EventKind, turn : Turn, message : Message \cup {None},
          steering : Seq(SteeringId)]

\* _pub: the event in its envelope.
Ev(kind, turn, m) == [kind |-> kind, turn |-> turn, message |-> m, steering |-> << >>]
SteeringEv(kind, turn, m, ids) == [Ev(kind, turn, m) EXCEPT !.steering = ids]

----------------------------------------------------------------------------
(* State predicates of the code *)

Alive == phase \notin Terminal
Closed == closeReason # "open"
TurnActive == participants > 0
HasPendingWork == TurnActive \/ pending # << >>
\* Mutant: a turn opens although another is open.
CanOpenOverlapping == pending # << >>
CanOpenTurn == pending # << >> /\ ~TurnActive
Idle == ~HasPendingWork /\ joining = << >>
\* Mutant: the loop is not woken by a join.
HasWorkButJoins == CanOpenTurn \/ Closed
HasWork == CanOpenTurn \/ joining # << >> \/ Closed
ReserveTurnNumber == currentTurn + Len(pending) + 1

\* Messages holding a reference on the open turn.
Holding == {m \in Message : task[m] \in {"joining", "spawned", "running"}}

\* Ids steer() has already minted.
Minted == {s \in SteeringId : \E i \in DOMAIN log :
              log[i].kind = "steering_enqueued" /\ log[i].steering = <<s>>}

Init ==
  /\ phase = "setup"
  /\ closeReason = "open"
  /\ currentTurn = 0
  /\ currentTurnId = None
  /\ participants = 0
  /\ pending = << >>
  /\ joining = << >>
  /\ ready = << >>
  /\ task = [m \in Message |-> "unsent"]
  /\ admission = [m \in Message |-> NotAdmitted]
  /\ steering = << >>
  /\ log = << >>

----------------------------------------------------------------------------
(* Admission: the send_agent_message update, validator and handler in one  *)
(* workflow task with no await between them                                *)

\* _validate_send_agent_message: a message the validator rejects is never
\* admitted and leaves no trace.
Admissible(m) ==
  /\ Alive
  /\ task[m] = "unsent"
  /\ ~Closed
  /\ MidTurn[m] = "reject" => ~HasPendingWork

\* Mutant: a join takes no reference until its handler starts.
JoinWithoutReference == UNCHANGED turnVars

\* join_turn: the reference is taken here, not when the handler starts.
JoinTurn == participants' = participants + 1 /\ UNCHANGED <<currentTurn, currentTurnId>>

AdmitJoin(m) ==
  LET turn == [turn_id |-> currentTurnId, turn_number |-> currentTurn]
  IN  /\ Admissible(m)
      /\ MidTurn[m] = "accept" /\ TurnActive
      /\ JoinTurn
      /\ joining' = Append(joining, m)
      /\ task' = [task EXCEPT ![m] = "joining"]
      /\ admission' = [admission EXCEPT ![m] = [turn |-> turn, disposition |-> "joined"]]
      /\ log' = Append(log, Ev("message_accepted", turn, m))
      /\ UNCHANGED <<phase, closeReason, pending, ready, steering>>

AdmitQueue(m) ==
  LET turn == [turn_id |-> m, turn_number |-> ReserveTurnNumber]
  IN  /\ Admissible(m)
      /\ ~(MidTurn[m] = "accept" /\ TurnActive)
      /\ pending' = Append(pending, m)
      /\ task' = [task EXCEPT ![m] = "pending"]
      /\ admission' = [admission EXCEPT ![m] =
            [turn |-> turn, disposition |-> IF HasPendingWork THEN "queued" ELSE "opened"]]
      /\ log' = Append(log, Ev("message_accepted", turn, m))
      /\ UNCHANGED <<phase, closeReason, turnVars, joining, ready, steering>>

----------------------------------------------------------------------------
(* The main task: setup, the turn loop, the drain, teardown *)

\* _wait_for_work picks its wait from the state it is entered in.
WaitPhase(idle) ==
  IF ~CloseAfterIdle THEN "wait" ELSE IF idle THEN "waitIdle" ELSE "waitBusy"

FinishSetup ==
  /\ phase = "setup"
  /\ phase' = IF Closed THEN "drain" ELSE WaitPhase(Idle)
  /\ UNCHANGED <<closeReason, turnVars, queueVars, task, admission, steering, log>>

SetupFails ==
  /\ phase = "setup"
  /\ phase' = "failed"
  /\ UNCHANGED <<closeReason, turnVars, queueVars, task, admission, steering, log>>

\* The loop body on an agent that is not closed: spawn every join, then open
\* the next turn if none is open, then wait again.
InSeq(m, s) == \E i \in DOMAIN s : s[i] = m

Dispatch ==
  LET opener == IF CanOpenTurn THEN <<Head(pending)>> ELSE << >>
      spawned == joining \o opener
  IN  /\ joining' = << >>
      /\ ready' = ready \o spawned
      /\ task' = [m \in Message |-> IF InSeq(m, spawned) THEN "spawned" ELSE task[m]]
      /\ IF CanOpenTurn
         THEN LET turn == admission[Head(pending)].turn
              IN  /\ pending' = Tail(pending)
                  /\ currentTurn' = currentTurn + 1
                  /\ currentTurnId' = turn.turn_id
                  /\ participants' = 1
                  /\ log' = Append(log, Ev("turn_started", turn, None))
         ELSE UNCHANGED <<pending, turnVars, log>>
      /\ phase' = WaitPhase(FALSE)
      /\ UNCHANGED <<closeReason, admission, steering>>

\* Mutant: a busy agent's wait does not end when the agent goes idle.
WakeOnWorkOnly == phase \in Waiting /\ HasWork

\* The wait condition came true.
Wake ==
  \/ phase \in {"wait", "waitIdle"} /\ HasWork
  \/ phase = "waitBusy" /\ (HasWork \/ Idle)

RunLoop ==
  /\ Wake
  /\ \/ /\ Closed
        /\ phase' = "drain"
        /\ UNCHANGED <<closeReason, turnVars, queueVars, task, admission, steering, log>>
     \/ /\ ~Closed /\ ~Idle
        /\ Dispatch
     \/ /\ ~Closed /\ Idle
        /\ phase' = WaitPhase(TRUE)
        /\ UNCHANGED <<closeReason, turnVars, queueVars, task, admission, steering, log>>

\* close_after_idle ran out.  The agent closes only if it is still idle: a
\* message may have been admitted after the timer fired.
IdleTimeout ==
  /\ phase = "waitIdle"
  /\ \/ /\ Idle
        /\ closeReason' = IF Closed THEN closeReason ELSE "idle_timeout_expired"
        /\ phase' = "drain"
        /\ UNCHANGED <<turnVars, queueVars, task, admission, steering, log>>
     \/ /\ ~Idle /\ ~Closed
        /\ Dispatch
     \/ /\ ~Idle /\ Closed
        /\ phase' = "drain"
        /\ UNCHANGED <<closeReason, turnVars, queueVars, task, admission, steering, log>>

\* The close signal: the first reason sticks.
Close ==
  /\ Alive
  /\ closeReason' = IF Closed THEN closeReason ELSE "requested"
  /\ UNCHANGED <<phase, turnVars, queueVars, task, admission, steering, log>>

Drain ==
  /\ phase = "drain"
  /\ ~TurnActive
  /\ phase' = "teardown"
  /\ log' = Append(log, Ev("agent_closed", NoTurn, None))
  /\ UNCHANGED <<closeReason, turnVars, queueVars, task, admission, steering>>

\* A workflow cancellation reaches the main task at its await.  Teardown runs
\* only if setup had completed; participants are not cancelled and go on
\* until the workflow is over.
Cancel ==
  /\ phase \in {"setup", "drain", "teardown"} \cup Waiting
  /\ phase' = IF phase \in {"drain"} \cup Waiting THEN "cancelling" ELSE "cancelled"
  /\ UNCHANGED <<closeReason, turnVars, queueVars, task, admission, steering, log>>

FinishTeardown ==
  /\ phase \in {"teardown", "cancelling"}
  /\ phase' = IF phase = "teardown" THEN "completed" ELSE "cancelled"
  /\ UNCHANGED <<closeReason, turnVars, queueVars, task, admission, steering, log>>

----------------------------------------------------------------------------
(* Participants *)

\* Mutant: the newest task starts first.
StartNewestHandler ==
  /\ Alive
  /\ ready # << >>
  /\ LET m == ready[Len(ready)]
     IN  /\ task' = [task EXCEPT ![m] = "running"]
         /\ log' = Append(log, Ev("message_handler_start", admission[m].turn, m))
  /\ ready' = SubSeq(ready, 1, Len(ready) - 1)
  /\ UNCHANGED <<phase, closeReason, turnVars, pending, joining, admission, steering>>

\* asyncio starts the tasks the loop created in the order it created them.
StartHandler ==
  /\ Alive
  /\ ready # << >>
  /\ LET m == Head(ready)
     IN  /\ task' = [task EXCEPT ![m] = "running"]
         /\ log' = Append(log, Ev("message_handler_start", admission[m].turn, m))
  /\ ready' = Tail(ready)
  /\ UNCHANGED <<phase, closeReason, turnVars, pending, joining, admission, steering>>

LastOut == participants <= 1

\* leave_turn: the turn id is cleared at zero and not before.
LeaveTurn ==
  /\ participants' = IF LastOut THEN 0 ELSE participants - 1
  /\ currentTurnId' = IF LastOut THEN None ELSE currentTurnId
  /\ UNCHANGED currentTurn

\* Mutant: steering left in the queue is not reported.
EpilogueForgettingSteering(turn) == <<Ev("turn_end", turn, None)>>

\* What the last participant out publishes, after its own handler event.
TurnEpilogue(turn) ==
  (IF steering = << >> THEN << >>
                       ELSE <<SteeringEv("steering_dropped", turn, None, steering)>>)
  \o <<Ev("turn_end", turn, None)>>

FinishHandler(m) ==
  /\ Alive
  /\ task[m] = "running"
  /\ task' = [task EXCEPT ![m] = "finished"]
  /\ LeaveTurn
  /\ log' = log \o <<Ev("message_handler_end", admission[m].turn, m)>>
                \o (IF LastOut THEN TurnEpilogue(admission[m].turn) ELSE << >>)
  /\ steering' = IF LastOut THEN << >> ELSE steering
  /\ UNCHANGED <<phase, closeReason, queueVars, admission>>

\* A BaseException leaves the handler: the reference is dropped and nothing is
\* published.
AbandonHandler(m) ==
  /\ Alive /\ CancelEscapes
  /\ task[m] = "running"
  /\ task' = [task EXCEPT ![m] = "abandoned"]
  /\ LeaveTurn
  /\ UNCHANGED <<phase, closeReason, queueVars, admission, steering, log>>

\* runner.steer, called by a handler.
Steer(m, s) ==
  /\ Alive
  /\ task[m] = "running"
  /\ s \notin Minted
  /\ steering' = Append(steering, s)
  /\ log' = Append(log, SteeringEv("steering_enqueued", admission[m].turn, m, <<s>>))
  /\ UNCHANGED <<phase, closeReason, turnVars, queueVars, task, admission>>

\* runner.claim_steering, called by a handler outside any tool call.
ClaimSteering(m) ==
  /\ Alive
  /\ task[m] = "running"
  /\ steering # << >>
  /\ steering' = << >>
  /\ log' = Append(log, SteeringEv("steering_claimed", admission[m].turn, m, steering))
  /\ UNCHANGED <<phase, closeReason, turnVars, queueVars, task, admission>>

Next ==
  \/ FinishSetup \/ SetupFails \/ RunLoop \/ IdleTimeout \/ Close \/ Drain
  \/ Cancel \/ FinishTeardown \/ StartHandler
  \/ \E m \in Message :
       \/ AdmitJoin(m) \/ AdmitQueue(m)
       \/ FinishHandler(m) \/ AbandonHandler(m) \/ ClaimSteering(m)
       \/ \E s \in SteeringId : Steer(m, s)

Spec == Init /\ [][Next]_vars

----------------------------------------------------------------------------
(* Type correctness and the refcount *)

\* Every variable holds what the code may put there.
TypeOK ==
  /\ phase \in Phase
  /\ closeReason \in {"open", "requested", "idle_timeout_expired"}
  /\ currentTurn \in Nat
  /\ currentTurnId \in TurnId
  /\ participants \in Nat
  /\ pending \in Seq(Message)
  /\ joining \in Seq(Message)
  /\ ready \in Seq(Message)
  /\ task \in [Message -> TaskState]
  /\ admission \in [Message -> Admission]
  /\ steering \in Seq(SteeringId)
  /\ log \in Seq(Event)

\* The refcount is the number of messages that hold the turn: those waiting to
\* be spawned, created but not started, and running.  A turn id is set exactly
\* while it is positive (open_next_turn, join_turn, leave_turn).
RefcountExact ==
  /\ participants = Cardinality(Holding)
  /\ currentTurnId = None <=> participants = 0

\* Every message that holds the open turn was told, when it was admitted, that
\* turn's id and number.
HoldersShareTurn ==
  \A m \in Holding :
    admission[m].turn = [turn_id |-> currentTurnId, turn_number |-> currentTurn]

\* The i-th message in the queue will get the number it was promised: a queued
\* sender's reply names its own turn (reserve_turn_number).
SlotsReserved ==
  \A i \in DOMAIN pending :
    admission[pending[i]].turn = [turn_id |-> pending[i], turn_number |-> currentTurn + i]

\* The turn is accounted for: by count, by the handle each sender was given, and by
\* the numbers that are promised and not open yet.
TurnAccounting == RefcountExact /\ HoldersShareTurn /\ SlotsReserved

\* The two hand-off queues and the ready queue hold each message once, and only
\* messages whose participant is in that state.
QueuesMatchTasks ==
  /\ \A i \in DOMAIN pending : task[pending[i]] = "pending"
  /\ \A i, j \in DOMAIN pending : pending[i] = pending[j] => i = j
  /\ \A i \in DOMAIN joining : task[joining[i]] = "joining"
  /\ \A i, j \in DOMAIN joining : joining[i] = joining[j] => i = j
  /\ \A i \in DOMAIN ready : task[ready[i]] = "spawned"
  /\ \A i, j \in DOMAIN ready : ready[i] = ready[j] => i = j

\* Only a closed agent drains, only an idle one is torn down after a drain, and
\* a message that was never admitted has no turn.
PhasesConsistent ==
  /\ phase \in {"drain", "teardown"} => Closed
  /\ phase = "teardown" => participants = 0
  /\ \A m \in Message : task[m] = "unsent" => admission[m] = NotAdmitted

\* The inductive invariant of the turn state.
TurnInv ==
  /\ TypeOK
  /\ RefcountExact
  /\ HoldersShareTurn
  /\ SlotsReserved
  /\ QueuesMatchTasks
  /\ PhasesConsistent

----------------------------------------------------------------------------
(* What a reader of the event stream may rely on *)

Events(kind) == {i \in DOMAIN log : log[i].kind = kind}
HandlerEvents == Events("message_handler_start") \cup Events("message_handler_end")
SteeringEvents == UNION {Events(k) : k \in {"steering_enqueued", "steering_claimed",
                                            "steering_dropped"}}
Settlements == Events("steering_claimed") \cup Events("steering_dropped")

\* Turn brackets neither nest nor overlap, and every event of a handler and of
\* steering lies inside the bracket of its own turn.
BracketsWellFormed ==
  /\ \A i, j \in Events("turn_started") : i < j =>
       \E k \in Events("turn_end") : i < k /\ k < j /\ log[k].turn = log[i].turn
  /\ \A k \in HandlerEvents \cup SteeringEvents :
       \E i \in Events("turn_started") :
         /\ i < k /\ log[i].turn = log[k].turn
         /\ \A j \in Events("turn_end") : log[j].turn = log[k].turn => k < j

\* turn_end is the quiescence signal: every message ever accepted into that turn
\* was accepted, started and ended before it.
TurnEndIsQuiescence ==
  \A k \in Events("turn_end") : \A i \in Events("message_accepted") :
    log[i].turn = log[k].turn =>
      \E j \in Events("message_handler_end") : i < j /\ j < k /\ log[j].message = log[i].message

\* Handlers sharing a turn start in the order their messages were accepted.
StartsInAdmissionOrder ==
  \A i, j \in Events("message_handler_start") :
    i < j /\ log[i].turn = log[j].turn =>
      \E a, b \in Events("message_accepted") :
        /\ log[a].message = log[i].message
        /\ log[b].message = log[j].message
        /\ a < b

\* "exactly one later steering_claimed or steering_dropped lists it": never two,
\* never before it was enqueued, and one by the time its turn has ended.
SteeringSettledOnce ==
  \A i \in Events("steering_enqueued") :
    LET s == log[i].steering[1]
        settled == {k \in Settlements : InSeq(s, log[k].steering)}
    IN  /\ Cardinality(settled) <= 1
        /\ \A k \in settled : i < k
        /\ \A k \in Events("turn_end") : log[k].turn = log[i].turn =>
             \E j \in settled : j < k

\* agent_closed is the last thing an agent publishes, and it never cuts a turn.
ClosedIsLast ==
  \A i \in Events("agent_closed") :
    i = Len(log) /\ Cardinality(Events("turn_started")) = Cardinality(Events("turn_end"))

\* The stream reads as turns, one after the other, each over when everything in it is.
StreamWellFormed ==
  BracketsWellFormed /\ TurnEndIsQuiescence /\ StartsInAdmissionOrder /\ ClosedIsLast

----------------------------------------------------------------------------
(* The session the runner implements *)

Session == INSTANCE AgentSession WITH
  turn <- currentTurn,
  active <- Holding,
  queue <- pending,
  slot <- [m \in Message |-> admission[m].turn.turn_number],
  finished <- {m \in Message : task[m] \in {"finished", "abandoned"}},
  closing <- Closed,
  stopped <- phase \in {"teardown"} \cup Terminal

\* The refcount, the two hand-off queues, the tasks and the loop together
\* implement the turns of AgentSession.
ImplementsSession == Session!Spec

----------------------------------------------------------------------------
(* Liveness.  The event loop runs every task that is ready; a timer that is  *)
(* armed fires; the author's setup, teardown and handlers return.            *)

Fairness ==
  /\ WF_vars(FinishSetup \/ SetupFails)
  /\ WF_vars(RunLoop)
  /\ WF_vars(IdleTimeout)
  /\ WF_vars(Drain)
  /\ WF_vars(FinishTeardown)
  /\ WF_vars(StartHandler)
  /\ \A m \in Message : WF_vars(FinishHandler(m) \/ AbandonHandler(m))

FairSpec == Spec /\ Fairness

\* A queued message never waits for ever behind an idle agent.
SessionProgress == Session!FairSpec

\* Every admitted message is run, unless the agent is closed or cancelled first.
AdmittedIsRun ==
  \A m \in Message :
    task[m] \in {"pending", "joining"}
      ~> task[m] \in {"finished", "abandoned"} \/ Closed \/ phase = "cancelling" \/ ~Alive

\* No message waits for ever, in the queue or for the turn it was taken into.
MessagesAreRun == SessionProgress /\ AdmittedIsRun

\* With close_after_idle set, an agent does not stay open for ever: it is busy
\* for ever, or it closes and completes (or was stopped otherwise).
IdleAgentCloses == CloseAfterIdle => <>(~Alive \/ (Closed /\ joining # << >>))

\* A closed agent completes, unless the close reached it with a join not yet
\* handed to a task.
CloseCompletes == Closed ~> ~Alive \/ joining # << >>

\* An agent left alone comes to its end, by its idle clock and by its close.
AgentEnds == IdleAgentCloses /\ CloseCompletes

\* "On close, the loop waits for in-flight participants to finish before
\* returning, so a joined handler's work is never silently discarded."
JoinedIsRun ==
  \A m \in Message :
    task[m] = "joining" ~> task[m] \in {"finished", "abandoned"} \/ ~Alive
=============================================================================
