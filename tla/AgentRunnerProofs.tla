------------------------- MODULE AgentRunnerProofs -------------------------
(***************************************************************************)
(* Proofs about AgentRunner for every set of messages: the type invariant, *)
(* the refcount and the turn numbers, what the event stream says, and that *)
(* the runner implements AgentSession.                                     *)
(***************************************************************************)
EXTENDS AgentRunner, TLAPS, FiniteSetTheorems, SequenceTheorems

USE DEF turnVars, queueVars

----------------------------------------------------------------------------
(* Type correctness *)

\* The events the runner publishes are events.
LEMMA EvType ==
  ASSUME NEW kind \in EventKind, NEW turn \in Turn, NEW m \in Message \cup {None},
         NEW ids \in Seq(SteeringId)
  PROVE  Ev(kind, turn, m) \in Event /\ SteeringEv(kind, turn, m, ids) \in Event
  BY EmptySeq DEF Ev, SteeringEv, Event

\* Publishing one event keeps the log a sequence of events.
LEMMA LogType ==
  ASSUME TypeOK, NEW e \in Event
  PROVE  Append(log, e) \in Seq(Event) /\ <<e>> \in Seq(Event) /\ log \o <<e>> \in Seq(Event)
  BY DEF TypeOK

LEMMA InitType == Init => TypeOK
  BY EmptySeq, MessageAssumption
  DEF Init, TypeOK, Phase, TaskState, Admission, NotAdmitted, NoTurn, Turn, TurnId, Disposition

\* The loop body keeps every variable in its type.
LEMMA DispatchType ==
  ASSUME TypeOK, phase \in Waiting, Dispatch
  PROVE  TypeOK'
<1> DEFINE opener == IF CanOpenTurn THEN <<Head(pending)>> ELSE << >>
           spawned == joining \o opener
<1>1. CanOpenTurn => Head(pending) \in Message /\ Tail(pending) \in Seq(Message)
  BY HeadTailProperties DEF TypeOK, CanOpenTurn
<1>2. opener \in Seq(Message)
  BY <1>1, EmptySeq
<1>3. ready' \in Seq(Message)
  BY <1>2, ConcatProperties DEF Dispatch, TypeOK
<1>4. task' \in [Message -> TaskState]
  BY DEF Dispatch, TypeOK, TaskState
<1>5. joining' \in Seq(Message) /\ pending' \in Seq(Message)
  BY <1>1, EmptySeq DEF Dispatch, TypeOK
<1>6. CanOpenTurn => admission[Head(pending)].turn \in Turn
  BY <1>1 DEF TypeOK, Admission
<1>7. currentTurn' \in Nat /\ currentTurnId' \in TurnId /\ participants' \in Nat
  BY <1>6 DEF Dispatch, TypeOK, Turn
<1>8. log' \in Seq(Event)
  <2>1. CASE CanOpenTurn
    <3>1. Ev("turn_started", admission[Head(pending)].turn, None) \in Event
      BY <1>6, <2>1, EvType, EmptySeq DEF EventKind
    <3>2. QED
      BY <3>1, <2>1, LogType DEF Dispatch
  <2>2. CASE ~CanOpenTurn
    BY <2>2 DEF Dispatch, TypeOK
  <2>3. QED BY <2>1, <2>2
<1>9. phase' \in Phase
  BY DEF Dispatch, WaitPhase, Phase, Waiting
<1>10. QED
  BY <1>3, <1>4, <1>5, <1>7, <1>8, <1>9 DEF Dispatch, TypeOK

LEMMA NextType == TypeOK /\ [Next]_vars => TypeOK'
<1> SUFFICES ASSUME TypeOK, [Next]_vars PROVE TypeOK'
  OBVIOUS
<1>1. CASE UNCHANGED vars
  BY <1>1 DEF vars, TypeOK
<1>2. CASE FinishSetup
  BY <1>2 DEF FinishSetup, TypeOK, WaitPhase, Phase, Waiting
<1>3. CASE SetupFails
  BY <1>3 DEF SetupFails, TypeOK, Phase, Terminal
<1>4. CASE RunLoop
  <2>1. CASE Dispatch
    BY <2>1, <1>4, DispatchType DEF RunLoop, Wake, Waiting
  <2>2. CASE ~Dispatch
    BY <1>4, <2>2 DEF RunLoop, TypeOK, WaitPhase, Phase, Waiting
  <2>3. QED BY <2>1, <2>2
<1>5. CASE IdleTimeout
  <2>1. CASE Dispatch
    BY <2>1, <1>5, DispatchType DEF IdleTimeout, Waiting
  <2>2. CASE ~Dispatch
    BY <1>5, <2>2 DEF IdleTimeout, TypeOK, Phase
  <2>3. QED BY <2>1, <2>2
<1>6. CASE Close
  BY <1>6 DEF Close, TypeOK
<1>7. CASE Drain
  <2>1. Ev("agent_closed", NoTurn, None) \in Event
    BY EvType, EmptySeq DEF EventKind, NoTurn, Turn, TurnId
  <2>2. log' \in Seq(Event)
    BY <1>7, <2>1, LogType DEF Drain
  <2>3. QED
    BY <1>7, <2>2 DEF Drain, TypeOK, Phase
<1>8. CASE Cancel
  BY <1>8 DEF Cancel, TypeOK, Phase, Terminal
<1>9. CASE FinishTeardown
  BY <1>9 DEF FinishTeardown, TypeOK, Phase, Terminal
<1>10. CASE StartHandler
  <2> DEFINE m == Head(ready)
  <2>1. m \in Message /\ Tail(ready) \in Seq(Message)
    BY <1>10, HeadTailProperties DEF StartHandler, TypeOK
  <2>2. Ev("message_handler_start", admission[m].turn, m) \in Event
    BY <2>1, EvType, EmptySeq DEF TypeOK, Admission, EventKind
  <2>3. log' \in Seq(Event)
    BY <1>10, <2>2, LogType DEF StartHandler
  <2>4. QED
    BY <1>10, <2>1, <2>3 DEF StartHandler, TypeOK, TaskState
<1>11. ASSUME NEW m \in Message, AdmitJoin(m) PROVE TypeOK'
  <2> DEFINE turn == [turn_id |-> currentTurnId, turn_number |-> currentTurn]
  <2>1. turn \in Turn
    BY DEF TypeOK, Turn
  <2>2. log' \in Seq(Event)
    BY <1>11, <2>1, EvType, EmptySeq, LogType DEF AdmitJoin, EventKind
  <2>3. joining' \in Seq(Message)
    BY <1>11, AppendProperties DEF AdmitJoin, TypeOK
  <2>4. admission' \in [Message -> Admission] /\ task' \in [Message -> TaskState]
    BY <1>11, <2>1 DEF AdmitJoin, TypeOK, Admission, Disposition, TaskState
  <2>5. QED
    BY <1>11, <2>2, <2>3, <2>4 DEF AdmitJoin, JoinTurn, TypeOK
<1>12. ASSUME NEW m \in Message, AdmitQueue(m) PROVE TypeOK'
  <2> DEFINE turn == [turn_id |-> m, turn_number |-> ReserveTurnNumber]
  <2>1. turn \in Turn
    BY LenProperties DEF TypeOK, Turn, TurnId, ReserveTurnNumber
  <2>2. log' \in Seq(Event)
    BY <1>12, <2>1, EvType, EmptySeq, LogType DEF AdmitQueue, EventKind
  <2>3. pending' \in Seq(Message)
    BY <1>12, AppendProperties DEF AdmitQueue, TypeOK
  <2>4. admission' \in [Message -> Admission] /\ task' \in [Message -> TaskState]
    BY <1>12, <2>1 DEF AdmitQueue, TypeOK, Admission, Disposition, TaskState
  <2>5. QED
    BY <1>12, <2>2, <2>3, <2>4 DEF AdmitQueue, TypeOK
<1>13. ASSUME NEW m \in Message, FinishHandler(m) PROVE TypeOK'
  <2> DEFINE turn == admission[m].turn
  <2>1. turn \in Turn
    BY DEF TypeOK, Admission
  <2>2. Ev("message_handler_end", turn, m) \in Event /\ Ev("turn_end", turn, None) \in Event
        /\ SteeringEv("steering_dropped", turn, None, steering) \in Event
    BY <2>1, EvType, EmptySeq DEF EventKind, TypeOK
  <2>3. TurnEpilogue(turn) \in Seq(Event)
    BY <2>2, EmptySeq, ConcatProperties DEF TurnEpilogue
  <2>4. log' \in Seq(Event)
    BY <1>13, <2>2, <2>3, LogType, EmptySeq, ConcatProperties DEF FinishHandler
  <2>5. QED
    BY <1>13, <2>4, EmptySeq
    DEF FinishHandler, LeaveTurn, LastOut, TypeOK, TaskState, TurnId
<1>14. ASSUME NEW m \in Message, AbandonHandler(m) PROVE TypeOK'
  BY <1>14 DEF AbandonHandler, LeaveTurn, LastOut, TypeOK, TaskState, TurnId
<1>15. ASSUME NEW m \in Message, ClaimSteering(m) PROVE TypeOK'
  <2>1. SteeringEv("steering_claimed", admission[m].turn, m, steering) \in Event
    BY EvType DEF EventKind, TypeOK, Admission
  <2>2. log' \in Seq(Event)
    BY <1>15, <2>1, LogType DEF ClaimSteering
  <2>3. QED
    BY <1>15, <2>2, EmptySeq DEF ClaimSteering, TypeOK
<1>16. ASSUME NEW m \in Message, NEW s \in SteeringId, Steer(m, s) PROVE TypeOK'
  <2>1. <<s>> \in Seq(SteeringId)
    OBVIOUS
  <2>2. SteeringEv("steering_enqueued", admission[m].turn, m, <<s>>) \in Event
    BY <2>1, EvType DEF EventKind, TypeOK, Admission
  <2>3. log' \in Seq(Event)
    BY <1>16, <2>2, LogType DEF Steer
  <2>4. QED
    BY <1>16, <2>3, AppendProperties DEF Steer, TypeOK
<1>17. QED
  BY <1>1, <1>2, <1>3, <1>4, <1>5, <1>6, <1>7, <1>8, <1>9, <1>10, <1>11, <1>12, <1>13,
     <1>14, <1>15, <1>16 DEF Next

\* Every variable keeps its type, whatever messages arrive in whatever order.
THEOREM TypeCorrect == Spec => []TypeOK
<1>1. QED
  BY InitType, NextType, PTL DEF Spec

----------------------------------------------------------------------------
(* The refcount, the turn numbers and the queues *)

\* The messages holding the turn are finitely many, and their number is zero
\* exactly when there is none.
LEMMA HoldingFinite ==
  /\ IsFiniteSet(Holding)
  /\ Cardinality(Holding) \in Nat
  /\ Cardinality(Holding) = 0 <=> Holding = {}
<1>1. IsFiniteSet(Holding)
  BY MessageAssumption, FS_Subset DEF Holding
<1>2. QED
  BY <1>1, FS_EmptySet, FS_CardinalityType

\* An element of a queue that took one element off its front, and of one that
\* had one appended, was there before or is the new one.
LEMMA TailElements ==
  ASSUME NEW S, NEW s \in Seq(S), s # << >>
  PROVE  /\ Tail(s) \in Seq(S)
         /\ DOMAIN Tail(s) = 1 .. (Len(s) - 1)
         /\ \A i \in DOMAIN Tail(s) : i + 1 \in DOMAIN s /\ Tail(s)[i] = s[i + 1]
         /\ 1 \in DOMAIN s /\ Head(s) = s[1] /\ Head(s) \in S
  BY HeadTailProperties, LenProperties, EmptySeq

LEMMA AppendElements ==
  ASSUME NEW S, NEW s \in Seq(S), NEW e \in S
  PROVE  /\ Append(s, e) \in Seq(S)
         /\ DOMAIN Append(s, e) = 1 .. (Len(s) + 1)
         /\ \A i \in DOMAIN Append(s, e) :
              \/ i \in DOMAIN s /\ Append(s, e)[i] = s[i]
              \/ i = Len(s) + 1 /\ Append(s, e)[i] = e
  BY AppendProperties, LenProperties

LEMMA InitInv == Init => TurnInv
<1> SUFFICES ASSUME Init PROVE TurnInv
  OBVIOUS
<1>1. TypeOK
  BY InitType
<1>2. Holding = {}
  BY DEF Init, Holding
<1>3. RefcountExact
  BY <1>2, FS_EmptySet DEF Init, RefcountExact
<1>4. HoldersShareTurn /\ SlotsReserved /\ QueuesMatchTasks /\ PhasesConsistent
  BY <1>2 DEF Init, HoldersShareTurn, SlotsReserved, QueuesMatchTasks, PhasesConsistent
<1>5. QED
  BY <1>1, <1>3, <1>4 DEF TurnInv

\* Steps that touch neither a turn, a queue, a task nor an admission.
LEMMA FrameInv ==
  ASSUME TurnInv, TypeOK',
         UNCHANGED <<turnVars, queueVars, task, admission>>,
         phase' \in {"drain", "teardown"} => closeReason' # "open",
         phase' = "teardown" => participants = 0
  PROVE  TurnInv'
<1>1. Holding' = Holding
  BY DEF Holding
<1>2. QED
  BY <1>1 DEF TurnInv, RefcountExact, HoldersShareTurn, SlotsReserved, QueuesMatchTasks,
              PhasesConsistent, Closed

\* A message may take a reference on the open turn; it is then told that turn.
LEMMA AdmitJoinInv ==
  ASSUME TurnInv, TypeOK', NEW m \in Message, AdmitJoin(m)
  PROVE  TurnInv'
<1> USE DEF TurnInv
<1>1. m \notin Holding /\ task[m] = "unsent"
  BY DEF AdmitJoin, Admissible, Holding
<1>2. Holding' = Holding \cup {m}
  BY DEF AdmitJoin, Holding, TypeOK
<1>a. Cardinality(Holding') = Cardinality(Holding) + 1
  BY <1>1, <1>2, HoldingFinite, FS_AddElement
<1>3. RefcountExact'
  BY <1>a DEF AdmitJoin, JoinTurn, RefcountExact, TurnActive, TypeOK
<1>4. HoldersShareTurn'
  BY <1>2 DEF AdmitJoin, JoinTurn, HoldersShareTurn, TypeOK, Holding
<1>5. SlotsReserved'
  BY <1>1, LenProperties
  DEF AdmitJoin, JoinTurn, SlotsReserved, QueuesMatchTasks, TypeOK
<1>6. QueuesMatchTasks'
  BY <1>1, AppendElements, LenProperties DEF AdmitJoin, QueuesMatchTasks, TypeOK
<1>7. PhasesConsistent'
  BY DEF AdmitJoin, Admissible, PhasesConsistent, TypeOK, Closed
<1>8. QED
  BY <1>3, <1>4, <1>5, <1>6, <1>7

\* A message that takes a slot is told the number it will have at the end of
\* the queue.
LEMMA AdmitQueueInv ==
  ASSUME TurnInv, TypeOK', NEW m \in Message, AdmitQueue(m)
  PROVE  TurnInv'
<1> USE DEF TurnInv
<1>1. m \notin Holding /\ task[m] = "unsent"
  BY DEF AdmitQueue, Admissible, Holding
<1>2. Holding' = Holding
  BY <1>1 DEF AdmitQueue, Holding, TypeOK
<1>3. RefcountExact'
  BY <1>2 DEF AdmitQueue, RefcountExact
<1>4. HoldersShareTurn'
  BY <1>1, <1>2 DEF AdmitQueue, HoldersShareTurn, TypeOK, Holding
<1>5. SlotsReserved'
  <2> SUFFICES ASSUME NEW i \in DOMAIN pending'
               PROVE  admission'[pending'[i]].turn
                        = [turn_id |-> pending'[i], turn_number |-> currentTurn' + i]
    BY DEF SlotsReserved
  <2>1. CASE i \in DOMAIN pending /\ pending'[i] = pending[i]
    <3>1. pending[i] # m /\ pending[i] \in Message
      BY <1>1, <2>1, LenProperties DEF QueuesMatchTasks, TypeOK
    <3>2. QED
      BY <2>1, <3>1 DEF AdmitQueue, SlotsReserved, TypeOK
  <2>2. CASE i = Len(pending) + 1 /\ pending'[i] = m
    BY <2>2, LenProperties DEF AdmitQueue, ReserveTurnNumber, TypeOK
  <2>3. QED
    BY <2>1, <2>2, AppendElements DEF AdmitQueue, TypeOK
<1>6. QueuesMatchTasks'
  BY <1>1, AppendElements, LenProperties DEF AdmitQueue, QueuesMatchTasks, TypeOK
<1>7. PhasesConsistent'
  BY DEF AdmitQueue, Admissible, PhasesConsistent, TypeOK, Closed
<1>8. QED
  BY <1>3, <1>4, <1>5, <1>6, <1>7

\* The loop body hands the turn to tasks: spawning keeps the holders, opening
\* makes the head of the queue the only one.
LEMMA DispatchInv ==
  ASSUME TurnInv, TypeOK', phase \in Waiting, Dispatch
  PROVE  TurnInv'
<1> USE DEF TurnInv
<1> DEFINE head == Head(pending)
           opener == IF CanOpenTurn THEN <<head>> ELSE << >>
           spawned == joining \o opener
<1>1. CanOpenTurn => /\ pending # << >> /\ head \in Message /\ head = pending[1]
                     /\ task[head] = "pending" /\ Holding = {}
  BY TailElements, HoldingFinite
  DEF CanOpenTurn, TurnActive, TypeOK, QueuesMatchTasks, RefcountExact
<1>2. opener \in Seq(Message) /\ joining \in Seq(Message) /\ ready \in Seq(Message)
      /\ spawned \in Seq(Message)
  BY <1>1, EmptySeq, ConcatProperties DEF TypeOK
<1>3. \A i \in DOMAIN spawned :
        \/ i \in DOMAIN joining /\ spawned[i] = joining[i]
        \/ i = Len(joining) + 1 /\ CanOpenTurn /\ spawned[i] = head
  BY <1>2, ConcatProperties, LenProperties
<1>4. DOMAIN spawned = 1 .. (Len(joining) + Len(opener)) /\ Len(joining) \in Nat
      /\ Len(opener) = IF CanOpenTurn THEN 1 ELSE 0
  BY <1>2, ConcatProperties, LenProperties
<1>5. \A m \in Message : InSeq(m, spawned) =>
        task[m] = "joining" \/ (CanOpenTurn /\ m = head)
  BY <1>3 DEF InSeq, QueuesMatchTasks
<1>6. \A m \in Message : task'[m] = IF InSeq(m, spawned) THEN "spawned" ELSE task[m]
  BY DEF Dispatch
<1>7. CanOpenTurn => InSeq(head, spawned)
  <2> SUFFICES ASSUME CanOpenTurn PROVE InSeq(head, spawned)
    OBVIOUS
  <2>1. spawned[Len(joining) + 1] = head
    BY <1>2, <1>4, ConcatProperties, LenProperties
  <2>2. QED
    BY <2>1, <1>4 DEF InSeq
<1>8. CanOpenTurn => Holding' = {head}
  BY <1>1, <1>5, <1>6, <1>7 DEF Holding
<1>9. ~CanOpenTurn => Holding' = Holding
  BY <1>5, <1>6 DEF Holding
<1>10. RefcountExact'
  <2>1. CASE CanOpenTurn
    <3>1. admission[head].turn = [turn_id |-> head, turn_number |-> currentTurn + 1]
      BY <2>1, <1>1, TailElements DEF SlotsReserved, TypeOK
    <3>2. participants' = 1 /\ currentTurnId' = head
      BY <2>1, <3>1 DEF Dispatch
    <3>3. Cardinality(Holding') = 1
      BY <2>1, <1>8, FS_Singleton
    <3>4. QED
      BY <3>2, <3>3, <2>1, <1>1, MessageAssumption DEF RefcountExact
  <2>2. CASE ~CanOpenTurn
    BY <2>2, <1>9 DEF Dispatch, RefcountExact
  <2>3. QED BY <2>1, <2>2
<1>11. HoldersShareTurn'
  <2>1. CASE CanOpenTurn
    <3>1. admission[head].turn = [turn_id |-> head, turn_number |-> currentTurn + 1]
      BY <2>1, <1>1, TailElements DEF SlotsReserved, TypeOK
    <3>2. QED
      BY <2>1, <3>1, <1>8 DEF Dispatch, HoldersShareTurn
  <2>2. CASE ~CanOpenTurn
    BY <2>2, <1>9 DEF Dispatch, HoldersShareTurn
  <2>3. QED BY <2>1, <2>2
<1>12. SlotsReserved'
  <2>1. CASE CanOpenTurn
    <3> SUFFICES ASSUME NEW i \in DOMAIN Tail(pending)
                 PROVE  admission[Tail(pending)[i]].turn
                          = [turn_id |-> Tail(pending)[i], turn_number |-> (currentTurn + 1) + i]
      BY <2>1 DEF Dispatch, SlotsReserved
    <3>1. i \in Nat /\ i + 1 \in DOMAIN pending /\ Tail(pending)[i] = pending[i + 1]
      BY <2>1, <1>1, TailElements, LenProperties DEF TypeOK
    <3>2. admission[pending[i + 1]].turn
            = [turn_id |-> pending[i + 1], turn_number |-> currentTurn + (i + 1)]
      BY <3>1 DEF SlotsReserved
    <3>3. currentTurn + (i + 1) = (currentTurn + 1) + i
      BY <3>1 DEF TypeOK
    <3>4. QED
      BY <3>1, <3>2, <3>3
  <2>2. CASE ~CanOpenTurn
    BY <2>2 DEF Dispatch, SlotsReserved
  <2>3. QED BY <2>1, <2>2
<1>13. QueuesMatchTasks'
  <2>1. /\ \A i \in DOMAIN pending' : task'[pending'[i]] = "pending"
        /\ \A i, j \in DOMAIN pending' : pending'[i] = pending'[j] => i = j
    <3>1. CASE CanOpenTurn
      <4>1. \A i \in DOMAIN Tail(pending) :
              /\ i \in Nat /\ i + 1 \in DOMAIN pending /\ Tail(pending)[i] = pending[i + 1]
              /\ pending[i + 1] \in Message /\ pending[i + 1] # head
              /\ task[pending[i + 1]] = "pending"
        BY <3>1, <1>1, TailElements, LenProperties DEF TypeOK, QueuesMatchTasks
      <4>2. \A i \in DOMAIN Tail(pending) : task'[Tail(pending)[i]] = "pending"
        BY <4>1, <1>5, <1>6
      <4>3. \A i, j \in DOMAIN Tail(pending) : Tail(pending)[i] = Tail(pending)[j] => i = j
        <5> SUFFICES ASSUME NEW i \in DOMAIN Tail(pending), NEW j \in DOMAIN Tail(pending),
                            Tail(pending)[i] = Tail(pending)[j]
                     PROVE  i = j
          OBVIOUS
        <5>1. i + 1 = j + 1
          BY <4>1 DEF QueuesMatchTasks
        <5>2. QED BY <5>1, <4>1
      <4>4. QED BY <4>2, <4>3, <3>1 DEF Dispatch
    <3>2. CASE ~CanOpenTurn
      <4>1. \A i \in DOMAIN pending : pending[i] \in Message
        BY LenProperties DEF TypeOK
      <4>2. QED
        BY <4>1, <3>2, <1>5, <1>6 DEF Dispatch, QueuesMatchTasks
    <3>3. QED BY <3>1, <3>2
  <2>2. joining' = << >>
    BY DEF Dispatch
  <2>3. \A i \in DOMAIN ready' :
          \/ i \in DOMAIN ready /\ ready'[i] = ready[i]
          \/ i - Len(ready) \in DOMAIN spawned /\ ready'[i] = spawned[i - Len(ready)]
    <3>1. ready' = ready \o spawned
      BY <1>2 DEF Dispatch
    <3>2. ready \in Seq(Message) /\ spawned \in Seq(Message)
      BY <1>2 DEF TypeOK
    <3>3. QED
      BY <3>1, <3>2, ConcatProperties, LenProperties
  <2>4. \A i \in DOMAIN ready : ready[i] \in Message /\ task[ready[i]] = "spawned"
                                 /\ i \in 1 .. Len(ready)
    BY LenProperties DEF TypeOK, QueuesMatchTasks
  <2>5. \A i \in DOMAIN spawned : spawned[i] \in Message /\ InSeq(spawned[i], spawned)
                                   /\ task[spawned[i]] \in {"joining", "pending"}
    <3>1. \A i \in DOMAIN spawned : spawned[i] \in Message
      <4>1. spawned \in Seq(Message)
        BY <1>2
      <4>2. QED
        BY <4>1, LenProperties
    <3>2. \A i \in DOMAIN spawned : InSeq(spawned[i], spawned)
      BY DEF InSeq
    <3>3. QED
      BY <3>1, <3>2, <1>1, <1>5
  <2>6. \A i \in DOMAIN ready' : task'[ready'[i]] = "spawned"
    BY <2>3, <2>4, <2>5, <1>6
  <2>7. \A i, j \in DOMAIN spawned : spawned[i] = spawned[j] => i = j
    BY <1>1, <1>3 DEF QueuesMatchTasks
  <2>8. \A i, j \in DOMAIN ready' : ready'[i] = ready'[j] => i = j
    <3> SUFFICES ASSUME NEW i \in DOMAIN ready', NEW j \in DOMAIN ready', ready'[i] = ready'[j]
                 PROVE  i = j
      OBVIOUS
    <3>1. i \in Int /\ j \in Int /\ Len(ready) \in Int
      BY LenProperties DEF TypeOK
    <3>2. CASE i \in DOMAIN ready /\ j \in DOMAIN ready /\ ready'[i] = ready[i]
               /\ ready'[j] = ready[j]
      BY <3>2 DEF QueuesMatchTasks
    <3>3. CASE i - Len(ready) \in DOMAIN spawned /\ j - Len(ready) \in DOMAIN spawned
               /\ ready'[i] = spawned[i - Len(ready)] /\ ready'[j] = spawned[j - Len(ready)]
      <4>1. i - Len(ready) = j - Len(ready)
        BY <2>7, <3>3
      <4>2. QED BY <4>1, <3>1
    <3>4. QED
      BY <2>3, <2>4, <2>5, <3>2, <3>3
  <2>9. QED
    BY <2>1, <2>2, <2>6, <2>8 DEF QueuesMatchTasks
<1>14. PhasesConsistent'
  <2>1. phase' \notin {"drain", "teardown"}
    BY DEF Dispatch, WaitPhase
  <2>2. \A m \in Message : task'[m] = "unsent" => task[m] = "unsent"
    BY <1>6
  <2>3. QED
    BY <2>1, <2>2 DEF PhasesConsistent, Dispatch
<1>15. QED
  BY <1>10, <1>11, <1>12, <1>13, <1>14

\* The task at the front of the ready queue starts: it already held the turn.
LEMMA StartHandlerInv ==
  ASSUME TurnInv, TypeOK', StartHandler
  PROVE  TurnInv'
<1> USE DEF TurnInv
<1> DEFINE m == Head(ready)
<1>1. /\ m \in Message /\ task[m] = "spawned"
      /\ \A i \in DOMAIN Tail(ready) :
           /\ i \in Nat /\ i + 1 \in DOMAIN ready /\ Tail(ready)[i] = ready[i + 1]
           /\ ready[i + 1] \in Message /\ ready[i + 1] # m
           /\ task[ready[i + 1]] = "spawned"
  BY TailElements, LenProperties DEF StartHandler, TypeOK, QueuesMatchTasks
<1>2. task' = [task EXCEPT ![m] = "running"]
  BY DEF StartHandler
<1>3. Holding' = Holding
  BY <1>1, <1>2 DEF Holding, TypeOK
<1>4. RefcountExact' /\ HoldersShareTurn' /\ SlotsReserved'
  BY <1>3 DEF StartHandler, RefcountExact, HoldersShareTurn, SlotsReserved
<1>5. QueuesMatchTasks'
  <2>1. \A i \in DOMAIN Tail(ready) : task'[Tail(ready)[i]] = "spawned"
    BY <1>1, <1>2 DEF TypeOK
  <2>2. \A i, j \in DOMAIN Tail(ready) : Tail(ready)[i] = Tail(ready)[j] => i = j
    <3> SUFFICES ASSUME NEW i \in DOMAIN Tail(ready), NEW j \in DOMAIN Tail(ready),
                        Tail(ready)[i] = Tail(ready)[j]
                 PROVE  i = j
      OBVIOUS
    <3>1. i + 1 = j + 1
      BY <1>1 DEF QueuesMatchTasks
    <3>2. QED BY <3>1, <1>1
  <2>3. \A i \in DOMAIN pending : pending[i] \in Message /\ task'[pending[i]] = "pending"
    BY <1>1, <1>2, LenProperties DEF QueuesMatchTasks, TypeOK
  <2>4. \A i \in DOMAIN joining : joining[i] \in Message /\ task'[joining[i]] = "joining"
    BY <1>1, <1>2, LenProperties DEF QueuesMatchTasks, TypeOK
  <2>5. QED
    BY <2>1, <2>2, <2>3, <2>4 DEF StartHandler, QueuesMatchTasks
<1>6. PhasesConsistent'
  BY <1>1, <1>2 DEF StartHandler, PhasesConsistent, TypeOK, Closed
<1>7. QED
  BY <1>4, <1>5, <1>6

\* A participant leaves, by finishing or by being abandoned: the count drops by
\* its own reference, and the turn ends when it was the last.
LEMMA LeaveInv ==
  ASSUME TurnInv, TypeOK', NEW m \in Message, task[m] = "running",
         NEW end \in {"finished", "abandoned"},
         task' = [task EXCEPT ![m] = end],
         LeaveTurn, UNCHANGED <<phase, closeReason, queueVars, admission>>
  PROVE  TurnInv'
<1> USE DEF TurnInv
<1>1. m \in Holding
  BY DEF Holding
<1>2. Holding' = Holding \ {m}
  BY DEF Holding, TypeOK
<1>3. Cardinality(Holding') = Cardinality(Holding) - 1
  BY <1>1, <1>2, HoldingFinite, FS_RemoveElement
<1>4. Cardinality(Holding) # 0
  BY <1>1, HoldingFinite
<1>5. participants' = participants - 1
  BY <1>4, HoldingFinite DEF LeaveTurn, LastOut, RefcountExact
<1>6. RefcountExact'
  BY <1>3, <1>4, <1>5, HoldingFinite DEF LeaveTurn, LastOut, RefcountExact
<1>7. HoldersShareTurn'
  <2>1. CASE LastOut
    <3>1. IsFiniteSet(Holding') /\ Cardinality(Holding') = 0
      BY <2>1, <1>2, <1>3, <1>4, HoldingFinite, FS_RemoveElement DEF LastOut, RefcountExact
    <3>2. Holding' = {}
      BY <3>1, FS_EmptySet
    <3>3. QED
      BY <3>2 DEF HoldersShareTurn
  <2>2. CASE ~LastOut
    BY <2>2, <1>2 DEF LeaveTurn, HoldersShareTurn
  <2>3. QED BY <2>1, <2>2
<1>8. SlotsReserved'
  BY DEF LeaveTurn, SlotsReserved
<1>9. QueuesMatchTasks'
  <2>1. \A i \in DOMAIN pending : pending[i] \in Message /\ task'[pending[i]] = "pending"
    BY LenProperties DEF QueuesMatchTasks, TypeOK
  <2>2. \A i \in DOMAIN joining : joining[i] \in Message /\ task'[joining[i]] = "joining"
    BY LenProperties DEF QueuesMatchTasks, TypeOK
  <2>3. \A i \in DOMAIN ready : ready[i] \in Message /\ task'[ready[i]] = "spawned"
    BY LenProperties DEF QueuesMatchTasks, TypeOK
  <2>4. QED
    BY <2>1, <2>2, <2>3 DEF QueuesMatchTasks
<1>10. PhasesConsistent'
  BY <1>4, <1>5, HoldingFinite DEF PhasesConsistent, TypeOK, Closed, RefcountExact
<1>11. QED
  BY <1>6, <1>7, <1>8, <1>9, <1>10

LEMMA NextInv == TurnInv /\ [Next]_vars => TurnInv'
<1> SUFFICES ASSUME TurnInv, [Next]_vars PROVE TurnInv'
  OBVIOUS
<1>0. TypeOK'
  BY NextType DEF TurnInv
<1>1. CASE UNCHANGED vars
  BY <1>0, <1>1, FrameInv DEF vars, TurnInv, PhasesConsistent, Closed
<1>2. CASE FinishSetup
  BY <1>0, <1>2, FrameInv DEF FinishSetup, WaitPhase, Closed
<1>3. CASE SetupFails
  BY <1>0, <1>3, FrameInv DEF SetupFails
<1>4. CASE RunLoop
  <2>1. CASE Dispatch
    BY <1>0, <2>1, <1>4, DispatchInv DEF RunLoop, Wake, Waiting
  <2>2. CASE ~Dispatch
    BY <1>0, <1>4, <2>2, FrameInv DEF RunLoop, WaitPhase, Closed
  <2>3. QED BY <2>1, <2>2
<1>5. CASE IdleTimeout
  <2>1. CASE Dispatch
    BY <1>0, <2>1, <1>5, DispatchInv DEF IdleTimeout, Waiting
  <2>2. CASE ~Dispatch
    BY <1>0, <1>5, <2>2, FrameInv DEF IdleTimeout, Closed
  <2>3. QED BY <2>1, <2>2
<1>6. CASE Close
  BY <1>0, <1>6, FrameInv DEF Close, Closed, TurnInv, PhasesConsistent
<1>7. CASE Drain
  BY <1>0, <1>7, FrameInv DEF Drain, TurnActive, TurnInv, TypeOK, PhasesConsistent, Closed
<1>8. CASE Cancel
  BY <1>0, <1>8, FrameInv DEF Cancel
<1>9. CASE FinishTeardown
  BY <1>0, <1>9, FrameInv DEF FinishTeardown
<1>10. CASE StartHandler
  BY <1>0, <1>10, StartHandlerInv
<1>11. ASSUME NEW m \in Message, AdmitJoin(m) PROVE TurnInv'
  BY <1>0, <1>11, AdmitJoinInv
<1>12. ASSUME NEW m \in Message, AdmitQueue(m) PROVE TurnInv'
  BY <1>0, <1>12, AdmitQueueInv
<1>13. ASSUME NEW m \in Message, FinishHandler(m) PROVE TurnInv'
  BY <1>0, <1>13, LeaveInv DEF FinishHandler
<1>14. ASSUME NEW m \in Message, AbandonHandler(m) PROVE TurnInv'
  BY <1>0, <1>14, LeaveInv DEF AbandonHandler
<1>15. ASSUME NEW m \in Message, ClaimSteering(m) PROVE TurnInv'
  BY <1>0, <1>15, FrameInv DEF ClaimSteering, TurnInv, PhasesConsistent, Closed
<1>16. ASSUME NEW m \in Message, NEW s \in SteeringId, Steer(m, s) PROVE TurnInv'
  BY <1>0, <1>16, FrameInv DEF Steer, TurnInv, PhasesConsistent, Closed
<1>17. QED
  BY <1>1, <1>2, <1>3, <1>4, <1>5, <1>6, <1>7, <1>8, <1>9, <1>10, <1>11, <1>12, <1>13,
     <1>14, <1>15, <1>16 DEF Next

\* The inductive invariant holds in every reachable state.
THEOREM TurnInvariant == Spec => []TurnInv
<1>1. QED
  BY InitInv, NextInv, PTL DEF Spec

\* The refcount is the number of messages that hold the turn, so "the turn
\* ended" and "it is safe to complete" cannot disagree.
THEOREM RefcountTheorem == Spec => []RefcountExact
<1>1. TurnInv => RefcountExact
  BY DEF TurnInv
<1>2. QED
  BY <1>1, TurnInvariant, PTL

\* A running participant never finds its turn's id cleared or replaced.
THEOREM HoldersTheorem == Spec => []HoldersShareTurn
<1>1. TurnInv => HoldersShareTurn
  BY DEF TurnInv
<1>2. QED
  BY <1>1, TurnInvariant, PTL

\* The turn number in the reply to a queued sender is the number of the turn
\* its message will open.
THEOREM SlotsTheorem == Spec => []SlotsReserved
<1>1. TurnInv => SlotsReserved
  BY DEF TurnInv
<1>2. QED
  BY <1>1, TurnInvariant, PTL

\* The turn is accounted for: by its count, by the handle each sender was given,
\* and by the numbers promised and not open yet.
THEOREM TurnAccountingTheorem == Spec => []TurnAccounting
<1>1. TurnInv => TurnAccounting
  BY DEF TurnInv, TurnAccounting
<1>2. QED
  BY <1>1, TurnInvariant, PTL
----------------------------------------------------------------------------
(* What the stream says: the invariant that ties it to the state *)

\* The open turn, as the messages that hold it were told.
Current == [turn_id |-> currentTurnId, turn_number |-> currentTurn]
Number(i) == log[i].turn.turn_number

\* No event is ahead of the turn that is open, and no turn_end is of that turn.
NumbersInv ==
  /\ \A i \in Events("turn_started") \cup HandlerEvents : Number(i) <= currentTurn
  /\ \A k \in Events("turn_end") :
       Number(k) < currentTurn \/ (Number(k) = currentTurn /\ participants = 0)

\* An id of steering is in the queue or was settled, once, after it was enqueued; it
\* is settled when its turn has ended.
Lists(k, s) == k \in Settlements /\ InSeq(s, log[k].steering)
SteeringInv ==
  /\ \A i \in Events("steering_enqueued") : log[i].steering = <<log[i].steering[1]>>
  /\ \A i, j \in Events("steering_enqueued") :
       log[i].steering[1] = log[j].steering[1] => i = j
  /\ \A s \in SteeringId : InSeq(s, steering) =>
       /\ \E i \in Events("steering_enqueued") : log[i].steering[1] = s
       /\ \A k \in Settlements : ~Lists(k, s)
  /\ \A k \in Settlements, s \in SteeringId : Lists(k, s) =>
       /\ \E i \in Events("steering_enqueued") : i < k /\ log[i].steering[1] = s
       /\ \A j \in Settlements : Lists(j, s) => j = k
  /\ \A i \in Events("steering_enqueued") :
       /\ InSeq(log[i].steering[1], steering) \/ \E k \in Settlements : Lists(k, log[i].steering[1])
       /\ \A k \in Events("turn_end") : log[k].turn = log[i].turn =>
            \E j \in Settlements : j < k /\ Lists(j, log[i].steering[1])

\* The open turn was started on the stream, and every other that was started has ended.
BracketInv ==
  /\ participants > 0 => \E i \in Events("turn_started") : log[i].turn = Current
  /\ \A i \in Events("turn_started") :
       \/ participants > 0 /\ log[i].turn = Current
       \/ \E k \in Events("turn_end") : i < k /\ log[k].turn = log[i].turn
  /\ Cardinality(Events("turn_started"))
       = Cardinality(Events("turn_end")) + (IF participants > 0 THEN 1 ELSE 0)

\* An admitted message was accepted on the stream, once, with the turn its sender was
\* told; a finished one has ended there.
AcceptInv ==
  /\ \A i \in Events("message_accepted") :
       /\ log[i].message \in Message /\ task[log[i].message] # "unsent"
       /\ log[i].turn = admission[log[i].message].turn
  /\ \A k \in Events("message_handler_start") :
       log[k].message \in Message /\ task[log[k].message] # "unsent"
  /\ \A m \in Message : task[m] # "unsent" =>
       \E i \in Events("message_accepted") : log[i].message = m
  /\ \A i \in Events("message_accepted") : task[log[i].message] = "finished" =>
       \E j \in Events("message_handler_end") : i < j /\ log[j].message = log[i].message
  /\ \A m \in Message : (task[m] = "pending" => InSeq(m, pending)) /\ task[m] # "abandoned"

\* One message was accepted before another, on a stream.
Before(l, m, n) ==
  \E a, b \in DOMAIN l :
    /\ l[a].kind = "message_accepted" /\ l[b].kind = "message_accepted"
    /\ a < b /\ l[a].message = m /\ l[b].message = n

\* The tasks of the open turn that have not started stand in the order of admission,
\* behind those that have.
OrderInv ==
  /\ \A i, j \in DOMAIN ready : i < j => Before(log, ready[i], ready[j])
  /\ \A i, j \in DOMAIN joining : i < j => Before(log, joining[i], joining[j])
  /\ \A i \in DOMAIN ready, j \in DOMAIN joining : Before(log, ready[i], joining[j])
  /\ \A k \in Events("message_handler_start") : participants > 0 /\ log[k].turn = Current =>
       /\ \A i \in DOMAIN ready : Before(log, log[k].message, ready[i])
       /\ \A i \in DOMAIN joining : Before(log, log[k].message, joining[i])

ClosedInv == Events("agent_closed") # {} => phase \in {"teardown"} \cup Terminal

SettledInv == TurnInv /\ NumbersInv /\ SteeringInv
StreamInv ==
  /\ SettledInv
  /\ BracketInv /\ AcceptInv /\ OrderInv /\ ClosedInv
  /\ StreamWellFormed

----------------------------------------------------------------------------
(* The stream grows at its end *)

New == DOMAIN log' \ DOMAIN log
Extends ==
  /\ log \in Seq(Event) /\ log' \in Seq(Event) /\ DOMAIN log' \subseteq Nat
  /\ \A i \in DOMAIN log : i \in DOMAIN log' /\ log'[i] = log[i]
  /\ \A i \in DOMAIN log, n \in New : i < n

LEMMA SameLog ==
  ASSUME log \in Seq(Event), log' = log
  PROVE  Extends /\ New = {}
  BY LenProperties DEF Extends, New

LEMMA OneEvent ==
  ASSUME log \in Seq(Event), NEW e \in Event, log' = Append(log, e)
  PROVE  Extends /\ \E n \in Nat : New = {n} /\ log'[n] = e /\ n = Len(log')
<1>1. PICK n \in Nat : n = Len(log) + 1
  BY LenProperties
<1>2. /\ log' \in Seq(Event) /\ Len(log') = n /\ log'[n] = e
      /\ \A i \in 1 .. Len(log) : log'[i] = log[i]
  BY <1>1, AppendProperties
<1>3. DOMAIN log = 1 .. Len(log) /\ DOMAIN log' = 1 .. n /\ Len(log) \in Nat
  BY <1>2, LenProperties
<1>4. New = {n}
  BY <1>1, <1>3 DEF New
<1>5. Extends
  BY <1>1, <1>2, <1>3, <1>4 DEF Extends
<1>6. QED
  BY <1>2, <1>4, <1>5

LEMMA EventsGrow ==
  ASSUME Extends
  PROVE  \A kind \in EventKind : Events(kind)' = Events(kind) \cup {n \in New : log'[n].kind = kind}
  BY DEF Extends, New, Events

LEMMA NoneNew ==
  ASSUME Extends, NEW kind \in EventKind, \A n \in New : log'[n].kind # kind
  PROVE  Events(kind)' = Events(kind)
  BY EventsGrow

LEMMA EvFields ==
  ASSUME NEW kind \in EventKind, NEW turn \in Turn, NEW m \in Message \cup {None},
         NEW ids \in Seq(SteeringId)
  PROVE  /\ LET e == Ev(kind, turn, m) IN
              e \in Event /\ e.kind = kind /\ e.turn = turn /\ e.message = m /\ e.steering = << >>
         /\ LET e == SteeringEv(kind, turn, m, ids) IN
              e \in Event /\ e.kind = kind /\ e.turn = turn /\ e.message = m /\ e.steering = ids
<1>1. Ev(kind, turn, m) \in Event /\ SteeringEv(kind, turn, m, ids) \in Event
  BY EvType
<1>2. QED
  BY <1>1 DEF Ev, SteeringEv

LEMMA SteeringKinds ==
  /\ SteeringEvents = Events("steering_enqueued") \cup Settlements
  /\ \A kind \in {"message_accepted", "turn_started", "message_handler_start",
                  "message_handler_end", "steering_enqueued", "steering_claimed",
                  "steering_dropped", "turn_end", "agent_closed"} : kind \in EventKind
  BY DEF SteeringEvents, Settlements, EventKind

\* A handler ends, and when it was the last its turn does: what was left of steering is
\* reported between the two.
LEMMA FinishEvents ==
  ASSUME TypeOK, NEW m \in Message, FinishHandler(m)
  PROVE  /\ Extends
         /\ \E h \in New :
              /\ log'[h] = Ev("message_handler_end", admission[m].turn, m)
              /\ ~LastOut => New = {h}
              /\ LastOut => \E e \in New :
                   /\ h < e /\ log'[e] = Ev("turn_end", admission[m].turn, None)
                   /\ steering = << >> => New = {h, e}
                   /\ steering # << >> => \E d \in New :
                        /\ h < d /\ d < e /\ New = {h, d, e}
                        /\ log'[d] = SteeringEv("steering_dropped", admission[m].turn, None, steering)
<1> DEFINE turn == admission[m].turn
           x == Ev("message_handler_end", turn, m)
           y == SteeringEv("steering_dropped", turn, None, steering)
           z == Ev("turn_end", turn, None)
           u == IF LastOut THEN TurnEpilogue(turn) ELSE << >>
           L == Len(log)
<1>1. turn \in Turn /\ steering \in Seq(SteeringId) /\ log \in Seq(Event)
  BY DEF TypeOK, Admission
<1>2. x \in Event /\ y \in Event /\ z \in Event
  BY <1>1, EvType, EmptySeq, SteeringKinds
<1>3. log' = (log \o <<x>>) \o u
  BY DEF FinishHandler
<1>4. /\ ~LastOut => u = << >>
      /\ LastOut /\ steering = << >> => u = << >> \o <<z>>
      /\ LastOut /\ steering # << >> => u = <<y>> \o <<z>>
  BY DEF TurnEpilogue
<1> HIDE DEF x, y, z, u, L
<1>5. <<x>> \in Seq(Event) /\ Len(<<x>>) = 1 /\ <<x>>[1] = x
      /\ <<y>> \in Seq(Event) /\ Len(<<y>>) = 1 /\ <<y>>[1] = y
      /\ <<z>> \in Seq(Event) /\ Len(<<z>>) = 1 /\ <<z>>[1] = z
  BY <1>2
<1>6. << >> \o <<z>> = <<z>>
  BY <1>5, ConcatEmptySeq
<1>7. /\ <<y>> \o <<z>> \in Seq(Event) /\ Len(<<y>> \o <<z>>) = 2
      /\ (<<y>> \o <<z>>)[1] = y /\ (<<y>> \o <<z>>)[2] = z
  BY <1>5, ConcatProperties
<1>8. /\ ~LastOut => u \in Seq(Event) /\ Len(u) = 0
      /\ LastOut /\ steering = << >> => u \in Seq(Event) /\ Len(u) = 1 /\ u[1] = z
      /\ LastOut /\ steering # << >> => u \in Seq(Event) /\ Len(u) = 2 /\ u[1] = y /\ u[2] = z
  BY <1>4, <1>5, <1>6, <1>7, EmptySeq
<1> DEFINE s == log \o <<x>>
<1>9. /\ L \in Nat /\ DOMAIN log = 1 .. L
      /\ s \in Seq(Event) /\ Len(s) = L + 1 /\ s[L + 1] = x /\ \A i \in 1 .. L : s[i] = log[i]
  <2>1. L \in Nat /\ DOMAIN log = 1 .. L
    BY <1>1, LenProperties DEF L
  <2>2. /\ s \in Seq(Event) /\ Len(s) = L + 1
        /\ \A i \in 1 .. L + 1 : s[i] = IF i <= L THEN log[i] ELSE <<x>>[i - L]
    BY <1>1, <1>5, ConcatProperties DEF L
  <2>3. s[L + 1] = <<x>>[(L + 1) - L]
    BY <2>1, <2>2
  <2>4. (L + 1) - L = 1
    BY <2>1
  <2>5. \A i \in 1 .. L : s[i] = log[i]
    BY <2>1, <2>2
  <2>6. QED
    BY <1>5, <2>1, <2>2, <2>3, <2>4, <2>5
<1> HIDE DEF s
<1>10. /\ log' \in Seq(Event) /\ DOMAIN log' = 1 .. (L + 1) + Len(u) /\ Len(u) \in Nat
       /\ \A i \in 1 .. L : log'[i] = log[i]
       /\ log'[L + 1] = x
       /\ \A k \in 1 .. Len(u) : log'[(L + 1) + k] = u[k]
  <2>1. u \in Seq(Event) /\ Len(u) \in Nat
    BY <1>8, LenProperties
  <2>2. /\ log' \in Seq(Event) /\ Len(log') = (L + 1) + Len(u)
        /\ \A i \in 1 .. (L + 1) + Len(u) : log'[i] = IF i <= L + 1 THEN s[i] ELSE u[i - (L + 1)]
    <3>1. log' = s \o u /\ Len(s) = L + 1 /\ s \in Seq(Event)
      BY <1>3, <1>9 DEF s
    <3>2. /\ s \o u \in Seq(Event) /\ Len(s \o u) = Len(s) + Len(u)
          /\ \A i \in 1 .. Len(s) + Len(u) : (s \o u)[i] = IF i <= Len(s) THEN s[i] ELSE u[i - Len(s)]
      BY <2>1, <3>1, ConcatProperties
    <3>3. QED
      BY <3>1, <3>2
  <2>3. DOMAIN log' = 1 .. (L + 1) + Len(u)
    BY <2>2, LenProperties
  <2>4. \A i \in 1 .. L + 1 : log'[i] = s[i]
    BY <1>9, <2>1, <2>2
  <2>5. ASSUME NEW k \in 1 .. Len(u) PROVE log'[(L + 1) + k] = u[k]
    <3>1. /\ (L + 1) + k \in 1 .. (L + 1) + Len(u) /\ ~((L + 1) + k <= L + 1)
          /\ ((L + 1) + k) - (L + 1) = k
      BY <1>9, <2>1
    <3>2. QED
      BY <2>2, <3>1
  <2>6. QED
    BY <1>9, <2>1, <2>2, <2>3, <2>4, <2>5
<1>11. Extends
  BY <1>1, <1>9, <1>10 DEF Extends, New
<1>12. L + 1 \in New
  BY <1>9, <1>10 DEF New
<1>13. CASE ~LastOut
  <2>1. New = {L + 1}
    BY <1>8, <1>9, <1>10, <1>13 DEF New
  <2>2. QED
    BY <1>10, <1>11, <1>12, <1>13, <2>1 DEF x
<1>14. CASE LastOut /\ steering = << >>
  <2>1. New = {L + 1, (L + 1) + 1} /\ L + 1 < (L + 1) + 1
    <3>1. L \in Nat /\ DOMAIN log = 1 .. L /\ DOMAIN log' = 1 .. (L + 1) + 1
      BY <1>8, <1>9, <1>10, <1>14
    <3>2. QED
      BY <3>1 DEF New
  <2>2. log'[(L + 1) + 1] = z
    <3>1. Len(u) = 1 /\ u[1] = z /\ 1 \in 1 .. 1
      BY <1>8, <1>14
    <3>2. QED
      BY <1>10, <3>1
  <2>3. QED
    BY <1>10, <1>11, <1>12, <1>14, <2>1, <2>2 DEF x, z
<1>15. CASE LastOut /\ steering # << >>
  <2>1. /\ New = {L + 1, (L + 1) + 1, (L + 1) + 2}
        /\ L + 1 < (L + 1) + 1 /\ (L + 1) + 1 < (L + 1) + 2
    <3>1. L \in Nat /\ DOMAIN log = 1 .. L /\ DOMAIN log' = 1 .. (L + 1) + 2
      BY <1>8, <1>9, <1>10, <1>15
    <3>2. QED
      BY <3>1 DEF New
  <2>2. log'[(L + 1) + 1] = y /\ log'[(L + 1) + 2] = z
    <3>1. Len(u) = 2 /\ u[1] = y /\ u[2] = z /\ 1 \in 1 .. 2 /\ 2 \in 1 .. 2
      BY <1>8, <1>15
    <3>2. QED
      BY <1>10, <3>1
  <2>3. L + 1 < (L + 1) + 2
    BY <1>9
  <2>4. QED
    BY <1>10, <1>11, <1>12, <1>15, <2>1, <2>2, <2>3 DEF x, y, z
<1>16. QED
  BY <1>13, <1>14, <1>15
----------------------------------------------------------------------------
(* What each step adds to it *)

Still == UNCHANGED <<turnVars, queueVars, task, admission, steering, log>>
Over == phase \in {"teardown"} \cup Terminal

Published(kind, turn, m, ids) ==
  /\ Extends
  /\ \E n \in Nat :
       /\ New = {n} /\ n = Len(log')
       /\ log'[n].kind = kind /\ log'[n].turn = turn /\ log'[n].message = m
       /\ log'[n].steering = ids

\* The steps, by what they do to the stream.
LEMMA Shapes ==
  ASSUME [Next]_vars
  PROVE  \/ Still /\ (Over => Over')
         \/ Dispatch /\ phase \in Waiting
         \/ Drain \/ StartHandler
         \/ \E m \in Message : \/ AdmitJoin(m) \/ AdmitQueue(m)
                               \/ FinishHandler(m) \/ AbandonHandler(m) \/ ClaimSteering(m)
                               \/ \E s \in SteeringId : Steer(m, s)
<1> USE DEF Still, Over, Terminal
<1>1. CASE UNCHANGED vars
  BY <1>1 DEF vars
<1>2. CASE FinishSetup \/ SetupFails \/ Close \/ Cancel \/ FinishTeardown
  BY <1>2 DEF FinishSetup, SetupFails, Close, Cancel, FinishTeardown, Waiting
<1>3. CASE RunLoop
  BY <1>3 DEF RunLoop, Wake, Waiting
<1>4. CASE IdleTimeout
  BY <1>4 DEF IdleTimeout, Waiting
<1>5. QED
  BY <1>1, <1>2, <1>3, <1>4 DEF Next

LEMMA PublishedOne ==
  ASSUME TypeOK, NEW kind \in EventKind, NEW turn \in Turn, NEW m \in Message \cup {None},
         NEW ids \in Seq(SteeringId), NEW e, log' = Append(log, e),
         e = SteeringEv(kind, turn, m, ids) \/ (e = Ev(kind, turn, m) /\ ids = << >>)
  PROVE  Published(kind, turn, m, ids)
<1>1. /\ e \in Event /\ e.kind = kind /\ e.turn = turn /\ e.message = m /\ e.steering = ids
  BY EvFields
<1>2. Extends /\ \E n \in Nat : New = {n} /\ log'[n] = e /\ n = Len(log')
  BY <1>1, OneEvent DEF TypeOK
<1>3. QED
  BY <1>1, <1>2 DEF Published

\* A message that holds the turn was told it, and there is one to be told.
LEMMA HoldsCurrent ==
  ASSUME TurnInv, NEW m \in Holding
  PROVE  /\ m \in Message /\ admission[m].turn = Current /\ participants > 0
         /\ Current \in Turn /\ Current.turn_number = currentTurn /\ Current.turn_id = currentTurnId
<1>1. m \in Message /\ admission[m].turn = Current
  BY DEF Holding, TurnInv, HoldersShareTurn, Current
<1>2. Cardinality(Holding) # 0
  BY HoldingFinite
<1>3. participants > 0
  BY <1>2 DEF TurnInv, TypeOK, RefcountExact
<1>4. Current \in Turn
  BY DEF TurnInv, TypeOK, Turn, Current
<1>5. QED
  BY <1>1, <1>3, <1>4 DEF Current

LEMMA AdmitJoinSays ==
  ASSUME TurnInv, NEW m \in Message, AdmitJoin(m)
  PROVE  Published("message_accepted", Current, m, << >>)
<1>1. Current \in Turn /\ log' = Append(log, Ev("message_accepted", Current, m))
  BY DEF AdmitJoin, Current, TurnInv, TypeOK, Turn
<1>2. QED
  BY <1>1, PublishedOne, EmptySeq, SteeringKinds DEF TurnInv

LEMMA AdmitQueueSays ==
  ASSUME TurnInv, NEW m \in Message, AdmitQueue(m)
  PROVE  /\ [turn_id |-> m, turn_number |-> ReserveTurnNumber] \in Turn
         /\ ReserveTurnNumber > currentTurn
         /\ Published("message_accepted", [turn_id |-> m, turn_number |-> ReserveTurnNumber], m, << >>)
<1> DEFINE turn == [turn_id |-> m, turn_number |-> ReserveTurnNumber]
<1>1. turn \in Turn /\ ReserveTurnNumber > currentTurn
  BY LenProperties DEF ReserveTurnNumber, TurnInv, TypeOK, Turn, TurnId
<1>2. log' = Append(log, Ev("message_accepted", turn, m))
  BY DEF AdmitQueue
<1>3. QED
  BY <1>1, <1>2, PublishedOne, EmptySeq, SteeringKinds DEF TurnInv

LEMMA OpenSays ==
  ASSUME TurnInv, TypeOK', Dispatch, CanOpenTurn
  PROVE  /\ Current' = [turn_id |-> Head(pending), turn_number |-> currentTurn + 1]
         /\ Current' \in Turn /\ currentTurn' = currentTurn + 1
         /\ participants = 0 /\ participants' = 1
         /\ Head(pending) \in Message /\ task[Head(pending)] = "pending"
         /\ admission[Head(pending)].turn = Current'
         /\ Published("turn_started", Current', None, << >>)
<1> USE DEF TurnInv
<1> DEFINE head == Head(pending)
<1>1. pending # << >> /\ participants = 0 /\ pending \in Seq(Message)
  BY DEF CanOpenTurn, TurnActive, TypeOK
<1>2. 1 \in DOMAIN pending /\ head = pending[1] /\ head \in Message
  BY <1>1, TailElements
<1>3. /\ admission[head].turn = [turn_id |-> head, turn_number |-> currentTurn + 1]
      /\ task[head] = "pending"
  BY <1>2 DEF SlotsReserved, QueuesMatchTasks
<1>4. /\ currentTurn' = currentTurn + 1 /\ currentTurnId' = head /\ participants' = 1
      /\ log' = Append(log, Ev("turn_started", admission[head].turn, None))
  BY <1>3 DEF Dispatch
<1>5. Current' = [turn_id |-> head, turn_number |-> currentTurn + 1]
  BY <1>4 DEF Current
<1>6. admission[head].turn \in Turn
  BY <1>2 DEF TypeOK, Admission
<1>7. Published("turn_started", admission[head].turn, None, << >>)
  BY <1>4, <1>6, PublishedOne, EmptySeq, SteeringKinds
<1>8. QED
  BY <1>1, <1>2, <1>3, <1>4, <1>5, <1>6, <1>7

LEMMA StartSays ==
  ASSUME TurnInv, StartHandler
  PROVE  /\ Head(ready) \in Holding /\ task[Head(ready)] = "spawned"
         /\ Published("message_handler_start", Current, Head(ready), << >>)
<1> USE DEF TurnInv
<1> DEFINE m == Head(ready)
<1>1. m \in Message /\ task[m] = "spawned"
  BY TailElements DEF StartHandler, TypeOK, QueuesMatchTasks
<1>2. m \in Holding
  BY <1>1 DEF Holding
<1>3. admission[m].turn = Current /\ Current \in Turn
  BY <1>2, HoldsCurrent
<1>4. log' = Append(log, Ev("message_handler_start", Current, m))
  BY <1>3 DEF StartHandler
<1>5. QED
  BY <1>1, <1>2, <1>3, <1>4, PublishedOne, EmptySeq, SteeringKinds

LEMMA ClaimSays ==
  ASSUME TurnInv, NEW m \in Message, ClaimSteering(m)
  PROVE  Published("steering_claimed", Current, m, steering)
<1>1. m \in Holding
  BY DEF Holding, ClaimSteering
<1>2. admission[m].turn = Current /\ Current \in Turn
  BY <1>1, HoldsCurrent
<1>3. log' = Append(log, SteeringEv("steering_claimed", Current, m, steering))
  BY <1>2 DEF ClaimSteering
<1>4. QED
  BY <1>2, <1>3, PublishedOne, SteeringKinds DEF TurnInv, TypeOK

LEMMA SteerSays ==
  ASSUME TurnInv, NEW m \in Message, NEW s \in SteeringId, Steer(m, s)
  PROVE  Published("steering_enqueued", Current, m, <<s>>)
<1>1. m \in Holding
  BY DEF Holding, Steer
<1>2. admission[m].turn = Current /\ Current \in Turn /\ <<s>> \in Seq(SteeringId)
  BY <1>1, HoldsCurrent
<1>3. log' = Append(log, SteeringEv("steering_enqueued", Current, m, <<s>>))
  BY <1>2 DEF Steer
<1>4. QED
  BY <1>2, <1>3, PublishedOne, SteeringKinds DEF TurnInv, TypeOK

LEMMA DrainSays ==
  ASSUME TurnInv, Drain
  PROVE  Published("agent_closed", NoTurn, None, << >>)
<1>1. NoTurn \in Turn /\ log' = Append(log, Ev("agent_closed", NoTurn, None))
  BY DEF Drain, NoTurn, Turn, TurnId
<1>2. QED
  BY <1>1, PublishedOne, EmptySeq, SteeringKinds DEF TurnInv

\* What a handler that finishes says, with every field at its place.
Finishes(m, h) ==
  /\ h \in New /\ log'[h].kind = "message_handler_end" /\ log'[h].turn = Current /\ log'[h].message = m
FinishSays(m) ==
  /\ Extends
  /\ \E h \in New :
       /\ Finishes(m, h)
       /\ ~LastOut => New = {h}
       /\ LastOut => \E e \in New :
            /\ h < e /\ log'[e].kind = "turn_end" /\ log'[e].turn = Current
            /\ steering = << >> => New = {h, e}
            /\ steering # << >> => \E d \in New :
                 /\ h < d /\ d < e /\ New = {h, d, e}
                 /\ log'[d].kind = "steering_dropped" /\ log'[d].turn = Current
                 /\ log'[d].steering = steering

LEMMA FinishHandlerSays ==
  ASSUME TurnInv, NEW m \in Message, FinishHandler(m)
  PROVE  FinishSays(m)
<1>1. m \in Holding /\ TypeOK
  BY DEF Holding, FinishHandler, TurnInv
<1>2. admission[m].turn = Current /\ Current \in Turn
  BY <1>1, HoldsCurrent
<1>3. /\ Extends
      /\ \E h \in New :
           /\ log'[h] = Ev("message_handler_end", Current, m)
           /\ ~LastOut => New = {h}
           /\ LastOut => \E e \in New :
                /\ h < e /\ log'[e] = Ev("turn_end", Current, None)
                /\ steering = << >> => New = {h, e}
                /\ steering # << >> => \E d \in New :
                     /\ h < d /\ d < e /\ New = {h, d, e}
                     /\ log'[d] = SteeringEv("steering_dropped", Current, None, steering)
  BY <1>1, <1>2, FinishEvents
<1>4. /\ LET x == Ev("message_handler_end", Current, m) IN
           x.kind = "message_handler_end" /\ x.turn = Current /\ x.message = m
      /\ LET x == Ev("turn_end", Current, None) IN x.kind = "turn_end" /\ x.turn = Current
      /\ LET x == SteeringEv("steering_dropped", Current, None, steering) IN
           x.kind = "steering_dropped" /\ x.turn = Current /\ x.steering = steering
  BY DEF Ev, SteeringEv
<1>5. PICK h \in New :
        /\ log'[h] = Ev("message_handler_end", Current, m)
        /\ ~LastOut => New = {h}
        /\ LastOut => \E e \in New :
             /\ h < e /\ log'[e] = Ev("turn_end", Current, None)
             /\ steering = << >> => New = {h, e}
             /\ steering # << >> => \E d \in New :
                  /\ h < d /\ d < e /\ New = {h, d, e}
                  /\ log'[d] = SteeringEv("steering_dropped", Current, None, steering)
  BY <1>3
<1>6. Finishes(m, h)
  BY <1>4, <1>5 DEF Finishes
<1>7. ASSUME LastOut
      PROVE  \E e \in New :
               /\ h < e /\ log'[e].kind = "turn_end" /\ log'[e].turn = Current
               /\ steering = << >> => New = {h, e}
               /\ steering # << >> => \E d \in New :
                    /\ h < d /\ d < e /\ New = {h, d, e}
                    /\ log'[d].kind = "steering_dropped" /\ log'[d].turn = Current
                    /\ log'[d].steering = steering
  <2>1. PICK e \in New :
          /\ h < e /\ log'[e] = Ev("turn_end", Current, None)
          /\ steering = << >> => New = {h, e}
          /\ steering # << >> => \E d \in New :
               /\ h < d /\ d < e /\ New = {h, d, e}
               /\ log'[d] = SteeringEv("steering_dropped", Current, None, steering)
    BY <1>5, <1>7
  <2>2. log'[e].kind = "turn_end" /\ log'[e].turn = Current
    BY <1>4, <2>1
  <2>3. ASSUME steering # << >>
        PROVE  \E d \in New : /\ h < d /\ d < e /\ New = {h, d, e}
                              /\ log'[d].kind = "steering_dropped" /\ log'[d].turn = Current
                              /\ log'[d].steering = steering
    BY <1>4, <2>1, <2>3
  <2>4. QED
    BY <2>1, <2>2, <2>3
<1>8. QED
  BY <1>3, <1>5, <1>6, <1>7 DEF FinishSays
----------------------------------------------------------------------------
(* Turn numbers on the stream *)

LEMMA NumbersStep ==
  ASSUME NumbersInv, TypeOK, TypeOK', Extends,
         currentTurn' >= currentTurn,
         currentTurn' = currentTurn /\ participants = 0 => participants' = 0,
         \A n \in New :
           /\ log'[n].kind \in {"turn_started", "message_handler_start", "message_handler_end"}
                => log'[n].turn.turn_number <= currentTurn'
           /\ log'[n].kind = "turn_end"
                => log'[n].turn.turn_number = currentTurn' /\ participants' = 0
  PROVE  NumbersInv'
<1>0. currentTurn \in Nat /\ currentTurn' \in Nat
  BY DEF TypeOK
<1>1. \A i \in DOMAIN log' : (i \in DOMAIN log /\ log'[i] = log[i]) \/ i \in New
  BY DEF Extends, New
<1>2. \A i \in DOMAIN log : log[i].turn.turn_number \in Nat
  <2> SUFFICES ASSUME NEW i \in DOMAIN log PROVE log[i].turn.turn_number \in Nat
    OBVIOUS
  <2>1. log[i] \in Event
    BY LenProperties DEF TypeOK
  <2>2. QED
    BY <2>1 DEF Event, Turn
<1>3. ASSUME NEW i \in (Events("turn_started") \cup HandlerEvents)'
      PROVE  log'[i].turn.turn_number <= currentTurn'
  <2>1. i \in DOMAIN log' /\ log'[i].kind \in {"turn_started", "message_handler_start",
                                               "message_handler_end"}
    BY DEF Events, HandlerEvents
  <2>2. CASE i \in New
    BY <2>1, <2>2
  <2>3. CASE i \in DOMAIN log /\ log'[i] = log[i]
    <3>1. i \in Events("turn_started") \cup HandlerEvents
      BY <2>1, <2>3 DEF Events, HandlerEvents
    <3>2. log[i].turn.turn_number <= currentTurn
      BY <3>1 DEF NumbersInv, Number
    <3>3. log[i].turn.turn_number <= currentTurn'
      BY <1>0, <1>2, <2>3, <3>2
    <3>4. QED
      BY <2>3, <3>3
  <2>4. QED BY <1>1, <2>1, <2>2, <2>3
<1>4. ASSUME NEW k \in Events("turn_end")'
      PROVE  \/ log'[k].turn.turn_number < currentTurn'
             \/ log'[k].turn.turn_number = currentTurn' /\ participants' = 0
  <2>1. k \in DOMAIN log' /\ log'[k].kind = "turn_end"
    BY DEF Events
  <2>2. CASE k \in New
    BY <2>1, <2>2
  <2>3. CASE k \in DOMAIN log /\ log'[k] = log[k]
    <3>1. k \in Events("turn_end")
      BY <2>1, <2>3 DEF Events
    <3>2. \/ log[k].turn.turn_number < currentTurn
          \/ log[k].turn.turn_number = currentTurn /\ participants = 0
      BY <3>1 DEF NumbersInv, Number
    <3>3. \/ log[k].turn.turn_number < currentTurn'
          \/ log[k].turn.turn_number = currentTurn' /\ participants' = 0
      BY <1>0, <1>2, <2>3, <3>2
    <3>4. QED
      BY <2>3, <3>3
  <2>4. QED BY <1>1, <2>1, <2>2, <2>3
<1>5. QED
  BY <1>3, <1>4 DEF NumbersInv, Number

LEMMA LeavesTurn ==
  ASSUME TypeOK, LeaveTurn
  PROVE  /\ currentTurn' = currentTurn /\ (participants = 0 => participants' = 0)
         /\ LastOut => participants' = 0
         /\ ~LastOut => participants > 0 /\ participants' > 0 /\ currentTurnId' = currentTurnId
  BY DEF LeaveTurn, LastOut, TypeOK

LEMMA NumbersNext ==
  ASSUME TurnInv, NumbersInv, [Next]_vars
  PROVE  NumbersInv'
<1>0. /\ TypeOK /\ TypeOK' /\ log \in Seq(Event) /\ currentTurn \in Nat /\ participants \in Nat
  BY NextType DEF TurnInv, TypeOK
<1>1. Current.turn_number = currentTurn /\ currentTurn >= currentTurn
  BY <1>0 DEF Current
<1>2. ASSUME log' = log, UNCHANGED turnVars PROVE NumbersInv'
  BY <1>0, <1>1, <1>2, SameLog, NumbersStep
<1>3. CASE Still
  BY <1>2, <1>3 DEF Still
<1>4. CASE Dispatch /\ CanOpenTurn
  <2>1. /\ Published("turn_started", Current', None, << >>) /\ currentTurn' = currentTurn + 1
        /\ Current'.turn_number = currentTurn'
    BY <1>0, <1>4, OpenSays
  <2>2. currentTurn' >= currentTurn /\ currentTurn' # currentTurn /\ currentTurn' <= currentTurn'
    BY <1>0, <2>1
  <2>3. Extends /\ \A n \in New : log'[n].kind = "turn_started" /\ log'[n].turn = Current'
    BY <2>1 DEF Published
  <2>4. QED
    BY <1>0, <2>1, <2>2, <2>3, NumbersStep
<1>5. CASE Dispatch /\ ~CanOpenTurn
  BY <1>2, <1>5 DEF Dispatch
<1>6. CASE Drain
  <2>1. Extends /\ \A n \in New : log'[n].kind = "agent_closed"
    BY <1>6, DrainSays DEF Published
  <2>2. UNCHANGED turnVars
    BY <1>6 DEF Drain
  <2>3. QED
    BY <1>0, <1>1, <2>1, <2>2, NumbersStep
<1>7. CASE StartHandler
  <2>1. Extends /\ \A n \in New : log'[n].kind = "message_handler_start" /\ log'[n].turn = Current
    BY <1>7, StartSays DEF Published
  <2>2. UNCHANGED turnVars
    BY <1>7 DEF StartHandler
  <2>3. QED
    BY <1>0, <1>1, <2>1, <2>2, NumbersStep
<1>8. ASSUME NEW m \in Message, AdmitJoin(m) PROVE NumbersInv'
  <2>1. Extends /\ \A n \in New : log'[n].kind = "message_accepted"
    BY <1>8, AdmitJoinSays DEF Published
  <2>2. currentTurn' = currentTurn /\ participants # 0
    BY <1>8 DEF AdmitJoin, JoinTurn, TurnActive
  <2>3. QED
    BY <1>0, <1>1, <2>1, <2>2, NumbersStep
<1>9. ASSUME NEW m \in Message, AdmitQueue(m) PROVE NumbersInv'
  <2>1. Extends /\ \A n \in New : log'[n].kind = "message_accepted"
    <3>1. Published("message_accepted", [turn_id |-> m, turn_number |-> ReserveTurnNumber], m, << >>)
      BY <1>9, AdmitQueueSays
    <3>2. QED
      BY <3>1 DEF Published
  <2>2. UNCHANGED turnVars
    BY <1>9 DEF AdmitQueue
  <2>3. QED
    BY <1>0, <1>1, <2>1, <2>2, NumbersStep
<1>10. ASSUME NEW m \in Message, FinishHandler(m) PROVE NumbersInv'
  <2>1. FinishSays(m) /\ LeaveTurn
    BY <1>10, FinishHandlerSays DEF FinishHandler
  <2>2. currentTurn' = currentTurn /\ (participants = 0 => participants' = 0) /\ (LastOut => participants' = 0)
    BY <1>0, <2>1, LeavesTurn
  <2>3. \A n \in New : log'[n].turn = Current /\ (log'[n].kind = "turn_end" => LastOut)
    BY <2>1 DEF FinishSays, Finishes
  <2>4. Extends
    BY <2>1 DEF FinishSays
  <2>5. QED
    BY <1>0, <1>1, <2>2, <2>3, <2>4, NumbersStep
<1>11. ASSUME NEW m \in Message, AbandonHandler(m) PROVE NumbersInv'
  <2>1. LeaveTurn /\ log' = log
    BY <1>11 DEF AbandonHandler
  <2>2. currentTurn' = currentTurn /\ (participants = 0 => participants' = 0)
    BY <1>0, <2>1, LeavesTurn
  <2>3. QED
    BY <1>0, <1>1, <2>1, <2>2, SameLog, NumbersStep
<1>12. ASSUME NEW m \in Message, ClaimSteering(m) PROVE NumbersInv'
  <2>1. Extends /\ \A n \in New : log'[n].kind = "steering_claimed"
    BY <1>12, ClaimSays DEF Published
  <2>2. UNCHANGED turnVars
    BY <1>12 DEF ClaimSteering
  <2>3. QED
    BY <1>0, <1>1, <2>1, <2>2, NumbersStep
<1>13. ASSUME NEW m \in Message, NEW s \in SteeringId, Steer(m, s) PROVE NumbersInv'
  <2>1. Extends /\ \A n \in New : log'[n].kind = "steering_enqueued"
    BY <1>13, SteerSays DEF Published
  <2>2. UNCHANGED turnVars
    BY <1>13 DEF Steer
  <2>3. QED
    BY <1>0, <1>1, <2>1, <2>2, NumbersStep
<1>14. QED
  BY <1>3, <1>4, <1>5, <1>6, <1>7, <1>8, <1>9, <1>10, <1>11, <1>12, <1>13, Shapes

----------------------------------------------------------------------------
(* Steering: an id is settled once, and by the end of its turn *)

\* A step that says nothing of steering and ends no turn.
LEMMA SteeringSame ==
  ASSUME SteeringInv, Extends, steering' = steering,
         \A n \in New : log'[n].kind \notin {"steering_enqueued", "steering_claimed",
                                             "steering_dropped", "turn_end"}
  PROVE  SteeringInv'
<1>1. \A i \in DOMAIN log : i \in DOMAIN log' /\ log'[i] = log[i]
  BY DEF Extends
<1>2. /\ Events("steering_enqueued")' = Events("steering_enqueued")
      /\ Events("turn_end")' = Events("turn_end")
      /\ Settlements' = Settlements
  <2>1. \A kind \in {"steering_enqueued", "steering_claimed", "steering_dropped", "turn_end"} :
          Events(kind)' = Events(kind) \cup {n \in New : log'[n].kind = kind}
    BY EventsGrow, SteeringKinds
  <2>2. \A kind \in {"steering_enqueued", "steering_claimed", "steering_dropped", "turn_end"} :
          {n \in New : log'[n].kind = kind} = {}
    OBVIOUS
  <2>3. QED
    BY <2>1, <2>2 DEF Settlements
<1>3. Settlements \subseteq DOMAIN log /\ Events("steering_enqueued") \subseteq DOMAIN log
      /\ Events("turn_end") \subseteq DOMAIN log
  BY DEF Settlements, Events
<1>4. \A k \in DOMAIN log : \A s : Lists(k, s)' <=> Lists(k, s)
  BY <1>1, <1>2 DEF Lists, InSeq
<1>5. QED
  BY <1>1, <1>2, <1>3, <1>4 DEF SteeringInv

\* A step that empties the queue, and settles what was in it.
LEMMA SteeringSettles ==
  ASSUME SteeringInv, Extends, steering' = << >>,
         \A n \in New : log'[n].kind # "steering_enqueued",
         NEW D, D = {n \in New : log'[n].kind \in {"steering_claimed", "steering_dropped"}},
         (D = {} /\ steering = << >>) \/ (\E d \in D : D = {d} /\ log'[d].steering = steering),
         \A e \in New, d \in D : log'[e].kind = "turn_end" => d < e
  PROVE  SteeringInv'
<1>1. /\ \A i \in DOMAIN log : i \in DOMAIN log' /\ log'[i] = log[i]
      /\ \A i \in DOMAIN log, n \in New : i < n /\ i # n
      /\ D \subseteq New
  BY DEF Extends, New
<1>2. /\ Events("steering_enqueued")' = Events("steering_enqueued")
      /\ Events("turn_end")' = Events("turn_end") \cup {n \in New : log'[n].kind = "turn_end"}
      /\ Settlements' = Settlements \cup D
  <2>1. \A kind \in {"steering_enqueued", "steering_claimed", "steering_dropped", "turn_end"} :
          Events(kind)' = Events(kind) \cup {n \in New : log'[n].kind = kind}
    BY EventsGrow, SteeringKinds
  <2>2. Events("steering_enqueued")' = Events("steering_enqueued")
    BY <2>1
  <2>3. Settlements' = Settlements \cup D
    BY <2>1 DEF Settlements
  <2>4. QED
    BY <2>1, <2>2, <2>3
<1>3. Settlements \subseteq DOMAIN log /\ Events("steering_enqueued") \subseteq DOMAIN log
      /\ Events("turn_end") \subseteq DOMAIN log
  BY DEF Settlements, Events
<1>4. \A k \in Settlements : \A s : Lists(k, s)' <=> Lists(k, s)
  BY <1>1, <1>2, <1>3 DEF Lists, InSeq
<1>5. \A d \in D : \A s : Lists(d, s)' <=> InSeq(s, steering)
  BY <1>2 DEF Lists, InSeq
<1>6. \A s : ~InSeq(s, steering')
  BY DEF InSeq
<1>7. \A s : InSeq(s, steering) => \E d \in D : Lists(d, s)'
  <2>1. \A s : InSeq(s, steering) => D # {}
    BY DEF InSeq
  <2>2. QED
    BY <1>5, <2>1
<1>8. \A i \in Events("steering_enqueued") : log'[i].steering = log[i].steering /\ log'[i].turn = log[i].turn
  BY <1>1, <1>3
<1>9. /\ \A i \in Events("steering_enqueued")' : log'[i].steering = <<log'[i].steering[1]>>
      /\ \A i, j \in Events("steering_enqueued")' :
           log'[i].steering[1] = log'[j].steering[1] => i = j
  BY <1>2, <1>8 DEF SteeringInv
<1>10. ASSUME NEW k \in Settlements', NEW s \in SteeringId, Lists(k, s)'
       PROVE  /\ \E i \in Events("steering_enqueued")' : i < k /\ log'[i].steering[1] = s
              /\ \A j \in Settlements' : Lists(j, s)' => j = k
  <2>1. CASE k \in Settlements
    <3>1. Lists(k, s)
      BY <1>4, <1>10, <2>1
    <3>2. ~InSeq(s, steering)
      BY <2>1, <3>1 DEF SteeringInv
    <3>3. \A j \in Settlements' : Lists(j, s)' => j \in Settlements /\ Lists(j, s)
      BY <1>2, <1>4, <1>5, <3>2
    <3>4. QED
      BY <1>2, <1>8, <2>1, <3>1, <3>3 DEF SteeringInv
  <2>2. CASE k \in D
    <3>1. InSeq(s, steering)
      BY <1>5, <1>10, <2>2
    <3>2. PICK i \in Events("steering_enqueued") : log[i].steering[1] = s
      BY <3>1 DEF SteeringInv
    <3>3. i < k
      BY <1>1, <1>3, <2>2
    <3>4. \A j \in Settlements : ~Lists(j, s)'
      BY <1>4, <3>1 DEF SteeringInv
    <3>5. \A j \in Settlements' : Lists(j, s)' => j = k
      BY <1>2, <2>2, <3>4
    <3>6. QED
      BY <1>2, <1>8, <3>2, <3>3, <3>5
  <2>3. QED BY <1>2, <2>1, <2>2
<1>11. ASSUME NEW i \in Events("steering_enqueued")'
       PROVE  \E k \in Settlements' : Lists(k, log[i].steering[1])'
  <2>1. i \in Events("steering_enqueued") /\ log'[i].steering[1] = log[i].steering[1]
    BY <1>2, <1>8
  <2>2. CASE InSeq(log[i].steering[1], steering)
    BY <1>2, <1>7, <2>1, <2>2
  <2>3. CASE \E k \in Settlements : Lists(k, log[i].steering[1])
    BY <1>2, <1>4, <2>1, <2>3
  <2>4. QED
    BY <2>1, <2>2, <2>3 DEF SteeringInv
<1>12. ASSUME NEW i \in Events("steering_enqueued")', NEW k \in Events("turn_end")',
              log'[k].turn = log'[i].turn
       PROVE  \E j \in Settlements' : j < k /\ Lists(j, log[i].steering[1])'
  <2>1. /\ i \in Events("steering_enqueued") /\ log'[i].steering[1] = log[i].steering[1]
        /\ log'[i].turn = log[i].turn
    BY <1>2, <1>8
  <2>2. CASE k \in Events("turn_end")
    <3>1. log[k].turn = log[i].turn
      BY <1>1, <1>3, <1>12, <2>1, <2>2
    <3>2. PICK j \in Settlements : j < k /\ Lists(j, log[i].steering[1])
      BY <2>1, <2>2, <3>1 DEF SteeringInv
    <3>3. QED
      BY <1>2, <1>4, <2>1, <3>2
  <2>3. CASE k \in New /\ log'[k].kind = "turn_end"
    <3>1. PICK j \in Settlements' : Lists(j, log[i].steering[1])'
      BY <1>11
    <3>2. j < k
      BY <1>1, <1>2, <1>3, <2>3
    <3>3. QED
      BY <3>1, <3>2
  <2>4. QED BY <1>2, <2>2, <2>3
<1>13. QED
  BY <1>6, <1>9, <1>10, <1>11, <1>12 DEF SteeringInv
\* A fresh id goes to the end of the queue, in a turn that has not ended.
LEMMA SteerStep ==
  ASSUME TurnInv, NumbersInv, SteeringInv, NEW m \in Message, NEW s \in SteeringId, Steer(m, s)
  PROVE  SteeringInv'
<1>1. m \in Holding /\ Published("steering_enqueued", Current, m, <<s>>)
  BY SteerSays DEF Holding, Steer
<1>2. participants > 0 /\ Current.turn_number = currentTurn /\ currentTurn \in Nat
  BY <1>1, HoldsCurrent DEF TurnInv, TypeOK
<1>3. PICK n \in Nat : /\ New = {n} /\ log'[n].kind = "steering_enqueued"
                       /\ log'[n].turn = Current /\ log'[n].steering = <<s>>
  BY <1>1 DEF Published
<1>4. /\ Extends /\ \A i \in DOMAIN log : i \in DOMAIN log' /\ log'[i] = log[i] /\ i < n /\ i # n
  BY <1>1, <1>3 DEF Published, Extends, New
<1>5. <<s>>[1] = s
  OBVIOUS
<1>6. /\ Events("steering_enqueued")' = Events("steering_enqueued") \cup {n}
      /\ Events("turn_end")' = Events("turn_end")
      /\ Settlements' = Settlements
  <2>1. \A kind \in {"steering_enqueued", "steering_claimed", "steering_dropped", "turn_end"} :
          Events(kind)' = Events(kind) \cup {i \in New : log'[i].kind = kind}
    BY <1>4, EventsGrow, SteeringKinds
  <2>2. \A kind \in {"steering_claimed", "steering_dropped", "turn_end"} :
          {i \in New : log'[i].kind = kind} = {}
    BY <1>3
  <2>3. {i \in New : log'[i].kind = "steering_enqueued"} = {n}
    BY <1>3
  <2>4. QED
    BY <2>1, <2>2, <2>3 DEF Settlements
<1>7. Settlements \subseteq DOMAIN log /\ Events("steering_enqueued") \subseteq DOMAIN log
      /\ Events("turn_end") \subseteq DOMAIN log
  BY DEF Settlements, Events
<1>8. \A k \in Settlements : \A x : Lists(k, x)' <=> Lists(k, x)
  BY <1>4, <1>6, <1>7 DEF Lists, InSeq
<1>9. \A i \in Events("steering_enqueued") : log[i].steering[1] # s
  <2> SUFFICES ASSUME NEW i \in Events("steering_enqueued"), log[i].steering[1] = s PROVE FALSE
    OBVIOUS
  <2>1. log[i].steering = <<s>>
    BY DEF SteeringInv
  <2>2. s \in Minted
    BY <2>1 DEF Minted, Events
  <2>3. QED
    BY <2>2 DEF Steer
<1>10. \A x : InSeq(x, steering') <=> InSeq(x, steering) \/ x = s
  <2>1. steering' = Append(steering, s) /\ steering \in Seq(SteeringId)
    BY DEF Steer, TurnInv, TypeOK
  <2>2. PICK l \in Nat : l = Len(steering)
    BY <2>1, LenProperties
  <2>3. /\ DOMAIN steering = 1 .. l /\ DOMAIN steering' = 1 .. l + 1
        /\ steering'[l + 1] = s /\ \A i \in 1 .. l : steering'[i] = steering[i]
    BY <2>1, <2>2, AppendProperties, LenProperties
  <2>4. \A i \in 1 .. l + 1 : i \in 1 .. l \/ i = l + 1
    BY <2>2
  <2>5. l + 1 \in 1 .. l + 1 /\ \A i \in 1 .. l : i \in 1 .. l + 1
    BY <2>2
  <2>6. QED
    BY <2>3, <2>4, <2>5 DEF InSeq
<1>11. \A i \in Events("steering_enqueued") : log'[i] = log[i]
  BY <1>4, <1>7
<1>12. \A i \in Events("steering_enqueued")' : log'[i].steering = <<log'[i].steering[1]>>
  BY <1>3, <1>5, <1>6, <1>11 DEF SteeringInv
<1>13. \A i, j \in Events("steering_enqueued")' :
         log'[i].steering[1] = log'[j].steering[1] => i = j
  BY <1>3, <1>5, <1>6, <1>9, <1>11 DEF SteeringInv
<1>14. \A k \in Settlements : ~Lists(k, s)
  BY <1>9 DEF SteeringInv
<1>15. \A x \in SteeringId : InSeq(x, steering') =>
         /\ \E i \in Events("steering_enqueued")' : log'[i].steering[1] = x
         /\ \A k \in Settlements' : ~Lists(k, x)'
  BY <1>3, <1>5, <1>6, <1>8, <1>10, <1>11, <1>14 DEF SteeringInv
<1>16. \A k \in Settlements', x \in SteeringId : Lists(k, x)' =>
         /\ \E i \in Events("steering_enqueued")' : i < k /\ log'[i].steering[1] = x
         /\ \A j \in Settlements' : Lists(j, x)' => j = k
  BY <1>6, <1>8, <1>11 DEF SteeringInv
<1>17. \A i \in Events("steering_enqueued")' :
         InSeq(log'[i].steering[1], steering')
           \/ \E k \in Settlements' : Lists(k, log[i].steering[1])'
  BY <1>3, <1>5, <1>6, <1>8, <1>10, <1>11 DEF SteeringInv
<1>18. ASSUME NEW i \in Events("steering_enqueued")', NEW k \in Events("turn_end")',
              log'[k].turn = log'[i].turn
       PROVE  \E j \in Settlements' : j < k /\ Lists(j, log[i].steering[1])'
  <2>1. k \in Events("turn_end") /\ log'[k].turn = log[k].turn
    BY <1>4, <1>6, <1>7
  <2>2. CASE i = n
    <3>1. log[k].turn.turn_number = currentTurn
      BY <1>2, <1>3, <1>18, <2>1, <2>2
    <3>2. QED
      BY <1>2, <2>1, <3>1 DEF NumbersInv, Number
  <2>3. CASE i \in Events("steering_enqueued")
    <3>1. log[k].turn = log[i].turn
      BY <1>11, <1>18, <2>1, <2>3
    <3>2. PICK j \in Settlements : j < k /\ Lists(j, log[i].steering[1])
      BY <2>1, <2>3, <3>1 DEF SteeringInv
    <3>3. QED
      BY <1>6, <1>8, <1>11, <2>3, <3>2
  <2>4. QED BY <1>6, <2>2, <2>3
<1>19. QED
  BY <1>12, <1>13, <1>15, <1>16, <1>17, <1>18 DEF SteeringInv

LEMMA SteeringNext ==
  ASSUME TurnInv, NumbersInv, SteeringInv, [Next]_vars
  PROVE  SteeringInv'
<1>0. TypeOK /\ TypeOK' /\ log \in Seq(Event)
  BY NextType DEF TurnInv, TypeOK
<1>1. ASSUME log' = log, steering' = steering PROVE SteeringInv'
  BY <1>0, <1>1, SameLog, SteeringSame
<1>2. CASE Still
  BY <1>1, <1>2 DEF Still
<1>3. CASE Dispatch /\ CanOpenTurn
  <2>1. Extends /\ steering' = steering /\ \A n \in New : log'[n].kind = "turn_started"
    BY <1>0, <1>3, OpenSays DEF Published, Dispatch
  <2>2. QED
    BY <2>1, SteeringSame
<1>4. CASE Dispatch /\ ~CanOpenTurn
  BY <1>1, <1>4 DEF Dispatch
<1>5. CASE Drain
  <2>1. Extends /\ steering' = steering /\ \A n \in New : log'[n].kind = "agent_closed"
    BY <1>5, DrainSays DEF Published, Drain
  <2>2. QED
    BY <2>1, SteeringSame
<1>6. CASE StartHandler
  <2>1. Extends /\ steering' = steering /\ \A n \in New : log'[n].kind = "message_handler_start"
    BY <1>6, StartSays DEF Published, StartHandler
  <2>2. QED
    BY <2>1, SteeringSame
<1>7. ASSUME NEW m \in Message, AdmitJoin(m) \/ AdmitQueue(m) PROVE SteeringInv'
  <2>1. Extends /\ steering' = steering /\ \A n \in New : log'[n].kind = "message_accepted"
    BY <1>7, AdmitJoinSays, AdmitQueueSays DEF Published, AdmitJoin, AdmitQueue
  <2>2. QED
    BY <2>1, SteeringSame
<1>8. ASSUME NEW m \in Message, FinishHandler(m) PROVE SteeringInv'
  <2>1. FinishSays(m) /\ Extends /\ steering' = IF LastOut THEN << >> ELSE steering
    BY <1>8, FinishHandlerSays DEF FinishSays, FinishHandler
  <2>2. PICK h \in New :
          /\ Finishes(m, h)
          /\ ~LastOut => New = {h}
          /\ LastOut => \E e \in New :
               /\ h < e /\ log'[e].kind = "turn_end" /\ log'[e].turn = Current
               /\ steering = << >> => New = {h, e}
               /\ steering # << >> => \E d \in New :
                    /\ h < d /\ d < e /\ New = {h, d, e}
                    /\ log'[d].kind = "steering_dropped" /\ log'[d].turn = Current
                    /\ log'[d].steering = steering
    BY <2>1 DEF FinishSays
  <2>3. log'[h].kind = "message_handler_end"
    BY <2>2 DEF Finishes
  <2>4. CASE ~LastOut
    BY <2>1, <2>2, <2>3, <2>4, SteeringSame
  <2>5. CASE LastOut
    <3>1. PICK e \in New :
            /\ h < e /\ log'[e].kind = "turn_end"
            /\ steering = << >> => New = {h, e}
            /\ steering # << >> => \E d \in New :
                 /\ h < d /\ d < e /\ New = {h, d, e}
                 /\ log'[d].kind = "steering_dropped" /\ log'[d].steering = steering
      BY <2>2, <2>5
    <3> DEFINE D == {n \in New : log'[n].kind \in {"steering_claimed", "steering_dropped"}}
    <3>2. CASE steering = << >>
      <4>1. D = {} /\ \A n \in New : log'[n].kind # "steering_enqueued"
        BY <2>3, <3>1, <3>2
      <4>2. QED
        BY <2>1, <2>5, <3>2, <4>1, SteeringSettles
    <3>3. CASE steering # << >>
      <4>1. PICK d \in New : /\ h < d /\ d < e /\ New = {h, d, e}
                             /\ log'[d].kind = "steering_dropped" /\ log'[d].steering = steering
        BY <3>1, <3>3
      <4>2. D = {d} /\ \A n \in New : /\ log'[n].kind # "steering_enqueued"
                                      /\ log'[n].kind = "turn_end" => n = e
        BY <2>3, <3>1, <4>1
      <4> HIDE DEF D
      <4>3. \A n \in New, x \in D : log'[n].kind = "turn_end" => x < n
        BY <4>1, <4>2
      <4>4. D = {n \in New : log'[n].kind \in {"steering_claimed", "steering_dropped"}}
        BY DEF D
      <4>5. steering' = << >>
        BY <2>1, <2>5
      <4>6. \E x \in D : D = {x} /\ log'[x].steering = steering
        BY <4>1, <4>2
      <4>7. QED
        BY <2>1, <4>2, <4>3, <4>4, <4>5, <4>6, SteeringSettles
    <3>4. QED BY <3>2, <3>3
  <2>6. QED BY <2>4, <2>5
<1>9. ASSUME NEW m \in Message, AbandonHandler(m) PROVE SteeringInv'
  BY <1>1, <1>9 DEF AbandonHandler
<1>10. ASSUME NEW m \in Message, ClaimSteering(m) PROVE SteeringInv'
  <2>1. Published("steering_claimed", Current, m, steering) /\ steering' = << >>
    BY <1>10, ClaimSays DEF ClaimSteering
  <2>2. PICK d \in Nat : New = {d} /\ log'[d].kind = "steering_claimed" /\ log'[d].steering = steering
    BY <2>1 DEF Published
  <2> DEFINE D == {n \in New : log'[n].kind \in {"steering_claimed", "steering_dropped"}}
  <2>3. D = {d} /\ \A n \in New : log'[n].kind = "steering_claimed"
    BY <2>2
  <2>4. Extends
    BY <2>1 DEF Published
  <2>5. \E x \in D : D = {x} /\ log'[x].steering = steering
    BY <2>2, <2>3
  <2>6. QED
    BY <2>1, <2>3, <2>4, <2>5, SteeringSettles
<1>11. ASSUME NEW m \in Message, NEW s \in SteeringId, Steer(m, s) PROVE SteeringInv'
  BY <1>11, SteerStep
<1>12. QED
  BY <1>2, <1>3, <1>4, <1>5, <1>6, <1>7, <1>8, <1>9, <1>10, <1>11, Shapes

LEMMA InitSettled == Init => SettledInv
<1> SUFFICES ASSUME Init PROVE SettledInv
  OBVIOUS
<1>1. \A kind : Events(kind) = {}
  BY DEF Init, Events
<1>2. HandlerEvents = {} /\ Settlements = {} /\ \A s : ~InSeq(s, steering)
  BY <1>1 DEF HandlerEvents, Settlements, Init, InSeq
<1>3. NumbersInv /\ SteeringInv
  BY <1>1, <1>2 DEF NumbersInv, SteeringInv
<1>4. QED
  BY <1>3, InitInv DEF SettledInv

LEMMA NextSettled == SettledInv /\ [Next]_vars => SettledInv'
  BY NextInv, NumbersNext, SteeringNext DEF SettledInv

LEMMA SettledFollows == SettledInv => SteeringSettledOnce
<1> SUFFICES ASSUME SettledInv, NEW i \in Events("steering_enqueued")
             PROVE  LET s == log[i].steering[1]
                        settled == {k \in Settlements : InSeq(s, log[k].steering)}
                    IN  /\ Cardinality(settled) <= 1
                        /\ \A k \in settled : i < k
                        /\ \A k \in Events("turn_end") : log[k].turn = log[i].turn =>
                             \E j \in settled : j < k
  BY DEF SteeringSettledOnce
<1> DEFINE s == log[i].steering[1]
           settled == {k \in Settlements : InSeq(s, log[k].steering)}
<1>1. SteeringInv /\ log \in Seq(Event)
  BY DEF SettledInv, TurnInv, TypeOK
<1>2. \A k : k \in settled <=> k \in Settlements /\ Lists(k, s)
  BY DEF Lists
<1>3. s \in SteeringId
  <2>1. log[i] \in Event
    BY <1>1, LenProperties DEF Events
  <2>2. log[i].steering \in Seq(SteeringId) /\ log[i].steering = <<s>>
    BY <1>1, <2>1 DEF Event, SteeringInv
  <2>3. Len(<<s>>) = 1
    OBVIOUS
  <2>4. 1 \in 1 .. Len(log[i].steering)
    BY <2>2, <2>3
  <2>5. QED
    BY <2>2, <2>4, ElementOfSeq
<1> HIDE DEF s, settled
<1>4. Cardinality(settled) <= 1
  <2>1. CASE settled = {}
    BY <2>1, FS_EmptySet
  <2>2. CASE settled # {}
    <3>1. PICK k : k \in settled
      BY <2>2
    <3>2. settled = {k}
      BY <1>1, <1>2, <1>3, <3>1 DEF SteeringInv
    <3>3. Cardinality({k}) = 1
      BY FS_Singleton
    <3>4. QED
      BY <3>2, <3>3
  <2>3. QED BY <2>1, <2>2
<1>5. ASSUME NEW k \in settled PROVE i < k
  <2>1. PICK j \in Events("steering_enqueued") : j < k /\ log[j].steering[1] = s
    BY <1>1, <1>2, <1>3 DEF SteeringInv
  <2>2. j = i
    BY <1>1, <2>1 DEF SteeringInv, s
  <2>3. QED
    BY <2>1, <2>2
<1>6. ASSUME NEW k \in Events("turn_end"), log[k].turn = log[i].turn
      PROVE  \E j \in settled : j < k
  BY <1>1, <1>2, <1>6 DEF SteeringInv, s
<1>7. QED
  BY <1>4, <1>5, <1>6 DEF s, settled

\* Steering is settled once, claimed or reported dropped, after it was enqueued, and by
\* the time its turn has ended: nothing a user said in mid-turn is lost or read twice.
THEOREM SteeringTheorem == Spec => []SteeringSettledOnce
<1>1. QED
  BY InitSettled, NextSettled, SettledFollows, PTL DEF Spec----------------------------------------------------------------------------
(* Brackets: turns open and close one at a time, with all they say inside *)

LEMMA EventsFinite ==
  ASSUME TypeOK, NEW kind
  PROVE  IsFiniteSet(Events(kind)) /\ Events(kind) \subseteq DOMAIN log /\ DOMAIN log \subseteq Nat
<1>1. DOMAIN log = 1 .. Len(log) /\ Len(log) \in Nat
  BY LenProperties DEF TypeOK
<1>2. IsFiniteSet(DOMAIN log)
  BY <1>1, FS_Interval
<1>3. QED
  BY <1>1, <1>2, FS_Subset DEF Events

\* A step that neither opens nor closes a turn, and speaks inside the open one.
LEMMA BracketsStay ==
  ASSUME TypeOK, NumbersInv, BracketInv, BracketsWellFormed, Extends,
         Current' = Current, participants' > 0 <=> participants > 0,
         \A n \in New :
           /\ log'[n].kind \notin {"turn_started", "turn_end"}
           /\ log'[n].kind \in {"message_handler_start", "message_handler_end", "steering_enqueued",
                                "steering_claimed", "steering_dropped"}
                => log'[n].turn = Current /\ participants > 0
  PROVE  BracketInv' /\ BracketsWellFormed'
<1>1. /\ \A i \in DOMAIN log : i \in DOMAIN log' /\ log'[i] = log[i]
      /\ \A i \in DOMAIN log, n \in New : i < n
      /\ \A i \in DOMAIN log' : i \in DOMAIN log \/ i \in New
  BY DEF Extends, New
<1>2. /\ Events("turn_started")' = Events("turn_started")
      /\ Events("turn_end")' = Events("turn_end")
  <2>1. \A kind \in {"turn_started", "turn_end"} :
          Events(kind)' = Events(kind) \cup {n \in New : log'[n].kind = kind}
    BY EventsGrow, SteeringKinds
  <2>2. \A kind \in {"turn_started", "turn_end"} : {n \in New : log'[n].kind = kind} = {}
    OBVIOUS
  <2>3. QED
    BY <2>1, <2>2
<1>3. Events("turn_started") \subseteq DOMAIN log /\ Events("turn_end") \subseteq DOMAIN log
  BY DEF Events
<1>4. BracketInv'
  BY <1>1, <1>2, <1>3 DEF BracketInv
<1>5. ASSUME NEW k \in (HandlerEvents \cup SteeringEvents)'
      PROVE  \E i \in Events("turn_started") :
               /\ i < k /\ log[i].turn = log'[k].turn
               /\ \A j \in Events("turn_end") : log[j].turn = log'[k].turn => k < j
  <2>1. CASE k \in DOMAIN log
    <3>1. k \in HandlerEvents \cup SteeringEvents
      BY <1>1, <1>5, <2>1 DEF HandlerEvents, SteeringEvents, Events
    <3>2. QED
      BY <1>1, <2>1, <3>1 DEF BracketsWellFormed
  <2>2. CASE k \in New
    <3>1. log'[k].turn = Current /\ participants > 0
      BY <1>5, <2>2 DEF HandlerEvents, SteeringEvents, Events
    <3>2. PICK i \in Events("turn_started") : log[i].turn = Current
      BY <3>1 DEF BracketInv
    <3>3. \A j \in Events("turn_end") : log[j].turn # Current
      BY <3>1 DEF NumbersInv, Number, Current, TypeOK
    <3>4. QED
      BY <1>1, <1>3, <2>2, <3>1, <3>2, <3>3
  <2>3. QED
    BY <1>1, <1>5, <2>1, <2>2 DEF HandlerEvents, SteeringEvents, Events
<1>6. BracketsWellFormed'
  BY <1>1, <1>2, <1>3, <1>5 DEF BracketsWellFormed
<1>7. QED
  BY <1>4, <1>6

\* A turn opens: no other is open.
LEMMA BracketsOpen ==
  ASSUME TypeOK, BracketInv, BracketsWellFormed,
         participants = 0, participants' = 1, Published("turn_started", Current', None, << >>)
  PROVE  BracketInv' /\ BracketsWellFormed'
<1>1. PICK n \in Nat : New = {n} /\ log'[n].kind = "turn_started" /\ log'[n].turn = Current'
  BY DEF Published
<1>2. /\ Extends
      /\ \A i \in DOMAIN log : i \in DOMAIN log' /\ log'[i] = log[i] /\ i < n
      /\ n \notin DOMAIN log /\ \A i \in DOMAIN log' : i \in DOMAIN log \/ i = n
  BY <1>1 DEF Published, Extends, New
<1>3. /\ Events("turn_started")' = Events("turn_started") \cup {n}
      /\ Events("turn_end")' = Events("turn_end")
      /\ HandlerEvents' = HandlerEvents /\ SteeringEvents' = SteeringEvents
  <2>1. \A kind \in EventKind : Events(kind)' = Events(kind) \cup {i \in New : log'[i].kind = kind}
    BY <1>2, EventsGrow
  <2>2. \A kind \in EventKind \ {"turn_started"} : Events(kind)' = Events(kind)
    BY <1>1, <2>1
  <2>3. Events("turn_started")' = Events("turn_started") \cup {n}
    BY <1>1, <2>1, SteeringKinds
  <2>4. QED
    BY <2>2, <2>3 DEF HandlerEvents, SteeringEvents, EventKind
<1>4. /\ Events("turn_started") \subseteq DOMAIN log /\ Events("turn_end") \subseteq DOMAIN log
      /\ IsFiniteSet(Events("turn_started")) /\ n \notin Events("turn_started")
  BY <1>2, EventsFinite
<1>5. Cardinality(Events("turn_started")') = Cardinality(Events("turn_started")) + 1
  BY <1>3, <1>4, FS_AddElement
<1>6. Cardinality(Events("turn_started")') = Cardinality(Events("turn_end")') + 1
  BY <1>3, <1>5, EventsFinite, FS_CardinalityType DEF BracketInv
<1>7. \A i \in Events("turn_started") :
        \E k \in Events("turn_end") : i < k /\ k < n /\ log[k].turn = log[i].turn
  BY <1>2, <1>4 DEF BracketInv
<1>8. BracketInv'
  BY <1>1, <1>2, <1>3, <1>4, <1>6, <1>7 DEF BracketInv
<1>9. HandlerEvents \cup SteeringEvents \subseteq DOMAIN log
  BY DEF HandlerEvents, SteeringEvents, Events
<1>10. \A i, j \in Events("turn_started")' : i < j =>
         \E k \in Events("turn_end")' : i < k /\ k < j /\ log'[k].turn = log'[i].turn
  <2> SUFFICES ASSUME NEW i \in Events("turn_started")', NEW j \in Events("turn_started")', i < j
               PROVE  \E k \in Events("turn_end")' : i < k /\ k < j /\ log'[k].turn = log'[i].turn
    OBVIOUS
  <2>1. i \in Events("turn_started")
    <3>1. j \in Nat /\ (j = n \/ j < n)
      BY <1>1, <1>2, <1>3, <1>4, EventsFinite
    <3>2. i # n
      BY <1>1, <3>1
    <3>3. QED
      BY <1>3, <3>2
  <2>2. CASE j = n
    BY <1>2, <1>3, <1>4, <1>7, <2>1, <2>2
  <2>3. CASE j \in Events("turn_started")
    BY <1>2, <1>3, <1>4, <2>1, <2>3 DEF BracketsWellFormed
  <2>4. QED BY <1>3, <2>2, <2>3
<1>11. \A k \in (HandlerEvents \cup SteeringEvents)' :
         \E i \in Events("turn_started")' :
           /\ i < k /\ log'[i].turn = log'[k].turn
           /\ \A j \in Events("turn_end")' : log'[j].turn = log'[k].turn => k < j
  BY <1>2, <1>3, <1>4, <1>9 DEF BracketsWellFormed
<1>12. QED
  BY <1>8, <1>10, <1>11 DEF BracketsWellFormed

\* The open turn closes, after what its last handler says.
LEMMA BracketsClose ==
  ASSUME TypeOK, NumbersInv, BracketInv, BracketsWellFormed, Extends,
         participants > 0, participants' = 0,
         NEW e \in New, log'[e].kind = "turn_end", log'[e].turn = Current,
         \A n \in New \ {e} : /\ n < e /\ log'[n].turn = Current
                              /\ log'[n].kind \notin {"turn_started", "turn_end"}
  PROVE  BracketInv' /\ BracketsWellFormed'
<1>1. /\ \A i \in DOMAIN log : i \in DOMAIN log' /\ log'[i] = log[i] /\ i < e
      /\ \A i \in DOMAIN log, n \in New : i < n
      /\ e \notin DOMAIN log /\ \A i \in DOMAIN log' : i \in DOMAIN log \/ i \in New
  BY DEF Extends, New
<1>2. /\ Events("turn_started")' = Events("turn_started")
      /\ Events("turn_end")' = Events("turn_end") \cup {e}
  <2>1. \A kind \in {"turn_started", "turn_end"} :
          Events(kind)' = Events(kind) \cup {n \in New : log'[n].kind = kind}
    BY EventsGrow, SteeringKinds
  <2>2. {n \in New : log'[n].kind = "turn_started"} = {} /\ {n \in New : log'[n].kind = "turn_end"} = {e}
    OBVIOUS
  <2>3. QED
    BY <2>1, <2>2
<1>3. /\ Events("turn_started") \subseteq DOMAIN log /\ Events("turn_end") \subseteq DOMAIN log
      /\ IsFiniteSet(Events("turn_end")) /\ e \notin Events("turn_end")
  BY <1>1, EventsFinite
<1>4. Cardinality(Events("turn_end")') = Cardinality(Events("turn_end")) + 1
  BY <1>2, <1>3, FS_AddElement
<1>5. Cardinality(Events("turn_started")') = Cardinality(Events("turn_end")')
  BY <1>2, <1>4 DEF BracketInv
<1>6. ASSUME NEW i \in Events("turn_started")
      PROVE  \E k \in Events("turn_end")' : i < k /\ log'[k].turn = log'[i].turn
  BY <1>1, <1>2, <1>3 DEF BracketInv
<1>7. BracketInv'
  <2>1. Cardinality(Events("turn_end")') + 0 = Cardinality(Events("turn_end")')
    BY <1>3, <1>4, FS_CardinalityType
  <2>2. QED
    BY <1>2, <1>5, <1>6, <2>1 DEF BracketInv
<1>8. \A i, j \in Events("turn_started")' : i < j =>
        \E k \in Events("turn_end")' : i < k /\ k < j /\ log'[k].turn = log'[i].turn
  BY <1>1, <1>2, <1>3 DEF BracketsWellFormed
<1>9. ASSUME NEW k \in (HandlerEvents \cup SteeringEvents)'
      PROVE  \E i \in Events("turn_started")' :
               /\ i < k /\ log'[i].turn = log'[k].turn
               /\ \A j \in Events("turn_end")' : log'[j].turn = log'[k].turn => k < j
  <2>1. CASE k \in DOMAIN log
    <3>1. k \in HandlerEvents \cup SteeringEvents
      BY <1>1, <1>9, <2>1 DEF HandlerEvents, SteeringEvents, Events
    <3>2. QED
      BY <1>1, <1>2, <1>3, <2>1, <3>1 DEF BracketsWellFormed
  <2>2. CASE k \in New
    <3>1. log'[k].turn = Current /\ k < e
      BY <1>9, <2>2 DEF HandlerEvents, SteeringEvents, Events
    <3>2. PICK i \in Events("turn_started") : log[i].turn = Current
      BY DEF BracketInv
    <3>3. \A j \in Events("turn_end") : log[j].turn # Current
      BY DEF NumbersInv, Number, Current, TypeOK
    <3>4. QED
      BY <1>1, <1>2, <1>3, <2>2, <3>1, <3>2, <3>3
  <2>3. QED
    BY <1>1, <1>9, <2>1, <2>2 DEF HandlerEvents, SteeringEvents, Events
<1>10. QED
  BY <1>7, <1>8, <1>9 DEF BracketsWellFormed----------------------------------------------------------------------------
(* turn_end is the quiescence signal *)

\* The messages the turn may still be told to run have numbers ahead of it; when the
\* last handler leaves, every other message of the turn has finished.
LEMMA OnlyOneLeft ==
  ASSUME TurnInv, AcceptInv, NEW m \in Message, FinishHandler(m), LastOut,
         NEW x \in Message, task[x] # "unsent", admission[x].turn = Current
  PROVE  x = m \/ task[x] = "finished"
<1> USE DEF TurnInv
<1>1. m \in Holding /\ IsFiniteSet(Holding) /\ Cardinality(Holding) <= 1
  BY HoldingFinite DEF Holding, FinishHandler, LastOut, RefcountExact
<1>2. CASE x \in Holding
  <2>1. {m, x} \subseteq Holding
    BY <1>1, <1>2
  <2>2. Cardinality({m, x}) <= Cardinality(Holding)
    BY <1>1, <2>1, FS_Subset
  <2>3. x # m => Cardinality({m, x}) = 2
    <3>1. Cardinality({m}) = 1 /\ IsFiniteSet({m}) /\ {m, x} = {m} \cup {x}
      BY FS_Singleton
    <3>2. Cardinality({m} \cup {x}) = IF x \in {m} THEN Cardinality({m}) ELSE Cardinality({m}) + 1
      BY <3>1, FS_AddElement
    <3>3. QED
      BY <3>1, <3>2
  <2>4. Cardinality(Holding) \in Nat
    BY <1>1, FS_CardinalityType
  <2>5. QED
    BY <1>1, <2>2, <2>3, <2>4
<1>3. CASE task[x] = "pending"
  <2>1. PICK i \in DOMAIN pending : pending[i] = x
    BY <1>3 DEF AcceptInv, InSeq
  <2>2. Current.turn_number = currentTurn + i
    <3>1. admission[x].turn = [turn_id |-> x, turn_number |-> currentTurn + i]
      BY <2>1 DEF SlotsReserved
    <3>2. QED
      BY <3>1
  <2>3. i \in Nat /\ i >= 1 /\ currentTurn \in Nat
    BY <2>1, LenProperties DEF TypeOK
  <2>4. QED
    BY <2>2, <2>3 DEF Current
<1>4. task[x] \in TaskState
  BY DEF TypeOK
<1>5. QED
  BY <1>2, <1>3, <1>4 DEF TaskState, Holding, AcceptInv

\* A step that ends no turn, and accepts messages only into a turn that has not ended.
LEMMA QuiescenceStays ==
  ASSUME TypeOK, NumbersInv, TurnEndIsQuiescence, Extends,
         \A n \in New :
           /\ log'[n].kind # "turn_end"
           /\ log'[n].kind = "message_accepted" =>
                \/ log'[n].turn.turn_number > currentTurn
                \/ log'[n].turn.turn_number = currentTurn /\ participants > 0
  PROVE  TurnEndIsQuiescence'
<1>1. /\ \A i \in DOMAIN log : i \in DOMAIN log' /\ log'[i] = log[i]
      /\ \A i \in DOMAIN log' : i \in DOMAIN log \/ i \in New
  BY DEF Extends, New
<1>2. Events("turn_end")' = Events("turn_end")
  BY EventsGrow, SteeringKinds
<1>3. Events("message_handler_end") \subseteq Events("message_handler_end")'
      /\ Events("message_handler_end") \subseteq DOMAIN log /\ Events("turn_end") \subseteq DOMAIN log
  BY <1>1 DEF Events
<1>4. ASSUME NEW k \in Events("turn_end")', NEW i \in Events("message_accepted")',
             log'[i].turn = log'[k].turn
      PROVE  \E j \in Events("message_handler_end")' :
               i < j /\ j < k /\ log'[j].message = log'[i].message
  <2>1. k \in Events("turn_end") /\ log'[k] = log[k]
    BY <1>1, <1>2, <1>3
  <2>2. \/ log[k].turn.turn_number < currentTurn
        \/ log[k].turn.turn_number = currentTurn /\ participants = 0
    BY <2>1 DEF NumbersInv, Number
  <2>3. log[k].turn.turn_number \in Nat
    <3>1. log[k] \in Event
      BY <2>1, LenProperties DEF TypeOK, Events
    <3>2. QED
      BY <3>1 DEF Event, Turn
  <2>4. i \in DOMAIN log
    <3>1. ASSUME i \in New PROVE FALSE
      <4>1. log'[i].kind = "message_accepted"
        BY DEF Events
      <4>2. QED
        BY <1>4, <2>1, <2>2, <2>3, <3>1, <4>1 DEF TypeOK
    <3>2. QED
      BY <1>1, <3>1 DEF Events
  <2>5. i \in Events("message_accepted") /\ log'[i] = log[i]
    BY <1>1, <2>4 DEF Events
  <2>6. log[i].turn = log[k].turn
    BY <1>4, <2>1, <2>5
  <2>7. PICK j \in Events("message_handler_end") :
          i < j /\ j < k /\ log[j].message = log[i].message
    BY <2>1, <2>5, <2>6 DEF TurnEndIsQuiescence
  <2>8. QED
    BY <1>1, <1>3, <2>5, <2>7
<1>5. QED
  BY <1>4 DEF TurnEndIsQuiescence

\* The turn ends: all it accepted was answered, the last of it just now.
LEMMA QuiescenceReached ==
  ASSUME TurnInv, NumbersInv, AcceptInv, TurnEndIsQuiescence, Extends,
         NEW m \in Message, FinishHandler(m), LastOut,
         NEW h \in New, Finishes(m, h),
         NEW e \in New, h < e, log'[e].turn = Current,
         \A n \in New : /\ log'[n].kind # "message_accepted"
                        /\ log'[n].kind = "turn_end" => n = e
  PROVE  TurnEndIsQuiescence'
<1>1. /\ \A i \in DOMAIN log : i \in DOMAIN log' /\ log'[i] = log[i] /\ i < h /\ i < e
      /\ \A i \in DOMAIN log' : i \in DOMAIN log \/ i \in New
  BY DEF Extends, New
<1>2. Events("turn_end")' \subseteq Events("turn_end") \cup {e}
      /\ Events("message_accepted")' = Events("message_accepted")
  <2>1. Events("turn_end")' = Events("turn_end") \cup {n \in New : log'[n].kind = "turn_end"}
    BY EventsGrow, SteeringKinds
  <2>2. Events("message_accepted")' = Events("message_accepted")
    BY NoneNew, SteeringKinds
  <2>3. QED
    BY <2>1, <2>2
<1>3. /\ Events("message_handler_end") \subseteq Events("message_handler_end")'
      /\ Events("message_handler_end") \subseteq DOMAIN log /\ Events("turn_end") \subseteq DOMAIN log
      /\ Events("message_accepted") \subseteq DOMAIN log
      /\ h \in Events("message_handler_end")' /\ log'[h].message = m
  BY <1>1 DEF Events, Finishes, New
<1>4. ASSUME NEW k \in Events("turn_end")', NEW i \in Events("message_accepted")',
             log'[i].turn = log'[k].turn
      PROVE  \E j \in Events("message_handler_end")' :
               i < j /\ j < k /\ log'[j].message = log'[i].message
  <2>1. i \in Events("message_accepted") /\ log'[i] = log[i] /\ i < h
    BY <1>1, <1>2, <1>3
  <2>2. CASE k \in Events("turn_end")
    <3>1. log[i].turn = log[k].turn
      BY <1>1, <1>3, <1>4, <2>1, <2>2
    <3>2. PICK j \in Events("message_handler_end") :
            i < j /\ j < k /\ log[j].message = log[i].message
      BY <2>1, <2>2, <3>1 DEF TurnEndIsQuiescence
    <3>3. QED
      BY <1>1, <1>3, <2>1, <3>2
  <2>3. CASE k = e
    <3> DEFINE x == log[i].message
    <3>1. x \in Message /\ task[x] # "unsent" /\ admission[x].turn = Current
      BY <1>4, <2>1, <2>3 DEF AcceptInv
    <3>2. CASE x = m
      BY <1>3, <2>1, <2>3, <3>2
    <3>3. CASE task[x] = "finished"
      <4>1. PICK j \in Events("message_handler_end") : i < j /\ log[j].message = x
        BY <2>1, <3>3 DEF AcceptInv
      <4>2. QED
        BY <1>1, <1>3, <2>1, <2>3, <4>1
    <3>4. QED
      BY <3>1, <3>2, <3>3, OnlyOneLeft
  <2>4. QED
    BY <1>2, <2>2, <2>3
<1>5. QED
  BY <1>4 DEF TurnEndIsQuiescence

\* A step that admits nobody.
LEMMA AcceptStays ==
  ASSUME TypeOK, AcceptInv, Extends, admission' = admission,
         \A x \in Message :
           /\ task'[x] = "unsent" <=> task[x] = "unsent"
           /\ task'[x] = "pending" => task[x] = "pending" /\ InSeq(x, pending')
           /\ task'[x] = "finished" /\ task[x] # "finished" => \E h \in New : Finishes(x, h)
           /\ task'[x] # "abandoned",
         \A n \in New :
           /\ log'[n].kind # "message_accepted"
           /\ log'[n].kind = "message_handler_start"
                => log'[n].message \in Message /\ task[log'[n].message] # "unsent"
  PROVE  AcceptInv'
<1>1. /\ \A i \in DOMAIN log : i \in DOMAIN log' /\ log'[i] = log[i]
      /\ \A i \in DOMAIN log, n \in New : i < n
      /\ \A i \in DOMAIN log' : i \in DOMAIN log \/ i \in New
  BY DEF Extends, New
<1>2. Events("message_accepted")' = Events("message_accepted")
  BY NoneNew, SteeringKinds
<1>3. /\ Events("message_handler_end") \subseteq Events("message_handler_end")'
      /\ Events("message_handler_end") \subseteq DOMAIN log
      /\ Events("message_accepted") \subseteq DOMAIN log
      /\ \A x, h : h \in New /\ Finishes(x, h) =>
           h \in Events("message_handler_end")' /\ log'[h].message = x
  BY <1>1 DEF Events, Finishes, New
<1>4. ASSUME NEW k \in Events("message_handler_start")'
      PROVE  log'[k].message \in Message /\ task'[log'[k].message] # "unsent"
  <2>1. CASE k \in New
    BY <2>1 DEF Events
  <2>2. CASE k \in DOMAIN log
    BY <1>1, <2>2 DEF Events, AcceptInv
  <2>3. QED
    BY <1>1, <2>1, <2>2 DEF Events
<1>5. ASSUME NEW i \in Events("message_accepted"), task'[log[i].message] = "finished"
      PROVE  \E j \in Events("message_handler_end")' : i < j /\ log'[j].message = log'[i].message
  <2>1. log'[i] = log[i] /\ log[i].message \in Message /\ i \in DOMAIN log
    BY <1>1, <1>3 DEF AcceptInv
  <2>2. CASE task[log[i].message] = "finished"
    BY <1>1, <1>3, <2>1, <2>2 DEF AcceptInv
  <2>3. CASE task[log[i].message] # "finished"
    BY <1>1, <1>3, <1>5, <2>1, <2>3
  <2>4. QED BY <2>2, <2>3
<1>6. \A i \in Events("message_accepted") :
        /\ log'[i] = log[i] /\ log[i].message \in Message /\ task'[log[i].message] # "unsent"
        /\ log[i].turn = admission'[log[i].message].turn
  BY <1>1, <1>3 DEF AcceptInv
<1>7. \A x \in Message : task'[x] # "unsent" =>
        \E i \in Events("message_accepted") : log'[i].message = x
  BY <1>1, <1>3 DEF AcceptInv
<1>8. QED
  BY <1>2, <1>4, <1>5, <1>6, <1>7 DEF AcceptInv

\* A message is admitted.
LEMMA AcceptGrows ==
  ASSUME TypeOK, AcceptInv, NEW m \in Message, task[m] = "unsent",
         NEW turn, Published("message_accepted", turn, m, << >>),
         \A x \in Message \ {m} : task'[x] = task[x] /\ admission'[x] = admission[x],
         task'[m] \in {"pending", "joining"}, admission'[m].turn = turn,
         \A x \in Message : InSeq(x, pending) => InSeq(x, pending'),
         task'[m] = "pending" => InSeq(m, pending')
  PROVE  AcceptInv'
<1>1. PICK n \in Nat : /\ New = {n} /\ log'[n].kind = "message_accepted"
                       /\ log'[n].turn = turn /\ log'[n].message = m
  BY DEF Published
<1>2. /\ Extends
      /\ \A i \in DOMAIN log : i \in DOMAIN log' /\ log'[i] = log[i]
  BY DEF Published, Extends
<1>3. /\ Events("message_accepted")' = Events("message_accepted") \cup {n}
      /\ Events("message_handler_start")' = Events("message_handler_start")
      /\ Events("message_handler_end")' = Events("message_handler_end")
  <2>1. \A kind \in EventKind : Events(kind)' = Events(kind) \cup {i \in New : log'[i].kind = kind}
    BY <1>2, EventsGrow
  <2>2. QED
    BY <1>1, <2>1, SteeringKinds
<1>4. \A kind : Events(kind) \subseteq DOMAIN log
  BY DEF Events
<1>5. \A i \in Events("message_accepted") :
        /\ log'[i] = log[i] /\ log[i].message \in Message /\ log[i].message # m
        /\ task[log[i].message] # "unsent" /\ log[i].turn = admission[log[i].message].turn
  BY <1>2, <1>4 DEF AcceptInv
<1>6. \A i \in Events("message_accepted")' :
        /\ log'[i].message \in Message /\ task'[log'[i].message] # "unsent"
        /\ log'[i].turn = admission'[log'[i].message].turn
  BY <1>1, <1>3, <1>5
<1>7. \A k \in Events("message_handler_start")' :
        log'[k].message \in Message /\ task'[log'[k].message] # "unsent"
  BY <1>2, <1>3, <1>4 DEF AcceptInv
<1>8. \A x \in Message : task'[x] # "unsent" =>
        \E i \in Events("message_accepted")' : log'[i].message = x
  BY <1>1, <1>3, <1>5 DEF AcceptInv
<1>9. \A i \in Events("message_accepted")' : task'[log'[i].message] = "finished" =>
        \E j \in Events("message_handler_end")' : i < j /\ log'[j].message = log'[i].message
  BY <1>1, <1>2, <1>3, <1>4, <1>5 DEF AcceptInv
<1>10. \A x \in Message : (task'[x] = "pending" => InSeq(x, pending')) /\ task'[x] # "abandoned"
  BY DEF AcceptInv
<1>11. QED
  BY <1>6, <1>7, <1>8, <1>9, <1>10 DEF AcceptInv----------------------------------------------------------------------------
(* Handlers of a turn start in the order of admission *)

LEMMA BeforeLasts ==
  ASSUME Extends, NEW x, NEW y, Before(log, x, y)
  PROVE  Before(log', x, y)
<1>1. \A i \in DOMAIN log : i \in DOMAIN log' /\ log'[i] = log[i]
  BY DEF Extends
<1>2. QED
  BY <1>1 DEF Before

\* A message that is admitted now comes after every other that was.
LEMMA AdmittedLast ==
  ASSUME AcceptInv, NEW m, NEW turn, Published("message_accepted", turn, m, << >>),
         NEW x \in Message, task[x] # "unsent"
  PROVE  Before(log', x, m)
<1>1. PICK n \in Nat : New = {n} /\ log'[n].kind = "message_accepted" /\ log'[n].message = m
  BY DEF Published
<1>2. \A i \in DOMAIN log : i \in DOMAIN log' /\ log'[i] = log[i] /\ i < n
  BY <1>1 DEF Published, Extends
<1>3. n \in Events("message_accepted")'
  BY <1>1 DEF Events, New
<1>4. PICK a \in Events("message_accepted") : log[a].message = x
  BY DEF AcceptInv
<1>5. a \in Events("message_accepted")' /\ log'[a].message = x /\ a < n
  BY <1>2, <1>4 DEF Events
<1>6. QED
  BY <1>1, <1>3, <1>5 DEF Before, Events

\* A step that starts no handler, and hands none over.
LEMMA OrderStays ==
  ASSUME OrderInv, StartsInAdmissionOrder, Extends, ready' = ready, joining' = joining,
         participants' > 0 => participants > 0 /\ Current' = Current,
         \A n \in New : log'[n].kind # "message_handler_start"
  PROVE  OrderInv' /\ StartsInAdmissionOrder'
<1>1. /\ Events("message_handler_start")' = Events("message_handler_start")
      /\ \A i \in Events("message_handler_start") : log'[i] = log[i]
  BY NoneNew, SteeringKinds DEF Extends, Events
<1>2. \A x, y : Before(log, x, y) => Before(log', x, y)
  BY BeforeLasts
<1>3. OrderInv'
  BY <1>1, <1>2 DEF OrderInv
<1>4. \A i, j \in Events("message_handler_start") : i < j /\ log[i].turn = log[j].turn =>
        Before(log, log[i].message, log[j].message)
  BY DEF StartsInAdmissionOrder, Before, Events
<1>5. \A i, j \in Events("message_handler_start")' : i < j /\ log'[i].turn = log'[j].turn =>
        Before(log', log'[i].message, log'[j].message)
  BY <1>1, <1>2, <1>4
<1>6. QED
  BY <1>3, <1>5 DEF StartsInAdmissionOrder, Before, Events

\* A message joins: it comes after every other of the turn.
LEMMA OrderJoins ==
  ASSUME TurnInv, AcceptInv, OrderInv, StartsInAdmissionOrder, NEW m \in Message, AdmitJoin(m)
  PROVE  OrderInv' /\ StartsInAdmissionOrder'
<1> USE DEF TurnInv
<1>1. Published("message_accepted", Current, m, << >>) /\ Extends
  BY AdmitJoinSays DEF Published
<1>2. \A n \in New : log'[n].kind # "message_handler_start"
  BY <1>1 DEF Published
<1>3. /\ Events("message_handler_start")' = Events("message_handler_start")
      /\ \A i \in Events("message_handler_start") : log'[i] = log[i]
  BY <1>1, <1>2, NoneNew, SteeringKinds DEF Extends, Events
<1>4. \A x, y : Before(log, x, y) => Before(log', x, y)
  BY <1>1, BeforeLasts
<1>5. \A x \in Message : task[x] # "unsent" => Before(log', x, m)
  BY <1>1, AdmittedLast
<1>6. ready' = ready /\ joining' = Append(joining, m) /\ Current' = Current /\ participants > 0
  BY DEF AdmitJoin, JoinTurn, Current, TurnActive, TypeOK
<1>7. PICK l \in Nat : /\ DOMAIN joining = 1 .. l /\ DOMAIN joining' = 1 .. l + 1
                       /\ joining'[l + 1] = m /\ \A i \in 1 .. l : joining'[i] = joining[i]
  <2>1. joining \in Seq(Message) /\ joining' \in Seq(Message)
    BY <1>6, AppendProperties DEF TypeOK
  <2>2. PICK l \in Nat : l = Len(joining)
    BY <2>1, LenProperties
  <2>3. Len(joining') = l + 1 /\ joining'[l + 1] = m /\ \A i \in 1 .. l : joining'[i] = joining[i]
    BY <1>6, <2>1, <2>2, AppendProperties
  <2>4. DOMAIN joining = 1 .. l /\ DOMAIN joining' = 1 .. l + 1
    BY <2>1, <2>2, <2>3, LenProperties
  <2>5. QED
    BY <2>3, <2>4
<1>8. \A i \in DOMAIN joining' : i \in DOMAIN joining \/ (i = l + 1 /\ joining'[i] = m)
  BY <1>7
<1>9. /\ \A i \in DOMAIN joining : Before(log', joining[i], m)
      /\ \A i \in DOMAIN ready : Before(log', ready[i], m)
  <2>1. \A i \in DOMAIN joining : joining[i] \in Message /\ task[joining[i]] # "unsent"
    BY LenProperties DEF TypeOK, QueuesMatchTasks
  <2>2. \A i \in DOMAIN ready : ready[i] \in Message /\ task[ready[i]] # "unsent"
    BY LenProperties DEF TypeOK, QueuesMatchTasks
  <2>3. QED
    BY <1>5, <2>1, <2>2
<1>10. \A k \in Events("message_handler_start") : Before(log', log[k].message, m)
  BY <1>5 DEF AcceptInv
<1>11. \A i, j \in DOMAIN joining' : i < j => Before(log', joining'[i], joining'[j])
  <2> SUFFICES ASSUME NEW i \in DOMAIN joining', NEW j \in DOMAIN joining', i < j
               PROVE  Before(log', joining'[i], joining'[j])
    OBVIOUS
  <2>1. i \in DOMAIN joining /\ joining'[i] = joining[i]
    BY <1>7
  <2>2. CASE j \in DOMAIN joining
    BY <1>4, <1>7, <2>1, <2>2 DEF OrderInv
  <2>3. CASE joining'[j] = m
    BY <1>9, <2>1, <2>3
  <2>4. QED
    BY <1>8, <2>2, <2>3
<1>12. /\ \A i, j \in DOMAIN ready' : i < j => Before(log', ready'[i], ready'[j])
       /\ \A i \in DOMAIN ready', j \in DOMAIN joining' : Before(log', ready'[i], joining'[j])
  BY <1>4, <1>6, <1>7, <1>8, <1>9 DEF OrderInv
<1>13. \A k \in Events("message_handler_start")' : participants' > 0 /\ log'[k].turn = Current' =>
         /\ \A i \in DOMAIN ready' : Before(log', log'[k].message, ready'[i])
         /\ \A i \in DOMAIN joining' : Before(log', log'[k].message, joining'[i])
  BY <1>3, <1>4, <1>6, <1>7, <1>8, <1>10 DEF OrderInv
<1>14. OrderInv'
  BY <1>11, <1>12, <1>13 DEF OrderInv
<1>15. \A i, j \in Events("message_handler_start")' : i < j /\ log'[i].turn = log'[j].turn =>
         Before(log', log'[i].message, log'[j].message)
  <2>1. \A i, j \in Events("message_handler_start") : i < j /\ log[i].turn = log[j].turn =>
          Before(log, log[i].message, log[j].message)
    BY DEF StartsInAdmissionOrder, Before, Events
  <2>2. QED
    BY <1>3, <1>4, <2>1
<1>16. QED
  BY <1>14, <1>15 DEF StartsInAdmissionOrder, Before, Events

\* The loop hands every join to a task, in order, behind those it handed over before.
LEMMA OrderSpawns ==
  ASSUME TurnInv, OrderInv, StartsInAdmissionOrder, Dispatch, ~CanOpenTurn
  PROVE  OrderInv' /\ StartsInAdmissionOrder'
<1> USE DEF TurnInv
<1>1. /\ log' = log /\ participants' = participants /\ Current' = Current
      /\ joining' = << >> /\ ready' = ready \o (joining \o << >>)
  BY DEF Dispatch, Current
<1>2. ready' = ready \o joining /\ ready \in Seq(Message) /\ joining \in Seq(Message)
  BY <1>1, ConcatEmptySeq DEF TypeOK
<1>3. PICK r \in Nat : r = Len(ready) /\ DOMAIN ready = 1 .. r
  BY <1>2, LenProperties
<1>4. PICK l \in Nat : l = Len(joining) /\ DOMAIN joining = 1 .. l
  BY <1>2, LenProperties
<1>5. /\ DOMAIN ready' = 1 .. r + l
      /\ \A i \in 1 .. r + l : ready'[i] = IF i <= r THEN ready[i] ELSE joining[i - r]
  BY <1>2, <1>3, <1>4, ConcatProperties, LenProperties
<1>6. \A i \in DOMAIN ready' :
        \/ i <= r /\ i \in DOMAIN ready /\ ready'[i] = ready[i]
        \/ i > r /\ i - r \in DOMAIN joining /\ ready'[i] = joining[i - r]
  BY <1>3, <1>4, <1>5
<1>7. DOMAIN joining' = {}
  BY <1>1
<1>8. \A x, y : Before(log', x, y) <=> Before(log, x, y)
  BY <1>1
<1>9. \A i, j \in DOMAIN ready' : i < j => Before(log, ready'[i], ready'[j])
  <2> SUFFICES ASSUME NEW i \in DOMAIN ready', NEW j \in DOMAIN ready', i < j
               PROVE  Before(log, ready'[i], ready'[j])
    OBVIOUS
  <2>1. i \in Nat /\ j \in Nat
    BY <1>5
  <2>2. CASE j <= r
    <3>1. i <= r
      BY <1>3, <2>1, <2>2
    <3>2. /\ i \in DOMAIN ready /\ ready'[i] = ready[i]
          /\ j \in DOMAIN ready /\ ready'[j] = ready[j]
      BY <1>3, <1>6, <2>1, <2>2, <3>1
    <3>3. QED
      BY <3>2 DEF OrderInv
  <2>3. CASE j > r /\ i <= r
    <3>1. /\ i \in DOMAIN ready /\ ready'[i] = ready[i]
          /\ j - r \in DOMAIN joining /\ ready'[j] = joining[j - r]
      BY <1>3, <1>6, <2>1, <2>3
    <3>2. QED
      BY <3>1 DEF OrderInv
  <2>4. CASE j > r /\ i > r
    <3>1. /\ i - r \in DOMAIN joining /\ ready'[i] = joining[i - r]
          /\ j - r \in DOMAIN joining /\ ready'[j] = joining[j - r]
          /\ i - r < j - r
      BY <1>3, <1>6, <2>1, <2>4
    <3>2. QED
      BY <3>1 DEF OrderInv
  <2>5. QED BY <1>3, <2>1, <2>2, <2>3, <2>4
<1>10. \A k \in Events("message_handler_start") : participants > 0 /\ log[k].turn = Current =>
         \A i \in DOMAIN ready' : Before(log, log[k].message, ready'[i])
  BY <1>6 DEF OrderInv
<1>11. OrderInv'
  BY <1>1, <1>7, <1>8, <1>9, <1>10 DEF OrderInv, Events
<1>12. StartsInAdmissionOrder'
  BY <1>1 DEF StartsInAdmissionOrder, Events
<1>13. QED
  BY <1>11, <1>12

\* A turn opens with its first message: no other is waiting, and none was started in it.
LEMMA OrderOpens ==
  ASSUME TurnInv, TypeOK', NumbersInv, OrderInv, StartsInAdmissionOrder, Dispatch, CanOpenTurn
  PROVE  OrderInv' /\ StartsInAdmissionOrder'
<1> USE DEF TurnInv
<1>1. /\ Published("turn_started", Current', None, << >>) /\ Current'.turn_number = currentTurn + 1
      /\ participants = 0 /\ Head(pending) \in Message
  BY OpenSays
<1>2. Extends /\ \A n \in New : log'[n].kind # "message_handler_start"
  BY <1>1 DEF Published
<1>3. /\ Events("message_handler_start")' = Events("message_handler_start")
      /\ \A i \in Events("message_handler_start") : log'[i] = log[i]
  BY <1>2, NoneNew, SteeringKinds DEF Extends, Events
<1>4. Holding = {}
  BY <1>1, HoldingFinite DEF RefcountExact
<1>5. ready = << >> /\ joining = << >>
  <2>1. ready \in Seq(Message) /\ joining \in Seq(Message)
    BY DEF TypeOK
  <2>2. \A i \in DOMAIN ready : ready[i] \in Holding
    BY <2>1, LenProperties DEF QueuesMatchTasks, Holding
  <2>3. \A i \in DOMAIN joining : joining[i] \in Holding
    BY <2>1, LenProperties DEF QueuesMatchTasks, Holding
  <2>4. ASSUME NEW q \in Seq(Message), DOMAIN q = {} PROVE Len(q) = 0
    <3>1. DOMAIN q = 1 .. Len(q) /\ Len(q) \in Nat
      BY LenProperties
    <3>2. Len(q) # 0 => 1 \in 1 .. Len(q)
      BY <3>1
    <3>3. QED
      BY <2>4, <3>1, <3>2
  <2>5. DOMAIN ready = {} /\ DOMAIN joining = {}
    BY <1>4, <2>2, <2>3
  <2>6. QED
    BY <2>1, <2>4, <2>5, EmptySeq
<1>6. joining' = << >> /\ ready' = <<Head(pending)>>
  <2>1. joining' = << >> /\ ready' = ready \o (joining \o <<Head(pending)>>)
    BY DEF Dispatch
  <2>2. <<Head(pending)>> \in Seq(Message)
    BY <1>1
  <2>3. << >> \o <<Head(pending)>> = <<Head(pending)>>
    BY <2>2, ConcatEmptySeq
  <2>4. QED
    BY <1>5, <2>1, <2>3
<1>7. DOMAIN joining' = {} /\ \A i, j \in DOMAIN ready' : ~(i < j)
  BY <1>6
<1>8. \A k \in Events("message_handler_start") : log[k].turn # Current'
  BY <1>1 DEF NumbersInv, HandlerEvents, Number, TypeOK
<1>9. OrderInv'
  BY <1>3, <1>7, <1>8 DEF OrderInv
<1>10. \A x, y : Before(log, x, y) => Before(log', x, y)
  BY <1>2, BeforeLasts
<1>11. \A i, j \in Events("message_handler_start")' : i < j /\ log'[i].turn = log'[j].turn =>
         Before(log', log'[i].message, log'[j].message)
  <2>1. \A i, j \in Events("message_handler_start") : i < j /\ log[i].turn = log[j].turn =>
          Before(log, log[i].message, log[j].message)
    BY DEF StartsInAdmissionOrder, Before, Events
  <2>2. QED
    BY <1>3, <1>10, <2>1
<1>12. QED
  BY <1>9, <1>11 DEF StartsInAdmissionOrder, Before, Events

\* The first task that is ready starts.
LEMMA OrderStarts ==
  ASSUME TurnInv, OrderInv, StartsInAdmissionOrder, StartHandler
  PROVE  OrderInv' /\ StartsInAdmissionOrder'
<1> USE DEF TurnInv
<1> DEFINE m == Head(ready)
<1>1. m \in Holding /\ Published("message_handler_start", Current, m, << >>)
  BY StartSays
<1>2. participants > 0
  BY <1>1, HoldsCurrent
<1>3. PICK n \in Nat : /\ New = {n} /\ log'[n].kind = "message_handler_start"
                       /\ log'[n].turn = Current /\ log'[n].message = m
  BY <1>1 DEF Published
<1>4. /\ Extends
      /\ \A i \in DOMAIN log : i \in DOMAIN log' /\ log'[i] = log[i] /\ i < n
  BY <1>1, <1>3 DEF Published, Extends
<1>5. /\ Events("message_handler_start")' = Events("message_handler_start") \cup {n}
      /\ Events("message_handler_start") \subseteq DOMAIN log /\ DOMAIN log \subseteq Nat
  <2>1. Events("message_handler_start")' = Events("message_handler_start")
           \cup {i \in New : log'[i].kind = "message_handler_start"}
    BY <1>4, EventsGrow, SteeringKinds
  <2>2. QED
    BY <1>3, <2>1, EventsFinite
<1>6. \A x, y : Before(log, x, y) => Before(log', x, y)
  BY <1>4, BeforeLasts
<1>7. /\ ready \in Seq(Message) /\ ready # << >> /\ ready' = Tail(ready)
      /\ joining' = joining /\ Current' = Current /\ participants' = participants
  BY DEF StartHandler, TypeOK, Current
<1>8. /\ 1 \in DOMAIN ready /\ m = ready[1] /\ DOMAIN ready \subseteq Nat
      /\ \A i \in DOMAIN ready' : i \in Nat /\ i + 1 \in DOMAIN ready /\ ready'[i] = ready[i + 1] /\ 1 < i + 1
  <2>1. PICK l \in Nat : l = Len(ready) /\ l > 0 /\ DOMAIN ready = 1 .. l
    BY <1>7, LenProperties, EmptySeq
  <2>2. /\ Len(ready') = l - 1 /\ ready' \in Seq(Message)
        /\ \A i \in 1 .. l - 1 : ready'[i] = ready[i + 1]
    BY <1>7, <2>1, HeadTailProperties
  <2>3. DOMAIN ready' = 1 .. l - 1
    BY <2>2, LenProperties
  <2>4. m = ready[1]
    BY <1>7, HeadTailProperties
  <2>5. QED
    BY <2>1, <2>2, <2>3, <2>4
<1>9. /\ \A i \in DOMAIN ready' : Before(log, m, ready'[i])
      /\ \A i \in DOMAIN joining : Before(log, m, joining[i])
  BY <1>8 DEF OrderInv
<1>10. \A k \in Events("message_handler_start") : log[k].turn = Current => Before(log, log[k].message, m)
  BY <1>2, <1>8 DEF OrderInv
<1>11. \A i, j \in DOMAIN ready' : i < j => Before(log, ready'[i], ready'[j])
  <2> SUFFICES ASSUME NEW i \in DOMAIN ready', NEW j \in DOMAIN ready', i < j
               PROVE  Before(log, ready'[i], ready'[j])
    OBVIOUS
  <2>1. i + 1 < j + 1
    BY <1>8
  <2>2. QED
    BY <1>8, <2>1 DEF OrderInv
<1>12. \A i \in DOMAIN ready', j \in DOMAIN joining : Before(log, ready'[i], joining[j])
  BY <1>8 DEF OrderInv
<1>13. \A k \in Events("message_handler_start") : log[k].turn = Current =>
         /\ \A i \in DOMAIN ready' : Before(log, log[k].message, ready'[i])
         /\ \A i \in DOMAIN joining : Before(log, log[k].message, joining[i])
  BY <1>2, <1>8 DEF OrderInv
<1>14. OrderInv'
  <2>1. \A k \in Events("message_handler_start")' : participants' > 0 /\ log'[k].turn = Current' =>
          /\ \A i \in DOMAIN ready' : Before(log', log'[k].message, ready'[i])
          /\ \A i \in DOMAIN joining' : Before(log', log'[k].message, joining'[i])
    BY <1>3, <1>4, <1>5, <1>6, <1>7, <1>9, <1>13
  <2>2. /\ \A i, j \in DOMAIN ready' : i < j => Before(log', ready'[i], ready'[j])
        /\ \A i \in DOMAIN ready', j \in DOMAIN joining' : Before(log', ready'[i], joining'[j])
    BY <1>6, <1>7, <1>11, <1>12
  <2>3. \A i, j \in DOMAIN joining' : i < j => Before(log', joining'[i], joining'[j])
    BY <1>6, <1>7 DEF OrderInv
  <2>4. QED
    BY <2>1, <2>2, <2>3 DEF OrderInv
<1>15. \A i, j \in Events("message_handler_start")' : i < j /\ log'[i].turn = log'[j].turn =>
         Before(log', log'[i].message, log'[j].message)
  <2> SUFFICES ASSUME NEW i \in Events("message_handler_start")',
                      NEW j \in Events("message_handler_start")',
                      i < j, log'[i].turn = log'[j].turn
               PROVE  Before(log', log'[i].message, log'[j].message)
    OBVIOUS
  <2>1. i \in Events("message_handler_start") /\ log'[i] = log[i]
    <3>1. i # n
      BY <1>3, <1>4, <1>5
    <3>2. QED
      BY <1>4, <1>5, <3>1
  <2>2. CASE j = n
    BY <1>3, <1>6, <1>10, <2>1, <2>2
  <2>3. CASE j \in Events("message_handler_start")
    <3>1. log'[j] = log[j] /\ log[i].turn = log[j].turn
      BY <1>4, <1>5, <2>1, <2>3
    <3>2. Before(log, log[i].message, log[j].message)
      BY <2>1, <2>3, <3>1 DEF StartsInAdmissionOrder, Before, Events
    <3>3. QED
      BY <1>6, <2>1, <3>1, <3>2
  <2>4. QED BY <1>5, <2>2, <2>3
<1>16. QED
  BY <1>14, <1>15 DEF StartsInAdmissionOrder, Before, Events----------------------------------------------------------------------------
(* agent_closed is the last event *)

\* An agent that is over, or is being torn down, publishes nothing more.
LEMMA OverIsSilent ==
  ASSUME TurnInv, Over, [Next]_vars
  PROVE  log' = log /\ Over'
<1> USE DEF TurnInv
<1>1. ~Alive \/ (phase = "teardown" /\ Closed /\ participants = 0)
  BY DEF Over, Alive, PhasesConsistent
<1>2. ~Alive \/ Holding = {}
  BY <1>1, HoldingFinite DEF RefcountExact
<1>3. phase \notin Waiting /\ phase # "drain"
  BY DEF Over, Waiting, Terminal
<1>4. ~StartHandler
  BY <1>2, StartSays DEF StartHandler
<1>5. \A m \in Message : ~AdmitJoin(m) /\ ~AdmitQueue(m)
  BY <1>1 DEF AdmitJoin, AdmitQueue, Admissible
<1>6. \A m \in Message : /\ ~FinishHandler(m) /\ ~AbandonHandler(m) /\ ~ClaimSteering(m)
                         /\ \A s \in SteeringId : ~Steer(m, s)
  BY <1>2 DEF FinishHandler, AbandonHandler, ClaimSteering, Steer, Holding
<1>7. Still /\ Over'
  BY <1>3, <1>4, <1>5, <1>6, Shapes DEF Drain
<1>8. QED
  BY <1>7 DEF Still

\* The agent says that it is closed once its last turn has ended, and only then.
LEMMA ClosedNext ==
  ASSUME TurnInv, BracketInv, ClosedInv, ClosedIsLast, [Next]_vars
  PROVE  ClosedInv' /\ ClosedIsLast'
<1>0. TypeOK /\ TypeOK' /\ log \in Seq(Event)
  BY NextType DEF TurnInv, TypeOK
<1>1. CASE Over
  BY <1>1, OverIsSilent DEF ClosedInv, ClosedIsLast, Events, Over
<1>2. CASE ~Over /\ ~Drain
  <2>1. Events("agent_closed") = {}
    BY <1>2 DEF ClosedInv, Over
  <2>2. ASSUME log' = log PROVE Events("agent_closed")' = {}
    BY <2>1, <2>2 DEF Events
  <2>3. ASSUME NEW kind, kind # "agent_closed", NEW turn, NEW m, NEW ids, Published(kind, turn, m, ids)
        PROVE  Events("agent_closed")' = {}
    <3>1. Extends /\ \A n \in New : log'[n].kind # "agent_closed"
      BY <2>3 DEF Published
    <3>2. QED
      BY <2>1, <3>1, NoneNew, SteeringKinds
  <2>4. ASSUME Dispatch PROVE Events("agent_closed")' = {}
    <3>1. CASE CanOpenTurn
      BY <1>0, <2>3, <2>4, <3>1, OpenSays
    <3>2. CASE ~CanOpenTurn
      BY <2>2, <2>4, <3>2 DEF Dispatch
    <3>3. QED BY <3>1, <3>2
  <2>5. ASSUME StartHandler PROVE Events("agent_closed")' = {}
    BY <2>3, <2>5, StartSays
  <2>6. ASSUME NEW m \in Message, FinishHandler(m) PROVE Events("agent_closed")' = {}
    <3>1. FinishSays(m)
      BY <2>6, FinishHandlerSays
    <3>2. Extends /\ \A n \in New : log'[n].kind # "agent_closed"
      BY <3>1 DEF FinishSays, Finishes
    <3>3. QED
      BY <2>1, <3>2, NoneNew, SteeringKinds
  <2>7. ASSUME NEW m \in Message, AdmitJoin(m) \/ AdmitQueue(m) \/ ClaimSteering(m)
        PROVE  Events("agent_closed")' = {}
    BY <2>3, <2>7, AdmitJoinSays, AdmitQueueSays, ClaimSays
  <2>8. ASSUME NEW m \in Message, NEW s \in SteeringId, Steer(m, s)
        PROVE  Events("agent_closed")' = {}
    BY <2>3, <2>8, SteerSays
  <2>9. Events("agent_closed")' = {}
    BY <1>2, <2>2, <2>4, <2>5, <2>6, <2>7, <2>8, Shapes DEF Still, AbandonHandler
  <2>10. QED
    BY <2>9 DEF ClosedInv, ClosedIsLast
<1>3. CASE ~Over /\ Drain
  <2>1. Published("agent_closed", NoTurn, None, << >>)
    BY <1>3, DrainSays
  <2>2. PICK n \in Nat : New = {n} /\ n = Len(log') /\ log'[n].kind = "agent_closed"
    BY <2>1 DEF Published
  <2>3. Events("agent_closed") = {}
    BY <1>3 DEF ClosedInv, Over
  <2>4. Extends
    BY <2>1 DEF Published
  <2>5. Events("agent_closed")' = {n}
    <3>1. Events("agent_closed")' = Events("agent_closed") \cup {i \in New : log'[i].kind = "agent_closed"}
      BY <2>4, EventsGrow, SteeringKinds
    <3>2. QED
      BY <2>2, <2>3, <3>1
  <2>6. /\ Events("turn_started")' = Events("turn_started")
        /\ Events("turn_end")' = Events("turn_end")
    BY <2>2, <2>4, NoneNew, SteeringKinds
  <2>7. participants = 0 /\ phase' = "teardown"
    BY <1>0, <1>3 DEF Drain, TurnActive, TypeOK
  <2>8. Cardinality(Events("turn_started")) = Cardinality(Events("turn_end"))
    <3>1. Cardinality(Events("turn_end")) \in Nat
      BY <1>0, EventsFinite, FS_CardinalityType
    <3>2. Cardinality(Events("turn_started")) = Cardinality(Events("turn_end")) + 0
      BY <2>7 DEF BracketInv
    <3>3. QED
      BY <3>1, <3>2
  <2>9. QED
    BY <2>2, <2>5, <2>6, <2>7, <2>8 DEF ClosedInv, ClosedIsLast
<1>4. QED
  BY <1>1, <1>2, <1>3

----------------------------------------------------------------------------
(* The whole stream, step by step *)

\* What the loop does to the tasks: it hands over joins and the message that opens.
LEMMA DispatchTasks ==
  ASSUME TurnInv, TypeOK', Dispatch, NEW x \in Message
  PROVE  \/ task'[x] = "spawned" /\ task[x] \in {"joining", "pending"}
         \/ task'[x] = task[x] /\ (InSeq(x, pending) => InSeq(x, pending'))
<1> USE DEF TurnInv
<1> DEFINE head == Head(pending)
           opener == IF CanOpenTurn THEN <<head>> ELSE << >>
           spawned == joining \o opener
<1>1. CanOpenTurn => /\ pending # << >> /\ head \in Message /\ head = pending[1]
                     /\ task[head] = "pending"
  BY TailElements DEF CanOpenTurn, TypeOK, QueuesMatchTasks
<1>2. opener \in Seq(Message) /\ joining \in Seq(Message) /\ pending \in Seq(Message)
  BY <1>1, EmptySeq DEF TypeOK
<1>3. \A i \in DOMAIN spawned :
        \/ i \in DOMAIN joining /\ spawned[i] = joining[i]
        \/ CanOpenTurn /\ spawned[i] = head
  BY <1>2, ConcatProperties, LenProperties
<1>4. CanOpenTurn => InSeq(head, spawned)
  <2> SUFFICES ASSUME CanOpenTurn PROVE InSeq(head, spawned)
    OBVIOUS
  <2>1. PICK l \in Nat : l = Len(joining)
    BY <1>2, LenProperties
  <2>2. /\ spawned \in Seq(Message) /\ Len(opener) = 1 /\ opener[1] = head
        /\ Len(spawned) = l + 1
        /\ \A i \in 1 .. l + 1 : spawned[i] = IF i <= l THEN joining[i] ELSE opener[i - l]
    BY <1>2, <2>1, ConcatProperties
  <2>3. spawned[l + 1] = opener[(l + 1) - l] /\ (l + 1) - l = 1
    BY <2>1, <2>2
  <2>4. l + 1 \in DOMAIN spawned
    BY <2>1, <2>2, LenProperties
  <2>5. QED
    BY <2>2, <2>3, <2>4 DEF InSeq
<1>5. task'[x] = IF InSeq(x, spawned) THEN "spawned" ELSE task[x]
  BY DEF Dispatch
<1>6. CASE InSeq(x, spawned)
  <2>1. task[x] = "joining" \/ (CanOpenTurn /\ x = head)
    BY <1>3, <1>6 DEF InSeq, QueuesMatchTasks
  <2>2. QED
    BY <1>1, <1>5, <1>6, <2>1
<1>7. CASE ~InSeq(x, spawned)
  <2>1. CASE ~CanOpenTurn
    BY <1>5, <1>7, <2>1 DEF Dispatch
  <2>2. CASE CanOpenTurn
    <3>1. x # head /\ pending' = Tail(pending)
      BY <1>4, <1>7, <2>2 DEF Dispatch
    <3>2. ASSUME InSeq(x, pending) PROVE InSeq(x, pending')
      <4>1. PICK i \in DOMAIN pending : pending[i] = x
        BY <3>2 DEF InSeq
      <4>2. PICK l \in Nat : l = Len(pending) /\ DOMAIN pending = 1 .. l
        BY <1>2, LenProperties
      <4>3. i \in 1 .. l /\ i # 1
        BY <1>1, <2>2, <3>1, <4>1, <4>2
      <4>4. /\ pending' \in Seq(Message) /\ Len(pending') = l - 1
            /\ \A j \in 1 .. l - 1 : pending'[j] = pending[j + 1]
        BY <1>1, <1>2, <2>2, <3>1, <4>2, HeadTailProperties
      <4>5. i - 1 \in 1 .. l - 1 /\ (i - 1) + 1 = i
        BY <4>2, <4>3
      <4>6. DOMAIN pending' = 1 .. l - 1
        BY <4>4, LenProperties
      <4>7. pending'[i - 1] = x /\ i - 1 \in DOMAIN pending'
        BY <4>1, <4>4, <4>5, <4>6
      <4>8. QED
        BY <4>7 DEF InSeq
    <3>3. QED
      BY <1>5, <1>7, <3>2
  <2>3. QED BY <2>1, <2>2
<1>8. QED
  BY <1>6, <1>7
\* The invariant at hand for a step, and the types on both sides of it.
LEMMA StreamParts ==
  ASSUME StreamInv, [Next]_vars
  PROVE  /\ TurnInv /\ NumbersInv /\ BracketInv /\ AcceptInv /\ OrderInv
         /\ BracketsWellFormed /\ TurnEndIsQuiescence /\ StartsInAdmissionOrder
         /\ TypeOK /\ TypeOK' /\ currentTurn \in Nat /\ participants \in Nat
         /\ Current.turn_number = currentTurn
  BY NextType DEF StreamInv, SettledInv, StreamWellFormed, TurnInv, TypeOK, Current

StreamStep == /\ BracketInv' /\ BracketsWellFormed' /\ AcceptInv' /\ TurnEndIsQuiescence'
              /\ OrderInv' /\ StartsInAdmissionOrder'

\* A step that says nothing of admission, of a start or of an end, and leaves the tasks
\* where they are.
LEMMA StepAside ==
  ASSUME StreamInv, [Next]_vars, Extends,
         UNCHANGED <<turnVars, queueVars, task, admission>>,
         \A n \in New :
           /\ log'[n].kind \notin {"message_accepted", "turn_started", "message_handler_start",
                                   "message_handler_end", "turn_end"}
           /\ log'[n].kind \in {"steering_enqueued", "steering_claimed", "steering_dropped"}
                => log'[n].turn = Current /\ participants > 0
  PROVE  StreamStep
<1>1. Current' = Current
  BY DEF Current
<1>2. BracketInv' /\ BracketsWellFormed'
  BY <1>1, StreamParts, BracketsStay
<1>3. \A x \in Message : (task[x] = "pending" => InSeq(x, pending)) /\ task[x] # "abandoned"
  BY StreamParts DEF AcceptInv
<1>4. AcceptInv'
  BY <1>3, StreamParts, AcceptStays
<1>5. TurnEndIsQuiescence'
  BY StreamParts, QuiescenceStays
<1>6. OrderInv' /\ StartsInAdmissionOrder'
  BY <1>1, StreamParts, OrderStays
<1>7. QED
  BY <1>2, <1>4, <1>5, <1>6 DEF StreamStep

LEMMA StepDispatch ==
  ASSUME StreamInv, [Next]_vars, Dispatch
  PROVE  StreamStep
<1>0. /\ TurnInv /\ NumbersInv /\ BracketInv /\ AcceptInv /\ OrderInv
      /\ BracketsWellFormed /\ TurnEndIsQuiescence /\ StartsInAdmissionOrder /\ TypeOK /\ TypeOK'
  BY StreamParts
<1>1. /\ Extends /\ \A n \in New : log'[n].kind = "turn_started"
      /\ CanOpenTurn => /\ Published("turn_started", Current', None, << >>)
                        /\ participants = 0 /\ participants' = 1
      /\ ~CanOpenTurn => New = {}
  <2>1. CASE CanOpenTurn
    BY <1>0, <2>1, OpenSays DEF Published
  <2>2. CASE ~CanOpenTurn
    BY <1>0, <2>2, SameLog DEF Dispatch, TypeOK
  <2>3. QED BY <2>1, <2>2
<1>2. BracketInv' /\ BracketsWellFormed'
  <2>1. CASE CanOpenTurn
    BY <1>0, <1>1, <2>1, BracketsOpen
  <2>2. CASE ~CanOpenTurn
    <3>1. Current' = Current /\ participants' = participants
      BY <2>2 DEF Dispatch, Current
    <3>2. QED
      BY <1>0, <1>1, <2>2, <3>1, BracketsStay
  <2>3. QED BY <2>1, <2>2
<1>3. AcceptInv'
  <2>1. ASSUME NEW x \in Message
        PROVE  /\ task'[x] = "unsent" <=> task[x] = "unsent"
               /\ task'[x] = "pending" => task[x] = "pending" /\ InSeq(x, pending')
               /\ ~(task'[x] = "finished" /\ task[x] # "finished")
               /\ task'[x] # "abandoned"
    <3>1. \/ task'[x] = "spawned" /\ task[x] \in {"joining", "pending"}
          \/ task'[x] = task[x] /\ (InSeq(x, pending) => InSeq(x, pending'))
      BY <1>0, DispatchTasks
    <3>2. (task[x] = "pending" => InSeq(x, pending)) /\ task[x] # "abandoned"
      BY <1>0 DEF AcceptInv
    <3>3. QED
      BY <3>1, <3>2
  <2>2. admission' = admission
    BY DEF Dispatch
  <2>3. QED
    BY <1>0, <1>1, <2>1, <2>2, AcceptStays
<1>4. TurnEndIsQuiescence'
  BY <1>0, <1>1, QuiescenceStays
<1>5. OrderInv' /\ StartsInAdmissionOrder'
  BY <1>0, OrderOpens, OrderSpawns
<1>6. QED
  BY <1>2, <1>3, <1>4, <1>5 DEF StreamStep

LEMMA StepStart ==
  ASSUME StreamInv, [Next]_vars, StartHandler
  PROVE  StreamStep
<1>0. /\ TurnInv /\ NumbersInv /\ BracketInv /\ AcceptInv /\ OrderInv
      /\ BracketsWellFormed /\ TurnEndIsQuiescence /\ StartsInAdmissionOrder /\ TypeOK
  BY StreamParts
<1> DEFINE m == Head(ready)
<1>1. /\ m \in Holding /\ task[m] = "spawned"
      /\ Published("message_handler_start", Current, m, << >>)
  BY <1>0, StartSays
<1>2. m \in Message /\ participants > 0
  BY <1>0, <1>1, HoldsCurrent
<1>3. Extends /\ \A n \in New : /\ log'[n].kind = "message_handler_start"
                                /\ log'[n].turn = Current /\ log'[n].message = m
  BY <1>1 DEF Published
<1>4. /\ Current' = Current /\ participants' = participants /\ admission' = admission
      /\ pending' = pending /\ task' = [task EXCEPT ![m] = "running"]
  BY DEF StartHandler, Current
<1>5. BracketInv' /\ BracketsWellFormed'
  BY <1>0, <1>2, <1>3, <1>4, BracketsStay
<1>6. AcceptInv'
  <2>1. ASSUME NEW x \in Message
        PROVE  /\ task'[x] = "unsent" <=> task[x] = "unsent"
               /\ task'[x] = "pending" => task[x] = "pending" /\ InSeq(x, pending')
               /\ ~(task'[x] = "finished" /\ task[x] # "finished")
               /\ task'[x] # "abandoned"
    <3>1. (task[x] = "pending" => InSeq(x, pending)) /\ task[x] # "abandoned"
      BY <1>0 DEF AcceptInv
    <3>2. task'[x] = IF x = m THEN "running" ELSE task[x]
      BY <1>0, <1>4 DEF TypeOK
    <3>3. QED
      BY <1>1, <1>4, <3>1, <3>2
  <2>2. QED
    BY <1>0, <1>1, <1>2, <1>3, <1>4, <2>1, AcceptStays
<1>7. TurnEndIsQuiescence'
  BY <1>0, <1>3, QuiescenceStays
<1>8. OrderInv' /\ StartsInAdmissionOrder'
  BY <1>0, OrderStarts
<1>9. QED
  BY <1>5, <1>6, <1>7, <1>8 DEF StreamStep

LEMMA StepJoin ==
  ASSUME StreamInv, [Next]_vars, NEW m \in Message, AdmitJoin(m)
  PROVE  StreamStep
<1>0. /\ TurnInv /\ NumbersInv /\ BracketInv /\ AcceptInv /\ OrderInv
      /\ BracketsWellFormed /\ TurnEndIsQuiescence /\ StartsInAdmissionOrder /\ TypeOK
      /\ participants \in Nat /\ Current.turn_number = currentTurn
  BY StreamParts
<1>1. Published("message_accepted", Current, m, << >>)
  BY <1>0, AdmitJoinSays
<1>2. Extends /\ \A n \in New : log'[n].kind = "message_accepted" /\ log'[n].turn = Current
  BY <1>1 DEF Published
<1>3. /\ Current' = Current /\ participants > 0 /\ participants' > 0 /\ pending' = pending
      /\ task[m] = "unsent"
      /\ task' = [task EXCEPT ![m] = "joining"]
      /\ admission' = [admission EXCEPT ![m] = [turn |-> Current, disposition |-> "joined"]]
  BY <1>0 DEF AdmitJoin, JoinTurn, Admissible, TurnActive, Current
<1>4. BracketInv' /\ BracketsWellFormed'
  BY <1>0, <1>2, <1>3, BracketsStay
<1>5. AcceptInv'
  <2>1. /\ \A x \in Message \ {m} : task'[x] = task[x] /\ admission'[x] = admission[x]
        /\ task'[m] = "joining" /\ admission'[m].turn = Current
    BY <1>0, <1>3 DEF TypeOK
  <2>2. QED
    BY <1>0, <1>1, <1>3, <2>1, AcceptGrows
<1>6. TurnEndIsQuiescence'
  BY <1>0, <1>2, <1>3, QuiescenceStays
<1>7. OrderInv' /\ StartsInAdmissionOrder'
  BY <1>0, OrderJoins
<1>8. QED
  BY <1>4, <1>5, <1>6, <1>7 DEF StreamStep

LEMMA StepQueue ==
  ASSUME StreamInv, [Next]_vars, NEW m \in Message, AdmitQueue(m)
  PROVE  StreamStep
<1>0. /\ TurnInv /\ NumbersInv /\ BracketInv /\ AcceptInv /\ OrderInv
      /\ BracketsWellFormed /\ TurnEndIsQuiescence /\ StartsInAdmissionOrder /\ TypeOK
  BY StreamParts
<1> DEFINE turn == [turn_id |-> m, turn_number |-> ReserveTurnNumber]
<1>1. Published("message_accepted", turn, m, << >>) /\ ReserveTurnNumber > currentTurn
  BY <1>0, AdmitQueueSays
<1>2. Extends /\ \A n \in New : log'[n].kind = "message_accepted" /\ log'[n].turn = turn
  BY <1>1 DEF Published
<1>3. /\ Current' = Current /\ participants' = participants /\ pending' = Append(pending, m)
      /\ ready' = ready /\ joining' = joining /\ task[m] = "unsent"
      /\ task' = [task EXCEPT ![m] = "pending"]
  BY DEF AdmitQueue, Admissible, Current
<1>4. BracketInv' /\ BracketsWellFormed'
  BY <1>0, <1>2, <1>3, BracketsStay
<1>5. AcceptInv'
  <2>1. /\ \A x \in Message \ {m} : task'[x] = task[x] /\ admission'[x] = admission[x]
        /\ task'[m] = "pending" /\ admission'[m].turn = turn
    BY <1>0, <1>3 DEF TypeOK, AdmitQueue
  <2>2. /\ \A x \in Message : InSeq(x, pending) => InSeq(x, pending')
        /\ InSeq(m, pending')
    <3>1. pending \in Seq(Message) /\ pending' \in Seq(Message)
      BY <1>0, <1>3, AppendProperties DEF TypeOK
    <3>2. PICK l \in Nat : l = Len(pending)
      BY <3>1, LenProperties
    <3>3. Len(pending') = l + 1 /\ pending'[l + 1] = m /\ \A i \in 1 .. l : pending'[i] = pending[i]
      BY <1>3, <3>1, <3>2, AppendProperties
    <3>4. DOMAIN pending = 1 .. l /\ DOMAIN pending' = 1 .. l + 1
      BY <3>1, <3>2, <3>3, LenProperties
    <3>5. l + 1 \in DOMAIN pending' /\ \A i \in DOMAIN pending : i \in DOMAIN pending'
      BY <3>2, <3>4
    <3>6. QED
      BY <3>3, <3>4, <3>5 DEF InSeq
  <2>3. QED
    BY <1>0, <1>1, <1>3, <2>1, <2>2, AcceptGrows
<1>6. TurnEndIsQuiescence'
  BY <1>0, <1>1, <1>2, QuiescenceStays
<1>7. OrderInv' /\ StartsInAdmissionOrder'
  BY <1>0, <1>2, <1>3, OrderStays
<1>8. QED
  BY <1>4, <1>5, <1>6, <1>7 DEF StreamStep

LEMMA StepFinish ==
  ASSUME StreamInv, [Next]_vars, NEW m \in Message, FinishHandler(m)
  PROVE  StreamStep
<1>0. /\ TurnInv /\ NumbersInv /\ BracketInv /\ AcceptInv /\ OrderInv
      /\ BracketsWellFormed /\ TurnEndIsQuiescence /\ StartsInAdmissionOrder /\ TypeOK
  BY StreamParts
<1>1. Extends /\ FinishSays(m)
  BY <1>0, FinishHandlerSays DEF FinishSays
<1>2. PICK h \in New :
        /\ Finishes(m, h)
        /\ ~LastOut => New = {h}
        /\ LastOut => \E e \in New :
             /\ h < e /\ log'[e].kind = "turn_end" /\ log'[e].turn = Current
             /\ steering = << >> => New = {h, e}
             /\ steering # << >> => \E d \in New :
                  /\ h < d /\ d < e /\ New = {h, d, e}
                  /\ log'[d].kind = "steering_dropped" /\ log'[d].turn = Current
  BY <1>1 DEF FinishSays
<1>3. log'[h].kind = "message_handler_end" /\ log'[h].turn = Current
  BY <1>2 DEF Finishes
<1>4. \A n \in New : log'[n].kind \in {"message_handler_end", "steering_dropped", "turn_end"}
  BY <1>2, <1>3
<1>5. participants > 0 /\ m \in Holding
  <2>1. m \in Holding
    BY DEF FinishHandler, Holding
  <2>2. QED
    BY <1>0, <2>1, HoldsCurrent
<1>6. /\ LeaveTurn /\ UNCHANGED <<queueVars, admission>> /\ task[m] = "running"
      /\ task' = [task EXCEPT ![m] = "finished"]
  BY DEF FinishHandler
<1>7. /\ currentTurn' = currentTurn /\ (LastOut => participants' = 0)
      /\ ~LastOut => participants' > 0 /\ Current' = Current
  BY <1>0, <1>6, LeavesTurn DEF Current
<1>8. AcceptInv'
  <2>1. ASSUME NEW x \in Message
        PROVE  /\ task'[x] = "unsent" <=> task[x] = "unsent"
               /\ task'[x] = "pending" => task[x] = "pending" /\ InSeq(x, pending')
               /\ task'[x] = "finished" /\ task[x] # "finished" => Finishes(x, h)
               /\ task'[x] # "abandoned"
    <3>1. (task[x] = "pending" => InSeq(x, pending)) /\ task[x] # "abandoned"
      BY <1>0 DEF AcceptInv
    <3>2. task'[x] = IF x = m THEN "finished" ELSE task[x]
      BY <1>0, <1>6 DEF TypeOK
    <3>3. QED
      BY <1>2, <1>6, <3>1, <3>2
  <2>2. QED
    BY <1>0, <1>1, <1>4, <1>6, <2>1, AcceptStays
<1>9. OrderInv' /\ StartsInAdmissionOrder'
  BY <1>0, <1>1, <1>4, <1>5, <1>6, <1>7, OrderStays
<1>10. CASE ~LastOut
  <2>1. \A n \in New : log'[n].kind = "message_handler_end" /\ log'[n].turn = Current
    BY <1>2, <1>3, <1>10
  <2>2. BracketInv' /\ BracketsWellFormed'
    BY <1>0, <1>1, <1>5, <1>7, <1>10, <2>1, BracketsStay
  <2>3. TurnEndIsQuiescence'
    BY <1>0, <1>1, <2>1, QuiescenceStays
  <2>4. QED
    BY <1>8, <1>9, <2>2, <2>3 DEF StreamStep
<1>11. CASE LastOut
  <2>1. PICK e \in New :
          /\ h < e /\ log'[e].kind = "turn_end" /\ log'[e].turn = Current
          /\ \A n \in New \ {e} : /\ n < e /\ log'[n].turn = Current
                                  /\ log'[n].kind \notin {"turn_started", "turn_end"}
    <3>1. PICK e \in New :
            /\ h < e /\ log'[e].kind = "turn_end" /\ log'[e].turn = Current
            /\ steering = << >> => New = {h, e}
            /\ steering # << >> => \E d \in New :
                 /\ h < d /\ d < e /\ New = {h, d, e}
                 /\ log'[d].kind = "steering_dropped" /\ log'[d].turn = Current
      BY <1>2, <1>11
    <3>2. CASE steering = << >>
      <4>1. New = {h, e}
        BY <3>1, <3>2
      <4>2. QED
        BY <1>3, <3>1, <4>1
    <3>3. CASE steering # << >>
      <4>1. PICK d \in New : /\ h < d /\ d < e /\ New = {h, d, e}
                             /\ log'[d].kind = "steering_dropped" /\ log'[d].turn = Current
        BY <3>1, <3>3
      <4>2. QED
        BY <1>3, <3>1, <4>1
    <3>4. QED BY <3>2, <3>3
  <2>2. BracketInv' /\ BracketsWellFormed'
    BY <1>0, <1>1, <1>5, <1>7, <1>11, <2>1, BracketsClose
  <2>3. \A n \in New : log'[n].kind # "message_accepted" /\ (log'[n].kind = "turn_end" => n = e)
    BY <1>4, <2>1
  <2>4. TurnEndIsQuiescence'
    BY <1>0, <1>1, <1>2, <1>11, <2>1, <2>3, QuiescenceReached
  <2>5. QED
    BY <1>8, <1>9, <2>2, <2>4 DEF StreamStep
<1>12. QED
  BY <1>10, <1>11

LEMMA NextStream ==
  ASSUME CancelEscapes = FALSE, StreamInv, [Next]_vars
  PROVE  StreamInv'
<1>0. TurnInv /\ log \in Seq(Event)
  BY DEF StreamInv, SettledInv, TurnInv, TypeOK
<1>1. SettledInv'
  BY NextSettled DEF StreamInv
<1>2. ClosedInv' /\ ClosedIsLast'
  BY ClosedNext DEF StreamInv, SettledInv, StreamWellFormed
<1>3. CASE Still
  <2>1. Extends /\ New = {}
    BY <1>0, <1>3, SameLog DEF Still
  <2>2. QED
    BY <1>1, <1>2, <1>3, <2>1, StepAside DEF Still, StreamInv, StreamStep, StreamWellFormed
<1>4. CASE Drain
  <2>1. Extends /\ \A n \in New : log'[n].kind = "agent_closed"
    BY <1>0, <1>4, DrainSays DEF Published
  <2>2. StreamStep
    BY <1>4, <2>1, StepAside DEF Drain
  <2>3. QED
    BY <1>1, <1>2, <2>2 DEF StreamInv, StreamStep, StreamWellFormed
<1>5. ASSUME NEW m \in Message, ClaimSteering(m) \/ \E s \in SteeringId : Steer(m, s)
      PROVE  StreamStep
  <2>1. m \in Holding
    BY <1>5 DEF ClaimSteering, Steer, Holding
  <2>2. Extends /\ \A n \in New : /\ log'[n].kind \in {"steering_claimed", "steering_enqueued"}
                                  /\ log'[n].turn = Current
    BY <1>0, <1>5, ClaimSays, SteerSays DEF Published
  <2>3. participants > 0
    BY <1>0, <2>1, HoldsCurrent
  <2>4. UNCHANGED <<turnVars, queueVars, task, admission>>
    BY <1>5 DEF ClaimSteering, Steer
  <2>5. QED
    BY <2>2, <2>3, <2>4, StepAside
<1>6. \A m \in Message : ~AbandonHandler(m)
  BY DEF AbandonHandler
<1>7. CASE StreamStep
  BY <1>1, <1>2, <1>7 DEF StreamInv, StreamStep, StreamWellFormed
<1>8. QED
  BY <1>3, <1>4, <1>5, <1>6, <1>7, StepDispatch, StepStart, StepJoin, StepQueue, StepFinish, Shapes

LEMMA InitStream == Init => StreamInv
<1> SUFFICES ASSUME Init PROVE StreamInv
  OBVIOUS
<1>1. \A kind : Events(kind) = {}
  BY DEF Init, Events
<1>2. HandlerEvents = {} /\ SteeringEvents = {}
  BY <1>1 DEF HandlerEvents, SteeringEvents
<1>3. participants = 0 /\ DOMAIN ready = {} /\ DOMAIN joining = {}
      /\ \A m \in Message : task[m] = "unsent"
  BY DEF Init
<1>4. Cardinality(Events("turn_started")) = Cardinality(Events("turn_end"))
           + (IF participants > 0 THEN 1 ELSE 0)
  <2>1. Cardinality({}) = 0
    BY FS_EmptySet
  <2>2. (IF participants > 0 THEN 1 ELSE 0) = 0
    BY <1>3
  <2>3. Cardinality(Events("turn_started")) = 0 /\ Cardinality(Events("turn_end")) = 0
    BY <1>1, <2>1
  <2>4. QED
    BY <2>2, <2>3
<1>5. BracketInv
  BY <1>1, <1>3, <1>4 DEF BracketInv
<1>6. AcceptInv /\ OrderInv /\ ClosedInv
  BY <1>1, <1>3 DEF AcceptInv, OrderInv, ClosedInv
<1>7. StreamWellFormed
  BY <1>1, <1>2 DEF StreamWellFormed, BracketsWellFormed, TurnEndIsQuiescence,
                    StartsInAdmissionOrder, ClosedIsLast
<1>8. QED
  BY <1>5, <1>6, <1>7, InitSettled DEF StreamInv

\* If no handler lets a CancelledError escape, the stream reads as turns: they neither nest
\* nor overlap and hold all that is said in them, turn_end comes after the end of every
\* message the turn accepted, handlers start in the order of admission, and agent_closed is
\* the last event and cuts no turn.
THEOREM StreamTheorem == ASSUME CancelEscapes = FALSE PROVE Spec => []StreamWellFormed
<1>1. StreamInv /\ [Next]_vars => StreamInv'
  BY NextStream
<1>2. StreamInv => StreamWellFormed
  BY DEF StreamInv
<1>3. QED
  BY <1>1, <1>2, InitStream, PTL DEF Spec

----------------------------------------------------------------------------
(* The runner implements AgentSession: every step of the refcount, the hand-  *)
(* off queues, the tasks and the loop is a step of a session without them, or *)
(* changes nothing the session shows.                                         *)

Slots == [m \in Message |-> admission[m].turn.turn_number]
Done == {m \in Message : task[m] \in {"finished", "abandoned"}}
Stopped == phase \in {"teardown"} \cup Terminal

\* What the session sees of the runner, under the names used in the proof.
LEMMA SessionView ==
  /\ Session!vars = <<currentTurn, Holding, pending, Slots, Done, Closed, Stopped>>
  /\ Session!vars' = <<currentTurn', Holding', pending', Slots', Done', Closed', Stopped'>>
  BY DEF Session!vars, Slots, Done, Stopped

\* The turn is active exactly while some message holds it.
LEMMA ActiveIsHeld == TurnInv => (TurnActive <=> Holding # {})
  BY HoldingFinite DEF TurnInv, RefcountExact, TurnActive, TypeOK

\* An agent that is alive and open, or alive and in a turn, is not stopped.
LEMMA RunningIsNotStopped ==
  TurnInv /\ Alive /\ (~Closed \/ Holding # {}) => ~Stopped
  BY ActiveIsHeld DEF TurnInv, PhasesConsistent, Alive, Stopped, TurnActive

LEMMA InitRefines == Init => Session!Init
<1> SUFFICES ASSUME Init PROVE Session!Init
  OBVIOUS
<1>1. Holding = {} /\ Done = {} /\ Slots = [m \in Message |-> 0]
  BY DEF Init, Holding, Done, Slots, NotAdmitted, NoTurn
<1>2. ~Closed /\ ~Stopped
  BY DEF Init, Closed, Stopped, Terminal
<1>3. QED
  BY <1>1, <1>2 DEF Init, Session!Init, Slots, Done, Stopped

\* A step that leaves turns, queue, tasks and admissions alone is a close, an
\* end of the agent, or nothing.
LEMMA FrameRefines ==
  ASSUME TurnInv, UNCHANGED <<currentTurn, Holding, pending, Slots, Done>>,
         \/ Closed' = Closed /\ Stopped' = Stopped
         \/ ~Closed /\ Closed' /\ ~Stopped /\ ~Stopped'
         \/ Closed' = Closed /\ ~Stopped /\ Stopped'
  PROVE  Session!Next \/ UNCHANGED Session!vars
<1> USE DEF Slots, Done, Stopped
<1>1. CASE Closed' = Closed /\ Stopped' = Stopped
  BY <1>1, SessionView
<1>2. CASE ~Closed /\ Closed' /\ ~Stopped /\ ~Stopped'
  <2>1. Session!Close
    BY <1>2 DEF Session!Close
  <2>2. QED BY <2>1 DEF Session!Next
<1>3. CASE Closed' = Closed /\ ~Stopped /\ Stopped'
  <2>1. Session!Abort
    BY <1>3 DEF Session!Abort
  <2>2. QED BY <2>1 DEF Session!Next
<1>4. QED
  BY <1>1, <1>2, <1>3

\* An admission is an admission of the session: the join of a message that
\* finds the turn active, or the promise of the next free slot.
LEMMA AdmitRefines ==
  ASSUME TurnInv, NEW m \in Message, AdmitJoin(m) \/ AdmitQueue(m)
  PROVE  Session!Next
<1> USE DEF TurnInv
<1>1. ~Closed /\ ~Stopped /\ task[m] = "unsent"
  BY RunningIsNotStopped DEF AdmitJoin, AdmitQueue, Admissible
<1>2. Slots[m] = 0 /\ Closed' = Closed /\ Stopped' = Stopped
  BY <1>1 DEF PhasesConsistent, NotAdmitted, NoTurn, Slots, AdmitJoin, AdmitQueue, Closed, Stopped
<1>3. Done' = Done
  BY <1>1 DEF AdmitJoin, AdmitQueue, Done, TypeOK
<1>4. MidTurn[m] = "reject" => Holding = {} /\ pending = << >>
  BY ActiveIsHeld DEF AdmitJoin, AdmitQueue, Admissible, HasPendingWork
<1>5. Session!Joins(m) <=> MidTurn[m] = "accept" /\ TurnActive
  BY ActiveIsHeld DEF Session!Joins
<1>6. CASE AdmitJoin(m)
  <2>1. Holding' = Holding \cup {m}
    BY <1>6 DEF AdmitJoin, Holding, TypeOK
  <2>2. Slots' = [Slots EXCEPT ![m] = currentTurn]
    BY <1>6 DEF AdmitJoin, Slots, TypeOK
  <2>3. UNCHANGED <<currentTurn, pending>>
    BY <1>6 DEF AdmitJoin, JoinTurn
  <2>4. Session!Admit(m)
    BY <1>1, <1>2, <1>3, <1>4, <1>5, <1>6, <2>1, <2>2, <2>3
    DEF Session!Admit, Session!Admissible, AdmitJoin, Slots, Done, Stopped
  <2>5. QED BY <2>4 DEF Session!Next
<1>7. CASE AdmitQueue(m)
  <2>1. Holding' = Holding
    BY <1>1, <1>7 DEF AdmitQueue, Holding, TypeOK
  <2>2. Slots' = [Slots EXCEPT ![m] = currentTurn + Len(pending) + 1]
    BY <1>7 DEF AdmitQueue, ReserveTurnNumber, Slots, TypeOK
  <2>3. pending' = Append(pending, m) /\ UNCHANGED currentTurn
    BY <1>7 DEF AdmitQueue
  <2>4. Session!Admit(m)
    BY <1>1, <1>2, <1>3, <1>4, <1>5, <1>7, <2>1, <2>2, <2>3
    DEF Session!Admit, Session!Admissible, AdmitQueue, Slots, Done, Stopped
  <2>5. QED BY <2>4 DEF Session!Next
<1>8. QED
  BY <1>6, <1>7

\* The loop body opens the turn of the queue's head, or only moves joins to
\* tasks, which the session does not see.
LEMMA DispatchRefines ==
  ASSUME TurnInv, phase \in Waiting, ~Closed, Dispatch
  PROVE  Session!Next \/ UNCHANGED Session!vars
<1> USE DEF TurnInv
<1> DEFINE head == Head(pending)
           opener == IF CanOpenTurn THEN <<head>> ELSE << >>
           spawned == joining \o opener
<1>1. ~Stopped /\ ~Stopped' /\ Stopped' = Stopped /\ Closed' = Closed /\ Slots' = Slots
  BY DEF Dispatch, WaitPhase, Waiting, Stopped, Terminal, Closed, Slots
<1>2. CanOpenTurn => /\ pending # << >> /\ head \in Message /\ head = pending[1]
                     /\ 1 \in DOMAIN pending /\ task[head] = "pending" /\ Holding = {}
  BY TailElements, HoldingFinite
  DEF CanOpenTurn, TurnActive, TypeOK, QueuesMatchTasks, RefcountExact
<1>3. \A i \in DOMAIN joining : joining[i] \in Message /\ task[joining[i]] = "joining"
  BY LenProperties DEF QueuesMatchTasks, TypeOK
<1>4. \A m \in Message : InSeq(m, spawned) => task[m] = "joining" \/ (CanOpenTurn /\ m = head)
  <2>1. opener \in Seq(Message) /\ joining \in Seq(Message)
    BY <1>2, EmptySeq DEF TypeOK
  <2>2. \A i \in DOMAIN spawned :
          \/ i \in DOMAIN joining /\ spawned[i] = joining[i]
          \/ i = Len(joining) + 1 /\ CanOpenTurn /\ spawned[i] = head
    BY <2>1, ConcatProperties, LenProperties
  <2>3. QED
    BY <2>2, <1>3 DEF InSeq
<1>5. task' = [m \in Message |-> IF InSeq(m, spawned) THEN "spawned" ELSE task[m]]
  BY DEF Dispatch
<1>6. Done' = Done
  BY <1>2, <1>4, <1>5 DEF Done
<1>7. CASE CanOpenTurn
  <2>1. joining = << >>
    <3>1. \A i \in DOMAIN joining : joining[i] \in Holding
      BY <1>3 DEF Holding
    <3>2. DOMAIN joining = {}
      BY <3>1, <1>2, <1>7
    <3>3. QED
      BY <3>2, LenProperties, EmptySeq DEF TypeOK
  <2>2. spawned = <<head>>
    BY <2>1, <1>7, <1>2, ConcatEmptySeq
  <2>3. Holding' = {head}
    BY <2>2, <1>2, <1>5, <1>7 DEF Holding, InSeq
  <2>4. Slots[head] = currentTurn + 1
    <3>1. admission[pending[1]].turn = [turn_id |-> pending[1], turn_number |-> currentTurn + 1]
      BY <1>2, <1>7 DEF SlotsReserved
    <3>2. QED
      BY <3>1, <1>2, <1>7 DEF Slots
  <2>5. currentTurn' = currentTurn + 1 /\ pending' = Tail(pending)
    BY <1>7 DEF Dispatch
  <2>6. Session!OpenTurn
    BY <1>1, <1>2, <1>6, <1>7, <2>3, <2>4, <2>5 DEF Session!OpenTurn, Slots, Done, Stopped
  <2>7. QED BY <2>6 DEF Session!Next
<1>8. CASE ~CanOpenTurn
  <2>1. Holding' = Holding
    BY <1>4, <1>5, <1>8 DEF Holding
  <2>2. UNCHANGED <<currentTurn, pending>>
    BY <1>8 DEF Dispatch
  <2>3. QED
    BY <1>1, <1>6, <2>1, <2>2, SessionView
<1>9. QED
  BY <1>7, <1>8

\* A participant that leaves finishes in the session.
LEMMA LeaveRefines ==
  ASSUME TurnInv, NEW m \in Message, Alive, task[m] = "running",
         NEW end \in {"finished", "abandoned"},
         task' = [task EXCEPT ![m] = end],
         LeaveTurn, UNCHANGED <<phase, closeReason, queueVars, admission>>
  PROVE  Session!Next
<1> USE DEF TurnInv
<1>1. m \in Holding
  BY DEF Holding
<1>2. Holding' = Holding \ {m} /\ Done' = Done \cup {m}
  BY DEF Holding, Done, TypeOK
<1>3. Slots[m] = currentTurn /\ Slots' = Slots
  BY <1>1 DEF HoldersShareTurn, Slots
<1>4. ~Stopped /\ Stopped' = Stopped /\ Closed' = Closed
  BY <1>1, RunningIsNotStopped DEF Stopped, Closed
<1>5. UNCHANGED <<currentTurn, pending>>
  BY DEF LeaveTurn
<1>6. Session!Finish(m)
  BY <1>1, <1>2, <1>3, <1>4, <1>5 DEF Session!Finish, Slots, Done, Stopped
<1>7. QED
  BY <1>6 DEF Session!Next

LEMMA NextRefines == TurnInv /\ [Next]_vars => Session!Next \/ UNCHANGED Session!vars
<1> SUFFICES ASSUME TurnInv, [Next]_vars PROVE Session!Next \/ UNCHANGED Session!vars
  OBVIOUS
<1> USE DEF Holding, Slots, Done, Closed, Stopped
<1>1. CASE UNCHANGED vars
  BY <1>1, FrameRefines DEF vars
<1>2. CASE FinishSetup
  BY <1>2, FrameRefines DEF FinishSetup, WaitPhase, Terminal
<1>3. CASE SetupFails
  BY <1>3, FrameRefines DEF SetupFails, Terminal
<1>4. CASE RunLoop
  <2>1. CASE Dispatch /\ ~Closed
    BY <2>1, <1>4, DispatchRefines DEF RunLoop, Wake, Waiting
  <2>2. CASE ~(Dispatch /\ ~Closed)
    BY <1>4, <2>2, FrameRefines DEF RunLoop, Wake, WaitPhase, Waiting, Terminal
  <2>3. QED BY <2>1, <2>2
<1>5. CASE IdleTimeout
  <2>1. CASE Dispatch /\ ~Closed
    BY <2>1, <1>5, DispatchRefines DEF IdleTimeout, Waiting
  <2>2. CASE ~(Dispatch /\ ~Closed)
    BY <1>5, <2>2, FrameRefines DEF IdleTimeout, Terminal
  <2>3. QED BY <2>1, <2>2
<1>6. CASE Close
  BY <1>6, FrameRefines DEF Close, Alive, TurnInv, PhasesConsistent
<1>7. CASE Drain
  BY <1>7, FrameRefines DEF Drain, Terminal
<1>8. CASE Cancel
  BY <1>8, FrameRefines DEF Cancel, Waiting, Terminal
<1>9. CASE FinishTeardown
  BY <1>9, FrameRefines DEF FinishTeardown, Terminal
<1>10. CASE StartHandler
  <2> DEFINE m == Head(ready)
  <2>1. m \in Message /\ task[m] = "spawned"
    BY <1>10, TailElements DEF StartHandler, TurnInv, TypeOK, QueuesMatchTasks
  <2>2. Holding' = Holding /\ Done' = Done
    BY <1>10, <2>1 DEF StartHandler, TurnInv, TypeOK
  <2>3. QED
    BY <1>10, <2>2, FrameRefines DEF StartHandler
<1>11. ASSUME NEW m \in Message, AdmitJoin(m) \/ AdmitQueue(m)
       PROVE  Session!Next \/ UNCHANGED Session!vars
  BY <1>11, AdmitRefines
<1>12. ASSUME NEW m \in Message, FinishHandler(m) PROVE Session!Next \/ UNCHANGED Session!vars
  BY <1>12, LeaveRefines DEF FinishHandler
<1>13. ASSUME NEW m \in Message, AbandonHandler(m) PROVE Session!Next \/ UNCHANGED Session!vars
  BY <1>13, LeaveRefines DEF AbandonHandler
<1>14. ASSUME NEW m \in Message, ClaimSteering(m) PROVE Session!Next \/ UNCHANGED Session!vars
  BY <1>14, FrameRefines DEF ClaimSteering
<1>15. ASSUME NEW m \in Message, NEW s \in SteeringId, Steer(m, s)
       PROVE  Session!Next \/ UNCHANGED Session!vars
  BY <1>15, FrameRefines DEF Steer
<1>16. QED
  BY <1>1, <1>2, <1>3, <1>4, <1>5, <1>6, <1>7, <1>8, <1>9, <1>10, <1>11, <1>12, <1>13,
     <1>14, <1>15 DEF Next

\* The runner implements the session: turns do not overlap, each message runs in
\* the turn it was promised, and an orderly end cuts no turn, whatever the
\* messages and however their handlers end.
THEOREM Refinement == Spec => ImplementsSession
<1>1. QED
  BY InitRefines, NextRefines, TurnInvariant, PTL DEF Spec, ImplementsSession, Session!Spec
=============================================================================
