--------------------------- MODULE SubagentTurns ---------------------------
(***************************************************************************)
(* A parent agent that drives one subagent: the tool calls that send it    *)
(* messages and pass one at a time through its FIFO gate, the activity     *)
(* that carries one send, and the child.                                   *)
(*                                                                         *)
(* The parent (harness/agent_workflow.py, run_subagent_turn and            *)
(* stop_subagent) is one event loop: an action is the code between two     *)
(* awaits.  The activity (harness/subagent_activities.py) runs on workers  *)
(* that crash and are replaced; an attempt begins with what the last       *)
(* recorded heartbeat, the memo, says.  The child is what AgentSession     *)
(* promises of an agent, with the stream the activity reads; it has other  *)
(* senders and may be closed by others, or terminated.                     *)
(***************************************************************************)
EXTENDS Naturals, Sequences, FiniteSets

CONSTANTS
  Send,        \* the parent's tool calls that send a message to the child
  Other,       \* messages of other senders to the child
  MidTurn,     \* [Send \cup Other -> {"accept", "queue", "reject"}]
  Cancellable, \* sends of a code mode script, which may end without them
  MaxCrashes,  \* bound on the attempts that are lost
  NoMemo       \* no heartbeat was recorded

ASSUME SendAssumption == Send \cap Other = {} /\ Cancellable \subseteq Send
ASSUME MidTurnAssumption == MidTurn \in [Send \cup Other -> {"accept", "queue", "reject"}]
ASSUME CrashAssumption == MaxCrashes \in Nat
ASSUME NoMemoAssumption == NoMemo \notin Nat

VARIABLES
  (* the parent workflow, and its _SubagentInstance for the child *)
  call,        \* where each send is in run_subagent_turn, or how it ended
  ticket,      \* the gate position of each send
  nextTicket,  \* _next_ticket
  serving,     \* _serving
  offset,      \* last_consumed_offset
  registered,  \* the child's handle is in the registry
  stop,        \* where the one stop_subagent call is
  closed,      \* the parent's _closed
  markers,     \* the events about this child on the parent's stream
  (* the activity of each send *)
  attempt,     \* where the current attempt is
  memo,        \* the consumed_offset of the last recorded heartbeat, or NoMemo
  position,    \* consumed_offset of the current attempt
  verdict,     \* what the current attempt has found
  crashes,     \* attempts lost so far
  (* the child *)
  turn, active, queue, slot, finished, closing, stopped,
  childLog     \* its stream, as far as the activity can tell events apart

parentVars == <<call, ticket, nextTicket, serving, offset, registered, stop, closed, markers>>
activityVars == <<attempt, memo, position, verdict, crashes>>
sessionVars == <<turn, active, queue, slot, finished, closing, stopped>>
vars == <<parentVars, activityVars, sessionVars, childLog>>

Child == INSTANCE AgentSession WITH Message <- Send \cup Other

Verdict == {"ok", "turnError", "noReply", "rejected", "agentClosed"}
Ended == Verdict \cup {"unknown", "parentClosed", "noTurn", "cancelled"}

NoTurn == 0
Marker(kind, s) == [kind |-> kind, send |-> s, turn |-> slot[s]]
Stopped == [kind |-> "subagent_stopped", send |-> "any", turn |-> NoTurn]

Init ==
  /\ call = [s \in Send |-> "idle"]
  /\ ticket = [s \in Send |-> 0]
  /\ nextTicket = 0 /\ serving = 0 /\ offset = 0
  /\ registered = TRUE
  /\ stop = "idle"
  /\ closed = FALSE
  /\ markers = << >>
  /\ attempt = [s \in Send |-> "none"]
  /\ memo = [s \in Send |-> NoMemo]
  /\ position = [s \in Send |-> 0]
  /\ verdict = [s \in Send |-> "none"]
  /\ crashes = 0
  /\ Child!Init
  /\ childLog = << >>

----------------------------------------------------------------------------
(* The parent: the gate *)

\* A handle the parent does not know, or no longer, fails the call.
RefuseUnknown(s) ==
  /\ call[s] = "idle" /\ ~registered
  /\ call' = [call EXCEPT ![s] = "unknown"]
  /\ UNCHANGED <<ticket, nextTicket, serving, offset, registered, stop, closed, markers>>
  /\ UNCHANGED <<activityVars, sessionVars, childLog>>

\* The ticket is taken before the first await.
TakeTicket(s) ==
  /\ call[s] = "idle" /\ registered
  /\ call' = [call EXCEPT ![s] = "waiting"]
  /\ ticket' = [ticket EXCEPT ![s] = nextTicket]
  /\ nextTicket' = nextTicket + 1
  /\ UNCHANGED <<serving, offset, registered, stop, closed, markers>>
  /\ UNCHANGED <<activityVars, sessionVars, childLog>>

\* Mutant: whoever wakes first passes.
IsServingAnyone(s) == call[s] = "waiting"
IsServing(s) == ticket[s] = serving

\* The gate is reached: the activity is scheduled, to read from `offset`.
PassGate(s) ==
  /\ call[s] = "waiting" /\ IsServing(s)
  /\ call' = [call EXCEPT ![s] = "running"]
  /\ attempt' = [attempt EXCEPT ![s] = "started"]
  /\ UNCHANGED <<ticket, nextTicket, serving, offset, registered, stop, closed, markers>>
  /\ UNCHANGED <<memo, position, verdict, crashes, sessionVars, childLog>>

\* A send woken by the close of the parent while others are served gives up.
LeaveGate(s) ==
  /\ call[s] = "waiting" /\ closed /\ ~IsServing(s)
  /\ call' = [call EXCEPT ![s] = "parentClosed"]
  /\ UNCHANGED <<ticket, nextTicket, serving, offset, registered, stop, closed, markers>>
  /\ UNCHANGED <<activityVars, sessionVars, childLog>>

\* A send that its handler left running is served when the parent's turn is over: there
\* is nothing to publish against, and it fails before the activity, releasing the gate.
LoseTurn(s) ==
  /\ call[s] = "waiting" /\ IsServing(s)
  /\ call' = [call EXCEPT ![s] = "noTurn"]
  /\ serving' = serving + 1
  /\ UNCHANGED <<ticket, nextTicket, offset, registered, stop, closed, markers>>
  /\ UNCHANGED <<activityVars, sessionVars, childLog>>

\* The script that made the call ends.  A waiter leaves with its ticket; a send
\* that runs releases the gate, and its activity goes on until it finds out.
Cancel(s) ==
  /\ s \in Cancellable
  /\ call[s] \in {"waiting", "running"}
  /\ call' = [call EXCEPT ![s] = "cancelled"]
  /\ serving' = IF call[s] = "running" THEN serving + 1 ELSE serving
  /\ UNCHANGED <<ticket, nextTicket, offset, registered, stop, closed, markers>>
  /\ UNCHANGED <<activityVars, sessionVars, childLog>>

\* Mutant: the gate is released only after a reply.
ReleaseOnReply(s) == IF verdict[s] = "ok" THEN serving + 1 ELSE serving

Release(s) == serving + 1

\* Only a turn the child accepted has a bracket to close.
CloseBracket(s) ==
  IF verdict[s] \in {"ok", "turnError", "noReply"} THEN <<Marker("reply_received", s)>> ELSE << >>

\* The first send that finds the child closed publishes its end.
Forget(s) == IF verdict[s] = "agentClosed" /\ registered THEN <<Stopped>> ELSE << >>

\* An activity that is over leaves nothing behind.
ActivityOver(s) ==
  /\ attempt' = [attempt EXCEPT ![s] = "none"]
  /\ memo' = [memo EXCEPT ![s] = NoMemo]
  /\ position' = [position EXCEPT ![s] = 0]
  /\ verdict' = [verdict EXCEPT ![s] = "none"]

\* The activity's result reaches the parent: the rest of run_subagent_turn.
Settle(s) ==
  /\ call[s] = "running" /\ attempt[s] = "finished"
  /\ call' = [call EXCEPT ![s] = verdict[s]]
  /\ ActivityOver(s)
  /\ markers' = markers \o CloseBracket(s) \o Forget(s)
  /\ registered' = (registered /\ verdict[s] # "agentClosed")
  /\ offset' = IF verdict[s] = "ok" THEN position[s] ELSE offset
  /\ serving' = Release(s)
  /\ UNCHANGED <<ticket, nextTicket, stop, closed, crashes, sessionVars, childLog>>

----------------------------------------------------------------------------
(* The parent: stop_subagent and close *)

\* The handle is known when the call is made.
StopCall ==
  /\ stop = "idle"
  /\ stop' = IF registered THEN "signalling" ELSE "unknown"
  /\ UNCHANGED <<call, ticket, nextTicket, serving, offset, registered, closed, markers>>
  /\ UNCHANGED <<activityVars, sessionVars, childLog>>

\* The close signal is delivered; there may be no workflow left to signal.
StopSignal ==
  /\ stop = "signalling"
  /\ stop' = IF stopped THEN "failed" ELSE "signalled"
  /\ closing' = (closing \/ ~stopped)
  /\ UNCHANGED <<call, ticket, nextTicket, serving, offset, registered, closed, markers>>
  /\ UNCHANGED <<activityVars, turn, active, queue, slot, finished, stopped, childLog>>

\* The handle is dropped, whatever sends are under way and whoever dropped it.
StopReturn ==
  /\ stop = "signalled"
  /\ stop' = "done"
  /\ registered' = FALSE
  /\ markers' = Append(markers, Stopped)
  /\ UNCHANGED <<call, ticket, nextTicket, serving, offset, closed>>
  /\ UNCHANGED <<activityVars, sessionVars, childLog>>

ParentClose ==
  /\ ~closed
  /\ closed' = TRUE
  /\ UNCHANGED <<call, ticket, nextTicket, serving, offset, registered, stop, markers>>
  /\ UNCHANGED <<activityVars, sessionVars, childLog>>

----------------------------------------------------------------------------
(* The activity *)

\* The child's acceptance, now or by an earlier attempt: the update id is the
\* activity's, so a repeated submission gets the first answer back.
Submit(s) ==
  /\ attempt[s] = "started" /\ memo[s] = NoMemo
  /\ \/ slot[s] # 0 /\ UNCHANGED <<sessionVars, childLog>>
     \/ Child!Admit(s) /\ UNCHANGED childLog
  /\ attempt' = [attempt EXCEPT ![s] = "sent"]
  /\ UNCHANGED <<parentVars, memo, position, verdict, crashes>>

\* The child refuses: closed or gone, or busy and not to be interrupted.
BeRefused(s) ==
  /\ attempt[s] = "started" /\ memo[s] = NoMemo
  /\ slot[s] = 0 /\ ~Child!Admissible(s)
  /\ attempt' = [attempt EXCEPT ![s] = "finished"]
  /\ verdict' = [verdict EXCEPT ![s] = IF closing \/ stopped THEN "agentClosed" ELSE "rejected"]
  /\ UNCHANGED <<parentVars, memo, position, crashes, sessionVars, childLog>>

\* The dispatch marker goes on the parent's stream, and the reading begins.
Announce(s) ==
  /\ attempt[s] = "sent"
  /\ markers' = Append(markers, Marker("message_sent", s))
  /\ attempt' = [attempt EXCEPT ![s] = "reading"]
  /\ position' = [position EXCEPT ![s] = offset]
  /\ UNCHANGED <<call, ticket, nextTicket, serving, offset, registered, stop, closed>>
  /\ UNCHANGED <<memo, verdict, crashes, sessionVars, childLog>>

\* A later attempt with a memo sends and announces nothing.
Resume(s) ==
  /\ attempt[s] = "started" /\ memo[s] # NoMemo
  /\ attempt' = [attempt EXCEPT ![s] = "reading"]
  /\ position' = [position EXCEPT ![s] = memo[s]]
  /\ UNCHANGED <<parentVars, memo, verdict, crashes, sessionVars, childLog>>

\* A heartbeat of this attempt is recorded.
Heartbeat(s) ==
  /\ attempt[s] = "reading"
  /\ memo' = [memo EXCEPT ![s] = position[s]]
  /\ UNCHANGED <<parentVars, attempt, position, verdict, crashes, sessionVars, childLog>>

\* Mutant: any reply on the turn is taken for this send's.
IsOursByTurn(s, event) == event.turn = slot[s] /\ event.kind # "turn_end"
IsOurs(s, event) == event.send = s

\* The next event of the child's stream.  Only this send's own terminal counts,
\* and the end of its turn.
Read(s) ==
  /\ attempt[s] = "reading" /\ position[s] < Len(childLog)
  /\ position' = [position EXCEPT ![s] = @ + 1]
  /\ LET event == childLog[position[s] + 1]
         inTurn == event.turn = slot[s]
     IN  \/ /\ ~(inTurn /\ (IsOurs(s, event) \/ event.kind = "turn_end"))
            /\ UNCHANGED <<verdict, attempt>>
         \/ /\ inTurn /\ IsOurs(s, event) /\ event.kind = "message_handler_end"
            /\ verdict' = [verdict EXCEPT ![s] = "ok"]
            /\ UNCHANGED attempt
         \/ /\ inTurn /\ IsOurs(s, event) /\ event.kind = "message_handler_error"
            /\ verdict' = [verdict EXCEPT ![s] = "turnError"]
            /\ attempt' = [attempt EXCEPT ![s] = "finished"]
         \/ /\ inTurn /\ event.kind = "turn_end"
            /\ verdict' = [verdict EXCEPT ![s] = IF @ = "ok" THEN "ok" ELSE "noReply"]
            /\ attempt' = [attempt EXCEPT ![s] = "finished"]
  /\ UNCHANGED <<parentVars, memo, crashes, sessionVars, childLog>>

\* The child's workflow is over and its stream with it.
StreamEnds(s) ==
  /\ attempt[s] = "reading" /\ position[s] = Len(childLog) /\ stopped
  /\ verdict' = [verdict EXCEPT ![s] = IF @ = "ok" THEN "ok" ELSE "noReply"]
  /\ attempt' = [attempt EXCEPT ![s] = "finished"]
  /\ UNCHANGED <<parentVars, memo, position, crashes, sessionVars, childLog>>

\* The worker is lost before the result is recorded, and another starts over.
Crash(s) ==
  /\ crashes < MaxCrashes
  /\ call[s] = "running" /\ attempt[s] \in {"sent", "reading", "finished"}
  /\ crashes' = crashes + 1
  /\ attempt' = [attempt EXCEPT ![s] = "started"]
  /\ verdict' = [verdict EXCEPT ![s] = "none"]
  /\ UNCHANGED <<parentVars, memo, position, sessionVars, childLog>>

\* An activity learns that its call was cancelled.
Quit(s) ==
  /\ call[s] = "cancelled" /\ attempt[s] # "none"
  /\ ActivityOver(s)
  /\ UNCHANGED <<parentVars, crashes, sessionVars, childLog>>

----------------------------------------------------------------------------
(* The child: an agent session, and what it publishes *)

Publish(kind, m) == [kind |-> kind, send |-> m, turn |-> turn]

OtherAdmit(m) == Child!Admit(m) /\ UNCHANGED <<parentVars, activityVars, childLog>>
ChildOpen == Child!OpenTurn /\ UNCHANGED <<parentVars, activityVars, childLog>>

\* A handler ends or fails; the last one out ends the turn.
ChildFinish(m) ==
  /\ Child!Finish(m)
  /\ \E kind \in {"message_handler_end", "message_handler_error"} :
       childLog' = Append(childLog, Publish(kind, m))
                   \o (IF active = {m} THEN <<Publish("turn_end", "any")>> ELSE << >>)
  /\ UNCHANGED <<parentVars, activityVars>>

\* Others close the child; it ends once it is drained; it is terminated.
ChildClose == Child!Close /\ UNCHANGED <<parentVars, activityVars, childLog>>
ChildStop == Child!Stop /\ UNCHANGED <<parentVars, activityVars, childLog>>
ChildAbort == Child!Abort /\ UNCHANGED <<parentVars, activityVars, childLog>>

ActivityStep(s) ==
  Submit(s) \/ BeRefused(s) \/ Announce(s) \/ Resume(s) \/ Read(s) \/ StreamEnds(s)

Next ==
  \/ \E s \in Send :
       \/ RefuseUnknown(s) \/ TakeTicket(s) \/ PassGate(s) \/ LeaveGate(s) \/ LoseTurn(s)
       \/ Cancel(s) \/ Settle(s) \/ ActivityStep(s) \/ Heartbeat(s) \/ Crash(s) \/ Quit(s)
  \/ StopCall \/ StopSignal \/ StopReturn \/ ParentClose
  \/ \E m \in Other : OtherAdmit(m)
  \/ \E m \in Send \cup Other : ChildFinish(m)
  \/ ChildOpen \/ ChildClose \/ ChildStop \/ ChildAbort

Spec == Init /\ [][Next]_vars

----------------------------------------------------------------------------
(* Properties *)

ChildEvent ==
  [kind : {"message_handler_end", "message_handler_error", "turn_end"},
   send : Send \cup Other \cup {"any"}, turn : Nat]
ParentEvent ==
  [kind : {"message_sent", "reply_received", "subagent_stopped"},
   send : Send \cup {"any"}, turn : Nat]

\* Every variable holds what the code may put there; no ticket is served before
\* it is taken, and nobody reads beyond the child's stream.
TypeOK ==
  /\ call \in [Send -> {"idle", "waiting", "running"} \cup Ended]
  /\ ticket \in [Send -> Nat] /\ nextTicket \in Nat /\ serving \in 0..nextTicket
  /\ offset \in 0..Len(childLog)
  /\ registered \in BOOLEAN /\ closed \in BOOLEAN
  /\ stop \in {"idle", "unknown", "signalling", "signalled", "failed", "done"}
  /\ markers \in Seq(ParentEvent)
  /\ attempt \in [Send -> {"none", "started", "sent", "reading", "finished"}]
  /\ memo \in [Send -> 0..Len(childLog) \cup {NoMemo}]
  /\ position \in [Send -> 0..Len(childLog)]
  /\ verdict \in [Send -> Verdict \cup {"none"}]
  /\ crashes \in 0..MaxCrashes
  /\ turn \in Nat /\ active \subseteq Send \cup Other /\ finished \subseteq Send \cup Other
  /\ queue \in Seq(Send \cup Other) /\ slot \in [Send \cup Other -> Nat]
  /\ closing \in BOOLEAN /\ stopped \in BOOLEAN
  /\ childLog \in Seq(ChildEvent)

MarkerAt(i, kind, s) == markers[i].kind = kind /\ markers[i].send = s

\* What the stream merge of the clients rests on: on the parent's stream the
\* brackets of one subagent never overlap and come in the order of the calls, a
\* bracket is closed once, and under the turn it was opened with.  A retry may
\* open its bracket again, and a send that was cancelled never closes it.  The gate that
\* makes it so never serves a ticket that was not handed out (TypeOK).
BracketsInOrder ==
  TypeOK /\ \A s, t \in Send : \A j \in DOMAIN markers :
    /\ MarkerAt(j, "message_sent", t) /\ s # t /\ "cancelled" \notin {call[s], call[t]} =>
         \A i \in 1..(j - 1) : MarkerAt(i, "message_sent", s) =>
           /\ ticket[s] < ticket[t]
           /\ \E k \in i..j : MarkerAt(k, "reply_received", s)
    /\ MarkerAt(j, "reply_received", t) =>
         /\ \E i \in 1..j : MarkerAt(i, "message_sent", t) /\ markers[i].turn = markers[j].turn
         /\ \A k \in DOMAIN markers : MarkerAt(k, "reply_received", t) => k = j

Published(kind, m, n) ==
  \E k \in DOMAIN childLog : childLog[k] = [kind |-> kind, send |-> m, turn |-> n]

\* How a send ended is what happened to its own message: a reply is its own, and
\* it is given when the child's turn is over; an error is its own; a send that
\* was refused did not run, whatever attempts were lost on the way.
OutcomeIsTrue ==
  \A s \in Send :
    LET turnOver == Published("turn_end", "any", slot[s]) \/ stopped
    IN  /\ call[s] = "ok" => Published("message_handler_end", s, slot[s]) /\ turnOver
        /\ call[s] = "turnError" => Published("message_handler_error", s, slot[s])
        /\ call[s] = "noReply" => turnOver
        /\ call[s] \in {"rejected", "agentClosed", "unknown", "parentClosed", "noTurn"} => slot[s] = 0

\* The stream says the subagent is gone exactly when the registry does, and says
\* so once, or once more when a stop and a send both found out.
StoppedRules ==
  LET said == {i \in DOMAIN markers : markers[i].kind = "subagent_stopped"}
  IN  /\ registered <=> said = {}
      /\ Cardinality(said) <= IF stop = "done" THEN 2 ELSE 1

\* What the parent is told of its sends and of the subagent is so.
ParentIsTold == OutcomeIsTrue /\ StoppedRules

\* The docstring of the activity: a send fails with SubagentNoReply when "the
\* turn ended with no reply".
ReplyNotLost ==
  \A s \in Send : call[s] = "noReply" => ~Published("message_handler_end", s, slot[s])

\* The parent's event loop and the workers go on; the child's handlers end, and a
\* child that closes completes (AgentRunner's CloseCompletes).
Fairness ==
  /\ \A s \in Send :
       /\ WF_vars(PassGate(s)) /\ WF_vars(LeaveGate(s))
       /\ WF_vars(Settle(s)) /\ WF_vars(ActivityStep(s))
  /\ \A m \in Send \cup Other : WF_vars(ChildFinish(m))
  /\ WF_vars(ChildOpen) /\ WF_vars(ChildStop)

FairSpec == Spec /\ Fairness

\* A cancelled waiter took its ticket with it, and the gate will stop at it.
GateIsStuck(s) ==
  \E t \in Send : call[t] = "cancelled" /\ ticket[t] \in serving..ticket[s]

\* A send that took a ticket ends, unless one before it was cancelled at the gate.
EverySendEnds ==
  \A s \in Send : call[s] \in {"waiting", "running"} ~> (call[s] \in Ended \/ GateIsStuck(s))
=============================================================================
