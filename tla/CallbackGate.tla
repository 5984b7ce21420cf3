---------------------------- MODULE CallbackGate ----------------------------
(***************************************************************************)
(* Callback tools of harness/agent_workflow.py: a tool call with no body,  *)
(* which waits in the workflow for a result an attached client supplies    *)
(* by the provide_callback_result update, for its timeout, or for the      *)
(* close of the agent, whichever the gate wakes up on.                     *)
(*                                                                         *)
(* The call has passed its approval gate and published tool_start.  One    *)
(* action is the code between two awaits, so an update may come between    *)
(* the timer firing and the gate resuming.                                 *)
(***************************************************************************)
EXTENDS Naturals, Sequences, FiniteSets

CONSTANTS
  Call,   \* callback tool calls
  Timed   \* those whose tool declares a timeout

ASSUME TimedAssumption == Timed \subseteq Call

VARIABLES
  entry,   \* the status and outcome of each _CallbackEntry
  gate,    \* where each call is in await_callback_result
  closed,  \* the runner's _closed
  log      \* the events published, oldest first

vars == <<entry, gate, closed, log>>

Result == {"ok", "error"}                  \* what a client can report
Outcome == Result \cup {"timeout"}         \* "timeout" also stands for the close
Entry == {"none", "pending"} \cup Outcome
Gate == {"idle", "waiting", "timedOut", "returned", "raised"}
EventKind == {"callback_requested", "callback_resolved", "tool_end", "tool_error"}
Event == [kind : EventKind, call : Call, outcome : Outcome \cup {"none"}]
Ev(kind, c, outcome) == [kind |-> kind, call |-> c, outcome |-> outcome]

Init ==
  /\ entry = [c \in Call |-> "none"]
  /\ gate = [c \in Call |-> "idle"]
  /\ closed = FALSE
  /\ log = << >>

\* The call is registered and published, and parks.
Park(c) ==
  /\ gate[c] = "idle"
  /\ entry' = [entry EXCEPT ![c] = "pending"]
  /\ gate' = [gate EXCEPT ![c] = "waiting"]
  /\ log' = Append(log, Ev("callback_requested", c, "none"))
  /\ UNCHANGED closed

\* The update's validator: neither unknown nor resolved.  A payload of the wrong
\* type is rejected too, and leaves the call pending.
Accepts(c) == entry[c] = "pending"

\* The update that resolves the call, published where it is resolved.
Provide(c, result) ==
  /\ Accepts(c)
  /\ entry' = [entry EXCEPT ![c] = result]
  /\ log' = Append(log, Ev("callback_resolved", c, result))
  /\ UNCHANGED <<gate, closed>>

\* The timer fires; the TimeoutError reaches the gate when its task next runs.
TimerFires(c) ==
  /\ c \in Timed
  /\ gate[c] = "waiting"
  /\ gate' = [gate EXCEPT ![c] = "timedOut"]
  /\ UNCHANGED <<entry, closed, log>>

Close ==
  /\ ~closed
  /\ closed' = TRUE
  /\ UNCHANGED <<entry, gate, log>>

\* Mutant: the gate does not wake on close.
WakesOnResult(c) == gate[c] = "timedOut" \/ (gate[c] = "waiting" /\ entry[c] \in Outcome)
Wakes(c) == gate[c] = "timedOut" \/ (gate[c] = "waiting" /\ (entry[c] \in Outcome \/ closed))

\* Mutants: a timeout beats the result accepted before it; the gate publishes
\* the resolution of a result too.
FinalOutcomeByTimer(c) == IF entry[c] = "pending" \/ gate[c] = "timedOut" THEN "timeout" ELSE entry[c]
ResolutionAlways(c, outcome) == <<Ev("callback_resolved", c, outcome)>>

\* finalize_callback: a call still pending was woken by its timer or the close.
FinalOutcome(c) == IF entry[c] = "pending" THEN "timeout" ELSE entry[c]

\* Only a resolution no update made is published by the gate.
Resolution(c, outcome) ==
  IF entry[c] = "pending" THEN <<Ev("callback_resolved", c, outcome)>> ELSE << >>

\* The gate resumes, and the tool around it ends or fails in the same step.
Resume(c) ==
  LET outcome == FinalOutcome(c)
  IN  /\ Wakes(c)
      /\ entry' = [entry EXCEPT ![c] = outcome]
      /\ gate' = [gate EXCEPT ![c] = IF outcome = "ok" THEN "returned" ELSE "raised"]
      /\ log' = log \o Resolution(c, outcome)
                    \o <<Ev(IF outcome = "ok" THEN "tool_end" ELSE "tool_error", c, outcome)>>
      /\ UNCHANGED closed

Next ==
  \/ \E c \in Call :
       \/ Park(c) \/ TimerFires(c) \/ Resume(c)
       \/ \E result \in Result : Provide(c, result)
  \/ Close

Spec == Init /\ [][Next]_vars

----------------------------------------------------------------------------
(* Properties *)

\* Every variable holds what the code may put there, and a call is registered
\* exactly while its gate has left the start.
TypeOK ==
  /\ entry \in [Call -> Entry]
  /\ gate \in [Call -> Gate]
  /\ closed \in BOOLEAN
  /\ log \in Seq(Event)
  /\ \A c \in Call : entry[c] = "none" <=> gate[c] = "idle"

Events(kind, c) == {i \in DOMAIN log : log[i].kind = kind /\ log[i].call = c}

\* A call is requested, resolved and ended at most once each and in this order,
\* and it ends the way its resolution says: a client told its result was accepted
\* sees the tool end with it, whatever the timer did.
ResolutionRules ==
  \A c \in Call :
    /\ Cardinality(Events("callback_resolved", c)) = IF entry[c] \in Outcome THEN 1 ELSE 0
    /\ \A i \in Events("tool_end", c) \cup Events("tool_error", c) :
         \E j \in Events("callback_resolved", c) :
           /\ j < i /\ log[j].outcome = log[i].outcome
           /\ log[i].kind = "tool_end" <=> log[j].outcome = "ok"

\* A result the update accepted stands: neither a later submission nor the
\* timeout of the gate replaces it.
AcceptedStands == [][\A c \in Call : entry[c] \in Outcome => entry'[c] = entry[c]]_vars

\* The event loop resumes a gate whose wait is over; an armed timer fires.
Fairness == \A c \in Call : WF_vars(Resume(c)) /\ WF_vars(TimerFires(c))

FairSpec == Spec /\ Fairness

Parked(c) == gate[c] \in {"waiting", "timedOut"}

\* No parked call outlives the close of its agent, and none outlives its timeout.
ParkedCallsEnd ==
  \A c \in Call : Parked(c) /\ (closed \/ c \in Timed) ~> gate[c] \in {"returned", "raised"}
=============================================================================
