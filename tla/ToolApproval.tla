---------------------------- MODULE ToolApproval ----------------------------
(***************************************************************************)
(* The tool-approval gate of harness/agent_workflow.py: the live policy,   *)
(* the registry of gated calls, the race between the auto mode evaluator,  *)
(* a person, a policy change and the close of the agent, and the cascade   *)
(* by which one decision releases other calls.                             *)
(*                                                                         *)
(* Every gated call runs in a task of its own.  One action is the code     *)
(* between two awaits: a tool_approval update, a policy change, the        *)
(* prologue of a gate, what a gate does when its wait condition came true. *)
(***************************************************************************)
EXTENDS Naturals, Sequences, FiniteSets

CONSTANTS
  Call,             \* tool calls, each made once
  Tool,
  ToolOf,           \* [Call -> Tool]
  Safe,             \* the tools declared inherently_safe
  Policies,         \* policies a handler may install
  InitialPolicy,
  Criteria,         \* rulebooks a handler may install: the tools each governs
  EvaluatorWired,   \* TRUE when the agent has an auto_mode_evaluator
  EvaluatorAnswer   \* what the evaluator may come back with

Policy == [skip : BOOLEAN, safe : BOOLEAN, tools : SUBSET Tool, auto : BOOLEAN]
Verdict == {"approve", "deny", "escalate"}

\* The policy type refuses auto mode over skipped approvals, and a runner refuses
\* a policy with auto mode on when it has no evaluator to run.
Installable(p) == p.auto => EvaluatorWired
WellFormed(p) == ~(p.skip /\ p.auto)

ASSUME CallAssumption ==
  /\ ToolOf \in [Call -> Tool]
  /\ Safe \subseteq Tool
  /\ EvaluatorWired \in BOOLEAN
  /\ EvaluatorAnswer \subseteq Verdict \cup {"raises", "malformed"}
ASSUME PolicyAssumption ==
  /\ Policies \cup {InitialPolicy} \subseteq {p \in Policy : WellFormed(p)}
  /\ Installable(InitialPolicy)
  /\ Criteria \subseteq SUBSET Tool

VARIABLES
  policy,      \* _WorkflowStatus._approval_policy
  governed,    \* the tools the live auto_approval_criteria has rules for
  registry,    \* the keys of _approvals, in insertion order
  entry,       \* the status of each call's _ApprovalEntry
  gate,        \* where each call is in _apply_approval_policy
  evaluator,   \* the evaluator task of each call
  closed,      \* the runner's _closed
  log          \* the approval events published, oldest first

vars == <<policy, governed, registry, entry, gate, evaluator, closed, log>>

Entry == {"none", "pending", "approved", "denied"}
Busy == {"evaluating", "settling", "waiting"}
Gate == {"idle", "dispatched", "refused", "raised"} \cup Busy
Evaluator == {"none", "running", "cancelled"} \cup EvaluatorAnswer
EventKind == {"requested", "evaluation_started", "evaluation_ended",
              "evaluation_superseded", "evaluation_error", "resolved"}
\* What an event says besides the call it is about: a verdict or a decision, and
\* the ground the decision was taken on.
Answer == Verdict \cup {"approved", "denied", "none"}
Ground == {"none", "human", "remember", "auto_mode", "policy", "close"}
Event == [kind : EventKind, call : Call, answer : Answer, ground : Ground]

Ev(kind, c, answer, ground) == [kind |-> kind, call |-> c, answer |-> answer, ground |-> ground]
Resolved(c, answer, ground) == Ev("resolved", c, answer, ground)

Decided == {"approved", "denied"}
\* ToolApprovalPolicy.auto_approves and consults_auto_mode.
AutoApproves(p, c) == p.skip \/ (p.safe /\ ToolOf[c] \in Safe) \/ ToolOf[c] \in p.tools
ConsultsAutoMode(p, c) == EvaluatorWired /\ p.auto /\ ~AutoApproves(p, c)
\* _auto_mode_context: the one authority on whether an evaluator runs.
Evaluates(c) == ConsultsAutoMode(policy, c) /\ ToolOf[c] \in governed

\* Mutant: a gate does not look at the close.
SettledByDecision(c) == entry[c] \in Decided
\* The gate has been settled by someone else, or the agent is closing.
Settled(c) == entry[c] \in Decided \/ closed

Init ==
  /\ policy = InitialPolicy
  /\ governed \in Criteria
  /\ registry = << >>
  /\ entry = [c \in Call |-> "none"]
  /\ gate = [c \in Call |-> "idle"]
  /\ evaluator = [c \in Call |-> "none"]
  /\ closed = FALSE
  /\ log = << >>

----------------------------------------------------------------------------
(* The gate of one call *)

\* The prologue, without an await: an allow-listed call passes ungated and
\* unpublished; any other is registered and published before anyone is asked.
Request(c) ==
  /\ gate[c] = "idle"
  /\ IF AutoApproves(policy, c)
     THEN /\ gate' = [gate EXCEPT ![c] = "dispatched"]
          /\ UNCHANGED <<registry, entry, evaluator, log>>
     ELSE /\ registry' = Append(registry, c)
          /\ entry' = [entry EXCEPT ![c] = "pending"]
          /\ gate' = [gate EXCEPT ![c] = IF Evaluates(c) THEN "evaluating" ELSE "waiting"]
          /\ evaluator' = [evaluator EXCEPT ![c] = IF Evaluates(c) THEN "running" ELSE "none"]
          /\ log' = log \o <<Ev("requested", c, "none", "none")>>
                        \o (IF Evaluates(c) THEN <<Ev("evaluation_started", c, "none", "none")>>
                                            ELSE << >>)
  /\ UNCHANGED <<policy, governed, closed>>

\* The author's evaluator comes back, with a verdict or without one.
EvaluatorReturns(c) ==
  /\ evaluator[c] = "running" /\ gate[c] = "evaluating"
  /\ \E answer \in EvaluatorAnswer : evaluator' = [evaluator EXCEPT ![c] = answer]
  /\ UNCHANGED <<policy, governed, registry, entry, gate, closed, log>>

\* Someone else answered first.  A verdict the evaluator did reach is published
\* all the same; a running evaluator is cancelled and awaited; a result that
\* is no decision has no verdict to read, and reading it raises.
Supersede(c) ==
  /\ gate[c] = "evaluating"
  /\ Settled(c)
  /\ \/ /\ evaluator[c] = "running"
        /\ gate' = [gate EXCEPT ![c] = "settling"]
        /\ UNCHANGED log
     \/ /\ evaluator[c] \in Verdict \cup {"raises"}
        /\ gate' = [gate EXCEPT ![c] = "waiting"]
        /\ log' = Append(log, Ev("evaluation_superseded", c,
                                 IF evaluator[c] = "raises" THEN "none" ELSE evaluator[c], "none"))
     \/ /\ evaluator[c] = "malformed"
        /\ gate' = [gate EXCEPT ![c] = "raised"]
        /\ UNCHANGED log
  /\ UNCHANGED <<policy, governed, registry, entry, evaluator, closed>>

\* Mutant: a cancelled evaluation leaves its bracket open.
UnwindSilently(c) ==
  /\ gate[c] = "settling"
  /\ gate' = [gate EXCEPT ![c] = "waiting"]
  /\ evaluator' = [evaluator EXCEPT ![c] = "cancelled"]
  /\ UNCHANGED <<policy, governed, registry, entry, closed, log>>

\* The cancelled evaluator has unwound; whatever it raised or returned is discarded.
Unwind(c) ==
  /\ gate[c] = "settling"
  /\ gate' = [gate EXCEPT ![c] = "waiting"]
  /\ evaluator' = [evaluator EXCEPT ![c] = "cancelled"]
  /\ log' = Append(log, Ev("evaluation_superseded", c, "none", "none"))
  /\ UNCHANGED <<policy, governed, registry, entry, closed>>

\* What a verdict decides: an escalation decides nothing.
DecisionOf(answer) ==
  IF answer = "approve" THEN "approved" ELSE IF answer = "deny" THEN "denied" ELSE "none"

CanConclude(c) == gate[c] = "evaluating" /\ ~Settled(c)

\* The evaluator answered an open question.  Anything but a decision escalates
\* to a person: the gate never fails open.
Conclude(c) ==
  /\ CanConclude(c)
  /\ gate' = [gate EXCEPT ![c] = "waiting"]
  /\ \/ /\ evaluator[c] \in Verdict
        /\ LET decision == DecisionOf(evaluator[c])
               ended == Ev("evaluation_ended", c, evaluator[c], "none")
           IN  IF decision = "none"
               THEN log' = Append(log, ended) /\ UNCHANGED entry
               ELSE /\ log' = log \o <<ended, Resolved(c, decision, "auto_mode")>>
                    /\ entry' = [entry EXCEPT ![c] = decision]
     \/ /\ evaluator[c] \in {"raises", "malformed"}
        /\ log' = Append(log, Ev("evaluation_error", c, "none", "none"))
        /\ UNCHANGED entry
  /\ UNCHANGED <<policy, governed, registry, evaluator, closed>>

\* The wait is over: the call runs or is refused.  A call still pending was woken
\* by the close; the gate denies it and is the one to publish that.
PassGate(c) ==
  /\ gate[c] = "waiting"
  /\ Settled(c)
  /\ LET decision == IF entry[c] = "pending" THEN "denied" ELSE entry[c]
     IN  /\ entry' = [entry EXCEPT ![c] = decision]
         /\ log' = IF entry[c] = "pending" THEN Append(log, Resolved(c, "denied", "close")) ELSE log
         /\ gate' = [gate EXCEPT ![c] = IF decision = "approved" THEN "dispatched" ELSE "refused"]
  /\ UNCHANGED <<policy, governed, registry, evaluator, closed>>

----------------------------------------------------------------------------
(* Decisions and policy changes, from update handlers and message handlers *)

\* Mutant: a relaxation is for the calls to come.
ReleasedNone(p, pending) == {}
\* _apply_policy_update: the pending calls the new policy releases, each published
\* in the order of the registry.
Released(p, pending) == {c \in pending : AutoApproves(p, c)}
Position(c) == CHOOSE i \in DOMAIN registry : registry[i] = c
Rank(c, released) == Cardinality({d \in released : Position(d) <= Position(c)})
Cascade(released) ==
  [i \in 1 .. Cardinality(released) |->
     Resolved(CHOOSE c \in released : Rank(c, released) = i, "approved", "policy")]
Pending == {c \in Call : entry[c] = "pending"}
Allowing(p, t) == [p EXCEPT !.tools = @ \cup {t}]

\* Mutant: a second decision is accepted.
CanRedecide(c) == entry[c] # "none"
\* _validate_tool_approval: neither unknown nor already resolved.
CanDecide(c) == entry[c] = "pending"

\* A tool_approval update that is not remembered.
Decide(c, decision) ==
  /\ CanDecide(c)
  /\ entry' = [entry EXCEPT ![c] = decision]
  /\ log' = Append(log, Resolved(c, decision, "human"))
  /\ UNCHANGED <<policy, governed, registry, gate, evaluator, closed>>

\* Mutant: the cascade is published before the decision that caused it.
RememberCascadeFirst(c) ==
  LET p == Allowing(policy, ToolOf[c])
      released == Released(p, Pending \ {c})
  IN  /\ CanDecide(c)
      /\ policy' = p
      /\ entry' = [d \in Call |-> IF d \in released \cup {c} THEN "approved" ELSE entry[d]]
      /\ log' = log \o Cascade(released) \o <<Resolved(c, "approved", "remember")>>
      /\ UNCHANGED <<governed, registry, gate, evaluator, closed>>

\* Approve and remember: the tool is allow-listed, which releases the pending
\* calls the new policy covers, after the decision that caused it.
Remember(c) ==
  LET p == Allowing(policy, ToolOf[c])
      released == Released(p, Pending \ {c})
  IN  /\ CanDecide(c)
      /\ policy' = p
      /\ entry' = [d \in Call |-> IF d \in released \cup {c} THEN "approved" ELSE entry[d]]
      /\ log' = log \o <<Resolved(c, "approved", "remember")>> \o Cascade(released)
      /\ UNCHANGED <<governed, registry, gate, evaluator, closed>>

\* set_approval_policy, from a handler; a policy that is not installable raises
\* there and changes nothing.
SetPolicy(p) ==
  LET released == Released(p, Pending)
  IN  /\ Installable(p) /\ p # policy
      /\ policy' = p
      /\ entry' = [d \in Call |-> IF d \in released THEN "approved" ELSE entry[d]]
      /\ log' = log \o Cascade(released)
      /\ UNCHANGED <<governed, registry, gate, evaluator, closed>>

\* set_auto_approval_criteria and assign_tool_criteria: for the next gated call.
SetCriteria(g) ==
  /\ governed # g
  /\ governed' = g
  /\ UNCHANGED <<policy, registry, entry, gate, evaluator, closed, log>>

Close ==
  /\ ~closed
  /\ closed' = TRUE
  /\ UNCHANGED <<policy, governed, registry, entry, gate, evaluator, log>>

Next ==
  \/ \E c \in Call :
       \/ Request(c) \/ EvaluatorReturns(c) \/ Supersede(c) \/ Unwind(c) \/ Conclude(c)
       \/ PassGate(c) \/ Remember(c)
       \/ \E decision \in Decided : Decide(c, decision)
  \/ \E p \in Policies : SetPolicy(p)
  \/ \E g \in Criteria : SetCriteria(g)
  \/ Close

Spec == Init /\ [][Next]_vars

----------------------------------------------------------------------------
(* Safety *)

\* A policy in force is one the policy type can represent and the runner agreed
\* to install; the gates hold what the code may put there.
GatesTyped ==
  /\ policy \in Policy /\ WellFormed(policy) /\ Installable(policy)
  /\ governed \in Criteria
  /\ registry \in Seq(Call)
  /\ entry \in [Call -> Entry]
  /\ gate \in [Call -> Gate]
  /\ evaluator \in [Call -> Evaluator]
  /\ closed \in BOOLEAN

\* Every variable holds what the code may put there, the event stream included.
TypeOK == GatesTyped /\ log \in Seq(Event)

Events(kind, c) == {i \in DOMAIN log : log[i].kind = kind /\ log[i].call = c}
Terminals(c) == UNION {Events(k, c) : k \in {"evaluation_ended", "evaluation_superseded",
                                             "evaluation_error"}}

\* A call's decision is published exactly once, as it was taken, whoever took it:
\* the evaluator, a person, a cascade or the close.
PublishedOnce ==
  \A c \in Call :
    /\ Cardinality(Events("resolved", c)) = IF entry[c] \in Decided THEN 1 ELSE 0
    /\ \A i \in Events("resolved", c) : log[i].answer = entry[c]

\* A call whose request was published runs only if its approval was published,
\* and is refused only if its denial was.
DecisionRules ==
  \A c \in Call :
    /\ gate[c] = "dispatched" /\ Events("requested", c) # {}
         => \E i \in Events("resolved", c) : log[i].answer = "approved"
    /\ gate[c] = "refused"
         => \A i \in Events("resolved", c) : log[i].answer = "denied"

\* No call waits for a person that the live policy would let through: every
\* relaxation reaches every pending call.
NoPendingAllowed == \A c \in Pending : ~AutoApproves(policy, c)

\* An evaluation's bracket is opened once the call is requested, is closed by
\* exactly one terminal event, and is closed before the call goes on to wait.
BracketClosedOnce ==
  \A c \in Call :
    /\ Cardinality(Terminals(c)) <= Cardinality(Events("evaluation_started", c))
    /\ gate[c] \notin {"evaluating", "settling"}
         => Cardinality(Terminals(c)) = Cardinality(Events("evaluation_started", c))

\* "A verdict published as ended is one that was ACTED ON": the decision it makes
\* follows it at once; and no evaluator decides without such an event.
EndedIsActedOn ==
  /\ \A i \in DOMAIN log :
       log[i].kind = "evaluation_ended" /\ log[i].answer # "escalate" =>
         /\ i + 1 \in DOMAIN log
         /\ log[i + 1] = Resolved(log[i].call, IF log[i].answer = "approve" THEN "approved"
                                               ELSE "denied", "auto_mode")
  /\ \A i \in DOMAIN log : log[i].ground = "auto_mode" =>
       i > 1 /\ log[i - 1].kind = "evaluation_ended" /\ log[i - 1].call = log[i].call

\* Causal order: a call that no policy of a handler releases is released only
\* after the decision that allow-listed its tool was published.
CauseBeforeEffect ==
  \A i \in DOMAIN log :
    log[i].ground = "policy" /\ (\A p \in Policies : ~AutoApproves(p, log[i].call)) =>
      \E j \in 1 .. (i - 1) :
        log[j].ground = "remember" /\ ToolOf[log[j].call] = ToolOf[log[i].call]

\* What the stream says of a call is what was done with it: the decision, who took it,
\* and that it came before what followed from it.
StreamIsTrue == PublishedOnce /\ DecisionRules /\ EndedIsActedOn /\ CauseBeforeEffect

\* The first decision stands: no second answer changes it, and once the agent is
\* closing the evaluator decides nothing.
FirstDecisionWins ==
  [][/\ \A c \in Call : entry[c] \in Decided => entry'[c] = entry[c]
     /\ \A i \in DOMAIN log' \ DOMAIN log : closed => log'[i].ground # "auto_mode"]_vars

\* "set_approval_policy(approval_policy.with_auto_mode(False)) hands every gated
\* call back to the human gate": with auto mode off no evaluator decides a call.
AutoModeOffIsOff ==
  [][\A i \in DOMAIN log' \ DOMAIN log : log'[i].ground = "auto_mode" => policy.auto]_vars

----------------------------------------------------------------------------
(* Liveness.  The event loop resumes a gate whose condition came true, and a *)
(* cancelled evaluator unwinds.  Nothing obliges a person or an evaluator to *)
(* answer.                                                                   *)

Fairness == \A c \in Call :
  WF_vars(Supersede(c)) /\ WF_vars(Unwind(c)) /\ WF_vars(Conclude(c)) /\ WF_vars(PassGate(c))

FairSpec == Spec /\ Fairness

\* A decided call leaves its gate even while its evaluator has not answered, and
\* closing frees the others: none is left waiting for an answer, or for an
\* evaluator, that the turn being drained would wait for.
GatesAreFreed ==
  \A c \in Call :
    gate[c] \in Busy /\ (closed \/ entry[c] \in Decided) ~> gate[c] \notin Busy
=============================================================================
