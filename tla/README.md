# A verification project for temporal-agent-harness

The repository runs AI agents as Temporal workflows. This directory holds TLA+
modules that model the parts of it whose correctness depends on the order in
which things happen, the TLC configurations that check them on small
instances, and proofs, checked by TLAPS, of the results that hold for every
instance. Paths below are relative to `src/python/temporal_agent_harness/harness/`
unless they start with `src/`.

## 1. Inventory

### The agent turn runner (`agent_workflow.py`)

*State.* `_WorkflowStatus` keeps the turn counter, the id of the open turn, a
count of its participants and the queue of admitted messages without a turn;
`AgentWorkflowRunner` keeps the list of joins not yet spawned, the steering
messages nobody has claimed, the close flag and reason.

*Operations.* The update `send_agent_message` (validator, handler), the signal
`close`, the turn loop `run`, a task per participant, `steer` and
`claim_steering`, the hooks `@agent.setup` and `@agent.teardown`, and
the cancellation of the workflow.

*Interaction.* Everything runs on one event loop. Update and signal handlers of
a workflow task run before any wait condition is looked at, so the loop may
find any number of admissions and a close at once when it wakes.

*Hard.* A join racing the end of the turn it joins; the number promised to a
queued message; a message or a close in the same workflow task as the idle
timer; close while joins wait to be spawned; cancellation while participants
run on.

*Correct when* turn brackets never overlap, `turn_end` means quiescence, every
sender is told the turn its message really runs in, steering is settled
exactly once, queued messages are run, idle agents close and closed agents
complete.

### The tool-approval gate and auto mode (`agent_workflow.py`, `agent_protocol/agent_interface.py`)

*State.* The live policy, the live criteria, one `_ApprovalEntry` per gated call
and, per call, a task that is somewhere inside `_apply_approval_policy`
and perhaps an evaluator task.

*Operations.* The gate itself, the update `tool_approval` (with `remember`),
`set_approval_policy`, `set_auto_approval_criteria`, `assign_tool_criteria`, close.

*Hard.* Four parties may settle a gate: the evaluator, a person, a
cascade of another decision, the close. The gate learns of it a task later,
and the evaluator may or may not have finished by then.

*Correct when* each call is decided and published once, as decided; the first
decision stands; each evaluation bracket is closed by exactly one event; a
cause is published before its effects; nobody waits at a gate for an answer
that has been given or will never come.

### Callback tools (`agent_workflow.py`)

*State.* One `_CallbackEntry` per call. *Operations.* The gate
`await_callback_result`, the update `provide_callback_result`, the timeout,
the close. *Hard.* The timer fires, and a result is accepted before the gate's
task runs. *Correct when* a client that was told its result was accepted sees
the tool end with it, and no parked call outlives the agent or its timeout.

### Subagents (`agent_workflow.py`, `subagent_toolset.py`, `subagent_activities.py`)

The parent keeps one `_SubagentInstance` per child with a FIFO gate of
tickets; `run_subagent_turn` takes a ticket, runs an activity that sends one
message to the child, follows the child's stream to the end of the turn and
heartbeats a resume memo; `stop_subagent` closes and forgets a child.
*Hard.* Crash and retry of the activity at every point, a stop beside a
running turn, a waiter that is cancelled, a child that closes before the queued
turn opens. *Correct when* a message is sent once, its reply is not lost, turns
of one child never overlap, and every turn ends.

### Stream merge and the client (`stream_merge/`, `agent_client.py`)

A client follows an agent and, recursively, its subagents, and merges their
streams so that causes come before effects. State: one cursor per stream, the
gates that hold events back, deadlines after which a gate is given up.
*Interaction.* It reads the streams of the workflows, one subscription each, in
asyncio tasks beside the loop that emits; a consumer pulls the result. *Hard.*
Late and missing markers, streams that end early, hang or cannot be read, a child
that comes back after it was given up on, attaching in the middle of a turn, reads
that finish while the loop is elsewhere. *Correct when* causes are shown before
effects, each stream keeps its order, what cannot be shown is said, and no child
keeps its parent's events back.

### Declared state (`state/`)

Typed state an agent declares: an immutable value changed through a *draft* inside a
`mutate()` block, rebuilt from the nodes marked dirty when the block ends, discarded
whole when it raises, and published as JSON patches. *Hard.* Draft nodes are made
when they are read and keep the place they were read from, which every structural
change of a list moves; two coroutines with a block each; what is published before
the state is attached to the stream; a client that attaches again anywhere. *Correct
when* a client's copy is the value of the version it claims.

### Code mode (`code_mode/`)

A sandboxed script whose tool calls run concurrently. The stepper runs the script from
one awaited batch to the next; the driver starts a task per call, waits for the
batch and resumes the script with its outcomes. *Hard.* A limit on the time of a step,
whose verdict must not be taken again on replay; a sandbox that crashes on replay only;
calls the script never awaits; a cancellation; a worker lost between two steps. *Correct
when* awaited calls run once, a script that is over leaves nothing running, and a replay
rebuilds the same state.

### Files of scripts (`code_mode/vfs.py`, `code_mode/builtin_filesystems/`)

Each operation of a script (`open`, `Path.rename`, ...) is a sequence of `fs_*` tool
calls on a backend, each behind the approval gate. *State.* The tree of the in-memory
backend with its budget and its seed; the index of what a session has seen of a
backend made of activities. *Hard.* A refusal, another script or a lost attempt
between two calls of one operation. *Correct when* the mount stays a tree, an
operation is whole or has not happened, and the index says what is so.

### UI connector (`src/nexus/ui_connector`, Go)

`RouterWorkflow` starts a turn, polls the agent driver for its events and delivers each
batch; the timeline folds the batch into the messages of a chat platform, streamed while
that works, posted otherwise. *Hard.* Every call of the platform may fail; text is held
until it can be split well; a message is closed when it is full, with cards in
it that are still changing; a delivery fails half way and is made again from an
older state. *Correct when* the thread shows what the agent said, once and in order, the
last that is seen of a card is its last state, and nothing is left open.

### TypeScript client (`src/typescript/packages/client`)

`session.ts` keeps one connection to an agent's stream: connect, retry with a budget,
fall idle with the agent, wake up by a send or the idle poll. The sends of the client
appear in the reply and on the stream, in either order. `shareAcrossTabs` lets the tabs
of a browser share one connection: the holder of a Web Lock attaches and relays over a
`BroadcastChannel`. *Hard.* A stopped connection that has not noticed; a stream that
ends while work is accepted; a tab that joins, stops or crashes while frames are
being relayed; a leader that dies with a tool call waiting. *Correct when* what the
agent did is shown in the end, in every tab, and a send is accounted for once.

### The rest

The MCP gateway (`src/nexus/mcp`), the Nexus agent adapter and the AI SDK adapters
translate calls; the web layer is a registry of sessions and an HTTP surface; codegen,
React and Svelte bindings render. They keep no state that actors race on. See section 8.

## 2. Plan

| order | modules | models | theorems worth proving | state |
|---|---|---|---|---|
| 1 | `AgentSession`, `AgentRunner`, `AgentRunnerProofs` | turns, admission, close | the turn invariant; refinement of the session; the event stream | checked and proved |
| 2 | `ToolApproval`, `ToolApprovalProofs` | approval gate and auto mode | no pending call allowed; the event stream; the first decision stands | checked and proved |
| 3 | `CallbackGate`, `CallbackGateProofs` | callback tools | types, accepted result stands, one resolution | checked and proved |
| 4 | `SubagentTurns`, `SubagentTurnsProofs` | FIFO gate, stop, the activity with its crashes and resumptions, against an `AgentSession` child | mutual exclusion at the gate, brackets in order, what the parent is told | checked and proved |
| 5 | `StreamMerge`, `StreamMergeProofs` | the merge of a parent's and its children's streams | causal order of what is released | checked; types and causal order proved |
| 6 | `DeclaredState` | drafts, patches, a client's copy | the history of versions | checked |
| 7 | `CodeMode`, `CodeModeProofs` | stepper, driver, replay | replay rebuilds the driver; nothing runs on | checked and proved |
| 8 | `ScriptFiles`, `ScriptFilesProofs` | file operations on both backends | the mount stays a tree; a mount changes last; the index is true; an operation is whole | checked and proved |
| 9 | `ClientSession`, `ClientSessionProofs` | attach, sends, reconnection | sends are settled once | checked and proved |
| 10 | `Tabs` | tabs that share a connection | follower and leader agree | checked |
| 11 | `Connector` | router, timeline, platform | order of what is shown | checked |

Open, in this order: the proofs of `NothingIsLost`, and for `Tabs`, `DeclaredState` and `Connector`; `start_subagent` with several
children; a timed-out attempt of the subagent activity that runs on beside its
successor; the composition of `SubagentTurns` with `StreamMerge`, which meet in the
parent's stream: the brackets the first publishes are what the second gates on. For now
the scenes of `MCStreamMerge` are such histories, written by hand.

## 3. Modules and the code

All modules take one action to be the code between two awaits of one task: a
Temporal workflow and its update and signal handlers run on one deterministic
event loop, and nothing else can happen in between. An operator whose comment
begins with *Mutant* is not part of the specification: it is a plausible mistake
in the code that the property named for it in `PROJECT.json` must detect.

### AgentSession: what senders are promised

A turn is the time during which some message is active. A message joins the open
turn, or takes the next slot and opens the turn of that number. This module has
none of the code's machinery. It serves twice: as the specification `AgentRunner`
is shown to implement, and as the child in `SubagentTurns`.

### AgentRunner: how the promise is kept

| variable | in `agent_workflow.py` |
|---|---|
| `phase` | where the main task is: `@agent.setup`, one of the three waits of `_wait_for_work`, the drain, teardown, the end |
| `closeReason` | `_WorkflowStatus.close_reason`, and `_closed` |
| `currentTurn`, `currentTurnId`, `participants` | `_current_turn`, `_current_turn_id`, `_turn_participants` |
| `pending`, `joining` | `_pending_turns`, `_joining` |
| `ready`, `task` | asyncio tasks created and not started; where each message's participant is |
| `admission` | the `_Admission` record |
| `steering`, `log` | `_steering`; the events published through `_pub` |

`AdmitJoin` and `AdmitQueue` are the update handler with its validator;
`RunLoop` and `IdleTimeout` are what the loop does when its wait ends, by its
condition or by its timer; `Dispatch` is the loop body; `StartHandler`,
`FinishHandler` and `AbandonHandler` are a participant's prologue, epilogue and
its epilogue when a cancellation escapes. The loop's wait is evaluated after all
handlers of a workflow task have run, which the model has by letting `RunLoop`
lag behind. `message_handler_end` stands for both of the ways a handler ends.

### ToolApproval: who settles a gated call

`policy` and `governed` are the live policy and the tools the live criteria have
rules for; `registry` the insertion order of `_approvals`, and `entry` their
status; `gate` where each call is in `_apply_approval_policy` and
`_await_auto_approval`; `evaluator` the task of its evaluator. `Request` is what a
call meets first; `EvaluatorReturns`, `Supersede`, `Unwind`, `Conclude` and
`PassGate` are the race between the evaluator and everybody else, and the gate
going on; `Decide` and `Remember` are the `tool_approval` update without and with
`remember`; `SetPolicy` and `SetCriteria` are the handlers' own changes. The
calls a change releases are resolved and published in registry order (`Cascade`, which places each
released call by its `Rank` among them).
Criteria are reduced to the set of tools they cover, since nothing else of
them reaches the gate; an evaluator answers from a set given by the configuration.

### CallbackGate: a tool call a client answers

`Park`, `Provide`, `TimerFires`, `Close` and `Resume` are `await_callback_result`
up to its wait, the `provide_callback_result` update, the timer, the close signal
and the rest of `await_callback_result` together with the tool event that follows
in the same step. The timer firing and the gate resuming are two actions: an
update may come between.

### SubagentTurns: a parent, an activity and a child

| variables | code |
|---|---|
| `call`, `ticket`, `nextTicket`, `serving`, `offset` | `run_subagent_turn` of the runner, and the `_SubagentInstance` of the child |
| `registered`, `stop`, `closed` | the registry, `stop_subagent`, `_closed` |
| `markers` | `subagent_message_sent`, `subagent_reply_received` and `subagent_stopped` on the parent's stream |
| `attempt`, `position`, `verdict` | the current attempt of `SubagentActivities.run_subagent_turn` |
| `memo` | the last recorded heartbeat |
| `turn` ... `stopped` | the child, an instance of `AgentSession` |
| `childLog` | handler terminals and turn ends on the child's stream |

`LoseTurn` is a send that a handler started and did not wait for: when its ticket comes up the
parent's turn may be over (`NoActiveTurn`), and it fails before it reaches the activity.
`Submit` uses the child's `Admit`: using the abstract session for the child is
justified by the theorem `Refinement` below. `Crash` loses the attempt with
everything but the memo; a later attempt starts at `Resume` or, without a memo, at
`Submit`, where the update id gives it the first acceptance back. What the
activity has read and not yet used (`verdict`) dies with the attempt, which is the
point of `subagent_lostreply`.

What is taken from outside the repository: Temporal returns the first outcome of
an update when it is sent again under its id; a stream subscription ends when the
workflow it reads has ended; a heartbeat records the details as they are when
`activity.heartbeat` is called, so that none is recorded behind the end of the
turn; one attempt runs at a time.

### StreamMerge: one stream out of many

| variables | code |
|---|---|
| `scene` | what the streams hold, how reading them ends, where the merge starts and stops |
| `pc`, `outcome`, `waitingOn` | where `_drive` is, why it ended, the reads in its `asyncio.wait` |
| `cursors` | `_cursors`: position, buffered `head`, `pull_task`, `exhausted`, `error` |
| `opened`, `ended`, `gone` | the three sets of `Gates` |
| `deadlines`, `pending`, `resume` | `_stall_deadlines`, `_pending_markers`, `_root_resume_offset` |
| `emitted` | what the consumer has got |

The merge writes no stream, so a *scene* fixes the histories in `Init` and a read
may return at any time; that covers streams that still grow, because a
history is one the harness can have written and no read is obliged to return.
`Emit` is a pass of `_drive` up to the `yield`, the `ResumeFrom...` actions are what
follows it (`on_emit`, mounting, unmounting, `should_stop`); `GiveUpHopeless`,
`Wait`, `GiveUpStuck` and `Finish` are the four ways a pass without a candidate
goes on; `Collect` and `Timeout` are the two ways its wait ends. `PullEvent`,
`PullEnd` and `PullFails` are the read tasks. They run only where `_drive` suspends:
at its wait, at its `yield`, and in the `aclose` of a cursor whose read is
cancelled. In a *tight* scene no read happens to finish in the last two. The
difference matters: see `merge_earlyend`.

The select policy is left open, any candidate may be emitted, so the safety
properties hold for `select_live`, `select_replay` and any other. `should_stop` is
that of `send_message`; that of `attach` asks the agent's status, which is not part
of the model. Markers are a set, since their order among each other says nothing.

### DeclaredState: drafts, patches, a client's copy

The value is a list (`groups`) and a dict (`index`) of one kind of model with one field,
the least that has an operation of every kind: at a container, at a place in one, at a
field behind a place. A group is its name.

| variables | code in `state/` |
|---|---|
| `current`, `version`, `attached`, `open` | `StateRef`'s `_current`, `_version`, `_publish`, `_open` |
| `draft` | the draft tree of a coroutine's block: working containers (`work`), draft nodes with their `DraftMeta` (`nodes`), dirty containers, recorded operations |
| `stream` | snapshot and patches as published |
| `doc`, and where it reads | a client's fold (`client/src/state.ts`), which may attach again anywhere |

`Read` wraps a group in a node; `ChangeList`, `ChangeDict`, `ChangeField` are the
methods of `ListDraft`, `DictDraft` and model drafts, each with its re-keying, dirty
marks and patch; `ExitCommit` and `ExitDiscard` are `__exit__`. `Careless` names the things
authors may do that the state layer does not follow (section 7); with `{}` they do
none of them.

### CodeMode: one script

The script is any program: `Stop`, `Finish` and `StepAborts` choose what a step does when it
first runs, and `program` remembers it, as the sandbox is deterministic. `driver` is what a
worker holds in memory (`run_script` and `ScriptRun`); `program`, `marker`, `task` and
`asked` are in the workflow's history and outlive it. `Cancel` is one step when the batch is
over, and two when it is not: `gather` cancels the awaited calls, the driver waits for
them, and `TearDown` cancels the others when the last has come back.

`Evict` loses the driver, `ReplayStep` rebuilds it from program and markers, `CatchUp` is the
end of the replay. Two things can go wrong on the way. A step that *overruns* is the
deadlock detector's, which fails the workflow task before the driver's own backstop ends the step
(`monty_stepper.py:120`): `ReplayFails`, and the next task starts over. A step whose sandbox
*crashes* makes `_step` raise (`driver.py:205`), which ends the driver: `ReplayRaises`. The error
goes up through a tool that runs inline in the workflow, so that it becomes a failed
tool call and not a failed task (`agent_workflow.py:4142`, and `3160` for what the agent's handler
lets through). Then either the agent's next commands are not those in the
history, which Temporal notices (`ReplayFails` again), or they are, and the workflow goes on
with the error in place of the outcome (`Depart`). The model does not know which calls leave
commands, and takes either for possible at any step; what the workflow does after a departure
is not followed, nor is it lost once more.

`past` is a history variable: the driver as each step left it on the original run. It is
what `ReplayAgrees` compares with. Of a driver that raised it says that it is the one
before the step that crashed, ended; that the script's outcome is then lost is in section 7.

### ScriptFiles: file operations

`Perform` maps an operation and the answers it has seen to its next `fs_*` call or to its
end (`vfs.py`); `Call` is the in-memory backend, which the model also takes for what an
activity backend does to its mount. `Begin`, `Denied`, `RunSeed`, `Seeded`, `CallMemory`
are an operation on workflow memory; `Send`, `Attempt`, `Lose`, `Report` on a backend of
activities, where an attempt that has done its work may be lost before it is reported.
A file is its size. A *scene* fixes the backend, the scripts, the operations they may
call, the seed and the faults (`SceneAssumption` gives their types). `Missing` is the list `_mkdir` makes
of the ancestors that were not there.

### ClientSession: one connection

| variables | code |
|---|---|
| `log`, `queue`, `active`, `turn`, `closed` | the agent, as a client can see it; every message is a turn |
| `runs`, `run`, `wake` | invocations of `#connect`, `#run`, `#wake`; a stopped one runs on until it notices |
| `observed`, `hidden`, `connection` | `#observed`, the page, `ConnectionStatus` |
| `resume`, `busy`, `lastTurn`, `rows`, `pending`, `touched` | the projection and what a flush has to report |
| `sends`, `sent`, `finished` | `#submits`, the fate of a send, the calls of `onFinish` |

`Attached` and `ShouldStop` are `attach` of `agent_client.py` and its `should_stop`: the
decision, from the status and the stream, whether there is anything to show and
where to stop. `Open`, `Receive`, `StreamEnds`, `Checked`, `BackoffOver` and `Poll` are
`#connect` between its awaits; `Fails` and `Cut` are an error and a silent end of
the stream; `EnsureLive` is the wake-up by a send. Outside the repository: a browser
rejects an aborted request before it delivers anything else (`Quiet`).

### Tabs: sharing a connection

`role` is what `#tabs` says of a tab, `waiting` the requests for the Web Lock in order,
`inbox` what the channel has for a tab, `stream` the leader's `#connect`, `heard` its
`tabs.visible`. `Start`, `Granted`, `Stop`, `Crash` are `#joinTabs`, the grant, `#leaveTabs` and
the death of a page; `Relay` is `#relayed`; `Attach` to `Poll` are the leader's connection,
of which only what the other tabs can tell is kept: how an attach fares is the subject
of `ClientSession`. A frame is its position in the log.

From the HTML specification: a message is queued at once with every other open
channel and handled in a task of its own, and so is the grant of a lock; a lock is let go of
when its page dies. A follower flushes at once, as nobody can tell when it
does. A send that is accepted and returns is one step: a crash in between is a send of
another client. A page that is loaded again is another tab.

### Connector: router, timeline, platform

`Start`, `Poll` and `PollEnds` are `RouterWorkflow.Run` with the agent driver's `Start` and
`Poll`; `PlaceTail`, `TakeText`, `TakeOther`, `Place` and `Applied` are one `Apply` of the
timeline, event by event; `Ended` is `End`; `DeliveryFails` loses the state of
a delivery and keeps what it has shown. `work` is `timeline.State` with its
segment, `saved` the state the router goes on from. The platform is external: `thread` is
the messages it shows. A call fails without effect; `failed` remembers the kinds
that did, which the properties need: what is promised after a failed post is less
than what is promised after a failed append. A piece of text is its position in the log;
`SplitText` may choose any split its contract allows (`Plans`). `said` and `cards` are
history variables: what the timeline has taken, and the cards with their last state.

## 4. Runs

| run | instance | shows |
|---|---|---|
| `runner_turns` | 4 messages (two join, one queues, one rejects), idle clock, cancellation, escaping cancellations | `TurnAccounting`: the refcount is exact, messages in a turn were promised it, the queue's slots hold; `MessagesAreRun`, `AgentEnds`: queued and joined messages are run, idle agents close, closed agents complete |
| `runner_stream` | 3 messages, 1 steering message, with the event log | `StreamWellFormed`: brackets never overlap, `turn_end` means quiescence, handlers start in order of admission, `agent_closed` is last; `SteeringSettledOnce`; `ImplementsSession`: the runner implements `AgentSession` |
| `approvals` | 2 calls of one tool, auto mode switched on and off, criteria swapped, approvals remembered | `StreamIsTrue`: one published decision per call, as it was taken, causes before effects; `BracketClosedOnce`; `NoPendingAllowed`: what a remembered approval allows reaches the other call; `FirstDecisionWins`; `GatesAreFreed` by a close and by a decision |
| `callbacks` | 2 calls with a timeout, 1 without | one resolution per call, an accepted result stands, every parked call ends that can |
| `subagent_turns` | 2 sends, 1 message of another sender | brackets in order; `ParentIsTold`: outcomes are true of the send's own message and `subagent_stopped` agrees with the registry; every send ends |
| `merge` | 3 streams, 8 scenes, each tight and not | `CauseFirst`: a child's event comes after the message that caused it; `NothingIsLost`: a reply comes after the child's turn or after word that it is not shown, streams keep their order, in tight scenes nothing readable is left unread; children are given up on with cause; the root's events flow |
| `state` | 2 coroutines, 2 groups in a list and 1 in a dict | `ReplicaAgrees`: a client's copy is the value of the version it claims; `DirtyIsWhole`: a commit rebuilds what the author sees, and records operations exactly when something is dirty; `StreamIsHistory` |
| `client` | 1 send of the client, 1 of another, 2 troubles | `SendsAreSettled`: shown once and reported; `LogIsRead`: what the agent did is shown in the end; `IdleTurnIsSeen`: an agent that is idle is seen to be |
| `tabs` | 2 tabs, 1 piece of work with a callback, 1 trouble | `FollowersAgree` with the leader once the channel is read; `WaitingIsDispatched`: a call left waiting is run by the next leader; `NewsReach` every tab |
| `connector` | every reply of up to 3 events of all kinds and longer ones of few, 1 kind of call that fails, 2 over replies of up to 2 events | `ThreadIsFaithful`: text, prompts and notices once and in order, cards with their last state; `NothingIsLeftOver`; `RunEnds` |
| `files` | 6 scenes: both backends, seeds that fit or do not, refusals, lost attempts, two scripts | `TreeIsWhole`; `OperationIsWhole`: an operation does what it means or raises and changes nothing; `ChangesLast`; `IndexIsTrue` |
| `codemode` | 3 calls, two of them gated, 3 steps, 2 replays that may overrun or crash | `AwaitedOnce`; `NothingRunsOn`, after a departure too; `ReplayAgrees`: the original run's driver at every step of a replay, or one that ended where the sandbox crashed |

**Bounds.** Two messages joining are needed for the refcount to reach 3 with the
opener, a queued one for a slot promised across a turn, and a rejecting one for
the validator; with these every disjunct of `Next` fires and each mutant is found
within a few steps. A steering id is minted once, so one is enough for "exactly
once" and two or more only add interleavings. Two approval calls are the least that
a cascade and a race for the log need, a third tool would behave as one of the
two. `MaxCrashes` and `MaxDisturbances` (in `MCSubagentTurns`) bound a run to one
lost attempt and to two disturbances of any kind: every pair of a loss,
cancellation, lost turn, stop, close, termination and foreign message is explored, triples
are not. The constraint only removes behaviours with more disturbances; no step
that fairness speaks of is a disturbance, so it hides no counterexample among
those it keeps.

The scenes of `MCStreamMerge` are the histories the merge's tests and comments tell
apart: two children at once, a child's child, a child sent to again after an errored
turn, a child stopped in its turn, an attach inside a turn, a submission that skips
to its turn, and a child with a turn of another sender. In them children hang, end
early and fail; every history is finite, so nothing is cut off by a bound.

In `state`, two groups and a bound of three let a place lie before, at and behind another
when a list changes; `MaxWrites` 2 per behaviour is a change and one that meets what it
left, in the same block or the next; `MaxVersion` 2 has a client resume between two
patches. In `codemode` three calls are one awaited, one left running and one awaited in a
later step; two replays are one that fails and one that succeeds. In `files` the paths
of `EveryOp` lie above, below and beside each other, and `MaxBytes` 1 lets any second file
meet the budget. In `connector` a message holds one piece of text, or two cards (`MaxChars`,
`MaxCards`), so that every reply of interest spans several; `FewFaults` lets one *kind*
of call fail, as often as it likes, and two kinds, in one step or not, over replies of up to two
events and their end. That is enough to have a message open, an append to it fail and
the next message fail to open, with a card running in it: the mutant `FlushUnlessOpenFails` is found
only so. `approvals` has no policy that lets through what another does not, so that
whatever the stream says the policy released, a remembered approval did: TLC sees a relaxation by
`Remember` only. What a handler's own change of policy releases rests on the theorem
`NoneLeftWaiting`; TLC agrees on an instance with a call of each of two tools and policies that relax
one another in every way a policy can, kept as `ToolApproval_relaxed.cfg` (a few seconds).

`client` and `tabs` bound what the environment does (`MaxTroubles`): drops, cuts, stops,
crashes and changes of visibility, two of any kind in the first, one in the second. `Run` has
a place for every invocation of `#connect` that the stops can leave about. The safety properties
of `tabs` also hold with two troubles (`SPECIFICATION Spec` and `MaxTroubles = 2`; some
minutes). In both the agent itself, the sends and the channel are not bounded by it.

**VIEW and SYMMETRY.** `WithoutLog` drops `log` from the fingerprint in `runner_turns`, whose
properties do not look at it and whose actions do not read it (`AgentRunner`
reads it only to mint steering ids, of which that run has none). Symmetry is used
without liveness only: the coroutines of `state`.

**Deadlock** is not checked, `files` apart. The modules describe systems that come to rest: a
workflow that completed, calls that are all over, a parent whose sends have ended.
That nobody comes to rest too early is what the liveness properties say. Scripts in
`files` can always begin another operation.

## 5. Fairness

`AgentRunner!Fairness`: the event loop runs every ready task (`RunLoop`,
`StartHandler`, `Drain`), an armed timer fires (`IdleTimeout`), and the author's
setup, teardown and handlers return. The last is a premise about code outside the
harness; without it nothing can be promised. Nothing is assumed of senders,
of `close` or of cancellation.

`ToolApproval!Fairness` and `CallbackGate!Fairness`: a gate whose wait condition
is true is resumed, an evaluator that was cancelled unwinds, an armed timer fires.
Nobody has to decide or to submit.

`SubagentTurns!Fairness`: the parent's event loop and the activity's steps go on,
the child's handlers end, its queue is served and it completes once closed and
drained. The last is `CloseCompletes` of `AgentRunner`, with the exception that
`AgentRunner_lostjoin.cfg` shows: a child that hangs this way hangs its parent's send.
Crashes, heartbeats, cancellations, lost turns and closes are not fair.

`StreamMerge!FairSpec`: the loop runs and the consumer comes back to it, time passes,
and the root's stream is read. Nothing is assumed of a child's stream: that the
root flows all the same is the point of the stall deadlines. `RootFlows` speaks of
tight scenes only, since in the others the loop may end early.

`ClientSession!FairSpec`: each invocation of `#connect` goes on (its requests return, its timers
fire), the agent starts and ends its turns, and a submit that was made settles.
Nothing is assumed of users, failures and the close; `LogIsRead` excepts a session
nobody watches and one whose retries are used up, which say so in `connection`.

`Tabs!FairSpec`: tasks run, the lock is granted, the agent works, a tool that runs answers.
`NewsReach` supposes that some tab stays that is shown, for otherwise polls stop by design.

`Connector!FairSpec`: `WF_vars(Step)`, the router and its activities go on. Of failures nothing
is assumed.

## 6. Proofs

| theorem | states, for every value of the constants |
|---|---|
| `AgentRunnerProofs!TypeCorrect` | `Spec => []TypeOK` |
| `AgentRunnerProofs!TurnInvariant` | `Spec => []TurnInv`, the inductive invariant |
| `RefcountTheorem`, `HoldersTheorem`, `SlotsTheorem` | `[]RefcountExact`, `[]HoldersShareTurn`, `[]SlotsReserved` |
| `TurnAccountingTheorem` | `[]TurnAccounting`, the conjunction that `runner_turns` checks |
| `SteeringTheorem` | `Spec => []SteeringSettledOnce` |
| `StreamTheorem` | `CancelEscapes = FALSE`: `Spec => []StreamWellFormed` |
| `Refinement` | `Spec => ImplementsSession` |
| `ToolApprovalProofs!GatesTheorem`, `NoneLeftWaiting` | types of the gate; `[]NoPendingAllowed` |
| `StreamTheorem`, `DecisionsTheorem` | `[]StreamIsTrue`, `FirstDecisionWins` |
| `BracketTheorem` | no `"malformed"` answer of an evaluator: `[]BracketClosedOnce` |
| `CallbackGateProofs!TypeCorrect`, `AcceptedTheorem`, `ResolutionTheorem` | `[]TypeOK`, `AcceptedStands`, `[]ResolutionRules` |
| `SubagentTurnsProofs!TurnsInvariant` | `Spec => []IInv`, the inductive invariant |
| `BracketsTheorem`, `ToldTheorem` | `[]BracketsInOrder`, `[]ParentIsTold` |
| `StreamMergeProofs!TypeCorrect`, `CauseTheorem` | `[]TypeOK`, `[]CauseFirst` |
| `ClientSessionProofs!SendsTheorem` | `Spec => []SendsAreSettled` |
| `CodeModeProofs!CodeModeInvariant` | `Spec => []IInv`, the inductive invariant |
| `AwaitedTheorem`, `UnwindTheorem`, `ReplayTheorem` | `[]AwaitedOnce`, `[]NothingRunsOn`, `[]ReplayAgrees` |
| `ScriptFilesProofs!TreeTheorem`, `ChangesTheorem` | `SoundSeeds`: `[]TreeIsWhole`, `ChangesLast` |
| `IndexTheorem`, `WholeTheorem` | `SoundSeeds`: `[]IndexIsTrue`, `[]OperationIsWhole` |

**The turn invariant.** `RefcountExact` is not inductive: that `leave_turn` and
`join_turn` keep the count right needs that the message leaving was counted and
the one joining was not, that is, that the hand-off queues hold each message once
and only messages in that state (`QueuesMatchTasks`). Then `HoldersShareTurn`
follows for a message that opens a turn only because its slot was reserved with the
number the turn gets (`SlotsReserved`), and this survives `Drain` and teardown
only because they come with no participants (`PhasesConsistent`). `TurnInv` is
their conjunction. It assumes that `Message` is finite, since the refcount is
compared with a cardinality.

**The refinement.** The session's variables are functions of the runner's state
(`Session` in `AgentRunner`). With `TurnInv`, an admission is `Admit`, a pass of the
loop that opens a turn is `OpenTurn`, a participant's epilogue is `Finish`, the
first close is `Close`, and the drain is `Stop`: there `PhasesConsistent` gives that
no message is active. Every other step leaves the session's variables alone, the
spawning of a join among them, because a join holds the turn from its admission.

**Steering.** A steering message that was enqueued is in the queue or was settled, and never both:
`SteeringInv` says so of the queue and the log together. That it is settled by the end of its turn needs that `turn_end`
carries the number of the open turn and comes behind the `steering_dropped` of what is left in the
queue; turns that ended have smaller numbers than the open one (`NumbersInv`).

**The agent's stream.** `StreamWellFormed` is four statements about the log, none of them
inductive. `BracketInv` ties the log to the runner: the open turn has started on it and not ended,
every other that has started has ended, and a number not reached yet does not occur. `AcceptInv`
ties an acceptance to the admission it published, with the turn it promised, and the events of a
handler to the state of its task. With `TurnInv` the participant that brings the refcount to
zero is the last member of `Holding`, and every other message accepted into its turn has ended: that is
quiescence. Order of starts needs that `ready` and `joining` are in the order of admission and
that nothing in them was admitted before something that has started (`OrderInv`); `ClosedIsLast` that
a runner whose stream is closed takes no step that publishes (`ClosedInv`, `OverIsSilent`).
The hypothesis `CancelEscapes = FALSE` is that of the run: a handler out of which a
cancellation escapes publishes no end of its message, and the quiescence is not to be seen on the
stream. `SteeringTheorem` and the turn invariant do not need it.

**The approval gate.** `NoPendingAllowed` is inductive beside the types: a
policy becomes live in the same step in which every pending call it approves
is released, so a pending call is one the live policy gates; a call becomes pending
only by asking the live policy.

**The approval stream.** Every step publishes a run of events (`Publishes`) that is itself true: it
resolves a call only as it decides it, and a verdict is followed by the decision it makes. `Ranks`
gives that a cascade lists each released call once, in the order of the registry: the ranks of the
released calls are a bijection onto `1 .. n`, which finite cardinalities alone give. The
invariant counts: a decided call has one resolution in the log, with its decision, and any other has none;
a gate inside an evaluation has one start and no terminal, outside it both or neither.
`BracketTheorem` assumes that no evaluator answers with a wrong type, as the run does;
section 7 shows what such an answer does. The other theorems hold with it.

**Subagent turns.** The gate holds one running send, whose ticket is the one served, and a send that was
answered has a smaller one (`GateInv`): hence the brackets do not overlap. That an attempt
which starts at `Resume` may rely on the memo needs that a memo, an answer and an attempt that reads
all imply an announced bracket (`ActivityInv`), of the turn the child gave the send (`MarkersInv`);
that an outcome is true of the child, that what an attempt has found stands on the child's stream
(`EvidenceInv`) and that the stream only grows. No bound on losses is used.

**The callback gate.** The invariant of `ResolutionTheorem` states of the log what
the entries remember: a call in a final status has exactly one resolution in the
log, with that status as its outcome, and any other has none. With it the end the
gate publishes finds its resolution in the log already.

**The merge.** `CauseFirst` speaks of what was shown and the gate of the set `opened`;
`OpenedBySent` ties the two: a turn is in `opened` only if a message that causes it
was shown. It holds because what was shown stays where it is, and because `opened`
grows only when the consumer has returned from a message. The types need that
what is buffered or shown lies within its stream's log (`InLogs`). The theorem is for
every tree of agents, every history, select policy and failure of reads.

**Code mode.** `ReplayAgrees` compares one driver with one entry of `past`, and is not
inductive: a replay that stands at step *k* goes on to *k* + 1, and that it then agrees with the
original run needs that the whole history does. The invariant says that each entry of `past` is
what `After` makes of the entry before with the step's program and marker, and that
the driver is the last of them while live, one of them while it replays (`OnTrackInv`). Then a
replayed step moves from one entry to the next by the same function of the same arguments, which
is the whole argument for the marker: the abort of a step is an argument and not decided anew.
A sandbox that crashes on a step that had run to its end is the case the marker does not
cover: the driver is what `After` makes of an entry with another argument, `"raised"`
(`RaisedInv`), and it is off the history for good. The theorem states this case beside
the other; it does not say that a caught-up driver always stands where the lost one stood,
which is false (`CodeMode_crashed`, section 7). `DepartedInv` is what a departed driver leaves: it
cancels what it was running, and the calls made later in the history, which it never made,
are nobody's. That no call of an *earlier* step escapes it needs that it stands on the entry before.
`AwaitedOnce` needs in addition that the calls a driver runs or awaits are those that were
started, and the rest of what was made were not; `NothingRunsOn` that a call in flight is one
that the driver runs or awaits.

**The client.** The invariant has three parts that do not disturb each other. The agent's log does
not speak of turns that are still to come (`AgentInv`), hence the last turn the client shows
is never ahead of the agent. What is shown of a send goes by where it stands (`ShownInv`): it is
pending until its reply or the stream shows it, and touched from its end until `onFinish`. That a send
can always open a connection needs a place for a new invocation of `#connect`: an invocation
that is live and not the current one was left behind by a stop, and stops are among the `troubles`, so there are
fewer of them than places (`ConnectInv`, with the assumption that `Run` has more than `MaxTroubles`).

**The files.** `Settled` says what one call does, whatever the mount: it refuses and changes
nothing, or answers and the mount is as the answer says (`Shown`); either way it stays a tree within
its budget. A rename moves a whole subtree, and rests on lemmas about paths: rebasing is a bijection
that keeps what is under what, and values that go to other places keep their sum. That no path but a
proper one is ever asked for needs an invariant about scripts: what an operation has been
answered is plausible (`IsScript`: the root is always a directory), so it never makes, reads, deletes or
moves the root. `ChangesLast` then follows from `PerformGoesOn`: behind a call that changes the mount an
operation has no other. The index of a lone session is right about the mount *as soon as the result on
its way is recorded* (`Coming`), which is inductive where `IndexIsTrue` is not. The theorems are for names,
paths, sizes and operations of any number. They suppose that seeds are sound: no file of a
seed lies below another, and a mount in memory that has a seed has one script. Neither is looked at by
the code. Without the first, the seed itself is no tree; without the second, a mount may be seeded twice
(section 7) and the second time put a file where the first script has made a directory.

`OperationIsWhole` compares the end of an operation with the mount it began on, and says nothing of
the calls between. The invariant (`WholeInv`) does: an operation that is still at work has been told the truth
of the mount it began on, and nothing in it that would have ended it (`Knows`), and it has changed nothing yet, or is a
mkdir that has made so many directories on its path, outermost first (`TreeAt`). That a step keeps this is
proved without the scripts: a call is refused exactly where it must be (`CallTurns`), and with the
answer to its next call each operation ends as it should or goes on (`OpAdvances`, one lemma for
each). For a mkdir this needs that the directories on a path are those above one depth (`DepthFacts`), so that
what it found missing is what has to be made. Lost attempts come in by `CallTwice`: made a second
time, a call leaves the mount as the first left it, and answers the same unless it is one of three that then fail.
Operations that do not make those three are `Repeatable`.

**Only model-checked.** Liveness and everything that rests on fairness.
`NothingIsLost` of `StreamMerge`: for any scene it would need to be told of histories that
no harness writes. `Tabs`, `DeclaredState` and `Connector`: not attempted; the text of the last and
the patches of the second are folded, so each needs an induction over its log. (Inductions here are
over a set, numbers or parts of a finite set for which the statement holds, as in `PartInduction`,
since a theorem that takes the statement as a parameter cannot be used.)

## 7. Disagreements between code and text

Each of these has a configuration of its own with one property, which states what the text
says and which TLC finds violated. They are kept beside the runs of section 4, which
must pass; `tlc -config X.cfg M`, with the module `M` of the run it is named after, reproduces each.

* `AgentRunner_lostjoin` (`JoinedIsRun`). A join that is admitted in the workflow task in which
  the close arrives is never spawned: the loop leaves at its closed check before it
  looks at `_joining`, and the drain waits for the reference the join holds. `run`'s
  docstring promises that a joined handler's work is never discarded.
* `ToolApproval_malformed` (`BracketClosedOnce`). An evaluator's answer of the wrong type, found
  when somebody else has already decided, raises out of the gate and leaves the
  evaluation bracket open; the docstring promises that exactly one event closes it.
* `ToolApproval_automodeoff` (`AutoModeOffIsOff`). An evaluation in flight still decides its call
  after auto mode was switched off; the docstring says switching it off hands every gated
  call back to a person.
* `SubagentTurns_lostreply` (`ReplyNotLost`). An attempt that has read its reply, heartbeated and
  then is lost before the turn ends is followed by one that resumes behind the reply and
  fails the send with `SubagentNoReply`; the memo keeps the position but not what
  was read.
* `StreamMerge_earlyend` (`Drained`). Finished reads are reaped only after the loop's own wait,
  and a read is started only where none is recorded. A read that finishes while the
  consumer has an item stays recorded: its event is emitted, no other read of that
  stream begins, and it does not count as in flight. When this is so of all streams
  the loop finds nothing in flight and the merged stream ends, with the agents
  still talking. `stream_merge/README.md` and the comment at the return
  both say that then every stream has terminated. When it is so of some, those are
  not read until another delivers, and one that blocks a reply is given up on.
* `DeclaredState_detached` (`ReplicaAgrees`). A draft kept after `pop` or `del` took it out of its
  list records its changes at the place it was read from (`drafts.py:317`): a client renames
  the group that moved up. `tests/state/test_property.py:7` says that folding the patches
  yields the value at each version. Two more that `Careless` allows: `*=` on a list with
  drafts in it shares a draft between two places (`"repeat"`), and a sort whose comparison
  raises, the exception caught inside the block, leaves the list reordered and unrecorded
  (`"sortRaises"`).
* `ClientSession_deaf` (`SentIsSeen`). Without the idle poll, a send whose work is accepted after the
  attach took the agent for idle, and whose reply comes before the connection waits, wakes
  nobody. The doc of `idlePollMs` (`session.ts:101`) says the poll finds what *another* client
  asked for and that sends from this client re-attach without it.
* `ClientSession_hang` (`IdleIsSeen`). A client that attaches behind the last turn's end, with a patch
  of declared state to read, reads it and waits for a turn to end. The comment at
  `agent_client.py:657` says a registration is the only event a replay can end on that no
  `turn_end` follows.
* `ClientSession_stopped` (`StoppedIsStopped`). A session stopped during its status request goes on with
  `#waitForWork` or `#retry`, which set the connection to `idle` or `reconnecting`; `session.ts:27`
  documents `stopped` as what an unobserved session says.
* `Tabs_order` (`FramesInOrder`). A tab that joins while the leader relays gets newer frames before
  older ones, and one that takes over from a leader that died with frames unsent resumes
  at its newest offset and never reads what it misses below it. `test/tabs.test.ts` ("A tab that
  joins late gets what the leader already had") compares the frames of both in order.
* `Tabs_holder` (`OnlyHolderRuns`). `stop()` forgets `#tabs` before it flushes, so a *follower* that is
  stopped takes itself for a lone tab and runs the callback tools of the calls it knows to wait.
  The doc of `shareAcrossTabs` says only the holder does.
* `Tabs_unseen` (`UnseenIsUnpolled`). A page that crashes, and a leader that left, stay in the set of shown
  tabs another leader keeps, which goes on polling with no tab shown.
* `Connector_citations` (`CitationsAreKept`). A citation is recorded in the message but is no content
  to append; when an append fails, the new message starts from what was not appended and the
  citation is lost. `ui_connector/README.md:130` says the content continues in a new message.
* `ScriptFiles_seedtwice` (`SeedComesFirst`). Two scripts whose first operations meet an unseeded mount both
  run the seed; the second overwrites what the first has written. The design
  (`docs/design/monty-vfs-and-skills.md:126`) says the runner calls it once, before the first operation.
* `CodeMode_crashed` (`OutcomeIsKept`). A script runs to its end, the worker is lost, and the sandbox
  crashes on the last step when the history is replayed. The comment at `driver.py:203` says "Fail the
  workflow task and let Temporal retry it", but the `RuntimeError` is raised in an inline tool: the
  tool's wrapper publishes it as a tool error (`agent_workflow.py:4142`) and the agent goes on with
  a failed call where its history has a result. Only commands that differ later on would be
  noticed. The driver's own docstring (`driver.py:26`) contrasts failing the task with failing a
  tool call. The docstring of `type_check` (`monty_stepper.py:419`) promises the same of a crash
  in the type checker, which the repository's own caller runs in an inline tool
  (`examples/agent_dag/workflow.py:94`).
* `CodeMode_request` (`RequestsAreWaitedFor`). A call that is cancelled at its approval gate leaves its
  entry pending; the docstring of `PendingApproval` (`agent_interface.py:1016`) says that it is a
  call awaiting a decision.
* `CodeMode_dropped` (`EveryCallIsStarted`). The calls a script makes in the step that ends it are never
  handed over; `monty_stepper.py:187` says every call is started or awaited in its step.

More came up in traces and have no configuration; the properties state them as exceptions.

* `gates.py` (`UnmountChild`) takes a stopped child to be drained. `stop_subagent`
  does not wait for the child's gate, so it may be in the middle of a turn, the
  rest of which is then dropped without a marker (`NoSilentLoss` counts the stop as
  word of it).
* `stream_merge/README.md` says a stream's offset order is inviolable. A child given up
  on after an errored turn is mounted again at an offset its parent never advanced,
  and events already shown are shown again (`InOrder`).
* A turn that another sender opened on a child is never opened by a message of the
  parent, so its first event is held for good, and the child is given up on when a
  reply waits for a later turn (`GivesUpWithCause`). A fresh attach, which the marker
  recommends, meets the same event.
* When the agent's workflow has completed, `Poll` of the Go driver (`agent/driver.go:467`) says so without
  reading on: what was published behind the cursor is not delivered (`ReplyIsComplete`).
* A mkdir of parents refused at the gate half way leaves the parents; mkdir, unlink, rmdir and rename
  fail when an attempt that did its work is lost and made again (`OperationIsWhole`).

## 8. Not modelled

`PROJECT.json` lists every component with its state. Not modelled at all:

* the MCP gateway, the Nexus agent adapter and its generated models: they translate
  requests one to one and keep nothing between two of them;
* the AI SDK adapters: their state is the SDK's run loop, which is not in the repository;
* the web session manager and its HTTP surface: a registry of sessions, and I/O;
* examples, demo apps, conformance data, generated schemas, build files.

Within the modelled components: payloads and handler bodies are abstract; `claim_steering`
inside a tool call replays a remembered claim and is left out; the order in which
`select_live` and `select_replay` rank candidates, and that a replay repeats itself, is left
out of `StreamMerge`; the cancellation of a gated call by code mode is left out of
`ToolApproval` and kept in `CodeMode`; a timed-out attempt that runs on beside its successor
is left out of `SubagentTurns`, as are `start_subagent` and the independence of several
children; what an agent does after a replay of `CodeMode` departed from its history; sets, tuples, nested containers and validation of `DeclaredState`; stub generation,
the skills format and mount declarations of code mode; the cards' rendering, guide commands and
the routing of approvals of the connector; React and Svelte bindings, codegen and the worker
plugin of the TypeScript packages.

Most of what remains unmapped is data: event and interface types, schemas, generated
models, adapters from one vocabulary to another. They are in no model because there is
nothing in them that a state or an order could break.

## 9. How to run

    tlc -workers 2 -config SubagentTurns.cfg MCSubagentTurns
    tlapm AgentRunnerProofs.tla

Each run's module and configuration are in `PROJECT.json`. No run takes more than
three minutes on two cores; the proofs take a few minutes per module.
