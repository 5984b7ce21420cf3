--------------------------- MODULE ClientSession ---------------------------
(***************************************************************************)
(* A client that follows one session (packages/client/src/session.ts): it  *)
(* attaches to the agent's event stream, retries when the stream drops,    *)
(* falls idle when the stream ends with the agent, and is woken by a send  *)
(* or by the idle poll; and the attach it calls (harness/agent_client.py), *)
(* which decides when to end the stream.                                   *)
(*                                                                         *)
(* The client is single-threaded: an action is what runs between two       *)
(* awaits.  #connect is a coroutine, started anew by start() and by a send *)
(* when none runs; one that was stopped runs on until it notices, so that  *)
(* two of them may be about.  The agent is known by its log and status     *)
(* only; every message is a turn of its own.                               *)
(***************************************************************************)
EXTENDS Naturals, Sequences, FiniteSets

CONSTANTS
  Own,      \* messages sent by this client
  Other,    \* messages of other clients
  Run,      \* places for invocations of #connect
  None,     \* no message, no invocation
  IdlePoll, \* idlePollMs > 0
  Budget,   \* the number of reconnectBackoffMs
  MaxTroubles \* bound on failures, stops, events outside turns and changes of visibility

Message == Own \cup Other

ASSUME MessageAssumption == Own \cap Other = {} /\ None \notin Message \cup Run
ASSUME PollAssumption == IdlePoll \in BOOLEAN
\* A stopped invocation that never notices keeps its place.
ASSUME RunAssumption == IsFiniteSet(Run) /\ Cardinality(Run) > MaxTroubles
ASSUME BoundAssumption == Budget \in Nat /\ MaxTroubles \in Nat

\* registered: the snapshot of declared state at the front of the stream; note: another
\* event outside turns, a state patch; the rest concern a message.
Kind == {"registered", "note", "accepted", "started", "ended", "closed"}
Frame == [kind : Kind, message : Message \cup {None}, turn : Nat]

\* One invocation of #connect, and the stream of its attach.
Connect ==
  [pc        : {"off", "opening", "streaming", "checking", "backoff", "waiting"},
   aborted   : BOOLEAN, \* its signal
   delivered : BOOLEAN, \* the stream delivered a frame
   attempt   : 0..Budget,
   polling   : BOOLEAN, \* the idle poll's timer is set
   head      : Nat,     \* length of the log when it attached: stop_at_root_offset
   completed : Nat]     \* highest_completed_turn

VARIABLES
  log, queue, active, turn, closed,  \* the agent: events, queued messages, the turn in progress
  runs,       \* the invocations of #connect
  run,        \* #run: the current one
  wake,       \* #wake: the one whose sleep or wait a send ends
  observed,   \* #observed
  hidden,     \* page.hidden
  connection, \* ConnectionStatus
  resume,     \* #resumeOffset; in between, the frames received
  busy, lastTurn, \* the root's agentStatus and lastTurnNumber in the projection
  rows,       \* the root's messages in the projection and their status
  pending,    \* sends the root has not admitted yet
  sends,      \* submits not settled, in order: #submits
  sent,       \* how each of this client's messages fared
  touched,    \* messages changed since the last flush
  finished,   \* messages onFinish was called for, and how often
  troubles    \* how much of the bound is used

agentVars == <<log, queue, active, turn, closed>>
connVars == <<runs, run, wake, connection>>
pageVars == <<observed, hidden>>
projVars == <<resume, busy, lastTurn, rows, touched, finished>>
sendVars == <<pending, sends, sent>>
vars == <<agentVars, connVars, pageVars, projVars, sendVars, troubles>>

Off == [pc |-> "off", aborted |-> FALSE, delivered |-> FALSE, attempt |-> 0,
        polling |-> FALSE, head |-> 0, completed |-> 0]

TypeOK ==
  /\ log \in Seq(Frame) /\ queue \in Seq(Message) /\ active \in Message \cup {None}
  /\ turn \in Nat /\ closed \in BOOLEAN
  /\ runs \in [Run -> Connect] /\ run \in Run \cup {None} /\ wake \in Run \cup {None}
  /\ observed \in BOOLEAN /\ hidden \in BOOLEAN
  /\ connection \in {"stopped", "connecting", "live", "idle", "reconnecting", "closed", "error"}
  /\ resume \in 0..Len(log) /\ busy \in BOOLEAN /\ lastTurn \in 0..turn
  /\ rows \in [Message -> {"none", "accepted", "running", "done"}]
  /\ pending \subseteq Own /\ sends \in Seq(Own) /\ touched \subseteq Message
  /\ sent \in [Own -> {"new", "sending", "admitted", "ok", "failed", "failedAdmitted"}]
  /\ finished \in [Own -> 0..1]
  /\ troubles \in Nat

Init ==
  /\ log = <<[kind |-> "registered", message |-> None, turn |-> 0]>>
  /\ queue = <<>> /\ active = None /\ turn = 0 /\ closed = FALSE
  /\ runs = [r \in Run |-> Off] /\ run = None /\ wake = None
  /\ observed = FALSE /\ hidden = FALSE
  /\ connection = "stopped"
  /\ resume = 0 /\ busy = FALSE /\ lastTurn = 0
  /\ rows = [m \in Message |-> "none"] /\ touched = {} /\ finished = [m \in Own |-> 0]
  /\ pending = {} /\ sends = <<>> /\ sent = [m \in Own |-> "new"]
  /\ troubles = 0

-----------------------------------------------------------------------------
(* The agent, as its clients see it. *)

Publish(kind, message, n) == log' = Append(log, [kind |-> kind, message |-> message, turn |-> n])

IsIdle == active = None /\ queue = <<>>

\* What is bounded, of the environment.
Trouble == troubles < MaxTroubles /\ troubles' = troubles + 1

Admit(m) ==
  /\ ~closed
  /\ queue' = Append(queue, m)
  /\ Publish("accepted", m, turn + Len(queue) + 1)
  /\ UNCHANGED <<active, turn, closed>>

OtherSends(m) ==
  /\ \A i \in 1..Len(log) : log[i].message # m
  /\ Admit(m)
  /\ UNCHANGED <<connVars, pageVars, projVars, sendVars, troubles>>

StartTurn ==
  /\ active = None /\ queue # <<>>
  /\ active' = Head(queue) /\ queue' = Tail(queue)
  /\ turn' = turn + 1
  /\ Publish("started", active', turn')
  /\ UNCHANGED <<closed, connVars, pageVars, projVars, sendVars, troubles>>

EndTurn ==
  /\ active # None
  /\ active' = None
  /\ Publish("ended", active, turn)
  /\ UNCHANGED <<queue, turn, closed, connVars, pageVars, projVars, sendVars, troubles>>

\* Declared state changed outside a turn.
Note ==
  /\ IsIdle /\ ~closed
  /\ Trouble
  /\ Publish("note", None, 0)
  /\ UNCHANGED <<queue, active, turn, closed, connVars, pageVars, projVars, sendVars>>

CloseAgent ==
  /\ IsIdle /\ ~closed
  /\ closed' = TRUE
  /\ Publish("closed", None, 0)
  /\ UNCHANGED <<queue, active, turn, connVars, pageVars, projVars, sendVars, troubles>>

-----------------------------------------------------------------------------
(* attach: whether there is anything to stream, and when to stop. *)

Attached(c) ==
  IF Len(log) <= resume /\ IsIdle
  THEN [c EXCEPT !.pc = "checking"]
  ELSE [c EXCEPT !.pc = "streaming", !.head = Len(log)]

\* Mutant: a stream may end at the end of a turn only.
ShouldStopAtTurnEnd(c, e, from) ==
  e.kind = "ended" /\ from >= c.head /\ IsIdle /\ c.completed >= turn

\* should_stop, asked after the root event at position from, at the end of a turn and at
\* a registration
ShouldStop(c, e, from) ==
  /\ e.kind \in {"ended", "registered"}
  /\ from >= c.head
  /\ IsIdle
  /\ c.completed >= turn

-----------------------------------------------------------------------------
(* The connection. *)

Live(c) == c.pc # "off"
Put(r, c) == runs' = [runs EXCEPT ![r] = c]

\* The stream ended: ask whether the workflow has.
Caught(c) == [c EXCEPT !.pc = "checking", !.head = 0, !.completed = 0]

\* #run.finally: the invocation is over.
Gone(r) ==
  /\ Put(r, Off)
  /\ run' = IF run = r THEN None ELSE run

\* A stop aborted the status request of its invocation: it is rejected before anything
\* else comes from the network.
Quiet == \A r \in Run : ~(runs[r].aborted /\ runs[r].pc = "checking")

\* The sleep or the wait of #connect is over: it goes on, or ends when it was stopped.
Woken(c) == IF c.aborted THEN Off ELSE [c EXCEPT !.pc = "opening", !.polling = FALSE]

\* #ensureLive
EnsureLive ==
  IF ~observed THEN UNCHANGED connVars
  ELSE IF run # None
       THEN /\ IF wake # None THEN Put(wake, Woken(runs[wake])) ELSE UNCHANGED runs
            /\ wake' = None
            /\ UNCHANGED <<run, connection>>
       ELSE \E r \in {CHOOSE s \in Run : ~Live(runs[s])} :
              /\ run' = r
              /\ Put(r, [Off EXCEPT !.pc = "opening"])
              /\ connection' = "connecting"
              /\ UNCHANGED wake

Open(r) ==
  /\ runs[r].pc = "opening" /\ Quiet
  /\ Put(r, Attached(runs[r]))
  /\ UNCHANGED <<agentVars, run, wake, connection, pageVars, projVars, sendVars, troubles>>

\* #retry: sleep, or give up when the budget is used
Retry(r) ==
  LET attempt == IF runs[r].delivered THEN 0 ELSE runs[r].attempt
  IN IF attempt < Budget
     THEN /\ Put(r, [Off EXCEPT !.pc = "backoff", !.aborted = runs[r].aborted, !.attempt = attempt + 1])
          /\ connection' = "reconnecting"
          /\ wake' = r
          /\ UNCHANGED run
     ELSE /\ Gone(r)
          /\ connection' = "error"
          /\ UNCHANGED wake

\* The attach fails, or the stream of it.
Fails(r) ==
  /\ runs[r].pc \in {"opening", "streaming"} /\ Quiet
  /\ Trouble
  /\ Retry(r)
  /\ UNCHANGED <<agentVars, pageVars, projVars, sendVars>>

\* The stream ends early, and with no error.
Cut(r) ==
  /\ runs[r].pc = "streaming" /\ Quiet
  /\ Trouble
  /\ Put(r, Caught(runs[r]))
  /\ UNCHANGED <<agentVars, run, wake, connection, pageVars, projVars, sendVars>>

\* #receive and the projection's apply, of one frame of the root
Receive(r) ==
  LET from == resume + 1
      e == log[from]
      c == [runs[r] EXCEPT !.delivered = TRUE,
                           !.completed = IF e.kind = "ended" /\ e.turn > @ THEN e.turn ELSE @]
  IN /\ runs[r].pc = "streaming" /\ Quiet
     /\ resume < Len(log)
     /\ Put(r, IF ShouldStop(c, e, from) THEN Caught(c) ELSE c)
     /\ connection' = IF runs[r].delivered THEN connection ELSE "live"
     /\ resume' = from
     /\ busy' = IF e.kind = "started" THEN TRUE ELSE IF e.kind = "ended" THEN FALSE ELSE busy
     /\ lastTurn' = IF e.kind = "started" /\ e.turn > lastTurn THEN e.turn ELSE lastTurn
     /\ rows' = IF e.message = None THEN rows
                ELSE [rows EXCEPT ![e.message] =
                        IF e.kind = "accepted" THEN (IF @ = "none" THEN "accepted" ELSE @)
                        ELSE IF @ = "none" THEN "none"
                        ELSE IF e.kind = "started" THEN "running" ELSE "done"]
     /\ touched' = touched \cup ({e.message} \ {None})
     /\ pending' = IF e.kind = "accepted" THEN pending \ {m \in Own : m = e.message /\ sent[m] = "ok"} ELSE pending
     /\ UNCHANGED <<agentVars, run, wake, pageVars, finished, sends, sent, troubles>>

\* The stream of a finished workflow ends when it was read.
StreamEnds(r) ==
  /\ runs[r].pc = "streaming" /\ Quiet
  /\ closed /\ resume = Len(log)
  /\ Put(r, Caught(runs[r]))
  /\ UNCHANGED <<agentVars, run, wake, connection, pageVars, projVars, sendVars, troubles>>

\* #waitForWork
WaitForWork(r) ==
  /\ Put(r, [Off EXCEPT !.pc = "waiting", !.aborted = runs[r].aborted, !.polling = IdlePoll,
                        !.attempt = IF runs[r].delivered THEN 0 ELSE runs[r].attempt])
  /\ connection' = "idle"
  /\ wake' = r
  /\ UNCHANGED run

\* #workflowClosed has answered, or failed, which counts as no.  Whether the invocation was
\* stopped meanwhile is not asked.
Checked(r) ==
  /\ runs[r].pc = "checking"
  /\ Quiet \/ runs[r].aborted
  /\ \/ /\ closed /\ ~runs[r].aborted
        /\ Gone(r) /\ connection' = "closed" /\ UNCHANGED wake
     \/ /\ ~closed \/ runs[r].aborted
        /\ IF busy THEN Retry(r) ELSE WaitForWork(r)
  /\ UNCHANGED <<agentVars, pageVars, projVars, sendVars, troubles>>

\* The timer of #sleep; a stopped invocation ends then.
BackoffOver(r) ==
  /\ runs[r].pc = "backoff"
  /\ Put(r, Woken(runs[r])) /\ UNCHANGED run
  /\ wake' = IF wake = r THEN None ELSE wake
  /\ UNCHANGED <<agentVars, connection, pageVars, projVars, sendVars, troubles>>

\* Mutant: the poll looks for work in progress only.
NewWorkNow == active # None \/ queue # <<>>

\* Work in progress, or work that was done between two polls.
NewWork == active # None \/ queue # <<>> \/ turn > lastTurn

\* The idle poll, while a page is shown; it stops for good once somebody else holds #wake.
Poll(r) ==
  /\ runs[r].pc = "waiting" /\ runs[r].polling /\ ~hidden
  /\ IF runs[r].aborted \/ wake # r
     THEN Put(r, [runs[r] EXCEPT !.polling = FALSE]) /\ UNCHANGED wake
     ELSE /\ NewWork /\ Quiet
          /\ Put(r, Woken(runs[r]))
          /\ wake' = None
  /\ UNCHANGED <<agentVars, run, connection, pageVars, projVars, sendVars, troubles>>

-----------------------------------------------------------------------------
(* start(), stop(), the page. *)

Start ==
  /\ ~observed
  /\ observed' = TRUE
  /\ \E r \in {CHOOSE s \in Run : ~Live(runs[s])} :
       run' = r /\ Put(r, [Off EXCEPT !.pc = "opening"])
  /\ connection' = "connecting"
  /\ UNCHANGED <<agentVars, wake, hidden, projVars, sendVars, troubles>>

\* The abort ends what the invocation awaits, and thereby the invocation; but the answer
\* of a status request counts for a no, and #connect goes on.
Stop ==
  /\ observed
  /\ Trouble
  /\ observed' = FALSE
  /\ runs' = [r \in Run |->
       IF r # run THEN runs[r]
       ELSE IF runs[r].pc = "checking" THEN [runs[r] EXCEPT !.aborted = TRUE] ELSE Off]
  /\ wake' = IF wake = run THEN None ELSE wake
  /\ run' = None
  /\ connection' = "stopped"
  /\ UNCHANGED <<agentVars, hidden, projVars, sendVars>>

\* visibilitychange: a poll that was parked runs when the page is shown.
Visibility ==
  /\ Trouble
  /\ hidden' = ~hidden
  /\ UNCHANGED <<agentVars, connVars, observed, projVars, sendVars>>

-----------------------------------------------------------------------------
(* Sends, one at a time in their order, and flushes. *)

Send(m) ==
  /\ sent[m] = "new"
  /\ sent' = [sent EXCEPT ![m] = "sending"]
  /\ sends' = Append(sends, m)
  /\ pending' = pending \cup {m}
  /\ UNCHANGED <<agentVars, connVars, pageVars, projVars, troubles>>

Admitted ==
  /\ sends # <<>>
  /\ LET m == Head(sends) IN
       /\ sent[m] = "sending"
       /\ Admit(m)
       /\ sent' = [sent EXCEPT ![m] = "admitted"]
  /\ UNCHANGED <<connVars, pageVars, projVars, pending, sends, troubles>>

\* #flush: onFinish, for the messages that changed
Flushed(changed, oks, status) ==
  /\ touched' = {}
  /\ finished' = [m \in Own |->
       IF m \in changed /\ status[m] = "done" /\ m \in oks /\ finished[m] = 0 THEN 1 ELSE finished[m]]

Oks == {m \in Own : sent[m] = "ok"}

\* Mutant: the key is given without a change of the row.
SettledSilently(m) ==
  IF rows[m] # "none" THEN [pending |-> pending \ {m}, rows |-> rows, touched |-> {}]
  ELSE IF resume > 0 THEN [pending |-> pending \ {m}, rows |-> [rows EXCEPT ![m] = "accepted"], touched |-> {m}]
  ELSE [pending |-> pending, rows |-> rows, touched |-> {}]

\* admitSending: the row the stream made is given the key of the send; without one the
\* send becomes a row, or waits in pending while nothing was received at all.
Settled(m) ==
  IF rows[m] # "none" THEN [pending |-> pending \ {m}, rows |-> rows, touched |-> {m}]
  ELSE IF resume > 0 THEN [pending |-> pending \ {m}, rows |-> [rows EXCEPT ![m] = "accepted"], touched |-> {m}]
  ELSE [pending |-> pending, rows |-> rows, touched |-> {}]

\* The submit returned: flush, and only then look for the work.
Replied ==
  /\ sends # <<>>
  /\ LET m == Head(sends)
         s == Settled(m) IN
       /\ sent[m] = "admitted"
       /\ sent' = [sent EXCEPT ![m] = "ok"]
       /\ pending' = s.pending /\ rows' = s.rows
       /\ Flushed(touched \cup s.touched, Oks \cup {m}, s.rows)
  /\ sends' = Tail(sends)
  /\ EnsureLive
  /\ UNCHANGED <<agentVars, pageVars, resume, busy, lastTurn, troubles>>

\* The submit failed, before or after it reached the agent; it stays in pending.
SubmitFails ==
  /\ sends # <<>>
  /\ LET m == Head(sends) IN
       /\ \/ sent[m] \in {"sending", "admitted"} /\ Trouble
          \/ sent[m] = "sending" /\ closed /\ UNCHANGED troubles
       /\ sent' = [sent EXCEPT ![m] = IF @ = "sending" THEN "failed" ELSE "failedAdmitted"]
  /\ sends' = Tail(sends)
  /\ Flushed(touched, Oks, rows)
  /\ UNCHANGED <<agentVars, connVars, pageVars, resume, busy, lastTurn, rows, pending>>

Flush ==
  /\ touched # {}
  /\ Flushed(touched, Oks, rows)
  /\ UNCHANGED <<agentVars, connVars, pageVars, resume, busy, lastTurn, rows, sendVars, troubles>>

Progress(r) ==
  Open(r) \/ Receive(r) \/ StreamEnds(r) \/ Checked(r) \/ BackoffOver(r) \/ Poll(r)

Next ==
  \/ \E m \in Other : OtherSends(m)
  \/ StartTurn \/ EndTurn \/ Note \/ CloseAgent
  \/ \E r \in Run : Progress(r) \/ Fails(r) \/ Cut(r)
  \/ Start \/ Stop \/ Visibility
  \/ \E m \in Own : Send(m)
  \/ Admitted \/ Replied \/ SubmitFails \/ Flush

Spec == Init /\ [][Next]_vars

\* Requests and timers finish; the agent ends the turns it starts; submits settle.
FairSpec ==
  /\ Spec
  /\ \A r \in Run : WF_vars(Progress(r))
  /\ WF_vars(StartTurn) /\ WF_vars(EndTurn)
  /\ WF_vars(Admitted) /\ WF_vars(Replied) /\ WF_vars(Flush)

-----------------------------------------------------------------------------
(* Properties. *)

\* A message this client sent is shown once: until the submit returns among the pending
\* sends, afterwards as a row, or as a pending send while nothing was received
\* (admitSending, #settlePending).  Which of the reply and the stream comes first is open.
ShownOnce ==
  \A m \in Own :
    /\ sent[m] = "ok" => (m \in pending <=> rows[m] = "none")
    /\ sent[m] \in {"sending", "admitted", "failed", "failedAdmitted"} => m \in pending

\* onFinish is called for every message of this client that is done, at the next flush at
\* the latest, although the stream may show the end before the submit returns (#flush).
FinishReported ==
  \A m \in Own : sent[m] = "ok" /\ rows[m] = "done" => finished[m] = 1 \/ m \in touched

\* Reply and stream tell of a send in either order, and it is accounted for once; attempts
\* stay within their budget (TypeOK).
SendsAreSettled == TypeOK /\ ShownOnce /\ FinishReported

\* Nothing is to be expected: nobody watches, or the connection says that it is over.
Unwatched == ~observed \/ hidden \/ connection \in {"error", "closed"}

\* What is in the agent's log is read: a send of this client, or the idle poll, finds it.
LogIsRead ==
  \A m \in Message :
    (\E i \in 1..Len(log) : log[i].message = m /\ log[i].kind = "ended") ~> rows[m] = "done" \/ Unwatched

\* A send that was accepted is seen to its end, and onFinish called.
SentIsSeen == \A m \in Own : sent[m] = "ok" ~> finished[m] = 1 \/ Unwatched

\* An agent that stays idle is seen to be: the attach ends and the connection says so.
IdleIsSeen == <>[](IsIdle => connection # "live")

\* The same of an agent whose last event is not one outside turns.
IdleTurnIsSeen == <>[](IsIdle /\ log[Len(log)].kind # "note" => connection # "live")

\* Nothing is observed: the connection says stopped, as ConnectionStatus documents.
StoppedIsStopped == ~observed => connection = "stopped"

=============================================================================
