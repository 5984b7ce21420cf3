-------------------------------- MODULE Tabs --------------------------------
(***************************************************************************)
(* The tabs of a browser that follow one session (packages/client/src/     *)
(* session.ts, shareAcrossTabs).  The tab that holds the session's Web     *)
(* Lock, the leader, attaches to the agent's stream, polls an idle agent   *)
(* and runs the callback tools; what it receives it relays over a          *)
(* BroadcastChannel.  The others follow, and wait for the lock in line.    *)
(*                                                                         *)
(* A message is queued at once with every other open channel, and handled  *)
(* in a task of its own, as the grant of the lock is: between any two of   *)
(* them anything may run.  A tab that is stopped says so; one that crashes *)
(* does not.  How an attach fares is the subject of ClientSession: here it *)
(* ends when the agent is idle and read.                                   *)
(***************************************************************************)
EXTENDS Naturals, Sequences, FiniteSets

CONSTANTS
  Tab,
  MaxWork,    \* bound on the work the agent is given
  CallAt,     \* which of it makes a subagent call a callback tool
  MaxTroubles \* bound on stops, crashes, dropped streams and changes of visibility

ASSUME BoundAssumption == MaxWork \in Nat /\ MaxTroubles \in Nat /\ CallAt \in Nat

VARIABLES
  work, done, log, answered, \* the agent: work given and done, the events, the call's result
  role,       \* of a tab: what #tabs says, away when it does not observe the session
  waiting,    \* requests for the lock, in order
  frames,     \* the frames a tab has received, by position, as they came
  flushed,    \* how many of them are in its state; the rest is #buffer
  connection, \* ConnectionStatus
  shown,      \* pages that are not hidden
  inbox,      \* what the channel has for a tab
  heard,      \* the leader's tabs.visible
  stream,     \* #connect, of the leader
  dispatched, \* tabs that ran the callback tool: #dispatchedCalls
  answering,  \* tabs where it is running
  troubles

agentVars == <<work, done, log, answered>>
tabVars == <<role, waiting, frames, flushed, connection, shown>>
callVars == <<dispatched, answering>>
vars == <<agentVars, tabVars, inbox, heard, stream, callVars, troubles>>

Status == {"stopped", "connecting", "live", "idle", "reconnecting"}
Elements(s) == {s[i] : i \in DOMAIN s}

\* TabMessage, by what it is posted for.
Hello(t) == [kind |-> "hello", tab |-> t, visible |-> t \in shown]
Visible(t, b) == [kind |-> "visible", tab |-> t, visible |-> b]
Wake == [kind |-> "wake"]
Frames(s) == [kind |-> "frames", frames |-> s]
Connection(c) == [kind |-> "connection", connection |-> c]
Everything(t, census) ==
  [kind |-> "everything", frames |-> SubSeq(frames[t], 1, flushed[t]), connection |-> connection[t],
   census |-> census]

Closed == [pc |-> "off", next |-> 0, parked |-> FALSE]

Init ==
  /\ work = 0 /\ done = 0 /\ log = <<>> /\ answered = FALSE
  /\ role = [t \in Tab |-> "away"] /\ waiting = <<>>
  /\ frames = [t \in Tab |-> <<>>] /\ flushed = [t \in Tab |-> 0]
  /\ connection = [t \in Tab |-> "stopped"]
  /\ shown \in SUBSET Tab
  /\ inbox = [t \in Tab |-> <<>>]
  /\ heard = {} /\ stream = Closed
  /\ dispatched = {} /\ answering = {}
  /\ troubles = 0

Trouble == troubles < MaxTroubles /\ troubles' = troubles + 1

-----------------------------------------------------------------------------
(* The agent.  A subagent's event shares the resume offset of the root's   *)
(* event before it.                                                        *)

CallOf(n) == n = CallAt /\ "call" \notin Elements(log)

Work ==
  /\ done < work
  /\ \/ /\ CallOf(done + 1)
        /\ log' = Append(log, "call") /\ UNCHANGED done
     \/ /\ ~CallOf(done + 1) /\ (done + 1 = CallAt => answered)
        /\ log' = Append(log, IF done + 1 = CallAt THEN "resolved" ELSE "event")
        /\ done' = done + 1
  /\ UNCHANGED <<work, answered, tabVars, inbox, heard, stream, callVars, troubles>>

Idle == done = work

OtherSends ==
  /\ work < MaxWork
  /\ work' = work + 1
  /\ UNCHANGED <<done, log, answered, tabVars, inbox, heard, stream, callVars, troubles>>

ResumeOffset(i) == IF log[i] = "call" THEN i - 1 ELSE i

-----------------------------------------------------------------------------
(* Tabs, the channel, the lock. *)

Joined(t) == role[t] \in {"follower", "leader"}
Leads(t) == role[t] = "leader"
Held == \E t \in Tab : Leads(t)

\* postMessage: to every other channel that is open
Posted(box, t, messages) ==
  [u \in Tab |-> IF u # t /\ Joined(u) THEN box[u] \o messages ELSE box[u]]
Post(t, messages) == inbox' = Posted(inbox, t, messages)

Known(t) == Elements(frames[t])
Newest(S) == IF S = {} THEN 0 ELSE CHOOSE i \in S : \A j \in S : j <= i
Resume(t) == Newest({ResumeOffset(i) : i \in Known(t)})

\* #receive, of one frame after the other: what is known already is left out
Received(seen, new) ==
  LET Take[i \in 0..Len(new)] ==
        IF i = 0 THEN seen
        ELSE IF new[i] \in Elements(Take[i - 1]) THEN Take[i - 1] ELSE Append(Take[i - 1], new[i])
  IN Take[Len(new)]

\* awaitingClient: the call has been requested and not resolved
Awaiting(t) ==
  /\ \E i \in Known(t) : log[i] = "call"
  /\ \A i \in Known(t) : log[i] # "resolved"

\* Mutant: a call that any tab has dispatched is not dispatched again.
DispatchByOne(t) ==
  IF Awaiting(t) /\ dispatched = {}
  THEN dispatched' = {t} /\ answering' = answering \cup {t}
  ELSE UNCHANGED <<dispatched, answering>>

\* The last lines of #flush: a call that waits is dispatched once.
Dispatch(t) ==
  IF Awaiting(t) /\ t \notin dispatched
  THEN dispatched' = dispatched \cup {t} /\ answering' = answering \cup {t}
  ELSE UNCHANGED <<dispatched, answering>>

\* Mutant: who is shown is not asked.
NewsNoCensus(t) == <<Everything(t, FALSE)>>

\* What a new leader tells the others first.
News(t) == <<Everything(t, TRUE)>>

\* The part of #buffer that goes out when the leader flushes.
Buffer(t) == SubSeq(frames[t], flushed[t] + 1, Len(frames[t]))
Relayed(t) == IF Buffer(t) = <<>> THEN <<>> ELSE <<Frames(Buffer(t))>>

-----------------------------------------------------------------------------
(* Joining, leaving, taking over. *)

\* start(): #joinTabs
Start(t) ==
  /\ role[t] = "away"
  /\ role' = [role EXCEPT ![t] = "follower"]
  /\ waiting' = Append(waiting, t)
  /\ connection' = [connection EXCEPT ![t] = "connecting"]
  /\ Post(t, <<Hello(t)>>)
  /\ UNCHANGED <<agentVars, frames, flushed, shown, heard, stream, callVars, troubles>>

\* The lock is granted: tell the others everything, flush, attach.
Granted ==
  /\ ~Held /\ waiting # <<>>
  /\ LET t == Head(waiting) IN
       /\ role' = [role EXCEPT ![t] = "leader"]
       /\ waiting' = Tail(waiting)
       /\ heard' = {}
       /\ connection' = [connection EXCEPT ![t] = "connecting"]
       /\ Post(t, News(t) \o Relayed(t) \o <<Connection("connecting")>>)
       /\ flushed' = [flushed EXCEPT ![t] = Len(frames[t])]
       /\ Dispatch(t)
  /\ stream' = [Closed EXCEPT !.pc = "opening"]
  /\ UNCHANGED <<agentVars, frames, shown, troubles>>

\* The channel is closed, the lock and its request are let go of.
Leave(t, to) ==
  /\ role' = [role EXCEPT ![t] = to]
  /\ waiting' = SelectSeq(waiting, LAMBDA u : u # t)
  /\ stream' = IF Leads(t) THEN Closed ELSE stream

\* stop(): #leaveTabs, and a flush when the tab is no tab among others any more
Stop(t) ==
  /\ Joined(t)
  /\ Trouble
  /\ Leave(t, "away")
  /\ inbox' = [Posted(inbox, t, IF Leads(t) THEN <<>> ELSE <<Visible(t, FALSE)>>) EXCEPT ![t] = <<>>]
  /\ flushed' = [flushed EXCEPT ![t] = Len(frames[t])]
  /\ Dispatch(t)
  /\ connection' = [connection EXCEPT ![t] = "stopped"]
  /\ UNCHANGED <<agentVars, frames, shown, heard>>

Crash(t) ==
  /\ Joined(t)
  /\ Trouble
  /\ Leave(t, "crashed")
  /\ inbox' = [inbox EXCEPT ![t] = <<>>]
  /\ shown' = shown \ {t}
  /\ answering' = answering \ {t}
  /\ UNCHANGED <<agentVars, frames, flushed, connection, heard, dispatched>>

-----------------------------------------------------------------------------
(* The leader's connection. *)

\* Mutant: a poll that was parked stays so.
PollLater(s) == s

\* A poll that was parked is made once a page is shown.
PollNow(s) == [s EXCEPT !.parked = FALSE]

\* #setConnection and #flush, of the leader: what else is posted comes after the frames
SayAnd(t, c) ==
  /\ connection' = [connection EXCEPT ![t] = c]
  /\ Post(t, IF connection[t] = c THEN <<>> ELSE <<Connection(c)>>)

FlushSaying(t, messages) ==
  /\ flushed' = [flushed EXCEPT ![t] = Len(frames[t])]
  /\ Post(t, Relayed(t) \o messages)
  /\ Dispatch(t)

\* The attach ends at once when the agent is idle and read up to the resume offset.
Attach(t) ==
  /\ Leads(t) /\ stream.pc = "opening"
  /\ stream' = IF Idle /\ (log = <<>> \/ ResumeOffset(Len(log)) <= Resume(t))
               THEN [stream EXCEPT !.pc = "checking"]
               ELSE [stream EXCEPT !.pc = "streaming", !.next = Resume(t) + 1]
  /\ UNCHANGED <<agentVars, tabVars, inbox, heard, callVars, troubles>>

Deliver(t) ==
  /\ Leads(t) /\ stream.pc = "streaming" /\ stream.next <= Len(log)
  /\ frames' = [frames EXCEPT ![t] = Received(@, <<stream.next>>)]
  /\ stream' = [stream EXCEPT !.next = @ + 1]
  /\ SayAnd(t, "live")
  /\ UNCHANGED <<agentVars, role, waiting, flushed, shown, heard, callVars, troubles>>

StreamEnds(t) ==
  /\ Leads(t) /\ stream.pc = "streaming" /\ stream.next > Len(log) /\ Idle
  /\ stream' = [stream EXCEPT !.pc = "checking"]
  /\ FlushSaying(t, <<>>)
  /\ UNCHANGED <<agentVars, role, waiting, frames, connection, shown, heard, troubles>>

\* The attach fails, or its stream: #retry
Drop(t) ==
  /\ Leads(t) /\ stream.pc \in {"opening", "streaming"}
  /\ Trouble
  /\ stream' = [Closed EXCEPT !.pc = "opening"]
  /\ connection' = [connection EXCEPT ![t] = "reconnecting"]
  /\ FlushSaying(t, <<Connection("reconnecting")>>)
  /\ UNCHANGED <<agentVars, role, waiting, frames, shown, heard>>

\* #workflowClosed answered: wait for work
Checked(t) ==
  /\ Leads(t) /\ stream.pc = "checking"
  /\ stream' = [Closed EXCEPT !.pc = "waiting"]
  /\ SayAnd(t, "idle")
  /\ UNCHANGED <<agentVars, role, waiting, frames, flushed, shown, heard, callVars, troubles>>

\* #anyTabShown, of the leader
AnyShown(t) == t \in shown \/ heard # {}
NewWork(t) == ~Idle \/ Newest(Known(t)) < Len(log)

\* The idle poll: it parks when no tab is shown.
Poll(t) ==
  /\ Leads(t) /\ stream.pc = "waiting" /\ ~stream.parked
  /\ \/ ~AnyShown(t) /\ stream' = [stream EXCEPT !.parked = TRUE]
     \/ AnyShown(t) /\ NewWork(t) /\ stream' = [Closed EXCEPT !.pc = "opening"]
  /\ UNCHANGED <<agentVars, tabVars, inbox, heard, callVars, troubles>>

\* A send wakes the leader out of its wait, and out of nothing else.
Woken(s) == IF s.pc = "waiting" THEN [Closed EXCEPT !.pc = "opening"] ELSE s

\* #ensureLive, of any tab
EnsureLive(t) ==
  /\ stream' = IF Leads(t) THEN Woken(stream) ELSE stream
  /\ Post(t, IF role[t] = "follower" THEN <<Wake>> ELSE <<>>)

-----------------------------------------------------------------------------
(* Flushes, and what comes over the channel: #relayed. *)

\* Of the leader: nobody can tell when a follower flushes, who is taken to do it at once.
Flush(t) ==
  /\ Leads(t) /\ flushed[t] < Len(frames[t])
  /\ FlushSaying(t, <<>>)
  /\ UNCHANGED <<agentVars, role, waiting, frames, connection, shown, heard, stream, troubles>>

\* A hello and a change of visibility tell the leader whether the tab is shown.
Hear(m) ==
  /\ heard' = IF m.visible THEN heard \cup {m.tab} ELSE heard \ {m.tab}
  /\ stream' = IF m.visible THEN PollNow(stream) ELSE stream

LeaderRelayed(t, m) ==
  /\ LET rest == [inbox EXCEPT ![t] = Tail(@)] IN
       inbox' = IF m.kind = "hello" THEN Posted(rest, t, <<Everything(t, FALSE)>>) ELSE rest
  /\ \/ m.kind \in {"hello", "visible"} /\ Hear(m)
     \/ m.kind = "wake" /\ stream' = Woken(stream) /\ UNCHANGED heard
     \/ m.kind \in {"frames", "connection", "everything"} /\ UNCHANGED <<stream, heard>>
  /\ UNCHANGED <<frames, flushed, connection>>

FollowerRelayed(t, m) ==
  /\ LET rest == [inbox EXCEPT ![t] = Tail(@)] IN
       inbox' = IF m.kind = "everything" /\ m.census THEN Posted(rest, t, <<Visible(t, t \in shown)>>) ELSE rest
  /\ frames' = IF m.kind \in {"frames", "everything"}
               THEN [frames EXCEPT ![t] = Received(@, m.frames)] ELSE frames
  /\ flushed' = [flushed EXCEPT ![t] = Len(frames'[t])]
  /\ connection' = IF m.kind \in {"connection", "everything"}
                   THEN [connection EXCEPT ![t] = m.connection] ELSE connection
  /\ UNCHANGED <<stream, heard>>

Relay(t) ==
  /\ inbox[t] # <<>>
  /\ IF Leads(t) THEN LeaderRelayed(t, Head(inbox[t])) ELSE FollowerRelayed(t, Head(inbox[t]))
  /\ UNCHANGED <<agentVars, role, waiting, shown, callVars, troubles>>

\* visibilitychange: a follower tells the leader, the leader looks at its own poll
Visibility(t) ==
  /\ Joined(t)
  /\ Trouble
  /\ shown' = IF t \in shown THEN shown \ {t} ELSE shown \cup {t}
  /\ Post(t, IF role[t] = "follower" THEN <<Visible(t, t \notin shown)>> ELSE <<>>)
  /\ stream' = IF Leads(t) /\ (t \notin shown \/ heard # {}) THEN PollNow(stream) ELSE stream
  /\ UNCHANGED <<agentVars, role, waiting, frames, flushed, connection, heard, callVars>>

-----------------------------------------------------------------------------
(* Sends and callback tools, in any tab. *)

\* A send that is accepted and returns: the sender wakes the leader.  One whose tab crashes
\* before it returns is the send of another client.
Send(t) ==
  /\ Joined(t)
  /\ work < MaxWork
  /\ work' = work + 1
  /\ EnsureLive(t)
  /\ UNCHANGED <<done, log, answered, tabVars, heard, callVars, troubles>>

\* The callback tool is done; the agent takes the first result.
Answer(t) ==
  /\ t \in answering
  /\ answering' = answering \ {t}
  /\ answered' = TRUE
  /\ IF answered THEN UNCHANGED <<stream, inbox>> ELSE EnsureLive(t)
  /\ UNCHANGED <<work, done, log, tabVars, heard, dispatched, troubles>>

Connected(t) == Attach(t) \/ Deliver(t) \/ StreamEnds(t) \/ Checked(t) \/ Poll(t)

Next ==
  \/ Work \/ OtherSends \/ Granted
  \/ \E t \in Tab :
       \/ Start(t) \/ Stop(t) \/ Crash(t) \/ Visibility(t)
       \/ Connected(t) \/ Drop(t)
       \/ Flush(t) \/ Relay(t)
       \/ Send(t) \/ Answer(t)

Spec == Init /\ [][Next]_vars

\* Tasks run, the lock is granted, the agent works, requests are answered.
FairSpec ==
  /\ Spec
  /\ WF_vars(Work) /\ WF_vars(Granted)
  /\ \A t \in Tab :
       WF_vars(Connected(t)) /\ WF_vars(Flush(t)) /\ WF_vars(Relay(t)) /\ WF_vars(Answer(t))

-----------------------------------------------------------------------------
(* Properties. *)

Message ==
  [kind : {"hello", "visible"}, tab : Tab, visible : BOOLEAN]
  \cup [kind : {"wake"}]
  \cup [kind : {"frames"}, frames : Seq(Nat)]
  \cup [kind : {"connection"}, connection : Status]
  \cup [kind : {"everything"}, frames : Seq(Nat), connection : Status, census : BOOLEAN]

TypeOK ==
  /\ work \in 0..MaxWork /\ done \in 0..work
  /\ log \in Seq({"event", "call", "resolved"}) /\ answered \in BOOLEAN
  /\ role \in [Tab -> {"away", "follower", "leader", "crashed"}]
  /\ waiting \in Seq(Tab) /\ \A t \in Tab : role[t] = "follower" <=> t \in Elements(waiting)
  /\ \A t \in Tab : frames[t] \in Seq(1..Len(log)) /\ flushed[t] \in 0..Len(frames[t])
  /\ connection \in [Tab -> Status] /\ shown \subseteq Tab
  /\ \A t \in Tab : inbox[t] \in Seq(Message)
  /\ heard \subseteq Tab
  /\ stream \in [pc : {"off", "opening", "streaming", "checking", "waiting"}, next : Nat, parked : BOOLEAN]
  /\ answering \subseteq dispatched /\ dispatched \subseteq Tab
  /\ troubles \in 0..MaxTroubles

\* Once a follower and the leader have read what the channel has for them they agree,
\* through any joining, leaving and taking over: the follower has every frame the leader
\* has relayed, the connection is the leader's, and the leader knows whether the follower is
\* shown (#joinTabs, #relayed).
FollowersAgree ==
  TypeOK /\ \A l, t \in Tab :
    Leads(l) /\ inbox[l] = <<>> /\ role[t] = "follower" /\ inbox[t] = <<>> =>
      /\ Elements(SubSeq(frames[l], 1, flushed[l])) \subseteq Known(t)
      /\ connection[t] = connection[l]
      /\ t \in heard <=> t \in shown

\* A leader runs the callback tool of every call it knows to wait, the ones the leader
\* before it was given included (the grant's flush in #joinTabs).
WaitingIsDispatched ==
  \A t \in Tab : Leads(t) /\ flushed[t] = Len(frames[t]) /\ Awaiting(t) => t \in dispatched

\* While a page is shown, whichever, the last of what the agent did gets to every tab that
\* stays: through the leader's stream, its poll and the channel, whoever leads.
NewsReach ==
  \A t \in Tab :
    <>[](Joined(t)) /\ <>[](\E u \in Tab : Joined(u) /\ u \in shown)
      => <>[](log # <<>> => Len(log) \in Known(t))

\* A tab has its frames in the order of the stream, and no hole in them ("A tab that joins
\* late gets what the leader already had", test/tabs.test.ts).
FramesInOrder == \A t \in Tab : \A i \in DOMAIN frames[t] : frames[t][i] = i

\* Only the holder runs callbackTools (shareAcrossTabs).
OnlyHolderRuns == [][\A t \in dispatched' \ dispatched : Leads(t) \/ Leads(t)']_vars

\* The polls stop while no tab following the session is shown (#waitForWork).
UnseenIsUnpolled ==
  \A t \in Tab :
    Leads(t) /\ inbox[t] = <<>> /\ (\A u \in shown : ~Joined(u)) => ~AnyShown(t)
=============================================================================
