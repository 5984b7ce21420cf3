---------------------------- MODULE StreamMerge ----------------------------
(***************************************************************************)
(* The client's merge of the streams of an agent and, recursively, of its  *)
(* subagents into one (harness/stream_merge): cursors that read ahead by   *)
(* one event, gates that hold an event back until its cause was emitted,   *)
(* and the loop that emits, waits and gives up on children.                *)
(*                                                                         *)
(* The streams are read, never written.  A scene says what they hold when  *)
(* all is said and how reading them ends; a read may return an event at    *)
(* any time after the one before it, which is what a reader sees of a      *)
(* stream that is still growing.  Offsets count from 1 here.               *)
(*                                                                         *)
(* The loop is one asyncio task and a read in flight is another: reads     *)
(* progress only where the loop suspends.  That is while it waits for      *)
(* reads, while it waits for a cancelled read to be gone, and while the    *)
(* consumer has an item and awaits something itself.  In a tight scene the *)
(* last two happen to be too short for any read to finish.  Which of the   *)
(* ready events is emitted is an injected policy, any of them here.        *)
(***************************************************************************)
EXTENDS Naturals, Sequences, FiniteSets

CONSTANTS
  Stream, \* the workflow ids of the agents
  Root,   \* the agent the consumer follows
  Scene   \* the situations considered, see SceneType

Child == Stream \ {Root}
Kind == {"turnStarted", "turnEnd", "other", "messageSent", "replyReceived", "subagentStopped"}

\* The last three fields are about a subagent, in the last three kinds of events.
Event == [kind : Kind, turn : Nat, child : Stream, childTurn : Nat, from : Nat]

SceneType ==
  [log    : [Stream -> Seq(Event)], \* what each stream holds
   closed : SUBSET Stream,          \* the streams that end, their workflow being complete
   broken : SUBSET Stream,          \* the streams a read of which may raise
   from   : Nat,                    \* root_from_offset
   skip   : Nat,                    \* the turn of skip_until_turn_id, 0 for None
   stop   : Nat,                    \* should_stop at the root's end of this turn, 0 for never
   tight  : BOOLEAN]                \* reads finish only while the loop waits for them

ASSUME RootAssumption == Root \in Stream
ASSUME SceneAssumption == \A sc \in Scene : sc \in SceneType

VARIABLES
  scene,     \* the scene of this run
  pc,        \* where the loop of _drive is
  outcome,   \* why the merge ended
  cursors,   \* _cursors: the mounted streams and their cursors
  waitingOn, \* the reads the loop is waiting for
  opened,    \* child turns whose messageSent was emitted
  ended,     \* child turns whose turnEnd was emitted: child_turn_ended
  gone,      \* the children given up on
  deadlines, \* _stall_deadlines of the children that block a reply
  pending,   \* the children in _pending_markers
  resume,    \* _root_resume_offset
  emitted    \* the merged stream so far

gateVars == <<opened, ended, gone>>
vars == <<scene, pc, outcome, cursors, waitingOn, gateVars, deadlines, pending, resume, emitted>>

NoHead == 0
Marker == 0 \* the offset of a subagent_stream_unavailable marker for a child

Cursor ==
  [read      : Nat, \* how far the stream was read
   head      : Nat, \* offset of the buffered event, or NoHead
   pull      : {"none", "inFlight", "done"}, \* pull_task: done is finished and not reaped
   exhausted : BOOLEAN,
   error     : BOOLEAN,
   skipping  : BOOLEAN]

NewCursor(from, skipping) ==
  [read |-> from, head |-> NoHead, pull |-> "none",
   exhausted |-> FALSE, error |-> FALSE, skipping |-> skipping]

Item == [stream : Stream, at : Nat]

TypeOK ==
  /\ scene \in Scene
  /\ pc \in {"loop", "yielded", "waiting", "closing", "done"}
  /\ outcome \in {"running", "stopped", "finished", "rootDied", "detached"}
  /\ DOMAIN cursors \subseteq Stream
  /\ cursors \in [DOMAIN cursors -> Cursor]
  /\ waitingOn \subseteq Stream
  /\ opened \subseteq Stream \X Nat
  /\ ended \subseteq Child \X Nat
  /\ gone \subseteq Stream
  /\ DOMAIN deadlines \subseteq Stream
  /\ deadlines \in [DOMAIN deadlines -> {"running", "elapsed"}]
  /\ pending \subseteq Stream
  /\ resume \in Nat
  /\ emitted \in Seq(Item)

Init ==
  /\ scene \in Scene
  /\ pc = "loop"
  /\ outcome = "running"
  /\ cursors = [s \in {Root} |-> NewCursor(scene.from, scene.skip # 0)]
  /\ waitingOn = {}
  /\ opened = {} /\ ended = {} /\ gone = {}
  /\ deadlines = [c \in {} |-> "running"]
  /\ pending = {}
  /\ resume = scene.from
  /\ emitted = <<>>

Mounted == DOMAIN cursors
EventAt(s, k) == scene.log[s][k]
HeadOf(s) == EventAt(s, cursors[s].head)
Without(f, S) == [s \in DOMAIN f \ S |-> f[s]]

-----------------------------------------------------------------------------
(* The gates. *)

\* Mutant: any turn of the child opens the gate for all of them.
OpenGateByChild(s, e) == s # Root /\ e.turn # 0 => \E p \in opened : p[1] = s

OpenGate(s, e) == s # Root /\ e.turn # 0 => <<s, e.turn>> \in opened
CloseGate(e) ==
  e.kind = "replyReceived" => <<e.child, e.childTurn>> \in ended \/ e.child \in gone
Ready(s, e) == OpenGate(s, e) /\ CloseGate(e)

Candidates == {s \in Mounted : cursors[s].head # NoHead /\ Ready(s, HeadOf(s))}

\* _stuck_close_gate_children
Stuck ==
  {HeadOf(s).child : s \in {t \in Mounted :
     /\ cursors[t].head # NoHead
     /\ HeadOf(t).kind = "replyReceived"
     /\ ~Ready(t, HeadOf(t))}}

\* _abandoned_a_turn
AbandonedATurn(c) == \E turn \in {p[2] : p \in opened} : <<c, turn>> \in opened \ ended

-----------------------------------------------------------------------------
(* Reading.  A read in flight is a task of its own, see cursor.py pull. *)

Suspended == pc = "waiting" \/ (pc \in {"closing", "yielded"} /\ ~scene.tight)

Reading(s) == Suspended /\ s \in Mounted /\ cursors[s].pull = "inFlight"

\* What the read may return: with skip_until_turn_id, nothing before that turn's start.
Wanted(s) ==
  {k \in (cursors[s].read + 1)..Len(scene.log[s]) :
     cursors[s].skipping =>
       EventAt(s, k).kind = "turnStarted" /\ EventAt(s, k).turn = scene.skip}

ReadUnchanged ==
  UNCHANGED <<scene, pc, outcome, waitingOn, gateVars, deadlines, pending, resume, emitted>>

PullEvent(s) ==
  /\ Reading(s)
  /\ \E k \in Wanted(s) :
       /\ \A other \in Wanted(s) : k <= other
       /\ cursors' = [cursors EXCEPT ![s] =
            [@ EXCEPT !.read = k, !.head = k, !.pull = "done", !.skipping = FALSE]]
  /\ ReadUnchanged

PullEnd(s) ==
  /\ Reading(s) /\ Wanted(s) = {} /\ s \in scene.closed
  /\ cursors' = [cursors EXCEPT ![s].exhausted = TRUE, ![s].pull = "done"]
  /\ ReadUnchanged

PullFails(s) ==
  /\ Reading(s) /\ s \in scene.broken
  /\ cursors' = [cursors EXCEPT ![s].exhausted = TRUE, ![s].error = TRUE, ![s].pull = "done"]
  /\ ReadUnchanged

\* The stall grace of a child that blocks a reply is over.
Elapse(c) ==
  /\ Suspended /\ c \in DOMAIN deadlines /\ deadlines[c] = "running"
  /\ deadlines' = [deadlines EXCEPT ![c] = "elapsed"]
  /\ UNCHANGED <<scene, pc, outcome, cursors, waitingOn, gateVars, pending, resume, emitted>>

-----------------------------------------------------------------------------
(* The loop. *)

\* _ensure_pulls
EnsurePulls(cs) ==
  [s \in DOMAIN cs |->
     IF cs[s].head = NoHead /\ ~cs[s].exhausted /\ cs[s].pull = "none"
     THEN [cs[s] EXCEPT !.pull = "inFlight"] ELSE cs[s]]

\* _teardown
Teardown(cs) ==
  [s \in DOMAIN cs |-> IF cs[s].pull = "inFlight" THEN [cs[s] EXCEPT !.pull = "none"] ELSE cs[s]]

\* Closing a cursor suspends the loop until its cancelled read is gone.
AfterUnmount(cs, C) ==
  IF \E c \in C \cap DOMAIN cs : cs[c].pull = "inFlight" THEN "closing" ELSE "loop"

\* Every _give_up of C, from the cursors cs and the deadlines ds.
GiveUp(C, cs, ds) ==
  /\ pending' = pending \cup {c \in C \ gone : AbandonedATurn(c)}
  /\ gone' = gone \cup C
  /\ cursors' = Without(cs, C \ {Root})
  /\ deadlines' = Without(ds, C)
  /\ UNCHANGED <<opened, ended>>

EmitMarker ==
  /\ pc = "loop"
  /\ \E c \in pending :
       /\ pending' = pending \ {c}
       /\ emitted' = Append(emitted, [stream |-> c, at |-> Marker])
  /\ pc' = "yielded"
  /\ UNCHANGED <<scene, outcome, cursors, waitingOn, gateVars, deadlines, resume>>

Emit(s) ==
  /\ pc = "loop" /\ pending = {} /\ s \in Candidates
  /\ emitted' = Append(emitted, [stream |-> s, at |-> cursors[s].head])
  /\ cursors' = [EnsurePulls(cursors) EXCEPT ![s].head = NoHead]
  /\ resume' = IF s = Root THEN cursors[s].head ELSE resume
  /\ pc' = "yielded"
  /\ UNCHANGED <<scene, outcome, waitingOn, gateVars, deadlines, pending>>

\* The item the consumer has, or had last.
Last == emitted[Len(emitted)]
LastEvent == EventAt(Last.stream, Last.at)

ResumeFromMarker ==
  /\ pc = "yielded" /\ Last.at = Marker
  /\ pc' = "loop"
  /\ UNCHANGED <<scene, outcome, cursors, waitingOn, gateVars, deadlines, pending, resume, emitted>>

\* Mutant: a second mount does not bring a child back that was given up on.
MountStaleGone(c, from) ==
  IF c \in Mounted THEN UNCHANGED <<cursors, gone>>
  ELSE /\ UNCHANGED gone
       /\ cursors' = [s \in Mounted \cup {c} |->
                        IF s = c THEN NewCursor(from, FALSE) ELSE cursors[s]]

\* _mount, of a child
Mount(c, from) ==
  IF c \in Mounted THEN UNCHANGED <<cursors, gone>>
  ELSE /\ gone' = gone \ {c}
       /\ cursors' = [s \in Mounted \cup {c} |->
                        IF s = c THEN NewCursor(from, FALSE) ELSE cursors[s]]

ResumeFromMessageSent ==
  /\ pc = "yielded" /\ Last.at # Marker /\ LastEvent.kind = "messageSent"
  /\ opened' = opened \cup {<<LastEvent.child, LastEvent.childTurn>>}
  /\ Mount(LastEvent.child, LastEvent.from)
  /\ pc' = "loop"
  /\ UNCHANGED <<scene, outcome, waitingOn, ended, deadlines, pending, resume, emitted>>

ResumeFromStopped ==
  /\ pc = "yielded" /\ Last.at # Marker /\ LastEvent.kind = "subagentStopped"
  /\ gone' = gone \cup {LastEvent.child}
  /\ cursors' = Without(cursors, {LastEvent.child} \ {Root})
  /\ pc' = AfterUnmount(cursors, {LastEvent.child} \ {Root})
  /\ UNCHANGED <<scene, outcome, waitingOn, opened, ended, deadlines, pending, resume, emitted>>

EndedBy(s, e) == IF e.kind = "turnEnd" /\ s # Root THEN {<<s, e.turn>>} ELSE {}

Stops(s, e) == s = Root /\ e.kind = "turnEnd" /\ e.turn = scene.stop

ResumeFromOther ==
  /\ pc = "yielded" /\ Last.at # Marker
  /\ LastEvent.kind \notin {"messageSent", "subagentStopped"}
  /\ ended' = ended \cup EndedBy(Last.stream, LastEvent)
  /\ IF Stops(Last.stream, LastEvent)
     THEN pc' = "done" /\ outcome' = "stopped" /\ cursors' = Teardown(cursors)
     ELSE pc' = "loop" /\ UNCHANGED <<outcome, cursors>>
  /\ UNCHANGED <<scene, waitingOn, opened, gone, deadlines, pending, resume, emitted>>

-----------------------------------------------------------------------------
(* The loop when no head is ready. *)

Blocked == pc = "loop" /\ pending = {} /\ Candidates = {}

\* Mutant: one timer for all, started anew by every pass of the loop.
SyncedAnew == [c \in Stuck |-> "running"]

\* _sync_stall_deadlines
Synced ==
  [c \in Stuck |-> IF c \in DOMAIN deadlines THEN deadlines[c] ELSE "running"]

\* Mutant: a child that blocks a reply has no time to deliver.
HopelessAtOnce == Stuck

Hopeless == {c \in Stuck : c \notin Mounted \/ Synced[c] = "elapsed"}

InFlight(cs) == {s \in DOMAIN cs : cs[s].pull = "inFlight"}

GiveUpOn(C) ==
  /\ GiveUp(C, EnsurePulls(cursors), Synced)
  /\ pc' = AfterUnmount(EnsurePulls(cursors), C)
  /\ UNCHANGED <<scene, outcome, waitingOn, resume, emitted>>

GiveUpHopeless == Blocked /\ Hopeless # {} /\ GiveUpOn(Hopeless)

Wait ==
  /\ Blocked /\ Hopeless = {} /\ InFlight(EnsurePulls(cursors)) # {}
  /\ cursors' = EnsurePulls(cursors)
  /\ waitingOn' = InFlight(EnsurePulls(cursors))
  /\ deadlines' = Synced
  /\ pc' = "waiting"
  /\ UNCHANGED <<scene, outcome, gateVars, pending, resume, emitted>>

NothingInFlight == Blocked /\ Hopeless = {} /\ InFlight(EnsurePulls(cursors)) = {}

GiveUpStuck == NothingInFlight /\ Stuck # {} /\ GiveUpOn(Stuck)

Finish ==
  /\ NothingInFlight /\ Stuck = {}
  /\ pc' = "done" /\ outcome' = "finished"
  /\ deadlines' = Synced
  /\ UNCHANGED <<scene, cursors, waitingOn, gateVars, pending, resume, emitted>>

Delivered == {s \in waitingOn \cap Mounted : cursors[s].pull = "done"}

\* _collect_completed_pulls: every finished read, the ones not waited for too.
Finished == {s \in Mounted : cursors[s].pull = "done"}
Reaped(cs) == [s \in DOMAIN cs |-> IF s \in Finished THEN [cs[s] EXCEPT !.pull = "none"] ELSE cs[s]]
Departed ==
  {s \in Finished \ {Root} : cursors[s].error \/ (cursors[s].exhausted /\ cursors[s].head = NoHead)}
Progressed == {s \in Finished : ~cursors[s].error /\ cursors[s].head # NoHead}

Collect ==
  /\ pc = "waiting" /\ Delivered # {}
  /\ waitingOn' = {}
  /\ IF Root \in Finished /\ cursors[Root].error
     THEN /\ GiveUp(Departed, Teardown(Reaped(cursors)), Without(deadlines, Progressed))
          /\ pc' = "done" /\ outcome' = "rootDied"
     ELSE /\ GiveUp(Departed, Reaped(cursors), Without(deadlines, Progressed))
          /\ pc' = "loop" /\ UNCHANGED outcome
  /\ UNCHANGED <<scene, resume, emitted>>

Timeout ==
  /\ pc = "waiting" /\ Delivered = {}
  /\ \E c \in DOMAIN deadlines : deadlines[c] = "elapsed"
  /\ waitingOn' = {}
  /\ pc' = "loop"
  /\ UNCHANGED <<scene, outcome, cursors, gateVars, deadlines, pending, resume, emitted>>

\* The cancelled read of an unmounted cursor is gone.
Closed ==
  /\ pc = "closing"
  /\ pc' = "loop"
  /\ UNCHANGED <<scene, outcome, cursors, waitingOn, gateVars, deadlines, pending, resume, emitted>>

\* The consumer closes the stream, or its timeout does.
Detach ==
  /\ pc \in {"yielded", "waiting", "closing"}
  /\ pc' = "done" /\ outcome' = "detached"
  /\ cursors' = Teardown(cursors)
  /\ UNCHANGED <<scene, waitingOn, gateVars, deadlines, pending, resume, emitted>>

Loop ==
  \/ EmitMarker \/ ResumeFromMarker
  \/ \E s \in Stream : Emit(s)
  \/ ResumeFromMessageSent \/ ResumeFromStopped \/ ResumeFromOther
  \/ GiveUpHopeless \/ Wait \/ GiveUpStuck \/ Finish
  \/ Collect \/ Timeout \/ Closed

Next ==
  \/ Loop
  \/ \E s \in Stream : PullEvent(s) \/ PullEnd(s) \/ PullFails(s) \/ Elapse(s)
  \/ Detach

Spec == Init /\ [][Next]_vars

\* The loop runs, the consumer comes back, time passes, and the root's stream is
\* read.  Nothing is assumed of reads of a child's stream.
FairSpec ==
  /\ Spec
  /\ WF_vars(Loop)
  /\ \A s \in Stream : WF_vars(Elapse(s))
  /\ WF_vars(PullEvent(Root)) /\ WF_vars(PullEnd(Root))
-----------------------------------------------------------------------------
(* What a consumer of the merged stream may rely on. *)

Shown == {i \in 1..Len(emitted) : emitted[i].at # Marker}
ShownEvent(i) == EventAt(emitted[i].stream, emitted[i].at)
Sent(i, c) == i \in Shown /\ ShownEvent(i).kind = "messageSent" /\ ShownEvent(i).child = c
MarkerFor(i, c) == emitted[i] = [stream |-> c, at |-> Marker]
StoppedAt(i, c) ==
  i \in Shown /\ ShownEvent(i).kind = "subagentStopped" /\ ShownEvent(i).child = c

\* The open bracket: an event of a child's turn comes after the message that caused
\* the turn, whatever streams the two are on and however they were read (gates.py:109,
\* stream_merge/README.md:25).
CauseFirst ==
  \A i \in Shown : emitted[i].stream # Root /\ ShownEvent(i).turn # 0 =>
    \E j \in 1..(i - 1) :
      Sent(j, emitted[i].stream) /\ ShownEvent(j).childTurn = ShownEvent(i).turn

\* The close bracket: when a reply to a message that was shown is shown, then so was,
\* in between, the end of the child's turn, or the consumer was told that it will not
\* be: by a marker, or by the child having been stopped (gates.py:125, merge.py:404).
NoSilentLoss ==
  \A i \in Shown : ShownEvent(i).kind = "replyReceived" =>
    LET c == ShownEvent(i).child
        t == ShownEvent(i).childTurn
    IN \A j \in 1..(i - 1) : Sent(j, c) /\ ShownEvent(j).childTurn = t =>
         \E k \in (j + 1)..(i - 1) :
           \/ MarkerFor(k, c) \/ StoppedAt(k, c)
           \/ k \in Shown /\ emitted[k].stream = c
                /\ ShownEvent(k).kind = "turnEnd" /\ ShownEvent(k).turn = t

\* Each stream is shown in its own order without gaps or repetitions, and resume is
\* where the root's stands.  The one exception is a child that was given up on or
\* stopped, or that departed between two turns, and is sent another message: it goes
\* on where the message says, be that a place it had already passed
\* (merge.py:132 and 215, stream_merge/README.md:31).
InOrder ==
  /\ \A j \in Shown : LET s == emitted[j].stream
                          before == {i \in Shown : i < j /\ emitted[i].stream = s}
                      IN \A i \in before :
       (\A k \in before : k <= i) =>
         \/ emitted[j].at = emitted[i].at + 1
         \/ /\ \E m \in i..j : Sent(m, s) /\ ShownEvent(m).from + 1 = emitted[j].at
            /\ \/ s \in scene.broken \cup scene.closed
               \/ \E k \in i..j : MarkerFor(k, s) \/ StoppedAt(k, s)
  /\ LET root == {i \in Shown : emitted[i].stream = Root}
     IN IF root = {} THEN resume = scene.from
        ELSE \E i \in root : (\A k \in root : k <= i) /\ resume = emitted[i].at

\* In a tight scene the merge gives up on a child only if the child was stopped, or
\* can deliver nothing, or was silent for its grace, or stands at an event of a turn
\* that no message shown has caused (merge.py:250-261, 295-301).
GivesUpWithCause ==
  [][scene.tight => \A c \in gone' \ gone :
       \/ StoppedAt(Len(emitted), c)
       \/ c \notin Mounted
       \/ cursors[c].exhausted
       \/ c \in DOMAIN deadlines /\ deadlines[c] = "elapsed"
       \/ cursors[c].head # NoHead /\ ~OpenGate(c, HeadOf(c))]_vars

\* Nothing is stranded when the merge ends of itself: each stream still mounted has
\* ended, or is held at an event whose cause was never shown (merge.py:295-297,
\* stream_merge/README.md step 4).
Drained ==
  outcome = "finished" =>
    \A s \in Mounted : cursors[s].exhausted \/ cursors[s].head # NoHead

\* It is so in a tight scene.
TightDrained == scene.tight => Drained

\* A consumer misses nothing of a turn without being told, reads no event twice, and
\* is left with nothing stranded.
NothingIsLost == NoSilentLoss /\ InOrder /\ TightDrained

\* A child that hangs, ends early or cannot be read does not then keep the
\* root's events from the consumer (merge.py:29-39, gates.py:76-81).
RootShown ==
  LET shown == {emitted[i].at : i \in {j \in Shown : emitted[j].stream = Root}}
  IN \A k \in (scene.from + 1)..Len(scene.log[Root]) :
       \/ k \in shown
       \/ \A m \in shown : m > k
       \/ \E m \in shown : m < k /\ Stops(Root, EventAt(Root, m))
RootFlows ==
  scene.tight /\ Root \notin scene.broken
    ~> outcome = "detached" \/ (emitted # <<>> /\ RootShown)
=============================================================================
