------------------------- MODULE StreamMergeProofs -------------------------
(***************************************************************************)
(* Theorems about StreamMerge, for any streams and any scenes: the types,  *)
(* and that a child's event is never shown before the message that caused  *)
(* it.                                                                     *)
(***************************************************************************)
EXTENDS StreamMerge, TLAPS

\* What is buffered and what was shown is in the streams' logs.
InLogs ==
  /\ \A s \in Mounted : cursors[s].head # NoHead => cursors[s].head \in 1..Len(scene.log[s])
  /\ \A i \in Shown : emitted[i].at \in 1..Len(scene.log[emitted[i].stream])
  /\ pc = "yielded" => emitted # <<>>

MergeInv == TypeOK /\ InLogs

\* A turn is open only if a message that causes it was shown.
OpenedBySent ==
  \A p \in opened : \E j \in 1..Len(emitted) : Sent(j, p[1]) /\ ShownEvent(j).childTurn = p[2]

-----------------------------------------------------------------------------
(* What the helpers return. *)

LEMMA EventType ==
  ASSUME TypeOK, NEW s \in Stream, NEW k \in 1..Len(scene.log[s])
  PROVE  EventAt(s, k) \in Event
<1>1. scene \in SceneType
  BY SceneAssumption DEF TypeOK
<1>2. scene.log[s] \in Seq(Event)
  BY <1>1 DEF SceneType
<1>3. QED
  BY <1>2 DEF EventAt

LEMMA HeadEvent ==
  ASSUME MergeInv, NEW s \in Mounted, cursors[s].head # NoHead
  PROVE  HeadOf(s) \in Event
<1>1. s \in Stream /\ cursors[s].head \in 1..Len(scene.log[s])
  BY DEF MergeInv, TypeOK, InLogs, Mounted
<1>2. QED
  BY <1>1, EventType DEF MergeInv, HeadOf

LEMMA StuckType ==
  ASSUME MergeInv
  PROVE  Stuck \subseteq Stream
<1>1. ASSUME NEW s \in Mounted, cursors[s].head # NoHead
      PROVE  HeadOf(s).child \in Stream
  BY <1>1, HeadEvent DEF Event
<1>2. QED
  BY <1>1 DEF Stuck

LEMMA SyncedType ==
  ASSUME MergeInv
  PROVE  DOMAIN Synced \subseteq Stream /\ Synced \in [DOMAIN Synced -> {"running", "elapsed"}]
BY StuckType DEF MergeInv, TypeOK, Synced

\* A map of cursors that a step may leave: of the right types, its heads in the logs.
GoodCursors(cs) ==
  /\ DOMAIN cs \subseteq Stream
  /\ cs \in [DOMAIN cs -> Cursor]
  /\ \A s \in DOMAIN cs : cs[s].head # NoHead => cs[s].head \in 1..Len(scene.log[s])

LEMMA CursorsAreGood ==
  ASSUME MergeInv PROVE GoodCursors(cursors)
BY DEF MergeInv, TypeOK, InLogs, GoodCursors, Mounted

LEMMA EnsurePullsGood ==
  ASSUME NEW cs, GoodCursors(cs) PROVE GoodCursors(EnsurePulls(cs))
<1>1. DOMAIN EnsurePulls(cs) = DOMAIN cs
  BY DEF EnsurePulls
<1>2. ASSUME NEW s \in DOMAIN cs
      PROVE  EnsurePulls(cs)[s] \in Cursor /\ EnsurePulls(cs)[s].head = cs[s].head
  <2>1. cs[s] \in Cursor
    BY DEF GoodCursors
  <2>2. [cs[s] EXCEPT !.pull = "inFlight"] \in Cursor
    BY <2>1 DEF Cursor
  <2>3. [cs[s] EXCEPT !.pull = "inFlight"].head = cs[s].head
    BY <2>1 DEF Cursor
  <2>4. QED
    BY <2>1, <2>2, <2>3 DEF EnsurePulls
<1>3. EnsurePulls(cs) \in [DOMAIN cs -> Cursor]
  BY <1>1, <1>2 DEF EnsurePulls
<1>4. QED
  BY <1>1, <1>2, <1>3 DEF GoodCursors

LEMMA TeardownGood ==
  ASSUME NEW cs, GoodCursors(cs) PROVE GoodCursors(Teardown(cs))
<1>1. DOMAIN Teardown(cs) = DOMAIN cs
  BY DEF Teardown
<1>2. ASSUME NEW s \in DOMAIN cs
      PROVE  Teardown(cs)[s] \in Cursor /\ Teardown(cs)[s].head = cs[s].head
  <2>1. cs[s] \in Cursor
    BY DEF GoodCursors
  <2>2. [cs[s] EXCEPT !.pull = "none"] \in Cursor
    BY <2>1 DEF Cursor
  <2>3. [cs[s] EXCEPT !.pull = "none"].head = cs[s].head
    BY <2>1 DEF Cursor
  <2>4. QED
    BY <2>1, <2>2, <2>3 DEF Teardown
<1>3. Teardown(cs) \in [DOMAIN cs -> Cursor]
  BY <1>1, <1>2 DEF Teardown
<1>4. QED
  BY <1>1, <1>2, <1>3 DEF GoodCursors

LEMMA ReapedGood ==
  ASSUME NEW cs, GoodCursors(cs) PROVE GoodCursors(Reaped(cs))
<1>1. DOMAIN Reaped(cs) = DOMAIN cs
  BY DEF Reaped
<1>2. ASSUME NEW s \in DOMAIN cs
      PROVE  Reaped(cs)[s] \in Cursor /\ Reaped(cs)[s].head = cs[s].head
  <2>1. cs[s] \in Cursor
    BY DEF GoodCursors
  <2>2. [cs[s] EXCEPT !.pull = "none"] \in Cursor
    BY <2>1 DEF Cursor
  <2>3. [cs[s] EXCEPT !.pull = "none"].head = cs[s].head
    BY <2>1 DEF Cursor
  <2>4. QED
    BY <2>1, <2>2, <2>3 DEF Reaped
<1>3. Reaped(cs) \in [DOMAIN cs -> Cursor]
  BY <1>1, <1>2 DEF Reaped
<1>4. QED
  BY <1>1, <1>2, <1>3 DEF GoodCursors

LEMMA WithoutGood ==
  ASSUME NEW cs, GoodCursors(cs), NEW C PROVE GoodCursors(Without(cs, C))
BY DEF GoodCursors, Without

LEMMA NewCursorType ==
  ASSUME NEW from \in Nat, NEW skipping \in BOOLEAN
  PROVE  NewCursor(from, skipping) \in Cursor /\ NewCursor(from, skipping).head = NoHead
BY DEF NewCursor, Cursor, NoHead

LEMMA Longer ==
  ASSUME NEW seq \in Seq(Item), NEW item \in Item
  PROVE  /\ Append(seq, item) \in Seq(Item)
         /\ Append(seq, item) # <<>>
         /\ Len(seq) \in Nat
         /\ Len(Append(seq, item)) = Len(seq) + 1
         /\ \A i \in 1..Len(seq) : Append(seq, item)[i] = seq[i]
         /\ Append(seq, item)[Len(seq) + 1] = item
OBVIOUS

\* A step that shows nothing keeps the invariant if it leaves good cursors and the
\* right types.
LEMMA SilentStep ==
  ASSUME MergeInv, UNCHANGED <<scene, emitted, resume>>, GoodCursors(cursors'),
         pc' \in {"loop", "waiting", "closing", "done"},
         outcome' \in {"running", "stopped", "finished", "rootDied", "detached"},
         waitingOn' \subseteq Stream, pending' \subseteq Stream,
         opened' \subseteq Stream \X Nat, ended' \subseteq Child \X Nat, gone' \subseteq Stream,
         DOMAIN deadlines' \subseteq Stream,
         deadlines' \in [DOMAIN deadlines' -> {"running", "elapsed"}]
  PROVE  MergeInv'
<1>1. TypeOK'
  BY DEF MergeInv, TypeOK, GoodCursors
<1>2. InLogs'
  BY DEF MergeInv, InLogs, GoodCursors, Shown, Mounted
<1>3. QED
  BY <1>1, <1>2 DEF MergeInv

\* The same for a read, which leaves the loop where it is.
LEMMA ReadStep ==
  ASSUME MergeInv, ReadUnchanged, GoodCursors(cursors')
  PROVE  MergeInv'
<1>1. TypeOK'
  BY DEF MergeInv, TypeOK, GoodCursors, ReadUnchanged, gateVars
<1>2. InLogs'
  BY DEF MergeInv, InLogs, GoodCursors, Shown, Mounted, ReadUnchanged
<1>3. QED
  BY <1>1, <1>2 DEF MergeInv

\* Giving up on children leaves good cursors and the right types.
LEMMA GiveUpGood ==
  ASSUME MergeInv, NEW C \in SUBSET Stream, NEW cs, NEW ds, GoodCursors(cs),
         DOMAIN ds \subseteq Stream, ds \in [DOMAIN ds -> {"running", "elapsed"}],
         GiveUp(C, cs, ds)
  PROVE  /\ GoodCursors(cursors')
         /\ pending' \subseteq Stream
         /\ opened' \subseteq Stream \X Nat /\ ended' \subseteq Child \X Nat /\ gone' \subseteq Stream
         /\ DOMAIN deadlines' \subseteq Stream
         /\ deadlines' \in [DOMAIN deadlines' -> {"running", "elapsed"}]
<1>1. GoodCursors(cursors')
  BY WithoutGood DEF GiveUp
<1>2. DOMAIN deadlines' \subseteq Stream /\ deadlines' \in [DOMAIN deadlines' -> {"running", "elapsed"}]
  BY DEF GiveUp, Without
<1>3. pending' \subseteq Stream /\ gone' \subseteq Stream
  BY DEF GiveUp, MergeInv, TypeOK
<1>4. opened' \subseteq Stream \X Nat /\ ended' \subseteq Child \X Nat
  BY DEF GiveUp, MergeInv, TypeOK
<1>5. QED
  BY <1>1, <1>2, <1>3, <1>4

\* What the consumer has is in its stream's log.
LEMMA LastType ==
  ASSUME MergeInv, pc = "yielded", Last.at # Marker
  PROVE  Last \in Item /\ LastEvent \in Event
<1>1. emitted \in Seq(Item) /\ emitted # <<>>
  BY DEF MergeInv, TypeOK, InLogs
<1>2. Len(emitted) \in 1..Len(emitted)
  BY <1>1
<1>3. Last \in Item
  BY <1>1, <1>2 DEF Last
<1>4. Last.at \in 1..Len(scene.log[Last.stream]) /\ Last.stream \in Stream
  BY <1>2, <1>3 DEF MergeInv, InLogs, Shown, Last, Item
<1>5. QED
  BY <1>3, <1>4, EventType DEF MergeInv, LastEvent

-----------------------------------------------------------------------------
(* Each action keeps the invariant. *)

LEMMA PullEventKeeps ==
  ASSUME MergeInv, NEW s \in Stream, PullEvent(s) PROVE MergeInv'
<1>1. PICK k \in Wanted(s) :
        cursors' = [cursors EXCEPT ![s] =
          [@ EXCEPT !.read = k, !.head = k, !.pull = "done", !.skipping = FALSE]]
  BY DEF PullEvent
<1>2. s \in DOMAIN cursors /\ cursors \in [DOMAIN cursors -> Cursor] /\ DOMAIN cursors \subseteq Stream
  BY DEF PullEvent, Reading, Mounted, MergeInv, TypeOK
<1>3. cursors[s].read \in Nat
  BY <1>2 DEF Cursor
<1>4. k \in Nat /\ k \in 1..Len(scene.log[s])
  BY <1>3 DEF Wanted
<1>5. DEFINE new == [cursors[s] EXCEPT !.read = k, !.head = k, !.pull = "done", !.skipping = FALSE]
<1>6. cursors[s] \in Cursor
  BY <1>2
<1>7. new \in Cursor /\ new.head = k
  BY <1>4, <1>6 DEF Cursor
<1>8. cursors' = [cursors EXCEPT ![s] = new]
  BY <1>1
<1>9. GoodCursors(cursors')
  <2>1. UNCHANGED scene
    BY DEF PullEvent, ReadUnchanged
  <2> HIDE DEF new
  <2>2. QED
    BY <1>2, <1>4, <1>7, <1>8, CursorsAreGood DEF GoodCursors
<1>10. QED
  BY <1>9, ReadStep DEF PullEvent

\* A read that delivers nothing changes no head.
LEMMA HeadKept ==
  ASSUME MergeInv, NEW s \in Mounted, NEW new \in Cursor, new.head = cursors[s].head,
         cursors' = [cursors EXCEPT ![s] = new]
  PROVE  GoodCursors(cursors')
BY CursorsAreGood DEF GoodCursors, Mounted

LEMMA PullEndKeeps ==
  ASSUME MergeInv, NEW s \in Stream, PullEnd(s) PROVE MergeInv'
<1>1. s \in Mounted /\ cursors[s] \in Cursor
  BY DEF PullEnd, Reading, Mounted, MergeInv, TypeOK
<1>2. DEFINE new == [cursors[s] EXCEPT !.exhausted = TRUE, !.pull = "done"]
<1>3. new \in Cursor /\ new.head = cursors[s].head
  BY <1>1 DEF Cursor
<1>4. cursors' = [cursors EXCEPT ![s] = new]
  BY <1>1 DEF PullEnd, Mounted
<1> HIDE DEF new
<1>5. QED
  BY <1>1, <1>3, <1>4, HeadKept, ReadStep DEF PullEnd

LEMMA PullFailsKeeps ==
  ASSUME MergeInv, NEW s \in Stream, PullFails(s) PROVE MergeInv'
<1>1. s \in Mounted /\ cursors[s] \in Cursor
  BY DEF PullFails, Reading, Mounted, MergeInv, TypeOK
<1>2. DEFINE new == [cursors[s] EXCEPT !.exhausted = TRUE, !.error = TRUE, !.pull = "done"]
<1>3. new \in Cursor /\ new.head = cursors[s].head
  BY <1>1 DEF Cursor
<1>4. cursors' = [cursors EXCEPT ![s] = new]
  BY <1>1 DEF PullFails, Mounted
<1> HIDE DEF new
<1>5. QED
  BY <1>1, <1>3, <1>4, HeadKept, ReadStep DEF PullFails

LEMMA ElapseKeeps ==
  ASSUME MergeInv, NEW c \in Stream, Elapse(c) PROVE MergeInv'
<1>1. TypeOK'
  BY DEF MergeInv, TypeOK, Elapse, gateVars
<1>2. InLogs'
  BY DEF MergeInv, InLogs, Elapse, Shown, Mounted
<1>3. QED
  BY <1>1, <1>2 DEF MergeInv

LEMMA EmitKeeps ==
  ASSUME MergeInv, NEW s \in Stream, Emit(s) PROVE MergeInv'
<1>1. /\ s \in Mounted /\ cursors[s].head # NoHead
      /\ cursors[s].head \in 1..Len(scene.log[s])
      /\ cursors[s].head \in Nat
  BY DEF Emit, Candidates, MergeInv, TypeOK, InLogs, Mounted, Cursor
<1>2. DEFINE item == [stream |-> s, at |-> cursors[s].head]
<1>3. item \in Item /\ emitted' = Append(emitted, item) /\ emitted \in Seq(Item)
  BY <1>1 DEF Emit, Item, MergeInv, TypeOK
<1>4. DEFINE cs == EnsurePulls(cursors)
<1>5. GoodCursors(cs) /\ s \in DOMAIN cs /\ DOMAIN cs = DOMAIN cursors
  BY <1>1, CursorsAreGood, EnsurePullsGood DEF EnsurePulls, Mounted
<1>6. DEFINE new == [cs[s] EXCEPT !.head = NoHead]
<1>7. new \in Cursor /\ new.head = NoHead
  <2>1. cs[s] \in Cursor
    BY <1>5 DEF GoodCursors
  <2> HIDE DEF cs
  <2>2. QED
    BY <2>1 DEF Cursor, NoHead
<1>8. cursors' = [cs EXCEPT ![s] = new]
  BY DEF Emit
<1>9. GoodCursors(cursors')
  <2> HIDE DEF cs, new
  <2>1. QED
    BY <1>5, <1>7, <1>8 DEF GoodCursors
<1>10. /\ UNCHANGED <<scene, outcome, waitingOn, opened, ended, gone, deadlines, pending>>
       /\ pc' = "yielded" /\ resume' \in Nat
  BY <1>1 DEF Emit, gateVars, MergeInv, TypeOK
<1> HIDE DEF item, cs, new
<1>11. emitted' \in Seq(Item) /\ emitted' # <<>>
  BY <1>3, Longer
<1>12. TypeOK'
  BY <1>9, <1>10, <1>11 DEF MergeInv, TypeOK, GoodCursors
<1>13. \A i \in Shown' : emitted'[i].at \in 1..Len(scene.log[emitted'[i].stream])
  <2> SUFFICES ASSUME NEW i \in Shown'
               PROVE  emitted'[i].at \in 1..Len(scene.log[emitted'[i].stream])
    OBVIOUS
  <2>1. CASE i = Len(emitted) + 1
    <3>1. emitted'[i] = item
      BY <1>3, <2>1, Longer
    <3>2. QED
      BY <1>1, <3>1 DEF item
  <2>2. CASE i # Len(emitted) + 1
    <3>1. i \in 1..Len(emitted) /\ emitted'[i] = emitted[i]
      BY <1>3, <2>2, Longer DEF Shown
    <3>2. QED
      BY <3>1 DEF Shown, MergeInv, InLogs
  <2>3. QED
    BY <2>1, <2>2
<1>14. InLogs'
  BY <1>9, <1>10, <1>11, <1>13 DEF InLogs, GoodCursors, Mounted
<1>15. QED
  BY <1>12, <1>14 DEF MergeInv

LEMMA EmitMarkerKeeps ==
  ASSUME MergeInv, EmitMarker PROVE MergeInv'
<1>1. PICK c \in pending :
        pending' = pending \ {c} /\ emitted' = Append(emitted, [stream |-> c, at |-> Marker])
  BY DEF EmitMarker
<1>2. DEFINE item == [stream |-> c, at |-> Marker]
<1>3. item \in Item /\ item.at = Marker /\ emitted \in Seq(Item)
  BY DEF Item, Marker, MergeInv, TypeOK
<1>4. emitted' = Append(emitted, item)
  BY <1>1
<1> HIDE DEF item
<1>5. emitted' \in Seq(Item) /\ emitted' # <<>>
  BY <1>3, <1>4, Longer
<1>6. /\ UNCHANGED <<scene, outcome, cursors, waitingOn, opened, ended, gone, deadlines, resume>>
      /\ pc' = "yielded" /\ pending' \subseteq Stream
  BY <1>1 DEF EmitMarker, gateVars, MergeInv, TypeOK
<1>7. TypeOK'
  BY <1>5, <1>6 DEF MergeInv, TypeOK
<1>8. \A i \in Shown' : i \in Shown /\ emitted'[i] = emitted[i]
  BY <1>3, <1>4, Longer DEF Shown
<1>9. InLogs'
  BY <1>5, <1>6, <1>8 DEF MergeInv, InLogs, Mounted
<1>10. QED
  BY <1>7, <1>9 DEF MergeInv

LEMMA MessageSentKeeps ==
  ASSUME MergeInv, ResumeFromMessageSent PROVE MergeInv'
<1>1. LastEvent \in Event
  BY LastType DEF ResumeFromMessageSent
<1>2. LastEvent.child \in Stream /\ LastEvent.childTurn \in Nat /\ LastEvent.from \in Nat
  BY <1>1 DEF Event
<1>3. Mount(LastEvent.child, LastEvent.from)
  BY DEF ResumeFromMessageSent
<1>4. gone' \subseteq Stream /\ GoodCursors(cursors')
  <2>1. CASE LastEvent.child \in Mounted
    BY <1>3, <2>1, CursorsAreGood DEF Mount, MergeInv, TypeOK
  <2>2. CASE LastEvent.child \notin Mounted
    <3>1. gone' \subseteq Stream
      BY <1>3, <2>2 DEF Mount, MergeInv, TypeOK
    <3>2. DEFINE new == NewCursor(LastEvent.from, FALSE)
    <3>3. new \in Cursor /\ new.head = NoHead
      BY <1>2, NewCursorType
    <3>4. cursors' = [t \in Mounted \cup {LastEvent.child} |->
                        IF t = LastEvent.child THEN new ELSE cursors[t]]
      BY <1>3, <2>2 DEF Mount
    <3> HIDE DEF new
    <3>5. GoodCursors(cursors')
      BY <1>2, <3>3, <3>4, CursorsAreGood DEF GoodCursors, Mounted
    <3>6. QED
      BY <3>1, <3>5
  <2>3. QED
    BY <2>1, <2>2
<1>5. opened' \subseteq Stream \X Nat
  BY <1>2 DEF ResumeFromMessageSent, MergeInv, TypeOK
<1>6. QED
  BY <1>4, <1>5, SilentStep DEF ResumeFromMessageSent, MergeInv, TypeOK

LEMMA StoppedKeeps ==
  ASSUME MergeInv, ResumeFromStopped PROVE MergeInv'
<1>1. LastEvent \in Event
  BY LastType DEF ResumeFromStopped
<1>2. gone' \subseteq Stream
  BY <1>1 DEF ResumeFromStopped, MergeInv, TypeOK, Event
<1>3. GoodCursors(cursors')
  BY CursorsAreGood, WithoutGood DEF ResumeFromStopped
<1>4. pc' \in {"loop", "closing"}
  BY DEF ResumeFromStopped, AfterUnmount
<1>5. QED
  BY <1>2, <1>3, <1>4, SilentStep DEF ResumeFromStopped, MergeInv, TypeOK

LEMMA OtherKeeps ==
  ASSUME MergeInv, ResumeFromOther PROVE MergeInv'
<1>1. Last \in Item /\ LastEvent \in Event
  BY LastType DEF ResumeFromOther
<1>2. ended' \subseteq Child \X Nat
  BY <1>1 DEF ResumeFromOther, EndedBy, Item, Event, Child, MergeInv, TypeOK
<1>3. GoodCursors(cursors')
  BY CursorsAreGood, TeardownGood DEF ResumeFromOther
<1>4. pc' \in {"loop", "done"} /\ outcome' \in {outcome, "stopped"}
  BY DEF ResumeFromOther
<1>5. QED
  BY <1>2, <1>3, <1>4, SilentStep DEF ResumeFromOther, MergeInv, TypeOK

LEMMA GiveUpOnKeeps ==
  ASSUME MergeInv, NEW C \in SUBSET Stream, GiveUpOn(C) PROVE MergeInv'
<1>1. GoodCursors(EnsurePulls(cursors))
  BY CursorsAreGood, EnsurePullsGood
<1>2. GiveUp(C, EnsurePulls(cursors), Synced)
  BY DEF GiveUpOn
<1>3. pc' \in {"loop", "closing"}
  BY DEF GiveUpOn, AfterUnmount
<1>4. QED
  BY <1>1, <1>2, <1>3, SyncedType, GiveUpGood, SilentStep DEF GiveUpOn, MergeInv, TypeOK

LEMMA CollectKeeps ==
  ASSUME MergeInv, Collect PROVE MergeInv'
<1>1. Departed \in SUBSET Stream
  BY DEF Departed, Finished, Mounted, MergeInv, TypeOK
<1>2. GoodCursors(Reaped(cursors)) /\ GoodCursors(Teardown(Reaped(cursors)))
  BY CursorsAreGood, ReapedGood, TeardownGood
<1>3. DEFINE ds == Without(deadlines, Progressed)
<1>4. DOMAIN ds \subseteq Stream /\ ds \in [DOMAIN ds -> {"running", "elapsed"}]
  BY DEF Without, MergeInv, TypeOK
<1>5. PICK cs \in {Reaped(cursors), Teardown(Reaped(cursors))} : GiveUp(Departed, cs, ds)
  BY DEF Collect
<1>6. pc' \in {"loop", "done"} /\ outcome' \in {outcome, "rootDied"} /\ waitingOn' = {}
  BY DEF Collect
<1> HIDE DEF ds
<1>7. /\ GoodCursors(cursors') /\ pending' \subseteq Stream
      /\ opened' \subseteq Stream \X Nat /\ ended' \subseteq Child \X Nat /\ gone' \subseteq Stream
      /\ DOMAIN deadlines' \subseteq Stream
      /\ deadlines' \in [DOMAIN deadlines' -> {"running", "elapsed"}]
  BY <1>1, <1>2, <1>4, <1>5, GiveUpGood
<1>8. UNCHANGED <<scene, emitted, resume>>
  BY DEF Collect
<1>9. QED
  BY <1>6, <1>7, <1>8, SilentStep DEF MergeInv, TypeOK

LEMMA WaitKeeps ==
  ASSUME MergeInv, Wait PROVE MergeInv'
<1>1. GoodCursors(EnsurePulls(cursors))
  BY CursorsAreGood, EnsurePullsGood
<1>2. waitingOn' \subseteq Stream
  BY <1>1 DEF Wait, InFlight, GoodCursors
<1>3. QED
  BY <1>1, <1>2, SyncedType, SilentStep DEF Wait, gateVars, MergeInv, TypeOK

LEMMA FinishKeeps ==
  ASSUME MergeInv, Finish PROVE MergeInv'
BY CursorsAreGood, SyncedType, SilentStep DEF Finish, gateVars, MergeInv, TypeOK

LEMMA DetachKeeps ==
  ASSUME MergeInv, Detach PROVE MergeInv'
BY CursorsAreGood, TeardownGood, SilentStep DEF Detach, gateVars, MergeInv, TypeOK

\* The steps that only go back to the top of the loop.
LEMMA BackToLoop ==
  ASSUME MergeInv, ResumeFromMarker \/ Timeout \/ Closed PROVE MergeInv'
<1>1. CASE ResumeFromMarker
  BY <1>1, CursorsAreGood, SilentStep DEF ResumeFromMarker, gateVars, MergeInv, TypeOK
<1>2. CASE Timeout
  BY <1>2, CursorsAreGood, SilentStep DEF Timeout, gateVars, MergeInv, TypeOK
<1>3. CASE Closed
  BY <1>3, CursorsAreGood, SilentStep DEF Closed, gateVars, MergeInv, TypeOK
<1>4. QED
  BY <1>1, <1>2, <1>3

LEMMA MergeInvInit == Init => MergeInv
<1> SUFFICES ASSUME Init PROVE MergeInv
  OBVIOUS
<1>1. scene \in SceneType
  BY SceneAssumption DEF Init
<1>2. scene.from \in Nat
  BY <1>1 DEF SceneType
<1>3. DEFINE new == NewCursor(scene.from, scene.skip # 0)
<1>4. new \in Cursor /\ new.head = NoHead
  BY <1>2, NewCursorType
<1>5. cursors = [s \in {Root} |-> new]
  BY DEF Init
<1> HIDE DEF new
<1>6. TypeOK
  BY <1>2, <1>4, <1>5, RootAssumption DEF Init, TypeOK
<1>7. InLogs
  BY <1>4, <1>5 DEF Init, InLogs, Shown, Mounted
<1>8. QED
  BY <1>6, <1>7 DEF MergeInv

LEMMA MergeInvNext == MergeInv /\ [Next]_vars => MergeInv'
<1> SUFFICES ASSUME MergeInv, [Next]_vars PROVE MergeInv'
  OBVIOUS
<1>1. CASE EmitMarker
  BY <1>1, EmitMarkerKeeps
<1>2. ASSUME NEW s \in Stream, Emit(s) PROVE MergeInv'
  BY <1>2, EmitKeeps
<1>3. CASE ResumeFromMessageSent
  BY <1>3, MessageSentKeeps
<1>4. CASE ResumeFromStopped
  BY <1>4, StoppedKeeps
<1>5. CASE ResumeFromOther
  BY <1>5, OtherKeeps
<1>6. CASE GiveUpHopeless
  <2>1. Hopeless \in SUBSET Stream
    BY StuckType DEF Hopeless
  <2>2. QED
    BY <1>6, <2>1, GiveUpOnKeeps DEF GiveUpHopeless
<1>7. CASE GiveUpStuck
  <2>1. Stuck \in SUBSET Stream
    BY StuckType
  <2>2. QED
    BY <1>7, <2>1, GiveUpOnKeeps DEF GiveUpStuck
<1>8. CASE Wait \/ Finish
  BY <1>8, WaitKeeps, FinishKeeps
<1>9. CASE Collect
  BY <1>9, CollectKeeps
<1>10. CASE ResumeFromMarker \/ Timeout \/ Closed
  BY <1>10, BackToLoop
<1>11. ASSUME NEW s \in Stream, PullEvent(s) \/ PullEnd(s) \/ PullFails(s) \/ Elapse(s)
       PROVE  MergeInv'
  BY <1>11, PullEventKeeps, PullEndKeeps, PullFailsKeeps, ElapseKeeps
<1>12. CASE Detach
  BY <1>12, DetachKeeps
<1>13. CASE UNCHANGED vars
  <2>1. TypeOK'
    BY <1>13 DEF MergeInv, TypeOK, vars, gateVars
  <2>2. InLogs'
    BY <1>13 DEF MergeInv, InLogs, Shown, Mounted, vars, gateVars
  <2>3. QED
    BY <2>1, <2>2 DEF MergeInv
<1>14. QED
  BY <1>1, <1>2, <1>3, <1>4, <1>5, <1>6, <1>7, <1>8, <1>9, <1>10, <1>11, <1>12, <1>13
     DEF Next, Loop

LEMMA MergeInvariant == Spec => []MergeInv
BY MergeInvInit, MergeInvNext, PTL DEF Spec

\* The merge's variables keep their types, whatever the streams hold and however the
\* reads of them go (merge.py:88-118).
THEOREM TypeCorrect == Spec => []TypeOK
<1>1. MergeInv => TypeOK
  BY DEF MergeInv
<1>2. QED
  BY <1>1, MergeInvariant, PTL

-----------------------------------------------------------------------------
(* The open bracket.  A gate is opened only by a message shown, and what was *)
(* shown stays shown, in its place.                                          *)

LEMMA StillSent ==
  ASSUME MergeInv, UNCHANGED scene,
         emitted' = emitted \/ \E item \in Item : emitted' = Append(emitted, item),
         NEW c, NEW t, NEW j \in 1..Len(emitted), Sent(j, c), ShownEvent(j).childTurn = t
  PROVE  j \in 1..Len(emitted') /\ Sent(j, c)' /\ ShownEvent(j)'.childTurn = t
<1>1. emitted'[j] = emitted[j] /\ j \in 1..Len(emitted')
  BY Longer DEF MergeInv, TypeOK
<1>2. QED
  BY <1>1 DEF Sent, Shown, ShownEvent, EventAt

\* What a step may do to the merged stream, and to the open turns.
LEMMA StepShows ==
  ASSUME MergeInv, [Next]_vars
  PROVE  /\ UNCHANGED scene
         /\ \/ UNCHANGED emitted
            \/ EmitMarker
            \/ \E s \in Stream : Emit(s)
         /\ UNCHANGED opened \/ ResumeFromMessageSent
BY DEF Next, Loop, EmitMarker, ResumeFromMarker, Emit, ResumeFromMessageSent, ResumeFromStopped,
       ResumeFromOther, GiveUpHopeless, Wait, GiveUpStuck, GiveUpOn, GiveUp, Finish, Collect,
       Timeout, Closed, PullEvent, PullEnd, PullFails, ReadUnchanged, Elapse, Detach,
       vars, gateVars

LEMMA ShowsItem ==
  ASSUME MergeInv, EmitMarker \/ \E s \in Stream : Emit(s)
  PROVE  \E item \in Item : emitted' = Append(emitted, item)
<1>1. CASE EmitMarker
  <2>1. PICK c \in pending : emitted' = Append(emitted, [stream |-> c, at |-> Marker])
    BY <1>1 DEF EmitMarker
  <2>2. [stream |-> c, at |-> Marker] \in Item
    BY DEF Item, Marker, MergeInv, TypeOK
  <2>3. QED
    BY <2>1, <2>2
<1>2. ASSUME NEW s \in Stream, Emit(s)
      PROVE  \E item \in Item : emitted' = Append(emitted, item)
  <2>1. cursors[s].head \in Nat
    BY <1>2 DEF Emit, Candidates, Mounted, MergeInv, TypeOK, Cursor
  <2>2. [stream |-> s, at |-> cursors[s].head] \in Item
    BY <2>1 DEF Item
  <2>3. QED
    BY <1>2, <2>2 DEF Emit
<1>3. QED
  BY <1>1, <1>2

LEMMA OpenedNext ==
  ASSUME MergeInv, OpenedBySent, [Next]_vars PROVE OpenedBySent'
<1>1. /\ UNCHANGED scene
      /\ emitted' = emitted \/ \E item \in Item : emitted' = Append(emitted, item)
  BY StepShows, ShowsItem
<1> SUFFICES ASSUME NEW p \in opened'
             PROVE  \E j \in 1..Len(emitted') : Sent(j, p[1])' /\ ShownEvent(j)'.childTurn = p[2]
  BY DEF OpenedBySent
<1>2. CASE p \in opened
  <2>1. PICK j \in 1..Len(emitted) : Sent(j, p[1]) /\ ShownEvent(j).childTurn = p[2]
    BY <1>2 DEF OpenedBySent
  <2>2. QED
    BY <1>1, <2>1, StillSent
<1>3. CASE p \notin opened
  <2>1. ResumeFromMessageSent
    BY <1>3, StepShows
  <2>2. p = <<LastEvent.child, LastEvent.childTurn>> /\ UNCHANGED <<emitted, scene>>
    BY <1>3, <2>1 DEF ResumeFromMessageSent
  <2>3. Len(emitted) \in 1..Len(emitted)
    BY <2>1 DEF ResumeFromMessageSent, MergeInv, TypeOK, InLogs
  <2>4. Sent(Len(emitted), p[1]) /\ ShownEvent(Len(emitted)).childTurn = p[2]
    BY <2>1, <2>2, <2>3 DEF ResumeFromMessageSent, Sent, Shown, ShownEvent, LastEvent, Last
  <2>5. QED
    BY <1>1, <2>3, <2>4, StillSent
<1>4. QED
  BY <1>2, <1>3

LEMMA CauseNext ==
  ASSUME MergeInv, OpenedBySent, CauseFirst, [Next]_vars PROVE CauseFirst'
<1>1. /\ UNCHANGED scene
      /\ emitted' = emitted \/ \E item \in Item : emitted' = Append(emitted, item)
      /\ emitted \in Seq(Item)
  BY StepShows, ShowsItem DEF MergeInv, TypeOK
<1> SUFFICES ASSUME NEW i \in Shown', NEW c, NEW t, c # Root, t # 0,
                    c = emitted'[i].stream, t = ShownEvent(i)'.turn
             PROVE  \E j \in 1..(i - 1) : Sent(j, c)' /\ ShownEvent(j)'.childTurn = t
  BY DEF CauseFirst
<1>2. CASE i \in 1..Len(emitted)
  <2>1. emitted'[i] = emitted[i]
    BY <1>1, <1>2, Longer
  <2>2. i \in Shown /\ ShownEvent(i)' = ShownEvent(i)
    BY <1>1, <1>2, <2>1 DEF Shown, ShownEvent, EventAt
  <2>3. PICK j \in 1..(i - 1) :
          Sent(j, c) /\ ShownEvent(j).childTurn = t
    BY <2>1, <2>2 DEF CauseFirst
  <2>4. j \in 1..Len(emitted)
    BY <1>1, <1>2, <2>3
  <2>5. QED
    BY <1>1, <2>3, <2>4, StillSent
<1>3. CASE i \notin 1..Len(emitted)
  <2>1. emitted' # emitted
    BY <1>3 DEF Shown
  <2>2. ~EmitMarker
    <3>1. SUFFICES ASSUME EmitMarker PROVE FALSE
      OBVIOUS
    <3>2. PICK d \in pending : emitted' = Append(emitted, [stream |-> d, at |-> Marker])
      BY <3>1 DEF EmitMarker
    <3>3. [stream |-> d, at |-> Marker] \in Item
      BY DEF Item, Marker, MergeInv, TypeOK
    <3>4. i = Len(emitted) + 1
      BY <1>1, <1>3, <3>2, <3>3, Longer DEF Shown
    <3>5. emitted'[i].at = Marker
      BY <1>1, <3>2, <3>3, <3>4, Longer
    <3>6. QED
      BY <3>5 DEF Shown
  <2>3. PICK s \in Stream : Emit(s)
    BY <2>1, <2>2, StepShows
  <2>4. DEFINE item == [stream |-> s, at |-> cursors[s].head]
  <2>5. cursors[s].head \in Nat /\ Ready(s, HeadOf(s))
    BY <2>3 DEF Emit, Candidates, Mounted, MergeInv, TypeOK, Cursor
  <2>6. item \in Item /\ emitted' = Append(emitted, item)
    BY <2>3, <2>5 DEF Emit, Item
  <2>7. i = Len(emitted) + 1 /\ emitted'[i] = item
    BY <1>1, <1>3, <2>6, Longer DEF Shown
  <2>8. ShownEvent(i)' = HeadOf(s)
    BY <1>1, <2>7 DEF ShownEvent, EventAt, HeadOf
  <2>9. <<c, t>> \in opened
    BY <2>5, <2>7, <2>8 DEF Ready, OpenGate
  <2>10. PICK j \in 1..Len(emitted) :
           Sent(j, c) /\ ShownEvent(j).childTurn = t
    BY <2>9 DEF OpenedBySent
  <2>11. j \in 1..(i - 1)
    BY <1>1, <2>7, <2>10, Longer
  <2>12. QED
    BY <1>1, <2>10, <2>11, StillSent
<1>4. QED
  BY <1>2, <1>3

\* No event of a child's turn is shown before the message that caused the turn, for
\* any tree of agents, any histories, any select policy and any failures of the reads
\* (gates.py:109-124).
THEOREM CauseTheorem == Spec => []CauseFirst
<1>1. Init => OpenedBySent /\ CauseFirst
  BY DEF Init, OpenedBySent, CauseFirst, Shown
<1>2. MergeInv /\ OpenedBySent /\ CauseFirst /\ [Next]_vars => OpenedBySent' /\ CauseFirst'
  BY OpenedNext, CauseNext
<1>3. QED
  BY <1>1, <1>2, MergeInvariant, PTL DEF Spec
=============================================================================
