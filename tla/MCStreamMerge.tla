--------------------------- MODULE MCStreamMerge ---------------------------
(* Scenes of StreamMerge for TLC: histories the harness can have written. *)
EXTENDS StreamMerge

\* The root and two subagents.
CONSTANTS a0, a1, a2

Ev(kind, turn) == [kind |-> kind, turn |-> turn, child |-> a0, childTurn |-> 0, from |-> 0]
About(kind, turn, child, childTurn, from) ==
  [kind |-> kind, turn |-> turn, child |-> child, childTurn |-> childTurn, from |-> from]
Sends(turn, child, childTurn, from) == About("messageSent", turn, child, childTurn, from)
Replied(turn, child, childTurn) == About("replyReceived", turn, child, childTurn, 0)
Stopped(turn, child) == About("subagentStopped", turn, child, 0, 0)

Begin(turn) == Ev("turnStarted", turn)
End(turn) == Ev("turnEnd", turn)
Note(turn) == Ev("other", turn)

Logs(root, first, second) == [s \in {a0, a1, a2} |-> IF s = a0 THEN root ELSE IF s = a1 THEN first ELSE second]
Turn1 == <<Begin(1), End(1)>>

Scenes(log, closed, broken, from, skip, stop) ==
  {[log |-> log, closed |-> closed, broken |-> broken,
    from |-> from, skip |-> skip, stop |-> stop, tight |-> t] : t \in BOOLEAN}

\* Two children at once, with brackets that overlap; one has state of its own before
\* any turn, the other cannot always be read.
Concurrent ==
  Scenes(Logs(<<Sends(1, a1, 1, 0), Sends(1, a2, 1, 0), Replied(1, a2, 1), Replied(1, a1, 1), End(1)>>,
              <<Note(0), Begin(1), End(1)>>, Turn1),
         {}, {a2}, 0, 0, 1)

\* A child that drives a child of its own; all have ended, a turn of a2 half way.
Nested ==
  Scenes(Logs(<<Sends(1, a1, 1, 0), Replied(1, a1, 1), End(1)>>,
              <<Sends(1, a2, 1, 0), Replied(1, a2, 1), End(1)>>, <<Begin(1)>>),
         {a0, a1, a2}, {}, 0, 0, 0)

\* Two turns of one child, the first one an error after which the parent's offset
\* stands where it was; a read of the child may raise in between.
AgainLogs ==
  Logs(<<Sends(1, a1, 1, 0), Replied(1, a1, 1), Sends(1, a1, 2, 0), Replied(1, a1, 2), End(1)>>,
       Turn1 \o <<Begin(2), End(2)>>, <<>>)
Again == Scenes(AgainLogs, {a0}, {a1}, 0, 0, 0) \cup Scenes(AgainLogs, {a0}, {}, 0, 0, 0)

\* A child stopped while its turn is under way and another send waits behind it.
StoppedEarly ==
  Scenes(Logs(<<Sends(1, a1, 1, 0), Stopped(1, a1), Replied(1, a1, 1), Sends(1, a2, 1, 0), Replied(1, a2, 1), End(1)>>,
              Turn1, Turn1),
         {a1}, {}, 0, 0, 1)

\* An attach in the middle of a child's turn, which the same child's next one follows.
Resumed ==
  Scenes(Logs(<<Sends(1, a1, 1, 0), Note(1), Replied(1, a1, 1), Sends(1, a1, 2, 2), Replied(1, a1, 2), End(1)>>,
              Turn1 \o <<Begin(2), End(2)>>, <<>>),
         {a0, a1}, {a0}, 1, 0, 0)

\* send_message: the root is skipped to the submitted turn, over the end of another.
Submitted ==
  Scenes(Logs(<<Replied(1, a1, 1), End(1), Begin(2), Sends(2, a1, 2, 2), Replied(2, a1, 2), End(2), Begin(3)>>,
              Turn1 \o <<Begin(2), End(2)>>, <<>>),
         {}, {}, 0, 2, 2)

\* A child whose first turn is somebody else's: nothing on the root's stream opens it.
Shared ==
  Scenes(Logs(<<Sends(1, a1, 2, 0), Replied(1, a1, 2), End(1)>>,
              Turn1 \o <<Begin(2), End(2)>>, <<>>),
         {}, {}, 0, 0, 1)

MCScene == Concurrent \cup Nested \cup Again \cup StoppedEarly \cup Resumed \cup Submitted \cup Shared
=============================================================================
