------------------------ MODULE ClientSessionProofs ------------------------
(***************************************************************************)
(* Proofs about a client that follows one session, for every set of        *)
(* messages, any budget and any number of failures and stops: each of its  *)
(* sends is shown once and its end is reported, whichever of the reply and *)
(* the stream comes first.                                                 *)
(*                                                                         *)
(* The argument has three parts that do not disturb each other: the        *)
(* agent's log, the invocations of #connect, and what is shown.  Of the    *)
(* second the third needs only that there is always a place for a new      *)
(* invocation, since every stray one was left by a stop of its own.        *)
(***************************************************************************)
EXTENDS ClientSession, TLAPS, SequenceTheorems, FiniteSetTheorems

----------------------------------------------------------------------------
(* The inductive invariant *)

\* What the log says of turns that started or ended is not ahead of the agent.
AgentInv ==
  /\ log \in Seq(Frame) /\ queue \in Seq(Message) /\ active \in Message \cup {None}
  /\ turn \in Nat /\ closed \in BOOLEAN
  /\ \A i \in DOMAIN log : log[i].kind \in {"started", "ended"} => log[i].turn <= turn

\* Invocations that were stopped and have not noticed.
Strays == {r \in Run : Live(runs[r]) /\ r # run}

\* Each stop leaves one stray at most; what a send wakes is asleep; and nothing is the
\* current invocation of a session that was stopped.
ConnectInv ==
  /\ runs \in [Run -> Connect] /\ run \in Run \cup {None} /\ wake \in Run \cup {None}
  /\ observed \in BOOLEAN /\ hidden \in BOOLEAN
  /\ connection \in {"stopped", "connecting", "live", "idle", "reconnecting", "closed", "error"}
  /\ ~observed => run = None
  /\ wake # None => runs[wake].pc \in {"backoff", "waiting"}
  /\ troubles \in 0..MaxTroubles /\ Cardinality(Strays) <= troubles

\* What is shown was read, and each send is accounted for once.
ShownInv ==
  /\ resume \in 0..Len(log) /\ busy \in BOOLEAN /\ lastTurn \in 0..turn
  /\ rows \in [Message -> {"none", "accepted", "running", "done"}]
  /\ pending \subseteq Own /\ sends \in Seq(Own) /\ touched \subseteq Message
  /\ sent \in [Own -> {"new", "sending", "admitted", "ok", "failed", "failedAdmitted"}]
  /\ finished \in [Own -> 0..1]
  /\ ShownOnce /\ FinishReported

IInv == AgentInv /\ ConnectInv /\ ShownInv

LEMMA InvariantSuffices == IInv => SendsAreSettled
  BY BoundAssumption DEF IInv, AgentInv, ConnectInv, ShownInv, SendsAreSettled, TypeOK

----------------------------------------------------------------------------
(* The agent *)

\* An event that is published says of turns no more than what is so.
LEMMA Published ==
  ASSUME AgentInv, NEW kind \in Kind, NEW m \in Message \cup {None}, NEW n \in Nat,
         Publish(kind, m, n), turn' \in Nat, turn <= turn',
         kind \in {"started", "ended"} => n <= turn'
  PROVE  /\ log' \in Seq(Frame) /\ Len(log') = Len(log) + 1
         /\ \A i \in DOMAIN log' : log'[i].kind \in {"started", "ended"} => log'[i].turn <= turn'
<1> DEFINE e == [kind |-> kind, message |-> m, turn |-> n]
<1>1. e \in Frame /\ log \in Seq(Frame) /\ log' = Append(log, e)
  BY DEF Frame, AgentInv, Publish
<1>2. /\ log' \in Seq(Frame) /\ Len(log') = Len(log) + 1
      /\ \A i \in 1 .. Len(log) : log'[i] = log[i]
      /\ log'[Len(log) + 1] = e
  BY <1>1, AppendProperties
<1>3. Len(log) \in Nat /\ DOMAIN log = 1 .. Len(log) /\ DOMAIN log' = 1 .. Len(log')
  BY <1>1, <1>2, LenProperties
<1>4. ASSUME NEW i \in DOMAIN log', log'[i].kind \in {"started", "ended"}
      PROVE  log'[i].turn <= turn'
  <2>1. CASE i \in 1 .. Len(log)
    <3>1. log'[i] = log[i] /\ i \in DOMAIN log
      BY <2>1, <1>2, <1>3
    <3>2. log[i] \in Frame
      BY <2>1, <1>1, ElementOfSeq
    <3>3. log[i].turn <= turn /\ log[i].turn \in Nat
      BY <3>1, <3>2, <1>4 DEF AgentInv, Frame
    <3>4. QED
      BY <3>1, <3>3 DEF AgentInv
  <2>2. CASE i = Len(log) + 1
    BY <2>2, <1>2, <1>4
  <2>3. QED
    BY <2>1, <2>2, <1>2, <1>3
<1>5. QED
  BY <1>2, <1>4

LEMMA AdmitStep ==
  ASSUME AgentInv, NEW m \in Message, Admit(m)
  PROVE  AgentInv' /\ turn' = turn /\ Len(log') = Len(log) + 1
<1>1. queue \in Seq(Message) /\ Len(queue) \in Nat /\ turn \in Nat
  BY LenProperties DEF AgentInv
<1>2. /\ log' \in Seq(Frame) /\ Len(log') = Len(log) + 1
      /\ \A i \in DOMAIN log' : log'[i].kind \in {"started", "ended"} => log'[i].turn <= turn'
  <2>1. /\ turn + Len(queue) + 1 \in Nat /\ turn' = turn /\ "accepted" \in Kind
        /\ Publish("accepted", m, turn + Len(queue) + 1)
    BY <1>1 DEF Admit, Kind
  <2>2. turn' \in Nat /\ turn <= turn' /\ m \in Message \cup {None}
    BY <1>1, <2>1
  <2>3. QED
    BY <2>1, <2>2, Published
<1>3. queue' \in Seq(Message)
  BY <1>1, AppendProperties DEF Admit
<1>4. QED
  BY <1>2, <1>3 DEF AgentInv, Admit

LEMMA TurnStep ==
  ASSUME AgentInv, StartTurn \/ EndTurn \/ Note \/ CloseAgent
  PROVE  AgentInv' /\ turn' \in Nat /\ turn <= turn' /\ Len(log') = Len(log) + 1
<1>1. turn \in Nat /\ queue \in Seq(Message) /\ closed \in BOOLEAN /\ active \in Message \cup {None}
  BY DEF AgentInv
<1>2. CASE StartTurn
  <2>1. Head(queue) \in Message /\ Tail(queue) \in Seq(Message)
    BY <1>1, <1>2, HeadTailProperties DEF StartTurn
  <2>2. /\ active' \in Message /\ queue' \in Seq(Message) /\ turn' = turn + 1 /\ closed' = closed
        /\ Publish("started", active', turn')
    BY <1>2, <2>1 DEF StartTurn
  <2>3. /\ log' \in Seq(Frame) /\ Len(log') = Len(log) + 1
        /\ \A i \in DOMAIN log' : log'[i].kind \in {"started", "ended"} => log'[i].turn <= turn'
    <3>1. "started" \in Kind /\ active' \in Message \cup {None}
      BY <2>2 DEF Kind
    <3>2. turn' \in Nat /\ turn <= turn'
      BY <1>1, <2>2
    <3>3. QED
      BY <2>2, <3>1, <3>2, Published
  <2>4. QED
    BY <1>1, <2>2, <2>3 DEF AgentInv
<1>3. CASE EndTurn
  <2>1. UNCHANGED <<queue, turn, closed>> /\ active' = None /\ Publish("ended", active, turn)
    BY <1>3 DEF EndTurn
  <2>2. /\ log' \in Seq(Frame) /\ Len(log') = Len(log) + 1
        /\ \A i \in DOMAIN log' : log'[i].kind \in {"started", "ended"} => log'[i].turn <= turn'
    <3>1. "ended" \in Kind /\ turn' = turn /\ turn' \in Nat /\ turn <= turn'
      BY <1>1, <2>1 DEF Kind
    <3>2. QED
      BY <1>1, <2>1, <3>1, Published
  <2>3. QED
    BY <1>1, <2>1, <2>2 DEF AgentInv
<1>4. CASE Note \/ CloseAgent
  <2>1. /\ UNCHANGED <<queue, active, turn>> /\ closed' \in BOOLEAN
        /\ Publish("note", None, 0) \/ Publish("closed", None, 0)
    BY <1>1, <1>4 DEF Note, CloseAgent
  <2>2. /\ log' \in Seq(Frame) /\ Len(log') = Len(log) + 1
        /\ \A i \in DOMAIN log' : log'[i].kind \in {"started", "ended"} => log'[i].turn <= turn'
    <3>1. /\ "note" \in Kind /\ "closed" \in Kind /\ None \in Message \cup {None} /\ 0 \in Nat
          /\ turn' \in Nat /\ turn <= turn'
      BY <1>1, <2>1 DEF Kind
    <3>2. CASE Publish("note", None, 0)
      BY <3>1, <3>2, Published
    <3>3. CASE Publish("closed", None, 0)
      BY <3>1, <3>3, Published
    <3>4. QED
      BY <2>1, <3>2, <3>3
  <2>3. QED
    BY <1>1, <2>1, <2>2 DEF AgentInv
<1>5. QED
  BY <1>2, <1>3, <1>4
----------------------------------------------------------------------------
(* The invocations of #connect *)

Asleep == {"backoff", "waiting"}

LEMMA StraysFinite ==
  ConnectInv => IsFiniteSet(Strays) /\ Cardinality(Strays) \in Nat /\ Strays \subseteq Run
  BY RunAssumption, FS_Subset, FS_CardinalityType DEF Strays

\* While nothing is the current invocation there is a place for one.
LEMMA FreePlace ==
  ASSUME ConnectInv, run = None
  PROVE  /\ (CHOOSE s \in Run : ~Live(runs[s])) \in Run
         /\ ~Live(runs[CHOOSE s \in Run : ~Live(runs[s])])
<1>1. Cardinality(Strays) < Cardinality(Run) /\ Strays \subseteq Run /\ None \notin Run
  BY StraysFinite, RunAssumption, MessageAssumption, BoundAssumption, FS_CardinalityType DEF ConnectInv
<1>2. Strays # Run
  BY <1>1, StraysFinite, FS_CardinalityType
<1>3. \E s \in Run : ~Live(runs[s])
  BY <1>1, <1>2 DEF Strays
<1>4. QED
  BY <1>3

LEMMA FewerStrays ==
  ASSUME ConnectInv, Strays' \subseteq Strays, troubles' \in 0..MaxTroubles, troubles <= troubles'
  PROVE  Cardinality(Strays') <= troubles'
<1>1. Cardinality(Strays') <= Cardinality(Strays) /\ Cardinality(Strays') \in Nat
  BY StraysFinite, FS_Subset, FS_CardinalityType
<1>2. QED
  BY <1>1, StraysFinite, BoundAssumption DEF ConnectInv

LEMMA OffType == Off \in Connect /\ ~Live(Off)
  BY BoundAssumption DEF Off, Connect, Live

\* An invocation goes on, or ends; what may wake it is asked of one that is asleep.
LEMMA Moved ==
  ASSUME ConnectInv, NEW r \in Run, NEW c \in Connect, Put(r, c), Live(runs[r]),
         run' = run \/ (c = Off /\ run' = IF run = r THEN None ELSE run),
         UNCHANGED <<observed, hidden>>, troubles' \in 0..MaxTroubles, troubles <= troubles',
         connection' \in {"stopped", "connecting", "live", "idle", "reconnecting", "closed", "error"},
         \/ wake' = None
         \/ wake' = r /\ c.pc \in Asleep
         \/ wake' = wake /\ (r = wake => c.pc \in Asleep)
  PROVE  ConnectInv'
<1>1. runs' \in [Run -> Connect] /\ run' \in Run \cup {None} /\ wake' \in Run \cup {None}
  BY DEF ConnectInv, Put
<1>2. ~observed' => run' = None
  BY DEF ConnectInv
<1>3. /\ runs'[r] = c
      /\ \A s \in Run : s # r => runs'[s] = runs[s]
  BY DEF ConnectInv, Put
<1>4. wake' # None => runs'[wake'].pc \in Asleep
  BY <1>3 DEF ConnectInv, Asleep
<1>5. Strays' \subseteq Strays
  BY <1>1, <1>3, OffType DEF Strays, Live
<1>6. QED
  BY <1>1, <1>2, <1>4, <1>5, FewerStrays DEF ConnectInv, Asleep

\* What becomes of an invocation's record.
LEMMA RecordTypes ==
  ASSUME AgentInv, NEW c \in Connect
  PROVE  /\ Attached(c) \in Connect /\ Caught(c) \in Connect /\ Woken(c) \in Connect
         /\ [c EXCEPT !.polling = FALSE] \in Connect /\ [c EXCEPT !.polling = FALSE].pc = c.pc
  BY LenProperties, OffType DEF AgentInv, Attached, Caught, Woken, Connect

\* An invocation that falls asleep, in #retry and in #waitForWork.
Sleeping(a, n) == [Off EXCEPT !.pc = "backoff", !.aborted = a, !.attempt = n]
AtRest(a, n, q) == [Off EXCEPT !.pc = "waiting", !.aborted = a, !.polling = q, !.attempt = n]

LEMMA AsleepType ==
  \A a \in BOOLEAN : \A n \in 0..Budget : \A q \in BOOLEAN :
    /\ Sleeping(a, n) \in Connect /\ Sleeping(a, n).pc = "backoff"
    /\ AtRest(a, n, q) \in Connect /\ AtRest(a, n, q).pc = "waiting"
  BY BoundAssumption DEF Connect, Off, Sleeping, AtRest

LEMMA RetryStep ==
  ASSUME AgentInv, ConnectInv, NEW r \in Run, Retry(r), Live(runs[r]), runs[r].pc \notin Asleep,
         UNCHANGED <<observed, hidden>>, troubles' \in 0..MaxTroubles, troubles <= troubles'
  PROVE  ConnectInv'
<1> DEFINE a == IF runs[r].delivered THEN 0 ELSE runs[r].attempt
           c == [Off EXCEPT !.pc = "backoff", !.aborted = runs[r].aborted, !.attempt = a + 1]
<1>1. runs[r].aborted \in BOOLEAN /\ a \in 0..Budget /\ Budget \in Nat
  BY BoundAssumption DEF ConnectInv, Connect
<1>2. CASE a < Budget
  <2>1. c \in Connect /\ c.pc = "backoff"
    <3>1. a + 1 \in 0..Budget
      BY <1>1, <1>2
    <3>2. Sleeping(runs[r].aborted, a + 1) \in Connect /\ Sleeping(runs[r].aborted, a + 1).pc = "backoff"
      <4> HIDE DEF a, c
      <4>1. QED
        BY <1>1, <3>1, AsleepType, PollAssumption, Zenon
    <3>3. QED
      BY <3>2, Zenon DEF Sleeping
  <2>2. Put(r, c) /\ connection' = "reconnecting" /\ wake' = r /\ run' = run
    BY <1>2 DEF Retry
  <2>3. QED
    BY <2>1, <2>2, Moved DEF Asleep
<1>3. CASE ~(a < Budget)
  <2>1. Put(r, Off) /\ run' = (IF run = r THEN None ELSE run) /\ connection' = "error" /\ wake' = wake
    BY <1>3 DEF Retry, Gone
  <2>2. r # wake
    BY MessageAssumption DEF ConnectInv, Asleep
  <2>3. QED
    BY <2>1, <2>2, OffType, Moved
<1>4. QED
  BY <1>2, <1>3

LEMMA WaitStep ==
  ASSUME ConnectInv, NEW r \in Run, WaitForWork(r), Live(runs[r]), UNCHANGED <<observed, hidden, troubles>>
  PROVE  ConnectInv'
<1> DEFINE c == [Off EXCEPT !.pc = "waiting", !.aborted = runs[r].aborted, !.polling = IdlePoll,
                            !.attempt = IF runs[r].delivered THEN 0 ELSE runs[r].attempt]
           a == IF runs[r].delivered THEN 0 ELSE runs[r].attempt
<1>1. c \in Connect /\ c.pc = "waiting"
  <2>1. a \in 0..Budget /\ runs[r].aborted \in BOOLEAN
    BY BoundAssumption DEF ConnectInv, Connect
  <2>2. AtRest(runs[r].aborted, a, IdlePoll) \in Connect /\ AtRest(runs[r].aborted, a, IdlePoll).pc = "waiting"
    <3> HIDE DEF a, c
    <3>1. QED
      BY <2>1, AsleepType, PollAssumption, Zenon
  <2>3. QED
    BY <2>2, Zenon DEF AtRest
<1>2. Put(r, c) /\ connection' = "idle" /\ wake' = r /\ run' = run
  BY DEF WaitForWork
<1>3. troubles' \in 0..MaxTroubles /\ troubles <= troubles'
  BY BoundAssumption DEF ConnectInv
<1>4. QED
  BY <1>1, <1>2, <1>3, Moved DEF Asleep
\* What else a step changes does not disturb the invocations.
LEMMA ConnectStays ==
  ASSUME ConnectInv, UNCHANGED connVars, observed' = observed, hidden' \in BOOLEAN,
         troubles' \in 0..MaxTroubles, troubles <= troubles'
  PROVE  ConnectInv'
<1>1. Strays' = Strays
  BY DEF connVars, Strays
<1>2. Cardinality(Strays') <= troubles'
  BY <1>1, FewerStrays
<1>3. QED
  BY <1>2 DEF ConnectInv, connVars

\* A new invocation becomes the current one.
LEMMA NewRun ==
  ASSUME ConnectInv, run = None, NEW r \in Run, ~Live(runs[r]),
         run' = r, Put(r, [Off EXCEPT !.pc = "opening"]), connection' = "connecting",
         observed', observed' \in BOOLEAN, UNCHANGED <<wake, hidden, troubles>>
  PROVE  ConnectInv'
<1>1. [Off EXCEPT !.pc = "opening"] \in Connect
  BY OffType DEF Connect
<1>2. /\ runs' \in [Run -> Connect]
      /\ \A s \in Run : s # r => runs'[s] = runs[s]
  BY <1>1 DEF ConnectInv, Put
<1>3. wake' # None => runs'[wake'].pc \in Asleep
  <2>1. wake' = wake /\ runs[r].pc = "off"
    BY DEF Live
  <2>2. wake # None => wake \in Run /\ runs[wake].pc \in Asleep
    BY DEF ConnectInv, Asleep
  <2>3. wake # None => wake # r
    BY <2>1, <2>2 DEF Asleep
  <2>4. wake # None => runs'[wake] = runs[wake]
    BY <2>2, <2>3, <1>2
  <2>5. QED
    BY <2>1, <2>2, <2>4
<1>4. Strays' \subseteq Strays
  BY <1>2, MessageAssumption DEF Strays, Live
<1>5. troubles' \in 0..MaxTroubles /\ troubles <= troubles'
  BY BoundAssumption DEF ConnectInv
<1>6. Cardinality(Strays') <= troubles'
  BY <1>4, <1>5, FewerStrays
<1>7. QED
  BY <1>2, <1>3, <1>5, <1>6 DEF ConnectInv, Asleep

LEMMA EnsureLiveStep ==
  ASSUME AgentInv, ConnectInv, EnsureLive, UNCHANGED <<observed, hidden, troubles>>
  PROVE  ConnectInv'
<1>1. troubles' \in 0..MaxTroubles /\ troubles <= troubles'
  BY BoundAssumption DEF ConnectInv
<1>2. CASE ~observed
  <2>1. UNCHANGED connVars
    BY <1>2 DEF EnsureLive
  <2>2. QED
    BY <1>1, <2>1, ConnectStays DEF ConnectInv
<1>3. CASE observed /\ run # None
  <2>1. UNCHANGED <<run, connection>> /\ wake' = None
    BY <1>3 DEF EnsureLive
  <2>2. CASE wake # None
    <3>1. wake \in Run /\ Put(wake, Woken(runs[wake])) /\ Live(runs[wake])
      BY <1>3, <2>2 DEF EnsureLive, ConnectInv, Live
    <3>2. runs[wake] \in Connect
      BY <3>1 DEF ConnectInv
    <3>3. Woken(runs[wake]) \in Connect
      BY <3>2, RecordTypes
    <3>4. QED
      BY <1>1, <2>1, <3>1, <3>3, Moved DEF ConnectInv
  <2>3. CASE wake = None
    <3>1. UNCHANGED connVars
      BY <1>3, <2>1, <2>3 DEF EnsureLive, connVars
    <3>2. QED
      BY <1>1, <3>1, ConnectStays DEF ConnectInv
  <2>4. QED
    BY <2>2, <2>3
<1>4. CASE observed /\ run = None
  <2>1. PICK r \in {CHOOSE s \in Run : ~Live(runs[s])} :
          run' = r /\ Put(r, [Off EXCEPT !.pc = "opening"]) /\ connection' = "connecting" /\ UNCHANGED wake
    BY <1>4 DEF EnsureLive
  <2>2. r \in Run /\ ~Live(runs[r])
    BY <1>4, <2>1, FreePlace
  <2>3. QED
    BY <1>4, <2>1, <2>2, NewRun DEF ConnectInv
<1>5. QED
  BY <1>2, <1>3, <1>4 DEF ConnectInv

\* A stop leaves its invocation about, if at all, and counts as a trouble.
LEMMA StopStep ==
  ASSUME ConnectInv, Stop
  PROVE  ConnectInv'
<1>1. /\ runs' = [r \in Run |->
           IF r # run THEN runs[r]
           ELSE IF runs[r].pc = "checking" THEN [runs[r] EXCEPT !.aborted = TRUE] ELSE Off]
      /\ wake' = (IF wake = run THEN None ELSE wake) /\ run' = None /\ connection' = "stopped"
      /\ observed' = FALSE /\ hidden' = hidden
      /\ troubles < MaxTroubles /\ troubles' = troubles + 1
  BY DEF Stop, Trouble
<1>2. runs' \in [Run -> Connect]
  <2>1. ASSUME NEW r \in Run
        PROVE  runs'[r] \in Connect
    <3>1. runs[r] \in Connect
      BY DEF ConnectInv
    <3>2. [runs[r] EXCEPT !.aborted = TRUE] \in Connect
      BY <3>1 DEF Connect
    <3>3. QED
      BY <1>1, <3>1, <3>2, OffType
  <2>2. QED
    BY <1>1, <2>1
<1>3. wake' # None => runs'[wake'].pc \in Asleep
  BY <1>1 DEF ConnectInv, Asleep
<1>4. Strays' \subseteq Strays \cup {run}
  BY <1>1, OffType DEF Strays, Live
<1>5. troubles' \in 0..MaxTroubles
  BY <1>1, BoundAssumption DEF ConnectInv
<1>6. Cardinality(Strays') <= troubles'
  <2>1. /\ IsFiniteSet(Strays \cup {run}) /\ Cardinality(Strays \cup {run}) \in Nat
        /\ Cardinality(Strays \cup {run}) <= Cardinality(Strays) + 1
    BY StraysFinite, FS_AddElement, FS_CardinalityType
  <2>2. Cardinality(Strays') <= Cardinality(Strays \cup {run}) /\ Cardinality(Strays') \in Nat
    BY <2>1, <1>4, FS_Subset, FS_CardinalityType
  <2>3. QED
    BY <1>1, <2>1, <2>2, StraysFinite, BoundAssumption DEF ConnectInv
<1>7. QED
  BY <1>1, <1>2, <1>3, <1>5, <1>6 DEF ConnectInv, Asleep

\* Every step of an invocation.
LEMMA ConnectSteps ==
  ASSUME AgentInv, ConnectInv, resume \in 0..Len(log),
         NEW r \in Run, Progress(r) \/ Fails(r) \/ Cut(r)
  PROVE  ConnectInv'
<1>1. runs[r] \in Connect /\ MaxTroubles \in Nat
  BY BoundAssumption DEF ConnectInv
<1>2. troubles' \in 0..MaxTroubles /\ troubles <= troubles'
  <2>1. troubles \in 0..MaxTroubles
    BY DEF ConnectInv
  <2>2. Progress(r) => troubles' = troubles
    BY DEF Progress, Open, Receive, StreamEnds, Checked, BackoffOver, Poll
  <2>3. Fails(r) \/ Cut(r) => troubles < MaxTroubles /\ troubles' = troubles + 1
    BY DEF Fails, Cut, Trouble
  <2>4. QED
    BY <1>1, <2>1, <2>2, <2>3
<1>3. UNCHANGED <<observed, hidden>>
  BY DEF Progress, Open, Receive, StreamEnds, Checked, BackoffOver, Poll, Fails, Cut, pageVars
<1>4. Attached(runs[r]) \in Connect /\ Caught(runs[r]) \in Connect /\ Woken(runs[r]) \in Connect
  BY <1>1, RecordTypes
<1>5. wake = r => runs[r].pc \in Asleep
  BY MessageAssumption DEF ConnectInv, Asleep
<1>6. CASE Open(r) \/ StreamEnds(r) \/ Cut(r)
  <2>1. UNCHANGED <<run, wake, connection>> /\ Live(runs[r]) /\ runs[r].pc \notin Asleep
    BY <1>6 DEF Open, StreamEnds, Cut, Live, Asleep
  <2>2. Put(r, Attached(runs[r])) \/ Put(r, Caught(runs[r]))
    BY <1>6 DEF Open, StreamEnds, Cut
  <2>3. QED
    BY <1>2, <1>3, <1>4, <1>5, <2>1, <2>2, Moved DEF ConnectInv
<1>7. CASE Fails(r)
  <2>1. Retry(r) /\ Live(runs[r]) /\ runs[r].pc \notin Asleep
    BY <1>7 DEF Fails, Live, Asleep
  <2>2. QED
    BY <1>2, <1>3, <2>1, RetryStep
<1>8. CASE Receive(r)
  <2> DEFINE e == log[resume + 1]
             c == [runs[r] EXCEPT !.delivered = TRUE,
                                  !.completed = IF e.kind = "ended" /\ e.turn > @ THEN e.turn ELSE @]
  <2>1. /\ UNCHANGED <<run, wake>> /\ Live(runs[r]) /\ runs[r].pc \notin Asleep
        /\ connection' \in {connection, "live"}
        /\ Put(r, IF ShouldStop(c, e, resume + 1) THEN Caught(c) ELSE c)
        /\ resume < Len(log)
    BY <1>8 DEF Receive, Live, Asleep
  <2>2. c \in Connect
    <3>1. resume + 1 \in 1..Len(log) /\ log \in Seq(Frame)
      BY <2>1, LenProperties DEF AgentInv
    <3>2. e \in Frame
      BY <3>1, ElementOfSeq
    <3>3. e.turn \in Nat /\ runs[r].completed \in Nat
      BY <1>1, <3>2 DEF Frame, Connect
    <3>4. QED
      BY <1>1, <3>3 DEF Connect
  <2>3. Caught(c) \in Connect
    BY <2>2, RecordTypes
  <2>4. QED
    BY <1>2, <1>3, <1>5, <2>1, <2>2, <2>3, Moved DEF ConnectInv
<1>9. CASE Checked(r)
  <2>1. Live(runs[r]) /\ runs[r].pc \notin Asleep /\ troubles' = troubles
    BY <1>9 DEF Checked, Live, Asleep
  <2>2. CASE Gone(r) /\ connection' = "closed" /\ UNCHANGED wake
    BY <1>2, <1>3, <1>5, <2>1, <2>2, OffType, Moved DEF Gone
  <2>3. CASE Retry(r)
    BY <1>2, <1>3, <2>1, <2>3, RetryStep
  <2>4. CASE WaitForWork(r)
    BY <1>3, <2>1, <2>4, WaitStep
  <2>5. QED
    BY <1>9, <2>2, <2>3, <2>4 DEF Checked
<1>10. CASE BackoffOver(r)
  <2>1. /\ Live(runs[r]) /\ run' = run /\ connection' = connection
        /\ Put(r, Woken(runs[r])) /\ wake' = (IF wake = r THEN None ELSE wake)
    BY <1>10 DEF BackoffOver, Live
  <2>2. QED
    BY <1>2, <1>3, <1>4, <2>1, Moved DEF ConnectInv
<1>11. CASE Poll(r)
  <2>1. Live(runs[r]) /\ run' = run /\ connection' = connection /\ runs[r].pc = "waiting"
    BY <1>11 DEF Poll, Live
  <2>2. \/ Put(r, [runs[r] EXCEPT !.polling = FALSE]) /\ wake' = wake
        \/ Put(r, Woken(runs[r])) /\ wake' = None
    BY <1>11 DEF Poll
  <2>3. /\ [runs[r] EXCEPT !.polling = FALSE] \in Connect
        /\ [runs[r] EXCEPT !.polling = FALSE].pc \in Asleep
    BY <1>1, <2>1, RecordTypes DEF Asleep
  <2>4. CASE Put(r, [runs[r] EXCEPT !.polling = FALSE]) /\ wake' = wake
    BY <1>2, <1>3, <2>1, <2>3, <2>4, Moved DEF ConnectInv
  <2>5. CASE Put(r, Woken(runs[r])) /\ wake' = None
    BY <1>2, <1>3, <1>4, <2>1, <2>5, Moved DEF ConnectInv
  <2>6. QED
    BY <2>2, <2>4, <2>5
<1>12. QED
  BY <1>6, <1>7, <1>8, <1>9, <1>10, <1>11 DEF Progress
----------------------------------------------------------------------------
(* What is shown *)

LEMMA ShownStays ==
  ASSUME AgentInv, ShownInv, UNCHANGED <<projVars, sendVars>>, turn' \in Nat, turn <= turn',
         Len(log') = Len(log) \/ Len(log') = Len(log) + 1
  PROVE  ShownInv'
<1>1. Len(log) \in Nat /\ turn \in Nat
  BY LenProperties DEF AgentInv
<1>2. ShownOnce' /\ FinishReported'
  BY DEF ShownInv, ShownOnce, FinishReported, projVars, sendVars
<1>3. resume' \in 0..Len(log') /\ lastTurn' \in 0..turn'
  BY <1>1 DEF ShownInv, projVars
<1>4. QED
  BY <1>2, <1>3 DEF ShownInv, projVars, sendVars

\* A frame of the root: a message that is accepted becomes a row, unless it is one.
LEMMA ReceiveStep ==
  ASSUME AgentInv, ShownInv, NEW r \in Run, Receive(r)
  PROVE  ShownInv'
<1> DEFINE e == log[resume + 1]
<1>1. e \in Frame /\ resume + 1 \in 0..Len(log) /\ (e.kind \in {"started", "ended"} => e.turn <= turn)
  <2>1. resume + 1 \in 1..Len(log) /\ log \in Seq(Frame) /\ DOMAIN log = 1..Len(log) /\ Len(log) \in Nat
    BY LenProperties DEF Receive, AgentInv, ShownInv
  <2>2. QED
    BY <2>1, ElementOfSeq DEF AgentInv
<1>2. /\ resume' = resume + 1
      /\ busy' = (IF e.kind = "started" THEN TRUE ELSE IF e.kind = "ended" THEN FALSE ELSE busy)
      /\ lastTurn' = IF e.kind = "started" /\ e.turn > lastTurn THEN e.turn ELSE lastTurn
      /\ rows' = IF e.message = None THEN rows
                 ELSE [rows EXCEPT ![e.message] =
                         IF e.kind = "accepted" THEN (IF @ = "none" THEN "accepted" ELSE @)
                         ELSE IF @ = "none" THEN "none"
                         ELSE IF e.kind = "started" THEN "running" ELSE "done"]
      /\ touched' = touched \cup ({e.message} \ {None})
      /\ pending' = (IF e.kind = "accepted"
                     THEN pending \ {m \in Own : m = e.message /\ sent[m] = "ok"} ELSE pending)
      /\ UNCHANGED <<log, turn, finished, sends, sent>>
  BY DEF Receive, agentVars
<1>3. e.message \in Message \cup {None} /\ e.turn \in Nat /\ turn \in Nat
  BY <1>1 DEF Frame, AgentInv
<1>4. /\ rows' \in [Message -> {"none", "accepted", "running", "done"}]
      /\ \A m \in Message : m # e.message => rows'[m] = rows[m]
      /\ e.message # None /\ e.kind = "accepted" => rows'[e.message] # "none"
      /\ \A m \in Message : rows[m] # "none" => rows'[m] # "none"
      /\ e.kind # "accepted" => \A m \in Message : rows[m] = "none" => rows'[m] = "none"
  <2>1. CASE e.message = None
    BY <1>2, <2>1, MessageAssumption DEF ShownInv
  <2>2. CASE e.message # None
    <3> DEFINE old == rows[e.message]
               new == IF e.kind = "accepted" THEN (IF old = "none" THEN "accepted" ELSE old)
                      ELSE IF old = "none" THEN "none"
                      ELSE IF e.kind = "started" THEN "running" ELSE "done"
    <3>1. e.message \in Message /\ rows \in [Message -> {"none", "accepted", "running", "done"}]
      BY <1>3, <2>2 DEF ShownInv
    <3>2. rows' = [rows EXCEPT ![e.message] = new]
      BY <1>2, <2>2
    <3>3. new \in {"none", "accepted", "running", "done"}
      BY <3>1
    <3>4. /\ e.kind = "accepted" => new # "none"
          /\ old # "none" => new # "none"
          /\ e.kind # "accepted" /\ old = "none" => new = "none"
      BY DEF new
    <3> HIDE DEF new
    <3>5. rows'[e.message] = new /\ \A m \in Message : m # e.message => rows'[m] = rows[m]
      BY <3>1, <3>2
    <3>6. QED
      BY <3>1, <3>2, <3>3, <3>4, <3>5
  <2>3. QED
    BY <2>1, <2>2
<1>5. resume' \in 0..Len(log') /\ busy' \in BOOLEAN /\ lastTurn' \in 0..turn'
  <2>1. busy' \in BOOLEAN
    BY <1>2, Zenon DEF ShownInv
  <2>2. resume' \in 0..Len(log')
    BY <1>1, <1>2
  <2>3. lastTurn' \in 0..turn'
    BY <1>1, <1>2, <1>3 DEF ShownInv
  <2>4. QED
    BY <2>1, <2>2, <2>3
<1>6. touched' \subseteq Message /\ pending' \subseteq Own
  BY <1>2, <1>3 DEF ShownInv
<1>7. Own \subseteq Message /\ None \notin Message
  BY MessageAssumption DEF Message
<1>8. ShownOnce'
  <2> SUFFICES ASSUME NEW m \in Own
               PROVE  /\ sent[m] = "ok" => (m \in pending' <=> rows'[m] = "none")
                      /\ sent[m] \in {"sending", "admitted", "failed", "failedAdmitted"} => m \in pending'
    BY <1>2 DEF ShownOnce
  <2>1. /\ sent[m] = "ok" => (m \in pending <=> rows[m] = "none")
        /\ sent[m] \in {"sending", "admitted", "failed", "failedAdmitted"} => m \in pending
    BY DEF ShownInv, ShownOnce
  <2>2. CASE e.kind = "accepted" /\ m = e.message
    <3>1. m \in pending' <=> m \in pending /\ sent[m] # "ok"
      BY <1>2, <2>2
    <3>2. rows'[m] # "none"
      BY <1>4, <1>7, <2>2
    <3>3. QED
      BY <2>1, <3>1, <3>2
  <2>3. CASE ~(e.kind = "accepted" /\ m = e.message)
    <3>1. m \in pending' <=> m \in pending
      BY <1>2, <2>3
    <3>2. rows'[m] = "none" <=> rows[m] = "none"
      BY <1>4, <1>7, <2>3
    <3>3. QED
      BY <2>1, <3>1, <3>2
  <2>4. QED
    BY <2>2, <2>3
<1>9. FinishReported'
  <2> SUFFICES ASSUME NEW m \in Own, sent[m] = "ok", rows'[m] = "done"
               PROVE  finished[m] = 1 \/ m \in touched'
    BY <1>2 DEF FinishReported
  <2>1. CASE m = e.message
    BY <1>2, <1>7, <2>1
  <2>2. CASE m # e.message
    <3>1. rows[m] = "done"
      BY <1>4, <1>7, <2>2
    <3>2. finished[m] = 1 \/ m \in touched
      BY <3>1 DEF ShownInv, FinishReported
    <3>3. QED
      BY <1>2, <3>2
  <2>3. QED
    BY <2>1, <2>2
<1>10. QED
  BY <1>2, <1>4, <1>5, <1>6, <1>8, <1>9 DEF ShownInv

LEMMA SendStep ==
  ASSUME AgentInv, ShownInv, NEW m \in Own, Send(m)
  PROVE  ShownInv'
<1>1. sends' \in Seq(Own)
  BY AppendProperties DEF Send, ShownInv
<1>2. /\ sent' = [sent EXCEPT ![m] = "sending"] /\ pending' = pending \cup {m} /\ sent[m] = "new"
      /\ UNCHANGED <<projVars, log, turn>>
  BY DEF Send, agentVars
<1>3. ShownOnce' /\ FinishReported'
  BY <1>2 DEF ShownInv, ShownOnce, FinishReported, projVars
<1>4. QED
  BY <1>1, <1>2, <1>3 DEF ShownInv, projVars

\* The submit of the first send in order.
LEMMA HeadOfSends ==
  ShownInv /\ sends # <<>> => Head(sends) \in Own /\ Tail(sends) \in Seq(Own)
  BY HeadTailProperties DEF ShownInv

LEMMA AdmittedStep ==
  ASSUME AgentInv, ShownInv, Admitted
  PROVE  AgentInv' /\ ShownInv'
<1> DEFINE m == Head(sends)
<1>1. m \in Own /\ m \in Message
  BY HeadOfSends DEF Admitted, Message
<1>2. Admit(m) /\ sent' = [sent EXCEPT ![m] = "admitted"] /\ sent[m] = "sending"
      /\ UNCHANGED <<projVars, pending, sends>>
  BY DEF Admitted
<1>3. AgentInv' /\ turn' = turn /\ Len(log') = Len(log) + 1 /\ Len(log) \in Nat
  BY <1>1, <1>2, AdmitStep, LenProperties DEF AgentInv
<1>4. ShownOnce' /\ FinishReported'
  BY <1>1, <1>2 DEF ShownInv, ShownOnce, FinishReported, projVars
<1>5. resume' \in 0..Len(log') /\ lastTurn' \in 0..turn'
  BY <1>2, <1>3 DEF ShownInv, projVars
<1>6. QED
  BY <1>1, <1>2, <1>3, <1>4, <1>5 DEF ShownInv, projVars

\* A flush reports the end of whatever has changed and is done.
LEMMA FlushedStep ==
  ASSUME ShownInv, NEW changed, touched \subseteq changed, NEW oks, NEW status,
         Flushed(changed, oks, status)
  PROVE  /\ finished' \in [Own -> 0..1] /\ touched' = {}
         /\ \A m \in Own : finished[m] = 1 => finished'[m] = 1
         /\ \A m \in Own : m \in changed /\ status[m] = "done" /\ m \in oks => finished'[m] = 1
  BY DEF Flushed, ShownInv

\* The reply: the send is given its row, or becomes one, or waits for the first frame.
LEMMA RepliedStep ==
  ASSUME AgentInv, ShownInv, Replied
  PROVE  ShownInv'
<1> DEFINE m == Head(sends)
           s == Settled(m)
<1>1. m \in Own /\ m \in Message /\ Tail(sends) \in Seq(Own)
  BY HeadOfSends DEF Replied, Message
<1>2. /\ sent[m] = "admitted" /\ sent' = [sent EXCEPT ![m] = "ok"]
      /\ pending' = s.pending /\ rows' = s.rows /\ sends' = Tail(sends)
      /\ Flushed(touched \cup s.touched, Oks \cup {m}, s.rows)
      /\ UNCHANGED <<log, turn, resume, busy, lastTurn>>
  BY DEF Replied, agentVars
<1>3. m \in pending /\ Own \subseteq Message
  BY <1>1, <1>2 DEF ShownInv, ShownOnce, Message
<1>4. /\ rows' \in [Message -> {"none", "accepted", "running", "done"}] /\ pending' \subseteq Own
      /\ \A n \in Message : n # m => rows'[n] = rows[n] /\ (n \in pending' <=> n \in pending)
      /\ m \in pending' <=> rows'[m] = "none"
      /\ rows'[m] = "done" => rows[m] = "done" /\ m \in s.touched
  <2>1. CASE rows[m] # "none"
    BY <1>1, <1>2, <1>3, <2>1 DEF Settled, ShownInv
  <2>2. CASE rows[m] = "none" /\ resume > 0
    BY <1>1, <1>2, <1>3, <2>2 DEF Settled, ShownInv
  <2>3. CASE rows[m] = "none" /\ ~(resume > 0)
    BY <1>1, <1>2, <1>3, <2>3 DEF Settled, ShownInv
  <2>4. QED
    BY <2>1, <2>2, <2>3
<1>5. /\ finished' \in [Own -> 0..1] /\ touched' = {}
      /\ \A n \in Own : finished[n] = 1 => finished'[n] = 1
      /\ \A n \in Own : n \in touched \cup s.touched /\ rows'[n] = "done" /\ n \in Oks \cup {m} =>
           finished'[n] = 1
  <2> HIDE DEF s, m
  <2>1. touched \subseteq touched \cup s.touched
    OBVIOUS
  <2>2. /\ finished' \in [Own -> 0..1] /\ touched' = {}
        /\ \A n \in Own : finished[n] = 1 => finished'[n] = 1
        /\ \A n \in Own : n \in touched \cup s.touched /\ s.rows[n] = "done" /\ n \in Oks \cup {m} =>
             finished'[n] = 1
    <3> DEFINE changed == touched \cup s.touched
               oks == Oks \cup {m}
               status == s.rows
    <3> HIDE DEF changed, oks, status
    <3>1. touched \subseteq changed /\ Flushed(changed, oks, status)
      BY <1>2, <2>1 DEF changed, oks, status
    <3>2. /\ finished' \in [Own -> 0..1] /\ touched' = {}
          /\ \A n \in Own : finished[n] = 1 => finished'[n] = 1
          /\ \A n \in Own : n \in changed /\ status[n] = "done" /\ n \in oks => finished'[n] = 1
      BY <3>1, FlushedStep
    <3>3. QED
      BY <3>2 DEF changed, oks, status
  <2>3. QED
    BY <1>2, <2>2
<1>6. ShownOnce'
  <2> SUFFICES ASSUME NEW n \in Own
               PROVE  /\ sent'[n] = "ok" => (n \in pending' <=> rows'[n] = "none")
                      /\ sent'[n] \in {"sending", "admitted", "failed", "failedAdmitted"} => n \in pending'
    BY DEF ShownOnce
  <2>1. CASE n = m
    BY <1>1, <1>2, <1>4, <2>1 DEF ShownInv
  <2>2. CASE n # m
    BY <1>1, <1>2, <1>3, <1>4, <2>2 DEF ShownInv, ShownOnce
  <2>3. QED
    BY <2>1, <2>2
<1>7. FinishReported'
  <2> SUFFICES ASSUME NEW n \in Own, sent'[n] = "ok", rows'[n] = "done"
               PROVE  finished'[n] = 1
    BY DEF FinishReported
  <2>1. CASE n = m
    BY <1>4, <1>5, <2>1
  <2>2. CASE n # m
    <3>1. sent[n] = "ok" /\ rows[n] = "done" /\ n \in Oks
      BY <1>1, <1>2, <1>3, <1>4, <2>2 DEF ShownInv, Oks
    <3>2. finished[n] = 1 \/ n \in touched
      BY <3>1 DEF ShownInv, FinishReported
    <3>3. QED
      BY <1>5, <3>1, <3>2
  <2>3. QED
    BY <2>1, <2>2
<1>8. QED
  BY <1>1, <1>2, <1>4, <1>5, <1>6, <1>7 DEF ShownInv

\* A flush of what has changed, with or without a send that failed.
LEMMA FlushStep ==
  ASSUME AgentInv, ShownInv, Flush \/ SubmitFails
  PROVE  ShownInv'
<1>1. /\ Flushed(touched, Oks, rows)
      /\ UNCHANGED <<log, turn, resume, busy, lastTurn, rows, pending>>
  BY DEF Flush, SubmitFails, agentVars, sendVars
<1>2. /\ finished' \in [Own -> 0..1] /\ touched' = {}
      /\ \A n \in Own : finished[n] = 1 => finished'[n] = 1
      /\ \A n \in Own : n \in touched /\ rows[n] = "done" /\ n \in Oks => finished'[n] = 1
  BY <1>1, FlushedStep
<1>3. /\ sends' \in Seq(Own)
      /\ \/ sent' = sent
         \/ \E m \in Own : /\ sent[m] \in {"sending", "admitted"}
                           /\ sent' = [sent EXCEPT ![m] = IF @ = "sending" THEN "failed" ELSE "failedAdmitted"]
  <2>1. CASE Flush
    BY <2>1 DEF Flush, sendVars, ShownInv
  <2>2. CASE SubmitFails
    BY <2>2, HeadOfSends DEF SubmitFails
  <2>3. QED
    BY <2>1, <2>2
<1>4. /\ sent' \in [Own -> {"new", "sending", "admitted", "ok", "failed", "failedAdmitted"}]
      /\ \A n \in Own : sent'[n] = "ok" <=> sent[n] = "ok"
      /\ \A n \in Own : sent'[n] # "new" <=> sent[n] # "new"
  BY <1>3 DEF ShownInv
<1>5. ShownOnce'
  BY <1>1, <1>4 DEF ShownInv, ShownOnce
<1>6. FinishReported'
  BY <1>1, <1>2, <1>4 DEF ShownInv, FinishReported, Oks
<1>7. QED
  BY <1>1, <1>2, <1>3, <1>4, <1>5, <1>6 DEF ShownInv
----------------------------------------------------------------------------
(* The theorem *)

LEMMA InitHolds == Init => IInv
<1> SUFFICES ASSUME Init PROVE IInv
  OBVIOUS
<1> DEFINE e == [kind |-> "registered", message |-> None, turn |-> 0]
<1>1. log = <<e>> /\ e \in Frame
  BY DEF Init, Frame, Kind
<1>2. log \in Seq(Frame) /\ Len(log) = 1 /\ log[1] = e /\ DOMAIN log = {1}
  <2> HIDE DEF e
  <2>1. <<e>> \in Seq(Frame)
    BY <1>1
  <2>2. Len(<<e>>) = 1 /\ <<e>>[1] = e /\ DOMAIN <<e>> = 1 .. 1
    OBVIOUS
  <2>3. QED
    BY <1>1, <2>1, <2>2
<1>3. AgentInv
  <2>1. \A i \in DOMAIN log : log[i].kind = "registered"
    BY <1>2
  <2>2. queue \in Seq(Message) /\ active = None /\ turn = 0 /\ closed \in BOOLEAN
    BY EmptySeq DEF Init
  <2>3. QED
    BY <1>2, <2>1, <2>2 DEF AgentInv
<1>4. ConnectInv
  <2>1. Strays = {} /\ Cardinality(Strays) = 0
    <3>1. \A r \in Run : ~Live(runs[r])
      BY OffType DEF Init
    <3>2. QED
      BY <3>1, FS_EmptySet DEF Strays
  <2>2. runs \in [Run -> Connect] /\ run = None /\ wake = None
    BY OffType DEF Init
  <2>3. observed \in BOOLEAN /\ hidden \in BOOLEAN /\ connection = "stopped"
    BY DEF Init
  <2>4. troubles = 0 /\ troubles \in 0..MaxTroubles
    BY BoundAssumption DEF Init
  <2>5. QED
    BY <2>1, <2>2, <2>3, <2>4 DEF ConnectInv
<1>5. ShownInv
  <2>1. /\ resume = 0 /\ busy \in BOOLEAN /\ lastTurn = 0 /\ turn = 0 /\ pending = {} /\ touched = {}
        /\ sends \in Seq(Own)
    BY EmptySeq DEF Init
  <2>2. /\ rows = [m \in Message |-> "none"] /\ sent = [m \in Own |-> "new"]
        /\ finished = [m \in Own |-> 0]
    BY DEF Init
  <2>3. ShownOnce /\ FinishReported
    BY <2>2 DEF ShownOnce, FinishReported
  <2>4. QED
    BY <1>2, <2>1, <2>2, <2>3 DEF ShownInv
<1>6. QED
  BY <1>3, <1>4, <1>5 DEF IInv

\* No step of the agent, of an invocation, of the page or of a send disturbs it.
LEMMA NextHolds == IInv /\ [Next]_vars => IInv'
<1> SUFFICES ASSUME IInv, [Next]_vars PROVE IInv'
  OBVIOUS
<1> USE DEF IInv
<1>1. troubles \in 0..MaxTroubles /\ MaxTroubles \in Nat /\ observed \in BOOLEAN /\ hidden \in BOOLEAN
      /\ turn \in Nat /\ Len(log) \in Nat /\ resume \in 0..Len(log)
  BY BoundAssumption, LenProperties DEF ConnectInv, AgentInv, ShownInv
<1>2. ASSUME UNCHANGED agentVars PROVE AgentInv' /\ turn' = turn /\ Len(log') = Len(log)
  BY <1>2 DEF AgentInv, agentVars
<1>3. ASSUME UNCHANGED <<connVars, observed>>, hidden' \in BOOLEAN,
             troubles' = troubles \/ Trouble
      PROVE  ConnectInv'
  <2>1. troubles' \in 0..MaxTroubles /\ troubles <= troubles'
    BY <1>1, <1>3 DEF Trouble
  <2>2. QED
    BY <1>3, <2>1, ConnectStays
<1>4. CASE \E m \in Other : OtherSends(m)
  <2>1. PICK m \in Message : Admit(m) /\ UNCHANGED <<connVars, pageVars, projVars, sendVars, troubles>>
    BY <1>4 DEF OtherSends, Message
  <2>2. AgentInv' /\ turn' = turn /\ Len(log') = Len(log) + 1
    BY <2>1, AdmitStep
  <2>3. ConnectInv'
    BY <1>1, <1>3, <2>1 DEF pageVars
  <2>4. ShownInv'
    BY <1>1, <2>1, <2>2, ShownStays
  <2>5. QED
    BY <2>2, <2>3, <2>4
<1>5. CASE StartTurn \/ EndTurn \/ Note \/ CloseAgent
  <2>1. /\ UNCHANGED <<connVars, pageVars, projVars, sendVars>>
        /\ troubles' = troubles \/ Trouble
    BY <1>5 DEF StartTurn, EndTurn, Note, CloseAgent
  <2>2. AgentInv' /\ turn' \in Nat /\ turn <= turn' /\ Len(log') = Len(log) + 1
    BY <1>5, TurnStep
  <2>3. ConnectInv'
    BY <1>1, <1>3, <2>1 DEF pageVars
  <2>4. ShownInv'
    BY <2>1, <2>2, ShownStays
  <2>5. QED
    BY <2>2, <2>3, <2>4
<1>6. CASE \E r \in Run : Progress(r) \/ Fails(r) \/ Cut(r)
  <2>1. PICK r \in Run : Progress(r) \/ Fails(r) \/ Cut(r)
    BY <1>6
  <2>2. ConnectInv'
    BY <1>1, <2>1, ConnectSteps
  <2>3. AgentInv' /\ turn' = turn /\ Len(log') = Len(log)
    BY <1>2, <2>1 DEF Progress, Open, Receive, StreamEnds, Checked, BackoffOver, Poll, Fails, Cut
  <2>4. Receive(r) \/ UNCHANGED <<projVars, sendVars>>
    BY <2>1 DEF Progress, Open, StreamEnds, Checked, BackoffOver, Poll, Fails, Cut
  <2>5. ShownInv'
    BY <1>1, <2>3, <2>4, ReceiveStep, ShownStays
  <2>6. QED
    BY <2>2, <2>3, <2>5
<1>7. CASE Start
  <2>1. PICK r \in {CHOOSE s \in Run : ~Live(runs[s])} :
          run' = r /\ Put(r, [Off EXCEPT !.pc = "opening"])
    BY <1>7 DEF Start
  <2>2. /\ run = None /\ observed' = TRUE /\ connection' = "connecting"
        /\ UNCHANGED <<agentVars, wake, hidden, projVars, sendVars, troubles>>
    BY <1>7 DEF Start, ConnectInv
  <2>3. r \in Run /\ ~Live(runs[r])
    BY <2>1, <2>2, FreePlace
  <2>4. ConnectInv'
    BY <2>1, <2>2, <2>3, NewRun
  <2>5. AgentInv' /\ ShownInv'
    BY <1>1, <1>2, <2>2, ShownStays
  <2>6. QED
    BY <2>4, <2>5
<1>8. CASE Stop
  <2>1. AgentInv' /\ ShownInv'
    BY <1>1, <1>2, <1>8, ShownStays DEF Stop
  <2>2. QED
    BY <1>8, <2>1, StopStep
<1>9. CASE Visibility
  <2>1. AgentInv' /\ ShownInv'
    BY <1>1, <1>2, <1>9, ShownStays DEF Visibility
  <2>2. ConnectInv'
    BY <1>1, <1>3, <1>9 DEF Visibility
  <2>3. QED
    BY <2>1, <2>2
<1>10. CASE \E m \in Own : Send(m)
  <2>1. AgentInv'
    BY <1>2, <1>10 DEF Send
  <2>2. ConnectInv'
    BY <1>1, <1>3, <1>10 DEF Send, pageVars
  <2>3. QED
    BY <1>10, <2>1, <2>2, SendStep
<1>11. CASE Admitted
  <2>1. ConnectInv'
    BY <1>1, <1>3, <1>11 DEF Admitted, pageVars
  <2>2. QED
    BY <1>11, <2>1, AdmittedStep
<1>12. CASE Replied
  <2>1. AgentInv'
    BY <1>2, <1>12 DEF Replied
  <2>2. ConnectInv'
    BY <1>12, EnsureLiveStep DEF Replied, pageVars
  <2>3. QED
    BY <1>12, <2>1, <2>2, RepliedStep
<1>13. CASE Flush \/ SubmitFails
  <2>1. AgentInv'
    BY <1>2, <1>13 DEF Flush, SubmitFails
  <2>2. ConnectInv'
    BY <1>1, <1>3, <1>13 DEF Flush, SubmitFails, pageVars
  <2>3. QED
    BY <1>13, <2>1, <2>2, FlushStep
<1>14. CASE UNCHANGED vars
  <2>1. UNCHANGED <<agentVars, connVars, observed, hidden, projVars, sendVars, troubles>>
    BY <1>14 DEF vars, pageVars
  <2>2. QED
    BY <1>1, <1>2, <1>3, <2>1, ShownStays
<1>15. QED
  BY <1>4, <1>5, <1>6, <1>7, <1>8, <1>9, <1>10, <1>11, <1>12, <1>13, <1>14 DEF Next

\* Reply and stream tell of a send in either order: it is shown once, as a pending send or
\* as a row, and onFinish is called for it or will be at the next flush; and attempts stay
\* within their budget.  For any number of messages, invocations, failures and stops.
THEOREM SendsTheorem == Spec => []SendsAreSettled
<1>1. Spec => []IInv
  BY InitHolds, NextHolds, PTL DEF Spec
<1>2. QED
  BY <1>1, InvariantSuffices, PTL
=============================================================================
