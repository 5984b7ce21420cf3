--------------------------- MODULE CodeModeProofs ---------------------------
(***************************************************************************)
(* Proofs about Code Mode scripts, for every script, every set of gated    *)
(* calls and any number of replays: what is awaited ran once, nothing runs *)
(* on, and a replay reaches what the original run reached.                 *)
(*                                                                         *)
(* The argument: the history (program, marker) determines the driver after *)
(* each step; a live driver is the last of these and a replaying one is    *)
(* one of them, unless a step crashed on replay, when it stands behind one *)
(* of them.  So the state of the calls can be related to the driver the    *)
(* original run left, which a replay does not disturb.                     *)
(***************************************************************************)
EXTENDS CodeMode, TLAPS, SequenceTheorems

----------------------------------------------------------------------------
(* The inductive invariant *)

\* Where the original run stands.
Left == Reached(Len(program))

\* Each step leaves what the step before it, its move and its marker give, and only
\* the last one may end the script.  No step of it raised.
HistoryInv ==
  \A i \in 1 .. Len(program) :
    /\ Reached(i - 1).run = "on"
    /\ Reached(i).step = i /\ Reached(i).run # "raised"
    /\ Reached(i) = After(Reached(i - 1), program[i], marker[i])

\* The driver is one of these; a cancelled one stands where it was cancelled, and one that
\* raised on replay, where the step that crashed began.
RaisedInv ==
  /\ driver.step \in 1 .. Len(program) /\ marker[driver.step] = "none"
  /\ driver = After(Reached(driver.step - 1), program[driver.step], "raised")
OnTrackInv ==
  /\ driver = IF live /\ cancelled THEN [Reached(driver.step) EXCEPT !.run = "cancelled"]
              ELSE Reached(driver.step)
  /\ live => driver.step = Len(program)
DriverInv ==
  /\ driver.step \in 0 .. Len(program)
  /\ IF driver.run = "raised" THEN RaisedInv ELSE OnTrackInv
  /\ cancelled => Left.run = "on"

\* The calls made are those that were started, once; the calls in flight are those the
\* driver knows, and none once the script is over.
CallsInv ==
  /\ Left.calls = Left.running
  /\ \A c \in Left.running : c <= Left.made
  /\ \A c \in Call : starts[c] = IF c <= Left.made THEN 1 ELSE 0
  /\ \A c \in Call : task[c] \in InFlight =>
       Left.run = "on" /\ ~cancelled /\ c \in Left.running \cup Left.awaiting

\* A run that has departed from its history has no call in flight.
DepartedInv ==
  live /\ driver.run = "raised" => \A c \in Call : task[c] \notin InFlight

IInv == TypeOK /\ HistoryInv /\ DriverInv /\ CallsInv /\ AwaitedOnce /\ DepartedInv

----------------------------------------------------------------------------
(* One step *)

\* What a step makes of a driver, field by field.
LEMMA AfterFacts ==
  ASSUME NEW d \in DriverType, NEW move \in Move, NEW abort \in {"none", "raised"} \cup Aborts
  PROVE  LET e == After(d, move, abort) IN
         /\ e.step = d.step + 1
         /\ abort # "none" => e.run = abort /\ e.awaiting = {}
         /\ abort = "none" /\ move.awaits = {} => e.run = "finished" /\ e.awaiting = {}
         /\ abort # "none" \/ move.awaits = {} =>
              e.made = d.made /\ e.calls = d.calls /\ e.running = d.running
         /\ abort = "none" /\ move.awaits # {} =>
              /\ e.run = d.run /\ e.awaiting = move.awaits /\ e.made = move.upto
              /\ e.calls = (d.calls \cup Makes(d, move)) \ move.awaits
              /\ e.running = (d.running \cup NewTasks(d, move)) \ move.awaits
  BY DEF After, DriverType, Aborts

LEMMA AfterType ==
  ASSUME NEW d \in DriverType, NEW move \in Move, NEW abort \in {"none", "raised"} \cup Aborts,
         d.step < MaxSteps
  PROVE  After(d, move, abort) \in DriverType
<1>1. MaxSteps \in Nat /\ MaxCalls \in Nat
  BY BoundsAssumption
<1>2. d.step + 1 \in 0 .. MaxSteps
  BY <1>1 DEF DriverType
<1>3. NewTasks(d, move) \subseteq Call /\ Makes(d, move) \subseteq Call
  BY <1>1 DEF NewTasks, Makes, Move, DriverType, Call, FileOp
<1>4. move.awaits \subseteq Awaitable
  BY DEF Move, Awaitable
<1>5. CASE abort # "none"
  BY <1>2, <1>5 DEF After, DriverType, Runs
<1>6. CASE abort = "none" /\ move.awaits = {}
  BY <1>2, <1>6 DEF After, DriverType, Runs
<1>7. CASE abort = "none" /\ move.awaits # {}
  BY <1>2, <1>3, <1>4, <1>7 DEF After, DriverType, Runs, Move
<1>8. QED
  BY <1>5, <1>6, <1>7

\* A step starts exactly the calls it makes: what it awaits of earlier ones is running.
LEMMA NewTasksAreMade ==
  ASSUME NEW d \in DriverType, NEW move \in Move, Possible(d, move),
         d.calls = d.running, \A c \in d.running : c <= d.made
  PROVE  NewTasks(d, move) = Makes(d, move)
<1>1. \A c \in Makes(d, move) : c > d.made /\ c # FileOp
  BY BoundsAssumption DEF Makes, DriverType, FileOp, Move
<1>2. \A c \in Makes(d, move) : c \notin d.running
  BY <1>1, BoundsAssumption DEF DriverType, Call, Makes, Move
<1>3. QED
  BY <1>1, <1>2 DEF NewTasks, Possible

\* The initial state.
LEMMA InitInv == Init => IInv
<1> SUFFICES ASSUME Init PROVE IInv
  OBVIOUS
<1>1. Fresh \in DriverType
  BY BoundsAssumption DEF Fresh, DriverType, Runs
<1>2. TypeOK
  <2>1. \A S : <<>> \in Seq(S)
    BY EmptySeq
  <2>2. Len(<<>>) = 0
    OBVIOUS
  <2>3. replays \in 0 .. MaxReplays /\ starts \in [Call -> 0 .. 1]
    BY BoundsAssumption DEF Init
  <2>4. task \in [Awaitable -> {"none", "cancelling"} \cup InFlight \cup Settled]
    BY DEF Init
  <2>5. QED
    BY <1>1, <2>1, <2>2, <2>3, <2>4 DEF Init, TypeOK
<1>3. Left = Fresh /\ Len(program) = 0
  BY DEF Init, Left, Reached
<1>4. HistoryInv /\ AwaitedOnce
  BY <1>3 DEF HistoryInv, AwaitedOnce, Init
<1>5. DriverInv
  BY <1>3 DEF DriverInv, OnTrackInv, Init, Reached, Fresh
<1>6. CallsInv
  BY <1>3, BoundsAssumption DEF CallsInv, Init, Fresh, Call, Awaitable, InFlight
<1>7. DepartedInv
  BY DEF DepartedInv, Init, Fresh
<1>8. QED
  BY <1>2, <1>4, <1>5, <1>6, <1>7 DEF IInv

----------------------------------------------------------------------------
(* What a live driver at the end of a batch knows *)

LEMMA ReachedType ==
  ASSUME TypeOK, NEW n \in 0 .. Len(program)
  PROVE  Reached(n) \in DriverType
<1>1. Fresh \in DriverType
  BY BoundsAssumption DEF Fresh, DriverType, Runs
<1>2. Len(program) \in Nat /\ Len(past) = Len(program)
  BY LenProperties DEF TypeOK
<1>3. CASE n # 0
  BY <1>2, <1>3, ElementOfSeq DEF TypeOK, Reached
<1>4. QED
  BY <1>1, <1>3 DEF Reached

\* No driver of the history has raised.
LEMMA NoneRaised ==
  ASSUME TypeOK, HistoryInv, NEW n \in 0 .. Len(program)
  PROVE  Reached(n).run # "raised"
<1>1. CASE n = 0
  BY <1>1 DEF Reached, Fresh
<1>2. CASE n # 0
  BY <1>2, LenProperties DEF HistoryInv, TypeOK
<1>3. QED
  BY <1>1, <1>2

\* It is what the last step left, and what that step awaited has come back.
LEMMA AtRest ==
  ASSUME IInv, live, driver.run = "on"
  PROVE  /\ ~cancelled /\ driver = Left
         /\ Len(program) > 0 /\ Completed(Len(program)) =>
              driver.awaiting = program[Len(program)].awaits
<1>1. Left \in DriverType
  BY ReachedType, LenProperties DEF IInv, Left, TypeOK
<1>2. ~cancelled
  <2> SUFFICES ASSUME cancelled PROVE FALSE
    OBVIOUS
  <2>1. driver = [Left EXCEPT !.run = "cancelled"]
    BY DEF IInv, DriverInv, OnTrackInv, Left
  <2>2. driver.run = "cancelled"
    BY <1>1, <2>1 DEF DriverType
  <2>3. QED
    BY <2>2
<1>3. driver = Left
  BY <1>2 DEF IInv, DriverInv, OnTrackInv, Left
<1>4. ASSUME Len(program) > 0, Completed(Len(program))
      PROVE  driver.awaiting = program[Len(program)].awaits
  <2> DEFINE n == Len(program)
  <2>1. n \in 1 .. Len(program) /\ n - 1 \in 0 .. Len(program)
    BY <1>4, LenProperties DEF IInv, TypeOK
  <2>2. Reached(n - 1) \in DriverType /\ program[n] \in Move
    BY <2>1, ReachedType, ElementOfSeq DEF IInv, TypeOK
  <2>3. Left = After(Reached(n - 1), program[n], "none")
    BY <1>4, <2>1 DEF IInv, HistoryInv, Left, Completed
  <2>4. Left.run = "on"
    BY <1>3
  <2>5. program[n].awaits # {}
    BY <2>2, <2>3, <2>4, AfterFacts
  <2>6. QED
    BY <1>3, <2>2, <2>3, <2>5, AfterFacts
<1>5. QED
  BY <1>2, <1>3, <1>4

----------------------------------------------------------------------------
(* A step on the original run *)

\* What Stop, Finish and StepAborts have in common.
Stepping(move, abort) ==
  /\ CanStep /\ Possible(driver, move)
  /\ program' = Append(program, move) /\ marker' = Append(marker, abort)
  /\ driver' = After(driver, move, abort) /\ past' = Append(past, driver')
  /\ UNCHANGED <<cancelled, live, replays>>

\* The history grows by the step, whose driver is the live one.
LEMMA StepHistory ==
  ASSUME IInv, NEW move \in Move, NEW abort \in {"none"} \cup Aborts, Stepping(move, abort)
  PROVE  /\ Len(program') = Len(program) + 1
         /\ \A n \in 0 .. Len(program) : Reached(n)' = Reached(n)
         /\ \A i \in 1 .. Len(program) : program'[i] = program[i] /\ marker'[i] = marker[i]
         /\ program'[Len(program) + 1] = move /\ marker'[Len(program) + 1] = abort
         /\ Left' = driver' /\ driver' \in DriverType
         /\ HistoryInv' /\ DriverInv'
<1> DEFINE n == Len(program)
<1>1. /\ n \in Nat /\ Len(past) = n /\ Len(marker) = n
      /\ program \in Seq(Move) /\ marker \in Seq({"none"} \cup Aborts) /\ past \in Seq(DriverType)
      /\ driver \in DriverType
  BY LenProperties DEF IInv, TypeOK
<1>2. driver' \in DriverType /\ driver'.step = driver.step + 1
  BY <1>1, AfterType, AfterFacts DEF Stepping, CanStep
<1>3. /\ Len(program') = n + 1
      /\ \A i \in 1 .. n : program'[i] = program[i] /\ marker'[i] = marker[i]
      /\ program'[n + 1] = move /\ marker'[n + 1] = abort
  BY <1>1, AppendProperties DEF Stepping
<1>4. /\ \A i \in 1 .. n : past'[i] = past[i]
      /\ past'[n + 1] = driver'
  BY <1>1, <1>2, AppendProperties DEF Stepping
<1>5. \A i \in 0 .. n : Reached(i)' = Reached(i)
  BY <1>1, <1>4 DEF Reached
<1>6. Left' = driver'
  BY <1>1, <1>3, <1>4 DEF Left, Reached
<1>7. driver = Left /\ ~cancelled /\ live /\ driver.run = "on" /\ driver.step = n
  BY AtRest DEF IInv, DriverInv, OnTrackInv, Stepping, CanStep
<1>12. driver'.run # "raised"
  BY <1>1, <1>7, AfterFacts DEF Stepping, Aborts
<1>8. \A i \in Nat : i = n + 1 => Reached(i)' = driver'
  BY <1>1, <1>4 DEF Reached
<1>9. HistoryInv'
  <2> SUFFICES ASSUME NEW i \in 1 .. n + 1
               PROVE  /\ Reached(i - 1)'.run = "on"
                      /\ Reached(i)'.step = i /\ Reached(i)'.run # "raised"
                      /\ Reached(i)' = After(Reached(i - 1)', program'[i], marker'[i])
    BY <1>3 DEF HistoryInv, After, Makes, NewTasks
  <2>1. CASE i \in 1 .. n
    <3>1. i - 1 \in 0 .. n /\ i \in 0 .. n
      BY <1>1, <2>1
    <3>2. Reached(i - 1)' = Reached(i - 1) /\ Reached(i)' = Reached(i)
      BY <1>5, <3>1
    <3>3. QED
      BY <1>3, <2>1, <3>2 DEF IInv, HistoryInv
  <2>2. CASE i = n + 1
    <3>1. i - 1 = n
      BY <1>1, <2>2
    <3>2. Reached(i - 1)' = driver
      BY <1>1, <1>5, <1>7, <3>1 DEF Left
    <3>3. Reached(i)' = driver'
      BY <1>1, <1>8, <2>2
    <3>4. QED
      BY <1>2, <1>3, <1>7, <1>12, <2>2, <3>2, <3>3 DEF Stepping
  <2>3. QED
    BY <1>1, <2>1, <2>2
<1>10. DriverInv'
  <2>1. driver'.step = n + 1 /\ ~cancelled' /\ live'
    BY <1>2, <1>7 DEF Stepping
  <2>2. Reached(driver.step)' = driver'
    BY <1>1, <1>4, <2>1 DEF Reached
  <2>3. QED
    BY <1>1, <1>3, <1>12, <2>1, <2>2 DEF DriverInv, OnTrackInv
<1>11. QED
  BY <1>2, <1>3, <1>5, <1>6, <1>9, <1>10

\* The types of the history, after a step.
LEMMA StepTypes ==
  ASSUME TypeOK, NEW move \in Move, NEW abort \in {"none"} \cup Aborts,
         program' = Append(program, move), marker' = Append(marker, abort),
         past' = Append(past, driver'), driver' \in DriverType
  PROVE  /\ program' \in Seq(Move) /\ marker' \in Seq({"none"} \cup Aborts)
         /\ past' \in Seq(DriverType)
         /\ Len(marker') = Len(program') /\ Len(past') = Len(program')
  BY AppendProperties, LenProperties DEF TypeOK

\* The script stops and hands its calls over: they are new, and run once.
LEMMA StopInv ==
  ASSUME IInv, NEW move \in Move, Stop(move)
  PROVE  IInv'
<1> DEFINE n == Len(program)
<1> DEFINE new == Makes(driver, move)
<1>1. Stepping(move, "none") /\ "none" \in {"none"} \cup Aborts
  BY DEF Stop, Stepping
<1>2. driver = Left /\ ~cancelled /\ driver.run = "on" /\ driver \in DriverType /\ n \in Nat
  BY <1>1, AtRest, LenProperties DEF Stepping, CanStep, IInv, TypeOK
<1>3. NewTasks(driver, move) = new
  BY <1>1, <1>2, NewTasksAreMade DEF IInv, CallsInv, Stepping
<1>4. /\ driver'.run = "on" /\ driver'.awaiting = move.awaits /\ driver'.made = move.upto
      /\ driver'.calls = (driver.calls \cup new) \ move.awaits
      /\ driver'.running = (driver.running \cup new) \ move.awaits
  BY <1>1, <1>2, <1>3, AfterFacts DEF Stepping, Stop
<1>5. /\ Left' = driver' /\ driver' \in DriverType /\ HistoryInv' /\ DriverInv'
      /\ Len(program') = n + 1
      /\ \A i \in 1 .. n : program'[i] = program[i] /\ marker'[i] = marker[i]
      /\ program'[n + 1] = move
  BY <1>1, StepHistory
<1>6. /\ new \subseteq Call /\ FileOp \notin new
      /\ \A c \in Call : c \in new <=> c > driver.made /\ c <= move.upto
      /\ \A c \in driver.running : c \in Call /\ c <= driver.made
      /\ driver.made <= move.upto /\ driver.made \in Nat /\ move.upto \in Nat
  BY <1>1, <1>2, BoundsAssumption
  DEF Makes, Call, Move, DriverType, IInv, CallsInv, Possible, Stepping, FileOp
<1>7. \A c \in Call : starts'[c] = IF c \in new THEN starts[c] + 1 ELSE starts[c]
  BY <1>3 DEF Stop
<1>8. \A c \in Call : starts[c] = IF c <= driver.made THEN 1 ELSE 0
  BY <1>2 DEF IInv, CallsInv
<1>9. \A c \in Call : starts'[c] = IF c <= move.upto THEN 1 ELSE 0
  BY <1>6, <1>7, <1>8 DEF Call
<1>10. \A c \in Call :
         /\ c \notin new /\ c \notin move.awaits => task'[c] = task[c]
         /\ c \notin new => task'[c] = task[c]
         /\ c \in new => task'[c] \in InFlight
  BY <1>3, <1>6 DEF Stop, Started, InFlight, Awaitable, Call, FileOp
<1>11. TypeOK'
  <2>1. starts' \in [Call -> 0 .. 1]
    BY <1>3, <1>9 DEF Stop
  <2>2. task' \in [Awaitable -> {"none", "cancelling"} \cup InFlight \cup Settled]
    BY DEF Stop, Started, IInv, TypeOK, InFlight
  <2>3. asked' \in SUBSET Gated
    BY DEF Stop, IInv, TypeOK
  <2>4. QED
    BY <1>1, <1>5, <2>1, <2>2, <2>3, StepTypes DEF Stop, IInv, TypeOK, Stepping
<1>12. CallsInv'
  <2>1. Left'.calls = Left'.running
    BY <1>2, <1>4, <1>5 DEF IInv, CallsInv
  <2>2. \A c \in Left'.running : c <= Left'.made
    BY <1>4, <1>5, <1>6 DEF Call
  <2>3. \A c \in Call : starts'[c] = IF c <= Left'.made THEN 1 ELSE 0
    BY <1>4, <1>5, <1>9
  <2>4. ASSUME NEW c \in Call, task'[c] \in InFlight
        PROVE  c \in Left'.running \cup Left'.awaiting
    <3>1. CASE c \in new
      BY <1>4, <1>5, <3>1
    <3>2. CASE c \notin new
      <4>1. c \in driver.running \cup driver.awaiting
        BY <1>2, <1>10, <2>4, <3>2 DEF IInv, CallsInv
      <4>2. c \notin driver.awaiting
        BY <1>1, <1>10, <2>4, <3>2 DEF Stepping, CanStep, BatchOver, InFlight, Settled
      <4>3. QED
        BY <1>4, <1>5, <4>1, <4>2
    <3>3. QED
      BY <3>1, <3>2
  <2>5. ~cancelled' /\ Left'.run = "on"
    BY <1>2, <1>4, <1>5 DEF Stop
  <2>6. QED
    BY <2>1, <2>2, <2>3, <2>4, <2>5 DEF CallsInv, Call, InFlight
<1>13. AwaitedOnce'
  <2> SUFFICES ASSUME NEW i \in 1 .. n + 1, marker'[i] = "none",
                      NEW c \in program'[i].awaits \ {FileOp}
               PROVE  starts'[c] = 1 /\ (i < n + 1 => task'[c] \in Settled)
    <3>1. DOMAIN program' = 1 .. n + 1
      BY <1>5, <1>11, LenProperties DEF TypeOK
    <3>2. QED
      BY <1>5, <3>1 DEF AwaitedOnce, Completed
  <2>1. CASE i = n + 1
    <3>1. c \in Call /\ c <= move.upto
      BY <1>1, <1>2, <1>5, <1>6, <2>1
      DEF Possible, Stepping, Makes, Move, Call, IInv, CallsInv, FileOp
    <3>2. QED
      BY <1>9, <2>1, <3>1
  <2>2. CASE i \in 1 .. n
    <3>1. marker[i] = "none" /\ c \in program[i].awaits \ {FileOp} /\ program[i] \in Move
      BY <1>5, <2>2, ElementOfSeq DEF IInv, TypeOK
    <3>2. starts[c] = 1 /\ c \in Call
      BY <2>2, <3>1, LenProperties DEF IInv, AwaitedOnce, Completed, Move, TypeOK
    <3>3. c <= driver.made /\ c \notin new
      BY <1>6, <1>8, <3>2 DEF Call
    <3>4. task[c] \in Settled
      <4>1. CASE i < n
        BY <2>2, <3>1, <4>1, LenProperties DEF IInv, AwaitedOnce, Completed, TypeOK
      <4>2. CASE i = n
        <5>1. driver.awaiting = program[n].awaits
          BY <1>1, <1>2, <2>2, <3>1, <4>2, AtRest DEF Stepping, CanStep, Completed
        <5>2. QED
          BY <1>1, <3>1, <4>2, <5>1 DEF Stepping, CanStep, BatchOver
      <4>3. QED
        BY <1>2, <2>2, <4>1, <4>2
    <3>5. QED
      BY <1>7, <1>10, <3>2, <3>3, <3>4
  <2>3. QED
    BY <1>2, <2>1, <2>2
<1>14. DepartedInv'
  BY <1>4 DEF DepartedInv
<1>15. QED
  BY <1>5, <1>11, <1>12, <1>13, <1>14 DEF IInv

\* Unwinding leaves none of these calls in flight, and the calls that ended as they are.
LEMMA UnwoundFacts ==
  ASSUME TypeOK, NEW tasks, task' = Unwound(tasks)
  PROVE  /\ task' \in [Awaitable -> {"none", "cancelling"} \cup InFlight \cup Settled]
         /\ \A c \in Call : task'[c] \in InFlight => task[c] \in InFlight /\ c \notin tasks
         /\ \A c \in Call : task[c] \in Settled => task'[c] = task[c]
  BY DEF TypeOK, Unwound, InFlight, Settled, Awaitable

\* The script ends, by itself or because the step is aborted: nothing is left in flight.
LEMMA EndStepInv ==
  ASSUME IInv, NEW move \in Move, NEW abort \in {"none"} \cup Aborts, Stepping(move, abort),
         abort = "none" => move.awaits = {},
         task' = Unwound(driver.running), UNCHANGED <<starts, asked>>
  PROVE  IInv'
<1> DEFINE n == Len(program)
<1>1. driver = Left /\ ~cancelled /\ driver.run = "on" /\ driver \in DriverType /\ n \in Nat
  BY AtRest, LenProperties DEF Stepping, CanStep, IInv, TypeOK
<1>2. /\ driver'.run # "on"
      /\ driver'.made = driver.made /\ driver'.calls = driver.calls
      /\ driver'.running = driver.running
  BY <1>1, AfterFacts DEF Stepping, Aborts
<1>3. /\ Left' = driver' /\ driver' \in DriverType /\ HistoryInv' /\ DriverInv'
      /\ Len(program') = n + 1
      /\ \A i \in 1 .. n : program'[i] = program[i] /\ marker'[i] = marker[i]
      /\ program'[n + 1] = move /\ marker'[n + 1] = abort
  BY StepHistory
<1>4. TypeOK'
  BY <1>3, UnwoundFacts, StepTypes DEF IInv, TypeOK, Stepping
<1>5. \A c \in Call : task'[c] \notin InFlight
  <2> SUFFICES ASSUME NEW c \in Call, task'[c] \in InFlight PROVE FALSE
    OBVIOUS
  <2>1. task[c] \in InFlight /\ c \notin driver.running
    BY UnwoundFacts DEF IInv
  <2>2. c \in driver.awaiting
    BY <1>1, <2>1 DEF IInv, CallsInv
  <2>3. task[c] \in Settled
    BY <2>2 DEF Stepping, CanStep, BatchOver
  <2>4. QED
    BY <2>1, <2>3 DEF InFlight, Settled
<1>6. CallsInv'
  BY <1>1, <1>2, <1>3, <1>5 DEF IInv, CallsInv, InFlight, Call
<1>7. AwaitedOnce'
  <2>1. DOMAIN program' = 1 .. n + 1 /\ DOMAIN program = 1 .. n
    BY <1>3, <1>4, LenProperties DEF TypeOK, IInv
  <2> SUFFICES ASSUME NEW i \in 1 .. n + 1, marker'[i] = "none",
                      NEW c \in program'[i].awaits \ {FileOp}
               PROVE  starts'[c] = 1 /\ (i < n + 1 => task'[c] \in Settled)
    BY <1>3, <2>1 DEF AwaitedOnce, Completed
  <2>2. i \in 1 .. n
    BY <1>1, <1>3
  <2>3. marker[i] = "none" /\ c \in program[i].awaits \ {FileOp} /\ program[i] \in Move
    BY <1>3, <2>2, ElementOfSeq DEF IInv, TypeOK
  <2>4. starts[c] = 1 /\ c \in Call
    BY <2>1, <2>2, <2>3 DEF IInv, AwaitedOnce, Completed, Move
  <2>5. task[c] \in Settled
    <3>1. CASE i < n
      BY <2>1, <2>2, <2>3, <3>1 DEF IInv, AwaitedOnce, Completed
    <3>2. CASE i = n
      <4>1. driver.awaiting = program[n].awaits
        BY <1>1, <2>2, <2>3, <3>2, AtRest DEF Stepping, CanStep, Completed
      <4>2. QED
        BY <2>3, <3>2, <4>1 DEF Stepping, CanStep, BatchOver
    <3>3. QED
      BY <1>1, <2>2, <3>1, <3>2
  <2>6. QED
    BY <2>4, <2>5, UnwoundFacts DEF IInv
<1>8. DepartedInv'
  BY <1>5 DEF DepartedInv, InFlight, Call
<1>9. QED
  BY <1>3, <1>4, <1>6, <1>7, <1>8 DEF IInv

----------------------------------------------------------------------------
(* The other actions *)

\* While the history stands still and no call is started, it stays what it is.
LEMMA QuietInv ==
  ASSUME IInv, UNCHANGED <<program, marker, past, starts>>,
         \A c \in Call : task'[c] \in InFlight => task[c] \in InFlight,
         \A c \in Call : task[c] \in Settled => task'[c] = task[c]
  PROVE  /\ HistoryInv' /\ AwaitedOnce' /\ Left' = Left
         /\ \A i : Reached(i)' = Reached(i)
         /\ cancelled' = cancelled => CallsInv'
         /\ (\A c \in Call : task'[c] \notin InFlight) => CallsInv'
<1>1. Left' = Left /\ \A i : Reached(i)' = Reached(i)
  BY DEF Left, Reached
<1>2. HistoryInv'
  BY <1>1 DEF IInv, HistoryInv, After, Makes, NewTasks
<1>3. AwaitedOnce'
  <2> SUFFICES ASSUME NEW i \in DOMAIN program, Completed(i), NEW c \in program[i].awaits \ {FileOp}
               PROVE  starts[c] = 1 /\ (i < Len(program) => task'[c] \in Settled)
    BY DEF AwaitedOnce, Completed
  <2>1. starts[c] = 1 /\ (i < Len(program) => task[c] \in Settled)
    BY DEF IInv, AwaitedOnce
  <2>2. i \in 1 .. Len(program) /\ program \in Seq(Move)
    BY LenProperties DEF IInv, TypeOK
  <2>3. program[i] \in Move
    BY <2>2, ElementOfSeq
  <2>4. c \in Call
    BY <2>3 DEF Move
  <2>5. QED
    BY <2>1, <2>4
<1>4. cancelled' = cancelled => CallsInv'
  BY <1>1 DEF IInv, CallsInv, InFlight
<1>5. (\A c \in Call : task'[c] \notin InFlight) => CallsInv'
  BY <1>1 DEF IInv, CallsInv, InFlight
<1>6. QED
  BY <1>1, <1>2, <1>3, <1>4, <1>5

\* What is said of the driver looks at nothing else.
LEMMA SameDriver ==
  ASSUME DriverInv, UNCHANGED <<program, marker, past, cancelled, driver, live>>
  PROVE  DriverInv'
BY DEF DriverInv, RaisedInv, OnTrackInv, Left, Reached, After, Makes, NewTasks

\* A call moves on by itself: the gate, its end, or its cancellation.
LEMMA CallMovesInv ==
  ASSUME IInv, NEW c \in Awaitable, Decide(c) \/ Return(c) \/ CancelLands(c)
  PROVE  IInv'
<1>1. PICK to \in {"running"} \cup Settled :
        /\ task' = [task EXCEPT ![c] = to]
        /\ task[c] \notin Settled
        /\ to = "running" => task[c] \in InFlight
  BY DEF Decide, Return, CancelLands, InFlight, Settled
<1>2. UNCHANGED <<program, marker, past, starts, cancelled, driver, live, replays>>
  BY DEF Decide, Return, CancelLands
<1>3. asked' \in SUBSET Gated
  BY DEF Decide, Return, CancelLands, IInv, TypeOK
<1>4. TypeOK'
  BY <1>1, <1>2, <1>3 DEF IInv, TypeOK, InFlight
<1>5. \A d \in Call :
        /\ task'[d] \in InFlight => task[d] \in InFlight
        /\ task[d] \in Settled => task'[d] = task[d]
  BY <1>1 DEF IInv, TypeOK, InFlight, Settled, Awaitable
<1>6. HistoryInv' /\ AwaitedOnce' /\ CallsInv' /\ Left' = Left /\ \A i : Reached(i)' = Reached(i)
  BY <1>2, <1>5, QuietInv
<1>7. DriverInv'
  BY <1>2, <1>6, SameDriver DEF IInv
<1>8. DepartedInv'
  BY <1>2, <1>5 DEF IInv, DepartedInv, InFlight, Call
<1>9. QED
  BY <1>4, <1>6, <1>7, <1>8 DEF IInv

\* The script's own call is torn down, or cancelled when its batch is over: nothing is left
\* in flight.
LEMMA EndCancelledInv ==
  ASSUME IInv, live, driver.run = "on", BatchOver(driver), EndCancelled,
         UNCHANGED <<program, marker, starts, asked, live, replays, past>>
  PROVE  IInv'
<1>1. driver = Left /\ ~cancelled
  BY AtRest
<1>2. cancelled' = TRUE /\ driver' = [driver EXCEPT !.run = "cancelled"]
  BY DEF EndCancelled
<1>3. /\ task' \in [Awaitable -> {"none", "cancelling"} \cup InFlight \cup Settled]
      /\ \A c \in Call : task'[c] \in InFlight => task[c] \in InFlight /\ c \notin driver.running
      /\ \A c \in Call : task[c] \in Settled => task'[c] = task[c]
  BY UnwoundFacts DEF IInv, EndCancelled
<1>4. \A c \in Call : task'[c] \notin InFlight
  <2> SUFFICES ASSUME NEW c \in Call, task'[c] \in InFlight PROVE FALSE
    OBVIOUS
  <2>1. task[c] \in InFlight /\ c \notin driver.running
    BY <1>3
  <2>2. c \in driver.awaiting
    BY <1>1, <2>1 DEF IInv, CallsInv
  <2>3. QED
    BY <2>1, <2>2 DEF BatchOver, InFlight, Settled
<1>5. HistoryInv' /\ AwaitedOnce' /\ CallsInv' /\ Left' = Left /\ \A i : Reached(i)' = Reached(i)
  BY <1>3, <1>4, QuietInv
<1>6. driver' \in DriverType /\ driver'.step = driver.step /\ driver'.run = "cancelled"
  BY <1>2 DEF IInv, TypeOK, DriverType, Runs
<1>7. TypeOK'
  BY <1>2, <1>3, <1>6 DEF IInv, TypeOK
<1>8. DriverInv'
  BY <1>1, <1>2, <1>5, <1>6 DEF IInv, DriverInv, OnTrackInv
<1>9. DepartedInv'
  BY <1>6 DEF DepartedInv
<1>10. QED
  BY <1>5, <1>7, <1>8, <1>9 DEF IInv

\* The script's own call is cancelled while calls it awaits are not over: those are
\* cancelled, and the driver waits on.
LEMMA BatchCancelledInv ==
  ASSUME IInv, task' = Unwound(driver.awaiting),
         UNCHANGED <<program, marker, starts, asked, cancelled, driver, live, replays, past>>
  PROVE  IInv'
<1>1. /\ task' \in [Awaitable -> {"none", "cancelling"} \cup InFlight \cup Settled]
      /\ \A c \in Call : task'[c] \in InFlight => task[c] \in InFlight
      /\ \A c \in Call : task[c] \in Settled => task'[c] = task[c]
  BY UnwoundFacts DEF IInv
<1>2. HistoryInv' /\ AwaitedOnce' /\ CallsInv'
  BY <1>1, QuietInv
<1>3. TypeOK'
  BY <1>1 DEF IInv, TypeOK
<1>4. DriverInv'
  BY SameDriver DEF IInv
<1>5. DepartedInv'
  BY <1>1 DEF IInv, DepartedInv, InFlight, Call
<1>6. QED
  BY <1>2, <1>3, <1>4, <1>5 DEF IInv

LEMMA CancelInv ==
  ASSUME IInv, TearDown \/ Cancel
  PROVE  IInv'
<1>1. CASE TearDown
  BY <1>1, EndCancelledInv DEF TearDown
<1>2. CASE Cancel /\ BatchOver(driver)
  BY <1>2, EndCancelledInv DEF Cancel
<1>3. CASE Cancel /\ ~BatchOver(driver)
  BY <1>3, BatchCancelledInv DEF Cancel
<1>4. QED
  BY <1>1, <1>2, <1>3

\* Replay moves the driver along the history, and nothing else.
LEMMA ReplayInv ==
  ASSUME IInv, Evict \/ ReplayStep \/ ReplayRaises \/ ReplayFails \/ CatchUp
  PROVE  IInv'
<1>1. UNCHANGED <<program, marker, past, starts, asked, cancelled, task>>
  BY DEF Evict, ReplayStep, ReplayRaises, ReplayFails, CatchUp, besidesDriver
<1>2. HistoryInv' /\ AwaitedOnce' /\ CallsInv' /\ Left' = Left /\ \A i : Reached(i)' = Reached(i)
  BY <1>1, QuietInv
<1>3. Len(program) \in Nat /\ Fresh \in DriverType /\ driver \in DriverType
  BY LenProperties, BoundsAssumption DEF IInv, TypeOK, Fresh, DriverType, Runs
<1>4. TypeOK' /\ DriverInv' /\ DepartedInv'
  <2>1. CASE Evict \/ ReplayFails
    <3>1. driver' = Fresh /\ ~live' /\ replays' \in 0 .. MaxReplays
      BY <2>1, BoundsAssumption DEF Evict, ReplayFails, Replaying, besidesDriver, IInv, TypeOK
    <3>2. Reached(0) = Fresh /\ Fresh.step = 0 /\ Fresh.run # "raised"
      BY DEF Reached, Fresh
    <3>3. live' \in BOOLEAN
      BY <3>1, <2>1 DEF Evict, ReplayFails, besidesDriver, IInv, TypeOK
    <3>4. TypeOK'
      BY <1>1, <1>3, <3>1, <3>3 DEF IInv, TypeOK
    <3>5. Reached(driver.step)' = driver' /\ driver'.step \in 0 .. Len(program)
      BY <1>1, <1>3, <3>1, <3>2 DEF Reached
    <3>6. DriverInv'
      BY <1>1, <1>2, <3>1, <3>2, <3>5 DEF IInv, DriverInv, OnTrackInv
    <3>7. QED
      BY <3>1, <3>4, <3>6 DEF DepartedInv
  <2>2. CASE ReplayStep
    <3> DEFINE k == driver.step + 1
    <3>1. ~live /\ ~live' /\ k \in 1 .. Len(program) /\ k - 1 = driver.step /\ driver.run = "on"
      BY <1>3, <2>2 DEF ReplayStep, Replaying, besidesDriver, DriverType
    <3>2. driver = Reached(k - 1)
      BY <3>1 DEF IInv, DriverInv, OnTrackInv
    <3>3. driver' = Reached(k) /\ Reached(k).step = k /\ Reached(k).run # "raised"
      BY <2>2, <3>1, <3>2 DEF ReplayStep, ReplayedStep, IInv, HistoryInv
    <3>4. driver' \in DriverType
      BY <3>1, <3>3, ReachedType DEF IInv
    <3>5. TypeOK'
      BY <1>1, <2>2, <3>4 DEF IInv, TypeOK, ReplayStep, besidesDriver
    <3>6. Reached(driver.step)' = driver' /\ driver'.step \in 0 .. Len(program)
      BY <1>1, <1>3, <3>1, <3>3 DEF Reached
    <3>7. DriverInv'
      BY <1>1, <1>2, <3>1, <3>3, <3>6 DEF IInv, DriverInv, OnTrackInv
    <3>8. QED
      BY <3>1, <3>5, <3>7 DEF DepartedInv
  <2>3. CASE ReplayRaises
    <3> DEFINE k == driver.step + 1
    <3>1. /\ ~live /\ ~live' /\ k \in 1 .. Len(program) /\ k - 1 = driver.step
          /\ driver.run = "on" /\ marker[k] = "none" /\ driver.step < MaxSteps
          /\ driver' = After(driver, program[k], "raised")
      <4>1. /\ ~live /\ ~live' /\ k \in 1 .. Len(program) /\ k - 1 = driver.step
            /\ driver.run = "on" /\ marker[k] = "none"
            /\ driver' = After(driver, program[k], "raised")
        BY <1>3, <2>3 DEF ReplayRaises, Replaying, ReplayedStep, besidesDriver, DriverType
      <4>2. Reached(k).step = k /\ Reached(k) \in DriverType
        BY <1>3, <4>1, ReachedType DEF IInv, HistoryInv
      <4>3. QED
        BY <1>3, <4>1, <4>2, BoundsAssumption DEF DriverType
    <3>2. driver = Reached(k - 1)
      BY <3>1 DEF IInv, DriverInv, OnTrackInv
    <3>3. program[k] \in Move
      BY <3>1, ElementOfSeq DEF IInv, TypeOK
    <3>4. driver' \in DriverType /\ driver'.step = k /\ driver'.run = "raised"
      BY <1>3, <3>1, <3>3, AfterType, AfterFacts
    <3>5. TypeOK'
      BY <1>1, <2>3, <3>4 DEF IInv, TypeOK, ReplayRaises, besidesDriver
    <3>6. RaisedInv'
      <4>1. driver' = After(Reached(driver'.step - 1), program[driver'.step], "raised")
        BY <3>1, <3>2, <3>4
      <4>2. driver' = After(Reached(driver.step - 1)', program'[driver'.step], "raised")
        BY <1>1, <1>2, <4>1
      <4>3. QED
        BY <1>1, <3>1, <3>4, <4>2 DEF RaisedInv, After, Makes, NewTasks
    <3>7. driver'.step \in 0 .. Len(program)
      BY <1>3, <3>1, <3>4
    <3>8. DriverInv'
      BY <1>1, <1>2, <3>4, <3>6, <3>7 DEF IInv, DriverInv
    <3>9. QED
      BY <3>1, <3>5, <3>8 DEF DepartedInv
  <2>4. CASE CatchUp
    <3>1. ~live /\ live' /\ driver.step = Len(program) /\ driver = Left /\ driver.run # "raised"
      BY <2>4 DEF CatchUp, IInv, DriverInv, OnTrackInv, Left
    <3>2. driver' = IF cancelled THEN [driver EXCEPT !.run = "cancelled"] ELSE driver
      BY <2>4 DEF CatchUp
    <3>3. driver' \in DriverType /\ driver'.step = driver.step /\ driver'.run # "raised"
      BY <1>3, <3>1, <3>2 DEF DriverType, Runs
    <3>4. TypeOK'
      BY <1>1, <2>4, <3>3 DEF IInv, TypeOK, CatchUp
    <3>5. Reached(driver.step)' = driver
      BY <1>1, <3>1, <3>3 DEF Left, Reached
    <3>6. DriverInv'
      BY <1>1, <1>2, <1>3, <3>1, <3>2, <3>3, <3>5 DEF IInv, DriverInv, OnTrackInv
    <3>7. QED
      BY <3>3, <3>4, <3>6 DEF DepartedInv
  <2>5. QED
    BY <2>1, <2>2, <2>3, <2>4
<1>5. QED
  BY <1>2, <1>4 DEF IInv

\* A run that departs from its history has no call in flight.
LEMMA DepartInv ==
  ASSUME IInv, Depart
  PROVE  IInv'
<1>1. UNCHANGED <<program, marker, past, starts, cancelled, driver, replays>> /\ driver.run = "raised"
  BY DEF Depart
<1>2. /\ task' \in [Awaitable -> {"none", "cancelling"} \cup InFlight \cup Settled]
      /\ \A c \in Call : task'[c] \notin InFlight
      /\ \A c \in Call : task[c] \in Settled => task'[c] = task[c]
  BY DEF Depart, IInv, TypeOK, InFlight, Settled, Awaitable
<1>3. HistoryInv' /\ AwaitedOnce' /\ CallsInv' /\ Left' = Left /\ \A i : Reached(i)' = Reached(i)
  BY <1>1, <1>2, QuietInv
<1>4. TypeOK'
  BY <1>1, <1>2 DEF Depart, IInv, TypeOK
<1>5. DriverInv'
  BY <1>1, <1>3 DEF IInv, DriverInv, RaisedInv, After, Makes, NewTasks
<1>6. DepartedInv'
  BY <1>2 DEF DepartedInv, InFlight, Call
<1>7. QED
  BY <1>3, <1>4, <1>5, <1>6 DEF IInv

\* Every step keeps the invariant.
LEMMA NextInv == IInv /\ [Next]_vars => IInv'
<1> SUFFICES ASSUME IInv, [Next]_vars PROVE IInv'
  OBVIOUS
<1>1. ASSUME NEW move \in Move, Stop(move) PROVE IInv'
  BY <1>1, StopInv
<1>2. ASSUME NEW move \in Move, Finish(move) PROVE IInv'
  BY <1>2, EndStepInv DEF Finish, Stepping
<1>3. ASSUME NEW move \in Move, NEW abort \in Aborts, StepAborts(move, abort) PROVE IInv'
  BY <1>3, EndStepInv DEF StepAborts, Stepping, Marked, Aborts
<1>4. ASSUME NEW c \in Awaitable, Decide(c) \/ Return(c) \/ CancelLands(c) PROVE IInv'
  BY <1>4, CallMovesInv
<1>5. CASE TearDown \/ Cancel
  BY <1>5, CancelInv
<1>6. CASE Evict \/ ReplayStep \/ ReplayRaises \/ ReplayFails \/ CatchUp
  BY <1>6, ReplayInv
<1>9. CASE Depart
  BY <1>9, DepartInv
<1>7. CASE UNCHANGED vars
  <2>1. HistoryInv' /\ AwaitedOnce' /\ CallsInv' /\ Left' = Left /\ \A i : Reached(i)' = Reached(i)
    BY <1>7, QuietInv DEF vars
  <2>2. TypeOK'
    BY <1>7 DEF vars, IInv, TypeOK
  <2>3. DriverInv'
    BY <1>7, SameDriver DEF vars, IInv
  <2>4. DepartedInv'
    BY <1>7 DEF vars, IInv, DepartedInv, InFlight, Call
  <2>5. QED
    BY <2>1, <2>2, <2>3, <2>4 DEF IInv
<1>8. QED
  BY <1>1, <1>2, <1>3, <1>4, <1>5, <1>6, <1>7, <1>9 DEF Next

\* The inductive invariant holds in every reachable state.
THEOREM CodeModeInvariant == Spec => []IInv
<1>1. QED
  BY InitInv, NextInv, PTL DEF Spec

\* The variables keep their types, so a call is started once at most.
THEOREM TypeCorrect == Spec => []TypeOK
<1>1. IInv => TypeOK
  BY DEF IInv
<1>2. QED
  BY <1>1, CodeModeInvariant, PTL

\* What a script awaits ran once, and the script goes on only when all of it has come
\* back (run_script's gather), for every script.
THEOREM AwaitedTheorem == Spec => []AwaitedOnce
<1>1. IInv => AwaitedOnce
  BY DEF IInv
<1>2. QED
  BY <1>1, CodeModeInvariant, PTL

\* A script that is over has no call in flight, however it ended (the finally clause).
THEOREM UnwindTheorem == Spec => []NothingRunsOn
<1>1. IInv => NothingRunsOn
  <2> SUFFICES ASSUME IInv, driver.run # "on", live, NEW c \in Call, task[c] \in InFlight
               PROVE  FALSE
    BY DEF NothingRunsOn
  <2>1. Left.run = "on" /\ ~cancelled
    BY DEF IInv, CallsInv
  <2>2. CASE driver.run # "raised"
    BY <2>1, <2>2 DEF IInv, DriverInv, OnTrackInv, Left
  <2>3. CASE driver.run = "raised"
    BY <2>3 DEF IInv, DepartedInv
  <2>4. QED
    BY <2>2, <2>3
<1>2. QED
  BY <1>1, CodeModeInvariant, PTL

\* A replay reaches, step by step, what the original run reached (_step, the markers); if
\* the sandbox crashes on a step that did not on its original run, it stands where the
\* history was before that step.
THEOREM ReplayTheorem == Spec => []ReplayAgrees
<1>1. IInv => ReplayAgrees
  <2> SUFFICES ASSUME IInv PROVE ReplayAgrees
    OBVIOUS
  <2>1. CASE driver.run = "raised"
    <3>1. driver.step \in 1 .. Len(program) /\ Len(program) \in Nat
      BY <2>1, LenProperties DEF IInv, TypeOK, DriverInv, RaisedInv
    <3>2. driver.step \in 0 .. Len(program) /\ driver.step > 0
      BY <3>1
    <3>3. QED
      BY <2>1, <3>2 DEF IInv, DriverInv, RaisedInv, ReplayAgrees, Completed
  <2>2. CASE driver.run # "raised"
    <3>1. driver.step \in 0 .. Len(program) /\ Reached(driver.step) \in DriverType
      BY ReachedType DEF IInv, DriverInv
    <3>2. driver.run # "cancelled" => driver = Reached(driver.step)
      BY <2>2, <3>1 DEF IInv, DriverInv, OnTrackInv, DriverType
    <3>3. QED
      BY <2>2, <3>1, <3>2 DEF IInv, DriverInv, OnTrackInv, ReplayAgrees
  <2>3. QED
    BY <2>1, <2>2
<1>2. QED
  BY <1>1, CodeModeInvariant, PTL
=============================================================================
