------------------------------ MODULE CodeMode ------------------------------
(***************************************************************************)
(* One Code Mode script: the stepper that runs the script in the sandbox   *)
(* from one awaited batch of host calls to the next, the driver that       *)
(* starts every call as a task of its own and resumes the script with the  *)
(* outcomes, the limit on a step and the marker that records that a step   *)
(* hit it, and the replay that rebuilds all this on another worker, where  *)
(* a step may overrun or crash that did neither on its original run.       *)
(* The script is any program: what each of its steps does is chosen when   *)
(* the step first runs, and is the same whenever the step is run again.    *)
(***************************************************************************)
EXTENDS Integers, Sequences

CONSTANTS
  MaxCalls,   \* bound: host calls of a script, numbered as it makes them
  MaxSteps,   \* bound: steps of a script
  MaxReplays, \* bound: times the worker is lost
  Gated       \* the calls whose tools wait for an approval

ASSUME BoundsAssumption ==
  /\ MaxCalls \in Nat /\ MaxSteps \in Nat /\ MaxReplays \in Nat
  /\ Gated \subseteq 1 .. MaxCalls

VARIABLES
  \* in the workflow's history
  program,    \* what each step does when it runs to its end
  marker,     \* the patch markers: how a step was aborted on its original run
  task,       \* each host call
  starts,     \* times a call was started on the original run
  asked,      \* calls with an approval request that is still pending
  cancelled,  \* the script's own tool call was cancelled
  \* in the worker's memory
  driver,     \* run_script and its ScriptRun
  live,       \* FALSE while the history is replayed
  replays,
  \* the driver after each step, as the original run left it
  past

vars == <<program, marker, task, starts, asked, cancelled, driver, live, replays, past>>

Call == 1 .. MaxCalls
FileOp == 0  \* a file operation: awaited at once, by itself, and never started before
Awaitable == Call \cup {FileOp}
Settled == {"done", "failed", "torn", "cancelled"}
InFlight == {"gate", "running"}
Aborts == {"timed-out", "crashed"}

\* made: how many calls the script has made; calls: those the stepper has not seen
\* awaited; running: the driver's tasks; run: "on", or how run_script ended, which is
\* "raised" when a step that had run to its end crashed on replay.
Fresh == [step |-> 0, made |-> 0, calls |-> {}, running |-> {}, awaiting |-> {}, run |-> "on"]

Init ==
  /\ program = <<>> /\ marker = <<>> /\ past = <<>>
  /\ task = [c \in Awaitable |-> "none"]
  /\ starts = [c \in Call |-> 0]
  /\ asked = {}
  /\ cancelled = FALSE
  /\ driver = Fresh /\ live = TRUE /\ replays = 0

----------------------------------------------------------------------------
(* The script and the stepper *)

\* A move of the script: the number of the last call it has made when it stops, and
\* what it then awaits; a script that awaits nothing is finished.
Move == [upto : 0 .. MaxCalls, awaits : {{FileOp}} \cup SUBSET Call]
Makes(d, move) == d.made + 1 .. move.upto
\* Only calls made and not yet resolved can be pending.
Possible(d, move) ==
  /\ d.made <= move.upto
  /\ move.awaits \subseteq d.calls \cup Makes(d, move) \cup {FileOp}

\* The calls the driver starts when the script stops: those it made and does not await,
\* and those it awaits that are not running yet.
NewTasks(d, move) ==
  (Makes(d, move) \ move.awaits) \cup ((move.awaits \ {FileOp}) \ d.running)

\* The driver after a step, aborted or not.  The awaited calls leave the stepper's
\* record and the driver's table; a step that ends the script hands no call over.
After(d, move, abort) ==
  IF abort # "none" THEN [d EXCEPT !.step = @ + 1, !.awaiting = {}, !.run = abort]
  ELSE IF move.awaits = {} THEN [d EXCEPT !.step = @ + 1, !.awaiting = {}, !.run = "finished"]
  ELSE [d EXCEPT !.step = @ + 1,
                 !.made = move.upto,
                 !.calls = (@ \cup Makes(d, move)) \ move.awaits,
                 !.running = (@ \cup NewTasks(d, move)) \ move.awaits,
                 !.awaiting = move.awaits]

----------------------------------------------------------------------------
(* The driver on its original run *)

\* Mutant: a call that fails ends the batch.
BatchOverEarly(d) ==
  \/ \A c \in d.awaiting : task[c] \in Settled
  \/ \E c \in d.awaiting : task[c] = "failed"
\* gather(return_exceptions=True): the batch is over when every call of it is.
BatchOver(d) == \A c \in d.awaiting : task[c] \in Settled
Torn == \E c \in driver.awaiting : task[c] \in {"torn", "cancelled"}

\* Mutant: the calls nobody awaited run on.
UnwoundLeaving(tasks) == task
\* The finally clause: the calls still running are cancelled.
Unwound(tasks) ==
  [c \in Awaitable |-> IF c \in tasks /\ task[c] \in InFlight THEN "cancelling" ELSE task[c]]
\* The calls started go to their approval gates, or run.
Started(calls) ==
  [c \in Awaitable |->
     IF c \in calls THEN IF c \in Gated THEN "gate" ELSE "running" ELSE task[c]]

CanStep ==
  /\ live /\ driver.run = "on" /\ driver.step < MaxSteps
  /\ BatchOver(driver) /\ ~Torn

\* The script stops at calls it awaits, or at a file operation.
Stop(move) ==
  LET new == NewTasks(driver, move) IN
  /\ CanStep /\ driver.step < MaxSteps - 1
  /\ Possible(driver, move) /\ move.awaits # {}
  /\ program' = Append(program, move) /\ marker' = Append(marker, "none")
  /\ driver' = After(driver, move, "none") /\ past' = Append(past, driver')
  /\ task' = Started(new \cup (move.awaits \cap {FileOp}))
  /\ starts' = [c \in Call |-> IF c \in new THEN starts[c] + 1 ELSE starts[c]]
  /\ asked' = asked \cup (new \cap Gated)
  /\ UNCHANGED <<cancelled, live, replays>>

\* The script is finished, with a result or an error of its own.
Finish(move) ==
  /\ CanStep
  /\ Possible(driver, move) /\ move.awaits = {}
  /\ program' = Append(program, move) /\ marker' = Append(marker, "none")
  /\ driver' = After(driver, move, "none") /\ past' = Append(past, driver')
  /\ task' = Unwound(driver.running)
  /\ UNCHANGED <<starts, asked, cancelled, live, replays>>

\* The patch marker of an aborted step.
Marked(abort) == abort

\* A step is stopped by its limit, or its worker crashes: the script ends with an error,
\* and what the step would have done is never seen.
StepAborts(move, abort) ==
  /\ CanStep
  /\ Possible(driver, move)
  /\ program' = Append(program, move) /\ marker' = Append(marker, Marked(abort))
  /\ driver' = After(driver, move, abort) /\ past' = Append(past, driver')
  /\ task' = Unwound(driver.running)
  /\ UNCHANGED <<starts, asked, cancelled, live, replays>>

\* run_script is left by a cancellation; the finally clause cancels the other calls.
EndCancelled ==
  /\ driver' = [driver EXCEPT !.run = "cancelled"]
  /\ cancelled' = TRUE
  /\ task' = Unwound(driver.running)

\* _script_outcome: the cancellation of an awaited call is the workflow's, and goes up.
TearDown ==
  /\ live /\ driver.run = "on" /\ BatchOver(driver) /\ Torn
  /\ EndCancelled
  /\ UNCHANGED <<program, marker, starts, asked, live, replays, past>>

\* The tool call the script runs in is cancelled while it waits.  gather cancels the
\* awaited calls and waits for them; when it is over already, the wait for it ends.
Cancel ==
  /\ live /\ driver.run = "on" /\ driver.awaiting # {}
  /\ \/ BatchOver(driver) /\ EndCancelled
     \/ /\ ~BatchOver(driver)
        /\ task' = Unwound(driver.awaiting)
        /\ UNCHANGED <<driver, cancelled>>
  /\ UNCHANGED <<program, marker, starts, asked, live, replays, past>>

----------------------------------------------------------------------------
(* The calls, each a tool call of the agent *)

\* The gate of a tool call: approved, or refused.
Decide(c) ==
  /\ live /\ task[c] = "gate"
  /\ \E outcome \in {"running", "failed"} : task' = [task EXCEPT ![c] = outcome]
  /\ asked' = asked \ {c}
  /\ UNCHANGED <<program, marker, starts, cancelled, driver, live, replays, past>>

Return(c) ==
  /\ task[c] = "running"
  /\ \E outcome \in {"done", "failed", "torn"} : task' = [task EXCEPT ![c] = outcome]
  /\ UNCHANGED <<program, marker, starts, asked, cancelled, driver, live, replays, past>>

CancelLands(c) ==
  /\ live /\ task[c] = "cancelling"
  /\ task' = [task EXCEPT ![c] = "cancelled"]
  /\ UNCHANGED <<program, marker, starts, asked, cancelled, driver, live, replays, past>>

----------------------------------------------------------------------------
(* Replay *)

\* The worker loses the workflow, whose next task replays its history.  (A run that has
\* departed from its history is not followed further.)
Evict ==
  /\ live /\ replays < MaxReplays /\ driver.run # "raised"
  /\ live' = FALSE /\ replays' = replays + 1
  /\ driver' = Fresh
  /\ UNCHANGED <<program, marker, task, starts, asked, cancelled, past>>

Replaying == ~live /\ driver.run = "on" /\ driver.step < Len(program)
ReplayedStep == driver.step + 1
besidesDriver == <<program, marker, task, starts, asked, cancelled, live, replays, past>>

\* Mutant: the outcome of a step that is cut short on replay is returned.
ReplayStepCut ==
  /\ Replaying
  /\ \E abort \in IF marker[ReplayedStep] = "none" THEN Aborts \cup {"none"}
                   ELSE {marker[ReplayedStep]} :
       driver' = After(driver, program[ReplayedStep], abort)
  /\ UNCHANGED besidesDriver
\* _step: a marked step is not run again; another one does what it did.
ReplayStep ==
  /\ Replaying
  /\ driver' = After(driver, program[ReplayedStep], marker[ReplayedStep])
  /\ UNCHANGED besidesDriver

\* The sandbox crashes on a step that had run to its end: _step raises, run_script ends,
\* and so does the tool call it runs in, with an error its history does not have.
ReplayRaises ==
  /\ Replaying /\ marker[ReplayedStep] = "none"
  /\ driver' = After(driver, program[ReplayedStep], "raised")
  /\ UNCHANGED besidesDriver

\* Temporal fails the workflow task, and the next one starts over: a step overruns, which
\* the deadlock detector sees before the backstop does, or what the agent does after a step
\* that raised are not the commands in the history.
ReplayFails ==
  /\ \/ Replaying /\ marker[ReplayedStep] = "none"
     \/ ~live /\ driver.run = "raised"
  /\ driver' = Fresh
  /\ UNCHANGED besidesDriver

\* Or they are, as when the step was the script's last, or the calls behind it left no
\* command (they wait at their gates, or their tools run inline).  The agent takes the error
\* for the outcome of its tool call.  The finally clause has cancelled the calls that were
\* running; those the history has the script make from this step on are not made.
Depart ==
  /\ ~live /\ driver.run = "raised"
  /\ live' = TRUE
  /\ task' = [c \in Awaitable |->
                IF task[c] \in InFlight
                THEN IF c \in driver.running THEN "cancelling" ELSE "none"
                ELSE task[c]]
  /\ asked' = {c \in asked : c <= driver.made}
  /\ UNCHANGED <<program, marker, starts, cancelled, driver, replays, past>>

\* The replay has reached the end of the history.
CatchUp ==
  /\ ~live /\ driver.run # "raised" /\ driver.step = Len(program)
  /\ live' = TRUE
  /\ driver' = IF cancelled THEN [driver EXCEPT !.run = "cancelled"] ELSE driver
  /\ UNCHANGED <<program, marker, task, starts, asked, cancelled, replays, past>>

Next ==
  \/ \E move \in Move :
       Stop(move) \/ Finish(move) \/ \E abort \in Aborts : StepAborts(move, abort)
  \/ TearDown \/ Cancel
  \/ \E c \in Awaitable : Decide(c) \/ Return(c) \/ CancelLands(c)
  \/ Evict \/ ReplayStep \/ ReplayRaises \/ ReplayFails \/ Depart \/ CatchUp

Spec == Init /\ [][Next]_vars

----------------------------------------------------------------------------
(* Properties *)

Runs == {"on", "finished", "cancelled", "raised"} \cup Aborts

\* The variables keep their types.
DriverType ==
  [step : 0 .. MaxSteps, made : 0 .. MaxCalls, calls : SUBSET Call, running : SUBSET Call,
   awaiting : SUBSET Awaitable, run : Runs]
TypeOK ==
  /\ program \in Seq(Move) /\ marker \in Seq({"none"} \cup Aborts) /\ past \in Seq(DriverType)
  /\ Len(marker) = Len(program) /\ Len(past) = Len(program)
  /\ task \in [Awaitable -> {"none", "cancelling"} \cup InFlight \cup Settled]
  /\ starts \in [Call -> 0 .. 1]
  /\ asked \in SUBSET Gated
  /\ cancelled \in BOOLEAN /\ live \in BOOLEAN /\ replays \in 0 .. MaxReplays
  /\ driver \in DriverType

\* What the script awaits was started once, whatever step made the call, and the script
\* goes on only when all of it has come back: a call that fails cuts no batch short.
Completed(i) == marker[i] = "none"
AwaitedOnce ==
  \A i \in DOMAIN program : Completed(i) =>
    \A c \in program[i].awaits \ {FileOp} :
      /\ starts[c] = 1
      /\ i < Len(program) => task[c] \in Settled

\* "Calls still running when the script ends, made but never awaited, are cancelled":
\* nothing the script started is left running when it is over, however it ended.
NothingRunsOn ==
  driver.run # "on" /\ live => \A c \in Call : task[c] \notin InFlight

\* The driver after n steps of the history.
Reached(n) == IF n = 0 THEN Fresh ELSE past[n]

\* "Whether that happens depends on the machine, so it must not be decided again on
\* replay": a replay reaches, step by step, what the original run reached, on any worker.
\* Where the sandbox crashed on a step, which is then one that was not aborted, it stands
\* where the history was before that step, so that it cancels what was running then.
ReplayAgrees ==
  /\ driver.step \in 0 .. Len(program)
  /\ IF driver.run = "raised"
     THEN /\ driver.step > 0 /\ Completed(driver.step)
          /\ driver = After(Reached(driver.step - 1), program[driver.step], "raised")
     ELSE /\ driver.run # "cancelled" => driver = Reached(driver.step)
          /\ live => driver.step = Len(program)

\* "The step completed on its original run, so this outcome cannot be returned.  Fail the
\* workflow task and let Temporal retry it": a script goes on from, or ended with, the
\* outcome its history has.
OutcomeIsKept ==
  live => driver = [Reached(Len(program)) EXCEPT !.run = IF cancelled THEN "cancelled" ELSE @]

\* A pending approval request belongs to a call that waits for it.
RequestsAreWaitedFor == \A c \in asked : task[c] \in {"gate", "cancelling"}

\* "Every call appears in `started` or `awaiting` of the step it was made in": every call
\* of a step that ran to its end has been started.
EveryCallIsStarted ==
  \A i \in DOMAIN program : Completed(i) => \A c \in 1 .. program[i].upto : starts[c] = 1
=============================================================================
