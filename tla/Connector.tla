----------------------------- MODULE Connector -----------------------------
(***************************************************************************)
(* The UI connector (nexus/ui_connector): a router workflow sends one      *)
(* request to an agent, polls the events of its session, and has each      *)
(* batch delivered to a chat platform, where the timeline shows it as      *)
(* messages: streamed ones while that works, posted ones otherwise.        *)
(*                                                                         *)
(* A piece of text is the position of its event in the agent's log and is  *)
(* of size 1; a card is a tool call or a block of thoughts.  The platform  *)
(* is the thread it shows.  A call of it may fail, and did nothing then;   *)
(* a delivery may fail, and what the platform has already shown stays.     *)
(***************************************************************************)
EXTENDS Integers, FiniteSets, SequencesExt

CONSTANTS
  Tool,        \* tool calls
  Logs,        \* what the agent may publish from the accepted offset on
  Openings,    \* what the start of the request may answer with
  None,        \* no tool
  Streaming, Split, \* Config: Streaming, SplitText # nil
  MaxChars, MaxOverflow, MaxCards, \* Config: Limits
  MaxFaults    \* bound on the kinds of calls that fail

ASSUME LimitAssumption == {MaxChars, MaxOverflow, MaxCards, MaxFaults} \subseteq Nat
ASSUME ConfigAssumption == {Streaming, Split} \subseteq BOOLEAN /\ None \notin Tool
ASSUME ToolAssumption == Tool \cap Nat = {}

\* What turnEventToEvent makes of the agent's events, and of which message they are.  An
\* event at position 0 is of the connector itself.
Kind == {"started", "text", "thought", "cite", "running", "ended", "ask", "approved", "denied",
         "output", "failed", "note", "foreign", "silent"}
Event == [kind : Kind, tool : Tool \cup {None}, at : Nat]
ASSUME LogAssumption ==
  /\ \A l \in Logs : \A i \in 1..Len(l) : l[i] \in Event /\ l[i].at = i
  /\ \A o \in Openings : o.events \in Seq(Event) /\ o.handle \in BOOLEAN

\* A chunk, a prompt or a notice; id is the card's, at the position of the event.
Item == [kind : {"text", "cite", "card", "prompt", "notice"}, id : Tool \cup Nat, at : Nat, done : BOOLEAN]

\* A message of the platform.  cites are the citations its end was given.
Entry == [streamed : BOOLEAN, open : BOOLEAN, items : Seq(Item), cites : SUBSET Nat]

\* The calls of the platform that a sink makes
Call == {"Open", "Append", "Finish", "Post", "Status"}

Status == [clear : BOOLEAN, running : SUBSET Tool]
Clear == [clear |-> TRUE, running |-> {}]

\* timeline.State with its Segment, and the platform
Timeline ==
  [tail       : Seq(Nat),    \* TextTail
   rest       : Seq(Nat),    \* value: the text that is being placed
   final      : BOOLEAN,
   chunks     : Seq(Item),   \* Segment.Chunks
   pending    : Seq(Item),   \* Segment.Pending
   delivered  : Nat,         \* Segment.Delivered, as a length of chunks
   stream     : Nat,         \* Segment.Stream, as a place in the thread; 0 is none
   thought    : Nat,         \* Thought: the id of the open block, or 0
   thoughtSeq : Nat,
   prompts    : SUBSET Tool,
   running    : SUBSET Tool,
   sawText    : BOOLEAN,
   active     : BOOLEAN,
   lastStatus : Status,
   noStream   : BOOLEAN,
   thread     : Seq(Entry),
   status     : Status]      \* the platform's status line

VARIABLES
  log,     \* what the agent publishes; a poll returns what it has by then
  pc,      \* where Run is: start, poll, deliver, done
  handle,  \* a turn was started and is polled
  cursor,
  ending,  \* the delivery under way is that of Done
  last,    \* the poll said Done
  batch,   \* events of this delivery not yet taken
  work,    \* the timeline during a delivery
  saved,   \* state: of the last delivery that succeeded, without the platform
  said,    \* history: what was taken, in order: texts, prompts, notices
  cards,   \* history: cards taken, with their last state
  failed   \* the kinds of calls that have failed so far

vars == <<log, pc, handle, cursor, ending, last, batch, work, saved, said, cards, failed>>

Blank ==
  [tail |-> <<>>, rest |-> <<>>, final |-> FALSE, chunks |-> <<>>, pending |-> <<>>, delivered |-> 0,
   stream |-> 0, thought |-> 0, thoughtSeq |-> 0, prompts |-> {}, running |-> {}, sawText |-> FALSE,
   active |-> FALSE, lastStatus |-> Clear, noStream |-> FALSE, thread |-> <<>>, status |-> Clear]

Memo(t) == [t EXCEPT !.thread = <<>>, !.status = Clear]

TypeOK ==
  /\ log \in Seq(Event)
  /\ pc \in {"start", "poll", "deliver", "done"}
  /\ handle \in BOOLEAN /\ ending \in BOOLEAN /\ last \in BOOLEAN
  /\ cursor \in 0..Len(log)
  /\ batch \in Seq(Event)
  /\ work \in Timeline /\ saved \in Timeline
  /\ work.stream \in 0..Len(work.thread) /\ work.delivered \in 0..Len(work.chunks)
  /\ said \in Seq(Nat) /\ cards \in SUBSET ((Tool \cup Nat) \X BOOLEAN)
  /\ failed \subseteq Call \cup {"Deliver", "Poll"}

Init ==
  /\ log \in Logs
  /\ pc = "start" /\ handle = FALSE /\ cursor = 0 /\ ending = FALSE /\ last = FALSE
  /\ batch = <<>> /\ work = Blank /\ saved = Blank
  /\ said = <<>> /\ cards = {}
  /\ failed = {}

-----------------------------------------------------------------------------
(* The timeline.  F is the set of platform calls that fail in the step.     *)

Text(n) == [kind |-> "text", id |-> 0, at |-> n, done |-> FALSE]
Card(id, done) == [kind |-> "card", id |-> id, at |-> 0, done |-> done]

TextOf(items) == SelectSeq(items, LAMBDA c : c.kind = "text")
CardIds(items) == {c.id : c \in {x \in ToSet(items) : x.kind = "card"}}

\* Segment.OpenTools: the latest chunk of each running tool of the message
OpenTools(items) ==
  LET Latest(i) == \A j \in (i + 1)..Len(items) : items[j].kind = "card" => items[j].id # items[i].id
      open == {i \in DOMAIN items :
                 items[i].kind = "card" /\ items[i].id \in Tool /\ ~items[i].done /\ Latest(i)}
  IN [k \in 1..Cardinality(open) |->
        items[CHOOSE i \in open : Cardinality({j \in open : j <= i}) = k]]

\* Chars + CardChars
Size(t) == Len(TextOf(t.chunks)) + Cardinality(CardIds(t.chunks))

Record(t, c) == [t EXCEPT !.chunks = Append(@, c)]

Emit(t, c) ==
  IF ~Streaming \/ t.noStream THEN Record(t, c) ELSE [Record(t, c) EXCEPT !.pending = Append(@, c)]
EmitAll(t, items) == FoldLeft(Emit, t, items)
EmitText(t, texts) == EmitAll(t, [i \in DOMAIN texts |-> Text(texts[i])])

CloseThought(t) ==
  IF t.thought = 0 THEN t ELSE Emit([t EXCEPT !.thought = 0], Card(t.thought, TRUE))

CitesOf(items) == {c.at : c \in {x \in ToSet(items) : x.kind = "cite"}}

Show(t, entry) == [t EXCEPT !.thread = Append(@, entry)]

\* Finish for a streamed message, Post for one that never opened
CloseSegment(t, F) ==
  LET fresh == [t EXCEPT !.chunks = <<>>, !.pending = <<>>, !.delivered = 0, !.stream = 0]
  IN IF t.stream # 0
     THEN IF "Finish" \in F THEN fresh
          ELSE [fresh EXCEPT !.thread[t.stream].open = FALSE, !.thread[t.stream].cites = CitesOf(t.chunks)]
     ELSE IF t.chunks # <<>> /\ "Post" \notin F
          THEN Show(fresh, [streamed |-> FALSE, open |-> FALSE, items |-> t.chunks, cites |-> CitesOf(t.chunks)])
          ELSE fresh

\* Open with the chunks pending, or post from now on
OpenStream(t, F) ==
  IF "Open" \in F THEN [t EXCEPT !.noStream = TRUE, !.pending = <<>>]
  ELSE [Show(t, [streamed |-> TRUE, open |-> TRUE, items |-> t.pending, cites |-> {}])
          EXCEPT !.stream = Len(t.thread) + 1, !.delivered = Len(t.chunks), !.pending = <<>>]

\* resendAfterFailure
Resend(t) ==
  LET mentioned == CardIds(t.pending)
      running == SelectSeq(OpenTools(t.chunks), LAMBDA c : c.id \notin mentioned)
      unsent == SelectSeq(t.pending, LAMBDA c : ~(c.kind = "card" /\ t.thought # 0 /\ c.id = t.thought))
  IN running \o unsent \o IF t.thought # 0 THEN <<Card(t.thought, FALSE)>> ELSE <<>>

\* Mutant: what an append did not send is sent again only if the next stream opens
FlushUnlessOpenFails(t, F) ==
  IF t.pending = <<>> \/ t.noStream THEN t
  ELSE IF t.stream = 0 THEN OpenStream(t, F)
  ELSE IF "Append" \notin F
       THEN [t EXCEPT !.thread[t.stream].items = @ \o t.pending, !.pending = <<>>, !.delivered = Len(t.chunks)]
  ELSE LET kept == CloseSegment([t EXCEPT !.chunks = SubSeq(@, 1, t.delivered)], F)
       IN OpenStream(IF "Open" \in F THEN kept ELSE EmitAll(kept, Resend(t)), F)
\* flush
Flush(t, F) ==
  IF t.pending = <<>> \/ t.noStream THEN t
  ELSE IF t.stream = 0 THEN OpenStream(t, F)
  ELSE IF "Append" \notin F
       THEN [t EXCEPT !.thread[t.stream].items = @ \o t.pending, !.pending = <<>>, !.delivered = Len(t.chunks)]
  ELSE LET kept == [t EXCEPT !.chunks = SubSeq(@, 1, t.delivered)]
       IN OpenStream(EmitAll(CloseSegment(kept, F), Resend(t)), F)

FinishSegment(t, F) == CloseSegment(Flush(t, F), F)

\* setStatus: what is unchanged is not sent
SetStatus(t, s, F) ==
  IF ~t.active \/ s = t.lastStatus THEN t
  ELSE [t EXCEPT !.lastStatus = s, !.status = IF "Status" \in F THEN @ ELSE s]

UpdateStatus(t, F) ==
  SetStatus(t, IF t.prompts # {} THEN Clear ELSE [clear |-> FALSE, running |-> t.running], F)

\* maybeRotate, of a message that is old or not
MaybeRotate(t, old, F) ==
  LET forced == old \/ Cardinality(CardIds(t.chunks)) >= MaxCards
      large == /\ Size(t) >= MaxChars
               /\ ~Split \/ TextOf(t.chunks) = <<>> \/ Size(t) >= MaxChars + MaxOverflow
  IN IF t.stream = 0 \/ OpenTools(t.chunks) # <<>> \/ t.thought # 0 \/ ~(forced \/ large)
     THEN t ELSE FinishSegment(t, F)

\* A message of its own, behind the current one
Single(kind, n) ==
  [streamed |-> FALSE, open |-> FALSE, cites |-> {},
   items |-> <<[kind |-> kind, id |-> 0, at |-> n, done |-> TRUE]>>]
Standalone(t, kind, n, F) ==
  LET closed == FinishSegment(CloseThought(t), F)
  IN IF "Post" \in F THEN closed ELSE Show(closed, Single(kind, n))

ApprovalRequested(t, e, F) ==
  LET closed == SetStatus(FinishSegment(CloseThought(t), F), Clear, F)
  IN IF "Post" \in F THEN closed
     ELSE [Show(closed, Single("prompt", e.at)) EXCEPT !.prompts = @ \cup {e.tool}]

\* Only the approval of a prompt that this run posted makes its call a running one.
ApprovalResolved(t, e) ==
  [t EXCEPT !.prompts = @ \ {e.tool},
            !.running = IF e.tool \in t.prompts /\ e.kind = "approved" THEN @ \cup {e.tool} ELSE @]

Thought(t) ==
  IF t.thought # 0 THEN Emit(t, Card(t.thought, FALSE))
  ELSE Emit([t EXCEPT !.thoughtSeq = @ + 1, !.thought = t.thoughtSeq + 1], Card(t.thoughtSeq + 1, FALSE))

ToolCard(t, e) ==
  LET card == Card(e.tool, e.kind = "ended")
      running == IF card.done THEN t.running \ {e.tool} ELSE t.running \cup {e.tool}
  IN Emit([CloseThought(t) EXCEPT !.running = running], card)

\* event() for what is not text, once no text is held
Shown(t, e, F) ==
  CASE e.kind = "started" -> [t EXCEPT !.active = TRUE]
    [] e.kind = "thought" -> Thought(t)
    [] e.kind = "cite" -> Record(t, [kind |-> "cite", id |-> 0, at |-> e.at, done |-> FALSE])
    [] e.kind \in {"running", "ended"} -> ToolCard(t, e)
    [] e.kind = "ask" -> ApprovalRequested(t, e, F)
    [] e.kind \in {"approved", "denied"} -> ApprovalResolved(t, e)
    [] e.kind \in {"note", "failed"} -> Standalone(t, "notice", e.at, F)
    [] OTHER -> t

-----------------------------------------------------------------------------
(* One delivery: Apply, or End. *)

\* A kind of call may fail more than once, and two of them in one step.
Faulty(F) ==
  /\ Cardinality(failed \cup F) <= MaxFaults
  /\ failed' = failed \cup F
MayFail == {F \in SUBSET Call : Cardinality(failed \cup F) <= MaxFaults}

runVars == <<log, handle, cursor, ending, last, saved>>

Delivering == pc = "deliver" /\ work.rest = <<>>

\* The reply, or the return value of a handler that has sent no text
IsText(e) == e.kind = "text" \/ (e.kind = "output" /\ ~work.sawText)

\* Before what is not a chunk of text, the text held is placed.
PlaceTail ==
  /\ Delivering /\ work.tail # <<>>
  /\ IF batch = <<>> THEN ending ELSE Head(batch).kind # "text"
  /\ work' = [work EXCEPT !.rest = work.tail, !.tail = <<>>, !.final = TRUE]
  /\ UNCHANGED <<runVars, pc, batch, said, cards, failed>>

TakeText ==
  /\ Delivering /\ batch # <<>>
  /\ LET e == Head(batch) IN
       /\ IsText(e) /\ (e.kind = "output" => work.tail = <<>>)
       /\ work' = [CloseThought(work) EXCEPT !.sawText = TRUE, !.rest = Append(work.tail, e.at),
                                             !.tail = <<>>, !.final = FALSE]
       /\ said' = Append(said, e.at)
       /\ cards' = IF work.thought = 0 THEN cards
                   ELSE (cards \ {<<work.thought, FALSE>>}) \cup {<<work.thought, TRUE>>}
  /\ batch' = Tail(batch)
  /\ UNCHANGED <<runVars, pc, failed>>

\* The cards of the timeline after t, given those before
CardsAfter(t, e) ==
  LET of(id, done) == ((cards \ {<<id, FALSE>>, <<id, TRUE>>}) \cup {<<id, done>>})
      closed == IF work.thought # 0 /\ t.thought = 0
                THEN (cards \ {<<work.thought, FALSE>>}) \cup {<<work.thought, TRUE>>} ELSE cards
  IN IF e.kind = "thought" THEN of(t.thought, FALSE)
     ELSE IF e.kind \in {"running", "ended"}
          THEN {c \in closed : c[1] # e.tool} \cup {<<e.tool, e.kind = "ended">>}
     ELSE closed

TakeOther(F) ==
  /\ Delivering /\ work.tail = <<>> /\ batch # <<>>
  /\ LET e == Head(batch) IN
       /\ ~IsText(e)
       \* a call that fails is one that was made
       /\ work' = Shown(work, e, F)
       /\ \A c \in F : work' # Shown(work, e, F \ {c})
       /\ said' = IF e.kind \in {"ask", "note", "failed"} THEN Append(said, e.at) ELSE said
       /\ cards' = CardsAfter(work', e)
  /\ Faulty(F)
  /\ batch' = Tail(batch)
  /\ UNCHANGED <<runVars, pc>>

\* SplitText of the message's text and the rest, of which the first minimum are shown: at
\* a boundary behind target, or anywhere once maximum is reached; an incomplete end may
\* be held back.
Plans(minimum, len, target, maximum) ==
  LET at == (IF minimum > 1 THEN minimum ELSE 1)..(IF len < maximum THEN len ELSE maximum)
      Plan(op, S) == {[op |-> op, index |-> i] : i \in S}
  IN IF minimum >= maximum THEN Plan("break", {minimum})
     ELSE IF len >= maximum THEN Plan("break", at)
     ELSE Plan("none", {len}) \cup Plan("break", {i \in at : i >= target})
            \cup Plan("hold", {i \in at : i >= target})

\* One turn of the loop of text()
Place(F) ==
  LET value == work.rest
      t == [work EXCEPT !.rest = <<>>]
      minimum == Len(TextOf(t.chunks))
      target == MaxChars - Cardinality(CardIds(t.chunks))
      maximum == IF target + MaxOverflow > 1 THEN target + MaxOverflow ELSE 1
      Put(n) == EmitText(t, SubSeq(value, 1, n))
      Left(n) == SubSeq(value, n + 1, Len(value))
  IN /\ pc = "deliver" /\ value # <<>>
     /\ IF ~Split \/ OpenTools(t.chunks) # <<>> \/ t.thought # 0
        THEN work' = EmitText(t, value)
        ELSE IF minimum = 0 /\ t.chunks # <<>> /\ Size(t) >= MaxChars
        THEN work' = [FinishSegment(t, F) EXCEPT !.rest = value]
        ELSE \E plan \in Plans(minimum, minimum + Len(value), target, maximum) :
               LET take == plan.index - minimum IN
               CASE plan.op = "break" -> work' = [FinishSegment(Put(take), F) EXCEPT !.rest = Left(take)]
                 [] plan.op = "hold" /\ ~work.final -> work' = [Put(take) EXCEPT !.tail = Left(take)]
                 [] OTHER -> work' = EmitText(t, value)
     /\ F # {} => work'.chunks = <<>>
     /\ Faulty(F)
     /\ UNCHANGED <<runVars, pc, batch, said, cards>>

Applying(old, F) == MaybeRotate(UpdateStatus(Flush(work, F), F), old, F)

\* Mutant: the final event is not kept in mind.
AppliedOn(old, F) ==
  /\ Delivering /\ batch = <<>> /\ ~ending
  /\ work' = Applying(old, F)
  /\ \A c \in F : work' # Applying(old, F \ {c})
  /\ Faulty(F)
  /\ saved' = Memo(work')
  /\ pc' = IF handle THEN "poll" ELSE "deliver"
  /\ ending' = ~handle
  /\ UNCHANGED <<log, handle, cursor, last, batch, said, cards>>

\* The end of Apply.  The router goes on from the state returned.
Applied(old, F) ==
  /\ Delivering /\ batch = <<>> /\ ~ending
  /\ work' = Applying(old, F)
  /\ \A c \in F : work' # Applying(old, F \ {c})
  /\ Faulty(F)
  /\ saved' = Memo(work')
  /\ pc' = IF handle /\ ~last THEN "poll" ELSE "deliver"
  /\ ending' = (~handle \/ last)
  /\ UNCHANGED <<log, handle, cursor, last, batch, said, cards>>

\* The end of End.
Ended(F) ==
  /\ Delivering /\ batch = <<>> /\ ending /\ work.tail = <<>>
  /\ work' = SetStatus(FinishSegment(CloseThought(work), F), Clear, F)
  /\ cards' = IF work.thought = 0 THEN cards
              ELSE (cards \ {<<work.thought, FALSE>>}) \cup {<<work.thought, TRUE>>}
  /\ Faulty(F)
  /\ pc' = "done"
  /\ UNCHANGED <<log, handle, cursor, ending, last, saved, batch, said>>

\* The delivery fails between two calls: its state and its events are gone, what it has
\* shown is not.
DeliveryFails ==
  /\ pc = "deliver"
  /\ Faulty({"Deliver"})
  /\ batch' = <<>>
  /\ work' = [saved EXCEPT !.thread = work.thread, !.status = work.status]
  /\ pc' = IF ending THEN "done" ELSE IF handle /\ ~last THEN "poll" ELSE "deliver"
  /\ ending' = (ending \/ ~handle \/ last)
  /\ UNCHANGED <<log, handle, cursor, last, saved, said, cards>>

-----------------------------------------------------------------------------
(* RouterWorkflow.Run, and the agent's driver. *)

\* deliver() of these events; of none, nothing is called
Deliver(events) ==
  /\ batch' = events
  /\ pc' = IF events # <<>> \/ ending' THEN "deliver" ELSE "poll"
  /\ UNCHANGED <<log, work, saved, said, cards>>

\* Start: the turn's beginning and the guide, a notice, a reply, an error, or nothing
Start ==
  /\ pc = "start"
  /\ \E o \in Openings :
       /\ handle' = o.handle
       /\ ending' = (o.events = <<>> /\ ~o.handle)
       /\ Deliver(o.events)
  /\ UNCHANGED <<cursor, last, failed>>

IsFinal(e) == e.kind \in {"output", "failed"}

\* Mutant: with the end of the reply come no events.
PageButLast(n) ==
  LET page == SubSeq(log, cursor + 1, n)
      finals == {i \in DOMAIN page : IsFinal(page[i])}
      stop == IF finals = {} THEN Len(page) ELSE CHOOSE i \in finals : \A j \in finals : i <= j
  IN IF finals # {} THEN <<>> ELSE SelectSeq(SubSeq(page, 1, stop), LAMBDA e : e.kind \notin {"foreign", "silent"})

\* The events of a page that Poll returns: of this message or of none, up to the final one
Page(n) ==
  LET page == SubSeq(log, cursor + 1, n)
      finals == {i \in DOMAIN page : IsFinal(page[i])}
      stop == IF finals = {} THEN Len(page) ELSE CHOOSE i \in finals : \A j \in finals : i <= j
  IN SelectSeq(SubSeq(page, 1, stop), LAMBDA e : e.kind \notin {"foreign", "silent"})

Poll ==
  /\ pc = "poll"
  /\ \E n \in (cursor + 1)..Len(log) :
       /\ cursor' = n
       /\ last' = \E i \in (cursor + 1)..n : IsFinal(log[i])
       /\ ending' = (last' /\ Page(n) = <<>>)
       /\ Deliver(Page(n))
  /\ UNCHANGED <<handle, failed>>

\* The poll fails, or the agent's workflow has completed: what it published and was not
\* read is not asked for any more.
PollEnds ==
  /\ pc = "poll"
  /\ Faulty({"Poll"})
  /\ ending' = TRUE
  /\ Deliver(<<>>)
  /\ UNCHANGED <<handle, cursor, last>>

Step ==
  \/ Start \/ Poll \/ PlaceTail \/ TakeText
  \/ \E F \in MayFail :
       TakeOther(F) \/ Place(F) \/ Ended(F) \/ \E old \in BOOLEAN : Applied(old, F)

Next == Step \/ DeliveryFails \/ PollEnds

Spec == Init /\ [][Next]_vars
FairSpec == Spec /\ WF_vars(Step)

-----------------------------------------------------------------------------
(* Properties. *)

Items(thread) == FlattenSeq([i \in DOMAIN thread |-> thread[i].items])
Never(F) == failed \cap F = {}
Unsent == SubSeq(work.chunks, work.delivered + 1, Len(work.chunks))

\* The thread, what is about to be sent and the text held back say what the agent said:
\* every piece of text, prompt and notice once and in its order, across message limits,
\* failed appends and the change to posting (Apply, flush, resendAfterFailure).
ThreadIsTheReply ==
  Never({"Post", "Deliver"}) =>
    LET visible == SelectSeq(Items(work.thread) \o Unsent, LAMBDA c : c.kind \in {"text", "prompt", "notice"})
    IN [i \in DOMAIN visible |-> visible[i].at] \o work.rest \o work.tail = said

\* The last that a reader sees of a card is its last state: a completion that came after
\* its message was closed, or with an append that failed, is shown in a later one.
CardsAreCurrent ==
  Never({"Post", "Deliver"}) =>
    LET all == Items(work.thread) \o Unsent IN
    \A c \in cards :
      \E i \in DOMAIN all :
        /\ all[i].kind = "card" /\ all[i].id = c[1] /\ all[i].done = c[2]
        /\ \A j \in (i + 1)..Len(all) : all[j].kind = "card" => all[j].id # c[1]

\* The thread is what the agent said and did, whatever messages it is spread over, and the
\* placement keeps its bounds (TypeOK).
ThreadIsFaithful == TypeOK /\ ThreadIsTheReply /\ CardsAreCurrent

\* No stream is left open but the current one, and none at the end; only a failed call
\* may leave one behind.
StreamsAreClosed ==
  Never({"Finish", "Deliver"}) =>
    \A i \in DOMAIN work.thread : work.thread[i].open => i = work.stream /\ pc # "done"

\* A run that is over has sent what it took, and the status line is clear; it has taken
\* all of the reply unless a poll failed (End, Poll).
ReplyIsComplete ==
  pc = "done" /\ handle /\ "Deliver" \notin failed =>
    /\ Unsent = <<>> /\ work.tail = <<>>
    /\ "Status" \notin failed => work.status = Clear
    /\ "Poll" \notin failed =>
         \A i \in DOMAIN log : log[i].kind \in {"text", "ask", "failed"} => i \in ToSet(said)

\* A run leaves nothing half done: no stream open, nothing unsent.
NothingIsLeftOver == StreamsAreClosed /\ ReplyIsComplete

\* Every run ends, whatever fails.
RunEnds == <>(pc = "done")

\* Every citation the timeline took is given to the end of a message, or will be.
CitationsAreKept ==
  Never({"Finish", "Post", "Deliver"}) => \A i \in DOMAIN log :
    log[i].kind = "cite" /\ i <= cursor /\ (\A j \in DOMAIN batch : batch[j].at # i) =>
      \/ i \in CitesOf(work.chunks)
      \/ \E m \in DOMAIN work.thread : i \in work.thread[m].cites

=============================================================================
