------------------------- MODULE CallbackGateProofs -------------------------
(***************************************************************************)
(* Proofs about callback tools for every set of calls: each is resolved    *)
(* once, ends the way it was resolved, and an accepted result stands.      *)
(***************************************************************************)
EXTENDS CallbackGate, TLAPS, FiniteSetTheorems, SequenceTheorems

----------------------------------------------------------------------------
(* Events of a log that grows *)

\* What an operator says of the events of one kind and call, for any log.
EventsIn(s, kind, c) == {i \in DOMAIN s : s[i].kind = kind /\ s[i].call = c}

\* Appending an event keeps the others where they are and adds its own index to
\* the events of its kind and call, and to no other.
LEMMA EventsAppend ==
  ASSUME NEW s \in Seq(Event), NEW e \in Event, NEW kind, NEW c
  PROVE  /\ Append(s, e) \in Seq(Event)
         /\ \A i \in DOMAIN s : i \in DOMAIN Append(s, e) /\ Append(s, e)[i] = s[i]
         /\ \A i \in DOMAIN s : i \in Nat /\ i < Len(s) + 1
         /\ Append(s, e)[Len(s) + 1] = e
         /\ Len(s) + 1 \in DOMAIN Append(s, e) /\ Len(s) + 1 \notin DOMAIN s
         /\ e.kind = kind /\ e.call = c
              => EventsIn(Append(s, e), kind, c) = EventsIn(s, kind, c) \cup {Len(s) + 1}
         /\ ~(e.kind = kind /\ e.call = c)
              => EventsIn(Append(s, e), kind, c) = EventsIn(s, kind, c)
  BY AppendProperties, LenProperties DEF EventsIn

\* Events of one kind and call are finitely many; one more makes one more.
LEMMA EventsCount ==
  ASSUME NEW s \in Seq(Event), NEW e \in Event, NEW kind, NEW c
  PROVE  /\ IsFiniteSet(EventsIn(s, kind, c)) /\ Cardinality(EventsIn(s, kind, c)) \in Nat
         /\ Cardinality(EventsIn(Append(s, e), kind, c))
              = Cardinality(EventsIn(s, kind, c))
                + (IF e.kind = kind /\ e.call = c THEN 1 ELSE 0)
<1>1. IsFiniteSet(DOMAIN s)
  BY LenProperties, FS_Interval
<1>2. IsFiniteSet(EventsIn(s, kind, c))
  BY <1>1, FS_Subset DEF EventsIn
<1>3. Cardinality(EventsIn(s, kind, c)) \in Nat
  BY <1>2, FS_CardinalityType
<1>4. Len(s) + 1 \notin EventsIn(s, kind, c)
  BY EventsAppend DEF EventsIn
<1>5. CASE e.kind = kind /\ e.call = c
  <2>1. EventsIn(Append(s, e), kind, c) = EventsIn(s, kind, c) \cup {Len(s) + 1}
    BY <1>5, EventsAppend
  <2>2. Cardinality(EventsIn(Append(s, e), kind, c)) = Cardinality(EventsIn(s, kind, c)) + 1
    BY <1>2, <1>4, <2>1, FS_AddElement
  <2>3. QED
    BY <1>2, <1>3, <1>5, <2>2
<1>6. CASE ~(e.kind = kind /\ e.call = c)
  <2>1. EventsIn(Append(s, e), kind, c) = EventsIn(s, kind, c)
    BY <1>6, EventsAppend
  <2>2. Cardinality(EventsIn(Append(s, e), kind, c)) = Cardinality(EventsIn(s, kind, c)) + 0
    BY <1>3, <2>1
  <2>3. QED
    BY <1>2, <1>3, <1>6, <2>2
<1>7. QED
  BY <1>5, <1>6

----------------------------------------------------------------------------
(* Types, and accepted results *)

\* The log after a gate resumed, one event at a time.
Resolved(c) ==
  IF entry[c] = "pending" THEN Append(log, Ev("callback_resolved", c, FinalOutcome(c))) ELSE log
Final(c) ==
  Ev(IF FinalOutcome(c) = "ok" THEN "tool_end" ELSE "tool_error", c, FinalOutcome(c))

LEMMA EvType ==
  ASSUME NEW kind \in EventKind, NEW c \in Call, NEW outcome \in Outcome \cup {"none"}
  PROVE  Ev(kind, c, outcome) \in Event
  BY DEF Ev, Event

\* A gate resumes with an outcome, and its events are appended one by one.
LEMMA ResumeEvents ==
  ASSUME TypeOK, NEW c \in Call, Resume(c)
  PROVE  /\ entry[c] \in {"pending"} \cup Outcome
         /\ FinalOutcome(c) \in Outcome /\ Final(c) \in Event
         /\ Ev("callback_resolved", c, FinalOutcome(c)) \in Event
         /\ Resolved(c) \in Seq(Event)
         /\ log' = Append(Resolved(c), Final(c))
<1>1. entry[c] \in {"pending"} \cup Outcome
  BY DEF Resume, Wakes, TypeOK, Entry
<1>2. FinalOutcome(c) \in Outcome
  BY <1>1 DEF FinalOutcome, Outcome
<1>3. Final(c) \in Event /\ Ev("callback_resolved", c, FinalOutcome(c)) \in Event
  BY <1>2, EvType DEF Final, EventKind
<1>4. Resolved(c) \in Seq(Event)
  BY <1>3, AppendProperties DEF Resolved, TypeOK
<1>5. log \o Resolution(c, FinalOutcome(c)) = Resolved(c)
  <2>1. log \in Seq(Event)
    BY DEF TypeOK
  <2>2. CASE entry[c] = "pending"
    BY <2>1, <2>2, <1>3, AppendIsConcat DEF Resolution, Resolved
  <2>3. CASE entry[c] # "pending"
    BY <2>1, <2>3, ConcatEmptySeq DEF Resolution, Resolved
  <2>4. QED BY <2>2, <2>3
<1>6. log' = Resolved(c) \o <<Final(c)>>
  BY <1>5 DEF Resume, Final
<1>7. log' = Append(Resolved(c), Final(c))
  BY <1>3, <1>4, <1>6, AppendIsConcat
<1>8. QED
  BY <1>1, <1>2, <1>3, <1>4, <1>7

LEMMA InitType == Init => TypeOK
  BY EmptySeq DEF Init, TypeOK, Entry, Gate

LEMMA NextType == TypeOK /\ [Next]_vars => TypeOK'
<1> SUFFICES ASSUME TypeOK, [Next]_vars PROVE TypeOK'
  OBVIOUS
<1>1. CASE UNCHANGED vars
  BY <1>1 DEF vars, TypeOK
<1>2. ASSUME NEW c \in Call, Park(c) PROVE TypeOK'
  <2>1. log' \in Seq(Event)
    BY <1>2, EvType, AppendProperties DEF Park, TypeOK, EventKind
  <2>2. QED
    BY <1>2, <2>1 DEF Park, TypeOK, Entry, Gate
<1>3. ASSUME NEW c \in Call, NEW result \in Result, Provide(c, result) PROVE TypeOK'
  <2>1. log' \in Seq(Event)
    BY <1>3, EvType, AppendProperties DEF Provide, TypeOK, EventKind, Outcome
  <2>2. QED
    BY <1>3, <2>1 DEF Provide, Accepts, TypeOK, Entry, Outcome, Result
<1>4. ASSUME NEW c \in Call, TimerFires(c) PROVE TypeOK'
  BY <1>4 DEF TimerFires, TypeOK, Gate
<1>5. ASSUME NEW c \in Call, Resume(c) PROVE TypeOK'
  <2>1. log' \in Seq(Event)
    BY <1>5, ResumeEvents, AppendProperties
  <2>2. entry' \in [Call -> Entry] /\ gate' \in [Call -> Gate]
    BY <1>5, ResumeEvents DEF Resume, TypeOK, Entry, Gate
  <2>3. \A d \in Call : entry'[d] = "none" <=> gate'[d] = "idle"
    BY <1>5, ResumeEvents DEF Resume, TypeOK, Outcome, Result
  <2>4. QED
    BY <1>5, <2>1, <2>2, <2>3 DEF Resume, TypeOK
<1>6. CASE Close
  BY <1>6 DEF Close, TypeOK
<1>7. QED
  BY <1>1, <1>2, <1>3, <1>4, <1>5, <1>6 DEF Next

\* Every variable keeps its type, and a call is registered exactly while its gate
\* has left the start.
THEOREM TypeCorrect == Spec => []TypeOK
<1>1. QED
  BY InitType, NextType, PTL DEF Spec

\* A result the update accepted is never replaced: not by a second submission,
\* not by the timer, not by the close.
THEOREM AcceptedTheorem == Spec => AcceptedStands
<1> DEFINE Stands == \A c \in Call : entry[c] \in Outcome => entry'[c] = entry[c]
<1>1. TypeOK /\ [Next]_vars => Stands \/ UNCHANGED vars
  <2> SUFFICES ASSUME TypeOK, Next PROVE Stands
    BY DEF Stands
  <2>1. ASSUME NEW d \in Call, Park(d) PROVE Stands
    BY <2>1 DEF Park, TypeOK, Outcome, Result
  <2>2. ASSUME NEW d \in Call, NEW result \in Result, Provide(d, result) PROVE Stands
    BY <2>2 DEF Provide, Accepts, TypeOK, Outcome, Result
  <2>3. ASSUME NEW d \in Call, TimerFires(d) PROVE Stands
    BY <2>3 DEF TimerFires
  <2>4. ASSUME NEW d \in Call, Resume(d) PROVE Stands
    BY <2>4 DEF Resume, FinalOutcome, TypeOK, Outcome, Result
  <2>5. CASE Close
    BY <2>5 DEF Close
  <2>6. QED
    BY <2>1, <2>2, <2>3, <2>4, <2>5 DEF Next
<1>2. QED
  BY <1>1, TypeCorrect, PTL DEF Spec, AcceptedStands
----------------------------------------------------------------------------
(* One resolution, and an end that agrees with it *)

\* In log s, a call with status en[c] was resolved once if at all, with en[c].
ResolvedOnce(s, en) ==
  \A c \in Call :
    /\ Cardinality(EventsIn(s, "callback_resolved", c)) = IF en[c] \in Outcome THEN 1 ELSE 0
    /\ \A j \in EventsIn(s, "callback_resolved", c) : s[j].outcome = en[c]

\* In log s, a resolution of call c stands before index i and agrees with it.
Justified(s, c, i) ==
  \E j \in EventsIn(s, "callback_resolved", c) :
    /\ j < i /\ s[j].outcome = s[i].outcome
    /\ s[i].kind = "tool_end" <=> s[j].outcome = "ok"
EndsAreJustified(s) ==
  \A c \in Call :
    \A i \in EventsIn(s, "tool_end", c) \cup EventsIn(s, "tool_error", c) : Justified(s, c, i)

ResolutionInv == TypeOK /\ ResolvedOnce(log, entry) /\ EndsAreJustified(log)

LEMMA InvImpliesRules == ResolutionInv => ResolutionRules
  BY DEF ResolutionInv, ResolvedOnce, EndsAreJustified, Justified, ResolutionRules, Events, EventsIn

\* A resolution of a call that had none is its first and only one.
LEMMA ResolveOnce ==
  ASSUME NEW s \in Seq(Event), NEW en, NEW c \in Call, NEW outcome \in Outcome,
         en[c] \notin Outcome, ResolvedOnce(s, en),
         NEW en2, en2[c] = outcome, \A d \in Call \ {c} : en2[d] = en[d],
         NEW e \in Event, e = Ev("callback_resolved", c, outcome)
  PROVE  ResolvedOnce(Append(s, e), en2)
<1> DEFINE s2 == Append(s, e)
<1>1. e.kind = "callback_resolved" /\ e.call = c /\ e.outcome = outcome
  BY DEF Ev
<1>2. EventsIn(s, "callback_resolved", c) = {}
  <2>1. Cardinality(EventsIn(s, "callback_resolved", c)) = 0
    BY DEF ResolvedOnce
  <2>2. QED
    BY <2>1, EventsCount, FS_EmptySet
<1>3. EventsIn(s2, "callback_resolved", c) = {Len(s) + 1} /\ s2[Len(s) + 1] = e
  <2> DEFINE kind == "callback_resolved"
  <2> HIDE DEF kind, s2
  <2>1. s2 = Append(s, e) /\ e.kind = kind /\ e.call = c
    BY <1>1 DEF s2, kind
  <2>2. s2[Len(s) + 1] = e /\ EventsIn(s2, kind, c) = EventsIn(s, kind, c) \cup {Len(s) + 1}
    BY <2>1, EventsAppend, SMTT(30)
  <2>3. QED
    BY <1>2, <2>2 DEF kind
<1>4. Cardinality(EventsIn(s2, "callback_resolved", c)) = 1
  BY <1>3, FS_Singleton
<1>5. ASSUME NEW d \in Call \ {c}
      PROVE  /\ EventsIn(s2, "callback_resolved", d) = EventsIn(s, "callback_resolved", d)
             /\ \A j \in EventsIn(s, "callback_resolved", d) : s2[j] = s[j]
  <2>1. EventsIn(s2, "callback_resolved", d) = EventsIn(s, "callback_resolved", d)
    BY <1>1, EventsAppend
  <2>2. \A j \in EventsIn(s, "callback_resolved", d) : s2[j] = s[j]
    BY EventsAppend DEF EventsIn
  <2>3. QED BY <2>1, <2>2
<1>6. SUFFICES ASSUME NEW d \in Call
               PROVE  /\ Cardinality(EventsIn(s2, "callback_resolved", d))
                            = IF en2[d] \in Outcome THEN 1 ELSE 0
                      /\ \A j \in EventsIn(s2, "callback_resolved", d) : s2[j].outcome = en2[d]
  BY DEF ResolvedOnce
<1>7. CASE d = c
  <2>1. \A j \in EventsIn(s2, "callback_resolved", c) : s2[j].outcome = en2[c]
    BY <1>1, <1>3
  <2>2. en2[c] \in Outcome
    OBVIOUS
  <2>3. QED
    BY <1>4, <1>7, <2>1, <2>2
<1>8. CASE d # c
  <2>1. d \in Call \ {c} /\ en2[d] = en[d]
    BY <1>8
  <2>2. /\ Cardinality(EventsIn(s, "callback_resolved", d)) = IF en[d] \in Outcome THEN 1 ELSE 0
        /\ \A j \in EventsIn(s, "callback_resolved", d) : s[j].outcome = en[d]
    BY DEF ResolvedOnce
  <2>3. /\ EventsIn(s2, "callback_resolved", d) = EventsIn(s, "callback_resolved", d)
        /\ \A j \in EventsIn(s, "callback_resolved", d) : s2[j] = s[j]
    BY <1>5, <2>1
  <2>4. Cardinality(EventsIn(s2, "callback_resolved", d)) = IF en2[d] \in Outcome THEN 1 ELSE 0
    BY <2>1, <2>2, <2>3
  <2>5. \A j \in EventsIn(s2, "callback_resolved", d) : s2[j].outcome = en2[d]
    BY <2>1, <2>2, <2>3
  <2>6. QED
    BY <2>4, <2>5
<1>9. QED
  BY <1>7, <1>8

\* An event that resolves nothing leaves the resolutions as they are.
LEMMA ResolveNothing ==
  ASSUME NEW s \in Seq(Event), NEW en, NEW en2, ResolvedOnce(s, en),
         \A d \in Call : /\ en2[d] \in Outcome <=> en[d] \in Outcome
                         /\ en[d] \in Outcome => en2[d] = en[d],
         NEW e \in Event, e.kind # "callback_resolved"
  PROVE  ResolvedOnce(Append(s, e), en2)
<1> DEFINE s2 == Append(s, e)
<1> SUFFICES ASSUME NEW d \in Call
             PROVE  /\ Cardinality(EventsIn(s2, "callback_resolved", d))
                          = IF en2[d] \in Outcome THEN 1 ELSE 0
                    /\ \A j \in EventsIn(s2, "callback_resolved", d) : s2[j].outcome = en2[d]
  BY DEF ResolvedOnce
<1>1. EventsIn(s2, "callback_resolved", d) = EventsIn(s, "callback_resolved", d)
  BY EventsAppend
<1>2. \A j \in EventsIn(s, "callback_resolved", d) : s2[j] = s[j]
  BY EventsAppend DEF EventsIn
<1>3. /\ Cardinality(EventsIn(s, "callback_resolved", d)) = IF en[d] \in Outcome THEN 1 ELSE 0
      /\ \A j \in EventsIn(s, "callback_resolved", d) : s[j].outcome = en[d]
  BY DEF ResolvedOnce
<1>4. CASE en[d] \in Outcome
  <2>1. en2[d] \in Outcome /\ en2[d] = en[d]
    BY <1>4
  <2>2. Cardinality(EventsIn(s2, "callback_resolved", d)) = IF en2[d] \in Outcome THEN 1 ELSE 0
    BY <1>1, <1>3, <2>1
  <2>3. \A j \in EventsIn(s2, "callback_resolved", d) : s2[j].outcome = en2[d]
    BY <1>1, <1>2, <1>3, <2>1
  <2>4. QED
    BY <2>2, <2>3
<1>5. CASE en[d] \notin Outcome
  <2>1. Cardinality(EventsIn(s, "callback_resolved", d)) = 0
    BY <1>3, <1>5
  <2>2. EventsIn(s2, "callback_resolved", d) = {}
    BY <1>1, <2>1, EventsCount, FS_EmptySet
  <2>3. en2[d] \notin Outcome
    BY <1>5
  <2>4. Cardinality(EventsIn(s2, "callback_resolved", d)) = IF en2[d] \in Outcome THEN 1 ELSE 0
    BY <1>1, <2>1, <2>3
  <2>5. QED
    BY <2>2, <2>4
<1>6. QED
  BY <1>4, <1>5

\* Ends stay justified as the log grows; a new end needs a resolution that
\* agrees with it.
LEMMA EndsAppend ==
  ASSUME NEW s \in Seq(Event), EndsAreJustified(s), NEW e \in Event,
         e.kind \in {"tool_end", "tool_error"} =>
           \E j \in EventsIn(s, "callback_resolved", e.call) :
             /\ s[j].outcome = e.outcome
             /\ e.kind = "tool_end" <=> e.outcome = "ok"
  PROVE  EndsAreJustified(Append(s, e))
<1> DEFINE s2 == Append(s, e)
<1> SUFFICES ASSUME NEW c \in Call,
                    NEW i \in EventsIn(s2, "tool_end", c) \cup EventsIn(s2, "tool_error", c)
             PROVE  Justified(s2, c, i)
  BY DEF EndsAreJustified
<1>1. \A j \in EventsIn(s, "callback_resolved", c) :
        /\ j \in EventsIn(s2, "callback_resolved", c) /\ s2[j] = s[j]
        /\ j \in Nat /\ j < Len(s) + 1
  BY EventsAppend DEF EventsIn
<1>2. CASE i \in EventsIn(s, "tool_end", c) \cup EventsIn(s, "tool_error", c)
  <2>1. s2[i] = s[i]
    BY <1>2, EventsAppend DEF EventsIn
  <2>2. Justified(s, c, i)
    BY <1>2 DEF EndsAreJustified
  <2>3. QED
    BY <1>1, <2>1, <2>2 DEF Justified
<1>3. CASE i \notin EventsIn(s, "tool_end", c) \cup EventsIn(s, "tool_error", c)
  <2>1. i = Len(s) + 1 /\ s2[i] = e /\ e.call = c /\ e.kind \in {"tool_end", "tool_error"}
    BY <1>3, EventsAppend
  <2>2. PICK j \in EventsIn(s, "callback_resolved", c) :
           s[j].outcome = e.outcome /\ (e.kind = "tool_end" <=> e.outcome = "ok")
    BY <2>1
  <2>3. QED
    BY <1>1, <2>1, <2>2 DEF Justified
<1>4. QED
  BY <1>2, <1>3

LEMMA InitResolution == Init => ResolutionInv
<1> SUFFICES ASSUME Init PROVE ResolutionInv
  OBVIOUS
<1>1. \A kind : \A c : EventsIn(log, kind, c) = {}
  BY EmptySeq, LenProperties DEF Init, EventsIn
<1>2. QED
  BY <1>1, InitType, FS_EmptySet
  DEF Init, ResolutionInv, ResolvedOnce, EndsAreJustified, Outcome, Result

LEMMA NextResolution == ResolutionInv /\ [Next]_vars => ResolutionInv'
<1> SUFFICES ASSUME ResolutionInv, [Next]_vars PROVE ResolutionInv'
  OBVIOUS
<1>0. TypeOK /\ TypeOK' /\ log \in Seq(Event)
      /\ ResolvedOnce(log, entry) /\ EndsAreJustified(log)
  BY NextType DEF ResolutionInv, TypeOK
<1>f. ASSUME UNCHANGED <<entry, log>> PROVE ResolutionInv'
  BY <1>0, <1>f DEF ResolutionInv
<1>1. CASE UNCHANGED vars
  BY <1>1, <1>f DEF vars
<1>2. ASSUME NEW c \in Call, Park(c) PROVE ResolutionInv'
  <2> DEFINE e == Ev("callback_requested", c, "none")
  <2>1. e \in Event /\ e.kind = "callback_requested"
    BY EvType DEF EventKind, Ev
  <2>2. log' = Append(log, e)
    BY <1>2 DEF Park
  <2>3. \A d \in Call : /\ entry'[d] \in Outcome <=> entry[d] \in Outcome
                        /\ entry[d] \in Outcome => entry'[d] = entry[d]
    BY <1>0, <1>2 DEF Park, TypeOK, Outcome, Result
  <2>4. ResolvedOnce(Append(log, e), entry')
    BY <1>0, <2>1, <2>3, ResolveNothing
  <2>5. EndsAreJustified(Append(log, e))
    BY <1>0, <2>1, EndsAppend
  <2>6. QED
    BY <1>0, <2>2, <2>4, <2>5
    DEF ResolutionInv
<1>3. ASSUME NEW c \in Call, NEW result \in Result, Provide(c, result) PROVE ResolutionInv'
  <2> DEFINE e == Ev("callback_resolved", c, result)
  <2>1. e \in Event /\ e.kind = "callback_resolved" /\ result \in Outcome
    BY EvType DEF EventKind, Ev, Outcome
  <2>2. log' = Append(log, e)
    BY <1>3 DEF Provide
  <2>3. /\ entry[c] \notin Outcome /\ entry'[c] = result
        /\ \A d \in Call \ {c} : entry'[d] = entry[d]
    BY <1>0, <1>3 DEF Provide, Accepts, TypeOK, Outcome, Result
  <2>4. ResolvedOnce(Append(log, e), entry')
    BY <1>0, <2>1, <2>3, ResolveOnce
  <2>5. EndsAreJustified(Append(log, e))
    BY <1>0, <2>1, EndsAppend
  <2>6. QED
    BY <1>0, <2>2, <2>4, <2>5
    DEF ResolutionInv
<1>4. ASSUME NEW c \in Call, TimerFires(c) PROVE ResolutionInv'
  BY <1>4, <1>f DEF TimerFires
<1>5. ASSUME NEW c \in Call, Resume(c) PROVE ResolutionInv'
  <2> DEFINE outcome == FinalOutcome(c)
             e == Ev("callback_resolved", c, outcome)
  <2>1. /\ entry[c] \in {"pending"} \cup Outcome /\ outcome \in Outcome
        /\ e \in Event /\ Final(c) \in Event /\ Resolved(c) \in Seq(Event)
        /\ log' = Append(Resolved(c), Final(c))
    BY <1>0, <1>5, ResumeEvents
  <2>2. /\ entry'[c] = outcome
        /\ \A d \in Call \ {c} : entry'[d] = entry[d]
    BY <1>0, <1>5 DEF Resume, TypeOK
  <2>3. e.kind = "callback_resolved"
    BY DEF Ev
  <2>4. /\ Final(c).kind \in {"tool_end", "tool_error"} /\ Final(c).call = c
        /\ Final(c).outcome = outcome /\ (Final(c).kind = "tool_end" <=> outcome = "ok")
    BY DEF Final, Ev
  <2>5. ResolvedOnce(Resolved(c), entry') /\ EndsAreJustified(Resolved(c))
    <3>1. CASE entry[c] = "pending"
      <4>1. Resolved(c) = Append(log, e)
        BY <3>1 DEF Resolved
      <4>2. entry[c] \notin Outcome
        BY <3>1 DEF Outcome, Result
      <4>3. ResolvedOnce(Append(log, e), entry')
        BY <1>0, <2>1, <2>2, <4>2, ResolveOnce
      <4>4. EndsAreJustified(Append(log, e))
        BY <1>0, <2>1, <2>3, EndsAppend
      <4>5. QED BY <4>1, <4>3, <4>4
    <3>2. CASE entry[c] # "pending"
      <4>1. Resolved(c) = log /\ outcome = entry[c]
        BY <3>2 DEF Resolved, FinalOutcome
      <4>2. \A d \in Call : entry'[d] = entry[d]
        BY <2>2, <4>1
      <4>3. QED
        BY <1>0, <4>1, <4>2 DEF ResolvedOnce
    <3>3. QED BY <3>1, <3>2
  <2>6. ResolvedOnce(Append(Resolved(c), Final(c)), entry')
    BY <2>1, <2>4, <2>5, ResolveNothing
  <2>7. \E j \in EventsIn(Resolved(c), "callback_resolved", c) : Resolved(c)[j].outcome = outcome
    <3>1. Cardinality(EventsIn(Resolved(c), "callback_resolved", c)) = 1
      BY <2>1, <2>2, <2>5 DEF ResolvedOnce
    <3>2. EventsIn(Resolved(c), "callback_resolved", c) # {}
      BY <3>1, FS_EmptySet
    <3>3. QED
      BY <2>2, <2>5, <3>2 DEF ResolvedOnce
  <2>8. EndsAreJustified(Append(Resolved(c), Final(c)))
    BY <2>1, <2>4, <2>5, <2>7, EndsAppend
  <2>9. QED
    BY <1>0, <2>1, <2>6, <2>8
    DEF ResolutionInv
<1>6. CASE Close
  BY <1>6, <1>f DEF Close
<1>7. QED
  BY <1>1, <1>2, <1>3, <1>4, <1>5, <1>6 DEF Next

\* Every callback call is resolved at most once and ends the way it was resolved,
\* whatever the order of results, timers and the close.
THEOREM ResolutionTheorem == Spec => []ResolutionRules
<1>1. QED
  BY InitResolution, NextResolution, InvImpliesRules, PTL DEF Spec
=============================================================================
