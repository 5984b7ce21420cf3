------------------------ MODULE SubagentTurnsProofs ------------------------
(***************************************************************************)
(* Proofs about a parent and its subagent, for every set of sends and of   *)
(* other senders, and any number of lost attempts: the brackets on the     *)
(* parent's stream come in the order of the gate, and what the parent is   *)
(* told of its sends is so.                                                *)
(*                                                                         *)
(* The argument: the gate holds one running send, the one whose ticket is  *)
(* served, and every send that was answered has a smaller ticket; what an  *)
(* attempt knows, its successor knows from the memo or finds out again;    *)
(* and both streams only grow.                                             *)
(***************************************************************************)
EXTENDS SubagentTurns, TLAPS, SequenceTheorems, FiniteSetTheorems

----------------------------------------------------------------------------
(* The inductive invariant *)

\* A send that went through the gate's door has a ticket of its own.
HasTicket(s) == call[s] \notin {"idle", "unknown"}

\* One send is served at a time; those that were answered were served before.
GateInv ==
  /\ \A s \in Send : call[s] = "running" => ticket[s] = serving
  /\ \A s \in Send : call[s] \in Verdict => ticket[s] < serving
  /\ \A s \in Send : HasTicket(s) => ticket[s] < nextTicket
  /\ \A s, t \in Send : s # t /\ HasTicket(s) /\ HasTicket(t) => ticket[s] # ticket[t]

\* The verdicts on a turn the child accepted.
Accepted == {"ok", "turnError", "noReply"}
Announced(s) == \E i \in DOMAIN markers : MarkerAt(i, "message_sent", s)

\* Who reads, resumes or answers has announced its bracket, in this attempt or in
\* one that was lost; who was refused was never accepted.
ActivityOK(s) ==
  /\ attempt[s] # "none" => call[s] \in {"running", "cancelled"}
  /\ attempt[s] \in {"none", "started", "sent"} => verdict[s] = "none"
  /\ attempt[s] = "reading" => verdict[s] \in {"none", "ok"}
  /\ attempt[s] = "finished" => verdict[s] # "none"
  /\ attempt[s] = "sent" => slot[s] # 0
  /\ attempt[s] = "reading" \/ verdict[s] \in Accepted \/ memo[s] # NoMemo => Announced(s)
  /\ verdict[s] \in {"rejected", "agentClosed"} => slot[s] = 0
ActivityInv == \A s \in Send : ActivityOK(s)

\* A send that has not reached the child, or was refused, has no turn there.
SlotInv ==
  \A s \in Send :
    call[s] \in {"idle", "waiting", "unknown", "parentClosed", "noTurn", "rejected", "agentClosed"} =>
      slot[s] = 0

TurnOver(s) == Published("turn_end", "any", slot[s]) \/ stopped

\* Whoever runs in the child runs in a numbered turn, and turns have one kind of end.
ChildInv ==
  /\ active # {} => turn > 0
  /\ \A k \in DOMAIN childLog : childLog[k].kind = "turn_end" => childLog[k].send = "any"

\* What an attempt has found is on the child's stream.
EvidenceOK(s) ==
  /\ verdict[s] = "ok" => Published("message_handler_end", s, slot[s])
  /\ verdict[s] = "ok" /\ attempt[s] = "finished" => TurnOver(s)
  /\ verdict[s] = "turnError" => Published("message_handler_error", s, slot[s])
  /\ verdict[s] = "noReply" => TurnOver(s)
EvidenceInv == \A s \in Send : EvidenceOK(s)

\* A bracket names the turn of its send; it is closed exactly when the send was
\* answered, and not opened again after that.
MarkersOK(s) ==
  /\ \A i \in DOMAIN markers :
       /\ MarkerAt(i, "message_sent", s) => markers[i].turn = slot[s] /\ slot[s] # 0
       /\ MarkerAt(i, "reply_received", s) => call[s] \in Accepted
  /\ call[s] \in Accepted =>
       \E k \in DOMAIN markers :
         /\ MarkerAt(k, "reply_received", s)
         /\ \A i \in DOMAIN markers : MarkerAt(i, "message_sent", s) => i <= k
MarkersInv == \A s \in Send : MarkersOK(s)

IInv ==
  /\ BracketsInOrder /\ ParentIsTold
  /\ GateInv /\ ActivityInv /\ SlotInv /\ ChildInv /\ EvidenceInv /\ MarkersInv

LEMMA Constants ==
  /\ Send \cap Other = {} /\ MaxCrashes \in Nat /\ NoMemo \notin Nat
  /\ MidTurn \in [Send \cup Other -> {"accept", "queue", "reject"}]
  BY SendAssumption, MidTurnAssumption, CrashAssumption, NoMemoAssumption

----------------------------------------------------------------------------
(* The child and its stream *)

ChildVarsOK ==
  /\ turn \in Nat /\ active \subseteq Send \cup Other /\ finished \subseteq Send \cup Other
  /\ queue \in Seq(Send \cup Other) /\ slot \in [Send \cup Other -> Nat]
  /\ closing \in BOOLEAN /\ stopped \in BOOLEAN
  /\ active # {} => turn > 0

\* What a step of the session may do with its variables; a promised slot is kept.
LEMMA AdmitStep ==
  ASSUME ChildVarsOK, NEW m \in Send \cup Other, Child!Admit(m)
  PROVE  /\ ChildVarsOK'
         /\ slot[m] = 0 /\ slot'[m] # 0 /\ stopped' = stopped
         /\ \A n \in (Send \cup Other) \ {m} : slot'[n] = slot[n]
<1> USE DEF ChildVarsOK, Child!Admit
<1>1. Len(queue) \in Nat
  BY LenProperties
<1>2. CASE Child!Joins(m)
  BY <1>2 DEF Child!Joins
<1>3. CASE ~Child!Joins(m)
  <2>1. queue' \in Seq(Send \cup Other)
    BY <1>3, AppendProperties
  <2>2. QED
    BY <1>1, <1>3, <2>1
<1>4. QED
  BY <1>2, <1>3

LEMMA ChildSteps ==
  ASSUME ChildVarsOK,
         \/ Child!OpenTurn \/ Child!Close \/ Child!Stop \/ Child!Abort
         \/ \E m \in Send \cup Other : Child!Finish(m)
  PROVE  ChildVarsOK' /\ slot' = slot /\ (stopped => stopped')
<1> USE DEF ChildVarsOK
<1>1. CASE Child!OpenTurn
  <2>1. Head(queue) \in Send \cup Other /\ Tail(queue) \in Seq(Send \cup Other)
    BY <1>1, HeadTailProperties DEF Child!OpenTurn
  <2>2. QED
    BY <1>1, <2>1 DEF Child!OpenTurn
<1>2. CASE \E m \in Send \cup Other : Child!Finish(m)
  BY <1>2 DEF Child!Finish
<1>3. CASE Child!Close \/ Child!Stop \/ Child!Abort
  BY <1>3 DEF Child!Close, Child!Stop, Child!Abort
<1>4. QED
  BY <1>1, <1>2, <1>3

\* One more event: the log has one more index, above the others.
LEMMA OneMore ==
  ASSUME NEW S, NEW log \in Seq(S), NEW e \in S
  PROVE  LET new == Append(log, e) IN
         /\ new \in Seq(S) /\ DOMAIN log \subseteq Nat
         /\ \E n \in Nat : /\ DOMAIN new = DOMAIN log \cup {n} /\ n \notin DOMAIN log
                          /\ new[n] = e
                          /\ \A i \in DOMAIN log : i < n /\ new[i] = log[i]
<1> DEFINE new == Append(log, e)
<1>1. PICK n \in Nat : n = Len(log) + 1
  BY LenProperties
<1>2. /\ new \in Seq(S) /\ Len(new) = n /\ new[n] = e
      /\ \A i \in 1 .. Len(log) : new[i] = log[i]
  BY <1>1, AppendProperties
<1>3. DOMAIN log = 1 .. Len(log) /\ DOMAIN new = 1 .. n /\ Len(log) \in Nat
  BY <1>2, LenProperties
<1>4. DOMAIN new = DOMAIN log \cup {n} /\ n \notin DOMAIN log
  BY <1>1, <1>3
<1>5. QED
  BY <1>1, <1>2, <1>3, <1>4

\* What a handler that ends adds to the stream.
LEMMA FinishPublishes ==
  ASSUME childLog \in Seq(ChildEvent), turn \in Nat, NEW m \in Send \cup Other, ChildFinish(m)
  PROVE  /\ childLog' \in Seq(ChildEvent)
         /\ Len(childLog) <= Len(childLog')
         /\ \A k \in DOMAIN childLog : childLog'[k] = childLog[k]
         /\ \A k \in DOMAIN childLog' \ DOMAIN childLog :
              childLog'[k].kind = "turn_end" => childLog'[k].send = "any"
<1>1. PICK kind \in {"message_handler_end", "message_handler_error"} :
        childLog' = Append(childLog, Publish(kind, m))
                    \o (IF active = {m} THEN <<Publish("turn_end", "any")>> ELSE << >>)
  BY DEF ChildFinish
<1> DEFINE e == Publish(kind, m)
           f == Publish("turn_end", "any")
           log == Append(childLog, e)
<1>2. e \in ChildEvent /\ f \in ChildEvent /\ e.kind # "turn_end" /\ f.send = "any"
  BY DEF Publish, ChildEvent
<1> HIDE DEF e, f
<1>3. /\ log \in Seq(ChildEvent) /\ Len(log) = Len(childLog) + 1
      /\ \A i \in 1 .. Len(childLog) : log[i] = childLog[i]
      /\ log[Len(childLog) + 1] = e
  BY <1>2, AppendProperties
<1> HIDE DEF log
<1>4. childLog' = log \/ childLog' = Append(log, f)
  <2>1. CASE active = {m}
    BY <1>1, <1>2, <1>3, <2>1, AppendIsConcat DEF log, e, f
  <2>2. CASE active # {m}
    BY <1>1, <1>3, <2>2, ConcatEmptySeq DEF log, e
  <2>3. QED
    BY <2>1, <2>2
<1>5. CASE childLog' = log
  BY <1>2, <1>3, <1>5, LenProperties
<1>6. CASE childLog' = Append(log, f)
  <2>1. /\ childLog' \in Seq(ChildEvent) /\ Len(childLog') = Len(log) + 1
        /\ \A i \in 1 .. Len(log) : childLog'[i] = log[i]
        /\ childLog'[Len(log) + 1] = f
    BY <1>2, <1>3, <1>6, AppendProperties
  <2>2. Len(childLog) \in Nat /\ DOMAIN childLog = 1 .. Len(childLog)
        /\ DOMAIN childLog' = 1 .. Len(childLog')
    BY <2>1, LenProperties
  <2>3. QED
    BY <1>2, <1>3, <2>1, <2>2
<1>7. QED
  BY <1>4, <1>5, <1>6
----------------------------------------------------------------------------
(* The parent's stream *)

LEMMA MarkersTyped ==
  ASSUME TypeOK, NEW s \in Send
  PROVE  /\ Marker("message_sent", s) \in ParentEvent
         /\ Marker("reply_received", s) \in ParentEvent
         /\ Stopped \in ParentEvent
  BY DEF Marker, Stopped, NoTurn, ParentEvent, TypeOK

\* A settled send closes its bracket, or says the child is gone, or says nothing.
LEMMA SettlePublishes ==
  ASSUME TypeOK, NEW s \in Send, Settle(s)
  PROVE  \/ verdict[s] \in Accepted /\ markers' = Append(markers, Marker("reply_received", s))
         \/ verdict[s] = "agentClosed" /\ registered /\ markers' = Append(markers, Stopped)
         \/ /\ verdict[s] \notin Accepted /\ (verdict[s] = "agentClosed" => ~registered)
            /\ markers' = markers
<1>1. markers \in Seq(ParentEvent) /\ markers \o << >> = markers
  BY ConcatEmptySeq DEF TypeOK
<1>2. CASE verdict[s] \in Accepted
  <2> DEFINE e == Marker("reply_received", s)
  <2>1. e \in ParentEvent
    BY MarkersTyped
  <2>2. CloseBracket(s) = <<e>> /\ Forget(s) = << >>
    BY <1>2 DEF CloseBracket, Forget, Accepted
  <2> HIDE DEF e
  <2>3. markers \o <<e>> = Append(markers, e) /\ Append(markers, e) \in Seq(ParentEvent)
    BY <1>1, <2>1, AppendIsConcat, AppendProperties
  <2>4. Append(markers, e) \o << >> = Append(markers, e)
    BY <2>3, ConcatEmptySeq
  <2>5. QED
    BY <1>2, <2>2, <2>3, <2>4 DEF Settle, e
<1>3. CASE verdict[s] = "agentClosed" /\ registered
  <2> DEFINE e == Stopped
  <2>1. e \in ParentEvent
    BY MarkersTyped
  <2>2. CloseBracket(s) = << >> /\ Forget(s) = <<e>>
    BY <1>3 DEF CloseBracket, Forget
  <2> HIDE DEF e
  <2>3. markers \o <<e>> = Append(markers, e)
    BY <1>1, <2>1, AppendIsConcat
  <2>4. QED
    BY <1>1, <1>3, <2>2, <2>3 DEF Settle, e
<1>4. CASE verdict[s] \notin Accepted /\ (verdict[s] = "agentClosed" => ~registered)
  <2>1. CloseBracket(s) = << >> /\ Forget(s) = << >>
    BY <1>4 DEF CloseBracket, Forget, Accepted
  <2>2. QED
    BY <1>1, <1>4, <2>1 DEF Settle
<1>5. QED
  BY <1>2, <1>3, <1>4

\* The one event a step may add to the parent's stream, and who adds it.
Adds(e) ==
  \/ \E s \in Send : Announce(s) /\ e = Marker("message_sent", s)
  \/ \E s \in Send : Settle(s) /\ verdict[s] \in Accepted /\ e = Marker("reply_received", s)
  \/ \E s \in Send : Settle(s) /\ verdict[s] = "agentClosed" /\ registered /\ e = Stopped
  \/ StopReturn /\ e = Stopped

Quiet(s) ==
  RefuseUnknown(s) \/ TakeTicket(s) \/ PassGate(s) \/ LeaveGate(s) \/ LoseTurn(s) \/ Cancel(s)
  \/ Submit(s) \/ BeRefused(s) \/ Resume(s) \/ Read(s) \/ StreamEnds(s)
  \/ Heartbeat(s) \/ Crash(s) \/ Quit(s)

ChildStep ==
  \/ \E m \in Other : OtherAdmit(m)
  \/ \E m \in Send \cup Other : ChildFinish(m)
  \/ ChildOpen \/ ChildClose \/ ChildStop \/ ChildAbort

LEMMA QuietKeepsMarkers ==
  /\ \A s \in Send : Quiet(s) => markers' = markers
  /\ StopCall \/ StopSignal \/ ParentClose => markers' = markers
  /\ ChildStep => UNCHANGED <<parentVars, activityVars>>
<1> USE DEF parentVars, activityVars
<1>1. ASSUME NEW s \in Send, Quiet(s) PROVE markers' = markers
  BY <1>1 DEF Quiet, RefuseUnknown, TakeTicket, PassGate, LeaveGate, LoseTurn, Cancel, Submit, BeRefused,
              Resume, Read, StreamEnds, Heartbeat, Crash, Quit
<1>2. StopCall \/ StopSignal \/ ParentClose => markers' = markers
  BY DEF StopCall, StopSignal, ParentClose
<1>3. ChildStep => UNCHANGED <<parentVars, activityVars>>
  BY DEF ChildStep, OtherAdmit, ChildFinish, ChildOpen, ChildClose, ChildStop, ChildAbort
<1>4. QED
  BY <1>1, <1>2, <1>3

LEMMA NextCases ==
  Next => \/ \E s \in Send : Quiet(s) \/ Announce(s) \/ Settle(s)
          \/ StopCall \/ StopSignal \/ StopReturn \/ ParentClose
          \/ ChildStep
  BY DEF Next, ActivityStep, Quiet, ChildStep

LEMMA MarkersStep ==
  ASSUME TypeOK, [Next]_vars
  PROVE  markers' = markers \/ \E e \in ParentEvent : Adds(e) /\ markers' = Append(markers, e)
<1>1. CASE UNCHANGED vars
  BY <1>1 DEF vars, parentVars
<1>2. ASSUME NEW s \in Send, Announce(s)
      PROVE  \E e \in ParentEvent : Adds(e) /\ markers' = Append(markers, e)
  BY <1>2, MarkersTyped DEF Announce, Adds
<1>3. ASSUME NEW s \in Send, Settle(s)
      PROVE  markers' = markers \/ \E e \in ParentEvent : Adds(e) /\ markers' = Append(markers, e)
  BY <1>3, MarkersTyped, SettlePublishes DEF Adds
<1>4. CASE StopReturn
  BY <1>4 DEF StopReturn, Adds, Stopped, NoTurn, ParentEvent
<1>5. QED
  BY <1>1, <1>2, <1>3, <1>4, NextCases, QuietKeepsMarkers DEF parentVars

----------------------------------------------------------------------------
(* Both streams only grow, and a turn that was promised stays promised *)

LEMMA MarkersGrow ==
  ASSUME TypeOK, [Next]_vars
  PROVE  /\ markers' \in Seq(ParentEvent)
         /\ DOMAIN markers \subseteq DOMAIN markers'
         /\ \A i \in DOMAIN markers : markers'[i] = markers[i]
<1>1. CASE markers' = markers
  BY <1>1 DEF TypeOK
<1>2. ASSUME NEW e \in ParentEvent, markers' = Append(markers, e)
      PROVE  /\ markers' \in Seq(ParentEvent)
             /\ DOMAIN markers \subseteq DOMAIN markers'
             /\ \A i \in DOMAIN markers : markers'[i] = markers[i]
  BY <1>2, OneMore DEF TypeOK
<1>3. QED
  BY <1>1, <1>2, MarkersStep

LEMMA ChildGrows ==
  ASSUME TypeOK, ChildInv, [Next]_vars
  PROVE  /\ childLog' \in Seq(ChildEvent) /\ Len(childLog) <= Len(childLog')
         /\ \A k \in DOMAIN childLog : k \in DOMAIN childLog' /\ childLog'[k] = childLog[k]
         /\ ChildVarsOK' /\ ChildInv' /\ (stopped => stopped')
         /\ \A s \in Send : slot'[s] = slot[s] \/ (Submit(s) /\ slot[s] = 0 /\ slot'[s] # 0)
<1> DEFINE Goal ==
      /\ childLog' \in Seq(ChildEvent) /\ Len(childLog) <= Len(childLog')
      /\ \A k \in DOMAIN childLog : k \in DOMAIN childLog' /\ childLog'[k] = childLog[k]
      /\ ChildVarsOK' /\ ChildInv' /\ (stopped => stopped')
      /\ \A s \in Send : slot'[s] = slot[s] \/ (Submit(s) /\ slot[s] = 0 /\ slot'[s] # 0)
<1>1. ChildVarsOK /\ childLog \in Seq(ChildEvent) /\ turn \in Nat
  BY DEF TypeOK, ChildInv, ChildVarsOK
<1>2. Len(childLog) \in Nat /\ DOMAIN childLog = 1 .. Len(childLog)
  BY <1>1, LenProperties
<1>3. CASE UNCHANGED <<sessionVars, childLog>>
  BY <1>1, <1>2, <1>3 DEF sessionVars, ChildVarsOK, ChildInv
<1>4. ASSUME NEW m \in Send \cup Other, Child!Admit(m), childLog' = childLog,
             m \in Send => Submit(m)
      PROVE  Goal
  <2>1. /\ ChildVarsOK' /\ slot[m] = 0 /\ slot'[m] # 0 /\ stopped' = stopped
        /\ \A n \in (Send \cup Other) \ {m} : slot'[n] = slot[n]
    BY <1>1, <1>4, AdmitStep
  <2>2. ChildInv'
    BY <1>4, <2>1 DEF ChildInv, ChildVarsOK
  <2>3. QED
    BY <1>1, <1>2, <1>4, <2>1, <2>2
<1>5. ASSUME NEW s \in Send, Submit(s) PROVE Goal
  BY <1>3, <1>4, <1>5 DEF Submit
<1>6. ASSUME NEW m \in Other, OtherAdmit(m) PROVE Goal
  BY <1>4, <1>6, Constants DEF OtherAdmit
<1>7. ASSUME NEW m \in Send \cup Other, ChildFinish(m) PROVE Goal
  <2>1. /\ childLog' \in Seq(ChildEvent) /\ Len(childLog) <= Len(childLog')
        /\ \A k \in DOMAIN childLog : childLog'[k] = childLog[k]
        /\ \A k \in DOMAIN childLog' \ DOMAIN childLog :
             childLog'[k].kind = "turn_end" => childLog'[k].send = "any"
    BY <1>1, <1>7, FinishPublishes
  <2>2. ChildVarsOK' /\ slot' = slot /\ (stopped => stopped')
    BY <1>1, <1>7, ChildSteps DEF ChildFinish
  <2>3. Len(childLog') \in Nat /\ DOMAIN childLog' = 1 .. Len(childLog')
    BY <2>1, LenProperties
  <2>4. ChildInv'
    BY <2>1, <2>2 DEF ChildInv, ChildVarsOK
  <2>5. QED
    BY <1>2, <2>1, <2>2, <2>3, <2>4
<1>8. ASSUME Child!OpenTurn \/ Child!Close \/ Child!Stop \/ Child!Abort, childLog' = childLog
      PROVE  Goal
  <2>1. ChildVarsOK' /\ slot' = slot /\ (stopped => stopped')
    BY <1>1, <1>8, ChildSteps
  <2>2. ChildInv'
    BY <1>8, <2>1 DEF ChildInv, ChildVarsOK
  <2>3. QED
    BY <1>1, <1>2, <1>8, <2>1, <2>2
<1>9. ChildStep => Goal
  BY <1>6, <1>7, <1>8 DEF ChildStep, ChildOpen, ChildClose, ChildStop, ChildAbort
<1>10. CASE StopSignal
  <2>1. ChildVarsOK' /\ slot' = slot /\ stopped' = stopped /\ UNCHANGED <<turn, active, childLog>>
    BY <1>1, <1>10 DEF StopSignal, ChildVarsOK
  <2>2. ChildInv'
    BY <2>1 DEF ChildInv
  <2>3. QED
    BY <1>1, <1>2, <2>1, <2>2
<1>11. ASSUME NEW s \in Send, Quiet(s) \/ Announce(s) \/ Settle(s), ~Submit(s)
       PROVE  UNCHANGED <<sessionVars, childLog>>
  BY <1>11 DEF Quiet, RefuseUnknown, TakeTicket, PassGate, LeaveGate, LoseTurn, Cancel, BeRefused,
               Resume, Read, StreamEnds, Heartbeat, Crash, Quit, Announce, Settle
<1>12. StopCall \/ StopReturn \/ ParentClose => UNCHANGED <<sessionVars, childLog>>
  BY DEF StopCall, StopReturn, ParentClose
<1>13. UNCHANGED vars => UNCHANGED <<sessionVars, childLog>>
  BY DEF vars
<1>14. QED
  BY <1>3, <1>5, <1>9, <1>10, <1>11, <1>12, <1>13, NextCases

\* So what was said stays said.
LEMMA SaidStaysSaid ==
  ASSUME TypeOK, ChildInv, [Next]_vars
  PROVE  /\ \A kind, m, n : Published(kind, m, n) => Published(kind, m, n)'
         /\ \A s \in Send : Announced(s) => Announced(s)'
  BY MarkersGrow, ChildGrows DEF Published, Announced, MarkerAt
----------------------------------------------------------------------------
(* Types *)

\* What TypeOK says of the parent and of the attempts; L is the length of the
\* child's stream.
ControlOK(L) ==
  /\ call \in [Send -> {"idle", "waiting", "running"} \cup Ended]
  /\ ticket \in [Send -> Nat] /\ nextTicket \in Nat /\ serving \in 0..nextTicket
  /\ offset \in 0..L
  /\ registered \in BOOLEAN /\ closed \in BOOLEAN
  /\ stop \in {"idle", "unknown", "signalling", "signalled", "failed", "done"}
  /\ attempt \in [Send -> {"none", "started", "sent", "reading", "finished"}]
  /\ memo \in [Send -> 0..L \cup {NoMemo}]
  /\ position \in [Send -> 0..L]
  /\ verdict \in [Send -> Verdict \cup {"none"}]
  /\ crashes \in 0..MaxCrashes

controlVars == <<call, ticket, nextTicket, serving, offset, registered, stop, closed, activityVars>>

LEMMA ControlStep ==
  ASSUME NEW L \in Nat, L = Len(childLog), ControlOK(L), GateInv, ActivityInv, [Next]_vars
  PROVE  ControlOK(L)'
<1> USE Constants DEF ControlOK, activityVars, parentVars
<1>1. CASE UNCHANGED controlVars
  BY <1>1 DEF controlVars
<1>2. ASSUME NEW s \in Send, RefuseUnknown(s) \/ LeaveGate(s) PROVE ControlOK(L)'
  BY <1>2 DEF RefuseUnknown, LeaveGate, Ended
<1>3. ASSUME NEW s \in Send, TakeTicket(s) PROVE ControlOK(L)'
  BY <1>3 DEF TakeTicket
<1>4. ASSUME NEW s \in Send, PassGate(s) PROVE ControlOK(L)'
  BY <1>4 DEF PassGate
<1>5. ASSUME NEW s \in Send, call[s] = "running" \/ LoseTurn(s) PROVE serving + 1 \in 0 .. nextTicket
  <2>1. HasTicket(s) /\ ticket[s] = serving
    BY <1>5 DEF GateInv, HasTicket, LoseTurn, IsServing
  <2>2. serving < nextTicket
    BY <2>1 DEF GateInv
  <2>3. QED
    BY <2>2
<1>6. ASSUME NEW s \in Send, LoseTurn(s) \/ Cancel(s) PROVE ControlOK(L)'
  BY <1>5, <1>6 DEF LoseTurn, Cancel, Ended
<1>7. ASSUME NEW s \in Send, ActivityOver(s)
      PROVE  /\ attempt' \in [Send -> {"none", "started", "sent", "reading", "finished"}]
             /\ memo' \in [Send -> 0..L \cup {NoMemo}]
             /\ position' \in [Send -> 0..L]
             /\ verdict' \in [Send -> Verdict \cup {"none"}]
  BY <1>7 DEF ActivityOver
<1>8. ASSUME NEW s \in Send, Settle(s) PROVE ControlOK(L)'
  <2>1. verdict[s] \in Verdict
    BY <1>8 DEF Settle, ActivityInv, ActivityOK
  <2>2. call' \in [Send -> {"idle", "waiting", "running"} \cup Ended]
    BY <1>8, <2>1 DEF Settle, Ended
  <2>3. serving' \in 0 .. nextTicket'
    BY <1>5, <1>8 DEF Settle, Release
  <2>4. offset' \in 0 .. L /\ registered' \in BOOLEAN
    BY <1>8 DEF Settle
  <2>5. UNCHANGED <<ticket, nextTicket, stop, closed, crashes>> /\ ActivityOver(s)
    BY <1>8 DEF Settle
  <2>6. QED
    BY <1>7, <2>2, <2>3, <2>4, <2>5
<1>9. ASSUME NEW s \in Send, Quit(s) PROVE ControlOK(L)'
  BY <1>7, <1>9 DEF Quit
<1>10. ASSUME NEW s \in Send, Submit(s) \/ Resume(s) \/ Heartbeat(s) \/ Announce(s)
       PROVE  ControlOK(L)'
  <2>1. CASE Submit(s)
    BY <2>1 DEF Submit
  <2>2. CASE Resume(s)
    BY <2>2 DEF Resume
  <2>3. CASE Heartbeat(s)
    BY <2>3 DEF Heartbeat
  <2>4. CASE Announce(s)
    BY <2>4 DEF Announce
  <2>5. QED
    BY <1>10, <2>1, <2>2, <2>3, <2>4
<1>11. ASSUME NEW s \in Send, BeRefused(s) \/ StreamEnds(s) PROVE ControlOK(L)'
  BY <1>11 DEF BeRefused, StreamEnds, Verdict
<1>12. ASSUME NEW s \in Send, Read(s) PROVE ControlOK(L)'
  <2>1. position[s] + 1 \in 0 .. L /\ position' \in [Send -> 0 .. L]
    BY <1>12 DEF Read
  <2>2. /\ verdict' \in [Send -> Verdict \cup {"none"}]
        /\ attempt' \in [Send -> {"none", "started", "sent", "reading", "finished"}]
    BY <1>12 DEF Read, Verdict
  <2>3. QED
    BY <1>12, <2>1, <2>2 DEF Read
<1>13. ASSUME NEW s \in Send, Crash(s) PROVE ControlOK(L)'
  BY <1>13 DEF Crash
<1>14. CASE StopCall \/ StopSignal \/ StopReturn \/ ParentClose
  BY <1>14 DEF StopCall, StopSignal, StopReturn, ParentClose
<1>15. ChildStep => UNCHANGED controlVars
  BY QuietKeepsMarkers DEF controlVars
<1>16. QED
  BY <1>1, <1>2, <1>3, <1>4, <1>6, <1>8, <1>9, <1>10, <1>11, <1>12, <1>13, <1>14, <1>15,
     NextCases DEF Quiet, vars, controlVars

LEMMA NextType ==
  ASSUME TypeOK, ChildInv, GateInv, ActivityInv, [Next]_vars
  PROVE  TypeOK'
<1>1. /\ Len(childLog) \in Nat /\ childLog' \in Seq(ChildEvent) /\ Len(childLog) <= Len(childLog')
      /\ ChildVarsOK' /\ markers' \in Seq(ParentEvent)
  BY ChildGrows, MarkersGrow, LenProperties DEF TypeOK
<1>2. Len(childLog') \in Nat
  BY <1>1, LenProperties
<1>3. PICK L \in Nat : L = Len(childLog)
  BY <1>1
<1>4. ControlOK(L)'
  BY <1>3, ControlStep DEF TypeOK, ControlOK
<1>5. PICK M \in Nat : M = Len(childLog')
  BY <1>2
<1>6. ControlOK(M)'
  BY <1>1, <1>3, <1>4, <1>5 DEF ControlOK
<1>7. QED
  BY <1>1, <1>5, <1>6 DEF TypeOK, ControlOK, ChildVarsOK

----------------------------------------------------------------------------
(* The gate *)

LEMMA NextGate ==
  ASSUME TypeOK, GateInv, ActivityInv, [Next]_vars
  PROVE  GateInv'
<1> USE DEF GateInv, HasTicket, TypeOK, Verdict, parentVars
<1>1. CASE UNCHANGED <<call, ticket, nextTicket, serving>>
  BY <1>1
<1>2. ASSUME NEW s \in Send, RefuseUnknown(s) \/ LeaveGate(s) \/ PassGate(s) PROVE GateInv'
  <2>1. CASE RefuseUnknown(s)
    BY <2>1 DEF RefuseUnknown
  <2>2. CASE LeaveGate(s)
    BY <2>2 DEF LeaveGate
  <2>3. CASE PassGate(s)
    BY <2>3 DEF PassGate, IsServing
  <2>4. QED
    BY <1>2, <2>1, <2>2, <2>3
<1>3. ASSUME NEW s \in Send, TakeTicket(s) PROVE GateInv'
  BY <1>3 DEF TakeTicket
<1>4. ASSUME NEW s \in Send, Cancel(s) PROVE GateInv'
  <2>1. /\ UNCHANGED <<ticket, nextTicket>> /\ call' = [call EXCEPT ![s] = "cancelled"]
        /\ serving' \in {serving, serving + 1} /\ serving <= serving'
        /\ serving' # serving => call[s] = "running"
        /\ call[s] \in {"waiting", "running"}
    BY <1>4 DEF Cancel
  <2>2. \A t \in Send : t # s => call'[t] = call[t]
    BY <2>1
  <2>3. call'[s] = "cancelled"
    BY <2>1
  <2>4. \A t \in Send : call'[t] = "running" => ticket[t] = serving'
    <3> SUFFICES ASSUME NEW t \in Send, call'[t] = "running" PROVE ticket[t] = serving'
      OBVIOUS
    <3>1. t # s /\ call[t] = "running" /\ ticket[t] = serving
      BY <2>2, <2>3
    <3>2. call[s] # "running"
      <4>1. ASSUME call[s] = "running" PROVE FALSE
        <5>1. ticket[s] = serving
          BY <4>1
        <5>2. QED
          BY <3>1, <4>1, <5>1
      <4>2. QED
        BY <4>1
    <3>3. QED
      BY <2>1, <3>1, <3>2
  <2>5. \A t \in Send : call'[t] \in Verdict => ticket[t] < serving'
    <3> SUFFICES ASSUME NEW t \in Send, call'[t] \in Verdict PROVE ticket[t] < serving'
      OBVIOUS
    <3>1. t # s /\ ticket[t] < serving
      BY <2>2, <2>3
    <3>2. QED
      BY <2>1, <3>1
  <2>6. \A t \in Send : HasTicket(t)' <=> HasTicket(t)
    BY <2>1, <2>2, <2>3
  <2>7. QED
    BY <2>1, <2>4, <2>5, <2>6
<1>5. ASSUME NEW s \in Send, Settle(s) PROVE GateInv'
  <2>1. verdict[s] \in Verdict
    BY <1>5 DEF Settle, ActivityInv, ActivityOK
  <2>2. /\ UNCHANGED <<ticket, nextTicket>> /\ call[s] = "running" /\ serving' = serving + 1
        /\ call' = [call EXCEPT ![s] = verdict[s]]
    BY <1>5 DEF Settle, Release
  <2>3. \A t \in Send : t # s => call'[t] = call[t]
    BY <2>2
  <2>4. call'[s] = verdict[s] /\ ticket[s] = serving
    BY <2>2
  <2>5. \A t \in Send : call'[t] = "running" => ticket[t] = serving'
    BY <2>1, <2>2, <2>3, <2>4
  <2>6. \A t \in Send : call'[t] \in Verdict => ticket[t] < serving'
    <3> SUFFICES ASSUME NEW t \in Send, call'[t] \in Verdict PROVE ticket[t] < serving'
      OBVIOUS
    <3>1. CASE t = s
      BY <2>2, <2>4, <3>1
    <3>2. CASE t # s
      BY <2>2, <2>3, <3>2
    <3>3. QED
      BY <3>1, <3>2
  <2>7. \A t \in Send : HasTicket(t)' <=> HasTicket(t)
    BY <2>1, <2>2, <2>3, <2>4
  <2>8. QED
    BY <2>2, <2>5, <2>6, <2>7
<1>6. ASSUME NEW s \in Send, LoseTurn(s) PROVE GateInv'
  <2>1. /\ UNCHANGED <<ticket, nextTicket>> /\ call' = [call EXCEPT ![s] = "noTurn"]
        /\ serving' = serving + 1 /\ call[s] = "waiting" /\ ticket[s] = serving
    BY <1>6 DEF LoseTurn, IsServing
  <2>2. \A t \in Send : t # s => call'[t] = call[t]
    BY <2>1
  <2>3. call'[s] = "noTurn"
    BY <2>1
  <2>4. \A t \in Send : call'[t] # "running"
    <3>1. ASSUME NEW t \in Send, t # s PROVE call[t] # "running"
      BY <2>1, <3>1
    <3>2. QED
      BY <2>2, <2>3, <3>1
  <2>5. \A t \in Send : call'[t] \in Verdict => ticket[t] < serving'
    <3> SUFFICES ASSUME NEW t \in Send, call'[t] \in Verdict PROVE ticket[t] < serving'
      OBVIOUS
    <3>1. t # s /\ ticket[t] < serving
      BY <2>2, <2>3
    <3>2. QED
      BY <2>1, <3>1
  <2>6. \A t \in Send : HasTicket(t)' <=> HasTicket(t)
    BY <2>1, <2>2, <2>3
  <2>7. QED
    BY <2>1, <2>4, <2>5, <2>6
<1>7. ASSUME NEW s \in Send,
             Quiet(s) \/ Announce(s),
             ~(RefuseUnknown(s) \/ LeaveGate(s) \/ PassGate(s) \/ TakeTicket(s) \/ LoseTurn(s) \/ Cancel(s))
      PROVE  UNCHANGED <<call, ticket, nextTicket, serving>>
  BY <1>7 DEF Quiet, Submit, BeRefused, Resume, Read, StreamEnds, Heartbeat, Crash, Quit, Announce
<1>8. StopCall \/ StopSignal \/ StopReturn \/ ParentClose =>
        UNCHANGED <<call, ticket, nextTicket, serving>>
  BY DEF StopCall, StopSignal, StopReturn, ParentClose
<1>9. QED
  BY <1>1, <1>2, <1>3, <1>4, <1>5, <1>6, <1>7, <1>8, NextCases, QuietKeepsMarkers DEF vars
----------------------------------------------------------------------------
(* The activity *)

\* A send another step is about: nothing of its own changes but what was said of it.
Untouched(t) ==
  /\ call'[t] = call[t] /\ attempt'[t] = attempt[t] /\ memo'[t] = memo[t]
  /\ verdict'[t] = verdict[t] /\ slot'[t] = slot[t]

\* A step of one send leaves the others alone, and any other step all of them.
LEMMA OthersUntouched ==
  ASSUME TypeOK, ChildInv, [Next]_vars, NEW t \in Send,
         ~(Quiet(t) \/ Announce(t) \/ Settle(t))
  PROVE  Untouched(t)
<1> USE DEF Untouched, TypeOK, parentVars, activityVars
<1>1. slot'[t] = slot[t]
  BY ChildGrows DEF Quiet
<1>2. CASE UNCHANGED <<call, attempt, memo, verdict>>
  BY <1>1, <1>2
<1>3. ASSUME NEW s \in Send, Quiet(s) \/ Announce(s) \/ Settle(s), s # t
      PROVE  /\ call'[t] = call[t] /\ attempt'[t] = attempt[t] /\ memo'[t] = memo[t]
             /\ verdict'[t] = verdict[t]
  <2>1. CASE RefuseUnknown(s) \/ TakeTicket(s) \/ PassGate(s) \/ LeaveGate(s) \/ LoseTurn(s) \/ Cancel(s)
    BY <1>3, <2>1 DEF RefuseUnknown, TakeTicket, PassGate, LeaveGate, LoseTurn, Cancel
  <2>2. CASE Settle(s) \/ Quit(s)
    BY <1>3, <2>2 DEF Settle, Quit, ActivityOver
  <2>3. CASE Submit(s) \/ BeRefused(s) \/ Resume(s) \/ Announce(s) \/ Heartbeat(s) \/ Crash(s)
    BY <1>3, <2>3 DEF Submit, BeRefused, Resume, Announce, Heartbeat, Crash
  <2>4. CASE Read(s) \/ StreamEnds(s)
    BY <1>3, <2>4 DEF Read, StreamEnds
  <2>5. QED
    BY <1>3, <2>1, <2>2, <2>3, <2>4 DEF Quiet
<1>4. StopCall \/ StopSignal \/ StopReturn \/ ParentClose => UNCHANGED <<call, attempt, memo, verdict>>
  BY DEF StopCall, StopSignal, StopReturn, ParentClose
<1>5. UNCHANGED vars \/ ChildStep => UNCHANGED <<call, attempt, memo, verdict>>
  BY QuietKeepsMarkers DEF vars
<1>6. QED
  BY <1>1, <1>2, <1>3, <1>4, <1>5, NextCases

LEMMA NextActivity ==
  ASSUME TypeOK, ChildInv, ActivityInv, MarkersInv, [Next]_vars
  PROVE  ActivityInv'
<1> SUFFICES ASSUME NEW s \in Send PROVE ActivityOK(s)'
  BY DEF ActivityInv
<1>1. ActivityOK(s) /\ (Announced(s) => Announced(s)') /\ (Announced(s) => slot[s] # 0)
  BY SaidStaysSaid DEF ActivityInv, MarkersInv, MarkersOK, Announced
<1>2. ~Submit(s) => slot'[s] = slot[s]
  BY ChildGrows
<1> USE DEF ActivityOK, TypeOK, parentVars, activityVars
<1>3. CASE ~(Quiet(s) \/ Announce(s) \/ Settle(s))
  BY <1>1, <1>3, OthersUntouched DEF Untouched
<1>4. CASE RefuseUnknown(s) \/ TakeTicket(s) \/ LeaveGate(s) \/ LoseTurn(s) \/ Cancel(s)
  BY <1>1, <1>2, <1>4 DEF RefuseUnknown, TakeTicket, LeaveGate, LoseTurn, Cancel, sessionVars
<1>5. CASE PassGate(s)
  BY <1>1, <1>5 DEF PassGate, sessionVars
<1>6. CASE Settle(s) \/ Quit(s)
  BY <1>1, <1>6, Constants DEF Settle, Quit, ActivityOver, Accepted, sessionVars
<1>7. CASE Submit(s)
  <2>1. slot'[s] # 0
    <3>1. ChildVarsOK
      BY DEF ChildVarsOK, ChildInv
    <3>2. QED
      BY <1>7, <3>1, AdmitStep DEF Submit, sessionVars
  <2>2. QED
    BY <1>1, <1>7, <2>1 DEF Submit
<1>8. CASE BeRefused(s)
  BY <1>1, <1>8 DEF BeRefused, Accepted, sessionVars
<1>9. CASE Announce(s)
  <2>1. Announced(s)'
    <3>1. PICK n \in Nat : n \in DOMAIN markers' /\ markers'[n] = Marker("message_sent", s)
      BY <1>9, MarkersTyped, OneMore DEF Announce
    <3>2. MarkerAt(n, "message_sent", s)'
      BY <3>1 DEF MarkerAt, Marker
    <3>3. QED
      BY <3>1, <3>2 DEF Announced
  <2>2. QED
    BY <1>1, <1>9, <2>1 DEF Announce, sessionVars
<1>10. CASE Resume(s) \/ Heartbeat(s)
  BY <1>1, <1>10 DEF Resume, Heartbeat, sessionVars
<1>11. CASE Read(s) \/ StreamEnds(s)
  BY <1>1, <1>11 DEF Read, StreamEnds, Accepted, sessionVars
<1>12. CASE Crash(s)
  BY <1>1, <1>12 DEF Crash, Accepted, sessionVars
<1>13. QED
  BY <1>3, <1>4, <1>5, <1>6, <1>7, <1>8, <1>9, <1>10, <1>11, <1>12 DEF Quiet

LEMMA NextSlot ==
  ASSUME TypeOK, ChildInv, ActivityInv, SlotInv, [Next]_vars
  PROVE  SlotInv'
<1> SUFFICES ASSUME NEW s \in Send,
                    call'[s] \in {"idle", "waiting", "unknown", "parentClosed", "noTurn", "rejected", "agentClosed"}
             PROVE  slot'[s] = 0
  BY DEF SlotInv
<1>1. ActivityOK(s) /\ (call[s] \in {"idle", "waiting", "unknown", "parentClosed", "noTurn", "rejected", "agentClosed"}
                          => slot[s] = 0)
  BY DEF ActivityInv, SlotInv
<1>2. ~Submit(s) => slot'[s] = slot[s]
  BY ChildGrows
<1> USE DEF TypeOK
<1>3. CASE Submit(s)
  BY <1>1, <1>3 DEF Submit, ActivityOK, parentVars
<1>4. CASE Settle(s)
  BY <1>1, <1>4 DEF Settle, ActivityOK, Verdict, sessionVars
<1>5. CASE RefuseUnknown(s) \/ TakeTicket(s) \/ PassGate(s) \/ LeaveGate(s) \/ LoseTurn(s) \/ Cancel(s)
  BY <1>1, <1>5 DEF RefuseUnknown, TakeTicket, PassGate, LeaveGate, LoseTurn, Cancel, sessionVars
<1>6. CASE \/ BeRefused(s) \/ Resume(s) \/ Read(s) \/ StreamEnds(s) \/ Announce(s)
           \/ Heartbeat(s) \/ Crash(s) \/ Quit(s)
  <2>1. call' = call /\ slot' = slot
    BY <1>6 DEF BeRefused, Resume, Read, StreamEnds, Announce, Heartbeat, Crash, Quit,
                parentVars, sessionVars
  <2>2. QED
    BY <1>1, <2>1
<1>7. CASE ~(Quiet(s) \/ Announce(s) \/ Settle(s))
  BY <1>1, <1>7, OthersUntouched DEF Untouched
<1>8. QED
  BY <1>3, <1>4, <1>5, <1>6, <1>7 DEF Quiet
----------------------------------------------------------------------------
(* What was found, and what the parent is told *)

\* What was read was published.
LEMMA ReadIsPublished ==
  ASSUME TypeOK, NEW k \in DOMAIN childLog
  PROVE  Published(childLog[k].kind, childLog[k].send, childLog[k].turn)
<1>1. childLog[k] \in ChildEvent
  BY LenProperties, ElementOfSeq DEF TypeOK
<1>2. childLog[k] = [kind |-> childLog[k].kind, send |-> childLog[k].send, turn |-> childLog[k].turn]
  BY <1>1 DEF ChildEvent
<1>3. QED
  BY <1>2 DEF Published

LEMMA NextEvidence ==
  ASSUME TypeOK, ChildInv, ActivityInv, EvidenceInv, [Next]_vars
  PROVE  EvidenceInv'
<1> SUFFICES ASSUME NEW s \in Send PROVE EvidenceOK(s)'
  BY DEF EvidenceInv
<1>1. EvidenceOK(s) /\ \A kind, m, n : Published(kind, m, n) => Published(kind, m, n)'
  BY SaidStaysSaid DEF EvidenceInv
<1>2. (stopped => stopped') /\ (~Submit(s) => slot'[s] = slot[s])
  BY ChildGrows
<1>3. slot'[s] = slot[s] => (TurnOver(s) => TurnOver(s)')
  BY <1>1, <1>2 DEF TurnOver
<1>4. ASSUME slot'[s] = slot[s], verdict'[s] = verdict[s], attempt'[s] = "finished" => attempt[s] = "finished"
      PROVE  EvidenceOK(s)'
  BY <1>1, <1>3, <1>4 DEF EvidenceOK
<1>5. ASSUME verdict'[s] \in {"none", "rejected", "agentClosed"} PROVE EvidenceOK(s)'
  BY <1>5 DEF EvidenceOK
<1> USE DEF TypeOK, parentVars, activityVars
<1>6. CASE ~(Quiet(s) \/ Announce(s) \/ Settle(s))
  BY <1>4, <1>6, OthersUntouched DEF Untouched
<1>7. CASE \/ RefuseUnknown(s) \/ TakeTicket(s) \/ PassGate(s) \/ LeaveGate(s) \/ LoseTurn(s) \/ Cancel(s)
           \/ Announce(s) \/ Resume(s) \/ Heartbeat(s)
  BY <1>2, <1>4, <1>7 DEF RefuseUnknown, TakeTicket, PassGate, LeaveGate, LoseTurn, Cancel,
                          Announce, Resume, Heartbeat, sessionVars
<1>8. CASE Settle(s) \/ Quit(s) \/ Crash(s) \/ BeRefused(s)
  BY <1>5, <1>8 DEF Settle, Quit, ActivityOver, Crash, BeRefused
<1>9. CASE Submit(s)
  BY <1>5, <1>9 DEF Submit, ActivityInv, ActivityOK
<1>10. CASE Read(s)
  <2> DEFINE k == position[s] + 1
             event == childLog[k]
  <2>1. k \in DOMAIN childLog /\ Len(childLog) \in Nat
    BY <1>10, LenProperties DEF Read
  <2>2. Published(event.kind, event.send, event.turn) /\ (event.kind = "turn_end" => event.send = "any")
    BY <2>1, ReadIsPublished DEF ChildInv
  <2>3. attempt[s] = "reading" /\ verdict[s] \in {"none", "ok"} /\ slot'[s] = slot[s]
    BY <1>10 DEF Read, ActivityInv, ActivityOK, sessionVars
  <2>4. \/ verdict'[s] = verdict[s] /\ attempt'[s] = attempt[s]
        \/ /\ verdict'[s] = "ok" /\ attempt'[s] = attempt[s]
           /\ event.kind = "message_handler_end" /\ event.send = s /\ event.turn = slot[s]
        \/ /\ verdict'[s] = "turnError"
           /\ event.kind = "message_handler_error" /\ event.send = s /\ event.turn = slot[s]
        \/ /\ verdict'[s] = IF verdict[s] = "ok" THEN "ok" ELSE "noReply"
           /\ event.kind = "turn_end" /\ event.turn = slot[s]
    BY <1>10 DEF Read, IsOurs
  <2> HIDE DEF event
  <2>5. QED
    BY <1>1, <1>3, <2>2, <2>3, <2>4 DEF EvidenceOK, TurnOver
<1>11. CASE StreamEnds(s)
  BY <1>1, <1>2, <1>11 DEF StreamEnds, EvidenceOK, TurnOver, sessionVars
<1>12. QED
  BY <1>6, <1>7, <1>8, <1>9, <1>10, <1>11 DEF Quiet
LEMMA NextOutcome ==
  ASSUME TypeOK, ChildInv, ActivityInv, SlotInv, EvidenceInv, OutcomeIsTrue, [Next]_vars
  PROVE  OutcomeIsTrue'
<1> DEFINE Told(s) ==
      /\ call[s] = "ok" => Published("message_handler_end", s, slot[s]) /\ TurnOver(s)
      /\ call[s] = "turnError" => Published("message_handler_error", s, slot[s])
      /\ call[s] = "noReply" => TurnOver(s)
      /\ call[s] \in {"rejected", "agentClosed", "unknown", "parentClosed", "noTurn"} => slot[s] = 0
<1>1. OutcomeIsTrue <=> \A s \in Send : Told(s)
  BY DEF OutcomeIsTrue, TurnOver
<1>2. OutcomeIsTrue' <=> \A s \in Send : Told(s)'
  BY DEF OutcomeIsTrue, TurnOver
<1> SUFFICES ASSUME NEW s \in Send PROVE Told(s)'
  BY <1>2
<1>3. Told(s) /\ SlotInv'
  BY <1>1, NextSlot
<1>4. /\ \A kind, m, n : Published(kind, m, n) => Published(kind, m, n)'
      /\ (stopped => stopped') /\ (~Submit(s) => slot'[s] = slot[s])
  BY SaidStaysSaid, ChildGrows
<1>5. slot'[s] = slot[s] => (TurnOver(s) => TurnOver(s)')
  BY <1>4 DEF TurnOver
<1>6. call'[s] = call[s] /\ slot'[s] = slot[s] => Told(s)'
  BY <1>3, <1>4, <1>5
<1>7. call'[s] \notin {"ok", "turnError", "noReply"} => Told(s)'
  BY <1>3 DEF SlotInv
<1> HIDE DEF Told
<1> USE DEF TypeOK, parentVars, activityVars
<1>8. CASE ~(Quiet(s) \/ Announce(s) \/ Settle(s))
  BY <1>6, <1>8, OthersUntouched DEF Untouched
<1>9. CASE RefuseUnknown(s) \/ TakeTicket(s) \/ PassGate(s) \/ LeaveGate(s) \/ LoseTurn(s) \/ Cancel(s)
  BY <1>7, <1>9 DEF RefuseUnknown, TakeTicket, PassGate, LeaveGate, LoseTurn, Cancel
<1>10. CASE Submit(s)
  BY <1>7, <1>10 DEF Submit, ActivityInv, ActivityOK
<1>11. CASE \/ BeRefused(s) \/ Resume(s) \/ Read(s) \/ StreamEnds(s) \/ Announce(s)
            \/ Heartbeat(s) \/ Crash(s) \/ Quit(s)
  BY <1>4, <1>6, <1>11 DEF BeRefused, Resume, Read, StreamEnds, Announce, Heartbeat, Crash, Quit,
                           sessionVars
<1>12. CASE Settle(s)
  <2>1. call'[s] = verdict[s] /\ attempt[s] = "finished" /\ slot'[s] = slot[s] /\ EvidenceOK(s)
    BY <1>4, <1>12 DEF Settle, EvidenceInv, sessionVars
  <2>2. QED
    BY <1>3, <1>4, <1>5, <2>1 DEF Told, EvidenceOK, SlotInv
<1>13. QED
  BY <1>8, <1>9, <1>10, <1>11, <1>12 DEF Quiet

\* The registry changes only with a marker that says so, and a stop ends once.
LEMMA RegistryStep ==
  ASSUME TypeOK, ChildInv, [Next]_vars
  PROVE  \/ /\ registered' = registered /\ (stop = "done" <=> stop' = "done")
            /\ (markers' = markers \/ \E e \in ParentEvent : e.kind # "subagent_stopped"
                                                            /\ markers' = Append(markers, e))
         \/ /\ ~registered' /\ markers' = Append(markers, Stopped)
            /\ \/ registered /\ stop' = stop
               \/ stop # "done" /\ stop' = "done"
<1> USE DEF parentVars, activityVars
<1>1. CASE UNCHANGED <<registered, stop, markers>>
  BY <1>1
<1>2. ASSUME NEW s \in Send, Quiet(s) PROVE UNCHANGED <<registered, stop, markers>>
  BY <1>2 DEF Quiet, RefuseUnknown, TakeTicket, PassGate, LeaveGate, LoseTurn, Cancel, Submit, BeRefused,
              Resume, Read, StreamEnds, Heartbeat, Crash, Quit
<1>3. ASSUME NEW s \in Send, Announce(s)
      PROVE  /\ UNCHANGED <<registered, stop>>
             /\ \E e \in ParentEvent : e.kind # "subagent_stopped" /\ markers' = Append(markers, e)
  <2>1. Marker("message_sent", s).kind # "subagent_stopped"
    BY DEF Marker
  <2>2. QED
    BY <1>3, <2>1, MarkersTyped DEF Announce
<1>4. ASSUME NEW s \in Send, Settle(s)
      PROVE  /\ stop' = stop
             /\ \/ /\ registered' = registered
                   /\ (markers' = markers \/ \E e \in ParentEvent : e.kind # "subagent_stopped"
                                                                   /\ markers' = Append(markers, e))
                \/ registered /\ ~registered' /\ markers' = Append(markers, Stopped)
  <2>1. Marker("reply_received", s).kind # "subagent_stopped"
    BY DEF Marker
  <2>2. stop' = stop /\ registered' = (registered /\ verdict[s] # "agentClosed")
    BY <1>4 DEF Settle
  <2>3. verdict[s] \in Accepted => verdict[s] # "agentClosed"
    BY DEF Accepted
  <2>4. registered \in BOOLEAN
    BY DEF TypeOK
  <2>5. QED
    BY <1>4, <2>1, <2>2, <2>3, <2>4, SettlePublishes, MarkersTyped
<1>5. CASE StopCall \/ StopSignal \/ ParentClose
  BY <1>5 DEF StopCall, StopSignal, ParentClose
<1>6. CASE StopReturn
  BY <1>6 DEF StopReturn
<1>7. UNCHANGED vars \/ ChildStep => UNCHANGED <<registered, stop, markers>>
  BY QuietKeepsMarkers DEF vars
<1>8. QED
  BY <1>1, <1>2, <1>3, <1>4, <1>5, <1>6, <1>7, NextCases

LEMMA NextStopped ==
  ASSUME TypeOK, ChildInv, StoppedRules, [Next]_vars
  PROVE  StoppedRules'
<1> DEFINE said == {i \in DOMAIN markers : markers[i].kind = "subagent_stopped"}
<1>1. markers \in Seq(ParentEvent) /\ IsFiniteSet(DOMAIN markers)
  BY LenProperties, FS_Interval DEF TypeOK
<1>2. IsFiniteSet(said)
  BY <1>1, FS_Subset
<1>3. /\ registered <=> said = {}
      /\ Cardinality(said) <= IF stop = "done" THEN 2 ELSE 1
  BY DEF StoppedRules
<1>4. StoppedRules' <=> /\ registered' <=> said' = {}
                        /\ Cardinality(said)' <= IF stop' = "done" THEN 2 ELSE 1
  BY DEF StoppedRules
<1>5. ASSUME NEW e \in ParentEvent, markers' = Append(markers, e)
      PROVE  IF e.kind = "subagent_stopped"
             THEN \E n \in Nat : n \notin said /\ said' = said \cup {n}
             ELSE said' = said
  <2>1. PICK n \in Nat : /\ DOMAIN markers' = DOMAIN markers \cup {n} /\ n \notin DOMAIN markers
                         /\ markers'[n] = e /\ \A i \in DOMAIN markers : markers'[i] = markers[i]
    BY <1>1, <1>5, OneMore
  <2>2. QED
    BY <2>1
<1>6. CASE /\ registered' = registered /\ (stop = "done" <=> stop' = "done")
           /\ (markers' = markers \/ \E e \in ParentEvent : e.kind # "subagent_stopped"
                                                           /\ markers' = Append(markers, e))
  <2>1. said' = said
    BY <1>5, <1>6
  <2>2. QED
    BY <1>3, <1>4, <1>6, <2>1
<1>7. CASE /\ ~registered' /\ markers' = Append(markers, Stopped)
           /\ \/ registered /\ stop' = stop
              \/ stop # "done" /\ stop' = "done"
  <2>1. PICK n \in Nat : n \notin said /\ said' = said \cup {n}
    <3>1. Stopped.kind = "subagent_stopped" /\ Stopped \in ParentEvent
      BY DEF Stopped, NoTurn, ParentEvent
    <3>2. QED
      BY <1>5, <1>7, <3>1
  <2>2. Cardinality(said') = Cardinality(said) + 1 /\ Cardinality(said) \in Nat
    BY <1>2, <2>1, FS_AddElement, FS_CardinalityType
  <2>3. registered => Cardinality(said) = 0
    BY <1>2, <1>3, FS_EmptySet
  <2>4. Cardinality(said') <= IF stop' = "done" THEN 2 ELSE 1
    <3>1. PICK n0 \in Nat : n0 = Cardinality(said)
      BY <2>2
    <3>2. CASE registered
      BY <2>2, <2>3, <3>2
    <3>3. CASE stop # "done" /\ stop' = "done"
      <4>1. n0 <= 1
        BY <1>3, <3>1, <3>3
      <4>2. Cardinality(said') = n0 + 1
        BY <2>2, <3>1
      <4>3. QED
        BY <3>3, <4>1, <4>2
    <3>4. QED
      BY <1>7, <3>2, <3>3
  <2>5. QED
    BY <1>4, <1>7, <2>1, <2>4
<1>8. QED
  BY <1>6, <1>7, RegistryStep
----------------------------------------------------------------------------
(* The brackets on the parent's stream *)

\* A send that has ended stays ended, as it did; who has a ticket keeps it.
LEMMA CallStep ==
  ASSUME TypeOK, ChildInv, ActivityInv, [Next]_vars, NEW s \in Send
  PROVE  /\ call[s] \in Accepted \cup {"cancelled"} => call'[s] = call[s]
         /\ call'[s] \in Accepted =>
              call'[s] = call[s] \/ (Settle(s) /\ verdict[s] \in Accepted)
         /\ call[s] # "idle" => ticket'[s] = ticket[s]
<1> USE DEF TypeOK, parentVars, activityVars, Accepted
<1>1. CASE RefuseUnknown(s) \/ TakeTicket(s) \/ PassGate(s) \/ LeaveGate(s) \/ LoseTurn(s) \/ Cancel(s)
  BY <1>1 DEF RefuseUnknown, TakeTicket, PassGate, LeaveGate, LoseTurn, Cancel
<1>2. CASE \/ Submit(s) \/ BeRefused(s) \/ Resume(s) \/ Read(s) \/ StreamEnds(s) \/ Announce(s)
           \/ Heartbeat(s) \/ Crash(s) \/ Quit(s)
  BY <1>2 DEF Submit, BeRefused, Resume, Read, StreamEnds, Announce, Heartbeat, Crash, Quit
<1>3. CASE Settle(s)
  BY <1>3 DEF Settle
<1>4. CASE ~(Quiet(s) \/ Announce(s) \/ Settle(s))
  <2>1. call'[s] = call[s]
    BY <1>4, OthersUntouched DEF Untouched
  <2>2. CASE UNCHANGED ticket
    BY <2>1, <2>2
  <2>3. ASSUME NEW t \in Send, t # s, Quiet(t) \/ Announce(t) \/ Settle(t)
        PROVE  ticket'[s] = ticket[s]
    BY <2>3 DEF Quiet, RefuseUnknown, TakeTicket, PassGate, LeaveGate, LoseTurn, Cancel, Submit, BeRefused,
                Resume, Read, StreamEnds, Announce, Heartbeat, Crash, Quit, Settle
  <2>4. StopCall \/ StopSignal \/ StopReturn \/ ParentClose \/ ChildStep \/ UNCHANGED vars
          => UNCHANGED ticket
    BY QuietKeepsMarkers DEF StopCall, StopSignal, StopReturn, ParentClose, vars
  <2>5. QED
    BY <1>4, <2>1, <2>2, <2>3, <2>4, NextCases
<1>5. QED
  BY <1>1, <1>2, <1>3, <1>4 DEF Quiet

\* The marker of an event says which send added it.
LEMMA AddsSays ==
  ASSUME TypeOK, ActivityInv, NEW e \in ParentEvent, Adds(e), NEW s \in Send, e.send = s
  PROVE  /\ e.kind = "message_sent" =>
              Announce(s) /\ e.turn = slot[s] /\ slot[s] # 0 /\ call[s] \in {"running", "cancelled"}
         /\ e.kind = "reply_received" =>
              /\ Settle(s) /\ verdict[s] \in Accepted /\ e.turn = slot[s]
              /\ call[s] = "running" /\ Announced(s)
<1>1. \A t \in Send : /\ Marker("message_sent", t) = [kind |-> "message_sent", send |-> t, turn |-> slot[t]]
                      /\ Marker("reply_received", t) = [kind |-> "reply_received", send |-> t, turn |-> slot[t]]
      /\ Stopped.kind = "subagent_stopped"
  BY DEF Marker, Stopped
<1>2. e.kind = "message_sent" => Announce(s) /\ e.turn = slot[s]
  BY <1>1 DEF Adds
<1>3. e.kind = "reply_received" => Settle(s) /\ verdict[s] \in Accepted /\ e.turn = slot[s]
  BY <1>1 DEF Adds
<1>4. Announce(s) => slot[s] # 0 /\ call[s] \in {"running", "cancelled"}
  BY DEF Announce, ActivityInv, ActivityOK
<1>5. Settle(s) /\ verdict[s] \in Accepted => call[s] = "running" /\ Announced(s)
  BY DEF Settle, ActivityInv, ActivityOK
<1>6. QED
  BY <1>2, <1>3, <1>4, <1>5

LEMMA NextMarkers ==
  ASSUME TypeOK, ChildInv, ActivityInv, MarkersInv, [Next]_vars
  PROVE  MarkersInv'
<1> SUFFICES ASSUME NEW s \in Send PROVE MarkersOK(s)'
  BY DEF MarkersInv
<1> DEFINE SettledWell == Settle(s) /\ verdict[s] \in Accepted
<1>1. MarkersOK(s) /\ markers \in Seq(ParentEvent)
  BY DEF MarkersInv, TypeOK
<1>2. /\ call[s] \in Accepted => call'[s] = call[s]
      /\ call'[s] \in Accepted => call'[s] = call[s] \/ SettledWell
  BY CallStep
<1>3. slot[s] # 0 => slot'[s] = slot[s]
  BY ChildGrows
<1>4. CASE markers' = markers
  <2>1. ~SettledWell
    <3>1. SUFFICES ASSUME SettledWell PROVE FALSE
      OBVIOUS
    <3>2. markers' = Append(markers, Marker("reply_received", s))
      BY <3>1, SettlePublishes DEF Accepted
    <3>3. \E n \in Nat : n \in DOMAIN markers' /\ n \notin DOMAIN markers
      BY <3>2, MarkersTyped, OneMore DEF TypeOK
    <3>4. QED
      BY <1>4, <3>3
  <2>2. QED
    BY <1>1, <1>2, <1>3, <1>4, <2>1 DEF MarkersOK, MarkerAt
<1>5. ASSUME NEW e \in ParentEvent, Adds(e), markers' = Append(markers, e)
      PROVE  MarkersOK(s)'
  <2>1. PICK n \in Nat : /\ DOMAIN markers' = DOMAIN markers \cup {n} /\ n \notin DOMAIN markers
                         /\ markers'[n] = e
                         /\ \A i \in DOMAIN markers : i < n /\ markers'[i] = markers[i]
    BY <1>1, <1>5, OneMore
  <2>2. DOMAIN markers \subseteq Nat
    BY <1>1, LenProperties
  <2>3. /\ \A i \in DOMAIN markers, kind \in {"message_sent", "reply_received"} :
             MarkerAt(i, kind, s)' <=> MarkerAt(i, kind, s)
        /\ \A kind \in {"message_sent", "reply_received"} :
             MarkerAt(n, kind, s)' <=> e.kind = kind /\ e.send = s
    BY <2>1 DEF MarkerAt
  <2>4. CASE e.send # s \/ e.kind \notin {"message_sent", "reply_received"}
    <3>1. ~SettledWell
      <4>1. SUFFICES ASSUME SettledWell PROVE FALSE
        OBVIOUS
      <4>2. markers' = Append(markers, Marker("reply_received", s))
        BY <4>1, SettlePublishes DEF Accepted
      <4>3. PICK f \in ParentEvent : f = Marker("reply_received", s)
        BY MarkersTyped
      <4>4. markers'[Len(markers) + 1] = e /\ markers'[Len(markers) + 1] = f
        <5>1. markers'[Len(markers) + 1] = e
          BY <1>1, <1>5, AppendProperties
        <5>2. markers'[Len(markers) + 1] = f
          BY <1>1, <4>2, <4>3, AppendProperties
        <5>3. QED
          BY <5>1, <5>2
      <4>5. QED
        BY <2>4, <4>3, <4>4 DEF Marker
    <3>2. QED
      BY <1>1, <1>2, <1>3, <2>1, <2>3, <2>4, <3>1 DEF MarkersOK
  <2>5. CASE e.send = s /\ e.kind = "message_sent"
    <3>1. Announce(s) /\ e.turn = slot[s] /\ slot[s] # 0 /\ call[s] \in {"running", "cancelled"}
      BY <1>5, <2>5, AddsSays
    <3>2. call' = call
      BY <3>1 DEF Announce
    <3>3. call[s] \notin Accepted
      BY <3>1 DEF Accepted
    <3>4. QED
      BY <1>1, <1>3, <2>1, <2>3, <2>5, <3>1, <3>2, <3>3 DEF MarkersOK
  <2>6. CASE e.send = s /\ e.kind = "reply_received"
    <3>1. Settle(s) /\ verdict[s] \in Accepted /\ e.turn = slot[s]
      BY <1>5, <2>6, AddsSays
    <3>2. call'[s] \in Accepted
      BY <3>1 DEF Settle, TypeOK
    <3>3. \A i \in DOMAIN markers : i <= n
      BY <2>1, <2>2
    <3>4. QED
      BY <1>1, <1>3, <2>1, <2>3, <2>6, <3>1, <3>2, <3>3 DEF MarkersOK
  <2>7. QED
    BY <2>4, <2>5, <2>6
<1>6. QED
  BY <1>4, <1>5, MarkersStep
\* BracketsInOrder, without the types.
Cancelled(s) == call[s] = "cancelled"
InOrder(s, t) ==
  \A j \in DOMAIN markers : MarkerAt(j, "message_sent", t) =>
    \A i \in DOMAIN markers : i < j /\ MarkerAt(i, "message_sent", s) =>
      /\ ticket[s] < ticket[t]
      /\ \E k \in DOMAIN markers : i <= k /\ k <= j /\ MarkerAt(k, "reply_received", s)
ClosedOnce(t) ==
  \A j \in DOMAIN markers : MarkerAt(j, "reply_received", t) =>
    /\ \E i \in DOMAIN markers : i <= j /\ MarkerAt(i, "message_sent", t)
                                /\ markers[i].turn = markers[j].turn
    /\ \A k \in DOMAIN markers : MarkerAt(k, "reply_received", t) => k = j
Brackets ==
  /\ \A s, t \in Send : s # t /\ ~Cancelled(s) /\ ~Cancelled(t) => InOrder(s, t)
  /\ \A t \in Send : ClosedOnce(t)

LEMMA BracketsSplit ==
  ASSUME TypeOK
  PROVE  BracketsInOrder <=> Brackets
<1>1. DOMAIN markers = 1 .. Len(markers) /\ Len(markers) \in Nat
  BY LenProperties DEF TypeOK
<1>2. BracketsInOrder => Brackets
  BY <1>1 DEF BracketsInOrder, Brackets, InOrder, ClosedOnce, Cancelled
<1>3. ASSUME Brackets PROVE BracketsInOrder
  <2> SUFFICES ASSUME NEW s \in Send, NEW t \in Send, NEW j \in DOMAIN markers
               PROVE  /\ MarkerAt(j, "message_sent", t) /\ s # t /\ "cancelled" \notin {call[s], call[t]} =>
                           \A i \in 1..(j - 1) : MarkerAt(i, "message_sent", s) =>
                             /\ ticket[s] < ticket[t]
                             /\ \E k \in i..j : MarkerAt(k, "reply_received", s)
                      /\ MarkerAt(j, "reply_received", t) =>
                           /\ \E i \in 1..j : /\ MarkerAt(i, "message_sent", t)
                                              /\ markers[i].turn = markers[j].turn
                           /\ \A k \in DOMAIN markers : MarkerAt(k, "reply_received", t) => k = j
    BY DEF BracketsInOrder
  <2>1. \A i \in 1..(j - 1) : i \in DOMAIN markers /\ i < j
    BY <1>1
  <2>2. s # t /\ "cancelled" \notin {call[s], call[t]} => InOrder(s, t)
    BY <1>3 DEF Brackets, Cancelled
  <2>3. \A i, k \in DOMAIN markers : (i <= k /\ k <= j => k \in i..j) /\ (i <= j => i \in 1..j)
    BY <1>1
  <2>4. ClosedOnce(t)
    BY <1>3 DEF Brackets
  <2>5. QED
    BY <2>1, <2>2, <2>3, <2>4 DEF InOrder, ClosedOnce
<1>4. QED
  BY <1>2, <1>3

LEMMA NextBrackets ==
  ASSUME TypeOK, ChildInv, GateInv, ActivityInv, SlotInv, MarkersInv, Brackets, [Next]_vars
  PROVE  Brackets'
<1>1. markers \in Seq(ParentEvent) /\ DOMAIN markers \subseteq Nat
  BY LenProperties DEF TypeOK
<1>2. \A s \in Send : Announced(s) => slot[s] # 0 /\ call[s] # "idle" /\ ticket'[s] = ticket[s]
  BY CallStep DEF Announced, MarkersInv, MarkersOK, SlotInv
<1>3. \A s \in Send : Cancelled(s) => Cancelled(s)'
  BY CallStep DEF Cancelled
<1>4. CASE markers' = markers
  <2>1. ASSUME NEW s \in Send, NEW t \in Send, InOrder(s, t) PROVE InOrder(s, t)'
    BY <1>2, <1>4, <2>1 DEF InOrder, MarkerAt, Announced
  <2>2. ASSUME NEW t \in Send PROVE ClosedOnce(t)'
    BY <1>4 DEF Brackets, ClosedOnce, MarkerAt
  <2>3. QED
    BY <1>3, <2>1, <2>2 DEF Brackets
<1>5. ASSUME NEW e \in ParentEvent, Adds(e), markers' = Append(markers, e)
      PROVE  Brackets'
  <2>1. PICK n \in Nat : /\ DOMAIN markers' = DOMAIN markers \cup {n} /\ n \notin DOMAIN markers
                         /\ markers'[n] = e
                         /\ \A i \in DOMAIN markers : i < n /\ markers'[i] = markers[i]
    BY <1>1, <1>5, OneMore
  <2>2. \A s \in Send, kind \in {"message_sent", "reply_received"} :
          /\ \A i \in DOMAIN markers : MarkerAt(i, kind, s)' <=> MarkerAt(i, kind, s)
          /\ MarkerAt(n, kind, s)' <=> e.kind = kind /\ e.send = s
    BY <2>1 DEF MarkerAt
  <2>3. \A i \in DOMAIN markers : ~(n < i) /\ ~(n <= i)
    BY <1>1, <2>1
  <2>4. ASSUME NEW s \in Send, NEW t \in Send, s # t, ~Cancelled(s)', ~Cancelled(t)',
               NEW j \in DOMAIN markers', NEW i \in DOMAIN markers', i < j,
               MarkerAt(j, "message_sent", t)', MarkerAt(i, "message_sent", s)'
        PROVE  /\ ticket'[s] < ticket'[t]
               /\ \E k \in DOMAIN markers' : i <= k /\ k <= j /\ MarkerAt(k, "reply_received", s)'
    <3>1. i \in DOMAIN markers /\ MarkerAt(i, "message_sent", s) /\ Announced(s)
      BY <2>1, <2>2, <2>3, <2>4 DEF Announced
    <3>2. CASE j \in DOMAIN markers
      <4>1. MarkerAt(j, "message_sent", t) /\ Announced(t) /\ InOrder(s, t)
        BY <1>3, <2>2, <2>4, <3>2 DEF Announced, Brackets
      <4>2. QED
        BY <1>2, <2>1, <2>2, <2>4, <3>1, <3>2, <4>1 DEF InOrder
    <3>3. CASE j = n
      <4>1. Announce(t) /\ slot[t] # 0 /\ call[t] \in {"running", "cancelled"}
        BY <1>5, <2>2, <2>4, <3>3, AddsSays
      <4>2. call' = call /\ ticket' = ticket
        BY <4>1 DEF Announce
      <4>3. call[t] = "running" /\ call[s] # "cancelled"
        BY <2>4, <4>1, <4>2 DEF Cancelled
      <4>4. call[s] \in Accepted
        <5>1. call[s] \in Accepted \/ call[s] = "running"
          BY <1>2, <3>1, <4>3 DEF SlotInv, TypeOK, Ended, Verdict, Accepted
        <5>2. call[s] # "running"
          BY <2>4, <4>3 DEF GateInv, HasTicket
        <5>3. QED
          BY <5>1, <5>2
      <4>5. ticket[s] < ticket[t]
        BY <4>3, <4>4 DEF GateInv, Accepted, Verdict
      <4>6. PICK k \in DOMAIN markers : MarkerAt(k, "reply_received", s) /\ i <= k
        BY <3>1, <4>4 DEF MarkersInv, MarkersOK
      <4>7. k <= n
        BY <1>1, <2>1
      <4>8. QED
        BY <2>1, <2>2, <3>3, <4>2, <4>5, <4>6, <4>7
    <3>4. QED
      BY <2>1, <3>2, <3>3
  <2>5. ASSUME NEW t \in Send, NEW j \in DOMAIN markers', MarkerAt(j, "reply_received", t)'
        PROVE  /\ \E i \in DOMAIN markers' : /\ i <= j /\ MarkerAt(i, "message_sent", t)'
                                             /\ markers'[i].turn = markers'[j].turn
               /\ \A k \in DOMAIN markers' : MarkerAt(k, "reply_received", t)' => k = j
    <3>1. ~(e.kind = "reply_received" /\ e.send = t) \/
          ~(\E i \in DOMAIN markers : MarkerAt(i, "reply_received", t))
      BY <1>5, AddsSays DEF MarkersInv, MarkersOK, Accepted
    <3>2. CASE j \in DOMAIN markers
      BY <2>1, <2>2, <2>5, <3>1, <3>2 DEF Brackets, ClosedOnce
    <3>3. CASE j = n
      <4>1. e.turn = slot[t] /\ Announced(t)
        BY <1>5, <2>2, <2>5, <3>3, AddsSays
      <4>2. PICK i \in DOMAIN markers : MarkerAt(i, "message_sent", t) /\ markers[i].turn = slot[t]
        BY <4>1 DEF Announced, MarkersInv, MarkersOK
      <4>3. i <= n
        BY <1>1, <2>1
      <4>4. QED
        BY <2>1, <2>2, <2>5, <3>1, <3>3, <4>1, <4>2, <4>3
    <3>4. QED
      BY <2>1, <3>2, <3>3
  <2>6. QED
    BY <2>4, <2>5 DEF Brackets, InOrder, ClosedOnce
<1>6. QED
  BY <1>4, <1>5, MarkersStep
----------------------------------------------------------------------------
(* The theorems *)

LEMMA InitInv == Init => IInv
<1> SUFFICES ASSUME Init PROVE IInv
  OBVIOUS
<1> USE DEF Init
<1>1. /\ \A S : << >> \in Seq(S)
      /\ Len(markers) = 0 /\ Len(childLog) = 0 /\ DOMAIN markers = {} /\ DOMAIN childLog = {}
  BY EmptySeq
<1>2. /\ turn = 0 /\ active = {} /\ queue = << >> /\ slot = [m \in Send \cup Other |-> 0]
      /\ finished = {} /\ closing = FALSE /\ stopped = FALSE
  BY DEF Child!Init
<1>3. TypeOK
  <2>1. ControlOK(0)
    <3>1. 0 \in 0 .. 0 /\ 0 \in 0 .. nextTicket /\ crashes \in 0 .. MaxCrashes
      BY Constants
    <3>2. memo \in [Send -> 0 .. 0 \cup {NoMemo}] /\ position \in [Send -> 0 .. 0]
      BY <3>1
    <3>3. QED
      BY <3>1, <3>2 DEF ControlOK
  <2>2. ControlOK(Len(childLog))
    BY <1>1, <2>1
  <2>3. /\ slot \in [Send \cup Other -> Nat] /\ queue \in Seq(Send \cup Other)
        /\ markers \in Seq(ParentEvent) /\ childLog \in Seq(ChildEvent)
    BY <1>1, <1>2
  <2>4. QED
    BY <1>2, <2>2, <2>3 DEF TypeOK, ControlOK
<1>4. Brackets
  BY <1>1 DEF Brackets, InOrder, ClosedOnce
<1>5. OutcomeIsTrue
  BY DEF OutcomeIsTrue
<1>6. StoppedRules
  <2>1. {i \in DOMAIN markers : markers[i].kind = "subagent_stopped"} = {}
    BY <1>1
  <2>2. QED
    BY <2>1, FS_EmptySet DEF StoppedRules
<1>7. GateInv /\ ChildInv
  BY <1>1, <1>2 DEF GateInv, HasTicket, Verdict, ChildInv
<1>8. ActivityInv /\ EvidenceInv
  BY DEF ActivityInv, ActivityOK, EvidenceInv, EvidenceOK, Accepted
<1>9. SlotInv
  BY <1>2 DEF SlotInv
<1>10. MarkersInv
  BY <1>1 DEF MarkersInv, MarkersOK, Accepted
<1>11. QED
  BY <1>3, <1>4, <1>5, <1>6, <1>7, <1>8, <1>9, <1>10, BracketsSplit DEF IInv, ParentIsTold

LEMMA NextInv == IInv /\ [Next]_vars => IInv'
<1> SUFFICES ASSUME IInv, [Next]_vars PROVE IInv'
  OBVIOUS
<1>1. /\ TypeOK /\ Brackets /\ OutcomeIsTrue /\ StoppedRules
      /\ GateInv /\ ActivityInv /\ SlotInv /\ ChildInv /\ EvidenceInv /\ MarkersInv
  BY BracketsSplit DEF IInv, BracketsInOrder, ParentIsTold
<1>2. TypeOK' /\ ChildInv' /\ GateInv'
  BY <1>1, NextType, ChildGrows, NextGate
<1>3. ActivityInv' /\ SlotInv' /\ EvidenceInv' /\ MarkersInv'
  BY <1>1, NextActivity, NextSlot, NextEvidence, NextMarkers
<1>4. OutcomeIsTrue' /\ StoppedRules'
  BY <1>1, NextOutcome, NextStopped
<1>5. Brackets'
  BY <1>1, NextBrackets
<1>6. BracketsInOrder'
  BY <1>2, <1>5, BracketsSplit, PTL
<1>7. QED
  BY <1>2, <1>3, <1>4, <1>6 DEF IInv, ParentIsTold

\* The gate, what the attempts know and the two streams fit together in every
\* reachable state, however often the worker of an activity is lost.
THEOREM TurnsInvariant == Spec => []IInv
<1>1. QED
  BY InitInv, NextInv, PTL DEF Spec

\* On the parent's stream the brackets of one subagent never overlap, come in the
\* order of the calls and are closed once, under the turn they were opened with: the
\* order in which run_subagent_turn's gate serves its tickets.
THEOREM BracketsTheorem == Spec => []BracketsInOrder
<1>1. IInv => BracketsInOrder
  BY DEF IInv
<1>2. QED
  BY <1>1, TurnsInvariant, PTL

\* How a send ended is what happened to its message in the child, and the stream
\* says that the subagent is gone exactly when the registry does.
THEOREM ToldTheorem == Spec => []ParentIsTold
<1>1. IInv => ParentIsTold
  BY DEF IInv
<1>2. QED
  BY <1>1, TurnsInvariant, PTL
=============================================================================
