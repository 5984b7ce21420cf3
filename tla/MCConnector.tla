---------------------------- MODULE MCConnector ----------------------------
(* Instances of Connector for TLC. *)
EXTENDS Connector

CONSTANTS t1, MaxLog

Ev(kind, tool, n) == [kind |-> kind, tool |-> tool, at |-> n]

\* How far the call of a tool is after these kinds of events, in the order of the harness.
Follows(kinds) ==
  LET Before(k, i) == \E j \in 1..(i - 1) : kinds[j] = k
      Must(k, S) == \A i \in DOMAIN kinds : kinds[i] = k => \E b \in S : Before(b, i)
      Times(S) == Cardinality({i \in DOMAIN kinds : kinds[i] \in S})
  IN /\ Must("approved", {"ask"}) /\ Must("denied", {"ask"}) /\ Must("ended", {"running"})
     /\ Times({"ask"}) > 0 => Must("running", {"approved"})
     /\ Times({"approved", "denied"}) <= 1
     /\ \A k \in {"ask", "running", "ended"} : Times({k}) <= 1

OfTool == {"running", "ended", "ask", "approved"}

\* Every reply of up to n events of these kinds, then its end
Replies(kinds, n) ==
  {[i \in 1..(Len(m) + 1) |->
      IF i > Len(m) THEN Ev("output", None, i) ELSE Ev(m[i], IF m[i] \in OfTool THEN t1 ELSE None, i)] :
     m \in {k \in UNION {[1..l -> kinds] : l \in 0..n} : Follows(k)}}

\* An event of another message in front, a handler that fails, a call that is denied.
Others ==
  {<<Ev("foreign", None, 1), Ev("text", None, 2), Ev("failed", None, 3)>>,
   <<Ev("ask", t1, 1), Ev("denied", t1, 2), Ev("text", None, 3), Ev("silent", None, 4), Ev("output", None, 5)>>}

\* Three events of all kinds, four of the longer stories
MCLogs ==
  Replies(OfTool \cup {"text", "thought", "cite"}, MaxLog) \cup Others
    \cup Replies({"text", "running", "ended"}, MaxLog + 1) \cup Replies({"text", "thought"}, MaxLog + 1)

Accepted == [events |-> <<Ev("started", None, 0)>>, handle |-> TRUE]
Refused == [events |-> <<Ev("note", None, 0)>>, handle |-> FALSE]
Nothing == [events |-> <<>>, handle |-> FALSE]
MCOpenings == {Accepted, Refused, Nothing}

\* Two kinds of calls fail over a short reply, one over a longer one.
FewFaults == Cardinality(failed) <= IF Len(log) <= MaxLog THEN MaxFaults ELSE 1

=============================================================================
