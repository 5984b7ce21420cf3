------------------------- MODULE ToolApprovalProofs -------------------------
(***************************************************************************)
(* Proofs about the approval gate for every set of calls, tools, policies  *)
(* and criteria: the policy in force is always one the runner may install, *)
(* and no call waits for a person that it would let through.               *)
(***************************************************************************)
EXTENDS ToolApproval, TLAPS, SequenceTheorems, FiniteSetTheorems

----------------------------------------------------------------------------
(* The policies a decision or a handler may install *)

\* Allow-listing a tool yields a policy that can be represented and installed
\* whenever the live one can.
LEMMA AllowingSound ==
  ASSUME NEW p \in Policy, WellFormed(p), Installable(p), NEW t \in Tool
  PROVE  /\ Allowing(p, t) \in Policy
         /\ WellFormed(Allowing(p, t)) /\ Installable(Allowing(p, t))
  BY DEF Allowing, Policy, WellFormed, Installable

\* A policy a handler may install is a policy.
LEMMA PoliciesSound ==
  /\ InitialPolicy \in Policy /\ WellFormed(InitialPolicy) /\ Installable(InitialPolicy)
  /\ \A p \in Policies : p \in Policy /\ WellFormed(p)
  BY PolicyAssumption

----------------------------------------------------------------------------
(* The gates *)

LEMMA InitGates == Init => GatesTyped
  BY PoliciesSound, EmptySeq DEF Init, GatesTyped, Entry, Gate, Busy, Evaluator

LEMMA NextGates == GatesTyped /\ [Next]_vars => GatesTyped'
<1> SUFFICES ASSUME GatesTyped, [Next]_vars PROVE GatesTyped'
  OBVIOUS
<1> USE DEF GatesTyped
<1>1. CASE UNCHANGED vars
  BY <1>1 DEF vars
<1>2. ASSUME NEW c \in Call, Request(c) PROVE GatesTyped'
  <2>1. CASE AutoApproves(policy, c)
    BY <1>2, <2>1 DEF Request, Gate
  <2>2. CASE ~AutoApproves(policy, c)
    <3>1. registry' \in Seq(Call)
      <4>1. registry' = Append(registry, c) /\ registry \in Seq(Call)
        BY <1>2, <2>2 DEF Request
      <4>2. QED
        BY <4>1, AppendProperties
    <3>2. entry' \in [Call -> Entry] /\ gate' \in [Call -> Gate]
      BY <1>2, <2>2 DEF Request, Entry, Gate, Busy
    <3>3. evaluator' \in [Call -> Evaluator]
      BY <1>2, <2>2 DEF Request, Evaluator
    <3>4. QED
      BY <1>2, <3>1, <3>2, <3>3 DEF Request
  <2>3. QED BY <2>1, <2>2
<1>3. ASSUME NEW c \in Call, EvaluatorReturns(c) PROVE GatesTyped'
  BY <1>3 DEF EvaluatorReturns, Evaluator
<1>4. ASSUME NEW c \in Call, Supersede(c) PROVE GatesTyped'
  BY <1>4 DEF Supersede, Gate, Busy
<1>5. ASSUME NEW c \in Call, Unwind(c) PROVE GatesTyped'
  BY <1>5 DEF Unwind, Gate, Busy, Evaluator
<1>6. ASSUME NEW c \in Call, Conclude(c) PROVE GatesTyped'
  <2>1. DecisionOf(evaluator[c]) \in Entry
    BY DEF DecisionOf, Entry
  <2>2. QED
    BY <1>6, <2>1 DEF Conclude, Gate, Busy
<1>7. ASSUME NEW c \in Call, PassGate(c) PROVE GatesTyped'
  BY <1>7 DEF PassGate, Gate, Entry
<1>8. ASSUME NEW c \in Call, Remember(c) PROVE GatesTyped'
  <2>1. ToolOf[c] \in Tool
    BY CallAssumption
  <2>2. policy' \in Policy /\ WellFormed(policy') /\ Installable(policy')
    BY <1>8, <2>1, AllowingSound DEF Remember
  <2>3. entry' \in [Call -> Entry]
    BY <1>8 DEF Remember, Entry
  <2>4. QED
    BY <1>8, <2>2, <2>3 DEF Remember
<1>9. ASSUME NEW c \in Call, NEW decision \in Decided, Decide(c, decision) PROVE GatesTyped'
  BY <1>9 DEF Decide, Decided, Entry
<1>10. ASSUME NEW p \in Policies, SetPolicy(p) PROVE GatesTyped'
  BY <1>10, PoliciesSound DEF SetPolicy, Entry
<1>11. ASSUME NEW g \in Criteria, SetCriteria(g) PROVE GatesTyped'
  BY <1>11 DEF SetCriteria
<1>12. CASE Close
  BY <1>12 DEF Close
<1>13. QED
  BY <1>1, <1>2, <1>3, <1>4, <1>5, <1>6, <1>7, <1>8, <1>9, <1>10, <1>11, <1>12 DEF Next

\* The policy in force can always be represented and its evaluator always exists,
\* however it grew: by remembered decisions, by handlers, or both.
THEOREM GatesTheorem == Spec => []GatesTyped
<1>1. QED
  BY InitGates, NextGates, PTL DEF Spec

----------------------------------------------------------------------------
(* No call waits in vain *)

LEMMA InitAllowed == Init => NoPendingAllowed
  BY DEF Init, NoPendingAllowed, Pending

LEMMA NextAllowed ==
  GatesTyped /\ NoPendingAllowed /\ [Next]_vars => NoPendingAllowed'
<1> SUFFICES ASSUME GatesTyped, NoPendingAllowed, [Next]_vars PROVE NoPendingAllowed'
  OBVIOUS
<1> USE DEF GatesTyped, NoPendingAllowed, Pending, AutoApproves
<1>1. CASE UNCHANGED vars
  BY <1>1 DEF vars
<1>2. ASSUME NEW c \in Call, Request(c) PROVE NoPendingAllowed'
  BY <1>2 DEF Request
<1>3. ASSUME NEW c \in Call, EvaluatorReturns(c) PROVE NoPendingAllowed'
  BY <1>3 DEF EvaluatorReturns
<1>4. ASSUME NEW c \in Call, Supersede(c) PROVE NoPendingAllowed'
  BY <1>4 DEF Supersede
<1>5. ASSUME NEW c \in Call, Unwind(c) PROVE NoPendingAllowed'
  BY <1>5 DEF Unwind
<1>6. ASSUME NEW c \in Call, Conclude(c) PROVE NoPendingAllowed'
  BY <1>6 DEF Conclude, DecisionOf
<1>7. ASSUME NEW c \in Call, PassGate(c) PROVE NoPendingAllowed'
  BY <1>7 DEF PassGate
<1>8. ASSUME NEW c \in Call, Remember(c) PROVE NoPendingAllowed'
  BY <1>8 DEF Remember, Released
<1>9. ASSUME NEW c \in Call, NEW decision \in Decided, Decide(c, decision)
      PROVE  NoPendingAllowed'
  BY <1>9 DEF Decide, Decided
<1>10. ASSUME NEW p \in Policies, SetPolicy(p) PROVE NoPendingAllowed'
  BY <1>10 DEF SetPolicy, Released
<1>11. ASSUME NEW g \in Criteria, SetCriteria(g) PROVE NoPendingAllowed'
  BY <1>11 DEF SetCriteria
<1>12. CASE Close
  BY <1>12 DEF Close
<1>13. QED
  BY <1>1, <1>2, <1>3, <1>4, <1>5, <1>6, <1>7, <1>8, <1>9, <1>10, <1>11, <1>12 DEF Next

\* No call is left waiting for a person although the live policy allows it:
\* neither a call that raced the change of policy nor one being evaluated.
THEOREM NoneLeftWaiting == Spec => []NoPendingAllowed
<1>1. Init => GatesTyped /\ NoPendingAllowed
  BY InitGates, InitAllowed
<1>2. GatesTyped /\ NoPendingAllowed /\ [Next]_vars => (GatesTyped /\ NoPendingAllowed)'
  BY NextGates, NextAllowed
<1>3. QED
  BY <1>1, <1>2, PTL DEF Spec

----------------------------------------------------------------------------
(* What the stream says *)

\* The events of some kinds about a call.
About(kinds, c) == {i \in DOMAIN log : log[i].kind \in kinds /\ log[i].call = c}
TerminalKinds == {"evaluation_ended", "evaluation_superseded", "evaluation_error"}

Gated(c) == entry[c] # "none"

\* Every gated call was registered, once.
RegistryInv ==
  /\ \A i, j \in DOMAIN registry : registry[i] = registry[j] => i = j
  /\ \A c \in Call : Gated(c) <=> \E i \in DOMAIN registry : registry[i] = c

\* A call at its gate has an entry; one that passed was decided as it passed.
GateOK(c) ==
  /\ gate[c] = "idle" => ~Gated(c)
  /\ gate[c] \in Busy => Gated(c)
  /\ gate[c] = "dispatched" => entry[c] \in {"none", "approved"}
  /\ gate[c] = "refused" => entry[c] = "denied"

\* A decision is on the stream once, and as it was taken; a call that was not
\* gated is not on the stream at all.
ResolvedOK(c) ==
  /\ ~Gated(c) => About(EventKind, c) = {}
  /\ entry[c] \in Decided =>
       \E i \in DOMAIN log : About({"resolved"}, c) = {i} /\ log[i].answer = entry[c]
  /\ entry[c] \notin Decided => About({"resolved"}, c) = {}

\* An evaluation is open while the gate waits for it, for good if reading its answer
\* raised, and was closed once otherwise.
BracketOpen(c) == gate[c] \in {"evaluating", "settling", "raised"}
BracketOK(c) ==
  /\ BracketOpen(c) =>
       (\E i \in DOMAIN log : About({"evaluation_started"}, c) = {i}) /\ About(TerminalKinds, c) = {}
  /\ ~BracketOpen(c) =>
       \/ About({"evaluation_started"}, c) = {} /\ About(TerminalKinds, c) = {}
       \/ \E i, j \in DOMAIN log : /\ About({"evaluation_started"}, c) = {i}
                                   /\ About(TerminalKinds, c) = {j}

StreamInv ==
  /\ TypeOK /\ NoPendingAllowed /\ RegistryInv
  /\ \A c \in Call : GateOK(c) /\ ResolvedOK(c) /\ BracketOK(c)
  /\ EndedIsActedOn /\ CauseBeforeEffect

----------------------------------------------------------------------------
(* The cascade: what it publishes, and in which order *)

\* A gated call has one place in the registry, and no other call has it.
LEMMA Positions ==
  ASSUME RegistryInv, registry \in Seq(Call), NEW c \in Call, Gated(c)
  PROVE  Position(c) \in 1 .. Len(registry) /\ registry[Position(c)] = c
  BY LenProperties DEF RegistryInv, Position

LEMMA GatedFinite ==
  ASSUME RegistryInv, registry \in Seq(Call)
  PROVE  IsFiniteSet({c \in Call : Gated(c)})
<1> DEFINE G == {c \in Call : Gated(c)}
           f == [c \in G |-> Position(c)]
<1>1. Len(registry) \in Nat /\ IsFiniteSet(1 .. Len(registry))
  BY LenProperties, FS_Interval
<1>2. f \in [G -> 1 .. Len(registry)] /\ \A c, d \in G : f[c] = f[d] => c = d
  BY Positions
<1>3. f \in Injection(G, 1 .. Len(registry))
  BY <1>2 DEF Injection, IsInjective
<1>4. QED
  BY <1>1, <1>3, FS_Injection

\* Released calls are numbered from 1 on, each with a number of its own.
LEMMA Ranks ==
  ASSUME RegistryInv, registry \in Seq(Call),
         NEW R \in SUBSET Call, \A c \in R : Gated(c)
  PROVE  /\ IsFiniteSet(R) /\ Cardinality(R) \in Nat
         /\ \A c \in R : Rank(c, R) \in 1 .. Cardinality(R)
         /\ \A c, d \in R : Position(c) < Position(d) => Rank(c, R) < Rank(d, R)
         /\ \A i \in 1 .. Cardinality(R) : \E c \in R : Rank(c, R) = i
<1> DEFINE Upto(c) == {d \in R : Position(d) <= Position(c)}
           N == Cardinality(R)
           f == [c \in R |-> Rank(c, R)]
<1>1. IsFiniteSet(R) /\ N \in Nat
  BY GatedFinite, FS_Subset, FS_CardinalityType
<1>2. \A c \in R : Position(c) \in Nat
  BY Positions, LenProperties
<1>3. ASSUME NEW c \in R
      PROVE  IsFiniteSet(Upto(c)) /\ Rank(c, R) = Cardinality(Upto(c)) /\ Rank(c, R) \in 1 .. N
  <2>1. Upto(c) \in SUBSET R /\ c \in Upto(c) /\ Rank(c, R) = Cardinality(Upto(c))
    BY <1>2 DEF Rank
  <2>2. IsFiniteSet(Upto(c)) /\ Cardinality(Upto(c)) <= N /\ Cardinality(Upto(c)) \in Nat
    BY <1>1, <2>1, FS_Subset, FS_CardinalityType
  <2>3. Cardinality(Upto(c)) # 0
    BY <2>1, <2>2, FS_EmptySet
  <2>4. QED
    BY <1>1, <2>1, <2>2, <2>3
<1>4. ASSUME NEW c \in R, NEW d \in R, Position(c) < Position(d)
      PROVE  Rank(c, R) < Rank(d, R)
  <2>1. Upto(c) \in SUBSET Upto(d) /\ Upto(c) # Upto(d)
    BY <1>2, <1>4
  <2>2. IsFiniteSet(Upto(d)) /\ Cardinality(Upto(c)) \in Nat /\ Cardinality(Upto(d)) \in Nat
    BY <1>3, FS_CardinalityType
  <2>3. Cardinality(Upto(c)) <= Cardinality(Upto(d)) /\ Cardinality(Upto(c)) # Cardinality(Upto(d))
    BY <2>1, <2>2, FS_Subset
  <2>4. Cardinality(Upto(c)) < Cardinality(Upto(d))
    BY <2>2, <2>3
  <2>5. QED
    BY <1>3, <2>4
<1>5. \A c, d \in R : f[c] = f[d] => c = d
  <2> SUFFICES ASSUME NEW c \in R, NEW d \in R, c # d PROVE f[c] # f[d]
    OBVIOUS
  <2>1. Position(c) # Position(d)
    BY Positions
  <2>2. Position(c) < Position(d) \/ Position(d) < Position(c)
    BY <1>2, <2>1
  <2>3. Rank(c, R) < Rank(d, R) \/ Rank(d, R) < Rank(c, R)
    BY <1>4, <2>2
  <2>4. Rank(c, R) \in Nat /\ Rank(d, R) \in Nat
    <3>1. Rank(c, R) \in 1 .. N /\ Rank(d, R) \in 1 .. N
      BY <1>3
    <3>2. QED
      BY <1>1, <3>1
  <2>5. Rank(c, R) # Rank(d, R)
    BY <2>3, <2>4
  <2>6. f[c] = Rank(c, R) /\ f[d] = Rank(d, R)
    OBVIOUS
  <2>7. QED
    BY <2>5, <2>6
<1>6. f \in Injection(R, 1 .. N)
  BY <1>3, <1>5 DEF Injection, IsInjective
<1>7. IsFiniteSet(1 .. N) /\ Cardinality(1 .. N) = N
  BY <1>1, FS_Interval
<1>8. f \in Surjection(R, 1 .. N)
  BY <1>6, <1>7, FS_Injection
<1>9. QED
  BY <1>1, <1>3, <1>4, <1>8 DEF Surjection

\* The cascade publishes each released call once, and nothing else, in the order in which
\* the calls were registered.
LEMMA CascadeFacts ==
  ASSUME RegistryInv, registry \in Seq(Call),
         NEW R \in SUBSET Call, \A c \in R : Gated(c)
  PROVE  /\ Cascade(R) \in Seq(Event)
         /\ \A i \in DOMAIN Cascade(R) : \E c \in R :
              Rank(c, R) = i /\ Cascade(R)[i] = Resolved(c, "approved", "policy")
         /\ \A c \in R : \E i \in DOMAIN Cascade(R) :
              Rank(c, R) = i /\ Cascade(R)[i] = Resolved(c, "approved", "policy")
         /\ \A i, j \in DOMAIN Cascade(R) :
              i < j => Position(Cascade(R)[i].call) < Position(Cascade(R)[j].call)
<1> DEFINE N == Cardinality(R)
           Nth(i) == CHOOSE c \in R : Rank(c, R) = i
           E(i) == Resolved(Nth(i), "approved", "policy")
<1>1. /\ N \in Nat
      /\ \A c \in R : Rank(c, R) \in 1 .. N
      /\ \A c, d \in R : Position(c) < Position(d) => Rank(c, R) < Rank(d, R)
      /\ \A i \in 1 .. N : \E c \in R : Rank(c, R) = i
  BY Ranks
<1>2. \A i \in 1 .. N : Nth(i) \in R /\ Rank(Nth(i), R) = i
  BY <1>1
<1>3. \A c \in R : Nth(Rank(c, R)) = c
  <2> SUFFICES ASSUME NEW c \in R PROVE Nth(Rank(c, R)) = c
    OBVIOUS
  <2>1. PICK d \in R : d = Nth(Rank(c, R)) /\ Rank(d, R) = Rank(c, R)
    BY <1>1, <1>2
  <2>2. Position(c) \in Nat /\ Position(d) \in Nat /\ (Position(c) = Position(d) => c = d)
    BY Positions, LenProperties
  <2>3. Rank(c, R) \in Nat
    BY <1>1
  <2>4. QED
    BY <1>1, <2>1, <2>2, <2>3
<1>4. \A i \in 1 .. N : E(i) \in Event
  BY <1>2 DEF Resolved, Ev, Event, EventKind, Answer, Ground
<1>5. Cascade(R) = [i \in 1 .. N |-> E(i)]
  BY DEF Cascade
<1>6. Cascade(R) \in Seq(Event) /\ DOMAIN Cascade(R) = 1 .. N
  BY <1>1, <1>4, <1>5, SeqDef
<1>7. \A i \in 1 .. N : Cascade(R)[i].call = Nth(i)
  BY <1>5 DEF Resolved, Ev
<1> HIDE DEF Nth
<1>8. ASSUME NEW i \in 1 .. N, NEW j \in 1 .. N, i < j
      PROVE  Position(Nth(i)) < Position(Nth(j))
  <2>1. Position(Nth(i)) \in Nat /\ Position(Nth(j)) \in Nat
    BY <1>2, Positions, LenProperties
  <2>2. ~(Position(Nth(j)) < Position(Nth(i)))
    BY <1>1, <1>2, <1>8
  <2>3. Nth(i) # Nth(j)
    BY <1>2, <1>8
  <2>4. Position(Nth(i)) # Position(Nth(j))
    BY <1>2, <2>3, Positions
  <2>5. QED
    BY <2>1, <2>2, <2>4
<1>9. QED
  BY <1>1, <1>2, <1>3, <1>5, <1>6, <1>7, <1>8
----------------------------------------------------------------------------
(* What one step adds to the stream *)

\* The events of some kinds about a call among those a step publishes.
Said(t, kinds, c) == {k \in DOMAIN t : t[k].kind \in kinds /\ t[k].call = c}

\* EndedIsActedOn and CauseBeforeEffect, of any run of events.
Acted(s) ==
  /\ \A i \in DOMAIN s :
       s[i].kind = "evaluation_ended" /\ s[i].answer # "escalate" =>
         /\ i + 1 \in DOMAIN s
         /\ s[i + 1] = Resolved(s[i].call, IF s[i].answer = "approve" THEN "approved"
                                           ELSE "denied", "auto_mode")
  /\ \A i \in DOMAIN s : s[i].ground = "auto_mode" =>
       i > 1 /\ s[i - 1].kind = "evaluation_ended" /\ s[i - 1].call = s[i].call

Unforced(c) == \A p \in Policies : ~AutoApproves(p, c)
Caused(s) ==
  \A i \in DOMAIN s : s[i].ground = "policy" /\ Unforced(s[i].call) =>
    \E j \in 1 .. (i - 1) : s[j].ground = "remember" /\ ToolOf[s[j].call] = ToolOf[s[i].call]

\* What a step that publishes t does to the decision of a call, and to its bracket.
DecisionStep(t, d) ==
  \/ Said(t, EventKind, d) = {} /\ entry'[d] = entry[d]
  \/ /\ Gated(d)' /\ Said(t, {"resolved"}, d) = {}
     /\ entry'[d] = entry[d] \/ (entry[d] \notin Decided /\ entry'[d] \notin Decided)
  \/ /\ entry[d] \notin Decided /\ entry'[d] \in Decided
     /\ \E k \in DOMAIN t : Said(t, {"resolved"}, d) = {k} /\ t[k].answer = entry'[d]
BracketStep(t, d) ==
  \/ /\ Said(t, {"evaluation_started"}, d) = {} /\ Said(t, TerminalKinds, d) = {}
     /\ BracketOpen(d)' = BracketOpen(d)
  \/ /\ ~Gated(d) /\ ~BracketOpen(d) /\ BracketOpen(d)'
     /\ \E k \in DOMAIN t : Said(t, {"evaluation_started"}, d) = {k}
     /\ Said(t, TerminalKinds, d) = {}
  \/ /\ BracketOpen(d) /\ ~BracketOpen(d)'
     /\ Said(t, {"evaluation_started"}, d) = {}
     /\ \E k \in DOMAIN t : Said(t, TerminalKinds, d) = {k}

Publishes(t) ==
  /\ t \in Seq(Event) /\ log' = log \o t
  /\ Acted(t) /\ Caused(t)
  /\ closed => \A k \in DOMAIN t : t[k].ground # "auto_mode"
  /\ \A d \in Call : DecisionStep(t, d) /\ BracketStep(t, d)

\* The indices of two runs of events put one after the other.
LEMMA Joined ==
  ASSUME NEW S, NEW s \in Seq(S), NEW t \in Seq(S)
  PROVE  /\ s \o t \in Seq(S) /\ Len(s) \in Nat /\ Len(t) \in Nat
         /\ DOMAIN s = 1 .. Len(s) /\ DOMAIN t = 1 .. Len(t)
         /\ DOMAIN (s \o t) = 1 .. Len(s) + Len(t)
         /\ \A i \in 1 .. Len(s) : (s \o t)[i] = s[i]
         /\ \A k \in 1 .. Len(t) : (s \o t)[Len(s) + k] = t[k]
<1>1. /\ s \o t \in Seq(S) /\ Len(s) \in Nat /\ Len(t) \in Nat
      /\ DOMAIN s = 1 .. Len(s) /\ DOMAIN t = 1 .. Len(t)
      /\ Len(s \o t) = Len(s) + Len(t)
      /\ \A i \in 1 .. Len(s) + Len(t) : (s \o t)[i] =
           IF i <= Len(s) THEN s[i] ELSE t[i - Len(s)]
  BY ConcatProperties, LenProperties
<1>2. DOMAIN (s \o t) = 1 .. Len(s) + Len(t)
  BY <1>1, LenProperties
<1>3. ASSUME NEW i \in 1 .. Len(s) PROVE (s \o t)[i] = s[i]
  BY <1>1
<1>4. ASSUME NEW k \in 1 .. Len(t) PROVE (s \o t)[Len(s) + k] = t[k]
  <2>1. /\ Len(s) + k \in 1 .. Len(s) + Len(t)
        /\ ~(Len(s) + k <= Len(s)) /\ (Len(s) + k) - Len(s) = k
    BY <1>1
  <2>2. QED
    BY <1>1, <2>1
<1>5. QED
  BY <1>1, <1>2, <1>3, <1>4

LEMMA ActedJoined ==
  ASSUME NEW s \in Seq(Event), NEW t \in Seq(Event), Acted(s), Acted(t)
  PROVE  Acted(s \o t)
<1> DEFINE w == s \o t
           m == Len(s)
           n == Len(t)
<1>1. /\ m \in Nat /\ n \in Nat /\ DOMAIN s = 1 .. m /\ DOMAIN t = 1 .. n /\ DOMAIN w = 1 .. m + n
      /\ \A i \in 1 .. m : w[i] = s[i]
      /\ \A k \in 1 .. n : w[m + k] = t[k]
  BY Joined
<1> HIDE DEF w, m, n
<1>2. ASSUME NEW i \in DOMAIN w, w[i].kind = "evaluation_ended", w[i].answer # "escalate"
      PROVE  /\ i + 1 \in DOMAIN w
             /\ w[i + 1] = Resolved(w[i].call, IF w[i].answer = "approve" THEN "approved"
                                               ELSE "denied", "auto_mode")
  <2>1. CASE i \in 1 .. m
    <3>1. i + 1 \in 1 .. m /\ w[i] = s[i]
      BY <1>1, <1>2, <2>1 DEF Acted
    <3>2. i + 1 \in DOMAIN w /\ w[i + 1] = s[i + 1]
      BY <1>1, <3>1
    <3>3. QED
      BY <1>1, <1>2, <2>1, <3>1, <3>2 DEF Acted
  <2>2. CASE i \notin 1 .. m
    <3>1. PICK k \in 1 .. n : i = m + k
      <4>1. i - m \in 1 .. n /\ i = m + (i - m)
        BY <1>1, <2>2
      <4>2. QED BY <4>1
    <3>2. w[i] = t[k] /\ k + 1 \in 1 .. n
      BY <1>1, <1>2, <3>1 DEF Acted
    <3>3. i + 1 = m + (k + 1) /\ i + 1 \in DOMAIN w
      <4>1. k \in Nat /\ i + 1 = m + (k + 1) /\ m + (k + 1) \in 1 .. m + n
        BY <1>1, <3>1, <3>2
      <4>2. QED
        BY <1>1, <4>1
    <3>4. w[i + 1] = t[k + 1]
      BY <1>1, <3>2, <3>3
    <3>5. QED
      BY <1>1, <1>2, <3>2, <3>3, <3>4 DEF Acted
  <2>3. QED BY <2>1, <2>2
<1>3. ASSUME NEW i \in DOMAIN w, w[i].ground = "auto_mode"
      PROVE  i > 1 /\ w[i - 1].kind = "evaluation_ended" /\ w[i - 1].call = w[i].call
  <2>1. CASE i \in 1 .. m
    <3>1. w[i] = s[i] /\ i > 1 /\ s[i - 1].kind = "evaluation_ended" /\ s[i - 1].call = s[i].call
      BY <1>1, <1>3, <2>1 DEF Acted
    <3>2. i - 1 \in 1 .. m
      BY <1>1, <2>1, <3>1
    <3>3. QED
      BY <1>1, <3>1, <3>2
  <2>2. CASE i \notin 1 .. m
    <3>1. PICK k \in 1 .. n : i = m + k
      <4>1. i - m \in 1 .. n /\ i = m + (i - m)
        BY <1>1, <2>2
      <4>2. QED BY <4>1
    <3>2. w[i] = t[k]
      BY <1>1, <3>1
    <3>3. k > 1 /\ t[k - 1].kind = "evaluation_ended" /\ t[k - 1].call = t[k].call
      BY <1>1, <1>3, <3>2 DEF Acted
    <3>4. k - 1 \in 1 .. n /\ i - 1 = m + (k - 1) /\ i > 1
      <4>1. m \in Nat /\ n \in Nat /\ k > 1
        BY <1>1, <3>3
      <4>2. QED BY <3>1, <4>1
    <3>5. w[i - 1] = t[k - 1]
      BY <1>1, <3>4
    <3>6. QED
      BY <3>2, <3>3, <3>4, <3>5
  <2>3. QED BY <2>1, <2>2
<1>4. Acted(w)
  BY <1>2, <1>3 DEF Acted
<1>5. QED
  BY <1>4 DEF w

LEMMA CausedJoined ==
  ASSUME NEW s \in Seq(Event), NEW t \in Seq(Event), Caused(s), Caused(t)
  PROVE  Caused(s \o t)
<1> DEFINE w == s \o t
           m == Len(s)
           n == Len(t)
<1>1. /\ m \in Nat /\ n \in Nat /\ DOMAIN s = 1 .. m /\ DOMAIN t = 1 .. n /\ DOMAIN w = 1 .. m + n
      /\ \A i \in 1 .. m : w[i] = s[i]
      /\ \A k \in 1 .. n : w[m + k] = t[k]
  BY Joined
<1> HIDE DEF w, m, n
<1>2. ASSUME NEW i \in DOMAIN w, w[i].ground = "policy", Unforced(w[i].call)
      PROVE  \E j \in 1 .. (i - 1) :
               w[j].ground = "remember" /\ ToolOf[w[j].call] = ToolOf[w[i].call]
  <2>1. CASE i \in 1 .. m
    <3>1. w[i] = s[i]
      BY <1>1, <2>1
    <3>2. PICK j \in 1 .. (i - 1) : s[j].ground = "remember" /\ ToolOf[s[j].call] = ToolOf[s[i].call]
      BY <1>1, <1>2, <2>1, <3>1 DEF Caused
    <3>3. w[j] = s[j]
      BY <1>1, <2>1, <3>2
    <3>4. QED
      BY <3>1, <3>2, <3>3
  <2>2. CASE i \notin 1 .. m
    <3>1. PICK k \in 1 .. n : i = m + k
      <4>1. i - m \in 1 .. n /\ i = m + (i - m)
        BY <1>1, <2>2
      <4>2. QED BY <4>1
    <3>2. w[i] = t[k]
      BY <1>1, <3>1
    <3>3. PICK j \in 1 .. (k - 1) : t[j].ground = "remember" /\ ToolOf[t[j].call] = ToolOf[t[k].call]
      BY <1>1, <1>2, <3>1, <3>2 DEF Caused
    <3>4. j \in 1 .. n /\ m + j \in 1 .. (i - 1)
      BY <1>1, <3>1, <3>3
    <3>5. w[m + j] = t[j]
      BY <1>1, <3>4
    <3>6. QED
      BY <3>2, <3>3, <3>4, <3>5
  <2>3. QED BY <2>1, <2>2
<1>3. Caused(w)
  BY <1>2 DEF Caused
<1>4. QED
  BY <1>3 DEF w
LEMMA NothingActed ==
  Acted(<< >>) /\ Caused(<< >>) /\ << >> \in Seq(Event)
  BY EmptySeq DEF Acted, Caused

\* What is known of a call after a step, from what the step said of it.
LEMMA Heard ==
  ASSUME log \in Seq(Event), NEW t \in Seq(Event), log' = log \o t
  PROVE  /\ log' \in Seq(Event)
         /\ \A i \in DOMAIN log : i \in DOMAIN log' /\ log'[i] = log[i]
         /\ \A k \in DOMAIN t : Len(log) + k \in DOMAIN log' /\ log'[Len(log) + k] = t[k]
         /\ \A i \in DOMAIN log' \ DOMAIN log : \E k \in DOMAIN t : i = Len(log) + k
         /\ \A K \in SUBSET EventKind, d \in Call :
              About(K, d)' = About(K, d) \cup {Len(log) + k : k \in Said(t, K, d)}
<1> DEFINE m == Len(log)
           n == Len(t)
<1>1. /\ log' \in Seq(Event) /\ m \in Nat /\ n \in Nat
      /\ DOMAIN log = 1 .. m /\ DOMAIN t = 1 .. n /\ DOMAIN log' = 1 .. m + n
      /\ \A i \in 1 .. m : log'[i] = log[i]
      /\ \A k \in 1 .. n : log'[m + k] = t[k]
  BY Joined
<1> HIDE DEF m, n
<1>2. \A i \in DOMAIN log : i \in DOMAIN log' /\ log'[i] = log[i]
  BY <1>1
<1>3. \A k \in DOMAIN t : m + k \in DOMAIN log' /\ log'[m + k] = t[k]
  BY <1>1
<1>4. ASSUME NEW i \in DOMAIN log' \ DOMAIN log PROVE \E k \in DOMAIN t : i = m + k
  <2>1. i - m \in 1 .. n /\ i = m + (i - m)
    BY <1>1
  <2>2. QED BY <1>1, <2>1
<1>5. ASSUME NEW K \in SUBSET EventKind, NEW d \in Call
      PROVE  About(K, d)' = About(K, d) \cup {m + k : k \in Said(t, K, d)}
  <2>1. ASSUME NEW i \in About(K, d)' PROVE i \in About(K, d) \cup {m + k : k \in Said(t, K, d)}
    <3>1. i \in DOMAIN log' /\ log'[i].kind \in K /\ log'[i].call = d
      BY DEF About
    <3>2. CASE i \in DOMAIN log
      BY <1>2, <3>1, <3>2 DEF About
    <3>3. CASE i \notin DOMAIN log
      <4>1. PICK k \in DOMAIN t : i = m + k
        BY <1>4, <3>1, <3>3
      <4>2. k \in Said(t, K, d)
        BY <1>3, <3>1, <4>1 DEF Said
      <4>3. QED BY <4>1, <4>2
    <3>4. QED BY <3>2, <3>3
  <2>2. ASSUME NEW i \in About(K, d) PROVE i \in About(K, d)'
    BY <1>2 DEF About
  <2>3. ASSUME NEW k \in Said(t, K, d) PROVE m + k \in About(K, d)'
    BY <1>3 DEF About, Said
  <2>4. QED BY <2>1, <2>2, <2>3
<1>6. QED
  BY <1>1, <1>2, <1>3, <1>4, <1>5 DEF m

LEMMA DecisionKept ==
  ASSUME log \in Seq(Event), NEW t, Publishes(t), NEW d \in Call, ResolvedOK(d)
  PROVE  ResolvedOK(d)'
<1> DEFINE R == {"resolved"}
           n(k) == Len(log) + k
<1>0. t \in Seq(Event) /\ log' = log \o t /\ DecisionStep(t, d)
  BY DEF Publishes
<1>1. /\ \A i \in DOMAIN log : i \in DOMAIN log' /\ log'[i] = log[i]
      /\ \A k \in DOMAIN t : n(k) \in DOMAIN log' /\ log'[n(k)] = t[k]
      /\ \A K \in SUBSET EventKind : About(K, d)' = About(K, d) \cup {n(k) : k \in Said(t, K, d)}
  BY <1>0, Heard
<1>2. EventKind \in SUBSET EventKind /\ R \in SUBSET EventKind
  BY DEF EventKind
<1>3. Said(t, R, d) \subseteq Said(t, EventKind, d)
  BY <1>2 DEF Said
<1> HIDE DEF n
<1>4. CASE Said(t, R, d) = {} /\ entry'[d] = entry[d]
  <2>1. About(R, d)' = About(R, d)
    BY <1>1, <1>2, <1>4
  <2>2. entry'[d] \in Decided =>
          \E i \in DOMAIN log' : About(R, d)' = {i} /\ log'[i].answer = entry'[d]
    BY <1>1, <1>4, <2>1 DEF ResolvedOK
  <2>3. entry'[d] \notin Decided => About(R, d)' = {}
    BY <1>4, <2>1 DEF ResolvedOK
  <2>4. ~Gated(d)' => About(EventKind, d)' = {}
    BY <1>0, <1>1, <1>2, <1>4 DEF ResolvedOK, DecisionStep, Gated, Decided
  <2>5. QED BY <2>2, <2>3, <2>4 DEF ResolvedOK
<1>5. CASE Gated(d)' /\ Said(t, R, d) = {} /\ entry[d] \notin Decided /\ entry'[d] \notin Decided
  <2>1. About(R, d)' = {}
    BY <1>1, <1>2, <1>5 DEF ResolvedOK
  <2>2. QED BY <1>5, <2>1 DEF ResolvedOK
<1>6. CASE /\ entry[d] \notin Decided /\ entry'[d] \in Decided
           /\ \E k \in DOMAIN t : Said(t, R, d) = {k} /\ t[k].answer = entry'[d]
  <2>1. PICK k \in DOMAIN t : Said(t, R, d) = {k} /\ t[k].answer = entry'[d]
    BY <1>6
  <2>2. About(R, d)' = {n(k)}
    BY <1>1, <1>2, <1>6, <2>1 DEF ResolvedOK
  <2>3. n(k) \in DOMAIN log' /\ log'[n(k)].answer = entry'[d]
    BY <1>1, <2>1
  <2>4. Gated(d)'
    BY <1>6 DEF Gated, Decided
  <2>5. QED
    BY <1>6, <2>2, <2>3, <2>4 DEF ResolvedOK
<1>7. QED
  BY <1>0, <1>3, <1>4, <1>5, <1>6 DEF DecisionStep

LEMMA BracketKept ==
  ASSUME log \in Seq(Event), NEW t, Publishes(t), NEW d \in Call, ResolvedOK(d), BracketOK(d)
  PROVE  BracketOK(d)'
<1> DEFINE S == {"evaluation_started"}
           T == TerminalKinds
           n(k) == Len(log) + k
<1>0. t \in Seq(Event) /\ log' = log \o t /\ BracketStep(t, d)
  BY DEF Publishes
<1>1. /\ \A i \in DOMAIN log : i \in DOMAIN log'
      /\ \A k \in DOMAIN t : n(k) \in DOMAIN log'
      /\ \A K \in SUBSET EventKind : About(K, d)' = About(K, d) \cup {n(k) : k \in Said(t, K, d)}
  BY <1>0, Heard
<1>2. S \in SUBSET EventKind /\ T \in SUBSET EventKind
  BY DEF EventKind, TerminalKinds
<1> HIDE DEF n
<1>3. CASE Said(t, S, d) = {} /\ Said(t, T, d) = {} /\ BracketOpen(d)' = BracketOpen(d)
  <2>1. About(S, d)' = About(S, d) /\ About(T, d)' = About(T, d)
    BY <1>1, <1>2, <1>3
  <2>2. BracketOpen(d)' <=> BracketOpen(d)
    BY <1>3
  <2>3. QED
    BY <1>1, <2>1, <2>2 DEF BracketOK
<1>4. CASE /\ ~Gated(d) /\ ~BracketOpen(d) /\ BracketOpen(d)'
           /\ \E k \in DOMAIN t : Said(t, S, d) = {k}
           /\ Said(t, T, d) = {}
  <2>1. PICK k \in DOMAIN t : Said(t, S, d) = {k}
    BY <1>4
  <2>2. About(S, d) = {} /\ About(T, d) = {}
    BY <1>2, <1>4 DEF ResolvedOK, About
  <2>3. About(S, d)' = {n(k)} /\ About(T, d)' = {} /\ n(k) \in DOMAIN log'
    BY <1>1, <1>2, <1>4, <2>1, <2>2
  <2>4. QED
    BY <1>4, <2>3 DEF BracketOK
<1>5. CASE /\ BracketOpen(d) /\ ~BracketOpen(d)'
           /\ Said(t, S, d) = {}
           /\ \E k \in DOMAIN t : Said(t, T, d) = {k}
  <2>1. PICK k \in DOMAIN t : Said(t, T, d) = {k}
    BY <1>5
  <2>2. About(T, d)' = {n(k)} /\ n(k) \in DOMAIN log'
    BY <1>1, <1>2, <1>5, <2>1 DEF BracketOK
  <2>3. \E i \in DOMAIN log' : About(S, d)' = {i}
    BY <1>1, <1>2, <1>5 DEF BracketOK
  <2>4. QED
    BY <1>5, <2>2, <2>3 DEF BracketOK
<1>6. QED
  BY <1>0, <1>3, <1>4, <1>5 DEF BracketStep
----------------------------------------------------------------------------
(* What each action publishes *)

\* No event, one event, two events.
LEMMA SaidNothing ==
  ASSUME log \in Seq(Event)
  PROVE  /\ << >> \in Seq(Event) /\ log \o << >> = log
         /\ \A K \in SUBSET EventKind, d \in Call : Said(<< >>, K, d) = {}
  BY ConcatEmptySeq, EmptySeq DEF Said

LEMMA SaidOne ==
  ASSUME log \in Seq(Event), NEW e \in Event
  PROVE  /\ <<e>> \in Seq(Event) /\ Append(log, e) = log \o <<e>>
         /\ \A K \in SUBSET EventKind, d \in Call :
              /\ e.call = d /\ e.kind \in K => Said(<<e>>, K, d) = {1}
              /\ ~(e.call = d /\ e.kind \in K) => Said(<<e>>, K, d) = {}
<1>1. <<e>> \in Seq(Event) /\ Len(<<e>>) = 1 /\ DOMAIN <<e>> = {1} /\ <<e>>[1] = e
  OBVIOUS
<1>2. Append(log, e) = log \o <<e>>
  BY AppendIsConcat
<1>3. ASSUME NEW K \in SUBSET EventKind, NEW d \in Call
      PROVE  /\ e.call = d /\ e.kind \in K => Said(<<e>>, K, d) = {1}
             /\ ~(e.call = d /\ e.kind \in K) => Said(<<e>>, K, d) = {}
  BY <1>1 DEF Said
<1>4. QED
  BY <1>1, <1>2, <1>3

LEMMA SaidTwo ==
  ASSUME NEW e \in Event, NEW f \in Event
  PROVE  /\ <<e>> \o <<f>> = <<e, f>> /\ <<e, f>> \in Seq(Event)
         /\ \A K \in SUBSET EventKind, d \in Call : \A k \in Said(<<e, f>>, K, d) : k \in {1, 2}
         /\ \A K \in SUBSET EventKind, d \in Call :
              /\ 1 \in Said(<<e, f>>, K, d) <=> e.call = d /\ e.kind \in K
              /\ 2 \in Said(<<e, f>>, K, d) <=> f.call = d /\ f.kind \in K
<1>1. <<e>> \o <<f>> = <<e, f>> /\ <<e, f>> \in Seq(Event)
  <2> DEFINE w == Append(<<e>>, f)
             u == <<e, f>>
  <2>1. <<e>> \in Seq(Event) /\ Len(<<e>>) = 1 /\ <<e>>[1] = e
    OBVIOUS
  <2>2. u \in Seq(Event) /\ Len(u) = 2 /\ u[1] = e /\ u[2] = f
    OBVIOUS
  <2>3. w \in Seq(Event) /\ Len(w) = 2 /\ w[1] = e /\ w[2] = f
    BY <2>1, AppendProperties
  <2> HIDE DEF w, u
  <2>4. \A i \in 1 .. 2 : w[i] = u[i]
    BY <2>2, <2>3
  <2>5. w = u
    BY <2>2, <2>3, <2>4, SeqEqual
  <2>6. QED
    BY <2>1, <2>2, <2>5, AppendIsConcat DEF w, u
<1>2. ASSUME NEW K \in SUBSET EventKind, NEW d \in Call
      PROVE  /\ \A k \in Said(<<e, f>>, K, d) : k \in {1, 2}
             /\ 1 \in Said(<<e, f>>, K, d) <=> e.call = d /\ e.kind \in K
             /\ 2 \in Said(<<e, f>>, K, d) <=> f.call = d /\ f.kind \in K
  BY DEF Said
<1>3. QED
  BY <1>1, <1>2

\* A single event that decides nothing by itself is no verdict acted on and no effect.
LEMMA OneActed ==
  ASSUME NEW e \in Event, e.ground \notin {"auto_mode", "policy"},
         e.kind # "evaluation_ended" \/ e.answer = "escalate"
  PROVE  Acted(<<e>>) /\ Caused(<<e>>)
  BY DEF Acted, Caused

\* A cascade says of the calls it releases that they are approved, and nothing of the others.
LEMMA SaidCascade ==
  ASSUME RegistryInv, registry \in Seq(Call),
         NEW R \in SUBSET Call, \A c \in R : Gated(c)
  PROVE  /\ Acted(Cascade(R))
         /\ \A k \in DOMAIN Cascade(R) :
              Cascade(R)[k].ground = "policy" /\ Cascade(R)[k].call \in R
         /\ \A d \in Call \ R, K \in SUBSET EventKind : Said(Cascade(R), K, d) = {}
         /\ \A d \in R : \E k \in DOMAIN Cascade(R) :
              /\ Said(Cascade(R), {"resolved"}, d) = {k} /\ Cascade(R)[k].answer = "approved"
         /\ \A d \in R, K \in SUBSET EventKind :
              "resolved" \notin K => Said(Cascade(R), K, d) = {}
<1> DEFINE t == Cascade(R)
<1>1. /\ \A i \in DOMAIN t : \E c \in R :
           Rank(c, R) = i /\ t[i] = Resolved(c, "approved", "policy")
      /\ \A c \in R : \E i \in DOMAIN t :
           Rank(c, R) = i /\ t[i] = Resolved(c, "approved", "policy")
  BY CascadeFacts
<1> HIDE DEF t
<1>2. \A k \in DOMAIN t : /\ t[k].kind = "resolved" /\ t[k].answer = "approved"
                          /\ t[k].ground = "policy" /\ t[k].call \in R
                          /\ Rank(t[k].call, R) = k
  BY <1>1 DEF Resolved, Ev
<1>3. Acted(t)
  BY <1>2 DEF Acted
<1>4. \A d \in Call \ R, K \in SUBSET EventKind : Said(t, K, d) = {}
  BY <1>2 DEF Said
<1>5. \A d \in R, K \in SUBSET EventKind : "resolved" \notin K => Said(t, K, d) = {}
  BY <1>2 DEF Said
<1>6. ASSUME NEW d \in R
      PROVE  \E k \in DOMAIN t : Said(t, {"resolved"}, d) = {k} /\ t[k].answer = "approved"
  <2>1. PICK k \in DOMAIN t : Rank(d, R) = k /\ t[k] = Resolved(d, "approved", "policy")
    BY <1>1
  <2>2. t[k].call = d /\ t[k].kind = "resolved" /\ t[k].answer = "approved"
    BY <2>1 DEF Resolved, Ev
  <2>3. Said(t, {"resolved"}, d) = {k}
    BY <1>2, <2>1, <2>2 DEF Said
  <2>4. QED
    BY <2>2, <2>3
<1>7. QED
  BY <1>2, <1>3, <1>4, <1>5, <1>6 DEF t

\* What the steps that publish nothing keep of a call.
LEMMA Silent ==
  ASSUME TypeOK, log' = log,
         \A d \in Call : entry'[d] = entry[d] /\ BracketOpen(d)' = BracketOpen(d)
  PROVE  Publishes(<< >>)
<1>1. /\ << >> \in Seq(Event) /\ log' = log \o << >>
      /\ \A K \in SUBSET EventKind, d \in Call : Said(<< >>, K, d) = {}
  BY SaidNothing DEF TypeOK
<1>2. Acted(<< >>) /\ Caused(<< >>)
  BY NothingActed
<1>3. EventKind \in SUBSET EventKind /\ {"evaluation_started"} \in SUBSET EventKind
      /\ TerminalKinds \in SUBSET EventKind
  BY DEF EventKind, TerminalKinds
<1>4. ASSUME NEW d \in Call PROVE DecisionStep(<< >>, d) /\ BracketStep(<< >>, d)
  BY <1>1, <1>3 DEF DecisionStep, BracketStep
<1>5. QED
  BY <1>1, <1>2, <1>4 DEF Publishes
\* A call the step neither changes nor says anything of.
LEMMA Bystander ==
  ASSUME NEW t, NEW d \in Call, entry'[d] = entry[d], gate'[d] = gate[d],
         Said(t, EventKind, d) = {}
  PROVE  DecisionStep(t, d) /\ BracketStep(t, d)
<1>1. Said(t, {"evaluation_started"}, d) = {} /\ Said(t, TerminalKinds, d) = {}
  BY DEF Said, EventKind, TerminalKinds
<1>2. BracketOpen(d)' = BracketOpen(d)
  BY DEF BracketOpen
<1>3. QED
  BY <1>1, <1>2 DEF DecisionStep, BracketStep

\* The kinds of events the steps are about.
LEMMA Kinds ==
  /\ EventKind \in SUBSET EventKind /\ {"resolved"} \in SUBSET EventKind
  /\ {"evaluation_started"} \in SUBSET EventKind /\ TerminalKinds \in SUBSET EventKind
  BY DEF EventKind, TerminalKinds

LEMMA EventTyped ==
  ASSUME NEW kind \in EventKind, NEW c \in Call, NEW answer \in Answer, NEW ground \in Ground
  PROVE  /\ Ev(kind, c, answer, ground) \in Event
         /\ Ev(kind, c, answer, ground).kind = kind /\ Ev(kind, c, answer, ground).call = c
         /\ Ev(kind, c, answer, ground).answer = answer
         /\ Ev(kind, c, answer, ground).ground = ground
  BY DEF Ev, Event

\* A step that publishes one event of one call, and changes that call only.
LEMMA PublishOne ==
  ASSUME TypeOK, NEW c \in Call, NEW e \in Event, e.call = c, log' = Append(log, e),
         Acted(<<e>>), Caused(<<e>>), e.ground # "auto_mode",
         \A d \in Call \ {c} : entry'[d] = entry[d] /\ gate'[d] = gate[d],
         DecisionStep(<<e>>, c), BracketStep(<<e>>, c)
  PROVE  \E t : Publishes(t)
<1>1. /\ <<e>> \in Seq(Event) /\ log' = log \o <<e>>
      /\ \A d \in Call \ {c} : Said(<<e>>, EventKind, d) = {}
  BY SaidOne, Kinds DEF TypeOK
<1>2. \A d \in Call : DecisionStep(<<e>>, d) /\ BracketStep(<<e>>, d)
  BY <1>1, Bystander
<1>3. \A k \in DOMAIN <<e>> : <<e>>[k] = e
  OBVIOUS
<1>4. Publishes(<<e>>)
  BY <1>1, <1>2, <1>3 DEF Publishes
<1>5. QED
  BY <1>4

LEMMA RequestPublishes ==
  ASSUME StreamInv, NEW c \in Call, Request(c)
  PROVE  \E t : Publishes(t)
<1> USE DEF StreamInv
<1> DEFINE r == Ev("requested", c, "none", "none")
           s == Ev("evaluation_started", c, "none", "none")
<1>1. TypeOK /\ gate[c] = "idle" /\ entry[c] = "none" /\ gate \in [Call -> Gate]
      /\ entry \in [Call -> Entry] /\ log \in Seq(Event)
  BY DEF Request, GateOK, Gated, TypeOK, GatesTyped
<1>2. /\ r \in Event /\ r.call = c /\ r.kind = "requested" /\ r.ground = "none"
      /\ s \in Event /\ s.call = c /\ s.kind = "evaluation_started" /\ s.ground = "none"
  BY EventTyped DEF EventKind, Answer, Ground
<1> HIDE DEF r, s
<1>3. ~BracketOpen(c) /\ ~Gated(c)
  BY <1>1 DEF BracketOpen, Gated
<1>4. CASE AutoApproves(policy, c)
  <2>1. log' = log /\ entry' = entry /\ gate' = [gate EXCEPT ![c] = "dispatched"]
    BY <1>4 DEF Request
  <2>2. \A d \in Call : entry'[d] = entry[d] /\ BracketOpen(d)' = BracketOpen(d)
    BY <1>1, <2>1 DEF BracketOpen
  <2>3. Publishes(<< >>)
    BY <1>1, <2>1, <2>2, Silent
  <2>4. QED BY <2>3
<1>5. CASE ~AutoApproves(policy, c)
  <2>1. /\ entry' = [entry EXCEPT ![c] = "pending"]
        /\ gate' = [gate EXCEPT ![c] = IF Evaluates(c) THEN "evaluating" ELSE "waiting"]
        /\ log' = (log \o <<r>>) \o (IF Evaluates(c) THEN <<s>> ELSE << >>)
    BY <1>5 DEF Request, r, s
  <2>2. \A d \in Call \ {c} : entry'[d] = entry[d] /\ gate'[d] = gate[d]
    BY <1>1, <2>1
  <2>3. entry'[c] = "pending" /\ Gated(c)' /\ entry[c] \notin Decided /\ entry'[c] \notin Decided
    BY <1>1, <2>1 DEF Gated, Decided
  <2>4. <<r>> \in Seq(Event) /\ Append(log, r) = log \o <<r>>
    BY <1>1, <1>2, SaidOne
  <2>5. CASE ~Evaluates(c)
    <3>1. log' = Append(log, r)
      <4>1. log \o <<r>> \in Seq(Event)
        BY <1>1, <2>4, Joined
      <4>2. (log \o <<r>>) \o << >> = log \o <<r>>
        BY <4>1, ConcatEmptySeq
      <4>3. QED
        BY <2>1, <2>4, <2>5, <4>2
    <3>2. gate'[c] = "waiting" /\ BracketOpen(c)' = BracketOpen(c)
      BY <1>1, <2>1, <2>5 DEF BracketOpen
    <3>3. /\ Said(<<r>>, {"resolved"}, c) = {} /\ Said(<<r>>, {"evaluation_started"}, c) = {}
          /\ Said(<<r>>, TerminalKinds, c) = {}
      <4>1. r.kind \notin {"resolved"} \cup {"evaluation_started"} \cup TerminalKinds
        BY <1>2 DEF TerminalKinds
      <4>2. {"resolved"} \in SUBSET EventKind /\ {"evaluation_started"} \in SUBSET EventKind
            /\ TerminalKinds \in SUBSET EventKind
        BY Kinds
      <4>3. QED
        BY <1>1, <1>2, <4>1, <4>2, SaidOne
    <3>4. DecisionStep(<<r>>, c) /\ BracketStep(<<r>>, c)
      BY <2>3, <3>2, <3>3 DEF DecisionStep, BracketStep
    <3>5. Acted(<<r>>) /\ Caused(<<r>>)
      BY <1>2, OneActed
    <3>6. QED
      BY <1>1, <1>2, <2>2, <3>1, <3>4, <3>5, PublishOne
  <2>6. CASE Evaluates(c)
    <3> DEFINE t == <<r, s>>
    <3>1. t \in Seq(Event) /\ log' = log \o t
      <4>1. <<s>> \in Seq(Event) /\ <<r>> \o <<s>> = t /\ t \in Seq(Event)
        BY <1>1, <1>2, SaidOne, SaidTwo
      <4>2. (log \o <<r>>) \o <<s>> = log \o (<<r>> \o <<s>>)
        BY <1>1, <2>4, <4>1, ConcatAssociative
      <4>3. QED
        BY <2>1, <2>6, <4>1, <4>2
    <3>2. \A K \in SUBSET EventKind, d \in Call :
            /\ \A k \in Said(t, K, d) : k \in {1, 2}
            /\ 1 \in Said(t, K, d) <=> c = d /\ "requested" \in K
            /\ 2 \in Said(t, K, d) <=> c = d /\ "evaluation_started" \in K
      <4> SUFFICES ASSUME NEW K \in SUBSET EventKind, NEW d \in Call
                   PROVE  /\ \A k \in Said(t, K, d) : k \in {1, 2}
                          /\ 1 \in Said(t, K, d) <=> r.call = d /\ r.kind \in K
                          /\ 2 \in Said(t, K, d) <=> s.call = d /\ s.kind \in K
        BY <1>2
      <4>1. QED
        BY <1>2, SaidTwo
    <3> HIDE DEF t
    <3>3. \A d \in Call \ {c} : DecisionStep(t, d) /\ BracketStep(t, d)
      <4>1. \A d \in Call \ {c} : Said(t, EventKind, d) = {}
        BY <3>2, Kinds
      <4>2. QED
        BY <2>2, <4>1, Bystander
    <3>4. /\ Said(t, {"resolved"}, c) = {} /\ Said(t, {"evaluation_started"}, c) = {2}
          /\ Said(t, TerminalKinds, c) = {}
      BY <3>2, Kinds DEF TerminalKinds
    <3>5. gate'[c] = "evaluating" /\ BracketOpen(c)'
      BY <1>1, <2>1, <2>6 DEF BracketOpen
    <3>6. 2 \in DOMAIN t /\ \A k \in DOMAIN t : t[k] \in {r, s}
      BY DEF t
    <3>7. DecisionStep(t, c) /\ BracketStep(t, c)
      BY <1>3, <2>3, <3>4, <3>5, <3>6 DEF DecisionStep, BracketStep
    <3>8. \A k \in DOMAIN t : t[k].kind # "evaluation_ended" /\ t[k].ground = "none"
      BY <1>2, <3>6
    <3>9. Acted(t) /\ Caused(t)
      BY <3>8 DEF Acted, Caused
    <3>10. Publishes(t)
      BY <3>1, <3>3, <3>7, <3>8, <3>9 DEF Publishes
    <3>11. QED
      BY <3>10
  <2>7. QED BY <2>5, <2>6
<1>6. QED BY <1>4, <1>5
\* A terminal event closes the bracket of the one call a step wakes.
LEMMA CloseOne ==
  ASSUME StreamInv, NEW c \in Call, NEW e \in Event, e.call = c, log' = Append(log, e),
         e.kind \in TerminalKinds, Acted(<<e>>), Caused(<<e>>), e.ground # "auto_mode",
         BracketOpen(c), gate' = [gate EXCEPT ![c] = "waiting"], entry' = entry
  PROVE  \E t : Publishes(t)
<1>1. TypeOK /\ gate \in [Call -> Gate] /\ log \in Seq(Event) /\ GateOK(c)
  BY DEF StreamInv, TypeOK, GatesTyped
<1>2. \A d \in Call \ {c} : entry'[d] = entry[d] /\ gate'[d] = gate[d]
  BY <1>1
<1>3. gate'[c] = "waiting" /\ ~BracketOpen(c)'
  BY <1>1 DEF BracketOpen
<1>4. /\ Said(<<e>>, {"resolved"}, c) = {} /\ Said(<<e>>, {"evaluation_started"}, c) = {}
      /\ Said(<<e>>, TerminalKinds, c) = {1} /\ 1 \in DOMAIN <<e>>
  <2>1. "resolved" \notin TerminalKinds /\ "evaluation_started" \notin TerminalKinds
    BY DEF TerminalKinds
  <2>2. 1 \in DOMAIN <<e>>
    OBVIOUS
  <2>3. \A K \in SUBSET EventKind : /\ e.kind \in K => Said(<<e>>, K, c) = {1}
                                    /\ e.kind \notin K => Said(<<e>>, K, c) = {}
    BY <1>1, SaidOne
  <2>4. e.kind # "resolved" /\ e.kind # "evaluation_started"
    BY <2>1
  <2>5. QED
    BY <2>2, <2>3, <2>4, Kinds
<1>5. BracketStep(<<e>>, c)
  BY <1>3, <1>4 DEF BracketStep
<1>6. Said(<<e>>, {"resolved"}, c) = {} /\ entry'[c] = entry[c]
  BY <1>4
<1>7. CASE Gated(c)
  <2>1. Gated(c)'
    BY <1>7 DEF Gated
  <2>2. DecisionStep(<<e>>, c)
    BY <1>6, <2>1 DEF DecisionStep
  <2>3. QED
    BY <1>1, <1>2, <1>5, <2>2, PublishOne
<1>8. CASE ~Gated(c)
  <2>1. ResolvedOK(c) /\ BracketOK(c)
    BY DEF StreamInv
  <2>2. About(EventKind, c) = {} /\ "evaluation_started" \in EventKind
    BY <1>8, <2>1 DEF ResolvedOK, EventKind
  <2>3. About({"evaluation_started"}, c) = {}
    BY <2>2 DEF About
  <2>4. QED
    BY <2>1, <2>3 DEF BracketOK
<1>9. QED BY <1>7, <1>8

LEMMA SupersedePublishes ==
  ASSUME StreamInv, NEW c \in Call, Supersede(c)
  PROVE  \E t : Publishes(t)
<1>1. /\ TypeOK /\ gate \in [Call -> Gate] /\ evaluator \in [Call -> Evaluator]
      /\ gate[c] = "evaluating" /\ BracketOpen(c) /\ entry' = entry
  BY DEF StreamInv, TypeOK, GatesTyped, Supersede, BracketOpen
<1>2. CASE log' = log /\ (\E g \in {"settling", "raised"} : gate' = [gate EXCEPT ![c] = g])
  <2>1. \A d \in Call : entry'[d] = entry[d] /\ BracketOpen(d)' = BracketOpen(d)
    BY <1>1, <1>2 DEF BracketOpen
  <2>2. QED
    BY <1>1, <1>2, <2>1, Silent
<1>3. CASE /\ evaluator[c] \in Verdict \cup {"raises"}
           /\ gate' = [gate EXCEPT ![c] = "waiting"]
           /\ log' = Append(log, Ev("evaluation_superseded", c,
                             IF evaluator[c] = "raises" THEN "none" ELSE evaluator[c], "none"))
  <2> DEFINE answer == IF evaluator[c] = "raises" THEN "none" ELSE evaluator[c]
             e == Ev("evaluation_superseded", c, answer, "none")
  <2>1. answer \in Answer
    BY <1>3 DEF Answer
  <2> HIDE DEF answer
  <2>2. /\ e \in Event /\ e.call = c /\ e.kind = "evaluation_superseded" /\ e.ground = "none"
        /\ e.kind \in TerminalKinds
    BY <2>1, EventTyped DEF EventKind, Ground, TerminalKinds
  <2>3. log' = Append(log, e)
    BY <1>3 DEF answer
  <2> HIDE DEF e
  <2>4. Acted(<<e>>) /\ Caused(<<e>>)
    BY <2>2, OneActed
  <2>5. QED
    BY <1>1, <1>3, <2>2, <2>3, <2>4, CloseOne
<1>4. QED
  BY <1>2, <1>3 DEF Supersede

LEMMA UnwindPublishes ==
  ASSUME StreamInv, NEW c \in Call, Unwind(c)
  PROVE  \E t : Publishes(t)
<1> DEFINE e == Ev("evaluation_superseded", c, "none", "none")
<1>1. BracketOpen(c) /\ entry' = entry /\ gate' = [gate EXCEPT ![c] = "waiting"] /\ log' = Append(log, e)
  BY DEF Unwind, BracketOpen
<1>2. /\ e \in Event /\ e.call = c /\ e.kind = "evaluation_superseded" /\ e.ground = "none"
      /\ e.kind \in TerminalKinds
  BY EventTyped DEF EventKind, Answer, Ground, TerminalKinds
<1> HIDE DEF e
<1>3. Acted(<<e>>) /\ Caused(<<e>>)
  BY <1>2, OneActed
<1>4. QED
  BY <1>1, <1>2, <1>3, CloseOne

\* A decision, published by one event about the call it decides.
LEMMA DecideOne ==
  ASSUME StreamInv, NEW c \in Call, entry[c] = "pending",
         NEW decision \in Decided, NEW ground \in {"human", "close"},
         entry' = [entry EXCEPT ![c] = decision],
         log' = Append(log, Resolved(c, decision, ground)),
         \A d \in Call \ {c} : gate'[d] = gate[d], BracketOpen(c)' = BracketOpen(c)
  PROVE  \E t : Publishes(t)
<1> DEFINE e == Resolved(c, decision, ground)
<1>1. TypeOK /\ entry \in [Call -> Entry] /\ log \in Seq(Event)
  BY DEF StreamInv, TypeOK, GatesTyped
<1>2. /\ e \in Event /\ e.call = c /\ e.kind = "resolved" /\ e.answer = decision
      /\ e.ground = ground
  <2>1. "resolved" \in EventKind /\ decision \in Answer /\ ground \in Ground
    BY DEF EventKind, Answer, Ground, Decided
  <2>2. QED
    BY <2>1, EventTyped DEF Resolved
<1> HIDE DEF e
<1>3. Acted(<<e>>) /\ Caused(<<e>>)
  BY <1>2, OneActed
<1>4. /\ Said(<<e>>, {"resolved"}, c) = {1} /\ Said(<<e>>, {"evaluation_started"}, c) = {}
      /\ Said(<<e>>, TerminalKinds, c) = {} /\ 1 \in DOMAIN <<e>> /\ <<e>>[1] = e
  <2>1. "resolved" \notin TerminalKinds
    BY DEF TerminalKinds
  <2>2. 1 \in DOMAIN <<e>> /\ <<e>>[1] = e
    OBVIOUS
  <2>3. \A K \in SUBSET EventKind : /\ e.kind \in K => Said(<<e>>, K, c) = {1}
                                    /\ e.kind \notin K => Said(<<e>>, K, c) = {}
    BY <1>1, <1>2, SaidOne
  <2>4. e.kind \in {"resolved"} /\ e.kind \notin {"evaluation_started"} /\ e.kind \notin TerminalKinds
    BY <1>2, <2>1
  <2>5. QED
    BY <2>2, <2>3, <2>4, Kinds
<1>5. entry[c] \notin Decided /\ entry'[c] = decision /\ \A d \in Call \ {c} : entry'[d] = entry[d]
  BY <1>1 DEF Decided
<1>6. DecisionStep(<<e>>, c)
  BY <1>2, <1>4, <1>5 DEF DecisionStep
<1>7. BracketStep(<<e>>, c)
  BY <1>4 DEF BracketStep
<1>8. log' = Append(log, e)
  BY DEF e
<1>9. QED
  BY <1>1, <1>2, <1>3, <1>5, <1>6, <1>7, <1>8, PublishOne

LEMMA PassGatePublishes ==
  ASSUME StreamInv, NEW c \in Call, PassGate(c)
  PROVE  \E t : Publishes(t)
<1>1. /\ TypeOK /\ gate \in [Call -> Gate] /\ entry \in [Call -> Entry] /\ gate[c] = "waiting"
      /\ \E g \in {"dispatched", "refused"} : gate' = [gate EXCEPT ![c] = g]
  BY DEF StreamInv, TypeOK, GatesTyped, PassGate
<1>2. \A d \in Call : BracketOpen(d)' = BracketOpen(d)
  BY <1>1 DEF BracketOpen
<1>3. \A d \in Call \ {c} : gate'[d] = gate[d]
  BY <1>1
<1>4. CASE entry[c] = "pending"
  <2>1. /\ entry' = [entry EXCEPT ![c] = "denied"]
        /\ log' = Append(log, Resolved(c, "denied", "close"))
    BY <1>4 DEF PassGate
  <2>2. "denied" \in Decided /\ "close" \in {"human", "close"}
    BY DEF Decided
  <2>3. QED
    BY <1>2, <1>3, <1>4, <2>1, <2>2, DecideOne
<1>5. CASE entry[c] # "pending"
  <2>1. log' = log /\ entry' = [entry EXCEPT ![c] = entry[c]]
    BY <1>5 DEF PassGate
  <2>2. \A d \in Call : entry'[d] = entry[d] /\ BracketOpen(d)' = BracketOpen(d)
    BY <1>1, <1>2, <2>1
  <2>3. QED
    BY <1>1, <2>1, <2>2, Silent
<1>6. QED BY <1>4, <1>5

LEMMA DecidePublishes ==
  ASSUME StreamInv, NEW c \in Call, NEW decision \in Decided, Decide(c, decision)
  PROVE  \E t : Publishes(t)
<1>1. /\ entry[c] = "pending" /\ entry' = [entry EXCEPT ![c] = decision] /\ gate' = gate
      /\ log' = Append(log, Resolved(c, decision, "human"))
  BY DEF Decide, CanDecide
<1>2. \A d \in Call : BracketOpen(d)' = BracketOpen(d)
  BY <1>1 DEF BracketOpen
<1>3. "human" \in {"human", "close"} /\ \A d \in Call \ {c} : gate'[d] = gate[d]
  BY <1>1
<1>4. QED
  BY <1>1, <1>2, <1>3, DecideOne
LEMMA ConcludePublishes ==
  ASSUME StreamInv, NEW c \in Call, Conclude(c)
  PROVE  \E t : Publishes(t)
<1>1. /\ TypeOK /\ gate \in [Call -> Gate] /\ entry \in [Call -> Entry] /\ log \in Seq(Event)
      /\ gate[c] = "evaluating" /\ BracketOpen(c) /\ entry[c] \notin Decided /\ ~closed
      /\ gate' = [gate EXCEPT ![c] = "waiting"]
  BY DEF StreamInv, TypeOK, GatesTyped, Conclude, CanConclude, Settled, BracketOpen
<1> DEFINE ended == Ev("evaluation_ended", c, evaluator[c], "none")
           failed == Ev("evaluation_error", c, "none", "none")
<1>2. CASE evaluator[c] \in Verdict /\ DecisionOf(evaluator[c]) = "none"
  <2>1. log' = Append(log, ended) /\ entry' = entry
    BY <1>2 DEF Conclude, Verdict
  <2>2. evaluator[c] = "escalate" /\ evaluator[c] \in Answer
    BY <1>2 DEF DecisionOf, Verdict, Answer
  <2>3. /\ ended \in Event /\ ended.call = c /\ ended.kind = "evaluation_ended"
        /\ ended.ground = "none" /\ ended.answer = "escalate" /\ ended.kind \in TerminalKinds
    BY <2>2, EventTyped DEF EventKind, Ground, TerminalKinds
  <2> HIDE DEF ended
  <2>4. Acted(<<ended>>) /\ Caused(<<ended>>)
    BY <2>3, OneActed
  <2>5. QED
    BY <1>1, <2>1, <2>3, <2>4, CloseOne
<1>3. CASE evaluator[c] \in {"raises", "malformed"}
  <2>1. log' = Append(log, failed) /\ entry' = entry
    BY <1>3 DEF Conclude, Verdict
  <2>2. /\ failed \in Event /\ failed.call = c /\ failed.kind = "evaluation_error"
        /\ failed.ground = "none" /\ failed.kind \in TerminalKinds
    BY EventTyped DEF EventKind, Answer, Ground, TerminalKinds
  <2> HIDE DEF failed
  <2>3. Acted(<<failed>>) /\ Caused(<<failed>>)
    BY <2>2, OneActed
  <2>4. QED
    BY <1>1, <2>1, <2>2, <2>3, CloseOne
<1>4. CASE evaluator[c] \in Verdict /\ DecisionOf(evaluator[c]) # "none"
  <2> DEFINE decision == DecisionOf(evaluator[c])
             f == Resolved(c, decision, "auto_mode")
             t == <<ended, f>>
  <2>1. log' = log \o t /\ entry' = [entry EXCEPT ![c] = decision]
    BY <1>4 DEF Conclude, Verdict
  <2>2. /\ evaluator[c] \in {"approve", "deny"}
        /\ decision = (IF evaluator[c] = "approve" THEN "approved" ELSE "denied")
        /\ decision \in Decided /\ decision \in Answer /\ evaluator[c] \in Answer
    BY <1>4 DEF DecisionOf, Verdict, Answer, Decided
  <2> HIDE DEF decision
  <2>3. /\ ended \in Event /\ ended.call = c /\ ended.kind = "evaluation_ended"
        /\ ended.answer = evaluator[c] /\ ended.ground = "none"
        /\ f \in Event /\ f.call = c /\ f.kind = "resolved"
        /\ f.answer = decision /\ f.ground = "auto_mode"
    BY <2>2, EventTyped DEF EventKind, Ground, Resolved
  <2>4. f = Resolved(ended.call, IF ended.answer = "approve" THEN "approved" ELSE "denied",
                     "auto_mode")
    BY <2>2, <2>3
  <2> HIDE DEF ended, f
  <2>5. /\ t \in Seq(Event) /\ DOMAIN t = {1, 2} /\ t[1] = ended /\ t[2] = f
    BY <2>3
  <2>6. \A K \in SUBSET EventKind, d \in Call :
          /\ \A k \in Said(t, K, d) : k \in {1, 2}
          /\ 1 \in Said(t, K, d) <=> d = c /\ "evaluation_ended" \in K
          /\ 2 \in Said(t, K, d) <=> d = c /\ "resolved" \in K
    <3> SUFFICES ASSUME NEW K \in SUBSET EventKind, NEW d \in Call
                 PROVE  /\ \A k \in Said(t, K, d) : k \in {1, 2}
                        /\ 1 \in Said(t, K, d) <=> ended.call = d /\ ended.kind \in K
                        /\ 2 \in Said(t, K, d) <=> f.call = d /\ f.kind \in K
      BY <2>3
    <3>1. QED
      BY <2>3, SaidTwo
  <2> HIDE DEF t
  <2>7. Acted(t)
    BY <2>3, <2>4, <2>5 DEF Acted
  <2>8. Caused(t)
    BY <2>3, <2>5 DEF Caused
  <2>9. \A d \in Call \ {c} : DecisionStep(t, d) /\ BracketStep(t, d)
    <3>1. \A d \in Call \ {c} : Said(t, EventKind, d) = {}
      BY <2>6, Kinds
    <3>2. \A d \in Call \ {c} : entry'[d] = entry[d] /\ gate'[d] = gate[d]
      BY <1>1, <2>1
    <3>3. QED
      BY <3>1, <3>2, Bystander
  <2>10. DecisionStep(t, c)
    <3>1. Said(t, {"resolved"}, c) = {2}
      BY <2>6, Kinds
    <3>2. entry'[c] = decision /\ 2 \in DOMAIN t /\ t[2].answer = decision
      BY <1>1, <2>1, <2>3, <2>5
    <3>3. QED
      BY <1>1, <2>2, <3>1, <3>2 DEF DecisionStep
  <2>11. BracketStep(t, c)
    <3>1. Said(t, {"evaluation_started"}, c) = {} /\ Said(t, TerminalKinds, c) = {1}
      BY <2>6, Kinds DEF TerminalKinds
    <3>2. ~BracketOpen(c)' /\ 1 \in DOMAIN t
      BY <1>1, <2>5 DEF BracketOpen
    <3>3. QED
      BY <1>1, <3>1, <3>2 DEF BracketStep
  <2>12. Publishes(t)
    BY <1>1, <2>1, <2>5, <2>7, <2>8, <2>9, <2>10, <2>11 DEF Publishes
  <2>13. QED
    BY <2>12
<1>5. QED
  BY <1>2, <1>3, <1>4 DEF Conclude
\* One event put before a run of others.
LEMMA SaidAfter ==
  ASSUME NEW e \in Event, NEW u \in Seq(Event)
  PROVE  LET t == <<e>> \o u IN
         /\ t \in Seq(Event) /\ 1 \in DOMAIN t /\ t[1] = e
         /\ \A k \in DOMAIN u : 1 + k \in DOMAIN t /\ t[1 + k] = u[k]
         /\ \A k \in DOMAIN t : k = 1 \/ (k > 1 /\ k \in Nat /\ \E j \in DOMAIN u : k = 1 + j)
         /\ \A K \in SUBSET EventKind, d \in Call :
              /\ e.call = d /\ e.kind \in K /\ Said(u, K, d) = {} => Said(t, K, d) = {1}
              /\ ~(e.call = d /\ e.kind \in K) => Said(t, K, d) = {1 + k : k \in Said(u, K, d)}
<1> DEFINE t == <<e>> \o u
           n == Len(u)
<1>1. <<e>> \in Seq(Event) /\ Len(<<e>>) = 1 /\ <<e>>[1] = e
  OBVIOUS
<1>2. /\ t \in Seq(Event) /\ n \in Nat /\ DOMAIN u = 1 .. n /\ DOMAIN t = 1 .. 1 + n
      /\ \A i \in 1 .. 1 : t[i] = <<e>>[i]
      /\ \A k \in 1 .. n : t[1 + k] = u[k]
  BY <1>1, Joined
<1> HIDE DEF t, n
<1>3. 1 \in DOMAIN t /\ t[1] = e
  BY <1>1, <1>2
<1>4. \A k \in DOMAIN u : 1 + k \in DOMAIN t /\ t[1 + k] = u[k] /\ 1 + k # 1
  BY <1>2
<1>5. ASSUME NEW k \in DOMAIN t
      PROVE  k = 1 \/ (k > 1 /\ k \in Nat /\ \E j \in DOMAIN u : k = 1 + j)
  <2>1. k \in 1 .. 1 + n /\ n \in Nat
    BY <1>2
  <2>2. CASE k # 1
    <3>1. k > 1 /\ k \in Nat /\ k - 1 \in 1 .. n /\ k = 1 + (k - 1)
      BY <2>1, <2>2
    <3>2. QED
      BY <1>2, <3>1
  <2>3. QED BY <2>2
<1>6. ASSUME NEW K \in SUBSET EventKind, NEW d \in Call
      PROVE  /\ e.call = d /\ e.kind \in K /\ Said(u, K, d) = {} => Said(t, K, d) = {1}
             /\ ~(e.call = d /\ e.kind \in K) => Said(t, K, d) = {1 + k : k \in Said(u, K, d)}
  <2>1. 1 \in Said(t, K, d) <=> e.call = d /\ e.kind \in K
    BY <1>3 DEF Said
  <2>2. \A k \in Said(t, K, d) : k = 1 \/ \E j \in Said(u, K, d) : k = 1 + j
    BY <1>4, <1>5 DEF Said
  <2>3. \A j \in Said(u, K, d) : 1 + j \in Said(t, K, d)
    BY <1>4 DEF Said
  <2>4. QED
    BY <2>1, <2>2, <2>3
<1>7. QED
  BY <1>2, <1>3, <1>4, <1>5, <1>6 DEF t

LEMMA RememberPublishes ==
  ASSUME StreamInv, NEW c \in Call, Remember(c)
  PROVE  \E t : Publishes(t)
<1> DEFINE p == Allowing(policy, ToolOf[c])
           R == Released(p, Pending \ {c})
           e == Resolved(c, "approved", "remember")
           u == Cascade(R)
           t == <<e>> \o u
<1>1. /\ TypeOK /\ entry \in [Call -> Entry] /\ log \in Seq(Event) /\ registry \in Seq(Call)
      /\ RegistryInv /\ NoPendingAllowed /\ policy \in Policy
      /\ entry[c] = "pending" /\ gate' = gate
      /\ entry' = [d \in Call |-> IF d \in R \cup {c} THEN "approved" ELSE entry[d]]
      /\ log' = (log \o <<e>>) \o u
  BY DEF StreamInv, TypeOK, GatesTyped, Remember, CanDecide
<1>2. /\ R \in SUBSET Call /\ c \notin R /\ \A d \in R : Gated(d) /\ entry[d] = "pending"
  BY DEF Released, Pending, Gated
<1>3. \A d \in R : ToolOf[d] = ToolOf[c]
  <2> SUFFICES ASSUME NEW d \in R PROVE ToolOf[d] = ToolOf[c]
    OBVIOUS
  <2>1. ~AutoApproves(policy, d) /\ AutoApproves(p, d)
    BY <1>1, <1>2 DEF Released, NoPendingAllowed, Pending
  <2>2. QED
    BY <1>1, <2>1 DEF AutoApproves, Allowing, Policy
<1>4. /\ e \in Event /\ e.call = c /\ e.kind = "resolved" /\ e.answer = "approved"
      /\ e.ground = "remember"
  <2>1. "resolved" \in EventKind /\ "approved" \in Answer /\ "remember" \in Ground
    BY DEF EventKind, Answer, Ground
  <2>2. QED
    BY <2>1, EventTyped DEF Resolved
<1>5. u \in Seq(Event)
  BY <1>1, <1>2, CascadeFacts
<1> HIDE DEF p, R
<1>6. /\ Acted(u)
      /\ \A k \in DOMAIN u : u[k].ground = "policy" /\ u[k].call \in R
      /\ \A d \in Call \ R, K \in SUBSET EventKind : Said(u, K, d) = {}
      /\ \A d \in R : \E k \in DOMAIN u : Said(u, {"resolved"}, d) = {k} /\ u[k].answer = "approved"
      /\ \A d \in R, K \in SUBSET EventKind : "resolved" \notin K => Said(u, K, d) = {}
  BY <1>1, <1>2, SaidCascade
<1> HIDE DEF u, e
<1>7. log' = log \o t
  <2>1. <<e>> \in Seq(Event)
    BY <1>1, <1>4, SaidOne
  <2>2. QED
    BY <1>1, <1>5, <2>1, ConcatAssociative
<1>8. /\ t \in Seq(Event) /\ 1 \in DOMAIN t /\ t[1] = e
      /\ \A k \in DOMAIN u : 1 + k \in DOMAIN t /\ t[1 + k] = u[k]
      /\ \A k \in DOMAIN t : k = 1 \/ (k > 1 /\ k \in Nat /\ \E j \in DOMAIN u : k = 1 + j)
      /\ \A K \in SUBSET EventKind, d \in Call :
           /\ e.call = d /\ e.kind \in K /\ Said(u, K, d) = {} => Said(t, K, d) = {1}
           /\ ~(e.call = d /\ e.kind \in K) => Said(t, K, d) = {1 + k : k \in Said(u, K, d)}
  BY <1>4, <1>5, SaidAfter
<1>9. Acted(t)
  <2>1. Acted(<<e>>)
    BY <1>4, OneActed
  <2>2. <<e>> \in Seq(Event)
    BY <1>1, <1>4, SaidOne
  <2>3. QED
    BY <1>5, <1>6, <2>1, <2>2, ActedJoined
<1> HIDE DEF t
<1>10. \A k \in DOMAIN t : k # 1 => /\ k > 1 /\ k \in Nat
                                    /\ t[k].ground = "policy" /\ t[k].call \in R
  BY <1>6, <1>8
<1>11. Caused(t)
  <2> SUFFICES ASSUME NEW i \in DOMAIN t, t[i].ground = "policy"
               PROVE  \E j \in 1 .. (i - 1) :
                        t[j].ground = "remember" /\ ToolOf[t[j].call] = ToolOf[t[i].call]
    BY DEF Caused
  <2>1. i # 1
    BY <1>4, <1>8
  <2>2. i > 1 /\ i \in Nat /\ t[i].call \in R
    BY <1>10, <2>1
  <2>3. 1 \in 1 .. (i - 1)
    BY <2>2
  <2>4. t[1].ground = "remember" /\ ToolOf[t[1].call] = ToolOf[t[i].call]
    BY <1>3, <1>4, <1>8, <2>2
  <2>5. QED
    BY <2>3, <2>4
<1>12. \A k \in DOMAIN t : t[k].ground # "auto_mode"
  BY <1>4, <1>8, <1>10
<1>13. ASSUME NEW d \in Call PROVE DecisionStep(t, d) /\ BracketStep(t, d)
  <2>1. BracketOpen(d)' = BracketOpen(d)
    BY <1>1 DEF BracketOpen
  <2>2. \A K \in SUBSET EventKind : "resolved" \notin K => Said(t, K, d) = {}
    <3> SUFFICES ASSUME NEW K \in SUBSET EventKind, "resolved" \notin K PROVE Said(t, K, d) = {}
      OBVIOUS
    <3>1. Said(u, K, d) = {}
      BY <1>6
    <3>2. ~(e.call = d /\ e.kind \in K)
      BY <1>4
    <3>3. Said(t, K, d) = {1 + k : k \in Said(u, K, d)}
      BY <1>8, <3>2
    <3>4. QED BY <3>1, <3>3
  <2>3. BracketStep(t, d)
    <3>1. "resolved" \notin {"evaluation_started"} /\ "resolved" \notin TerminalKinds
      BY DEF TerminalKinds
    <3>2. QED
      BY <2>1, <2>2, <3>1, Kinds DEF BracketStep
  <2>4. CASE d = c
    <3>1. Said(u, {"resolved"}, c) = {}
      BY <1>2, <1>6, Kinds
    <3>2. Said(t, {"resolved"}, c) = {1}
      BY <1>4, <1>8, <3>1, Kinds
    <3>3. entry[c] \notin Decided /\ entry'[c] = "approved" /\ "approved" \in Decided
      BY <1>1 DEF Decided
    <3>4. DecisionStep(t, c)
      BY <1>4, <1>8, <3>2, <3>3 DEF DecisionStep
    <3>5. QED
      BY <2>3, <2>4, <3>4
  <2>5. CASE d \in R
    <3>1. d # c /\ entry[d] \notin Decided /\ entry'[d] = "approved" /\ "approved" \in Decided
      BY <1>1, <1>2, <2>5 DEF Decided
    <3>2. PICK k \in DOMAIN u : Said(u, {"resolved"}, d) = {k} /\ u[k].answer = "approved"
      BY <1>6, <2>5
    <3>3. Said(t, {"resolved"}, d) = {1 + j : j \in Said(u, {"resolved"}, d)}
      BY <1>4, <1>8, <3>1, Kinds
    <3>4. Said(t, {"resolved"}, d) = {1 + k}
      BY <3>2, <3>3
    <3>5. 1 + k \in DOMAIN t /\ t[1 + k].answer = "approved"
      BY <1>8, <3>2
    <3>6. DecisionStep(t, d)
      BY <3>1, <3>4, <3>5 DEF DecisionStep
    <3>7. QED
      BY <2>3, <3>6
  <2>6. CASE d # c /\ d \notin R
    <3>1. Said(u, EventKind, d) = {}
      BY <1>6, <2>6, Kinds
    <3>2. Said(t, EventKind, d) = {1 + j : j \in Said(u, EventKind, d)}
      BY <1>4, <1>8, <2>6, Kinds
    <3>3. entry'[d] = entry[d]
      BY <1>1, <2>6
    <3>4. DecisionStep(t, d)
      BY <3>1, <3>2, <3>3 DEF DecisionStep
    <3>5. QED
      BY <2>3, <3>4
  <2>7. QED BY <2>4, <2>5, <2>6
<1>14. Publishes(t)
  BY <1>7, <1>8, <1>9, <1>11, <1>12, <1>13 DEF Publishes
<1>15. QED
  BY <1>14

LEMMA SetPolicyPublishes ==
  ASSUME StreamInv, NEW p \in Policies, SetPolicy(p)
  PROVE  \E t : Publishes(t)
<1> DEFINE R == Released(p, Pending)
           t == Cascade(R)
<1>1. /\ TypeOK /\ entry \in [Call -> Entry] /\ log \in Seq(Event) /\ registry \in Seq(Call)
      /\ RegistryInv /\ gate' = gate
      /\ entry' = [d \in Call |-> IF d \in R THEN "approved" ELSE entry[d]]
      /\ log' = log \o t
  BY DEF StreamInv, TypeOK, GatesTyped, SetPolicy
<1>2. /\ R \in SUBSET Call
      /\ \A d \in R : Gated(d) /\ entry[d] = "pending" /\ AutoApproves(p, d)
  BY DEF Released, Pending, Gated
<1>3. t \in Seq(Event)
  BY <1>1, <1>2, CascadeFacts
<1> HIDE DEF R
<1>4. /\ Acted(t)
      /\ \A k \in DOMAIN t : t[k].ground = "policy" /\ t[k].call \in R
      /\ \A d \in Call \ R, K \in SUBSET EventKind : Said(t, K, d) = {}
      /\ \A d \in R : \E k \in DOMAIN t : Said(t, {"resolved"}, d) = {k} /\ t[k].answer = "approved"
      /\ \A d \in R, K \in SUBSET EventKind : "resolved" \notin K => Said(t, K, d) = {}
  BY <1>1, <1>2, SaidCascade
<1> HIDE DEF t
<1>5. Caused(t)
  BY <1>2, <1>4 DEF Caused, Unforced
<1>6. ASSUME NEW d \in Call PROVE DecisionStep(t, d) /\ BracketStep(t, d)
  <2>1. BracketOpen(d)' = BracketOpen(d)
    BY <1>1 DEF BracketOpen
  <2>2. \A K \in SUBSET EventKind : "resolved" \notin K => Said(t, K, d) = {}
    BY <1>4
  <2>3. BracketStep(t, d)
    <3>1. "resolved" \notin {"evaluation_started"} /\ "resolved" \notin TerminalKinds
      BY DEF TerminalKinds
    <3>2. QED
      BY <2>1, <2>2, <3>1, Kinds DEF BracketStep
  <2>4. CASE d \in R
    <3>1. entry[d] \notin Decided /\ entry'[d] = "approved" /\ "approved" \in Decided
      BY <1>1, <1>2, <2>4 DEF Decided
    <3>2. \E k \in DOMAIN t : Said(t, {"resolved"}, d) = {k} /\ t[k].answer = "approved"
      BY <1>4, <2>4
    <3>3. DecisionStep(t, d)
      BY <3>1, <3>2 DEF DecisionStep
    <3>4. QED
      BY <2>3, <3>3
  <2>5. CASE d \notin R
    <3>1. entry'[d] = entry[d] /\ Said(t, EventKind, d) = {}
      BY <1>1, <1>4, <2>5, Kinds
    <3>2. DecisionStep(t, d)
      BY <3>1 DEF DecisionStep
    <3>3. QED
      BY <2>3, <3>2
  <2>6. QED BY <2>4, <2>5
<1>7. Publishes(t)
  BY <1>1, <1>3, <1>4, <1>5, <1>6 DEF Publishes
<1>8. QED
  BY <1>7
LEMMA StepPublishes ==
  ASSUME StreamInv, [Next]_vars
  PROVE  \E t : Publishes(t)
<1>0. TypeOK
  BY DEF StreamInv
<1>1. ASSUME log' = log, entry' = entry, gate' = gate PROVE \E t : Publishes(t)
  <2>1. \A d \in Call : entry'[d] = entry[d] /\ BracketOpen(d)' = BracketOpen(d)
    BY <1>1 DEF BracketOpen
  <2>2. QED
    BY <1>0, <1>1, <2>1, Silent
<1>2. CASE UNCHANGED vars
  BY <1>1, <1>2 DEF vars
<1>3. ASSUME NEW c \in Call, EvaluatorReturns(c) PROVE \E t : Publishes(t)
  BY <1>1, <1>3 DEF EvaluatorReturns
<1>4. ASSUME NEW g \in Criteria, SetCriteria(g) PROVE \E t : Publishes(t)
  BY <1>1, <1>4 DEF SetCriteria
<1>5. CASE Close
  BY <1>1, <1>5 DEF Close
<1>6. QED
  BY <1>2, <1>3, <1>4, <1>5, RequestPublishes, SupersedePublishes, UnwindPublishes,
     ConcludePublishes, PassGatePublishes, RememberPublishes, DecidePublishes,
     SetPolicyPublishes DEF Next

----------------------------------------------------------------------------
(* The stream invariant holds *)

LEMMA NextRegistry ==
  ASSUME GatesTyped, RegistryInv, \A c \in Call : GateOK(c), [Next]_vars
  PROVE  RegistryInv'
<1>1. ASSUME registry' = registry, \A d \in Call : Gated(d)' <=> Gated(d) PROVE RegistryInv'
  BY <1>1 DEF RegistryInv
<1>2. ASSUME NEW c \in Call, Request(c) PROVE RegistryInv'
  <2>1. CASE AutoApproves(policy, c)
    BY <1>1, <1>2, <2>1 DEF Request, Gated
  <2>2. CASE ~AutoApproves(policy, c)
    <3>1. /\ registry \in Seq(Call) /\ registry' = Append(registry, c) /\ ~Gated(c)
          /\ entry' = [entry EXCEPT ![c] = "pending"] /\ entry \in [Call -> Entry]
      BY <1>2, <2>2 DEF Request, GatesTyped, GateOK
    <3>2. PICK n \in Nat : n = Len(registry)
      BY <3>1, LenProperties
    <3>3. /\ DOMAIN registry = 1 .. n /\ DOMAIN registry' = 1 .. n + 1
          /\ registry'[n + 1] = c /\ \A i \in 1 .. n : registry'[i] = registry[i]
      BY <3>1, <3>2, AppendProperties, LenProperties
    <3>4. \A i \in 1 .. n : registry[i] # c
      BY <3>1, <3>3 DEF RegistryInv
    <3>5. \A i, j \in DOMAIN registry' : registry'[i] = registry'[j] => i = j
      <4> SUFFICES ASSUME NEW i \in 1 .. n + 1, NEW j \in 1 .. n + 1,
                          registry'[i] = registry'[j]
                   PROVE  i = j
        BY <3>3
      <4>1. CASE i \in 1 .. n /\ j \in 1 .. n
        BY <3>3, <4>1 DEF RegistryInv
      <4>2. CASE i = n + 1 /\ j \in 1 .. n
        BY <3>3, <3>4, <4>2
      <4>3. CASE j = n + 1 /\ i \in 1 .. n
        BY <3>3, <3>4, <4>3
      <4>4. CASE i = n + 1 /\ j = n + 1
        BY <4>4
      <4>5. QED
        BY <3>2, <4>1, <4>2, <4>3, <4>4
    <3>6. \A d \in Call : Gated(d)' <=> \E i \in DOMAIN registry' : registry'[i] = d
      <4> SUFFICES ASSUME NEW d \in Call
                   PROVE  Gated(d)' <=> \E i \in 1 .. n + 1 : registry'[i] = d
        BY <3>3
      <4>1. CASE d = c
        <5>1. Gated(c)' /\ n + 1 \in 1 .. n + 1
          BY <3>1, <3>2 DEF Gated
        <5>2. QED
          BY <3>3, <4>1, <5>1
      <4>2. CASE d # c
        <5>1. Gated(d)' <=> \E i \in 1 .. n : registry[i] = d
          BY <3>1, <3>3, <4>2 DEF Gated, RegistryInv
        <5>2. \A i \in 1 .. n + 1 : i \in 1 .. n \/ i = n + 1
          BY <3>2
        <5>3. \A i \in 1 .. n : i \in 1 .. n + 1
          BY <3>2
        <5>4. QED
          BY <3>3, <4>2, <5>1, <5>2, <5>3
      <4>3. QED BY <4>1, <4>2
    <3>7. QED
      BY <3>5, <3>6 DEF RegistryInv
  <2>3. QED BY <2>1, <2>2
<1>3. CASE UNCHANGED vars
  BY <1>1, <1>3 DEF vars, Gated
<1>4. ASSUME NEW c \in Call,
             EvaluatorReturns(c) \/ Supersede(c) \/ Unwind(c)
      PROVE  RegistryInv'
  BY <1>1, <1>4 DEF EvaluatorReturns, Supersede, Unwind, Gated
<1>5. ASSUME NEW c \in Call, Conclude(c) PROVE RegistryInv'
  <2>1. registry' = registry
    BY <1>5 DEF Conclude
  <2>2. CASE entry' = entry
    BY <1>1, <2>1, <2>2 DEF Gated
  <2>3. CASE entry' # entry
    <3>1. entry' = [entry EXCEPT ![c] = DecisionOf(evaluator[c])]
          /\ DecisionOf(evaluator[c]) # "none"
      BY <1>5, <2>3 DEF Conclude
    <3>2. Gated(c)
      BY <1>5 DEF Conclude, CanConclude, GateOK, Busy
    <3>3. \A d \in Call : Gated(d)' <=> Gated(d)
      BY <3>1, <3>2 DEF Gated, GatesTyped
    <3>4. QED
      BY <1>1, <2>1, <3>3
  <2>4. QED BY <2>2, <2>3
<1>6. ASSUME NEW c \in Call, PassGate(c) PROVE RegistryInv'
  <2>1. Gated(c)
    BY <1>6 DEF PassGate, GateOK, Busy
  <2>2. \A d \in Call : Gated(d)' <=> Gated(d)
    BY <1>6, <2>1 DEF PassGate, Gated, GatesTyped
  <2>3. QED
    BY <1>1, <1>6, <2>2 DEF PassGate
<1>7. ASSUME NEW c \in Call, Remember(c) PROVE RegistryInv'
  <2>1. \A d \in Call : Gated(d)' <=> Gated(d)
    BY <1>7 DEF Remember, CanDecide, Released, Pending, Gated
  <2>2. QED
    BY <1>1, <1>7, <2>1 DEF Remember
<1>8. ASSUME NEW c \in Call, NEW decision \in Decided, Decide(c, decision) PROVE RegistryInv'
  <2>1. \A d \in Call : Gated(d)' <=> Gated(d)
    BY <1>8 DEF Decide, CanDecide, Decided, Gated, GatesTyped
  <2>2. QED
    BY <1>1, <1>8, <2>1 DEF Decide
<1>9. ASSUME NEW p \in Policies, SetPolicy(p) PROVE RegistryInv'
  <2>1. \A d \in Call : Gated(d)' <=> Gated(d)
    BY <1>9 DEF SetPolicy, Released, Pending, Gated
  <2>2. QED
    BY <1>1, <1>9, <2>1 DEF SetPolicy
<1>10. CASE (\E g \in Criteria : SetCriteria(g)) \/ Close
  BY <1>1, <1>10 DEF SetCriteria, Close, Gated
<1>11. QED
  BY <1>2, <1>3, <1>4, <1>5, <1>6, <1>7, <1>8, <1>9, <1>10 DEF Next

LEMMA NextGateOK ==
  ASSUME GatesTyped, \A c \in Call : GateOK(c), [Next]_vars, NEW d \in Call
  PROVE  GateOK(d)'
<1> USE DEF GateOK, Gated, GatesTyped
<1>1. CASE UNCHANGED vars
  BY <1>1 DEF vars
<1>2. ASSUME NEW c \in Call, Request(c) PROVE GateOK(d)'
  BY <1>2 DEF Request, Busy
<1>3. ASSUME NEW c \in Call, EvaluatorReturns(c) PROVE GateOK(d)'
  BY <1>3 DEF EvaluatorReturns
<1>4. ASSUME NEW c \in Call, Supersede(c) PROVE GateOK(d)'
  BY <1>4 DEF Supersede, Busy
<1>5. ASSUME NEW c \in Call, Unwind(c) PROVE GateOK(d)'
  BY <1>5 DEF Unwind, Busy
<1>6. ASSUME NEW c \in Call, Conclude(c) PROVE GateOK(d)'
  BY <1>6 DEF Conclude, CanConclude, Busy
<1>7. ASSUME NEW c \in Call, PassGate(c) PROVE GateOK(d)'
  BY <1>7 DEF PassGate, Settled, Decided, Busy, Entry
<1>8. ASSUME NEW c \in Call, Remember(c) PROVE GateOK(d)'
  BY <1>8 DEF Remember, CanDecide, Released, Pending
<1>9. ASSUME NEW c \in Call, NEW decision \in Decided, Decide(c, decision) PROVE GateOK(d)'
  BY <1>9 DEF Decide, CanDecide, Decided
<1>10. ASSUME NEW p \in Policies, SetPolicy(p) PROVE GateOK(d)'
  BY <1>10 DEF SetPolicy, Released, Pending
<1>11. CASE (\E g \in Criteria : SetCriteria(g)) \/ Close
  BY <1>11 DEF SetCriteria, Close
<1>12. QED
  BY <1>1, <1>2, <1>3, <1>4, <1>5, <1>6, <1>7, <1>8, <1>9, <1>10, <1>11 DEF Next
LEMMA ActedAndCaused == (EndedIsActedOn <=> Acted(log)) /\ (CauseBeforeEffect <=> Caused(log))
  BY DEF EndedIsActedOn, Acted, CauseBeforeEffect, Caused, Unforced

LEMMA InitStream == Init => StreamInv
<1> SUFFICES ASSUME Init PROVE StreamInv
  OBVIOUS
<1>1. TypeOK /\ NoPendingAllowed
  BY InitGates, InitAllowed, EmptySeq DEF Init, TypeOK
<1>2. RegistryInv
  BY DEF Init, RegistryInv, Gated
<1>3. ASSUME NEW c \in Call PROVE GateOK(c) /\ ResolvedOK(c) /\ BracketOK(c)
  <2>1. \A K \in SUBSET EventKind : About(K, c) = {}
    BY DEF Init, About
  <2>2. GateOK(c)
    BY DEF Init, GateOK, Gated, Busy
  <2>3. ResolvedOK(c)
    BY <2>1, Kinds DEF Init, ResolvedOK, Decided
  <2>4. BracketOK(c)
    BY <2>1, Kinds DEF Init, BracketOK, BracketOpen
  <2>5. QED BY <2>2, <2>3, <2>4
<1>4. EndedIsActedOn /\ CauseBeforeEffect
  BY DEF Init, EndedIsActedOn, CauseBeforeEffect
<1>5. QED
  BY <1>1, <1>2, <1>3, <1>4 DEF StreamInv

LEMMA NextStream == StreamInv /\ [Next]_vars => StreamInv'
<1> SUFFICES ASSUME StreamInv, [Next]_vars PROVE StreamInv'
  OBVIOUS
<1>1. /\ GatesTyped /\ log \in Seq(Event) /\ NoPendingAllowed /\ RegistryInv
      /\ EndedIsActedOn /\ CauseBeforeEffect
      /\ \A c \in Call : GateOK(c) /\ ResolvedOK(c) /\ BracketOK(c)
  BY DEF StreamInv, TypeOK
<1>2. PICK t : Publishes(t)
  BY StepPublishes
<1>3. t \in Seq(Event) /\ log' = log \o t /\ Acted(t) /\ Caused(t)
  BY <1>2 DEF Publishes
<1>4. TypeOK'
  BY <1>1, <1>3, NextGates, Joined DEF TypeOK
<1>5. NoPendingAllowed' /\ RegistryInv'
  BY <1>1, NextAllowed, NextRegistry
<1>6. EndedIsActedOn'
  <2>1. Acted(log')
    BY <1>1, <1>3, ActedAndCaused, ActedJoined
  <2>2. QED
    BY <2>1 DEF EndedIsActedOn, Acted
<1>7. CauseBeforeEffect'
  <2>1. Caused(log')
    BY <1>1, <1>3, ActedAndCaused, CausedJoined
  <2>2. QED
    BY <2>1 DEF CauseBeforeEffect, Caused, Unforced
<1>8. \A c \in Call : GateOK(c)' /\ ResolvedOK(c)' /\ BracketOK(c)'
  BY <1>1, <1>2, NextGateOK, DecisionKept, BracketKept
<1>9. QED
  BY <1>4, <1>5, <1>6, <1>7, <1>8 DEF StreamInv

LEMMA StreamIsTrueFollows == StreamInv => StreamIsTrue
<1> SUFFICES ASSUME StreamInv PROVE StreamIsTrue
  OBVIOUS
<1>1. ASSUME NEW c \in Call
      PROVE  /\ GateOK(c) /\ ResolvedOK(c)
             /\ \A k \in EventKind : Events(k, c) \subseteq About(EventKind, c)
             /\ Events("resolved", c) = About({"resolved"}, c)
  BY DEF StreamInv, Events, About
<1>2. PublishedOnce
  <2> SUFFICES ASSUME NEW c \in Call
               PROVE  /\ Cardinality(Events("resolved", c)) = IF entry[c] \in Decided THEN 1 ELSE 0
                      /\ \A i \in Events("resolved", c) : log[i].answer = entry[c]
    BY DEF PublishedOnce
  <2>1. CASE entry[c] \in Decided
    <3>1. PICK i : Events("resolved", c) = {i} /\ log[i].answer = entry[c]
      BY <1>1, <2>1 DEF ResolvedOK
    <3>2. Cardinality({i}) = 1
      BY FS_Singleton
    <3>3. QED
      BY <2>1, <3>1, <3>2
  <2>2. CASE entry[c] \notin Decided
    <3>1. Events("resolved", c) = {}
      BY <1>1, <2>2 DEF ResolvedOK
    <3>2. QED
      BY <2>2, <3>1, FS_EmptySet
  <2>3. QED BY <2>1, <2>2
<1>3. DecisionRules
  <2> SUFFICES ASSUME NEW c \in Call
               PROVE  /\ gate[c] = "dispatched" /\ Events("requested", c) # {}
                           => \E i \in Events("resolved", c) : log[i].answer = "approved"
                      /\ gate[c] = "refused"
                           => \A i \in Events("resolved", c) : log[i].answer = "denied"
    BY DEF DecisionRules
  <2>1. ASSUME gate[c] = "dispatched", Events("requested", c) # {}
        PROVE  \E i \in Events("resolved", c) : log[i].answer = "approved"
    <3>1. Gated(c)
      BY <1>1, <2>1 DEF ResolvedOK, EventKind
    <3>2. entry[c] = "approved" /\ entry[c] \in Decided
      BY <1>1, <2>1, <3>1 DEF GateOK, Gated, Decided
    <3>3. PICK i \in DOMAIN log : Events("resolved", c) = {i} /\ log[i].answer = entry[c]
      BY <1>1, <3>2 DEF ResolvedOK
    <3>4. QED
      BY <3>2, <3>3
  <2>2. ASSUME gate[c] = "refused"
        PROVE  \A i \in Events("resolved", c) : log[i].answer = "denied"
    <3>1. entry[c] = "denied"
      BY <1>1, <2>2 DEF GateOK
    <3>2. QED
      BY <1>2, <3>1 DEF PublishedOnce
  <2>3. QED BY <2>1, <2>2
<1>4. QED
  BY <1>2, <1>3 DEF StreamIsTrue, StreamInv

\* What the stream says of a gated call is what was done with it, whoever decided it:
\* one decision, published as it was taken, after whatever caused it.
THEOREM StreamTheorem == Spec => []StreamIsTrue
<1>1. QED
  BY InitStream, NextStream, StreamIsTrueFollows, PTL DEF Spec

\* A decided call keeps its decision, against a second answer, a change of policy,
\* an evaluator and the close; and a closing agent's evaluator decides nothing.
THEOREM DecisionsTheorem == Spec => FirstDecisionWins
<1>1. StreamInv /\ [Next]_vars =>
        [/\ \A c \in Call : entry[c] \in Decided => entry'[c] = entry[c]
         /\ \A i \in DOMAIN log' \ DOMAIN log : closed => log'[i].ground # "auto_mode"]_vars
  <2> SUFFICES ASSUME StreamInv, [Next]_vars
               PROVE  /\ \A c \in Call : entry[c] \in Decided => entry'[c] = entry[c]
                      /\ \A i \in DOMAIN log' \ DOMAIN log :
                           closed => log'[i].ground # "auto_mode"
    OBVIOUS
  <2>1. log \in Seq(Event)
    BY DEF StreamInv, TypeOK
  <2>2. PICK t : Publishes(t)
    BY StepPublishes
  <2>3. \A c \in Call : entry[c] \in Decided => entry'[c] = entry[c]
    BY <2>2 DEF Publishes, DecisionStep
  <2>4. ASSUME NEW i \in DOMAIN log' \ DOMAIN log, closed
        PROVE  log'[i].ground # "auto_mode"
    <3>1. t \in Seq(Event) /\ log' = log \o t
      BY <2>2 DEF Publishes
    <3>2. PICK k \in DOMAIN t : log'[i] = t[k]
      <4>1. PICK k \in DOMAIN t : i = Len(log) + k
        BY <2>1, <2>4, <3>1, Heard
      <4>2. log'[Len(log) + k] = t[k]
        BY <2>1, <3>1, Heard
      <4>3. QED BY <4>1, <4>2
    <3>3. QED
      BY <2>2, <2>4, <3>2 DEF Publishes
  <2>5. QED BY <2>3, <2>4
<1>2. QED
  BY <1>1, InitStream, NextStream, PTL DEF Spec, FirstDecisionWins

----------------------------------------------------------------------------
(* Brackets, for evaluators that answer in the type they promise *)

NoneRaised == \A c \in Call : gate[c] # "raised" /\ evaluator[c] # "malformed"

LEMMA BracketFollows == StreamInv /\ NoneRaised => BracketClosedOnce
<1> SUFFICES ASSUME StreamInv, NoneRaised, NEW c \in Call
             PROVE  /\ Cardinality(Terminals(c)) <= Cardinality(Events("evaluation_started", c))
                    /\ gate[c] \notin {"evaluating", "settling"}
                         => Cardinality(Terminals(c)) = Cardinality(Events("evaluation_started", c))
  BY DEF BracketClosedOnce
<1>1. /\ BracketOK(c) /\ Terminals(c) = About(TerminalKinds, c)
      /\ Events("evaluation_started", c) = About({"evaluation_started"}, c)
  BY DEF StreamInv, Terminals, Events, About, TerminalKinds
<1>2. /\ Cardinality({}) = 0 /\ \A i : Cardinality({i}) = 1
  BY FS_EmptySet, FS_Singleton
<1>3. CASE BracketOpen(c)
  <2>1. Terminals(c) = {} /\ \E i : Events("evaluation_started", c) = {i}
    BY <1>1, <1>3 DEF BracketOK
  <2>2. Cardinality(Terminals(c)) = 0 /\ Cardinality(Events("evaluation_started", c)) = 1
    BY <1>2, <2>1
  <2>3. gate[c] \in {"evaluating", "settling"}
    BY <1>3 DEF BracketOpen, NoneRaised
  <2>4. QED
    BY <2>2, <2>3
<1>4. CASE ~BracketOpen(c)
  <2>1. CASE Terminals(c) = {} /\ Events("evaluation_started", c) = {}
    <3>1. Cardinality(Terminals(c)) = 0 /\ Cardinality(Events("evaluation_started", c)) = 0
      BY <1>2, <2>1
    <3>2. QED BY <3>1
  <2>2. CASE \E i, j : Events("evaluation_started", c) = {i} /\ Terminals(c) = {j}
    <3>1. Cardinality(Terminals(c)) = 1 /\ Cardinality(Events("evaluation_started", c)) = 1
      BY <1>2, <2>2
    <3>2. QED BY <3>1
  <2>3. QED
    BY <1>1, <1>4, <2>1, <2>2 DEF BracketOK
<1>5. QED BY <1>3, <1>4

LEMMA NextRaised ==
  ASSUME GatesTyped, "malformed" \notin EvaluatorAnswer, NoneRaised, [Next]_vars
  PROVE  NoneRaised'
<1> USE DEF NoneRaised, GatesTyped
<1>1. CASE UNCHANGED vars
  BY <1>1 DEF vars
<1>2. ASSUME NEW c \in Call, Request(c) PROVE NoneRaised'
  BY <1>2 DEF Request
<1>3. ASSUME NEW c \in Call, EvaluatorReturns(c) PROVE NoneRaised'
  BY <1>3 DEF EvaluatorReturns
<1>4. ASSUME NEW c \in Call, Supersede(c) PROVE NoneRaised'
  BY <1>4 DEF Supersede
<1>5. ASSUME NEW c \in Call, Unwind(c) PROVE NoneRaised'
  BY <1>5 DEF Unwind
<1>6. ASSUME NEW c \in Call, Conclude(c) PROVE NoneRaised'
  BY <1>6 DEF Conclude
<1>7. ASSUME NEW c \in Call, PassGate(c) PROVE NoneRaised'
  BY <1>7 DEF PassGate
<1>8. ASSUME NEW c \in Call, Remember(c) PROVE NoneRaised'
  BY <1>8 DEF Remember
<1>9. ASSUME NEW c \in Call, NEW decision \in Decided, Decide(c, decision) PROVE NoneRaised'
  BY <1>9 DEF Decide
<1>10. ASSUME NEW p \in Policies, SetPolicy(p) PROVE NoneRaised'
  BY <1>10 DEF SetPolicy
<1>11. CASE (\E g \in Criteria : SetCriteria(g)) \/ Close
  BY <1>11 DEF SetCriteria, Close
<1>12. QED
  BY <1>1, <1>2, <1>3, <1>4, <1>5, <1>6, <1>7, <1>8, <1>9, <1>10, <1>11 DEF Next

\* Of an evaluator that raises or answers with a decision, every evaluation is opened and
\* closed once, and closed before its call goes on; one whose answer is neither leaves a
\* bracket open when it is superseded.
THEOREM BracketTheorem ==
  ASSUME "malformed" \notin EvaluatorAnswer
  PROVE  Spec => []BracketClosedOnce
<1>1. Init => StreamInv /\ NoneRaised
  BY InitStream DEF Init, NoneRaised
<1>2. StreamInv /\ NoneRaised /\ [Next]_vars => (StreamInv /\ NoneRaised)'
  BY NextStream, NextRaised DEF StreamInv, TypeOK
<1>3. StreamInv /\ NoneRaised => BracketClosedOnce
  BY BracketFollows
<1>4. QED
  BY <1>1, <1>2, <1>3, PTL DEF Spec
=============================================================================
