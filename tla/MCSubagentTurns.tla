-------------------------- MODULE MCSubagentTurns --------------------------
(* Instances of SubagentTurns for TLC. *)
EXTENDS SubagentTurns

\* a1 and h1 may join the turn they find open, q1 waits for a turn of its own, r1
\* would not wait; h1 is the message of a human.
CONSTANTS a1, q1, r1, h1

MCMidTurn ==
  [m \in Send \cup Other |-> IF m = q1 THEN "queue" ELSE IF m = r1 THEN "reject" ELSE "accept"]

\* Bound on a run's disturbances: a message of another sender, a lost attempt, a
\* cancelled send, one whose turn is over, a stop, the close of the parent, and the
\* close and termination of the child by others.
CONSTANT MaxDisturbances
Count(condition) == IF condition THEN 1 ELSE 0
FewDisturbances ==
  Cardinality({m \in Other : slot[m] # 0})
    + crashes + Cardinality({s \in Send : call[s] \in {"noTurn", "cancelled"}})
    + Count(stop # "idle") + Count(closed)
    + Count(closing /\ stop \notin {"signalled", "done"})
    + Count(stopped /\ (active # {} \/ ~closing)) <= MaxDisturbances
=============================================================================
