--------------------------- MODULE MCAgentRunner ---------------------------
(* Instances of AgentRunner for TLC. *)
EXTENDS AgentRunner, TLC

\* Messages are named for what their handler declares: a1 and a2 may join an
\* open turn, q1 and q2 queue, r1 is rejected while the agent is busy.
CONSTANTS a1, a2, q1, q2, r1

MCMidTurn ==
  [m \in Message |-> IF m \in {q1, q2} THEN "queue" ELSE IF m = r1 THEN "reject" ELSE "accept"]

\* No action reads the log except to mint a fresh steering id, so without
\* steering states that differ only in the log have the same future.
WithoutLog == <<phase, closeReason, turnVars, queueVars, task, admission, steering>>
=============================================================================
