--------------------------- MODULE MCToolApproval ---------------------------
(* Instances of ToolApproval for TLC. *)
EXTENDS ToolApproval, TLC

\* c1 and c2 call one tool, which no flag of the policy lets through; the other
\* tool is inherently safe.
CONSTANTS c1, c2, read, write

MCToolOf == [c \in Call |-> write]

Base == [skip |-> FALSE, safe |-> FALSE, tools |-> {}, auto |-> FALSE]
AutoMode == [Base EXCEPT !.auto = TRUE]
\* Switching auto mode off and on.
Switch == {Base, AutoMode}

\* One call of each tool, and the ways a handler relaxes a policy: skipped approvals, inherently
\* safe tools, an allow-listed tool.
MCToolOfEach == (c1 :> read) @@ (c2 :> write)
Relaxing ==
  {Base, AutoMode,
   [Base EXCEPT !.skip = TRUE], [AutoMode EXCEPT !.safe = TRUE], [Base EXCEPT !.tools = {write}]}
=============================================================================
