--------------------------- MODULE MCScriptFiles ---------------------------
(* Instances of ScriptFiles for TLC. *)
EXTENDS ScriptFiles

CONSTANTS s1, s2, na, nb, nx

A == <<na>>
B == <<nb>>
AX == <<na, nx>>
AXX == <<na, nx, nx>>

Plain(names, paths) == {Op(name, p, Root, 0, {}) : name \in names, p \in paths}
Writing(names, paths) == {Op(name, p, Root, 1, {}) : name \in names, p \in paths}
Opening(paths) == {Op("open", p, Root, 0, {mode}) : mode \in {"r", "w", "a"}, p \in paths}
Making(paths) == {Op("mkdir", p, Root, 0, flags) : flags \in SUBSET {"parents", "exist_ok"}, p \in paths}
Moving(pairs) == {Op("rename", pair[1], pair[2], 0, {}) : pair \in pairs}

Some == {A, B, AX, AXX}
\* Every operation, on paths above, below and beside each other.
EveryOp ==
  Plain({"exists", "read"}, {AX}) \cup Plain({"stat", "iterdir"}, {Root, A, AX})
  \cup Plain({"unlink", "rmdir"}, Some) \cup Plain({"rmdir"}, {Root})
  \cup Opening({B, AX}) \cup Writing({"write", "append"}, {A, B, AXX})
  \cup Writing({"write"}, {Root}) \cup Making(Some)
  \cup Moving({<<A, B>>, <<B, A>>, <<B, AX>>, <<AX, B>>, <<A, AX>>, <<AX, A>>, <<AX, AXX>>,
               <<B, B>>, <<AX, AX>>, <<Root, A>>, <<A, Root>>})
\* The operations that change a mount, on the paths two scripts meet on.
Meeting ==
  Plain({"unlink", "rmdir"}, {A, B, AX}) \cup Writing({"append"}, {B, AX})
  \cup {Op("mkdir", p, Root, 0, {"parents", "exist_ok"}) : p \in {A, AXX}}
  \cup Moving({<<A, B>>, <<B, A>>, <<AX, B>>})

None == <<>>
OneFile == AX :> 1
TooMuch == AX :> 2
MCScenes == {
  \* one script, with a seed that fits the budget, or not
  [backend |-> "memory", scripts |-> {s1}, ops |-> EveryOp, seed |-> OneFile, gated |-> TRUE,
   lossy |-> FALSE, tries |-> 3],
  [backend |-> "memory", scripts |-> {s1}, ops |-> Meeting, seed |-> TooMuch, gated |-> FALSE,
   lossy |-> FALSE, tries |-> 3],
  \* one script on a backend of activities, with files it has not seen, or without
  [backend |-> "activity", scripts |-> {s1}, ops |-> EveryOp, seed |-> OneFile, gated |-> FALSE,
   lossy |-> FALSE, tries |-> 3],
  [backend |-> "activity", scripts |-> {s1}, ops |-> EveryOp, seed |-> None, gated |-> FALSE,
   lossy |-> FALSE, tries |-> 3],
  [backend |-> "activity", scripts |-> {s1}, ops |-> Meeting, seed |-> None, gated |-> FALSE,
   lossy |-> TRUE, tries |-> 2],
  \* two scripts at once
  [backend |-> "memory", scripts |-> {s1, s2}, ops |-> Meeting, seed |-> None, gated |-> TRUE,
   lossy |-> FALSE, tries |-> 3]}
\* Two scripts whose first operations meet a mount that has not been seeded.
MCSeeding == {
  [backend |-> "memory", scripts |-> {s1, s2}, ops |-> Opening({AX}), seed |-> OneFile, gated |-> FALSE,
   lossy |-> FALSE, tries |-> 3]}
=============================================================================
