--------------------------- MODULE DeclaredState ---------------------------
(***************************************************************************)
(* Declared agent state (harness/state): an immutable value that its       *)
(* author changes through a draft inside a mutate() block.  The draft      *)
(* records one JSON Patch operation per change, the exit of the block      *)
(* rebuilds the value from the nodes marked dirty, and the operations are  *)
(* published on the agent's stream, where a client folds them into a copy. *)
(*                                                                         *)
(* The value has a list and a dict of one kind of model with one field:    *)
(* groups, a list of named groups, and index, a dict of them.  A group is  *)
(* its name.  A draft node stands for a group once it was read; its parent *)
(* is the container it was read from and its key the place there, which    *)
(* structural changes of a list keep up to date.  Positions count from 1.  *)
(***************************************************************************)
EXTENDS Naturals, FiniteSets, SequencesExt

CONSTANTS
  Name,       \* what a group is called; a group is its name
  Key,        \* the keys of the dict
  Task,       \* the coroutines of the agent's workflow that change the state
  InitialDoc, \* the values the declaration may start with
  NoTask,     \* no mutate() block is open
  None,       \* no group under a key, no value in an operation, no place in a container
  Dash,       \* the pointer token "-"
  Careless,   \* what authors may do that keeps the state layer from following
  MaxLen, MaxNodes, MaxWrites, MaxVersion, MaxRewinds \* bounds

\* A handle kept after its group was taken out; a list multiplied with drafts in it;
\* a sort whose comparison raises half way, the exception caught inside the block.
ASSUME CarelessAssumption == Careless \subseteq {"detached", "repeat", "sortRaises"}
ASSUME TokenAssumption == NoTask \notin Task /\ None # Dash /\ {None, Dash} \cap (Key \cup Nat) = {}
ASSUME NameAssumption == Name \cap Nat = {} /\ None \notin Name \cup Nat

Place == {"groups", "index"}
Dict(S) == [Key -> S \cup {None}] \* None where the key is absent
DocOf(S) == [groups : Seq(S), index : Dict(S)]
Doc == DocOf(Name)
ASSUME InitialAssumption == InitialDoc \subseteq Doc

\* An operation at the root ("" in place), at a container, at one of its groups, or at
\* the name of one.
IsOp(o) ==
  /\ DOMAIN o = {"op", "place", "key", "leaf", "value"}
  /\ o.op \in {"add", "replace", "remove"}
  /\ o.place \in Place \cup {""}
  /\ o.key \in Key \cup Nat \cup {Dash, None}
  /\ o.leaf \in BOOLEAN
  /\ o.value \in IF o.place = "" THEN Doc
                  ELSE IF o.key # None THEN Name \cup {None}
                  ELSE IF o.place = "groups" THEN Seq(Name) ELSE Dict(Name)

\* DraftMeta of a group's draft node, and the name field of the node itself.
Node == [place : Place, key : Key \cup Nat, original : Name, name : Name, dirty : BOOLEAN]

\* A cell of a working container: a group at rest, or the number of its draft node.
Cell == Name \cup Nat

\* A draft tree and its session.  A container's meta holds the value it was drafted from.
IsDraft(d) ==
  /\ DOMAIN d = {"alive", "raising", "original", "work", "nodes", "dirty", "ops"}
  /\ d.alive \in BOOLEAN /\ d.raising \in BOOLEAN
  /\ d.original \in Doc
  /\ d.work \in DocOf(Cell)
  /\ d.nodes \in Seq(Node)
  /\ d.dirty \subseteq Place \cup {"root"}
  /\ \A i \in 1..Len(d.ops) : IsOp(d.ops[i])

Snapshot(n, doc) == [kind |-> "snapshot", version |-> n, value |-> doc]
Patch(n, ops) == [kind |-> "patch", version |-> n, ops |-> ops]

VARIABLES
  current,  \* _current
  version,  \* _version
  attached, \* _publish is the runner's, not _noop
  open,     \* _open: the task whose block is open
  draft,    \* the draft tree of each task's block
  stream,   \* what was published
  values,   \* history: the value each version published stood for
  doc,      \* the client's copy
  next,     \* the client's position in the stream
  writes, rewinds \* how much of the bounds is used

refVars == <<current, version, attached, open>>
clientVars == <<doc, next, rewinds>>
vars == <<refVars, draft, stream, values, clientVars, writes>>

FreshDraft(value) ==
  [alive |-> TRUE, raising |-> FALSE, original |-> value, work |-> value, nodes |-> <<>>, dirty |-> {}, ops |-> <<>>]

Empty == [groups |-> <<>>, index |-> [k \in Key |-> None]]

\* No draft node of a block that ended can be used.
Revoked == [FreshDraft(Empty) EXCEPT !.alive = FALSE]

\* The client's copy is absent, null (no snapshot was received) or a document.
NoDoc == [state |-> "absent", value |-> Empty, version |-> 0, error |-> FALSE]

TypeOK ==
  /\ current \in Doc
  /\ version \in Nat
  /\ attached \in BOOLEAN
  /\ open \in Task \cup {NoTask}
  /\ DOMAIN draft = Task /\ \A t \in Task : IsDraft(draft[t])
  /\ \A i \in 1..Len(stream) : stream[i].kind \in {"snapshot", "patch"} /\ stream[i].version \in Nat
  /\ values \in Seq(Doc)
  /\ doc \in [state : {"absent", "null", "doc"}, value : Doc, version : Nat, error : BOOLEAN]
  /\ next \in Nat /\ writes \in Nat /\ rewinds \in Nat

Init ==
  /\ current \in InitialDoc
  /\ version = 0
  /\ attached = FALSE
  /\ open = NoTask
  /\ draft = [t \in Task |-> Revoked]
  /\ stream = <<>> /\ values = <<>>
  /\ doc = NoDoc /\ next = 1
  /\ writes = 0 /\ rewinds = 0

-----------------------------------------------------------------------------
(* The draft tree. *)

Groups(d) == d.work.groups
Index(d) == d.work.index
IsNode(d, c) == c \in DOMAIN d.nodes
NameOf(d, c) == IF IsNode(d, c) THEN d.nodes[c].name ELSE c
Dump(d, f) == [x \in DOMAIN f |-> NameOf(d, f[x])]

\* The nodes that are where their meta says, and those an author's handle alone keeps.
InPlace(d) == {n \in DOMAIN d.nodes :
  \/ \E i \in DOMAIN Groups(d) : Groups(d)[i] = n
  \/ \E k \in DOMAIN Index(d) : Index(d)[k] = n}
Handles(d) == IF "detached" \in Careless THEN DOMAIN d.nodes ELSE InPlace(d)

\* Mutant: the walk up forgets the root.
DirtyButRoot(d, place) == d.dirty \cup {place}

\* mark_dirty, from a container up.
DirtyFrom(d, place) == IF place \in d.dirty THEN d.dirty ELSE d.dirty \cup {place, "root"}

Entry(op, place, key, value) == [op |-> op, place |-> place, key |-> key, leaf |-> FALSE, value |-> value]

\* _rec of a container
Rec(d, entry) ==
  [d EXCEPT !.dirty = DirtyFrom(d, entry.place), !.ops = Append(@, entry)]

\* Mutant: a structural change leaves the keys of the drafts behind it alone.
RekeyNothing(d, start) == d

\* _rekey: every draft from position start on learns its position, in ascending order.
Rekey(d, start) ==
  LET At(n) == {i \in start..Len(Groups(d)) : Groups(d)[i] = n}
  IN [d EXCEPT !.nodes = [n \in DOMAIN @ |->
        IF At(n) = {} THEN @[n] ELSE [@[n] EXCEPT !.key = Max(At(n))]]]

WithGroups(d, cells) == [d EXCEPT !.work.groups = cells]
Filled(f) == {x \in DOMAIN f : f[x] # None}

\* wrap: a group at rest gets a draft node where it stands; leaves and drafts stay.
Wrapped(d, place, key) ==
  LET cell == d.work[place][key]
      node == [place |-> place, key |-> key, original |-> cell, name |-> cell, dirty |-> FALSE]
  IN IF IsNode(d, cell) THEN d
     ELSE [d EXCEPT !.nodes = Append(@, node), !.work[place][key] = Len(d.nodes) + 1]

\* draft_set_field on a group: g.name = v
SetName(d, n, v) ==
  LET node == d.nodes[n]
      entry == [op |-> "replace", place |-> node.place, key |-> node.key, leaf |-> TRUE, value |-> v]
      up == IF node.dirty THEN d.dirty ELSE DirtyFrom(d, node.place)
  IN [d EXCEPT !.nodes[n].name = v, !.nodes[n].dirty = TRUE, !.dirty = up, !.ops = Append(@, entry)]

-----------------------------------------------------------------------------
(* The changes an author makes inside a block.  Validation and the refusal  *)
(* of draft nodes come before any change, so that a rejected value leaves   *)
(* the draft as it is: such a call is no step.                              *)

AppendGroup(d, v) == Rec(WithGroups(d, Append(Groups(d), v)), Entry("add", "groups", Dash, v))

InsertGroup(d, i, v) ==
  Rec(Rekey(WithGroups(d, InsertAt(Groups(d), i, v)), i), Entry("add", "groups", i, v))

\* The child draft at i, if any, is discarded.
SetGroup(d, i, v) == Rec(WithGroups(d, ReplaceAt(Groups(d), i, v)), Entry("replace", "groups", i, v))

\* __delitem__, remove, and pop, which reads the group it returns
RemoveGroup(d, i) ==
  Rec(Rekey(WithGroups(d, RemoveAt(Groups(d), i)), i), Entry("remove", "groups", i, None))

\* The changes of many places are published as the list they leave.
Republish(d) == Rec(d, Entry("replace", "groups", None, Dump(d, Groups(d))))

\* A slice i..j set to new groups or, with none, deleted; clear is the slice of all.
SetSlice(d, i, j, new) ==
  Republish(Rekey(WithGroups(d, SubSeq(Groups(d), 1, i - 1) \o new \o SubSeq(Groups(d), j + 1, Len(Groups(d)))), 1))

\* sort and reverse
Reordered(d, p) == WithGroups(d, [i \in DOMAIN Groups(d) |-> Groups(d)[p[i]]])
Reorder(d, p) == Republish(Rekey(Reordered(d, p), 1))

\* __imul__ by 0, 1 or 2
Repeat(d, n) ==
  LET once == Groups(d)
  IN Republish(Rekey(WithGroups(d, IF n = 0 THEN <<>> ELSE IF n = 1 THEN once ELSE once \o once), 1))

\* __setitem__ (update and setdefault of an absent key are made of it), where a key
\* that is there is replaced
SetKey(d, k, v) ==
  Rec([d EXCEPT !.work.index[k] = v],
      Entry(IF Index(d)[k] # None THEN "replace" ELSE "add", "index", k, v))

\* __delitem__, pop and popitem
RemoveKey(d, k) == Rec([d EXCEPT !.work.index[k] = None], Entry("remove", "index", k, None))

ClearIndex(d) ==
  LET none == [k \in Key |-> None]
  IN Rec([d EXCEPT !.work.index = none], Entry("replace", "index", None, none))

\* draft_set_field on the root: a field that is a container gets a new one, with a meta
\* of its own once it is read.  Only the root is dirty then.
SetField(d, place, new) ==
  [d EXCEPT !.work[place] = new, !.original[place] = new,
            !.dirty = (@ \ {place}) \cup {"root"},
            !.ops = Append(@, Entry("replace", place, None, new))]

Permutation(n) == {p \in [1..n -> 1..n] : \A i, j \in 1..n : p[i] = p[j] => i = j}
HasDrafts(d) == \E i \in DOMAIN Groups(d) : IsNode(d, Groups(d)[i])

-----------------------------------------------------------------------------
(* StateRef: blocks, whole replacements, publication. *)

\* commit: what was not marked dirty is the original, whatever its cells say.
CommitCell(d, c) ==
  IF ~IsNode(d, c) THEN c ELSE IF d.nodes[c].dirty THEN d.nodes[c].name ELSE d.nodes[c].original
CommitPlace(d, place) ==
  IF place \in d.dirty
  THEN [x \in DOMAIN d.work[place] |-> CommitCell(d, d.work[place][x])]
  ELSE d.original[place]
Commit(d) == [groups |-> CommitPlace(d, "groups"), index |-> CommitPlace(d, "index")]

\* _emit_patch, to the stream or to no one
Publish(n, value, ops) ==
  IF attached THEN /\ stream' = Append(stream, Patch(n, ops))
                   /\ values' = Append(values, value)
              ELSE UNCHANGED <<stream, values>>

Free == open = NoTask

\* mutate().__enter__: a second block, or one that is left open over an await, is refused.
Enter(t) ==
  /\ Free
  /\ ~draft[t].alive
  /\ version < MaxVersion
  /\ open' = t
  /\ draft' = [draft EXCEPT ![t] = FreshDraft(current)]
  /\ UNCHANGED <<current, version, attached, stream, values, clientVars, writes>>

\* The session revokes every draft node of the block, however it ends.
Leave(t) ==
  /\ draft[t].alive
  /\ open' = NoTask
  /\ draft' = [draft EXCEPT ![t] = Revoked]
  /\ UNCHANGED <<attached, clientVars, writes>>

\* __exit__ of a block that changed something
ExitCommit(t) ==
  /\ Leave(t)
  /\ "root" \in draft[t].dirty /\ ~draft[t].raising
  /\ current' = Commit(draft[t])
  /\ version' = version + 1
  /\ Publish(version + 1, current', draft[t].ops)

\* __exit__ with an exception of the block or of the commit, or with nothing dirty
ExitDiscard(t) == Leave(t) /\ UNCHANGED <<current, version, stream, values>>

\* set(): one replace of the whole document
Set(value) ==
  /\ Free
  /\ version < MaxVersion
  /\ current' = value
  /\ version' = version + 1
  /\ Publish(version + 1, value, <<Entry("replace", "", None, value)>>)
  /\ UNCHANGED <<attached, open, draft, clientVars, writes>>

\* Mutant: the version goes on from what was committed before the attachment.
AttachAsIs ==
  /\ ~attached /\ Free
  /\ attached' = TRUE
  /\ stream' = Append(stream, Snapshot(0, current))
  /\ values' = Append(values, current)
  /\ UNCHANGED <<current, version, open, draft, clientVars, writes>>

\* _attach: what was committed before was published to no one, so the version restarts.
Attach ==
  /\ ~attached /\ Free
  /\ attached' = TRUE
  /\ version' = 0
  /\ stream' = Append(stream, Snapshot(0, current))
  /\ values' = Append(values, current)
  /\ UNCHANGED <<current, open, draft, clientVars, writes>>

-----------------------------------------------------------------------------
(* Inside a block.  Validation and the refusal of draft nodes come before   *)
(* any change: a rejected value leaves the draft as it is.  Every use of a  *)
(* draft checks that its session is alive.                                  *)

Using(t) == draft[t].alive /\ ~draft[t].raising

\* Reading a group wraps it.
Read(t) ==
  /\ Using(t)
  /\ Len(draft[t].nodes) < MaxNodes
  /\ \E place \in Place : \E key \in Filled(draft[t].work[place]) :
       /\ ~IsNode(draft[t], draft[t].work[place][key])
       /\ draft' = [draft EXCEPT ![t] = Wrapped(@, place, key)]
  /\ UNCHANGED <<refVars, stream, values, clientVars, writes>>

Write(t, d) ==
  /\ Using(t)
  /\ writes < MaxWrites
  /\ writes' = writes + 1
  /\ draft' = [draft EXCEPT ![t] = d]
  /\ UNCHANGED <<refVars, stream, values, clientVars>>

New == {<<>>} \cup {<<v>> : v \in Name}

ChangeList(t) ==
  LET d == draft[t]
      n == Len(Groups(d))
  IN \/ \E i \in 1..n : Write(t, RemoveGroup(d, i))
     \/ \E i \in 1..n, v \in Name : Write(t, SetGroup(d, i, v))
     \/ n < MaxLen /\ \E v \in Name : Write(t, AppendGroup(d, v))
     \/ n < MaxLen /\ \E i \in 1..(n + 1), v \in Name : Write(t, InsertGroup(d, i, v))
     \/ \E i \in 1..(n + 1), j \in 0..n, new \in New :
          /\ j >= i - 1 /\ Len(new) + n - (j - i + 1) <= MaxLen
          /\ Write(t, SetSlice(d, i, j, new))
     \/ \E p \in Permutation(n) : Write(t, Reorder(d, p))
     \/ \E m \in 0..2 : n * m <= MaxLen /\ ("repeat" \in Careless \/ ~HasDrafts(d)) /\ Write(t, Repeat(d, m))

\* A sort whose comparison raises leaves the list in some order and records nothing.  The
\* exception leaves the block, unless the author is careless enough to catch it inside.
SortRaises(t) ==
  \E p \in Permutation(Len(Groups(draft[t]))) :
    Write(t, [Reordered(draft[t], p) EXCEPT !.raising = "sortRaises" \notin Careless])

ChangeDict(t) ==
  LET d == draft[t]
  IN \/ \E k \in Key, v \in Name : Write(t, SetKey(d, k, v))
     \/ \E k \in Filled(Index(d)) : Write(t, RemoveKey(d, k))
     \/ Write(t, ClearIndex(d))

ChangeField(t) ==
  LET d == draft[t]
  IN \/ \E new \in New : Write(t, SetField(d, "groups", new))
     \/ \E k \in Key, v \in Name : Write(t, SetField(d, "index", [x \in Key |-> IF x = k THEN v ELSE None]))
     \/ \E h \in Handles(d), v \in Name : Write(t, SetName(d, h, v))

-----------------------------------------------------------------------------
(* The client's fold (jsonPatch.ts, projection.ts). *)

Fail(v) == [ok |-> FALSE, value |-> v]
Done(v) == [ok |-> TRUE, value |-> v]

ApplyToList(v, o) ==
  LET n == Len(v.groups)
      at == IF o.key = Dash THEN n + 1 ELSE o.key
      limit == IF o.op = "add" THEN n + 1 ELSE n
      list == IF o.op = "add" THEN InsertAt(v.groups, at, o.value)
              ELSE IF o.op = "replace" THEN ReplaceAt(v.groups, at, o.value)
              ELSE RemoveAt(v.groups, at)
  IN IF at \in 1..limit THEN Done([v EXCEPT !.groups = list]) ELSE Fail(v)

ApplyToDict(v, o) ==
  IF o.op # "remove" THEN Done([v EXCEPT !.index = [@ EXCEPT ![o.key] = o.value]])
  ELSE IF v.index[o.key] # None THEN Done([v EXCEPT !.index[o.key] = None])
  ELSE Fail(v)

\* One operation; its parent has to be there.
Applied(v, o) ==
  IF o.place = "" THEN Done(o.value)
  ELSE IF o.key = None THEN Done([v EXCEPT ![o.place] = o.value])
  ELSE IF o.leaf
       THEN IF o.key \in Filled(v[o.place]) THEN Done([v EXCEPT ![o.place][o.key] = o.value]) ELSE Fail(v)
  ELSE IF o.place = "groups" THEN ApplyToList(v, o) ELSE ApplyToDict(v, o)

\* applyOps: in order, and none after one that could not be applied
ApplyOps(v, ops) ==
  FoldLeft(LAMBDA acc, o : IF acc.ok THEN Applied(acc.value, o) ELSE acc, Done(v), ops)

FoldSnapshot(e) == [state |-> "doc", value |-> e.value, version |-> e.version, error |-> FALSE]

\* A patch with no snapshot before it, one that was folded before, one behind a gap, the next.
FoldPatch(e) ==
  IF doc.state = "absent" THEN [NoDoc EXCEPT !.state = "null", !.version = e.version, !.error = TRUE]
  ELSE IF doc.error \/ e.version <= doc.version THEN doc
  ELSE IF e.version # doc.version + 1 THEN [doc EXCEPT !.error = TRUE]
  ELSE LET result == ApplyOps(doc.value, e.ops)
       IN [doc EXCEPT !.value = result.value, !.version = e.version, !.error = ~result.ok]

Receive ==
  /\ next <= Len(stream)
  /\ next' = next + 1
  /\ doc' = IF stream[next].kind = "snapshot" THEN FoldSnapshot(stream[next]) ELSE FoldPatch(stream[next])
  /\ UNCHANGED <<refVars, draft, stream, values, rewinds, writes>>

\* A client attaches to the agent in the middle, or again from an earlier offset.
Reattach ==
  /\ rewinds < MaxRewinds
  /\ rewinds' = rewinds + 1
  /\ next' \in IF doc.state = "absent" THEN 2..Len(stream) ELSE 1..(next - 1)
  /\ UNCHANGED <<refVars, draft, stream, values, doc, writes>>

Next ==
  \/ \E t \in Task :
       Enter(t) \/ Read(t) \/ ChangeList(t) \/ SortRaises(t) \/ ChangeDict(t) \/ ChangeField(t)
         \/ ExitCommit(t) \/ ExitDiscard(t)
  \/ \E value \in InitialDoc : Set(value)
  \/ Attach \/ Receive \/ Reattach

Spec == Init /\ [][Next]_vars

-----------------------------------------------------------------------------
(* Properties. *)

\* The copy of a client that received the snapshot is the value the state had at the
\* version the copy claims, and no patch it folds fails, wherever it resumed: the core
\* guarantee of the state layer (tests/state/test_property.py), from draft to client.
ReplicaAgrees ==
  doc.state = "doc" => ~doc.error /\ doc.value = values[doc.version + 1]

\* The dirty marks lose nothing: what the commit would rebuild is what the author sees in
\* the draft, and a block is dirty exactly when it recorded operations (commit, mark_dirty).
DirtyIsWhole == TypeOK /\
  \A t \in Task : Using(t) =>
    LET d == draft[t]
        seen == [groups |-> Dump(d, Groups(d)), index |-> Dump(d, Index(d))]
    IN /\ Commit(d) = seen
       /\ "root" \in d.dirty <=> d.ops # <<>>
       /\ "root" \notin d.dirty => seen = current

\* What was published since the attachment is the history of the state, version by
\* version and up to the current one: no commit is unpublished, published twice or
\* numbered out of turn, and blocks that raised or changed nothing left no trace.
StreamIsHistory ==
  attached =>
    /\ Len(stream) = version + 1 /\ Len(values) = version + 1
    /\ \A i \in 1..Len(stream) : stream[i].version = i - 1
    /\ values[version + 1] = current

=============================================================================
