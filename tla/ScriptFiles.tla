---------------------------- MODULE ScriptFiles ----------------------------
(***************************************************************************)
(* The file operations of Code Mode scripts: how one operation of a script *)
(* (open, Path.mkdir, Path.rename, ...) is carried out as a sequence of    *)
(* fs_* tool calls on the backend of its mount, each behind the approval   *)
(* gate; the in-memory backend with its seed and its budget; a backend of  *)
(* activities, whose attempts may be lost and made again; and the index of *)
(* what the session has seen of such a backend.  A script is blocked in    *)
(* its operation, so its operations never overlap; those of two scripts    *)
(* do.  A file's content is modelled by its size.                          *)
(***************************************************************************)
EXTENDS Integers, SequencesExt

CONSTANTS
  Script,     \* scripts that share the mount
  Scenes,     \* sessions: backend, scripts, operations, faults
  Name,       \* the names of files and directories
  MaxDepth,   \* bound: a path's length
  MaxSize,    \* bound: a file's size on a backend without a budget
  MaxBytes    \* max_bytes, the budget of the in-memory backend

\* A scene: the kind of backend, the scripts that run on it and the operations they
\* call, what the seed loads (a function from paths to sizes), whether the approval
\* gate may refuse a call, and how many attempts an activity gets.
VARIABLES
  scene,
  tree,       \* the mount: the size of every file, and the directories but the root
  seeded,     \* InMemoryFileSystem._seeded
  index,      \* FileIndex.entries
  script,     \* where each script is in its operation
  before      \* the mount when the operation of a lone script began

vars == <<scene, tree, seeded, index, script, before>>

Root == <<>>
Path == BoundedSeq(Name, MaxDepth)
Parent(p) == IF p = Root THEN Root ELSE Front(p)
\* The path itself and the directories above it, the root left out.
Upwards(p) == {SubSeq(p, 1, i) : i \in 1 .. Len(p)}
Under(q, p) == IsPrefix(p, q)
\* p :> x and f @@ g, as definitions that proofs can use
At(p, x) == [q \in {p} |-> x]
Over(f, g) == [p \in DOMAIN f \cup DOMAIN g |-> IF p \in DOMAIN f THEN f[p] ELSE g[p]]
\* target / old.relative_to(path)
Rebased(q, p, target) == target \o SubSeq(q, Len(p) + 1, Len(q))

Operations == {"exists", "stat", "open", "read", "write", "append", "iterdir", "mkdir",
               "unlink", "rmdir", "rename"}
\* FileOp: data is the size of what is written, flags an open's mode or a mkdir's options.
Op(name, p, target, data, flags) ==
  [name |-> name, path |-> p, target |-> target, data |-> data, flags |-> flags]

\* Operations name paths, and an open has one of its modes; the seed loads files.
ASSUME SceneAssumption ==
  /\ MaxBytes \in Nat
  /\ \A sc \in Scenes :
       /\ sc.scripts \subseteq Script /\ sc.tries \in Nat \ {0} /\ sc.lossy \in BOOLEAN
       /\ DOMAIN sc.seed \subseteq Seq(Name) \ {Root} /\ IsFiniteSet(DOMAIN sc.seed)
       /\ sc.seed \in [DOMAIN sc.seed -> Nat]
       /\ \A op \in sc.ops :
            /\ {op.path, op.target} \subseteq Seq(Name) /\ op.data \in Nat
            /\ op.name \in Operations
            /\ op.name = "open" => op.flags \in {{"r"}, {"w"}, {"a"}}

Errno == {"ENOENT", "EISDIR", "ENOTDIR", "EEXIST", "ENOTEMPTY", "EINVAL", "EACCES", "ENOSPC"}
\* What a backend call returns, or the error it raises.
Answer(kind, size, names) == [kind |-> kind, size |-> size, names |-> names]
Just(kind) == Answer(kind, 0, {})

----------------------------------------------------------------------------
(* The in-memory backend *)

IsDir(t, p) == p = Root \/ p \in t.dirs
IsFile(t, p) == p \in DOMAIN t.files
Listed(t, p) == {Last(q) : q \in {q \in t.dirs \cup DOMAIN t.files : q # Root /\ Parent(q) = p}}

\* _check_budget: the files put replace what was there.
OverBudget(t, put) ==
  /\ scene.backend = "memory"
  /\ SumFunction(t.files) + SumFunction(put)
       > MaxBytes + SumFunctionOnSet(t.files, DOMAIN put \cap DOMAIN t.files)

\* Mutant: the directories are added before those they replace are removed.
ApplyAddingFirst(t, c) ==
  [files |-> Over(c.put, Restrict(t.files, DOMAIN t.files \ c.drop)),
   dirs |-> (t.dirs \cup c.mkdirs) \ c.rmdirs]
\* A change: files dropped, directories removed, directories added, files put.
Apply(t, c) ==
  [files |-> Over(c.put, Restrict(t.files, DOMAIN t.files \ c.drop)),
   dirs |-> (t.dirs \ c.rmdirs) \cup c.mkdirs]
NoChange == [drop |-> {}, rmdirs |-> {}, mkdirs |-> {}, put |-> <<>>]

Done(t, change) == [tree |-> Apply(t, change), answer |-> Just("ok")]
Reply(t, answer) == [tree |-> t, answer |-> answer]
Refuse(t, errno) == Reply(t, Just(errno))

Stat(t, p) ==
  Reply(t, IF IsDir(t, p) THEN Just("dir")
           ELSE IF IsFile(t, p) THEN Answer("file", t.files[p], {}) ELSE Just("none"))

Read(t, p) ==
  IF IsDir(t, p) THEN Refuse(t, "EISDIR")
  ELSE IF ~IsFile(t, p) THEN Refuse(t, "ENOENT")
  ELSE Reply(t, Answer("data", t.files[p], {}))

List(t, p) ==
  IF IsDir(t, p) THEN Reply(t, Answer("names", 0, Listed(t, p))) ELSE Refuse(t, "ENOTDIR")

\* Mutant: a file may be written below a directory that is not there.
WriteAnywhere(t, p, size) ==
  IF IsDir(t, p) THEN Refuse(t, "EISDIR")
  ELSE IF OverBudget(t, At(p, size)) THEN Refuse(t, "ENOSPC")
  ELSE Done(t, [NoChange EXCEPT !.put = At(p, size)])
Write(t, p, size) ==
  IF IsDir(t, p) THEN Refuse(t, "EISDIR")
  ELSE IF ~IsDir(t, Parent(p)) THEN Refuse(t, "ENOENT")
  ELSE IF OverBudget(t, At(p, size)) THEN Refuse(t, "ENOSPC")
  ELSE Done(t, [NoChange EXCEPT !.put = At(p, size)])

Mkdir(t, p) ==
  IF IsDir(t, p) \/ IsFile(t, p) THEN Refuse(t, "EEXIST")
  ELSE IF ~IsDir(t, Parent(p)) THEN Refuse(t, "ENOENT")
  ELSE Done(t, [NoChange EXCEPT !.mkdirs = {p}])

Delete(t, p) ==
  IF IsFile(t, p) THEN Done(t, [NoChange EXCEPT !.drop = {p}])
  ELSE IF p \notin t.dirs THEN Refuse(t, "ENOENT")
  ELSE IF Listed(t, p) # {} THEN Refuse(t, "ENOTEMPTY")
  ELSE Done(t, [NoChange EXCEPT !.rmdirs = {p}])

\* A directory moves with everything under it, onto nothing or an empty directory.
MoveOf(t, p, target) ==
  LET files == {q \in DOMAIN t.files : Under(q, p)}
      dirs == {q \in t.dirs : Under(q, p)}
  IN  [drop |-> files,
       rmdirs |-> dirs \cup (t.dirs \cap {target}),
       mkdirs |-> {Rebased(q, p, target) : q \in dirs},
       put |-> [r \in {Rebased(q, p, target) : q \in files} |->
                  t.files[Rebased(r, target, p)]]]

Rename(t, p, target) ==
  IF ~IsDir(t, Parent(target)) THEN Refuse(t, "ENOENT")
  ELSE IF IsFile(t, p) THEN
    IF IsDir(t, target) THEN Refuse(t, "EISDIR")
    ELSE Done(t, [NoChange EXCEPT !.drop = {p}, !.put = At(target, t.files[p])])
  ELSE IF p \notin t.dirs THEN Refuse(t, "ENOENT")
  ELSE IF Under(target, p) THEN Refuse(t, "EINVAL")
  ELSE IF IsFile(t, target) \/ (IsDir(t, target) /\ Listed(t, target) # {})
       THEN Refuse(t, "ENOTEMPTY")
  ELSE Done(t, MoveOf(t, p, target))

\* One fs_* tool call on the backend.
Call(t, call) ==
  CASE call.tool = "stat" -> Stat(t, call.path)
    [] call.tool = "read" -> Read(t, call.path)
    [] call.tool = "list" -> List(t, call.path)
    [] call.tool = "write" -> Write(t, call.path, call.size)
    [] call.tool = "mkdir" -> Mkdir(t, call.path)
    [] call.tool = "delete" -> Delete(t, call.path)
    [] call.tool = "rename" -> Rename(t, call.path, call.target)

----------------------------------------------------------------------------
(* perform: what an operation does next, given what its calls have answered *)

Ask(tool, p) == [tool |-> tool, path |-> p, target |-> Root, size |-> 0, out |-> "none"]
Put(p, size) == [Ask("write", p) EXCEPT !.size = size]
Move(p, target) == [Ask("rename", p) EXCEPT !.target = target]
\* The operation is over: it returned, or raised.
End(out) == [Ask("none", Root) EXCEPT !.out = out]
Return == End("ok")

\* existing(): the operation goes on only where there is something, and nothing that
\* is wrong for it.
Existing(op, seen, wrong, errno, next) ==
  IF seen = <<>> THEN Ask("stat", op.path)
  ELSE IF seen[1].kind = "none" THEN End("ENOENT")
  ELSE IF seen[1].kind = wrong THEN End(errno)
  ELSE next

Open(op, seen) ==
  IF seen = <<>> THEN Ask("stat", op.path)
  ELSE IF seen[1].kind = "dir" THEN End("EISDIR")
  ELSE IF op.flags = {"r"} /\ seen[1].kind = "none" THEN End("ENOENT")
  ELSE IF Len(seen) = 1 /\ (op.flags = {"w"} \/ (op.flags = {"a"} /\ seen[1].kind = "none"))
       THEN Put(op.path, 0)
  ELSE Return

\* Mutant: a missing file is created first.
AppendCreating(op, seen) ==
  IF seen = <<>> THEN Ask("stat", op.path)
  ELSE IF seen[1].kind = "dir" THEN End("EISDIR")
  ELSE IF Len(seen) = 1 THEN IF seen[1].kind = "none" THEN Put(op.path, 0) ELSE Ask("read", op.path)
  ELSE IF Len(seen) = 2 THEN Put(op.path, seen[2].size + op.data)
  ELSE Return

\* The file is read and written whole.
AppendTo(op, seen) ==
  IF seen = <<>> THEN Ask("stat", op.path)
  ELSE IF seen[1].kind = "dir" THEN End("EISDIR")
  ELSE IF seen[1].kind = "none"
       THEN IF Len(seen) = 1 THEN Put(op.path, op.data) ELSE Return
  ELSE IF Len(seen) = 1 THEN Ask("read", op.path)
  ELSE IF Len(seen) = 2 THEN Put(op.path, seen[2].size + op.data)
  ELSE Return

\* The ancestors that were missing when they were looked up, outermost first.
Missing(op, seen) ==
  LET upTo[i \in 0 .. Len(op.path) - 1] ==
        IF i = 0 THEN <<>>
        ELSE IF seen[i + 1].kind = "none" THEN Append(upTo[i - 1], SubSeq(op.path, 1, i))
        ELSE upTo[i - 1]
  IN  upTo[Len(op.path) - 1]

\* _mkdir: every ancestor is looked up, outermost first, and only then are the
\* missing ones made.
MakeDir(op, seen) ==
  LET n == Len(seen)
      ancestors == [i \in 1 .. Len(op.path) - 1 |-> SubSeq(op.path, 1, i)]
      looked == n - 1
      todo == Append(Missing(op, seen), op.path)
      made == n - 1 - Len(ancestors)
  IN  IF n = 0 THEN Ask("stat", op.path)
      ELSE IF seen[1].kind # "none"
           THEN IF "exist_ok" \in op.flags /\ seen[1].kind = "dir" THEN Return ELSE End("EEXIST")
      ELSE IF looked \in DOMAIN ancestors /\ seen[n].kind = "none" /\ "parents" \notin op.flags
           THEN End("ENOENT")
      ELSE IF looked \in DOMAIN ancestors /\ seen[n].kind = "file" THEN End("ENOTDIR")
      ELSE IF looked < Len(ancestors) THEN Ask("stat", ancestors[n])
      ELSE IF made < Len(todo) THEN Ask("mkdir", todo[made + 1])
      ELSE Return

RemoveDir(op, seen) ==
  IF op.path = Root THEN End("EACCES")
  ELSE Existing(op, seen, "file", "ENOTDIR",
         IF Len(seen) = 1 THEN Ask("list", op.path)
         ELSE IF seen[2].names # {} THEN End("ENOTEMPTY")
         ELSE IF Len(seen) = 2 THEN Ask("delete", op.path)
         ELSE Return)

Perform(op, seen) ==
  LET once(call) == IF Len(seen) = 1 THEN call ELSE Return IN
  CASE op.name = "exists" -> IF seen = <<>> THEN Ask("stat", op.path) ELSE Return
    [] op.name = "stat" -> Existing(op, seen, "nothing", "", Return)
    [] op.name = "open" -> Open(op, seen)
    [] op.name = "read" -> Existing(op, seen, "dir", "EISDIR", once(Ask("read", op.path)))
    [] op.name = "write" -> IF seen = <<>> THEN Put(op.path, op.data) ELSE Return
    [] op.name = "append" -> AppendTo(op, seen)
    [] op.name = "iterdir" -> Existing(op, seen, "file", "ENOTDIR", once(Ask("list", op.path)))
    [] op.name = "mkdir" -> MakeDir(op, seen)
    [] op.name = "unlink" -> Existing(op, seen, "dir", "EISDIR", once(Ask("delete", op.path)))
    [] op.name = "rmdir" -> RemoveDir(op, seen)
    [] op.name = "rename" -> Existing(op, seen, "nothing", "", once(Move(op.path, op.target)))

----------------------------------------------------------------------------
(* The index: what the session has seen of the mount *)

Entry(kind, size) == [kind |-> kind, size |-> size]

\* _put_dir, _drop, _put_file
PutDir(i, p) ==
  [q \in DOMAIN i \cup Upwards(p) |-> IF q \in Upwards(p) THEN Entry("dir", 0) ELSE i[q]]
Drop(i, p) == Restrict(i, {q \in DOMAIN i : ~Under(q, p)})
PutFile(i, p, size) == Over(At(p, Entry("file", size)), PutDir(i, Parent(p)))

\* A listing drops the children that are gone, and adds the new ones by name.
SawList(i, p, names) ==
  LET listed == {Append(p, name) : name \in names}
      seen == PutDir(i, p)
      kept == {q \in DOMAIN seen :
                 Len(q) > Len(p) /\ Under(q, p) => SubSeq(q, 1, Len(p) + 1) \in listed}
  IN  [q \in kept \cup listed |-> IF q \in kept THEN seen[q] ELSE Entry("named", 0)]

Moved(i, p, target) ==
  LET moving == {q \in DOMAIN i : Under(q, p)}
      moved == [r \in {Rebased(q, p, target) : q \in moving} |-> i[Rebased(r, target, p)]]
  IN  Over(moved, PutDir(Drop(Drop(i, target), p), Parent(target)))

\* Mutant: a path that is not there stays in the index.
RecordedPresent(i, call, answer) ==
  CASE call.tool = "stat" /\ answer.kind = "none" -> i
    [] call.tool = "stat" /\ answer.kind = "dir" -> PutDir(i, call.path)
    [] call.tool = "stat" /\ answer.kind = "file" -> PutFile(i, call.path, answer.size)
    [] call.tool = "read" -> PutFile(i, call.path, answer.size)
    [] call.tool = "list" -> SawList(i, call.path, answer.names)
    [] call.tool = "write" -> PutFile(i, call.path, call.size)
    [] call.tool = "mkdir" -> PutDir(i, call.path)
    [] call.tool = "delete" -> i
    [] call.tool = "rename" -> Moved(i, call.path, call.target)
\* What a call that succeeded shows of the mount.
Recorded(i, call, answer) ==
  CASE call.tool = "stat" /\ answer.kind = "none" -> Drop(i, call.path)
    [] call.tool = "stat" /\ answer.kind = "dir" -> PutDir(i, call.path)
    [] call.tool = "stat" /\ answer.kind = "file" -> PutFile(i, call.path, answer.size)
    [] call.tool = "read" -> PutFile(i, call.path, answer.size)
    [] call.tool = "list" -> SawList(i, call.path, answer.names)
    [] call.tool = "write" -> PutFile(i, call.path, call.size)
    [] call.tool = "mkdir" -> PutDir(i, call.path)
    [] call.tool = "delete" -> Drop(i, call.path)
    [] call.tool = "rename" -> Moved(i, call.path, call.target)

----------------------------------------------------------------------------
(* The driver *)

Lone == \E s \in Script : scene.scripts = {s}
InMemory == scene.backend = "memory"
AsGiven == [files |-> scene.seed, dirs |-> UNION {Upwards(Parent(p)) : p \in DOMAIN scene.seed}]
Nothing == [files |-> <<>>, dirs |-> {}]

Idle == [stage |-> "ready", op |-> Op("exists", Root, Root, 0, {}), seen |-> <<>>,
         reply |-> Just("none"), tries |-> 0, out |-> "none"]

\* An in-memory mount is filled by its seed; another backend holds what it holds.
Init ==
  /\ scene \in Scenes
  /\ tree = IF InMemory THEN Nothing ELSE AsGiven
  /\ seeded = (~InMemory \/ scene.seed = <<>>)
  /\ index = <<>>
  /\ script = [s \in Script |-> Idle]
  /\ before = Nothing

NextCall(s) == Perform(script[s].op, script[s].seen)

\* The operation's next call goes to its gate, or the operation ends.
Going(op, seen) ==
  LET next == Perform(op, seen)
  IN  IF next.tool = "none" THEN [Idle EXCEPT !.op = op, !.out = next.out]
      ELSE [Idle EXCEPT !.stage = "call", !.op = op, !.seen = seen]
Ended(s, out) == [script EXCEPT ![s] = [Idle EXCEPT !.op = script[s].op, !.out = out]]

Fits(op) ==
  /\ op.name = "append" /\ ~InMemory /\ IsFile(tree, op.path) => tree.files[op.path] < MaxSize
  /\ op.name = "rename" => \A q \in tree.dirs \cup DOMAIN tree.files :
                             Under(q, op.path) => Rebased(q, op.path, op.target) \in Path

\* The script stops at a file operation; the mount is seeded before its first one.
Begin(s) ==
  /\ script[s].stage = "ready"
  /\ \E op \in scene.ops :
       /\ Fits(op)
       /\ script' = [script EXCEPT ![s] =
                       IF seeded THEN Going(op, <<>>) ELSE [Idle EXCEPT !.stage = "seed", !.op = op]]
  /\ before' = IF Lone THEN tree ELSE before
  /\ UNCHANGED <<scene, tree, seeded, index>>

\* The approval gate refuses the call, and the operation raises.
Denied(s) ==
  /\ scene.gated
  /\ script[s].stage \in {"seed", "call"}
  /\ script' = Ended(s, "denied")
  /\ UNCHANGED <<scene, tree, seeded, index, before>>

RunSeed(s) ==
  /\ script[s].stage = "seed"
  /\ script' = [script EXCEPT ![s].stage = "seeding"]
  /\ UNCHANGED <<scene, tree, seeded, index, before>>

\* _seed_now, once its function has returned: the files go in whatever is there by now.
Seeded(s) ==
  /\ script[s].stage = "seeding"
  /\ seeded' = TRUE
  /\ IF OverBudget(tree, scene.seed)
     THEN script' = Ended(s, "unseeded") /\ UNCHANGED <<tree, before>>
     ELSE /\ tree' = Apply(tree, [NoChange EXCEPT !.mkdirs = AsGiven.dirs, !.put = scene.seed])
          /\ script' = [script EXCEPT ![s] = Going(script[s].op, <<>>)]
          /\ before' = IF Lone THEN tree' ELSE before
  /\ UNCHANGED <<scene, index>>

\* The answer reaches the operation: an error ends it.
Answered(s, answer) ==
  IF answer.kind \in Errno THEN Ended(s, answer.kind)
  ELSE [script EXCEPT ![s] = Going(script[s].op, Append(script[s].seen, answer))]

\* The gate lets the call through to a backend in workflow memory.
CallMemory(s) ==
  /\ InMemory
  /\ script[s].stage = "call"
  /\ LET done == Call(tree, NextCall(s))
     IN  tree' = done.tree /\ script' = Answered(s, done.answer)
  /\ UNCHANGED <<scene, seeded, index, before>>

\* The gate lets the call through to an activity.
Send(s) ==
  /\ ~InMemory
  /\ script[s].stage = "call"
  /\ script' = [script EXCEPT ![s].stage = "sent", ![s].tries = 1]
  /\ UNCHANGED <<scene, tree, seeded, index, before>>

Attempt(s) ==
  /\ script[s].stage = "sent"
  /\ LET done == Call(tree, NextCall(s))
     IN  /\ tree' = done.tree
         /\ script' = [script EXCEPT ![s].stage = "run", ![s].reply = done.answer]
  /\ UNCHANGED <<scene, seeded, index, before>>

\* The worker is lost before the attempt's result is reported: it is made again, as
\* often as the retry policy allows.
Lose(s) ==
  /\ scene.lossy
  /\ script[s].stage = "run"
  /\ script' = IF script[s].tries = scene.tries THEN Ended(s, "lost")
               ELSE [script EXCEPT ![s].stage = "sent", ![s].tries = @ + 1,
                                   ![s].reply = Just("none")]
  /\ UNCHANGED <<scene, tree, seeded, index, before>>

\* The result is back in the workflow: the index is brought up to date, and the
\* operation goes on.
Report(s) ==
  /\ script[s].stage = "run"
  /\ index' = IF script[s].reply.kind \in Errno THEN index
              ELSE Recorded(index, NextCall(s), script[s].reply)
  /\ script' = Answered(s, script[s].reply)
  /\ UNCHANGED <<scene, tree, seeded, before>>

Next == \E s \in scene.scripts :
  \/ Begin(s) \/ Denied(s) \/ RunSeed(s) \/ Seeded(s)
  \/ CallMemory(s) \/ Send(s) \/ Attempt(s) \/ Lose(s) \/ Report(s)

Spec == Init /\ [][Next]_vars

----------------------------------------------------------------------------
(* Properties *)

Stages == {"ready", "seed", "seeding", "call", "sent", "run"}
Kinds == Errno \cup {"none", "dir", "file", "data", "names", "ok"}

IsTree(t) ==
  /\ t = [files |-> t.files, dirs |-> t.dirs] /\ t.dirs \subseteq Seq(Name) \ {Root}
  /\ DOMAIN t.files \subseteq Seq(Name) \ {Root} /\ t.files \in [DOMAIN t.files -> Nat]

TypeOK ==
  /\ scene \in Scenes
  /\ IsTree(tree) /\ IsTree(before)
  /\ seeded \in BOOLEAN
  /\ DOMAIN index \subseteq Seq(Name) \ {Root}
  /\ \A p \in DOMAIN index : index[p].kind \in {"dir", "file", "named"}
  /\ \A s \in Script :
       /\ script[s].stage \in Stages
       /\ script[s].reply.kind \in Kinds
       /\ script[s].tries \in 0 .. scene.tries
       /\ script[s].stage \in {"call", "sent", "run"} => NextCall(s).tool # "none"

\* The mount is a tree whatever two scripts do to it at once: everything in it is in a
\* directory, no path is a file and a directory, and a budget is kept.
TreeIsWhole ==
  /\ TypeOK
  /\ \A p \in tree.dirs \cup DOMAIN tree.files : p # Root /\ IsDir(tree, Parent(p))
  /\ tree.dirs \cap DOMAIN tree.files = {}
  /\ InMemory => SumFunction(tree.files) <= MaxBytes

\* What an operation means, without the calls it is made of.
Exists(t, p) == IsDir(t, p) \/ IsFile(t, p)
SizeAt(t, p) == IF IsFile(t, p) THEN t.files[p] ELSE 0
With(t, p, size) == [t EXCEPT !.files = Over(At(p, size), @)]
CanHold(t, p, size) ==
  /\ ~IsDir(t, p) /\ IsDir(t, Parent(p))
  /\ InMemory => SumFunction(With(t, p, size).files) <= MaxBytes
Written(op, t) ==
  CASE op.name = "append" -> SizeAt(t, op.path) + op.data
    [] op.name = "open" -> IF op.flags = {"w"} THEN 0 ELSE SizeAt(t, op.path)
    [] OTHER -> op.data

Succeeds(op, t) ==
  LET p == op.path q == op.target IN
  CASE op.name = "exists" -> TRUE
    [] op.name = "stat" -> Exists(t, p)
    [] op.name = "read" \/ (op.name = "open" /\ op.flags = {"r"}) -> IsFile(t, p)
    [] op.name \in {"write", "append"} \/ (op.name = "open" /\ op.flags # {"r"}) ->
         CanHold(t, p, Written(op, t))
    [] op.name = "iterdir" -> IsDir(t, p)
    [] op.name = "mkdir" ->
         IF Exists(t, p) THEN "exist_ok" \in op.flags /\ IsDir(t, p)
         ELSE /\ \A r \in Upwards(p) : ~IsFile(t, r)
              /\ "parents" \in op.flags \/ IsDir(t, Parent(p))
    [] op.name = "unlink" -> IsFile(t, p)
    [] op.name = "rmdir" -> p \in t.dirs /\ Listed(t, p) = {}
    [] op.name = "rename" ->
         /\ p # Root /\ Exists(t, p) /\ IsDir(t, Parent(q))
         /\ IF IsFile(t, p) THEN ~IsDir(t, q)
            ELSE ~Under(q, p) /\ ~IsFile(t, q) /\ (IsDir(t, q) => q # Root /\ Listed(t, q) = {})

Effect(op, t) ==
  LET p == op.path q == op.target
      after(r) == IF Under(r, p) THEN Rebased(r, p, q) ELSE r IN
  CASE op.name \in {"write", "append"} \/ (op.name = "open" /\ op.flags # {"r"}) ->
         With(t, p, Written(op, t))
    [] op.name = "mkdir" -> [t EXCEPT !.dirs = @ \cup Upwards(p)]
    [] op.name = "unlink" -> [t EXCEPT !.files = Restrict(@, DOMAIN @ \ {p})]
    [] op.name = "rmdir" -> [t EXCEPT !.dirs = @ \ {p}]
    [] op.name = "rename" ->
         LET files == {r \in DOMAIN t.files : Under(r, p) \/ after(r) # q} IN
         [files |-> [n \in {after(r) : r \in files} |->
                       t.files[CHOOSE r \in files : after(r) = n]],
          dirs |-> {after(r) : r \in t.dirs}]
    [] OTHER -> t

\* Operations an activity may carry out twice.
Repeatable == Operations \ {"mkdir", "unlink", "rmdir", "rename"}

\* Alone on its mount, an operation either does what it means, whole, or raises where
\* it must and leaves the mount as it was; the approval gate can cut only a mkdir in
\* two; and of the writes, an attempt that was lost is not seen.
OperationIsWhole ==
  \A s \in scene.scripts :
    Lone /\ script[s].stage = "ready" /\ script[s].out # "none" =>
      LET op == script[s].op
          out == script[s].out IN
      /\ out = "ok" => Succeeds(op, before) /\ tree = Effect(op, before)
      /\ out \in Errno /\ (scene.lossy => op.name \in Repeatable) =>
           ~Succeeds(op, before) /\ tree = before
      /\ out \in {"denied", "unseeded"} => op.name = "mkdir" \/ tree = before
      /\ out = "lost" => op.name = "mkdir" \/ tree \in {before, Effect(op, before)}

\* Whoever else is at work, an operation changes the mount in its last call only, so
\* nothing is half done when a call is refused or finds the mount changed; a mkdir of
\* parents is the exception.
ChangesLast ==
  [][\A s \in scene.scripts :
       script[s].stage = "call" /\ tree' # tree /\ script'[s] # script[s] =>
         script'[s].stage = "ready" \/ script[s].op.name = "mkdir"]_vars

\* The index of a lone session whose calls are all reported says only what is so, and,
\* of a mount that was empty, all of it.
IndexIsTrue ==
  Lone /\ ~scene.lossy /\ ~InMemory
    /\ (\A s \in scene.scripts : script[s].stage # "run") =>
      /\ \A p \in DOMAIN index :
           CASE index[p].kind = "dir" -> IsDir(tree, p)
             [] index[p].kind = "file" -> IsFile(tree, p) /\ tree.files[p] = index[p].size
             [] index[p].kind = "named" -> Exists(tree, p)
      /\ scene.seed = <<>> => DOMAIN index = tree.dirs \cup DOMAIN tree.files

\* "The runner calls it once, before the first operation on the mount": what a script
\* has written is not overwritten by the seed.
SeedComesFirst ==
  [][\A s \in scene.scripts :
       script[s].stage = "seeding" /\ script'[s].stage # "seeding" =>
         \A p \in DOMAIN tree.files : tree'.files[p] = tree.files[p]]_vars
=============================================================================
