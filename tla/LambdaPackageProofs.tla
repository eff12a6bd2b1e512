------------------------- MODULE LambdaPackageProofs -------------------------
(***************************************************************************)
(* The properties of LambdaPackage for every number of runs, sources,      *)
(* wheels, edits and replacements.                                         *)
(*                                                                         *)
(* The argument for the snapshot is that of a double collect.  When the    *)
(* first reading ends, the tree t of that moment is at least what was read *)
(* and at most what the tree is now; an input that then reads as it did    *)
(* was in t what was read; when all of them do, t is what was read.        *)
(***************************************************************************)
EXTENDS LambdaPackage, TLAPS

Collected == {"hash", "open", "rehash", "install", "compare", "confirm"}
Confirmed == {"build", "link", "leave", "print", "success"}
Linked == {"leave", "print", "success"}

\* t separates the first reading from the present, and equals the first
\* reading where that is confirmed.
Between(r, t) ==
    \A i \in Inputs :
        /\ run[r].first[i] <= t[i] /\ t[i] <= tree[i]
        /\ At(r, "confirm") /\ i \notin run[r].todo => run[r].first[i] = t[i]

\* What was read so far is not from the future, and the present is recorded.
Reading(r) ==
    At(r, "read") =>
        /\ run[r].todo \subseteq Inputs /\ tree \in trees[r]
        /\ \A i \in Inputs \ run[r].todo : run[r].first[i] <= tree[i]

Separated(r) == run[r].at \in Collected => \E t \in trees[r] : Between(r, t)

Snapshot(r) == run[r].at \in Confirmed => run[r].first \in trees[r]

\* Only an assembly comes to the installer and to the output, and what passed
\* the comparison with the stage is locked.
Installed(r) ==
    IF run[r].kind = "preflight"
    THEN run[r].at \notin {"install", "compare", "build", "link", "leave"}
    ELSE run[r].at \in {"confirm"} \cup Confirmed =>
             \A w \in Wheels : run[r].inspected[w] = "locked"

Owned(r) ==
    run[r].at \in Linked /\ run[r].kind = "assemble" =>
        out = Artifact(r, run[r].first, run[r].inspected)

\* The wheels still to be hashed are wheels; then every input is to be read
\* again.
Pending(r) ==
    /\ run[r].at \in {"hash", "open", "rehash"} => run[r].todo \subseteq Wheels
    /\ run[r].at \in {"install", "compare"} => run[r].todo = Inputs

RunInv(r) == Pending(r) /\ Reading(r) /\ Separated(r) /\ Snapshot(r)
             /\ Installed(r) /\ Owned(r)

OutInv ==
    out.by \in Runs =>
        /\ ~At(out.by, "ready")
        /\ out.inputs \in trees[out.by]
        /\ \A w \in Wheels : out.wheels[w] = "locked"

\* The inductive invariant.
IInv == TypeOK /\ OutInv /\ \A r \in Runs : RunInv(r)
-----------------------------------------------------------------------------
\* An idle record is a record of a run.
LEMMA IdleType == Idle \in Locals
  BY SourcesAssumption, SMT
  DEF Idle, Locals, Places, Trees, Inputs, Contents, Staged

\* What the output can name is a record of who, which inputs, which wheels.
LEMMA ArtifactType ==
  ASSUME NEW by \in Runs \cup {"nobody", "another tool"}, NEW inputs \in Trees,
         NEW wheels \in [Wheels -> Contents]
  PROVE  /\ Artifact(by, inputs, wheels).by = by
         /\ Artifact(by, inputs, wheels) \in
              [by : Runs \cup {"nobody", "another tool"}, inputs : Trees,
               wheels : [Wheels -> Contents]]
  BY DEF Artifact

\* The initial states satisfy the inductive invariant.
LEMMA InitInv == Init => IInv
<1> SUFFICES ASSUME Init PROVE IInv
  OBVIOUS
<1>1. /\ out.by \in {"nobody", "another tool"}
      /\ out \in [by : Runs \cup {"nobody", "another tool"}, inputs : Trees,
                 wheels : [Wheels -> Contents]]
  <2>1. /\ [i \in Inputs |-> 0] \in Trees
        /\ [w \in Wheels |-> "other"] \in [Wheels -> Contents]
    BY DEF Trees, Contents
  <2>2. out = None \/ out = Foreign
    BY DEF Init
  <2>3. CASE out = None
    BY <2>1, <2>3, ArtifactType DEF None, Bare
  <2>4. CASE out = Foreign
    BY <2>1, <2>4, ArtifactType DEF Foreign, Bare
  <2> QED BY <2>2, <2>3, <2>4
<1>2. TypeOK
  <2>1. tree \in Trees /\ trees \in [Runs -> SUBSET Trees]
    BY DEF Init, Trees
  <2>2. edits \in 0..Edits /\ swaps \in 0..Swaps
    BY BoundsAssumption DEF Init, BoundsAssumption
  <2>3. house \in [Wheels -> Contents] /\ run \in [Runs -> Locals]
    BY IdleType DEF Init
  <2> QED BY <1>1, <2>1, <2>2, <2>3 DEF TypeOK
<1>4. OutInv
  BY <1>1, NamesAssumption DEF OutInv, NamesAssumption
<1>3. \A r \in Runs : RunInv(r)
  BY DEF Init, RunInv, Pending, Reading, Separated, Snapshot, Installed, Owned, Idle, At,
         Collected, Confirmed, Linked
<1> QED BY <1>2, <1>3, <1>4 DEF IInv

\* Becomes gives one run its record and leaves the others theirs.
LEMMA Update ==
  ASSUME TypeOK, NEW r \in Runs, NEW rec \in Locals, Becomes(r, rec)
  PROVE  /\ run' \in [Runs -> Locals]
         /\ run'[r] = rec
         /\ \A s \in Runs \ {r} : run'[s] = run[s]
  BY DEF TypeOK, Becomes

\* A run keeps its part of the invariant while the tree stays, its record and
\* its history stay, and the output is at most created.
LEMMA Others ==
  ASSUME IInv, NEW s \in Runs, run'[s] = run[s], tree' = tree,
         trees'[s] = trees[s], out' = out \/ out = None
  PROVE  RunInv(s)'
<1>1. RunInv(s)
  BY DEF IInv
<1>2. Reading(s)'
  BY <1>1 DEF RunInv, Reading, At
<1>3. Separated(s)'
  BY <1>1 DEF RunInv, Separated, Between, At
<1>4. Pending(s)' /\ Snapshot(s)' /\ Installed(s)'
  BY <1>1 DEF RunInv, Pending, Snapshot, Installed
<1>5. Owned(s)'
  <2>1. CASE out' = out
    BY <1>1, <2>1 DEF RunInv, Owned
  <2>2. CASE out = None
    BY <1>1, <2>2, NamesAssumption DEF RunInv, Owned, None, Bare, Artifact
  <2> QED BY <2>1, <2>2
<1> QED BY <1>2, <1>3, <1>4, <1>5 DEF RunInv

\* A step of one run that touches nothing outside preserves the invariant when
\* it preserves the run's own part.
LEMMA Quiet ==
  ASSUME IInv, NEW r \in Runs, NEW rec \in Locals, Becomes(r, rec),
         UNCHANGED <<outside, out, trees>>, rec.at # "ready", RunInv(r)'
  PROVE  IInv'
<1>1. TypeOK /\ OutInv
  BY DEF IInv
<1>2. run' \in [Runs -> Locals] /\ run'[r] = rec
      /\ \A s \in Runs \ {r} : run'[s] = run[s]
  BY <1>1, Update
<1>3. TypeOK'
  BY <1>1, <1>2 DEF TypeOK, outside
<1>4. OutInv'
  BY <1>1, <1>2 DEF OutInv, At
<1>5. ASSUME NEW s \in Runs PROVE RunInv(s)'
  <2>1. CASE s = r
    BY <2>1
  <2>2. CASE s # r
    BY <1>2, <2>2, Others DEF outside
  <2> QED BY <2>1, <2>2
<1> QED BY <1>3, <1>4, <1>5 DEF IInv

\* A run that fails or dies claims nothing.
LEMMA Ended ==
  ASSUME IInv, NEW r \in Runs, NEW place \in {"failed", "dead"}, Ends(r, place),
         UNCHANGED <<outside, out, trees>>
  PROVE  IInv'
<1> DEFINE rec == [Idle EXCEPT !.at = place, !.kind = run[r].kind]
<1>1. rec \in Locals /\ rec.at = place
  BY IdleType DEF IInv, TypeOK, Locals, Places
<1>2. Becomes(r, rec)
  BY DEF Ends
<1>3. run'[r] = rec
  BY <1>1, <1>2, Update DEF IInv
<1>4. RunInv(r)'
  BY <1>1, <1>3 DEF RunInv, Pending, Reading, Separated, Snapshot, Installed, Owned, At,
                    Collected, Confirmed, Linked
<1> QED BY <1>1, <1>2, <1>4, Quiet
-----------------------------------------------------------------------------
(* The steps of a run *)

\* The history of a run starts with the tree it finds.
LEMMA StartInv == ASSUME IInv, NEW r \in Runs, Start(r) PROVE IInv'
<1>1. TypeOK /\ OutInv /\ ~(out.by = r /\ r \in Runs)
  BY DEF IInv, OutInv, Start
<1>2. PICK kind \in {"assemble", "preflight"} :
        Becomes(r, [Idle EXCEPT !.at = "read", !.todo = Inputs, !.kind = kind])
  BY DEF Start
<1> DEFINE rec == [Idle EXCEPT !.at = "read", !.todo = Inputs, !.kind = kind]
<1>3. rec \in Locals /\ rec.at = "read" /\ rec.todo = Inputs
  BY IdleType DEF Locals, Places
<1>4. run' \in [Runs -> Locals] /\ run'[r] = rec
      /\ \A s \in Runs \ {r} : run'[s] = run[s]
  BY <1>1, <1>2, <1>3, Update
<1>5. /\ trees' \in [Runs -> SUBSET Trees] /\ trees'[r] = {tree}
      /\ \A s \in Runs \ {r} : trees'[s] = trees[s]
      /\ UNCHANGED <<outside, out>>
  BY <1>1 DEF Start, TypeOK
<1>6. TypeOK'
  BY <1>1, <1>4, <1>5 DEF TypeOK, outside
<1>7. OutInv'
  BY <1>1, <1>4, <1>5 DEF OutInv, At
<1>8. RunInv(r)'
  BY <1>3, <1>4, <1>5
  DEF RunInv, Pending, Reading, Separated, Snapshot, Installed, Owned, At, Collected,
      Confirmed, Linked, outside
<1>9. ASSUME NEW s \in Runs PROVE RunInv(s)'
  <2>1. CASE s = r
    BY <1>8, <2>1
  <2>2. CASE s # r
    BY <1>4, <1>5, <2>2, Others DEF outside
  <2> QED BY <2>1, <2>2
<1> QED BY <1>6, <1>7, <1>9 DEF IInv

\* When the last input is read, the present tree separates the reading from
\* the present.
LEMMA ReadInv == ASSUME IInv, NEW r \in Runs, Read(r) PROVE IInv'
<1>1. TypeOK /\ RunInv(r) /\ run[r] \in Locals /\ At(r, "read")
  BY DEF IInv, TypeOK, Read
<1>2. PICK i \in run[r].todo :
        Becomes(r, [run[r] EXCEPT
            !.first[i] = tree[i],
            !.todo = IF run[r].todo \ {i} = {} THEN Wheels ELSE run[r].todo \ {i},
            !.at = IF run[r].todo \ {i} = {} THEN "hash" ELSE "read"])
  BY DEF Read
<1> DEFINE rest == run[r].todo \ {i}
           rec == [run[r] EXCEPT
                     !.first[i] = tree[i],
                     !.todo = IF rest = {} THEN Wheels ELSE rest,
                     !.at = IF rest = {} THEN "hash" ELSE "read"]
<1>3. /\ run[r].todo \subseteq Inputs /\ tree \in trees[r]
      /\ \A j \in Inputs \ run[r].todo : run[r].first[j] <= tree[j]
  BY <1>1 DEF RunInv, Reading
<1>4. i \in Inputs /\ tree \in Trees /\ tree[i] \in Nat
      /\ run[r].first \in Trees
  BY <1>1, <1>3 DEF TypeOK, Trees, Locals
<1>5. [run[r].first EXCEPT ![i] = tree[i]] \in Trees
  BY <1>4 DEF Trees
<1>6. /\ rec \in Locals /\ rec.kind = run[r].kind
      /\ rec.first = [run[r].first EXCEPT ![i] = tree[i]]
      /\ rest = {} => rec.at = "hash" /\ rec.todo = Wheels
      /\ rest # {} => rec.at = "read" /\ rec.todo = rest
      /\ rec.at \in {"hash", "read"}
  BY <1>1, <1>3, <1>5 DEF Locals, Places
<1>7. run'[r] = rec /\ UNCHANGED <<outside, out, trees>>
  BY <1>1, <1>2, <1>6, Update DEF Read
<1>8. \A j \in Inputs \ rest : rec.first[j] <= tree[j]
  BY <1>3, <1>4, <1>6 DEF Trees
<1>9. Reading(r)'
  BY <1>3, <1>6, <1>7, <1>8 DEF Reading, At, outside
<1>10. Separated(r)'
  <2>1. CASE rest = {}
    <3>1. Between(r, tree)'
      BY <1>4, <1>6, <1>7, <1>8, <2>1 DEF Between, At, outside, Trees
    <3> QED BY <1>3, <1>7, <3>1 DEF Separated, Between, At, outside
  <2>2. CASE rest # {}
    BY <1>6, <1>7, <2>2 DEF Separated, Collected
  <2> QED BY <2>1, <2>2
<1>11. Pending(r)' /\ Snapshot(r)' /\ Installed(r)' /\ Owned(r)'
  BY <1>6, <1>7 DEF Pending, Snapshot, Installed, Owned, Confirmed, Linked
<1>12. RunInv(r)' /\ rec.at # "ready"
  BY <1>6, <1>9, <1>10, <1>11 DEF RunInv
<1> QED BY <1>2, <1>6, <1>7, <1>12, Quiet

\* Steps between the first reading and the second, which leave what was read
\* and the history alone, keep the reading separated from the present.
LEMMA StillSeparated ==
  ASSUME IInv, NEW r \in Runs, run[r].at \in Collected, ~At(r, "confirm"),
         tree' = tree, trees' = trees, run'[r].first = run[r].first,
         run'[r].at = "confirm" => run'[r].todo = Inputs
  PROVE  Separated(r)'
<1>1. PICK t \in trees[r] : Between(r, t)
  BY DEF IInv, RunInv, Separated
<1>2. Between(r, t)'
  BY <1>1 DEF Between, At
<1> QED BY <1>1, <1>2 DEF Separated

\* Hash and Open bring a run to the next wheel.
LEMMA HashInv == ASSUME IInv, NEW r \in Runs, Hash(r) PROVE IInv'
<1>1. TypeOK /\ RunInv(r) /\ run[r] \in Locals /\ At(r, "hash")
      /\ UNCHANGED <<outside, out, trees>>
  BY DEF IInv, TypeOK, Hash
<1>2. CASE Fails(r)
  BY <1>1, <1>2, Ended DEF Fails
<1>3. ASSUME NEW w \in run[r].todo,
             Becomes(r, [run[r] EXCEPT !.at = "open", !.wheel = {w}])
      PROVE  IInv'
  <2> DEFINE rec == [run[r] EXCEPT !.at = "open", !.wheel = {w}]
  <2>1. w \in Wheels
    BY <1>1, <1>3 DEF RunInv, Pending, At
  <2>2. /\ rec \in Locals /\ rec.at = "open" /\ rec.todo = run[r].todo
        /\ rec.first = run[r].first
    BY <1>1, <2>1 DEF Locals, Places
  <2>3. run'[r] = rec
    BY <1>1, <1>3, <2>2, Update
  <2>4. Separated(r)'
    BY <1>1, <2>2, <2>3, StillSeparated DEF Collected, At, outside
  <2>5. RunInv(r)'
    BY <1>1, <2>2, <2>3, <2>4
    DEF RunInv, Pending, Reading, Snapshot, Installed, Owned, At, Confirmed, Linked
  <2> QED BY <1>1, <1>3, <2>2, <2>5, Quiet
<1> QED BY <1>1, <1>2, <1>3 DEF Hash

\* The archive is opened from the path, after its bytes were hashed.
LEMMA OpenInv == ASSUME IInv, NEW r \in Runs, Open(r) PROVE IInv'
<1>1. TypeOK /\ RunInv(r) /\ run[r] \in Locals /\ At(r, "open")
      /\ UNCHANGED <<outside, out, trees>>
  BY DEF IInv, TypeOK, Open
<1>2. PICK w \in run[r].wheel :
        Becomes(r, [run[r] EXCEPT
            !.inspected[w] = house[w], !.wheel = {},
            !.todo = IF run[r].todo \ {w} = {} THEN Wheels ELSE run[r].todo \ {w},
            !.at = IF run[r].todo \ {w} = {} THEN "rehash" ELSE "hash"])
  BY DEF Open
<1> DEFINE rest == run[r].todo \ {w}
           rec == [run[r] EXCEPT
                     !.inspected[w] = house[w], !.wheel = {},
                     !.todo = IF rest = {} THEN Wheels ELSE rest,
                     !.at = IF rest = {} THEN "rehash" ELSE "hash"]
<1>3. w \in Wheels /\ rest \subseteq Wheels /\ house[w] \in Contents
  BY <1>1 DEF RunInv, Pending, At, TypeOK, Locals
<1>4. [run[r].inspected EXCEPT ![w] = house[w]] \in [Wheels -> Contents]
  BY <1>1, <1>3 DEF Locals
<1>5. /\ rec \in Locals /\ rec.at \in {"rehash", "hash"} /\ rec.todo \subseteq Wheels
      /\ rec.first = run[r].first
  BY <1>1, <1>3, <1>4 DEF Locals, Places
<1>6. run'[r] = rec
  BY <1>1, <1>2, <1>5, Update
<1>7. Separated(r)'
  BY <1>1, <1>5, <1>6, StillSeparated DEF Collected, At, outside
<1>8. RunInv(r)'
  BY <1>1, <1>5, <1>6, <1>7
  DEF RunInv, Pending, Reading, Snapshot, Installed, Owned, At, Confirmed, Linked
<1> QED BY <1>1, <1>2, <1>5, <1>8, Quiet

\* The second hash of the last wheel opens the second reading of every input,
\* at once for a preflight.
LEMMA RehashInv == ASSUME IInv, NEW r \in Runs, Rehash(r) PROVE IInv'
<1>1. TypeOK /\ RunInv(r) /\ run[r] \in Locals /\ At(r, "rehash")
      /\ UNCHANGED <<outside, out, trees>>
  BY DEF IInv, TypeOK, Rehash
<1>2. CASE Fails(r)
  BY <1>1, <1>2, Ended DEF Fails
<1>3. ASSUME NEW w \in run[r].todo,
             Becomes(r, [run[r] EXCEPT
                 !.todo = IF run[r].todo \ {w} = {} THEN Inputs ELSE run[r].todo \ {w},
                 !.at = Onward(r, run[r].todo \ {w}, "rehash", "install", "confirm")])
      PROVE  IInv'
  <2> DEFINE rest == run[r].todo \ {w}
             at == Onward(r, rest, "rehash", "install", "confirm")
             rec == [run[r] EXCEPT !.todo = IF rest = {} THEN Inputs ELSE rest,
                                   !.at = at]
  <2>0. rest \subseteq Wheels /\ run[r].kind \in {"assemble", "preflight"}
    BY <1>1 DEF RunInv, Pending, At, Locals
  <2>1. /\ at \in {"rehash", "install", "confirm"}
        /\ at = "rehash" => rest # {}
        /\ at = "install" => rest = {} /\ run[r].kind = "assemble"
        /\ at = "confirm" => rest = {} /\ run[r].kind = "preflight"
    BY <2>0 DEF Onward
  <2>2. /\ rec \in Locals /\ rec.at = at /\ rec.first = run[r].first
        /\ rec.kind = run[r].kind
        /\ rec.todo = IF rest = {} THEN Inputs ELSE rest
    <3> HIDE DEF at
    <3> QED BY <1>1, <2>0, <2>1 DEF Locals, Places
  <2>3. run'[r] = rec
    BY <1>1, <1>3, <2>2, Update
  <2> HIDE DEF at, rec
  <2>4. Separated(r)'
    BY <1>1, <2>1, <2>2, <2>3, StillSeparated DEF Collected, At, outside
  <2>5. RunInv(r)'
    BY <1>1, <2>0, <2>1, <2>2, <2>3, <2>4
    DEF RunInv, Pending, Reading, Snapshot, Installed, Owned, At, Confirmed, Linked
  <2>6. Becomes(r, rec) /\ rec.at # "ready"
    BY <1>3, <2>1, <2>2 DEF rec, at
  <2> QED BY <1>1, <2>2, <2>5, <2>6, Quiet
<1> QED BY <1>1, <1>2, <1>3 DEF Rehash

\* Nothing is claimed of what pip staged before it is compared.
LEMMA InstallInv == ASSUME IInv, NEW r \in Runs, Install(r) PROVE IInv'
<1>1. TypeOK /\ RunInv(r) /\ run[r] \in Locals /\ At(r, "install")
      /\ UNCHANGED <<outside, out, trees>>
  BY DEF IInv, TypeOK, Install
<1>2. PICK staged \in Staged, foreign \in BOOLEAN :
        Becomes(r, [run[r] EXCEPT !.at = "compare", !.staged = staged,
                                  !.foreign = foreign])
  BY DEF Install
<1> DEFINE rec == [run[r] EXCEPT !.at = "compare", !.staged = staged,
                                 !.foreign = foreign]
<1>3. /\ rec \in Locals /\ rec.at = "compare" /\ rec.first = run[r].first
      /\ rec.kind = run[r].kind /\ rec.todo = run[r].todo
  BY <1>1 DEF Locals, Places
<1>4. run'[r] = rec
  BY <1>1, <1>2, <1>3, Update
<1>5. Separated(r)'
  BY <1>1, <1>3, <1>4, StillSeparated DEF Collected, At, outside
<1>6. run[r].kind = "assemble"
  BY <1>1 DEF RunInv, Installed, At, Locals
<1>7. RunInv(r)'
  BY <1>1, <1>3, <1>4, <1>5, <1>6
  DEF RunInv, Pending, Reading, Snapshot, Installed, Owned, At, Confirmed, Linked
<1> QED BY <1>1, <1>2, <1>3, <1>7, Quiet

\* A stage that equals what was inspected holds locked bytes: pip had only
\* those to lay down, and the wheelhouse only locked or other ones.
LEMMA CompareInv == ASSUME IInv, NEW r \in Runs, Compare(r) PROVE IInv'
<1>1. TypeOK /\ RunInv(r) /\ run[r] \in Locals /\ At(r, "compare")
      /\ UNCHANGED <<outside, out, trees>>
  BY DEF IInv, TypeOK, Compare
<1>2. CASE Fails(r)
  BY <1>1, <1>2, Ended DEF Fails
<1>3. ASSUME Faithful(r),
             Becomes(r, [run[r] EXCEPT !.at = "confirm", !.staged = Idle.staged])
      PROVE  IInv'
  <2> DEFINE rec == [run[r] EXCEPT !.at = "confirm", !.staged = Idle.staged]
  <2>1. \A w \in Wheels : run[r].inspected[w] = "locked"
    BY <1>1, <1>3 DEF Faithful, Locals, Staged, Contents
  <2>2. /\ rec \in Locals /\ rec.at = "confirm" /\ rec.first = run[r].first
        /\ rec.todo = run[r].todo /\ rec.inspected = run[r].inspected
        /\ rec.kind = run[r].kind
    BY <1>1, IdleType DEF Locals, Places
  <2>3. run'[r] = rec
    BY <1>1, <1>3, <2>2, Update
  <2> HIDE DEF rec
  <2>4. rec.todo = Inputs /\ rec.kind = "assemble"
    BY <1>1, <2>2 DEF RunInv, Pending, Installed, At, Locals
  <2>5. Separated(r)'
    BY <1>1, <2>2, <2>3, <2>4, StillSeparated DEF Collected, At, outside
  <2>6. RunInv(r)'
    BY <1>1, <2>1, <2>2, <2>3, <2>4, <2>5
    DEF RunInv, Pending, Reading, Snapshot, Installed, Owned, At, Confirmed, Linked
  <2>7. Becomes(r, rec) /\ rec.at # "ready"
    BY <1>3, <2>2 DEF rec
  <2> QED BY <1>1, <2>2, <2>6, <2>7, Quiet
<1> QED BY <1>1, <1>2, <1>3 DEF Compare

\* An input that reads as it did equals the separating tree; when the last one
\* does, the reading is that tree.
LEMMA ConfirmInv == ASSUME IInv, NEW r \in Runs, Confirm(r) PROVE IInv'
<1>1. TypeOK /\ RunInv(r) /\ run[r] \in Locals /\ At(r, "confirm")
      /\ UNCHANGED <<outside, out, trees>>
  BY DEF IInv, TypeOK, Confirm
<1>2. CASE Fails(r)
  BY <1>1, <1>2, Ended DEF Fails
<1>3. ASSUME NEW i \in run[r].todo, Same(r, i),
             Becomes(r, [run[r] EXCEPT
                 !.todo = run[r].todo \ {i},
                 !.at = Onward(r, run[r].todo \ {i}, "confirm", "build", "print")])
      PROVE  IInv'
  <2> DEFINE rest == run[r].todo \ {i}
             at == Onward(r, rest, "confirm", "build", "print")
             rec == [run[r] EXCEPT !.todo = rest, !.at = at]
  <2>0. run[r].kind \in {"assemble", "preflight"}
    BY <1>1 DEF Locals
  <2>1. /\ at \in {"confirm", "build", "print"}
        /\ at = "confirm" <=> rest # {}
        /\ at = "build" => run[r].kind = "assemble"
        /\ at = "print" => run[r].kind = "preflight"
    BY <2>0 DEF Onward
  <2>2. /\ rec \in Locals /\ rec.at = at /\ rec.first = run[r].first
        /\ rec.todo = rest /\ rec.inspected = run[r].inspected
        /\ rec.kind = run[r].kind
    <3> HIDE DEF at
    <3> QED BY <1>1, <2>1 DEF Locals, Places
  <2>3. run'[r] = rec
    BY <1>1, <1>3, <2>2, Update
  <2>4. Becomes(r, rec) /\ rec.at # "ready"
    BY <1>3, <2>1, <2>2
  <2> HIDE DEF at, rec
  <2>5. PICK t \in trees[r] : Between(r, t)
    BY <1>1 DEF RunInv, Separated, Collected, At
  <2>6. t \in Trees /\ run[r].first \in Trees /\ tree \in Trees
    BY <1>1, <2>5 DEF TypeOK, Locals
  <2>7. \A j \in Inputs \ rest : run[r].first[j] = t[j]
    BY <1>1, <1>3, <2>5, <2>6 DEF Between, Same, At, Trees
  <2>8. CASE rest # {}
    <3>1. Between(r, t)'
      BY <1>1, <2>2, <2>3, <2>5, <2>7 DEF Between, At, outside
    <3>2. Separated(r)'
      BY <1>1, <2>5, <3>1 DEF Separated
    <3>3. RunInv(r)'
      BY <1>1, <2>1, <2>2, <2>3, <2>8, <3>2
      DEF RunInv, Pending, Reading, Snapshot, Installed, Owned, At, Confirmed, Linked
    <3> QED BY <1>1, <2>2, <2>4, <3>3, Quiet
  <2>9. CASE rest = {}
    <3>1. run[r].first = t
      BY <2>6, <2>7, <2>9 DEF Trees
    <3>2. Snapshot(r)'
      BY <1>1, <2>2, <2>3, <2>5, <3>1 DEF Snapshot
    <3>3. RunInv(r)'
      BY <1>1, <2>1, <2>2, <2>3, <2>9, <3>2
      DEF RunInv, Pending, Reading, Separated, Installed, Owned, At, Collected,
          Confirmed, Linked
    <3> QED BY <1>1, <2>2, <2>4, <3>3, Quiet
  <2> QED BY <2>8, <2>9
<1> QED BY <1>1, <1>2, <1>3 DEF Confirm

\* Build, Leave and Report only go on: what is confirmed stays confirmed, what
\* is published stays published.
LEMMA GoOn ==
  ASSUME IInv, NEW r \in Runs, UNCHANGED <<outside, out, trees>>,
         NEW to \in {"link", "print", "success"},
         Becomes(r, [run[r] EXCEPT !.at = to]),
         run[r].at \in Confirmed, to # "link" => run[r].at \in Linked,
         to = "link" => run[r].at = "build"
  PROVE  IInv'
<1> DEFINE rec == [run[r] EXCEPT !.at = to]
<1>1. TypeOK /\ RunInv(r) /\ run[r] \in Locals
  BY DEF IInv, TypeOK
<1>2. /\ rec \in Locals /\ rec.at = to /\ rec.first = run[r].first
      /\ rec.inspected = run[r].inspected /\ rec.kind = run[r].kind
  BY <1>1 DEF Locals, Places
<1>3. run'[r] = rec
  BY <1>1, <1>2, Update
<1> HIDE DEF rec
<1>4. Pending(r)' /\ Reading(r)' /\ Separated(r)'
  BY <1>2, <1>3 DEF Pending, Reading, Separated, At, Collected
<1>5. Snapshot(r)' /\ Installed(r)'
  BY <1>1, <1>2, <1>3 DEF RunInv, Snapshot, Installed, Confirmed
<1>6. Owned(r)'
  BY <1>1, <1>2, <1>3 DEF RunInv, Owned, Linked
<1>7. RunInv(r)' /\ Becomes(r, rec) /\ rec.at # "ready"
  BY <1>2, <1>4, <1>5, <1>6 DEF RunInv, rec
<1> QED BY <1>2, <1>7, Quiet

\* The package is written to a temporary file: the output is untouched.
LEMMA BuildInv == ASSUME IInv, NEW r \in Runs, Build(r) PROVE IInv'
  BY GoOn DEF Build, At, Confirmed, Linked

\* Leaving removes the run's own work and nothing at the output.
LEMMA LeaveInv == ASSUME IInv, NEW r \in Runs, Leave(r) PROVE IInv'
  BY GoOn DEF Leave, At, Confirmed, Linked

\* A success is reported after the link, of the run's own package.
LEMMA ReportInv == ASSUME IInv, NEW r \in Runs, Report(r) PROVE IInv'
  BY GoOn DEF Report, At, Confirmed, Linked

\* A link is made by an assembly, from what it confirmed, where nothing was.
LEMMA LinkInv == ASSUME IInv, NEW r \in Runs, Link(r) PROVE IInv'
<1>1. TypeOK /\ RunInv(r) /\ run[r] \in Locals /\ At(r, "link")
      /\ UNCHANGED <<outside, trees>>
  BY DEF IInv, TypeOK, Link
<1>2. CASE Fails(r) /\ UNCHANGED out
  BY <1>1, <1>2, Ended DEF Fails
<1>3. ASSUME out = None, out' = Artifact(r, run[r].first, run[r].inspected),
             Becomes(r, [run[r] EXCEPT !.at = "leave"])
      PROVE  IInv'
  <2> DEFINE rec == [run[r] EXCEPT !.at = "leave"]
  <2>1. /\ rec \in Locals /\ rec.at = "leave" /\ rec.first = run[r].first
        /\ rec.inspected = run[r].inspected /\ rec.kind = run[r].kind
    BY <1>1 DEF Locals, Places
  <2>2. run' \in [Runs -> Locals] /\ run'[r] = rec
        /\ \A s \in Runs \ {r} : run'[s] = run[s]
    BY <1>1, <1>3, <2>1, Update
  <2> HIDE DEF rec
  <2>3. /\ out'.by = r /\ out'.inputs = run[r].first
        /\ out'.wheels = run[r].inspected
        /\ out' \in [by : Runs \cup {"nobody", "another tool"}, inputs : Trees,
                     wheels : [Wheels -> Contents]]
    BY <1>1, <1>3 DEF Artifact, Locals
  <2>4. run[r].kind = "assemble"
    BY <1>1 DEF RunInv, Installed, At, Locals
  <2>5. /\ run[r].first \in trees[r]
        /\ \A w \in Wheels : run[r].inspected[w] = "locked"
    BY <1>1, <2>4 DEF RunInv, Snapshot, Installed, At, Confirmed
  <2>6. TypeOK'
    BY <1>1, <2>2, <2>3 DEF TypeOK, outside
  <2>7. OutInv'
    BY <1>1, <2>1, <2>2, <2>3, <2>5 DEF OutInv, At
  <2>8. Pending(r)' /\ Reading(r)' /\ Separated(r)'
    BY <2>1, <2>2 DEF Pending, Reading, Separated, At, Collected
  <2>9. Snapshot(r)' /\ Installed(r)'
    BY <1>1, <2>1, <2>2, <2>4, <2>5 DEF Snapshot, Installed, Confirmed
  <2>10. Owned(r)'
    BY <1>3, <2>1, <2>2 DEF Owned
  <2>11. ASSUME NEW s \in Runs PROVE RunInv(s)'
    <3>1. CASE s = r
      BY <2>8, <2>9, <2>10, <3>1 DEF RunInv
    <3>2. CASE s # r
      BY <1>1, <1>3, <2>2, <3>2, Others DEF outside
    <3> QED BY <3>1, <3>2
  <2> QED BY <2>6, <2>7, <2>11 DEF IInv
<1> QED BY <1>1, <1>2, <1>3 DEF Link, LinkExists, Publish

\* A step of any run keeps the invariant: one case per action.
LEMMA RunStepInv == ASSUME IInv, NEW r \in Runs, RunStep(r) PROVE IInv'
<1>1. CASE Refuse(r) \/ Dies(r)
  BY <1>1, Ended DEF Refuse, Dies, Fails
<1> QED BY <1>1, StartInv, ReadInv, HashInv, OpenInv, RehashInv, InstallInv,
           CompareInv, ConfirmInv, BuildInv, LinkInv, LeaveInv, ReportInv
        DEF RunStep
-----------------------------------------------------------------------------
(* The steps of everybody else *)

\* An edit only adds to an input, and to every history.
LEMMA EditInv == ASSUME IInv, NEW i \in Inputs, Edit(i) PROVE IInv'
<1>1. TypeOK /\ OutInv /\ UNCHANGED <<house, swaps, out, run>>
  BY DEF IInv, Edit
<1>2. /\ tree' \in Trees
      /\ \A j \in Inputs : tree[j] \in Nat /\ tree[j] <= tree'[j]
  <2>1. tree \in [Inputs -> Nat] /\ tree' = [tree EXCEPT ![i] = tree[i] + 1]
    BY <1>1 DEF TypeOK, Edit, Trees
  <2> QED BY <2>1 DEF Trees
<1>3. \A r \in Runs : trees'[r] = trees[r] \cup {tree'}
  BY DEF Edit
<1>4. TypeOK'
  <2>1. trees' \in [Runs -> SUBSET Trees]
    BY <1>1, <1>2 DEF TypeOK, Edit
  <2>2. edits' \in 0..Edits
    <3>1. edits \in 0..Edits /\ edits < Edits /\ edits' = edits + 1
      BY <1>1 DEF TypeOK, Edit
    <3> QED BY <3>1, BoundsAssumption
  <2> QED BY <1>1, <1>2, <2>1, <2>2 DEF TypeOK
<1>5. OutInv'
  BY <1>1, <1>3 DEF OutInv, At
<1>6. ASSUME NEW r \in Runs PROVE RunInv(r)'
  <2>1. RunInv(r) /\ run[r] \in Locals
    BY <1>1 DEF IInv, TypeOK
  <2>2. Pending(r)' /\ Snapshot(r)' /\ Installed(r)' /\ Owned(r)'
    BY <1>1, <1>3, <2>1 DEF RunInv, Pending, Snapshot, Installed, Owned
  <2>3. run[r].first \in Trees
    BY <2>1 DEF Locals
  <2>4. Reading(r)'
    <3> SUFFICES ASSUME At(r, "read") PROVE Reading(r)'
      BY <1>1 DEF Reading, At
    <3>1. ASSUME NEW j \in Inputs \ run[r].todo PROVE run[r].first[j] <= tree'[j]
      BY <1>2, <2>1, <2>3 DEF RunInv, Reading, Trees
    <3> QED BY <1>1, <1>3, <2>1, <3>1 DEF RunInv, Reading, At
  <2>5. Separated(r)'
    <3> SUFFICES ASSUME run[r].at \in Collected PROVE Separated(r)'
      BY <1>1 DEF Separated
    <3>1. PICK t \in trees[r] : Between(r, t)
      BY <2>1 DEF RunInv, Separated
    <3>2. t \in Trees
      BY <1>1, <3>1 DEF TypeOK
    <3>3. \A j \in Inputs : t[j] <= tree'[j]
      BY <1>2, <3>1, <3>2 DEF Between, Trees
    <3>4. Between(r, t)'
      BY <1>1, <3>1, <3>3 DEF Between, At
    <3> QED BY <1>3, <3>1, <3>4 DEF Separated
  <2> QED BY <2>2, <2>4, <2>5 DEF RunInv
<1> QED BY <1>4, <1>5, <1>6 DEF IInv

\* A wheel is exchanged under its name: what runs have read is unchanged.
LEMMA SwapInv == ASSUME IInv, NEW w \in Wheels, Swap(w) PROVE IInv'
<1>1. TypeOK /\ OutInv /\ UNCHANGED <<tree, edits, out, run, trees>>
  BY DEF IInv, Swap
<1>2. TypeOK'
  <2>1. house' \in [Wheels -> Contents]
    <3>1. (CHOOSE c \in Contents : c # house[w]) \in Contents
      BY DEF Contents
    <3> QED BY <1>1, <3>1 DEF TypeOK, Swap
  <2>2. swaps' \in 0..Swaps
    <3>1. swaps \in 0..Swaps /\ swaps < Swaps /\ swaps' = swaps + 1
      BY <1>1 DEF TypeOK, Swap
    <3> QED BY <3>1, BoundsAssumption
  <2> QED BY <1>1, <2>1, <2>2 DEF TypeOK
<1>3. OutInv'
  BY <1>1 DEF OutInv, At
<1>4. \A r \in Runs : RunInv(r)'
  BY <1>1, Others
<1> QED BY <1>2, <1>3, <1>4 DEF IInv

\* Another party's file at the output is not a package of a run.
LEMMA OccupyInv == ASSUME IInv, Occupy PROVE IInv'
<1>1. TypeOK /\ UNCHANGED <<outside, run, trees>> /\ out = None /\ out' = Foreign
  BY DEF IInv, Occupy
<1>2. /\ out'.by = "another tool"
      /\ out' \in [by : Runs \cup {"nobody", "another tool"}, inputs : Trees,
                   wheels : [Wheels -> Contents]]
  <2>1. /\ [i \in Inputs |-> 0] \in Trees
        /\ [w \in Wheels |-> "other"] \in [Wheels -> Contents]
    BY DEF Trees, Contents
  <2> QED BY <1>1, <2>1, ArtifactType DEF Foreign, Bare
<1>3. TypeOK'
  BY <1>1, <1>2 DEF TypeOK, outside
<1>4. OutInv'
  BY <1>2, NamesAssumption DEF OutInv, NamesAssumption
<1>5. \A r \in Runs : RunInv(r)'
  BY <1>1, Others DEF outside
<1> QED BY <1>3, <1>4, <1>5 DEF IInv

\* A step that changes nothing.
LEMMA StutterInv == ASSUME IInv, UNCHANGED vars PROVE IInv'
<1>1. TypeOK /\ OutInv /\ UNCHANGED <<outside, out, run, trees>>
  BY DEF IInv, vars, outside
<1>2. TypeOK' /\ OutInv'
  BY <1>1 DEF TypeOK, OutInv, At, outside
<1>3. \A r \in Runs : RunInv(r)'
  BY <1>1, Others DEF outside
<1> QED BY <1>2, <1>3 DEF IInv

\* The inductive invariant holds in every state of every behaviour.
LEMMA Invariance == Spec => []IInv
<1>1. IInv /\ [Next]_vars => IInv'
  BY RunStepInv, EditInv, SwapInv, OccupyInv, StutterInv DEF Next
<1> QED BY InitInv, <1>1, PTL DEF Spec
-----------------------------------------------------------------------------
\* A package or a result names the working tree of one moment of its run,
\* whatever the edits between the readings of lambda_package.py.
THEOREM PackageIsASnapshot == Spec => []SnapshotBound
<1>1. IInv => SnapshotBound
  BY DEF IInv, OutInv, RunInv, Snapshot, Confirmed, SnapshotBound, Published,
         Success, At
<1> QED BY Invariance, <1>1, PTL

\* A published package holds locked wheels, whatever became of the wheelhouse
\* between the two hashes and whatever pip left in the stage.
THEOREM PackageHoldsLockedWheels == Spec => []WheelsBound
<1>1. IInv => WheelsBound
  BY DEF IInv, OutInv, WheelsBound, Published
<1> QED BY Invariance, <1>1, PTL

\* No step writes over an output that is there.
LEMMA OutputStays == [Next]_vars => (out # None => UNCHANGED out)
<1> SUFFICES ASSUME [Next]_vars, out # None PROVE UNCHANGED out
  OBVIOUS
<1>1. CASE UNCHANGED vars
  BY <1>1 DEF vars
<1>2. ASSUME NEW r \in Runs, RunStep(r) PROVE UNCHANGED out
  <2>1. CASE Link(r)
    BY <2>1 DEF Link, LinkExists
  <2>2. CASE ~Link(r)
    BY <1>2, <2>2 DEF RunStep, Start, Read, Hash, Open, Rehash, Install, Compare, Confirm,
                      Build, Leave, Report, Refuse, Dies
  <2> QED BY <2>1, <2>2
<1>3. CASE \/ \E i \in Inputs : Edit(i)
           \/ \E w \in Wheels : Swap(w)
           \/ Occupy
  BY <1>3 DEF Edit, Swap, Occupy
<1> QED BY <1>1, <1>2, <1>3 DEF Next

\* A run that reports success published the package that is at the output, and
\* what is there first stays, however many runs and tools raced for it.
THEOREM SuccessMeansOwnPackage == Spec => SuccessIsOurs
<1> DEFINE Own == /\ TypeOK
                  /\ \A r \in Runs : Success(r) /\ run[r].kind = "assemble" =>
                         out = Artifact(r, run[r].first, run[r].inspected)
<1>1. IInv => Own
  BY DEF IInv, RunInv, Owned, Linked, Success, At
<1>2. [Next]_vars => [out # None => UNCHANGED out]_vars
  BY OutputStays
<1> QED BY Invariance, <1>1, <1>2, PTL DEF Spec, SuccessIsOurs
=============================================================================
