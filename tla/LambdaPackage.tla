---------------------------- MODULE LambdaPackage ----------------------------
(***************************************************************************)
(* scripts/lambda_package.py: one package is assembled from three things   *)
(* that other people can change meanwhile: the source tree, the wheelhouse *)
(* and the output path.  A preflight reads the same inputs and publishes   *)
(* nothing.                                                                *)
(*                                                                         *)
(* Inputs are numbered in the order they are read: 0 is                    *)
(* requirements-lambda.txt, 1..NumSources the source files.  The content   *)
(* of an input is the number of its last edit: an edit never brings back   *)
(* an earlier content.  The content of a wheel is "locked", the bytes      *)
(* whose hash the lock names, or "other".                                  *)
(*                                                                         *)
(* The declarations, import closure, archive layout, native headers and    *)
(* size limits are checks without effect: any of them may refuse.          *)
(***************************************************************************)
EXTENDS Naturals, FiniteSets

CONSTANTS
    Runs,          \* the invocations of the script
    NumSources,    \* SOURCE_NAMES
    Wheels,        \* the entries of the wheel lock
    Edits,         \* bound: edits of the source tree
    Swaps          \* bound: replacements in the wheelhouse

ASSUME SourcesAssumption == NumSources \in Nat \ {0}
ASSUME NamesAssumption == Wheels # {} /\ Runs \cap {"nobody", "another tool"} = {}
ASSUME BoundsAssumption == Edits \in Nat /\ Swaps \in Nat

VARIABLES
    tree, edits,    \* the inputs, and how many edits they had
    house, swaps,   \* the wheelhouse, and how many replacements it had
    out,            \* what the output path names
    run,            \* the local state of each invocation
    trees           \* history: the trees that existed since it started

vars == <<tree, edits, house, swaps, out, run, trees>>
outside == <<tree, edits, house, swaps>>

Inputs == 0..NumSources
Contents == {"locked", "other"}
Staged == [Wheels -> {"locked", "damaged", "absent"}]
Trees == [Inputs -> Nat]

\* What a path names: an artifact and who put it there.
Artifact(by, inputs, wheels) == [by |-> by, inputs |-> inputs, wheels |-> wheels]
Bare(by) == Artifact(by, [i \in Inputs |-> 0], [w \in Wheels |-> "other"])
None == Bare("nobody")
Foreign == Bare("another tool")

Places == {"ready", "read", "hash", "open", "rehash", "install", "compare",
           "confirm", "build", "link", "leave", "print", "success", "failed", "dead"}
Stopped == {"success", "failed", "dead"}

Locals == [at : Places, kind : {"assemble", "preflight"},
           first : Trees, inspected : [Wheels -> Contents],
           todo : SUBSET (Inputs \cup Wheels), wheel : SUBSET Wheels,
           staged : Staged, foreign : BOOLEAN]

Idle == [at |-> "ready", kind |-> "assemble", first |-> [i \in Inputs |-> 0],
         inspected |-> [w \in Wheels |-> "locked"], todo |-> {}, wheel |-> {},
         staged |-> [w \in Wheels |-> "absent"], foreign |-> FALSE]

TypeOK ==
    /\ tree \in Trees /\ edits \in 0..Edits
    /\ house \in [Wheels -> Contents] /\ swaps \in 0..Swaps
    /\ out \in [by : Runs \cup {"nobody", "another tool"}, inputs : Trees,
                wheels : [Wheels -> Contents]]
    /\ run \in [Runs -> Locals]
    /\ trees \in [Runs -> SUBSET Trees]

Init ==
    /\ tree = [i \in Inputs |-> 0] /\ edits = 0
    /\ house \in [Wheels -> Contents] /\ swaps = 0
    /\ out \in {None, Foreign}
    /\ run = [r \in Runs |-> Idle] /\ trees = [r \in Runs |-> {}]
-----------------------------------------------------------------------------
(* Steps of a run *)

At(r, place) == run[r].at = place
Becomes(r, record) == run' = [run EXCEPT ![r] = record]

\* A PackageError or an OSError: main prints FAILED and returns 1.
Ends(r, place) == Becomes(r, [Idle EXCEPT !.at = place, !.kind = run[r].kind])
Fails(r) == Ends(r, "failed")

\* Here again while something is left to do, then on.
Onward(r, rest, here, assembly, preflight) ==
    IF rest # {} THEN here
    ELSE IF run[r].kind = "assemble" THEN assembly ELSE preflight

\* The output must not exist when an assembly starts; a preflight has none.
Start(r) ==
    /\ At(r, "ready")
    /\ \E kind \in {"assemble", "preflight"} :
          /\ kind = "assemble" => out = None
          /\ Becomes(r, [Idle EXCEPT !.at = "read", !.todo = Inputs, !.kind = kind])
    /\ trees' = [trees EXCEPT ![r] = {tree}]
    /\ UNCHANGED <<outside, out>>

\* safe_file(...).read_bytes(), the requirements first, then each source.
Read(r) ==
    /\ At(r, "read")
    /\ \E i \in run[r].todo :
          LET rest == run[r].todo \ {i}
              last == rest = {}
          IN /\ \A j \in run[r].todo : i <= j
             /\ Becomes(r, [run[r] EXCEPT
                    !.first[i] = tree[i],
                    !.todo = IF last THEN Wheels ELSE rest,
                    !.at = IF last THEN "hash" ELSE "read"])
    /\ UNCHANGED <<outside, out, trees>>

\* inspect_wheel reads a wheel and compares its hash with the lock ...
HashLocked(w) == house[w] = "locked"

Hash(r) ==
    /\ At(r, "hash")
    /\ \E w \in run[r].todo :
          IF HashLocked(w)
          THEN Becomes(r, [run[r] EXCEPT !.at = "open", !.wheel = {w}])
          ELSE Fails(r)
    /\ UNCHANGED <<outside, out, trees>>

\* ... and then opens the path again to read what it holds.
Open(r) ==
    /\ At(r, "open")
    /\ \E w \in run[r].wheel :
          LET rest == run[r].todo \ {w} IN
          Becomes(r, [run[r] EXCEPT
              !.inspected[w] = house[w], !.wheel = {},
              !.todo = IF rest = {} THEN Wheels ELSE rest,
              !.at = IF rest = {} THEN "rehash" ELSE "hash"])
    /\ UNCHANGED <<outside, out, trees>>

\* Every wheel is read and hashed once more: the assembly copies these bytes
\* for the installer, the preflight sums their compressed sizes.
Rehash(r) ==
    /\ At(r, "rehash")
    /\ \E w \in run[r].todo :
          LET rest == run[r].todo \ {w} IN
          IF ~HashLocked(w) THEN Fails(r)
          ELSE Becomes(r, [run[r] EXCEPT
                   !.todo = IF rest = {} THEN Inputs ELSE rest,
                   !.at = Onward(r, rest, "rehash", "install", "confirm")])
    /\ UNCHANGED <<outside, out, trees>>

\* pip lays the copies down in the stage.  When it exits 0 it has left there
\* what it has: the copies' bytes, damaged ones, none, or something else too.
Install(r) ==
    /\ At(r, "install")
    /\ \E staged \in Staged, foreign \in BOOLEAN :
          Becomes(r, [run[r] EXCEPT !.at = "compare", !.staged = staged,
                                    !.foreign = foreign])
    /\ UNCHANGED <<outside, out, trees>>

\* Mutant: names are compared, bytes are not.
FaithfulIfPresent(r) ==
    ~run[r].foreign /\ \A w \in Wheels : run[r].staged[w] # "absent"

\* Each file of the stage is an inspected one, byte for byte, or one of pip's
\* bookkeeping files; and none of the inspected ones is missing.  RECORD is
\* rebuilt from the others.
Faithful(r) == run[r].staged = run[r].inspected /\ ~run[r].foreign

Compare(r) ==
    /\ At(r, "compare")
    /\ IF Faithful(r)
       THEN Becomes(r, [run[r] EXCEPT !.at = "confirm", !.staged = Idle.staged])
       ELSE Fails(r)
    /\ UNCHANGED <<outside, out, trees>>

\* Mutant: only the requirements are read again.
SameIfRequirements(r, i) == i = 0 => tree[i] = run[r].first[i]

\* "stale_source_binding": the sources, then the requirements, must still
\* read as they did.
Same(r, i) == tree[i] = run[r].first[i]

Confirm(r) ==
    /\ At(r, "confirm")
    /\ \E i \in run[r].todo :
          LET rest == run[r].todo \ {i} IN
          /\ i = 0 => rest = {}
          /\ \A j \in rest : j = 0 \/ i <= j
          /\ IF ~Same(r, i) THEN Fails(r)
             ELSE Becomes(r, [run[r] EXCEPT
                      !.todo = rest,
                      !.at = Onward(r, rest, "confirm", "build", "print")])
    /\ UNCHANGED <<outside, out, trees>>

\* The manifest, the ZIP in the stage, its size limit and its own test.
Build(r) ==
    /\ At(r, "build")
    /\ Becomes(r, [run[r] EXCEPT !.at = "link"])
    /\ UNCHANGED <<outside, out, trees>>

Publish(r) ==
    /\ out' = Artifact(r, run[r].first, run[r].inspected)
    /\ Becomes(r, [run[r] EXCEPT !.at = "leave"])

\* Mutant: the package is renamed over what is there.
LinkExistsReplaced(r) == Publish(r)

\* os.link creates the output or raises FileExistsError.
LinkExists(r) == Fails(r) /\ UNCHANGED out

Link(r) ==
    /\ At(r, "link")
    /\ \/ out = None /\ Publish(r)
       \/ out # None /\ LinkExists(r)
    /\ UNCHANGED <<outside, trees>>

\* The temporary directory goes, then main prints the result.
Leave(r) ==
    /\ At(r, "leave")
    /\ Becomes(r, [run[r] EXCEPT !.at = "print"])
    /\ UNCHANGED <<outside, out, trees>>

Report(r) ==
    /\ At(r, "print")
    /\ Becomes(r, [run[r] EXCEPT !.at = "success"])
    /\ UNCHANGED <<outside, out, trees>>

\* Every step, from the checks of the arguments and of an output that exists
\* to the removal of the stage and the print after a publication, may raise.
Refuse(r) ==
    /\ run[r].at \notin Stopped
    /\ Fails(r)
    /\ UNCHANGED <<outside, out, trees>>

Dies(r) ==
    /\ run[r].at \notin Stopped
    /\ Ends(r, "dead")
    /\ UNCHANGED <<outside, out, trees>>
-----------------------------------------------------------------------------
(* Everybody else *)

Edit(i) ==
    /\ edits < Edits
    /\ edits' = edits + 1
    /\ tree' = [tree EXCEPT ![i] = @ + 1]
    /\ trees' = [r \in Runs |-> trees[r] \cup {tree'}]
    /\ UNCHANGED <<house, swaps, out, run>>

Swap(w) ==
    /\ swaps < Swaps
    /\ swaps' = swaps + 1
    /\ house' = [house EXCEPT ![w] = CHOOSE c \in Contents : c # house[w]]
    /\ UNCHANGED <<tree, edits, out, run, trees>>

\* Another tool puts a file at the output path.
Occupy ==
    /\ out = None
    /\ out' = Foreign
    /\ UNCHANGED <<outside, run, trees>>

RunStep(r) ==
    \/ Start(r) \/ Read(r) \/ Hash(r) \/ Open(r) \/ Rehash(r) \/ Install(r)
    \/ Compare(r) \/ Confirm(r) \/ Build(r) \/ Link(r) \/ Leave(r) \/ Report(r)
    \/ Refuse(r) \/ Dies(r)

Next ==
    \/ \E r \in Runs : RunStep(r)
    \/ \E i \in Inputs : Edit(i)
    \/ \E w \in Wheels : Swap(w)
    \/ Occupy

Spec == Init /\ [][Next]_vars
-----------------------------------------------------------------------------
Success(r) == At(r, "success")
Published == out.by \in Runs

\* The sources and requirements a published package or a printed result names
\* were the working tree at one moment of the run, although they were read
\* one by one while somebody edited them.
SnapshotBound ==
    /\ Published => out.inputs \in trees[out.by]
    /\ \A r \in Runs : Success(r) => run[r].first \in trees[r]

\* A published package holds the bytes the lock names, although a wheel was
\* hashed, opened, hashed again and installed while the wheelhouse changed,
\* and pip may have left anything.
WheelsBound == Published => \A w \in Wheels : out.wheels[w] = "locked"

\* A run that reports success published the package that is at the output;
\* and whatever is there first, an earlier package or a file of another tool,
\* is still there whenever it is looked at again: between the test for an
\* existing output and the link anybody may have put it there.
SuccessIsOurs ==
    /\ [](/\ TypeOK
         /\ \A r \in Runs : Success(r) /\ run[r].kind = "assemble" =>
                out = Artifact(r, run[r].first, run[r].inspected))
    /\ [][out # None => UNCHANGED out]_vars
=============================================================================
