----------------------- MODULE ParentInvocationProofs -----------------------
(***************************************************************************)
(* Proofs about ParentInvocation, for every set of operator processes and  *)
(* of late files, and in both modes.                                       *)
(***************************************************************************)
EXTENDS ParentInvocation, TLAPS

-----------------------------------------------------------------------------
(* The inductive invariant *)

\* The process that made the directory, until it returns, raises or dies.
Unclaimed == {"prepare", "validate", "start"}
Claimed == Live \ Unclaimed
Holding == Claimed \cup {"returned"}
Concluded == {"receipt", "confirm", "console"}
Invoked == {"factory", "adapter", "built", "sdk", "closing", "salvage", "evidence",
            "assess", "join", "end", "inspect"}

Whole(n) == file[n] = "whole"

\* What has been written of the evidence, and what may be said of the run.
Backing(p) ==
    /\ \A n \in listed[p] : Whole(n)
    /\ pc[p] # "claim" => Whole("claim")
    /\ pc[p] = "before" => /\ at[p] \in DOMAIN Before
                           /\ \A i \in DOMAIN Before : i < at[p] => Before[i] \in listed[p]
    /\ pc[p] \in Invoked => Names(Before) \subseteq listed[p]
    /\ pc[p] \in {"evidence", "salvage"} => at[p] \in DOMAIN Raw
    /\ pc[p] = "salvage" => failed[p]
    /\ pc[p] \in {"join", "end", "inspect"} /\ clean[p] =>
          CleanWire(p) /\ Names(Raw) \subseteq listed[p]
    /\ pc[p] = "inspect" => clean[p]
    /\ judged[p] => pc[p] \in {"final", "index"} \cup Concluded
    /\ pc[p] \in {"final", "index"} =>
          /\ failed[p] \/ judged[p]
          /\ judged[p] => CleanWire(p) /\ Names(Before) \cup Names(Raw) \subseteq listed[p]
    /\ pc[p] \notin Concluded => file["index"] = "absent" /\ returned[p] = "NONE"
    /\ pc[p] \in Concluded /\ returned[p] = "COMPLETE" =>
          Whole("index") /\ index.status = "COMPLETE" /\ client[p] = "closed"
    /\ pc[p] \in {"confirm", "console"} => Whole("returned-status")

\* What the hooks counted, and where the lists begin.
Wired(p) ==
    /\ sends = wire[p].approved
    /\ pc[p] \in {"claim", "stat"} => at[p] = 1 /\ listed[p] = {}

\* What one process's open or lost client goes with, past its finally clause.
Reported(p) == pc[p] \in {"index"} \cup Concluded \cup {"returned"} =>
    /\ client[p] = "open" => wire[p].built
    /\ client[p] \in {"open", "lost"} =>
          /\ failed[p] /\ returned[p] # "COMPLETE"
          /\ pc[p] # "index" /\ Whole("index") => index.status = "INTERRUPTED"

Fresh(p) == /\ at[p] = 1 /\ listed[p] = {} /\ wire[p] = NotEntered /\ client[p] = "none"
            /\ ~failed[p] /\ ~clean[p] /\ ~judged[p] /\ ~defect[p] /\ returned[p] = "NONE"

\* One process at a time can be in the directory, and nothing is there before.
Claim ==
    /\ \A p \in Operators : pc[p] \in Holding => directory
    /\ \A p, q \in Operators : pc[p] \in Holding /\ pc[q] \in Holding => p = q
    /\ ~directory => sends = 0 /\ \A n \in Files : file[n] = "absent"
    /\ \A p \in Operators : pc[p] \in Unclaimed => Fresh(p)

IndexBacked == Whole("index") =>
    /\ \A n \in index.files : Whole(n)
    /\ index.status = "COMPLETE" => index.judged
    /\ index.judged => sends = 1 /\ Names(Before) \cup Names(Raw) \subseteq index.files

Launched(p) == launched[p] = "COMPLETE" =>
    /\ pc[p] = "returned"
    /\ Whole("returned-status") /\ client[p] = "closed"
    /\ Whole("index") /\ index.status = "COMPLETE"

Evidence == /\ sends \in {0, 1} /\ DurableBeforeSend
            /\ IndexBacked /\ AssociationIsBound

IInv ==
    /\ TypeOK /\ Claim /\ Evidence
    /\ \A p \in Operators : Launched(p) /\ Reported(p)
    /\ \A p \in Operators : pc[p] \in Claimed => Backing(p) /\ Wired(p)
-----------------------------------------------------------------------------
(* Facts about the files *)

\* The files before the send, in their order.
LEMMA BeforeFacts ==
    /\ DOMAIN Before = 1..8 /\ Len(Before) = 8
    /\ \A i \in 1..8 : /\ Before[i] \in Names(Before)
                       /\ Before[i] \in Files
                       /\ Before[i] \notin {"claim", "index", "report-association",
                                            "returned-status"}
    /\ \A n \in Names(Before) : \E i \in 1..8 : n = Before[i]
    /\ Names(Before) \subseteq Files
<1>1. DOMAIN Before = 1..8 /\ Len(Before) = 8
  BY DEF Before
<1>2. \A i \in 1..8 : Before[i] \notin {"claim", "index", "report-association",
                                        "returned-status"}
  BY DEF Before
<1>3. \A i \in 1..8 : Before[i] \in Names(Before)
  BY <1>1 DEF Names
<1>4. \A n \in Names(Before) : \E i \in 1..8 : n = Before[i]
  BY <1>1 DEF Names
<1> QED BY <1>1, <1>2, <1>3, <1>4 DEF Files

\* The files of the response.
LEMMA RawFacts ==
    /\ DOMAIN Raw = 1..Len(Raw) /\ Len(Raw) \in 1..6
    /\ \A i \in DOMAIN Raw : /\ Raw[i] \in Names(Raw)
                             /\ Raw[i] \in Files
                             /\ Raw[i] \notin {"claim", "index", "report-association",
                                               "returned-status"}
    /\ Names(Raw) \subseteq Files
<1>1. /\ DOMAIN Raw = 1..Len(Raw) /\ Len(Raw) \in 1..6
      /\ \A i \in DOMAIN Raw : Raw[i] \notin {"claim", "index", "report-association",
                                              "returned-status"}
  <2>1. CASE TailMode
    <3>1. Raw = <<"response", "response-metadata", "transport-result",
                  "log-encoded", "log-decoded", "log-evidence">>
      BY <2>1 DEF Raw
    <3> QED BY <3>1
  <2>2. CASE ~TailMode
    <3>1. Raw = <<"response", "response-metadata", "transport-result">>
      BY <2>2 DEF Raw
    <3> QED BY <3>1
  <2> QED BY <2>1, <2>2
<1>2. \A i \in DOMAIN Raw : Raw[i] \in Names(Raw)
  BY DEF Names
<1> QED BY <1>1, <1>2 DEF Files

\* A write changes a file only if it was absent, and leaves it broken or whole.
LEMMA WriteFacts ==
    ASSUME TypeOK, NEW n \in Files, NEW w \in Outcomes(n),
           file' = [file EXCEPT ![n] = w.file]
    PROVE  /\ file' \in [Files -> {"absent", "broken", "whole"}]
           /\ \A m \in Files : m # n => file'[m] = file[m]
           /\ \A m \in Files : Whole(m) => Whole(m)'
           /\ file[n] # "absent" => file'[n] = file[n]
           /\ w.ok \in BOOLEAN /\ (w.ok => Whole(n)')
<1>1. /\ w \in [ok : BOOLEAN, file : {"broken", "whole"}]
      /\ w.ok => w.file = "whole"
      /\ file[n] # "absent" => w.file = file[n]
  BY DEF Outcomes
<1> QED BY <1>1 DEF TypeOK, Whole

\* A failure is noted, a success listed.
LEMMA PutFacts ==
    ASSUME TypeOK, NEW p \in Operators, NEW n \in Files, NEW w \in Outcomes(n),
           Put(p, n, w)
    PROVE  /\ listed' \in [Operators -> SUBSET Files] /\ failed' \in [Operators -> BOOLEAN]
           /\ \A q \in Operators : q # p => listed'[q] = listed[q] /\ failed'[q] = failed[q]
           /\ (failed'[p] <=> (failed[p] \/ ~w.ok))
           /\ listed'[p] = (IF w.ok THEN listed[p] \cup {n} ELSE listed[p])
<1>1. w.ok \in BOOLEAN
  BY DEF Outcomes
<1> DEFINE new == {x \in {n} : w.ok}
           bad == ~w.ok
<1>2. new = IF w.ok THEN {n} ELSE {}
  OBVIOUS
<1>3. listed' = [listed EXCEPT ![p] = @ \cup new] /\ failed' = [failed EXCEPT ![p] = @ \/ bad]
  BY DEF Put
<1>4. listed' \in [Operators -> SUBSET Files]
      /\ listed'[p] = (IF w.ok THEN listed[p] \cup {n} ELSE listed[p])
      /\ \A q \in Operators : q # p => listed'[q] = listed[q]
  BY <1>2, <1>3 DEF TypeOK
<1>5. failed \in [Operators -> BOOLEAN]
  BY DEF TypeOK
<1>6. /\ failed' \in [Operators -> BOOLEAN] /\ (failed'[p] <=> (failed[p] \/ ~w.ok))
      /\ \A q \in Operators : q # p => failed'[q] = failed[q]
  BY <1>3, <1>5
<1> QED BY <1>4, <1>6
-----------------------------------------------------------------------------
(* What one process's step may disturb *)

\* The locals of a process that takes no part in the step.
Untouched(q) ==
    /\ pc'[q] = pc[q] /\ at'[q] = at[q] /\ listed'[q] = listed[q]
    /\ failed'[q] = failed[q] /\ wire'[q] = wire[q] /\ client'[q] = client[q]
    /\ clean'[q] = clean[q] /\ judged'[q] = judged[q] /\ defect'[q] = defect[q]
    /\ returned'[q] = returned[q] /\ launched'[q] = launched[q]

Places == Live \cup {"returned", "raised", "crashed"}

\* One process goes somewhere, and the others stay.
LEMMA Moves ==
    ASSUME TypeOK, NEW p \in Operators, NEW place \in Places, pc' = [pc EXCEPT ![p] = place]
    PROVE  /\ pc' \in [Operators -> Live \cup {"returned", "raised", "crashed"}]
           /\ pc'[p] = place /\ \A q \in Operators : q # p => pc'[q] = pc[q]
BY DEF TypeOK, Places

\* The claimant alone is in the directory: what is left to show of one of its
\* steps concerns the evidence and itself.
LEMMA OwnerStep ==
    ASSUME IInv, NEW p \in Operators, pc[p] \in Claimed, TypeOK', Evidence',
           \A q \in Operators : q # p => Untouched(q),
           directory' = directory, index' = index \/ file["index"] = "absent",
           \A n \in Files : Whole(n) => Whole(n)',
           pc'[p] \notin Unclaimed,
           pc'[p] \in Claimed => Backing(p)' /\ Wired(p)',
           Reported(p)', Launched(p)'
    PROVE  IInv'
<1>1. directory /\ \A q \in Operators : q # p => pc[q] \notin Holding
  BY DEF IInv, Claim, Holding
<1>2. \A q \in Operators : q # p => pc'[q] \notin Holding
  BY <1>1 DEF Untouched
<1>3. Claim'
  BY <1>1, <1>2 DEF IInv, Claim, Untouched, Fresh
<1>4. ASSUME NEW q \in Operators, q # p PROVE Reported(q)'
  BY <1>2, <1>4 DEF Reported, Holding, Claimed, Concluded, Unclaimed, Live
<1>5. ASSUME NEW q \in Operators, q # p PROVE Launched(q)'
  <2>1. Launched(q) /\ Untouched(q)
    BY <1>5 DEF IInv
  <2>2. {"returned-status", "index"} \subseteq Files
    BY DEF Files
  <2> QED BY <2>1, <2>2 DEF Launched, Untouched, Whole
<1> QED BY <1>2, <1>3, <1>4, <1>5 DEF IInv, Holding

\* A process that has not claimed touches nothing that is shared.
LEMMA OutsideStep ==
    ASSUME IInv, NEW p \in Operators, pc[p] \in Unclaimed, TypeOK',
           \A q \in Operators : q # p => Untouched(q), UNCHANGED <<disk, sends>>,
           pc'[p] \notin Holding,
           pc'[p] \in Unclaimed => Fresh(p)', Launched(p)'
    PROVE  IInv'
<1>1. UNCHANGED <<directory, file, index, sends>>
  BY DEF disk
<1>2. Claim'
  BY <1>1 DEF IInv, Claim, Untouched, Fresh
<1>3. Evidence'
  BY <1>1 DEF IInv, Evidence, DurableBeforeSend, IndexBacked, AssociationIsBound, Whole
<1>6. Reported(p)'
  BY DEF Reported, Holding, Claimed, Concluded, Unclaimed, Live
<1>7. ASSUME NEW q \in Operators, q # p PROVE Reported(q)'
  BY <1>1, <1>7 DEF IInv, Reported, Untouched, Whole
<1>4. ASSUME NEW q \in Operators, q # p PROVE Launched(q)'
  BY <1>1, <1>4 DEF IInv, Launched, Untouched, Whole
<1>5. ASSUME NEW q \in Operators, pc'[q] \in Claimed PROVE Backing(q)' /\ Wired(q)'
  <2>1. q # p /\ Untouched(q) /\ Backing(q) /\ Wired(q)
    BY <1>5 DEF IInv, Untouched, Holding
  <2>2. Backing(q)'
    BY <1>1, <2>1 DEF Untouched, Backing, Whole, CleanWire, HooksCounted
  <2>3. Wired(q)'
    BY <1>1, <2>1 DEF Untouched, Wired
  <2> QED BY <2>2, <2>3
<1> QED BY <1>2, <1>3, <1>4, <1>5, <1>6, <1>7 DEF IInv

\* A step that touches neither the disk nor the count of requests.
LEMMA Unmoved ==
    ASSUME IInv, UNCHANGED <<disk, sends>>
    PROVE  /\ Evidence' /\ UNCHANGED <<directory, file, index, sends>>
           /\ \A n \in Files : Whole(n) => Whole(n)'
BY DEF IInv, disk, Evidence, DurableBeforeSend, IndexBacked, AssociationIsBound, Whole

\* One more file, other than the two that speak of others.
LEMMA FileStep ==
    ASSUME IInv, NEW n \in Files \ {"index", "report-association"}, NEW w \in Outcomes(n),
           file' = [file EXCEPT ![n] = w.file], UNCHANGED <<index, sends>>
    PROVE  /\ Evidence'
           /\ \A m \in Files : Whole(m) => Whole(m)'
<1>1. /\ \A m \in Files : Whole(m) => Whole(m)'
      /\ \A m \in Files : m # n => file'[m] = file[m]
  BY WriteFacts DEF IInv
<1>2. /\ {"claim", "index", "report-association"} \subseteq Files
      /\ index.files \subseteq Files
  BY DEF Files, IInv, TypeOK
<1>3. DurableBeforeSend'
  BY <1>1, <1>2, BeforeFacts DEF IInv, Evidence, DurableBeforeSend, Whole
<1>4. IndexBacked'
  BY <1>1, <1>2 DEF IInv, Evidence, IndexBacked, Whole
<1>5. AssociationIsBound'
  BY <1>1, <1>2, RawFacts DEF IInv, Evidence, AssociationIsBound, Whole
<1> QED BY <1>1, <1>3, <1>4, <1>5 DEF IInv, Evidence
-----------------------------------------------------------------------------
(* One lemma per action *)

\* Authorizing, validating, and being refused the directory change nothing.
LEMMA AcceptStep ==
    ASSUME IInv, NEW p \in Operators, Prepare(p) \/ Validate(p) \/ ClaimRefused(p)
    PROVE  IInv'
<1>1. /\ pc[p] \in Unclaimed /\ Fresh(p)
      /\ pc' = [pc EXCEPT ![p] = pc'[p]] /\ pc'[p] \in {"validate", "start", "raised"}
      /\ UNCHANGED <<disk, sends, at, listed, failed, wire, client, locals, results>>
  BY DEF Prepare, Validate, ClaimRefused, Accept, Goto, IInv, TypeOK, Claim, Unclaimed
<1>2. /\ UNCHANGED <<directory, file, index, sends, at, listed, failed, wire, client>>
      /\ UNCHANGED <<clean, judged, defect, returned, launched>>
  BY <1>1 DEF disk, locals, results
<1>3. TypeOK'
  <2>1. pc' \in [Operators -> Live \cup {"returned", "raised", "crashed"}]
    BY <1>1 DEF IInv, TypeOK, Live
  <2>2. launched' \in [Operators -> {"NONE", "COMPLETE", "UNCONFIRMED"}]
    BY <1>2 DEF IInv, TypeOK
  <2> QED BY <1>2, <2>1, <2>2 DEF IInv, TypeOK
<1>4. \A q \in Operators : q # p => Untouched(q)
  BY <1>1, <1>2 DEF IInv, TypeOK, Untouched
<1>5. Fresh(p)'
  BY <1>1, <1>2 DEF Fresh
<1>6. Launched(p)'
  BY <1>1, <1>2 DEF IInv, Launched, Unclaimed
<1>7. pc'[p] \notin Holding
  BY <1>1 DEF Holding, Claimed, Unclaimed, Live, MaySend, Consuming
<1> QED BY <1>1, <1>3, <1>4, <1>5, <1>6, <1>7, OutsideStep

\* The directory is made by one process, and nothing is in it.
LEMMA MakeDirectoryStep ==
    ASSUME IInv, NEW p \in Operators, MakeDirectory(p)
    PROVE  IInv'
<1>1. /\ pc[p] = "start" /\ ~directory /\ directory' /\ pc' = [pc EXCEPT ![p] = "claim"]
      /\ UNCHANGED <<file, index, sends, at, listed, failed, wire, client>>
      /\ UNCHANGED <<clean, judged, defect, returned, launched>>
  BY DEF MakeDirectory, Goto, locals, results
<1>2. Fresh(p) /\ sends = 0 /\ \A n \in Files : file[n] = "absent"
  BY <1>1 DEF IInv, Claim, Unclaimed
<1>3. TypeOK'
  BY <1>1 DEF MakeDirectory, IInv, TypeOK, Live, MaySend, Consuming
<1>4. \A q \in Operators : q # p => Untouched(q) /\ pc[q] \notin Holding
  BY <1>1 DEF IInv, TypeOK, Untouched, Claim
<1>5. pc'[p] = "claim" /\ "claim" \in Claimed /\ "claim" \notin Unclaimed
  BY <1>1 DEF IInv, TypeOK, Claimed, Live, MaySend,
         Consuming, Unclaimed
<1>10. \A q \in Operators : Reported(q)' /\ (q # p => pc'[q] \notin Holding)
  BY <1>4, <1>5 DEF Reported, Untouched, Holding, Claimed, Concluded, Unclaimed, Live
<1>6. Claim'
  BY <1>1, <1>4, <1>5, <1>10 DEF IInv, Claim, Untouched, Fresh
<1>7. Evidence'
  BY <1>1 DEF IInv, Evidence, DurableBeforeSend, IndexBacked, AssociationIsBound, Whole
<1>8. \A q \in Operators : Launched(q)'
  BY <1>1, <1>4, <1>5 DEF IInv, Launched, Untouched, Whole
<1>9. Backing(p)' /\ Wired(p)'
  <2>1. "index" \in Files
    BY DEF Files
  <2>2. Backing(p)'
    BY <1>1, <1>2, <1>5, <2>1 DEF Backing, Fresh, Invoked, Concluded
  <2>3. Wired(p)'
    BY <1>1, <1>2, <1>5 DEF Wired, Fresh, NotEntered, Concluded
  <2> QED BY <2>2, <2>3
<1> QED BY <1>3, <1>5, <1>6, <1>7, <1>8, <1>9, <1>10 DEF IInv, Holding

\* The claim is on disk, or the process leaves it as it is.
LEMMA WriteClaimStep ==
    ASSUME IInv, NEW p \in Operators, WriteClaim(p)
    PROVE  IInv'
<1>1. /\ pc[p] = "claim" /\ pc[p] \in Claimed /\ Backing(p) /\ Wired(p)
      /\ UNCHANGED <<directory, index, sends, at, listed, failed, wire, client>>
      /\ UNCHANGED <<clean, judged, defect, returned, launched>>
  BY DEF WriteClaim, locals, results, IInv, Claimed, Live, MaySend,
         Consuming, Unclaimed
<1>2. PICK w \in Outcomes("claim") :
          /\ file' = [file EXCEPT !["claim"] = w.file]
          /\ pc' = [pc EXCEPT ![p] = IF w.ok THEN "stat" ELSE "raised"]
  BY DEF WriteClaim, Goto
<1>3. "claim" \in Files /\ "index" \in Files
  BY DEF Files
<1>4. /\ Evidence' /\ \A n \in Files : Whole(n) => Whole(n)'
      /\ file' \in [Files -> {"absent", "broken", "whole"}] /\ file'["index"] = file["index"]
      /\ w.ok \in BOOLEAN /\ (w.ok => Whole("claim")')
  BY <1>1, <1>2, <1>3, FileStep, WriteFacts DEF IInv
<1>5. TypeOK'
  BY <1>1, <1>2, <1>4 DEF IInv, TypeOK, Live, MaySend, Consuming
<1>6. \A q \in Operators : q # p => Untouched(q)
  BY <1>1, <1>2 DEF IInv, TypeOK, Untouched
<1>7. /\ pc'[p] \in {"stat", "raised"}
      /\ pc'[p] = "stat" => Whole("claim")'
  BY <1>2, <1>4 DEF IInv, TypeOK
<1>8. pc'[p] \in Claimed => Backing(p)' /\ Wired(p)'
  <2>1. pc'[p] \in Claimed => Backing(p)'
    BY <1>1, <1>3, <1>4, <1>7 DEF Backing, Wired, Claimed, Live, MaySend, Consuming,
                                  Unclaimed, Invoked, Concluded
  <2>2. pc'[p] \in Claimed => Wired(p)'
    BY <1>1, <1>7 DEF Wired, Claimed, Live, MaySend, Consuming, Unclaimed, Concluded
  <2> QED BY <2>1, <2>2
<1>9. /\ pc'[p] \notin Unclaimed /\ Reported(p)' /\ Launched(p)'
  BY <1>1, <1>7 DEF Reported, Concluded, Unclaimed, IInv, Launched
<1> QED BY <1>1, <1>4, <1>5, <1>6, <1>8, <1>9, OwnerStep

\* The claim is the first file of the publication.
LEMMA TakeClaimStep ==
    ASSUME IInv, NEW p \in Operators, TakeClaim(p)
    PROVE  IInv'
<1>1. /\ pc[p] = "stat" /\ pc[p] \in Claimed /\ Backing(p) /\ Wired(p)
      /\ UNCHANGED <<disk, sends, at, failed, wire, client>>
      /\ UNCHANGED <<clean, judged, defect, returned, launched>>
  BY DEF TakeClaim, locals, results, IInv, Claimed, Live, MaySend,
         Consuming, Unclaimed
<1>2. \/ pc' = [pc EXCEPT ![p] = "before"] /\ listed' = [listed EXCEPT ![p] = {"claim"}]
      \/ pc' = [pc EXCEPT ![p] = "raised"] /\ listed' = listed
  BY DEF TakeClaim, Goto, Set
<1>3. "claim" \in Files
  BY DEF Files
<1>4. /\ Evidence' /\ UNCHANGED <<directory, file, index, sends>>
      /\ \A n \in Files : Whole(n) => Whole(n)'
  BY <1>1, Unmoved
<1>5. TypeOK'
  <2>1. pc' \in [Operators -> Live \cup {"returned", "raised", "crashed"}]
    <3>1. \E place \in Places : pc' = [pc EXCEPT ![p] = place]
      BY <1>2 DEF Places, Live, MaySend, Consuming
    <3> QED BY <3>1, Moves DEF IInv
  <2>2. listed' \in [Operators -> SUBSET Files]
    BY <1>2, <1>3 DEF IInv, TypeOK
  <2> QED BY <1>1, <1>4, <2>1, <2>2 DEF IInv, TypeOK
<1>6. \A q \in Operators : q # p => Untouched(q)
  BY <1>1, <1>2 DEF IInv, TypeOK, Untouched
<1>7. \/ pc'[p] = "before" /\ listed'[p] = {"claim"}
      \/ pc'[p] = "raised"
  BY <1>2 DEF IInv, TypeOK
<1>8. pc'[p] \in Claimed => Backing(p)' /\ Wired(p)'
  <2> SUFFICES ASSUME pc'[p] = "before", listed'[p] = {"claim"} PROVE Backing(p)' /\ Wired(p)'
    BY <1>7 DEF Claimed, Live, MaySend, Consuming
  <2>1. at'[p] = 1 /\ 1 \in DOMAIN Before /\ \A i \in DOMAIN Before : ~(i < 1)
    BY <1>1, BeforeFacts DEF Wired
  <2>2. Backing(p)'
    BY <1>1, <1>4, <2>1 DEF Backing, Whole, Invoked, Concluded
  <2>3. Wired(p)'
    BY <1>1, <1>4 DEF Wired, Concluded
  <2> QED BY <2>2, <2>3
<1>9. /\ pc'[p] \notin Unclaimed /\ Reported(p)' /\ Launched(p)'
  BY <1>1, <1>7 DEF Reported, Concluded, Unclaimed, IInv, Launched
<1> QED BY <1>1, <1>4, <1>5, <1>6, <1>8, <1>9, OwnerStep

\* The next of the eight files, or the first failure.
LEMMA PublishBeforeStep ==
    ASSUME IInv, NEW p \in Operators, PublishBefore(p)
    PROVE  IInv'
<1>1. /\ pc[p] = "before" /\ pc[p] \in Claimed /\ Backing(p) /\ Wired(p)
      /\ UNCHANGED <<directory, index, sends, wire, client>>
      /\ UNCHANGED <<clean, judged, defect, returned, launched>>
  BY DEF PublishBefore, locals, results, IInv, Claimed, Live, MaySend,
         Consuming, Unclaimed
<1> PICK i : i = at[p]
  OBVIOUS
<1> PICK n : n = Before[i]
  OBVIOUS
<1>2. PICK w \in Outcomes(n) :
          /\ Put(p, n, w)
          /\ \/ ~w.ok /\ pc' = [pc EXCEPT ![p] = "final"] /\ at' = at
             \/ /\ w.ok /\ at' = [at EXCEPT ![p] = i + 1]
                /\ \/ i = 8 /\ pc' = [pc EXCEPT ![p] = "factory"]
                   \/ i # 8 /\ pc' = pc
  BY BeforeFacts DEF PublishBefore, Goto
<1>3. /\ i \in 1..8 /\ n \in Files \ {"claim", "index", "report-association"}
      /\ \A j \in 1..8 : j < i => Before[j] \in listed[p]
      /\ {"claim", "index"} \subseteq Files
  BY <1>1, BeforeFacts DEF Backing, Files
<1>4. /\ Evidence' /\ \A m \in Files : Whole(m) => Whole(m)'
      /\ file' \in [Files -> {"absent", "broken", "whole"}] /\ file'["index"] = file["index"]
      /\ w.ok \in BOOLEAN /\ (w.ok => Whole(n)')
  <2>1. file' = [file EXCEPT ![n] = w.file]
    BY <1>2 DEF Put
  <2> QED BY <1>1, <1>3, <2>1, FileStep, WriteFacts DEF IInv
<1>5. /\ listed' \in [Operators -> SUBSET Files] /\ failed' \in [Operators -> BOOLEAN]
      /\ \A q \in Operators : q # p => listed'[q] = listed[q] /\ failed'[q] = failed[q]
      /\ (failed'[p] <=> (failed[p] \/ ~w.ok))
      /\ listed'[p] = (IF w.ok THEN listed[p] \cup {n} ELSE listed[p])
  BY <1>2, <1>3, PutFacts DEF IInv
<1>6. /\ pc' \in [Operators -> Live \cup {"returned", "raised", "crashed"}]
      /\ at' \in [Operators -> 1..9]
      /\ \A q \in Operators : q # p => pc'[q] = pc[q] /\ at'[q] = at[q]
      /\ \/ ~w.ok /\ pc'[p] = "final"
         \/ w.ok /\ i = 8 /\ pc'[p] = "factory"
         \/ w.ok /\ i # 8 /\ pc'[p] = "before" /\ at'[p] = i + 1
  <2>1. i + 1 \in 1..9
    BY <1>3
  <2>2. /\ at' \in [Operators -> 1..9] /\ \A q \in Operators : q # p => at'[q] = at[q]
        /\ w.ok => at'[p] = i + 1
    BY <1>2, <2>1 DEF IInv, TypeOK
  <2>3. /\ pc' \in [Operators -> Live \cup {"returned", "raised", "crashed"}]
        /\ \A q \in Operators : q # p => pc'[q] = pc[q]
    <3>1. CASE pc' = pc
      BY <3>1 DEF IInv, TypeOK
    <3>2. CASE \E w1 \in {"final", "factory"} : pc' = [pc EXCEPT ![p] = w1]
      BY <3>2 DEF IInv, TypeOK, Live, MaySend, Consuming
    <3> QED BY <1>2, <3>1, <3>2
  <2> QED BY <1>1, <1>2, <2>2, <2>3 DEF IInv, TypeOK
<1>7. TypeOK'
  BY <1>1, <1>4, <1>5, <1>6 DEF IInv, TypeOK
<1>8. \A q \in Operators : q # p => Untouched(q)
  BY <1>1, <1>5, <1>6 DEF Untouched
<1>9. Backing(p)'
  <2>1. \A m \in listed'[p] : Whole(m)'
    <3>1. listed[p] \subseteq Files
      BY DEF IInv, TypeOK
    <3> QED BY <1>1, <1>4, <1>5, <3>1 DEF Backing
  <2>2. w.ok => \A j \in 1..8 : j < i + 1 => Before[j] \in listed'[p]
    BY <1>3, <1>5
  <2>3. w.ok /\ i = 8 => Names(Before) \subseteq listed'[p]
    BY <2>2, BeforeFacts
  <2>4. pc'[p] = "before" => at'[p] \in DOMAIN Before
                             /\ \A j \in DOMAIN Before : j < at'[p] => Before[j] \in listed'[p]
    BY <1>3, <1>6, <2>2, BeforeFacts
  <2>5. Whole("claim")' /\ ~judged[p]
    BY <1>1, <1>3, <1>4 DEF Backing, Concluded
  <2>6. pc'[p] = "final" => failed'[p]
    BY <1>5, <1>6
  <2>7. file'["index"] = "absent" /\ returned[p] = "NONE"
    BY <1>1, <1>4 DEF Backing, Concluded
  <2> HIDE DEF Backing
  <2> QED BY <1>1, <1>6, <2>1, <2>3, <2>4, <2>5, <2>6, <2>7 DEF Backing, Invoked, Concluded
<1>10. Wired(p)'
  BY <1>1, <1>6 DEF Wired, Concluded, NotEntered
<1>11. pc'[p] \notin Unclaimed /\ Reported(p)' /\ Launched(p)'
  BY <1>1, <1>6 DEF Unclaimed, Reported, Concluded, IInv, Launched
<1> QED BY <1>1, <1>4, <1>7, <1>8, <1>9, <1>10, <1>11, OwnerStep

\* An exception noted or let through on the way to the finally clause: the
\* shape of ConsumerRaises and End.
LEMMA FailureStep ==
    ASSUME IInv, NEW p \in Operators, NEW caught \in BOOLEAN, Fails(p, caught),
           pc[p] \in Consuming, pc' = [pc EXCEPT ![p] = "final"],
           client' \in [Operators -> {"none", "open", "closed", "unclosable", "lost"}],
           \A q \in Operators : q # p => client'[q] = client[q],
           UNCHANGED <<disk, sends, at, listed, wire, clean, judged, results>>
    PROVE  IInv'
<1>1. /\ pc[p] \in Claimed /\ Backing(p) /\ Wired(p)
      /\ pc[p] \notin {"final", "index"} \cup Concluded
      /\ UNCHANGED <<disk, sends, at, listed, wire>>
      /\ UNCHANGED <<clean, judged, returned, launched>>
  BY DEF results, IInv, Claimed, Live, Consuming, Unclaimed, Concluded
<1> DEFINE lone == ~caught
<1>2. /\ failed \in [Operators -> BOOLEAN] /\ defect \in [Operators -> BOOLEAN]
      /\ failed' = [failed EXCEPT ![p] = TRUE] /\ defect' = [defect EXCEPT ![p] = lone]
  BY DEF Fails, Set, IInv, TypeOK
<1>3. /\ failed' \in [Operators -> BOOLEAN] /\ defect' \in [Operators -> BOOLEAN] /\ failed'[p]
      /\ \A q \in Operators : q # p => failed'[q] = failed[q] /\ defect'[q] = defect[q]
  BY <1>2
<1>4. /\ Evidence' /\ UNCHANGED <<directory, file, index, sends>>
      /\ \A n \in Files : Whole(n) => Whole(n)'
  BY <1>1, Unmoved
<1>5. /\ pc' \in [Operators -> Live \cup {"returned", "raised", "crashed"}] /\ pc'[p] = "final"
      /\ \A q \in Operators : q # p => pc'[q] = pc[q]
  BY DEF IInv, TypeOK, Live
<1>6. TypeOK'
  BY <1>1, <1>3, <1>4, <1>5 DEF IInv, TypeOK
<1>7. \A q \in Operators : q # p => Untouched(q)
  BY <1>1, <1>3, <1>5 DEF Untouched
<1>8. ~judged[p]
  BY <1>1 DEF Backing
<1>9. Backing(p)'
  <2>1. /\ \A m \in listed[p] : Whole(m)
        /\ Whole("claim") /\ file["index"] = "absent" /\ returned[p] = "NONE"
    BY <1>1 DEF Backing, Consuming
  <2> QED BY <1>1, <1>3, <1>4, <1>5, <1>8, <2>1 DEF Backing, Whole, Invoked, Concluded
<1>10. Wired(p)'
  BY <1>1, <1>4, <1>5 DEF Wired
<1>11. Launched(p)'
  BY <1>1, <1>5 DEF IInv, Launched, Consuming
<1> QED BY <1>1, <1>4, <1>5, <1>6, <1>7, <1>9, <1>10, <1>11, OwnerStep
        DEF Unclaimed, Reported, Concluded

\* Outside invoke_once an exception leads to the finally clause; at the
\* factory it may lose the client.
LEMMA ConsumerRaisesStep ==
    ASSUME IInv, NEW p \in Operators, ConsumerRaises(p)
    PROVE  IInv'
<1>1. PICK caught \in BOOLEAN : Fails(p, caught)
  BY DEF ConsumerRaises
<1>2. /\ pc[p] \in Consuming /\ pc' = [pc EXCEPT ![p] = "final"]
      /\ UNCHANGED <<disk, sends, at, listed, wire, clean, judged, results>>
  BY DEF ConsumerRaises, Goto
<1>3. \E c \in {"none", "lost", client[p]} : client' = [client EXCEPT ![p] = c]
  BY DEF ConsumerRaises, Lost, Set
<1>4. /\ client' \in [Operators -> {"none", "open", "closed", "unclosable", "lost"}]
      /\ \A q \in Operators : q # p => client'[q] = client[q]
  BY <1>3 DEF IInv, TypeOK
<1> QED BY <1>1, <1>2, <1>4, FailureStep

\* A client is built, and nothing has been sent with it.
LEMMA FactoryReturnsStep ==
    ASSUME IInv, NEW p \in Operators, FactoryReturns(p)
    PROVE  IInv'
<1>1. /\ pc[p] = "factory" /\ pc[p] \in Claimed /\ Backing(p) /\ Wired(p)
      /\ client' = [client EXCEPT ![p] = "open"] /\ pc' = [pc EXCEPT ![p] = "adapter"]
      /\ UNCHANGED <<disk, sends, at, listed, failed, wire>>
      /\ UNCHANGED <<clean, judged, defect, returned, launched>>
  BY DEF FactoryReturns, Goto, Set, locals, results, IInv, Claimed, Live, MaySend,
         Consuming, Unclaimed
<1>2. /\ Evidence' /\ UNCHANGED <<directory, file, index, sends>>
      /\ \A n \in Files : Whole(n) => Whole(n)'
  BY <1>1, Unmoved
<1>3. /\ pc' \in [Operators -> Live \cup {"returned", "raised", "crashed"}] /\ pc'[p] = "adapter"
      /\ \A q \in Operators : q # p => pc'[q] = pc[q]
  BY <1>1 DEF IInv, TypeOK, Live, MaySend, Consuming
<1>4. /\ client' \in [Operators -> {"none", "open", "closed", "unclosable", "lost"}]
      /\ \A q \in Operators : q # p => client'[q] = client[q]
  BY <1>1 DEF IInv, TypeOK
<1>5. TypeOK'
  BY <1>1, <1>2, <1>3, <1>4 DEF IInv, TypeOK
<1>6. \A q \in Operators : q # p => Untouched(q)
  BY <1>1, <1>3, <1>4 DEF Untouched
<1>7. Backing(p)'
  BY <1>1, <1>2, <1>3 DEF Backing, Whole, Invoked, Concluded
<1>8. Wired(p)'
  BY <1>1, <1>2, <1>3 DEF Wired
<1>9. Launched(p)'
  BY <1>1, <1>3 DEF IInv, Launched
<1> QED BY <1>1, <1>2, <1>3, <1>5, <1>6, <1>7, <1>8, <1>9, OwnerStep
        DEF Unclaimed, Reported, Concluded
-----------------------------------------------------------------------------
(* The call *)

Wires == [built : BOOLEAN, entered : BOOLEAN, checks : 0..2, approved : 0..1,
          failed : BOOLEAN, fault : BOOLEAN, logs : {"none", "decoded", "unusable"}, body : BOOLEAN]

\* A hook that refuses counts no approval, whether or not it ends the call.
LEMMA RefusalFacts ==
    ASSUME NEW t \in Wires
    PROVE  /\ [t EXCEPT !.failed = TRUE] \in Wires
           /\ [t EXCEPT !.failed = TRUE].approved = t.approved
           /\ [t EXCEPT !.fault = TRUE] \in Wires
           /\ [t EXCEPT !.fault = TRUE].approved = t.approved
           /\ [t EXCEPT !.fault = TRUE].fault = TRUE
BY DEF Wires

\* What the SDK does between the hooks, short of an approval.
LEMMA CallStep ==
    ASSUME IInv, NEW p \in Operators, NEW u \in Wires, pc[p] = "sdk",
           wire' = [wire EXCEPT ![p] = u], u.approved = wire[p].approved,
           pc' = pc \/ pc' = [pc EXCEPT ![p] = "closing"],
           defect' \in [Operators -> BOOLEAN],
           \A q \in Operators : q # p => defect'[q] = defect[q],
           UNCHANGED <<disk, sends, at, listed, failed, client, clean, judged, results>>
    PROVE  IInv'
<1>1. /\ pc[p] \in Claimed /\ Backing(p) /\ Wired(p)
      /\ UNCHANGED <<disk, sends, at, listed, failed, client>>
      /\ UNCHANGED <<clean, judged, returned, launched>>
  BY DEF results, IInv, Claimed, Live, MaySend,
         Consuming, Unclaimed
<1>2. /\ Evidence' /\ UNCHANGED <<directory, file, index, sends>>
      /\ \A n \in Files : Whole(n) => Whole(n)'
  BY <1>1, Unmoved
<1>3. /\ pc' \in [Operators -> Live \cup {"returned", "raised", "crashed"}]
      /\ pc'[p] \in {"sdk", "closing"} /\ \A q \in Operators : q # p => pc'[q] = pc[q]
  BY DEF IInv, TypeOK, Live, MaySend, Consuming
<1>4. wire \in [Operators -> Wires]
  BY DEF IInv, TypeOK, Wires
<1>5. /\ wire' \in [Operators -> Wires] /\ wire'[p] = u
      /\ \A q \in Operators : q # p => wire'[q] = wire[q]
  BY <1>4
<1>6. TypeOK'
  BY <1>1, <1>2, <1>3, <1>5 DEF IInv, TypeOK, Wires
<1>7. \A q \in Operators : q # p => Untouched(q)
  BY <1>1, <1>3, <1>5 DEF Untouched
<1>8. Backing(p)'
  BY <1>1, <1>2, <1>3 DEF Backing, Whole, Invoked, Concluded
<1>9. Wired(p)'
  BY <1>1, <1>2, <1>3, <1>5 DEF Wired, Concluded
<1>10. Launched(p)'
  BY <1>1, <1>3 DEF IInv, Launched
<1> QED BY <1>1, <1>2, <1>3, <1>6, <1>7, <1>8, <1>9, <1>10, OwnerStep
        DEF Unclaimed, Reported, Concluded

\* The transport is built, or invoke_once entered: nothing is counted yet.
LEMMA EntersStep ==
    ASSUME IInv, NEW p \in Operators, AdapterBuilds(p) \/ InvokeEnters(p)
    PROVE  IInv'
<1>1. /\ pc[p] \in {"adapter", "built"} /\ pc[p] \in Claimed /\ Backing(p) /\ Wired(p)
      /\ \E place \in {"built", "sdk"} : pc' = [pc EXCEPT ![p] = place]
      /\ UNCHANGED <<disk, sends, at, listed, failed, client>>
      /\ UNCHANGED <<clean, judged, defect, returned, launched>>
  BY DEF AdapterBuilds, InvokeEnters, Goto, locals, results, IInv, Claimed, Live, MaySend,
         Consuming, Unclaimed
<1>2. /\ Evidence' /\ UNCHANGED <<directory, file, index, sends>>
      /\ \A n \in Files : Whole(n) => Whole(n)'
  BY <1>1, Unmoved
<1>3. /\ pc' \in [Operators -> Live \cup {"returned", "raised", "crashed"}]
      /\ pc'[p] \in {"built", "sdk"} /\ \A q \in Operators : q # p => pc'[q] = pc[q]
  BY <1>1 DEF IInv, TypeOK, Live, MaySend, Consuming
<1>4. wire \in [Operators -> Wires]
  BY DEF IInv, TypeOK, Wires
<1>5. /\ wire' \in [Operators -> Wires] /\ wire'[p].approved = wire[p].approved
      /\ \A q \in Operators : q # p => wire'[q] = wire[q]
  <2>1. CASE wire' = [wire EXCEPT ![p].built = TRUE]
    BY <1>4, <2>1 DEF Wires
  <2>2. CASE wire' = [wire EXCEPT ![p].entered = TRUE]
    BY <1>4, <2>2 DEF Wires
  <2> QED BY <2>1, <2>2 DEF AdapterBuilds, InvokeEnters
<1>6. TypeOK'
  BY <1>1, <1>2, <1>3, <1>5 DEF IInv, TypeOK, Wires
<1>7. \A q \in Operators : q # p => Untouched(q)
  BY <1>1, <1>3, <1>5 DEF Untouched
<1>8. Backing(p)'
  BY <1>1, <1>2, <1>3 DEF Backing, Whole, Invoked, Concluded
<1>9. Wired(p)'
  BY <1>1, <1>2, <1>3, <1>5 DEF Wired
<1>10. Launched(p)'
  BY <1>1, <1>3 DEF IInv, Launched
<1> QED BY <1>1, <1>2, <1>3, <1>6, <1>7, <1>8, <1>9, <1>10, OwnerStep
        DEF Unclaimed, Reported, Concluded

\* The call is abandoned with a failure noted, and its evidence published:
\* the shape of InvokeAbandoned, CloseInterrupted and CloseClient's defect.
LEMMA AbandonedStep ==
    ASSUME IInv, NEW p \in Operators, pc[p] \in {"built", "closing"},
           NEW caught \in BOOLEAN, Fails(p, caught),
           pc' = [pc EXCEPT ![p] = "salvage"], at' = [at EXCEPT ![p] = 1],
           wire' \in [Operators -> Wires], wire'[p].approved = wire[p].approved,
           \A q \in Operators : q # p => wire'[q] = wire[q] /\ client'[q] = client[q],
           client' \in [Operators -> {"none", "open", "closed", "unclosable", "lost"}],
           UNCHANGED <<disk, sends, listed, clean, judged, results>>
    PROVE  IInv'
<1>1. /\ pc[p] \in Claimed /\ Backing(p) /\ Wired(p)
      /\ UNCHANGED <<disk, sends, listed>>
      /\ UNCHANGED <<clean, judged, returned, launched>>
  BY DEF results, IInv, Claimed, Live, MaySend,
         Consuming, Unclaimed
<1> DEFINE lone == ~caught
<1>2. /\ failed \in [Operators -> BOOLEAN] /\ defect \in [Operators -> BOOLEAN]
      /\ failed' = [failed EXCEPT ![p] = TRUE] /\ defect' = [defect EXCEPT ![p] = lone]
  BY DEF Fails, Set, IInv, TypeOK
<1>3. /\ failed' \in [Operators -> BOOLEAN] /\ defect' \in [Operators -> BOOLEAN] /\ failed'[p]
      /\ \A q \in Operators : q # p => failed'[q] = failed[q] /\ defect'[q] = defect[q]
  BY <1>2
<1>4. /\ Evidence' /\ UNCHANGED <<directory, file, index, sends>>
      /\ \A n \in Files : Whole(n) => Whole(n)'
  BY <1>1, Unmoved
<1>5. /\ pc' \in [Operators -> Live \cup {"returned", "raised", "crashed"}]
      /\ pc'[p] = "salvage" /\ \A q \in Operators : q # p => pc'[q] = pc[q]
      /\ at' \in [Operators -> 1..9] /\ at'[p] = 1
      /\ \A q \in Operators : q # p => at'[q] = at[q]
  BY DEF IInv, TypeOK, Live
<1>6. TypeOK'
  BY <1>1, <1>3, <1>4, <1>5 DEF IInv, TypeOK, Wires
<1>7. \A q \in Operators : q # p => Untouched(q)
  BY <1>1, <1>3, <1>5 DEF Untouched
<1>8. 1 \in DOMAIN Raw
  BY RawFacts
<1>9. Backing(p)'
  BY <1>1, <1>3, <1>4, <1>5, <1>8 DEF Backing, Whole, Invoked, Concluded
<1>10. Wired(p)'
  BY <1>1, <1>4, <1>5 DEF Wired
<1>11. Launched(p)'
  BY <1>1, <1>5 DEF IInv, Launched
<1> QED BY <1>1, <1>4, <1>5, <1>6, <1>7, <1>9, <1>10, <1>11, OwnerStep
        DEF Unclaimed, Reported, Concluded

\* An exception between the construction and the try statement of invoke_once.
LEMMA InvokeAbandonedStep ==
    ASSUME IInv, NEW p \in Operators, InvokeAbandoned(p)
    PROVE  IInv'
<1>1. PICK caught \in BOOLEAN : Fails(p, caught)
  BY DEF InvokeAbandoned
<1>2. /\ pc[p] = "built" /\ pc' = [pc EXCEPT ![p] = "salvage"] /\ at' = [at EXCEPT ![p] = 1]
      /\ UNCHANGED <<disk, sends, listed, client, clean, judged, results>>
  BY DEF InvokeAbandoned, Goto, Set
<1>3. PICK entered \in BOOLEAN : wire' = [wire EXCEPT ![p].entered = entered]
  BY DEF InvokeAbandoned
<1>4. wire \in [Operators -> Wires]
  BY DEF IInv, TypeOK, Wires
<1>5. /\ wire' \in [Operators -> Wires] /\ wire'[p].approved = wire[p].approved
      /\ \A q \in Operators : q # p => wire'[q] = wire[q]
  BY <1>3, <1>4 DEF Wires
<1>6. client' \in [Operators -> {"none", "open", "closed", "unclosable", "lost"}]
  BY <1>2 DEF IInv, TypeOK
<1> QED BY <1>1, <1>2, <1>5, <1>6, AbandonedStep

\* The first hook counts the build, and may refuse it.
LEMMA ParametersHookStep ==
    ASSUME IInv, NEW p \in Operators, ParametersHook(p)
    PROVE  IInv'
<1> PICK s : s = wire[p]
  OBVIOUS
<1> PICK t : t = [s EXCEPT !.checks = @ + 1]
  OBVIOUS
<1>1. /\ pc[p] = "sdk" /\ s \in Wires /\ s.checks < 2
      /\ UNCHANGED <<disk, sends, at, listed, failed, client, defect, clean, judged, results>>
      /\ defect \in [Operators -> BOOLEAN]
  BY DEF ParametersHook, locals, IInv, TypeOK, Wires
<1>2. t \in Wires /\ t.approved = s.approved
  BY <1>1 DEF Wires
<1>3. \/ wire' = [wire EXCEPT ![p] = t] /\ pc' = pc
      \/ Refuse(p, [t EXCEPT !.failed = TRUE])
  BY DEF ParametersHook, Set
<1>4. CASE wire' = [wire EXCEPT ![p] = t] /\ pc' = pc
  BY <1>1, <1>2, <1>4, CallStep
<1>5. CASE Refuse(p, [t EXCEPT !.failed = TRUE])
  <2> PICK u : u = [t EXCEPT !.failed = TRUE]
    OBVIOUS
  <2>1. u \in Wires /\ u.approved = s.approved
    BY <1>2, RefusalFacts
  <2>2. /\ [u EXCEPT !.fault = TRUE] \in Wires /\ [u EXCEPT !.fault = TRUE].fault
        /\ [u EXCEPT !.fault = TRUE].approved = s.approved
    BY <2>1, RefusalFacts
  <2>3. \/ wire' = [wire EXCEPT ![p] = u] /\ pc' = pc
        \/ /\ wire' = [wire EXCEPT ![p] = [u EXCEPT !.fault = TRUE]]
           /\ pc' = [pc EXCEPT ![p] = "closing"]
    BY <1>5 DEF Refuse, Set, Goto
  <2> QED BY <1>1, <2>1, <2>2, <2>3, CallStep
<1> QED BY <1>3, <1>4, <1>5

\* The second hook approves once, when all that went before is durable.
LEMMA SendHookStep ==
    ASSUME IInv, NEW p \in Operators, SendHook(p)
    PROVE  IInv'
<1> PICK s : s = wire[p]
  OBVIOUS
<1>1. /\ pc[p] = "sdk" /\ s \in Wires /\ wire \in [Operators -> Wires]
      /\ UNCHANGED <<disk, at, listed, failed, client, defect, clean, judged, results>>
      /\ UNCHANGED <<at, listed, failed, client, clean, judged, defect, returned, launched>>
      /\ UNCHANGED <<directory, file, index>>
      /\ defect \in [Operators -> BOOLEAN]
  BY DEF SendHook, locals, results, disk, IInv, TypeOK, Wires
<1>2. CASE Admitted(s) /\ wire' = [wire EXCEPT ![p].approved = @ + 1] /\ sends' = sends + 1
           /\ pc' = pc
  <2>1. pc[p] \in Claimed /\ Backing(p) /\ Wired(p) /\ sends = 0 /\ s.approved = 0
    BY <1>1, <1>2 DEF IInv, Claimed, Live, MaySend, Consuming, Unclaimed, Admitted, Wired
  <2>2. /\ wire' \in [Operators -> Wires] /\ wire'[p].approved = 1
        /\ \A q \in Operators : q # p => wire'[q] = wire[q]
    BY <1>1, <1>2, <2>1 DEF Wires
  <2>3. TypeOK' /\ sends' = 1
    BY <1>1, <1>2, <2>1, <2>2 DEF IInv, TypeOK, Wires
  <2>4. \A q \in Operators : q # p => Untouched(q)
    BY <1>1, <1>2, <2>2 DEF Untouched
  <2>5. \A n \in Files : Whole(n) <=> Whole(n)'
    BY <1>1 DEF Whole
  <2>6. Evidence'
    <3>1. \A n \in Names(Before) \cup {"claim"} : file[n] = "whole"
      BY <1>1, <2>1 DEF Backing, Whole, Invoked
    <3>2. DurableBeforeSend'
      BY <1>1, <3>1 DEF DurableBeforeSend
    <3>3. IndexBacked' /\ AssociationIsBound'
      BY <1>1, <2>1 DEF IndexBacked, AssociationIsBound, Backing, Concluded, Whole, IInv, Evidence
    <3> QED BY <2>3, <3>2, <3>3 DEF Evidence
  <2>7. Backing(p)'
    BY <1>1, <1>2, <2>1 DEF Backing, Whole, Invoked, Concluded
  <2>8. Wired(p)'
    BY <1>1, <1>2, <2>1, <2>2, <2>3 DEF Wired, Concluded
  <2>9. Launched(p)'
    BY <1>1, <1>2 DEF IInv, Launched
  <2> QED BY <1>1, <1>2, <2>1, <2>3, <2>4, <2>5, <2>6, <2>7, <2>8, <2>9, OwnerStep
        DEF Unclaimed, Reported, Concluded
<1>3. CASE Refuse(p, [s EXCEPT !.failed = TRUE]) /\ sends' = sends
  <2> PICK u : u = [s EXCEPT !.failed = TRUE]
    OBVIOUS
  <2>1. u \in Wires /\ u.approved = s.approved
    BY <1>1, RefusalFacts
  <2>2. /\ [u EXCEPT !.fault = TRUE] \in Wires /\ [u EXCEPT !.fault = TRUE].fault
        /\ [u EXCEPT !.fault = TRUE].approved = s.approved
    BY <2>1, RefusalFacts
  <2>3. \/ wire' = [wire EXCEPT ![p] = u] /\ pc' = pc
        \/ /\ wire' = [wire EXCEPT ![p] = [u EXCEPT !.fault = TRUE]]
           /\ pc' = [pc EXCEPT ![p] = "closing"]
    BY <1>3 DEF Refuse, Set, Goto
  <2> QED BY <1>1, <1>3, <2>1, <2>2, <2>3, CallStep
<1> QED BY <1>2, <1>3 DEF SendHook

\* The call fails: an adapter failure, or a defect that propagates.
LEMMA InvokeRaisesStep ==
    ASSUME IInv, NEW p \in Operators, InvokeRaises(p)
    PROVE  IInv'
<1> PICK s : s = wire[p]
  OBVIOUS
<1> PICK u : u = [s EXCEPT !.fault = TRUE]
  OBVIOUS
<1>1. /\ pc[p] = "sdk" /\ s \in Wires /\ wire \in [Operators -> Wires]
      /\ pc' = [pc EXCEPT ![p] = "closing"]
      /\ UNCHANGED <<disk, sends, at, listed, failed, client, clean, judged, results>>
      /\ defect \in [Operators -> BOOLEAN]
  BY DEF InvokeRaises, Goto, IInv, TypeOK, Wires
<1>2. u \in Wires /\ u.approved = s.approved
  BY <1>1, RefusalFacts
<1>3. wire' = [wire EXCEPT ![p] = u]
  BY <1>1 DEF InvokeRaises
<1>4. PICK caught \in BOOLEAN : defect' = [defect EXCEPT ![p] = ~caught]
  BY DEF InvokeRaises, Set
<1> DEFINE lone == ~caught
<1>5. /\ defect' \in [Operators -> BOOLEAN]
      /\ \A q \in Operators : q # p => defect'[q] = defect[q]
  <2>1. defect' = [defect EXCEPT ![p] = lone]
    BY <1>4
  <2> QED BY <1>1, <2>1
<1> QED BY <1>1, <1>2, <1>3, <1>5, CallStep

\* A response, and what reading it found.
LEMMA InvokeReturnsStep ==
    ASSUME IInv, NEW p \in Operators, InvokeReturns(p)
    PROVE  IInv'
<1> PICK s : s = wire[p]
  OBVIOUS
<1> DEFINE Seen == IF TailMode THEN {"decoded", "unusable"} ELSE {"none"}
<1>0. Seen \subseteq {"none", "decoded", "unusable"}
  OBVIOUS
<1>1. PICK body \in BOOLEAN, fault \in BOOLEAN, bug \in BOOLEAN, logs \in Seen :
          /\ (~body \/ logs = "unusable") => fault
          /\ bug => ~body
          /\ wire' = [wire EXCEPT ![p].body = body, ![p].logs = logs, ![p].fault = fault]
          /\ defect' = Set(defect, p, bug)
  BY DEF InvokeReturns
<1> HIDE DEF Seen
<1> DEFINE u1 == [s EXCEPT !.body = body]
           u2 == [u1 EXCEPT !.logs = logs]
           u3 == [u2 EXCEPT !.fault = fault]
<1>2. /\ pc[p] = "sdk" /\ s \in Wires /\ wire \in [Operators -> Wires]
      /\ pc' = [pc EXCEPT ![p] = "closing"]
      /\ UNCHANGED <<disk, sends, at, listed, failed, client, clean, judged, results>>
      /\ defect \in [Operators -> BOOLEAN]
  BY DEF InvokeReturns, Goto, IInv, TypeOK, Wires
<1>3. u1 \in Wires /\ u1.approved = s.approved
  BY <1>2 DEF Wires
<1>4. wire' = [wire EXCEPT ![p] = u3]
  BY <1>1
<1> HIDE DEF u1
<1>5. u2 \in Wires /\ u2.approved = s.approved
  BY <1>0, <1>3 DEF Wires
<1> HIDE DEF u2
<1>6. u3 \in Wires /\ u3.approved = s.approved /\ u3.fault = fault
  BY <1>5 DEF Wires
<1> HIDE DEF u3
<1>7. /\ defect' \in [Operators -> BOOLEAN] /\ defect'[p] = bug
      /\ \A q \in Operators : q # p => defect'[q] = defect[q]
  BY <1>1, <1>2 DEF Set
<1> QED BY <1>2, <1>4, <1>6, <1>7, CallStep

\* The client is asked to close, and the hooks are counted unless a defect
\* propagates.
LEMMA CloseClientStep ==
    ASSUME IInv, NEW p \in Operators, CloseClient(p)
    PROVE  IInv'
<1>1. /\ pc[p] = "closing" /\ pc[p] \in Claimed /\ Backing(p) /\ Wired(p)
      /\ at' = [at EXCEPT ![p] = 1] /\ wire \in [Operators -> Wires]
      /\ UNCHANGED <<disk, sends, listed, clean, judged, results>>
      /\ UNCHANGED <<clean, judged, returned, launched>>
  BY DEF CloseClient, Set, results, IInv, TypeOK, Wires, Claimed, Live, MaySend,
         Consuming, Unclaimed
<1>2. PICK ok \in BOOLEAN :
          /\ client' = Set(client, p, IF ok THEN "closed" ELSE "unclosable")
          /\ \/ /\ pc' = [pc EXCEPT ![p] = "evidence"]
                /\ wire' = [wire EXCEPT ![p].fault = @ \/ ~ok \/ ~HooksCounted(wire[p])]
                /\ UNCHANGED <<failed, defect>>
             \/ /\ Fails(p, FALSE) /\ pc' = [pc EXCEPT ![p] = "salvage"]
                /\ wire' = [wire EXCEPT ![p].fault = TRUE]
  BY DEF CloseClient, Goto
<1>3. /\ client' \in [Operators -> {"none", "open", "closed", "unclosable", "lost"}]
      /\ \A q \in Operators : q # p => client'[q] = client[q]
  BY <1>2 DEF Set, IInv, TypeOK
<1>4. /\ wire' \in [Operators -> Wires] /\ wire'[p].approved = wire[p].approved
      /\ \A q \in Operators : q # p => wire'[q] = wire[q]
  <2> DEFINE blamed == wire[p].fault \/ ~ok \/ ~HooksCounted(wire[p])
  <2>1. blamed \in BOOLEAN
    <3>1. wire[p].fault \in BOOLEAN
      BY <1>1 DEF Wires
    <3> QED BY <3>1
  <2>2. \/ wire' = [wire EXCEPT ![p].fault = blamed]
        \/ wire' = [wire EXCEPT ![p].fault = TRUE]
    BY <1>1, <1>2
  <2> HIDE DEF blamed
  <2>3. CASE wire' = [wire EXCEPT ![p].fault = blamed]
    BY <1>1, <2>1, <2>3 DEF Wires
  <2>4. CASE wire' = [wire EXCEPT ![p].fault = TRUE]
    BY <1>1, <2>4 DEF Wires
  <2> QED BY <2>2, <2>3, <2>4
<1>5. CASE Fails(p, FALSE) /\ pc' = [pc EXCEPT ![p] = "salvage"]
  <2> PICK caught \in BOOLEAN : caught = FALSE
    OBVIOUS
  <2>1. Fails(p, caught)
    BY <1>5
  <2> QED BY <1>1, <1>3, <1>4, <1>5, <2>1, AbandonedStep
<1>6. CASE pc' = [pc EXCEPT ![p] = "evidence"] /\ UNCHANGED <<failed, defect>>
  <2>1. /\ Evidence' /\ UNCHANGED <<directory, file, index, sends>>
        /\ \A n \in Files : Whole(n) => Whole(n)'
    BY <1>1, Unmoved
  <2>2. /\ pc' \in [Operators -> Live \cup {"returned", "raised", "crashed"}]
        /\ pc'[p] = "evidence" /\ \A q \in Operators : q # p => pc'[q] = pc[q]
        /\ at' \in [Operators -> 1..9] /\ at'[p] = 1
        /\ \A q \in Operators : q # p => at'[q] = at[q]
    BY <1>1, <1>6 DEF IInv, TypeOK, Live, Consuming
  <2>3. TypeOK'
    BY <1>1, <1>3, <1>4, <1>6, <2>1, <2>2 DEF IInv, TypeOK, Wires
  <2>4. \A q \in Operators : q # p => Untouched(q)
    BY <1>1, <1>3, <1>4, <1>6, <2>2 DEF Untouched
  <2>5. 1 \in DOMAIN Raw
    BY RawFacts
  <2>6. Backing(p)'
    BY <1>1, <2>1, <2>2, <2>5 DEF Backing, Whole, Invoked, Concluded
  <2>7. Wired(p)'
    BY <1>1, <1>4, <2>1, <2>2 DEF Wired
  <2>8. Launched(p)'
    BY <1>1, <2>2 DEF IInv, Launched
  <2> QED BY <1>1, <2>1, <2>2, <2>3, <2>4, <2>6, <2>7, <2>8, OwnerStep
          DEF Unclaimed, Reported, Concluded
<1> QED BY <1>2, <1>5, <1>6

\* An interrupt while the call is being wound up.
LEMMA CloseInterruptedStep ==
    ASSUME IInv, NEW p \in Operators, CloseInterrupted(p)
    PROVE  IInv'
<1>1. /\ pc[p] = "closing" /\ pc' = [pc EXCEPT ![p] = "salvage"] /\ at' = [at EXCEPT ![p] = 1]
      /\ UNCHANGED <<disk, sends, listed, wire, clean, judged, results>>
      /\ wire' \in [Operators -> Wires]
  BY DEF CloseInterrupted, Goto, Set, IInv, TypeOK, Wires
<1>2. \E c \in {"open", "closed", "unclosable"} : client' = [client EXCEPT ![p] = c]
  BY DEF CloseInterrupted, Set
<1>3. /\ client' \in [Operators -> {"none", "open", "closed", "unclosable", "lost"}]
      /\ \A q \in Operators : q # p => client'[q] = client[q]
  BY <1>2 DEF IInv, TypeOK
<1>4. PICK caught \in BOOLEAN : caught = TRUE
  OBVIOUS
<1>5. Fails(p, caught)
  BY <1>4 DEF CloseInterrupted
<1> QED BY <1>1, <1>3, <1>5, AbandonedStep
-----------------------------------------------------------------------------
(* What is concluded *)

\* The next file of the response is tried.
LEMMA PublishRawStep ==
    ASSUME IInv, NEW p \in Operators, PublishRaw(p)
    PROVE  IInv'
<1>1. /\ pc[p] \in {"evidence", "salvage"} /\ pc[p] \in Claimed /\ Backing(p) /\ Wired(p)
      /\ UNCHANGED <<directory, index, sends, wire, client>>
      /\ UNCHANGED <<clean, judged, defect, returned, launched>>
  BY DEF PublishRaw, locals, results, IInv, Claimed, Live, MaySend,
         Consuming, Unclaimed
<1> PICK i : i = at[p]
  OBVIOUS
<1> PICK n : n = Raw[i]
  OBVIOUS
<1>2. PICK w \in Outcomes(n) : Put(p, n, w)
  BY DEF PublishRaw
<1>3. /\ i \in 1..Len(Raw) /\ i \in DOMAIN Raw /\ Len(Raw) \in 1..6 /\ DOMAIN Raw = 1..Len(Raw)
      /\ n \in Files \ {"claim", "index", "report-association"}
      /\ {"claim", "index"} \subseteq Files
  BY <1>1, RawFacts DEF Backing, Files
<1>4. /\ Evidence' /\ \A m \in Files : Whole(m) => Whole(m)'
      /\ file' \in [Files -> {"absent", "broken", "whole"}] /\ file'["index"] = file["index"]
      /\ w.ok \in BOOLEAN /\ (w.ok => Whole(n)')
  <2>1. file' = [file EXCEPT ![n] = w.file]
    BY <1>2 DEF Put
  <2> QED BY <1>1, <1>3, <2>1, FileStep, WriteFacts DEF IInv
<1>5. /\ listed' \in [Operators -> SUBSET Files] /\ failed' \in [Operators -> BOOLEAN]
      /\ \A q \in Operators : q # p => listed'[q] = listed[q] /\ failed'[q] = failed[q]
      /\ (failed'[p] <=> (failed[p] \/ ~w.ok))
      /\ listed'[p] = (IF w.ok THEN listed[p] \cup {n} ELSE listed[p])
  BY <1>2, <1>3, PutFacts DEF IInv
<1>6. /\ at' \in [Operators -> 1..9] /\ \A q \in Operators : q # p => at'[q] = at[q]
      /\ at'[p] = i + 1
  <2>1. i + 1 \in 1..9 /\ at' = [at EXCEPT ![p] = i + 1]
    BY <1>3 DEF PublishRaw
  <2> QED BY <2>1 DEF IInv, TypeOK
<1>7. /\ pc' \in [Operators -> Live \cup {"returned", "raised", "crashed"}]
      /\ \A q \in Operators : q # p => pc'[q] = pc[q]
      /\ \/ pc'[p] \in {"evidence", "salvage"} /\ pc'[p] = pc[p] /\ i < Len(Raw)
         \/ pc'[p] = "assess" /\ pc[p] = "evidence"
         \/ pc'[p] = "final" /\ pc[p] = "salvage"
  <2>1. CASE pc[p] = "evidence" /\ pc' = [pc EXCEPT ![p] = "assess"]
    BY <2>1 DEF IInv, TypeOK, Live, Consuming
  <2>2. CASE pc[p] = "salvage" /\ pc' = [pc EXCEPT ![p] = "final"]
    BY <2>2 DEF IInv, TypeOK, Live
  <2>3. CASE i < Len(Raw) /\ pc' = pc
    BY <1>1, <2>3 DEF IInv, TypeOK
  <2> QED BY <1>1, <2>1, <2>2, <2>3 DEF PublishRaw, Goto
<1>8. TypeOK'
  BY <1>1, <1>4, <1>5, <1>6, <1>7 DEF IInv, TypeOK
<1>9. \A q \in Operators : q # p => Untouched(q)
  BY <1>1, <1>5, <1>6, <1>7 DEF Untouched
<1>10. Backing(p)'
  <2>1. \A m \in listed'[p] : Whole(m)'
    <3>1. listed[p] \subseteq Files
      BY DEF IInv, TypeOK
    <3> QED BY <1>1, <1>4, <1>5, <3>1 DEF Backing
  <2>2. /\ pc'[p] \in {"evidence", "salvage"} => at'[p] \in DOMAIN Raw
        /\ pc'[p] \in {"salvage", "final"} => failed'[p]
    BY <1>1, <1>3, <1>5, <1>6, <1>7 DEF Backing
  <2>3. Names(Before) \subseteq listed'[p] /\ Whole("claim")' /\ ~judged[p]
    BY <1>1, <1>3, <1>4, <1>5 DEF Backing, Concluded, Invoked
  <2>4. file'["index"] = "absent" /\ returned[p] = "NONE"
    BY <1>1, <1>4 DEF Backing, Concluded
  <2> QED BY <1>1, <1>7, <2>1, <2>2, <2>3, <2>4 DEF Backing, Invoked, Concluded
<1>11. Wired(p)'
  BY <1>1, <1>7 DEF Wired, Concluded
<1>12. Launched(p)'
  BY <1>1, <1>7 DEF IInv, Launched
<1> QED BY <1>1, <1>4, <1>7, <1>8, <1>9, <1>10, <1>11, <1>12, OwnerStep
        DEF Unclaimed, Reported, Concluded

\* Publishing raises while an exception propagates: the failure stays noted.
LEMMA SalvageRaisesStep ==
    ASSUME IInv, NEW p \in Operators, SalvageRaises(p)
    PROVE  IInv'
<1>1. /\ pc[p] = "salvage" /\ pc[p] \in Claimed /\ Backing(p) /\ Wired(p)
      /\ pc' = [pc EXCEPT ![p] = "final"]
      /\ UNCHANGED <<disk, sends, at, listed, failed, wire, client>>
      /\ UNCHANGED <<clean, judged, returned, launched>>
  BY DEF SalvageRaises, Goto, results, IInv, Claimed, Live, Unclaimed
<1>2. PICK stays \in BOOLEAN : defect' = [defect EXCEPT ![p] = @ /\ stays]
  BY DEF SalvageRaises
<1>3. /\ defect' \in [Operators -> BOOLEAN]
      /\ \A q \in Operators : q # p => defect'[q] = defect[q]
  <2> DEFINE kept == defect[p] /\ stays
  <2>1. defect \in [Operators -> BOOLEAN] /\ defect' = [defect EXCEPT ![p] = kept]
    BY <1>2 DEF IInv, TypeOK
  <2>2. kept \in BOOLEAN
    BY <2>1
  <2> HIDE DEF kept
  <2> QED BY <2>1, <2>2
<1>4. /\ Evidence' /\ UNCHANGED <<directory, file, index, sends>>
      /\ \A n \in Files : Whole(n) => Whole(n)'
  BY <1>1, Unmoved
<1>5. /\ pc' \in [Operators -> Live \cup {"returned", "raised", "crashed"}]
      /\ pc'[p] = "final" /\ \A q \in Operators : q # p => pc'[q] = pc[q]
  BY <1>1 DEF IInv, TypeOK, Live
<1>6. TypeOK'
  BY <1>1, <1>3, <1>4, <1>5 DEF IInv, TypeOK
<1>7. \A q \in Operators : q # p => Untouched(q)
  BY <1>1, <1>3, <1>5 DEF Untouched
<1>8. Backing(p)'
  BY <1>1, <1>4, <1>5 DEF Backing, Whole, Invoked, Concluded
<1>9. Wired(p)'
  BY <1>1, <1>4, <1>5 DEF Wired
<1>10. Launched(p)'
  BY <1>1, <1>5 DEF IInv, Launched
<1> QED BY <1>1, <1>4, <1>5, <1>6, <1>7, <1>8, <1>9, <1>10, OwnerStep
        DEF Unclaimed, Reported, Concluded

\* A response is assessed.
LEMMA AssessStep ==
    ASSUME IInv, NEW p \in Operators, Assess(p)
    PROVE  IInv'
<1>1. /\ pc[p] = "assess" /\ pc[p] \in Claimed /\ Backing(p) /\ Wired(p)
      /\ UNCHANGED <<disk, sends, at, listed, wire, client>>
      /\ UNCHANGED <<judged, defect, returned, launched>>
  BY DEF Assess, results, IInv, Claimed, Live, MaySend,
         Consuming, Unclaimed
<1>2. /\ Evidence' /\ UNCHANGED <<directory, file, index, sends>>
      /\ \A n \in Files : Whole(n) => Whole(n)'
  BY <1>1, Unmoved
<1> DEFINE blamed == failed[p] \/ wire[p].fault \/ ~CleanWire(p)
           sound == CleanWire(p) /\ Names(Raw) \subseteq listed[p]
<1>3. /\ failed' = [failed EXCEPT ![p] = blamed] /\ clean' = [clean EXCEPT ![p] = sound]
      /\ failed \in [Operators -> BOOLEAN] /\ clean \in [Operators -> BOOLEAN]
  BY DEF Assess, Set, IInv, TypeOK
<1>5. blamed \in BOOLEAN /\ sound \in BOOLEAN
  <2>1. failed[p] \in BOOLEAN
    BY DEF IInv, TypeOK
  <2> QED BY <2>1
<1> HIDE DEF blamed, sound
<1>6. /\ failed' \in [Operators -> BOOLEAN] /\ clean' \in [Operators -> BOOLEAN]
      /\ failed'[p] = blamed /\ clean'[p] = sound
      /\ \A q \in Operators : q # p => failed'[q] = failed[q] /\ clean'[q] = clean[q]
  BY <1>3, <1>5
<1>7. /\ pc' \in [Operators -> Live \cup {"returned", "raised", "crashed"}]
      /\ \A q \in Operators : q # p => pc'[q] = pc[q]
      /\ pc'[p] \in {"join", "end"}
  <2>1. \E place \in {"join", "end"} : pc' = [pc EXCEPT ![p] = place]
    BY DEF Assess, Goto
  <2> QED BY <2>1 DEF IInv, TypeOK, Live, Consuming
<1>8. TypeOK'
  BY <1>1, <1>2, <1>6, <1>7 DEF IInv, TypeOK
<1>9. \A q \in Operators : q # p => Untouched(q)
  BY <1>1, <1>6, <1>7 DEF Untouched
<1>10. Backing(p)'
  <2>2. clean'[p] => CleanWire(p)' /\ Names(Raw) \subseteq listed'[p]
    BY <1>1, <1>6 DEF sound, CleanWire, HooksCounted
  <2>3. ~judged[p]
    BY <1>1 DEF Backing, Concluded
  <2> QED BY <1>1, <1>2, <1>7, <2>2, <2>3 DEF Backing, Whole, Invoked, Concluded
<1>11. Wired(p)'
  BY <1>1, <1>2, <1>7 DEF Wired, Concluded
<1>12. Launched(p)'
  BY <1>1, <1>7 DEF IInv, Launched
<1> QED BY <1>1, <1>2, <1>7, <1>8, <1>9, <1>10, <1>11, <1>12, OwnerStep
        DEF Unclaimed, Reported, Concluded

\* A report is parsed and associated only from what was published.
LEMMA JoinStep ==
    ASSUME IInv, NEW p \in Operators, Join(p)
    PROVE  IInv'
<1> PICK n : n = "report-association"
  OBVIOUS
<1>1. /\ pc[p] = "join" /\ pc[p] \in Claimed /\ Backing(p) /\ Wired(p)
      /\ pc' = [pc EXCEPT ![p] = "end"]
      /\ UNCHANGED <<directory, index, sends, at, wire, client>>
      /\ UNCHANGED <<judged, defect, returned, launched>>
  BY DEF Join, Goto, results, IInv, Claimed, Live, MaySend,
         Consuming, Unclaimed
<1>2. /\ pc' \in [Operators -> Live \cup {"returned", "raised", "crashed"}] /\ pc'[p] = "end"
      /\ \A q \in Operators : q # p => pc'[q] = pc[q]
  BY <1>1 DEF IInv, TypeOK, Live, Consuming
<1>3. /\ n \in Files /\ n \notin {"claim", "index"} \cup Names(Raw) \cup Names(Before)
      /\ {"claim", "index"} \subseteq Files
  BY BeforeFacts, RawFacts DEF Files, Names
<1>4. /\ Evidence' /\ \A m \in Files : Whole(m) => Whole(m)'
      /\ file' \in [Files -> {"absent", "broken", "whole"}] /\ file'["index"] = file["index"]
      /\ listed' \in [Operators -> SUBSET Files] /\ failed' \in [Operators -> BOOLEAN]
      /\ clean' \in [Operators -> BOOLEAN] /\ (clean'[p] => clean[p])
      /\ \A q \in Operators : q # p => /\ listed'[q] = listed[q] /\ failed'[q] = failed[q]
                                      /\ clean'[q] = clean[q]
      /\ listed[p] \subseteq listed'[p] /\ \A m \in listed'[p] : Whole(m)'
  <2>0. /\ clean \in [Operators -> BOOLEAN] /\ failed \in [Operators -> BOOLEAN]
        /\ listed[p] \subseteq Files /\ \A m \in listed[p] : Whole(m)
    BY <1>1 DEF IInv, TypeOK, Backing
  <2>1. CASE ReportRejected(p)
    <3>1. /\ file' = file /\ listed' = listed /\ clean' = [clean EXCEPT ![p] = FALSE]
          /\ failed' = [failed EXCEPT ![p] = @ \/ Joinable(p)]
      BY <2>1 DEF ReportRejected, Set
    <3> DEFINE refused == Joinable(p)
    <3>2. /\ failed' \in [Operators -> BOOLEAN]
          /\ \A q \in Operators : q # p => failed'[q] = failed[q]
      <4>1. failed' = [failed EXCEPT ![p] = @ \/ refused]
        BY <3>1
      <4> HIDE DEF refused
      <4> QED BY <2>0, <4>1
    <3>3. Evidence'
      BY <1>1, <3>1 DEF IInv, Evidence, DurableBeforeSend, IndexBacked, AssociationIsBound, Whole
    <3>4. /\ clean' \in [Operators -> BOOLEAN] /\ ~clean'[p]
          /\ \A q \in Operators : q # p => clean'[q] = clean[q]
      BY <2>0, <3>1
    <3>5. file' \in [Files -> {"absent", "broken", "whole"}] /\ listed' \in [Operators -> SUBSET Files]
      BY <3>1 DEF IInv, TypeOK
    <3> QED BY <2>0, <3>1, <3>2, <3>3, <3>4, <3>5 DEF Whole
  <2>2. ASSUME Joinable(p), NEW w \in Outcomes(n), Put(p, n, w),
               clean' = [clean EXCEPT ![p] = @ /\ w.ok]
        PROVE  <1>4!:
    <3>1. file' = [file EXCEPT ![n] = w.file]
      BY <2>2 DEF Put
    <3>2. /\ file' \in [Files -> {"absent", "broken", "whole"}]
          /\ \A m \in Files : m # n => file'[m] = file[m]
          /\ \A m \in Files : Whole(m) => Whole(m)'
          /\ w.ok \in BOOLEAN /\ (w.ok => Whole(n)')
      BY <1>3, <3>1, WriteFacts DEF IInv
    <3>3. /\ listed' \in [Operators -> SUBSET Files] /\ failed' \in [Operators -> BOOLEAN]
          /\ \A q \in Operators : q # p => listed'[q] = listed[q] /\ failed'[q] = failed[q]
          /\ listed'[p] = (IF w.ok THEN listed[p] \cup {n} ELSE listed[p])
      BY <1>3, <2>2, PutFacts DEF IInv
    <3>4. /\ clean' \in [Operators -> BOOLEAN] /\ (clean'[p] => clean[p])
          /\ \A q \in Operators : q # p => clean'[q] = clean[q]
      BY <2>0, <2>2, <3>2
    <3>5. DurableBeforeSend'
      BY <1>1, <1>3, <3>2, BeforeFacts DEF IInv, Evidence, DurableBeforeSend, Whole
    <3>6. IndexBacked'
      <4>1. index.files \subseteq Files
        BY DEF IInv, TypeOK
      <4> QED BY <1>1, <1>3, <3>2, <4>1 DEF IInv, Evidence, IndexBacked, Whole
    <3>7. AssociationIsBound'
      BY <2>0, <2>2, <3>2, RawFacts DEF Joinable, AssociationIsBound, Whole
    <3>8. Evidence'
      BY <1>1, <3>5, <3>6, <3>7 DEF IInv, Evidence
    <3> QED BY <1>3, <2>0, <3>2, <3>3, <3>4, <3>8
  <2> QED BY <2>1, <2>2 DEF Join
<1>5. TypeOK'
  BY <1>1, <1>2, <1>4 DEF IInv, TypeOK
<1>6. \A q \in Operators : q # p => Untouched(q)
  BY <1>1, <1>2, <1>4 DEF Untouched
<1>7. Backing(p)'
  <2>1. ~judged[p] /\ Whole("claim")' /\ Names(Before) \subseteq listed'[p]
    BY <1>1, <1>3, <1>4 DEF Backing, Concluded, Invoked
  <2>2. clean'[p] => CleanWire(p)' /\ Names(Raw) \subseteq listed'[p]
    BY <1>1, <1>4 DEF Backing, CleanWire, HooksCounted
  <2>3. file'["index"] = "absent" /\ returned[p] = "NONE"
    BY <1>1, <1>4 DEF Backing, Concluded
  <2> QED BY <1>1, <1>2, <1>4, <2>1, <2>2, <2>3 DEF Backing, Invoked, Concluded
<1>8. Wired(p)'
  BY <1>1, <1>2 DEF Wired, Concluded
<1>9. Launched(p)'
  BY <1>1, <1>2 DEF IInv, Launched
<1> QED BY <1>1, <1>2, <1>4, <1>5, <1>6, <1>7, <1>8, <1>9, OwnerStep
        DEF Unclaimed, Reported, Concluded

\* Only a clean transport goes on to the inspection.
LEMMA EndStep ==
    ASSUME IInv, NEW p \in Operators, End(p)
    PROVE  IInv'
<1>1. /\ pc[p] = "end"
      /\ UNCHANGED <<disk, sends, at, listed, wire, client, clean, judged, results>>
      /\ UNCHANGED <<clean, judged, returned, launched>>
  BY DEF End, results
<1>2. CASE Fails(p, TRUE) /\ pc' = [pc EXCEPT ![p] = "final"]
  <2> PICK caught \in BOOLEAN : caught = TRUE
    OBVIOUS
  <2>1. Fails(p, caught)
    BY <1>2
  <2>2. client' \in [Operators -> {"none", "open", "closed", "unclosable", "lost"}]
    BY <1>1 DEF IInv, TypeOK
  <2> QED BY <1>1, <1>2, <2>1, <2>2, FailureStep DEF Consuming
<1>3. CASE clean[p] /\ pc' = [pc EXCEPT ![p] = "inspect"] /\ UNCHANGED <<failed, defect>>
  <2>1. pc[p] \in Claimed /\ Backing(p) /\ Wired(p)
    BY <1>1 DEF IInv, Claimed, Live, MaySend,
         Consuming, Unclaimed
  <2>2. /\ Evidence' /\ UNCHANGED <<directory, file, index, sends>>
        /\ \A n \in Files : Whole(n) => Whole(n)'
    BY <1>1, Unmoved
  <2>3. /\ pc' \in [Operators -> Live \cup {"returned", "raised", "crashed"}]
        /\ pc'[p] = "inspect" /\ \A q \in Operators : q # p => pc'[q] = pc[q]
    BY <1>3 DEF IInv, TypeOK, Live, Consuming
  <2>4. TypeOK'
    BY <1>1, <1>3, <2>2, <2>3 DEF IInv, TypeOK
  <2>5. \A q \in Operators : q # p => Untouched(q)
    BY <1>1, <1>3, <2>3 DEF Untouched
  <2>6. Backing(p)'
    BY <1>1, <1>3, <2>1, <2>2, <2>3 DEF Backing, Whole, CleanWire, HooksCounted, Invoked, Concluded
  <2>7. Wired(p)'
    BY <1>1, <2>1, <2>2, <2>3 DEF Wired, Concluded
  <2>8. Launched(p)'
    BY <1>1, <2>3 DEF IInv, Launched
  <2> QED BY <2>1, <2>2, <2>3, <2>4, <2>5, <2>6, <2>7, <2>8, OwnerStep
        DEF Unclaimed, Reported, Concluded
<1> QED BY <1>2, <1>3 DEF End, Goto

\* A verdict of the inspection stands on a clean, published response.
LEMMA InspectStep ==
    ASSUME IInv, NEW p \in Operators, Inspect(p)
    PROVE  IInv'
<1>1. /\ pc[p] = "inspect" /\ pc' = [pc EXCEPT ![p] = "final"]
      /\ judged' = [judged EXCEPT ![p] = TRUE]
      /\ pc[p] \in Claimed /\ Backing(p) /\ Wired(p)
      /\ UNCHANGED <<disk, sends, at, listed, wire, client, clean>>
      /\ UNCHANGED <<returned, launched>>
  BY DEF Inspect, Goto, Set, results, IInv, Claimed, Live, MaySend,
         Consuming, Unclaimed
<1>2. /\ failed' \in [Operators -> BOOLEAN] /\ defect' \in [Operators -> BOOLEAN]
      /\ \A q \in Operators : q # p => failed'[q] = failed[q] /\ defect'[q] = defect[q]
  <2>1. failed \in [Operators -> BOOLEAN] /\ defect \in [Operators -> BOOLEAN]
    BY DEF IInv, TypeOK
  <2>2. CASE UNCHANGED <<failed, defect>>
    BY <2>1, <2>2
  <2>3. CASE Fails(p, TRUE)
    <3> DEFINE lone == ~TRUE
    <3>1. failed' = [failed EXCEPT ![p] = TRUE] /\ defect' = [defect EXCEPT ![p] = lone]
      BY <2>3 DEF Fails, Set
    <3>2. lone \in BOOLEAN
      OBVIOUS
    <3> HIDE DEF lone
    <3> QED BY <2>1, <3>1, <3>2
  <2> QED BY <2>2, <2>3 DEF Inspect
<1>3. /\ Evidence' /\ UNCHANGED <<directory, file, index, sends>>
      /\ \A n \in Files : Whole(n) => Whole(n)'
  BY <1>1, Unmoved
<1>4. /\ pc' \in [Operators -> Live \cup {"returned", "raised", "crashed"}]
      /\ pc'[p] = "final" /\ \A q \in Operators : q # p => pc'[q] = pc[q]
  BY <1>1 DEF IInv, TypeOK, Live
<1>5. /\ judged' \in [Operators -> BOOLEAN] /\ judged'[p]
      /\ \A q \in Operators : q # p => judged'[q] = judged[q]
  BY <1>1 DEF IInv, TypeOK
<1>6. TypeOK'
  BY <1>1, <1>2, <1>3, <1>4, <1>5 DEF IInv, TypeOK
<1>7. \A q \in Operators : q # p => Untouched(q)
  BY <1>1, <1>2, <1>4, <1>5 DEF Untouched
<1>8. Backing(p)'
  <2>1. CleanWire(p)' /\ Names(Before) \cup Names(Raw) \subseteq listed'[p]
    BY <1>1 DEF Backing, CleanWire, HooksCounted, Invoked
  <2> QED BY <1>1, <1>3, <1>4, <1>5, <2>1 DEF Backing, Whole, Invoked, Concluded
<1>9. Wired(p)'
  BY <1>1, <1>3, <1>4 DEF Wired
<1>10. Launched(p)'
  BY <1>1, <1>4 DEF IInv, Launched
<1> QED BY <1>1, <1>3, <1>4, <1>6, <1>7, <1>8, <1>9, <1>10, OwnerStep
        DEF Unclaimed, Reported, Concluded
-----------------------------------------------------------------------------
(* The finally clause, and what follows the return *)

\* A client no transport was built over is asked to close; one still open
\* goes with a failure.
LEMMA FinalizeStep ==
    ASSUME IInv, NEW p \in Operators, Finalize(p)
    PROVE  IInv'
<1>1. /\ pc[p] = "final" /\ pc[p] \in Claimed /\ Backing(p) /\ Wired(p)
      /\ UNCHANGED <<disk, sends, at, listed, wire>>
      /\ UNCHANGED <<clean, judged, defect, returned, launched>>
  BY DEF Finalize, locals, results, IInv, Claimed, Live, MaySend,
         Consuming, Unclaimed
<1>2. /\ Evidence' /\ UNCHANGED <<directory, file, index, sends>>
      /\ \A n \in Files : Whole(n) => Whole(n)'
  BY <1>1, Unmoved
<1>3. /\ pc' \in [Operators -> Live \cup {"returned", "raised", "crashed"}]
      /\ pc'[p] \in {"index", "raised"} /\ \A q \in Operators : q # p => pc'[q] = pc[q]
  <2>1. \E place \in {"index", "raised"} : pc' = [pc EXCEPT ![p] = place]
    BY DEF Finalize, Goto
  <2> QED BY <2>1, Moves DEF IInv, Places, Live
<1>4. /\ client' \in [Operators -> {"none", "open", "closed", "unclosable", "lost"}]
      /\ client'[p] = "open" => wire[p].built
      /\ client'[p] # client[p] => client[p] = "open"
      /\ \A q \in Operators : q # p => client'[q] = client[q]
  <2>1. \/ client' = client /\ (client[p] = "open" => wire[p].built)
        \/ client[p] = "open" /\ \E c \in {"closed", "unclosable"} :
                                    client' = [client EXCEPT ![p] = c]
    BY DEF Finalize, OwesClose, Set
  <2>2. client \in [Operators -> {"none", "open", "closed", "unclosable", "lost"}]
    BY DEF IInv, TypeOK
  <2>3. CASE client' = client /\ (client[p] = "open" => wire[p].built)
    BY <2>2, <2>3
  <2>4. CASE client[p] = "open" /\ \E c \in {"closed", "unclosable"} :
                                      client' = [client EXCEPT ![p] = c]
    BY <2>2, <2>4
  <2> QED BY <2>1, <2>3, <2>4
<1>5. /\ failed' \in [Operators -> BOOLEAN] /\ (failed[p] => failed'[p])
      /\ \A q \in Operators : q # p => failed'[q] = failed[q]
  <2>1. failed' = failed \/ failed' = [failed EXCEPT ![p] = TRUE]
    BY DEF Finalize, Set
  <2>2. failed \in [Operators -> BOOLEAN]
    BY DEF IInv, TypeOK
  <2> QED BY <2>1, <2>2
<1>6. TypeOK'
  BY <1>1, <1>2, <1>3, <1>4, <1>5 DEF IInv, TypeOK
<1>7. \A q \in Operators : q # p => Untouched(q)
  BY <1>1, <1>3, <1>4, <1>5 DEF Untouched
<1>8. Backing(p)'
  <2>1. judged[p] => client[p] = "closed"
    BY <1>1 DEF Backing, CleanWire
  <2>2. judged[p] => CleanWire(p)' /\ Names(Before) \cup Names(Raw) \subseteq listed'[p]
    BY <1>1, <1>4, <2>1 DEF Backing, CleanWire, HooksCounted
  <2>3. failed'[p] \/ judged[p]
    BY <1>1, <1>5 DEF Backing
  <2>4. pc'[p] = "raised" => ~judged[p]
    <3>1. pc' = [pc EXCEPT ![p] = "index"] \/ client[p] = "open"
      BY DEF Finalize, OwesClose, Goto
    <3>2. pc' = [pc EXCEPT ![p] = "index"] => pc'[p] = "index"
      BY DEF IInv, TypeOK
    <3> QED BY <2>1, <3>1, <3>2
  <2> QED BY <1>1, <1>2, <1>3, <2>2, <2>3, <2>4 DEF Backing, Whole, Invoked, Concluded
<1>9. Wired(p)'
  BY <1>1, <1>2, <1>3, <1>4 DEF Wired
<1>10. Launched(p)'
  BY <1>1, <1>3 DEF IInv, Launched
<1>11. Reported(p)'
  <2>1. judged[p] => client[p] = "closed"
    BY <1>1 DEF Backing, CleanWire
  <2>2. client'[p] \in {"open", "lost"} => failed'[p]
    BY <1>1, <1>4, <1>5, <2>1 DEF Backing
  <2>3. returned[p] = "NONE"
    BY <1>1 DEF Backing, Concluded
  <2> QED BY <1>1, <1>3, <1>4, <2>2, <2>3 DEF Reported, Concluded
<1>12. pc'[p] \notin Unclaimed
  BY <1>3 DEF Unclaimed
<1> QED BY <1>1, <1>2, <1>3, <1>4, <1>6, <1>7, <1>8, <1>9, <1>10, <1>11, <1>12, OwnerStep

\* The index repeats what is already whole on disk.
LEMMA WriteIndexStep ==
    ASSUME IInv, NEW p \in Operators, WriteIndex(p)
    PROVE  IInv'
<1> PICK n : n = "index"
  OBVIOUS
<1>1. /\ pc[p] = "index" /\ pc[p] \in Claimed /\ Backing(p) /\ Wired(p)
      /\ UNCHANGED <<directory, sends, at, wire, client>>
      /\ UNCHANGED <<clean, judged, defect, launched>>
  BY DEF WriteIndex, locals, IInv, Claimed, Live, MaySend,
         Consuming, Unclaimed
<1>2. PICK w \in Outcomes(n) :
          /\ Put(p, n, w)
          /\ \/ /\ pc' = [pc EXCEPT ![p] = "receipt"]
                /\ returned' = [returned EXCEPT ![p] =
                       IF w.ok THEN Status(p) ELSE "INTERRUPTED_UNINDEXED"]
             \/ pc' = [pc EXCEPT ![p] = "raised"] /\ returned' = returned
  BY DEF WriteIndex, Goto, Set
<1>3. /\ n \in Files /\ n \notin {"claim", "report-association", "returned-status"}
      /\ n \notin Names(Raw) \cup Names(Before)
      /\ {"claim", "report-association", "returned-status"} \subseteq Files
  BY BeforeFacts, RawFacts DEF Files, Names
<1>4. /\ file' \in [Files -> {"absent", "broken", "whole"}]
      /\ \A m \in Files : m # n => file'[m] = file[m]
      /\ \A m \in Files : Whole(m) => Whole(m)'
      /\ w.ok \in BOOLEAN /\ (w.ok => Whole(n)')
  <2>1. file' = [file EXCEPT ![n] = w.file]
    BY <1>2 DEF Put
  <2> QED BY <1>3, <2>1, WriteFacts DEF IInv
<1>5. /\ listed' \in [Operators -> SUBSET Files] /\ failed' \in [Operators -> BOOLEAN]
      /\ \A q \in Operators : q # p => listed'[q] = listed[q] /\ failed'[q] = failed[q]
      /\ (failed'[p] <=> (failed[p] \/ ~w.ok))
      /\ listed'[p] = (IF w.ok THEN listed[p] \cup {n} ELSE listed[p])
  BY <1>2, <1>3, PutFacts DEF IInv
<1>6. /\ index'.status = Status(p) /\ index'.files = listed[p] /\ index'.judged = judged[p]
      /\ index' \in [status : {"NONE", "COMPLETE", "INTERRUPTED"}, files : SUBSET Files,
                     judged : BOOLEAN]
      /\ Status(p) \in {"COMPLETE", "INTERRUPTED"}
  BY DEF WriteIndex, Status, IInv, TypeOK
<1>7. /\ Status(p) = "COMPLETE" => judged[p]
      /\ judged[p] => sends = 1 /\ client[p] = "closed"
      /\ judged[p] => Names(Before) \cup Names(Raw) \subseteq listed[p]
  BY <1>1 DEF Backing, Wired, Status, CleanWire, HooksCounted
<1>8. /\ pc' \in [Operators -> Live \cup {"returned", "raised", "crashed"}]
      /\ pc'[p] \in {"receipt", "raised"} /\ \A q \in Operators : q # p => pc'[q] = pc[q]
  <2>1. \E place \in {"receipt", "raised"} : pc' = [pc EXCEPT ![p] = place]
    BY <1>2
  <2> QED BY <2>1 DEF IInv, TypeOK, Live
<1>9. /\ returned' \in [Operators -> {"NONE", "COMPLETE", "INTERRUPTED", "INTERRUPTED_UNINDEXED"}]
      /\ \A q \in Operators : q # p => returned'[q] = returned[q]
      /\ returned'[p] = "COMPLETE" => w.ok /\ Status(p) = "COMPLETE"
  <2>1. returned \in [Operators -> {"NONE", "COMPLETE", "INTERRUPTED", "INTERRUPTED_UNINDEXED"}]
        /\ returned[p] = "NONE"
    BY <1>1 DEF IInv, TypeOK, Backing, Concluded
  <2> DEFINE told == IF w.ok THEN Status(p) ELSE "INTERRUPTED_UNINDEXED"
  <2>2. told \in {"COMPLETE", "INTERRUPTED", "INTERRUPTED_UNINDEXED"}
        /\ (told = "COMPLETE" => w.ok /\ Status(p) = "COMPLETE")
    BY <1>6
  <2>3. returned' = returned \/ returned' = [returned EXCEPT ![p] = told]
    BY <1>2
  <2> HIDE DEF told
  <2> QED BY <2>1, <2>2, <2>3
<1>10. TypeOK'
  BY <1>1, <1>4, <1>5, <1>6, <1>8, <1>9 DEF IInv, TypeOK
<1>11. \A q \in Operators : q # p => Untouched(q)
  BY <1>1, <1>5, <1>8, <1>9 DEF Untouched
<1>12. \A m \in listed[p] : Whole(m)' /\ m \in Files
  BY <1>1, <1>4 DEF Backing, IInv, TypeOK
<1>13. Evidence'
  <2>1. DurableBeforeSend'
    BY <1>1, <1>3, <1>4, BeforeFacts DEF IInv, Evidence, DurableBeforeSend, Whole
  <2>2. AssociationIsBound'
    BY <1>1, <1>3, <1>4, RawFacts DEF IInv, Evidence, AssociationIsBound, Whole
  <2>3. IndexBacked'
    BY <1>1, <1>6, <1>7, <1>12 DEF IndexBacked
  <2> QED BY <1>1, <2>1, <2>2, <2>3 DEF IInv, Evidence
<1>14. pc'[p] \in Claimed => Backing(p)' /\ Wired(p)'
  <2> SUFFICES ASSUME pc'[p] = "receipt" PROVE Backing(p)' /\ Wired(p)'
    BY <1>8 DEF Claimed, Live, MaySend, Consuming
  <2>1. \A m \in listed'[p] : Whole(m)'
    BY <1>4, <1>5, <1>12
  <2>2. Whole("claim")'
    BY <1>1, <1>3, <1>4 DEF Backing
  <2>3. returned'[p] = "COMPLETE" => /\ Whole("index")' /\ index'.status = "COMPLETE"
                                     /\ client'[p] = "closed"
    BY <1>1, <1>4, <1>6, <1>7, <1>9
  <2>4. Backing(p)'
    BY <2>1, <2>2, <2>3 DEF Backing, Invoked, Concluded
  <2>5. Wired(p)'
    BY <1>1, <1>8 DEF Wired, Concluded
  <2> QED BY <2>4, <2>5
<1>15. Launched(p)' /\ file["index"] = "absent"
  BY <1>1 DEF Backing, Concluded, IInv, Launched
<1>16. Reported(p)'
  <2> SUFFICES ASSUME pc'[p] = "receipt" PROVE Reported(p)'
    BY <1>8 DEF Reported, Concluded
  <2>1. Reported(p)
    BY DEF IInv
  <2>2. client[p] \in {"open", "lost"} => failed[p] /\ Status(p) = "INTERRUPTED"
    BY <1>1, <2>1 DEF Reported, Status
  <2>3. client[p] \in {"open", "lost"} => failed'[p]
    BY <1>5, <2>2
  <2>4. client[p] \in {"open", "lost"} => returned'[p] # "COMPLETE"
    BY <1>9, <2>2
  <2> QED BY <1>1, <1>6, <2>1, <2>2, <2>3, <2>4 DEF Reported
<1> QED BY <1>1, <1>4, <1>8, <1>10, <1>11, <1>13, <1>14, <1>15, <1>16, OwnerStep DEF Unclaimed

\* The receipt is written after the return.
LEMMA PublishReceiptStep ==
    ASSUME IInv, NEW p \in Operators, PublishReceipt(p)
    PROVE  IInv'
<1> PICK n : n = "returned-status"
  OBVIOUS
<1>1. /\ pc[p] = "receipt" /\ pc[p] \in Claimed /\ Backing(p) /\ Wired(p)
      /\ UNCHANGED <<directory, index, sends, at, listed, failed, wire, client>>
      /\ UNCHANGED <<clean, judged, defect, returned, launched>>
  BY DEF PublishReceipt, locals, results, IInv, Claimed, Live, MaySend,
         Consuming, Unclaimed
<1>2. PICK w \in Outcomes(n) :
          /\ file' = [file EXCEPT ![n] = w.file]
          /\ \E place \in {"raised", "confirm", "console"} :
                pc' = [pc EXCEPT ![p] = place] /\ (place # "raised" => w.ok)
  BY DEF PublishReceipt, Goto
<1>3. /\ n \in Files \ {"index", "report-association"} /\ {"claim", "index"} \subseteq Files
  BY DEF Files
<1>4. /\ Evidence' /\ \A m \in Files : Whole(m) => Whole(m)'
      /\ file' \in [Files -> {"absent", "broken", "whole"}] /\ file'["index"] = file["index"]
      /\ (w.ok => Whole(n)')
  BY <1>1, <1>2, <1>3, FileStep, WriteFacts DEF IInv
<1>5. /\ pc' \in [Operators -> Live \cup {"returned", "raised", "crashed"}]
      /\ pc'[p] \in {"raised", "confirm", "console"} /\ (pc'[p] # "raised" => w.ok)
      /\ \A q \in Operators : q # p => pc'[q] = pc[q]
  BY <1>2 DEF IInv, TypeOK, Live
<1>6. TypeOK'
  BY <1>1, <1>4, <1>5 DEF IInv, TypeOK
<1>7. \A q \in Operators : q # p => Untouched(q)
  BY <1>1, <1>5 DEF Untouched
<1>8. pc'[p] \in Claimed => Backing(p)'
  <2> SUFFICES ASSUME pc'[p] \in {"confirm", "console"} PROVE Backing(p)'
    BY <1>5 DEF Claimed, Live, MaySend, Consuming
  <2>1. \A m \in listed[p] : Whole(m)'
    BY <1>1, <1>4 DEF Backing, IInv, TypeOK
  <2>2. Whole("claim")' /\ Whole("returned-status")' /\ (Whole("index") => Whole("index")')
    BY <1>1, <1>3, <1>4, <1>5 DEF Backing
  <2> QED BY <1>1, <2>1, <2>2 DEF Backing, Invoked, Concluded
<1>9. pc'[p] \in Claimed => Wired(p)'
  BY <1>1, <1>5 DEF Wired, Claimed, Live, MaySend, Consuming, Concluded
<1>10. Launched(p)'
  BY <1>1 DEF IInv, Launched
<1>11. Reported(p)'
  BY <1>1, <1>4, <1>5 DEF IInv, Reported, Concluded, Whole
<1> QED BY <1>1, <1>4, <1>5, <1>6, <1>7, <1>8, <1>9, <1>10, <1>11, OwnerStep DEF Unclaimed

\* The confirmation reads back, and changes nothing.
LEMMA ConfirmStep ==
    ASSUME IInv, NEW p \in Operators, Confirm(p)
    PROVE  IInv'
<1>1. /\ pc[p] = "confirm" /\ pc[p] \in Claimed /\ Backing(p) /\ Wired(p)
      /\ UNCHANGED <<disk, sends, at, listed, failed, wire, client>>
      /\ UNCHANGED <<clean, judged, defect, returned, launched>>
  BY DEF Confirm, locals, results, IInv, Claimed, Live, MaySend,
         Consuming, Unclaimed
<1>2. /\ Evidence' /\ UNCHANGED <<directory, file, index, sends>>
      /\ \A n \in Files : Whole(n) => Whole(n)'
  BY <1>1, Unmoved
<1>3. /\ pc' \in [Operators -> Live \cup {"returned", "raised", "crashed"}]
      /\ pc'[p] \in {"console", "raised"} /\ \A q \in Operators : q # p => pc'[q] = pc[q]
  <2>1. \E place \in {"console", "raised"} : pc' = [pc EXCEPT ![p] = place]
    BY DEF Confirm, Goto
  <2> QED BY <2>1, Moves DEF IInv, Places, Live
<1>4. TypeOK'
  BY <1>1, <1>2, <1>3 DEF IInv, TypeOK
<1>5. \A q \in Operators : q # p => Untouched(q)
  BY <1>1, <1>3 DEF Untouched
<1>6. pc'[p] \in Claimed => Backing(p)'
  BY <1>1, <1>2, <1>3 DEF Backing, Whole, Invoked, Concluded, Claimed, Live, MaySend, Consuming
<1>7. pc'[p] \in Claimed => Wired(p)'
  BY <1>1, <1>2, <1>3 DEF Wired, Claimed, Live, MaySend, Consuming, Concluded
<1>8. Launched(p)'
  BY <1>1 DEF IInv, Launched
<1>9. Reported(p)'
  BY <1>1, <1>2, <1>3 DEF IInv, Reported, Concluded, Whole
<1> QED BY <1>1, <1>2, <1>3, <1>4, <1>5, <1>6, <1>7, <1>8, <1>9, OwnerStep DEF Unclaimed

\* COMPLETE is printed only for a complete return, whose evidence is whole.
LEMMA EmitConfirmationStep ==
    ASSUME IInv, NEW p \in Operators, EmitConfirmation(p)
    PROVE  IInv'
<1>1. /\ pc[p] = "console" /\ pc[p] \in Claimed /\ Backing(p) /\ Wired(p)
      /\ pc' = [pc EXCEPT ![p] = "returned"]
      /\ UNCHANGED <<disk, sends, at, listed, failed, wire, client>>
      /\ UNCHANGED <<clean, judged, defect, returned>>
  BY DEF EmitConfirmation, Goto, locals, IInv, Claimed, Live, MaySend,
         Consuming, Unclaimed
<1>2. /\ Evidence' /\ UNCHANGED <<directory, file, index, sends>>
      /\ \A n \in Files : Whole(n) => Whole(n)'
  BY <1>1, Unmoved
<1>3. /\ pc' \in [Operators -> Live \cup {"returned", "raised", "crashed"}]
      /\ pc'[p] = "returned" /\ \A q \in Operators : q # p => pc'[q] = pc[q]
  BY <1>1 DEF IInv, TypeOK, Live
<1>4. PICK printed \in BOOLEAN : launched' = Set(launched, p, Launch(p, printed))
  BY DEF EmitConfirmation
<1>5. /\ launched' \in [Operators -> {"NONE", "COMPLETE", "UNCONFIRMED"}]
      /\ launched'[p] = "COMPLETE" => returned[p] = "COMPLETE"
      /\ \A q \in Operators : q # p => launched'[q] = launched[q]
  BY <1>4 DEF Launch, Set, IInv, TypeOK
<1>6. TypeOK'
  BY <1>1, <1>2, <1>3, <1>5 DEF IInv, TypeOK
<1>7. \A q \in Operators : q # p => Untouched(q)
  BY <1>1, <1>3, <1>5 DEF Untouched
<1>8. Launched(p)'
  BY <1>1, <1>2, <1>3, <1>5 DEF Launched, Backing, Concluded, Whole
<1>9. Reported(p)'
  BY <1>1, <1>2, <1>3 DEF IInv, Reported, Concluded, Whole
<1> QED BY <1>1, <1>2, <1>3, <1>6, <1>7, <1>8, <1>9, OwnerStep
        DEF Unclaimed, Claimed, Live, MaySend, Consuming

\* An interrupt that nobody catches ends the process's part.
LEMMA InterruptedStep ==
    ASSUME IInv, NEW p \in Operators, Interrupted(p)
    PROVE  IInv'
<1>1. /\ pc[p] \in {"final", "index", "console"} /\ pc[p] \in Claimed
      /\ pc' = [pc EXCEPT ![p] = "raised"]
      /\ UNCHANGED <<disk, sends, at, listed, failed, wire, client>>
      /\ UNCHANGED <<clean, judged, defect, returned, launched>>
  BY DEF Interrupted, Goto, locals, results, Claimed, Live, Unclaimed
<1>2. /\ Evidence' /\ UNCHANGED <<directory, file, index, sends>>
      /\ \A n \in Files : Whole(n) => Whole(n)'
  BY <1>1, Unmoved
<1>3. /\ pc' \in [Operators -> Live \cup {"returned", "raised", "crashed"}]
      /\ pc'[p] = "raised" /\ \A q \in Operators : q # p => pc'[q] = pc[q]
  BY <1>1 DEF IInv, TypeOK
<1>4. TypeOK'
  BY <1>1, <1>2, <1>3 DEF IInv, TypeOK
<1>5. \A q \in Operators : q # p => Untouched(q)
  BY <1>1, <1>3 DEF Untouched
<1>6. Launched(p)' /\ Reported(p)'
  BY <1>1, <1>3 DEF IInv, Launched, Reported, Concluded
<1>7. pc'[p] \notin Claimed /\ pc'[p] \notin Unclaimed
  BY <1>3 DEF Claimed, Live, MaySend,
         Consuming, Unclaimed
<1> QED BY <1>1, <1>2, <1>4, <1>5, <1>6, <1>7, OwnerStep

\* A dead process leaves the directory as it is.
LEMMA CrashStep ==
    ASSUME IInv, NEW p \in Operators, Crash(p)
    PROVE  IInv'
<1>1. /\ pc[p] \in Live /\ UNCHANGED <<disk, sends>> /\ launched' = launched
      /\ pc' = [pc EXCEPT ![p] = "crashed"] /\ at' = [at EXCEPT ![p] = 1]
      /\ listed' = [listed EXCEPT ![p] = {}] /\ client' = [client EXCEPT ![p] = "none"]
      /\ wire' = [wire EXCEPT ![p] = NotEntered]
      /\ returned' = [returned EXCEPT ![p] = "NONE"]
  BY DEF Crash, Goto, Set
<1>2. /\ failed' = [failed EXCEPT ![p] = FALSE] /\ clean' = [clean EXCEPT ![p] = FALSE]
      /\ judged' = [judged EXCEPT ![p] = FALSE] /\ defect' = [defect EXCEPT ![p] = FALSE]
  BY DEF Crash, Set
<1>3. /\ Evidence' /\ UNCHANGED <<directory, file, index, sends>>
      /\ \A n \in Files : Whole(n) => Whole(n)'
  BY <1>1, Unmoved
<1>4. /\ pc' \in [Operators -> Live \cup {"returned", "raised", "crashed"}]
      /\ pc'[p] = "crashed" /\ \A q \in Operators : q # p => pc'[q] = pc[q]
  BY <1>1 DEF IInv, TypeOK, Live
<1>5. /\ at' \in [Operators -> 1..9] /\ listed' \in [Operators -> SUBSET Files]
      /\ \A q \in Operators : q # p => at'[q] = at[q] /\ listed'[q] = listed[q]
  BY <1>1 DEF IInv, TypeOK
<1>6. /\ client' \in [Operators -> {"none", "open", "closed", "unclosable", "lost"}]
      /\ client'[p] = "none" /\ \A q \in Operators : q # p => client'[q] = client[q]
  BY <1>1 DEF IInv, TypeOK
<1>7. /\ wire' \in [Operators -> Wires] /\ \A q \in Operators : q # p => wire'[q] = wire[q]
  <2>1. wire \in [Operators -> Wires] /\ NotEntered \in Wires
    BY DEF IInv, TypeOK, Wires, NotEntered
  <2> QED BY <1>1, <2>1
<1>8. /\ returned' \in [Operators -> {"NONE", "COMPLETE", "INTERRUPTED", "INTERRUPTED_UNINDEXED"}]
      /\ \A q \in Operators : q # p => returned'[q] = returned[q]
  BY <1>1 DEF IInv, TypeOK
<1>9. /\ failed' \in [Operators -> BOOLEAN] /\ clean' \in [Operators -> BOOLEAN]
      /\ judged' \in [Operators -> BOOLEAN] /\ defect' \in [Operators -> BOOLEAN]
      /\ \A q \in Operators : q # p => /\ failed'[q] = failed[q] /\ clean'[q] = clean[q]
                                      /\ judged'[q] = judged[q] /\ defect'[q] = defect[q]
  BY <1>2 DEF IInv, TypeOK
<1>10. TypeOK'
  BY <1>1, <1>3, <1>4, <1>5, <1>6, <1>7, <1>8, <1>9 DEF IInv, TypeOK, Wires
<1>11. \A q \in Operators : q # p => Untouched(q)
  BY <1>1, <1>4, <1>5, <1>6, <1>7, <1>8, <1>9 DEF Untouched
<1>12. Launched(p)' /\ Reported(p)'
  BY <1>1, <1>4 DEF IInv, Launched, Reported, Concluded, Live, MaySend, Consuming
<1>13. "crashed" \notin Holding /\ "crashed" \notin Claimed /\ "crashed" \notin Unclaimed
  BY DEF Holding, Claimed, Unclaimed, Live, MaySend, Consuming
<1>14. CASE pc[p] \in Claimed
  BY <1>3, <1>4, <1>6, <1>10, <1>11, <1>12, <1>13, <1>14, OwnerStep
<1>15. CASE pc[p] \in Unclaimed
  BY <1>1, <1>4, <1>6, <1>10, <1>11, <1>12, <1>13, <1>15, OutsideStep
<1> QED BY <1>1, <1>14, <1>15 DEF Claimed
-----------------------------------------------------------------------------
(* The theorems *)

\* Before anything is started there is no directory and no request.
LEMMA Initially == Init => IInv
<1> SUFFICES ASSUME Init PROVE IInv
  OBVIOUS
<1>1. TypeOK
  <2>1. /\ directory \in BOOLEAN /\ file \in [Files -> {"absent", "broken", "whole"}]
        /\ index \in [status : {"NONE", "COMPLETE", "INTERRUPTED"},
                      files : SUBSET Files, judged : BOOLEAN]
        /\ sends \in Nat
    BY DEF Init, NoIndex
  <2>2. /\ pc \in [Operators -> Live \cup {"returned", "raised", "crashed"}]
        /\ at \in [Operators -> 1..9] /\ listed \in [Operators -> SUBSET Files]
        /\ client \in [Operators -> {"none", "open", "closed", "unclosable", "lost"}]
    BY DEF Init, Live
  <2>3. wire \in [Operators -> Wires]
    BY DEF Init, NotEntered, Wires
  <2>4. \A b \in {failed, clean, judged, defect} : b \in [Operators -> BOOLEAN]
    BY DEF Init
  <2>5. /\ returned \in [Operators -> {"NONE", "COMPLETE", "INTERRUPTED", "INTERRUPTED_UNINDEXED"}]
        /\ launched \in [Operators -> {"NONE", "COMPLETE", "UNCONFIRMED"}]
    BY DEF Init
  <2> QED BY <2>1, <2>2, <2>3, <2>4, <2>5 DEF TypeOK, Wires
<1>2. \A p \in Operators : pc[p] = "prepare" /\ "prepare" \notin Holding
  BY DEF Init, Holding, Claimed, Unclaimed, Live, MaySend, Consuming
<1>3. Claim
  BY <1>2 DEF Init, Claim, Fresh
<1>4. {"index", "report-association"} \subseteq Files
  BY DEF Files
<1>5. Evidence
  BY <1>4 DEF Init, Evidence, DurableBeforeSend, IndexBacked, AssociationIsBound, Whole
<1>6. \A p \in Operators : Launched(p) /\ Reported(p)
  BY DEF Init, Launched, Reported, Concluded
<1> QED BY <1>1, <1>2, <1>3, <1>5, <1>6 DEF IInv, Holding

\* Every action of a process preserves the invariant.
LEMMA Inductive == IInv /\ [Next]_vars => IInv'
<1> SUFFICES ASSUME IInv, [Next]_vars PROVE IInv'
  OBVIOUS
<1>1. CASE UNCHANGED vars
  <2>1. /\ UNCHANGED <<directory, file, index, sends, pc, at, listed, failed, wire, client>>
        /\ UNCHANGED <<clean, judged, defect, returned, launched>>
    BY <1>1 DEF vars, disk, locals, results
  <2> QED BY <2>1 DEF IInv, TypeOK, Claim, Fresh, Evidence, DurableBeforeSend, IndexBacked,
                      AssociationIsBound, Reported, Launched, Backing, Wired, Whole,
                      CleanWire, HooksCounted
<1>2. CASE Next
  <2> PICK p \in Operators :
         Claiming(p) \/ Preparing(p) \/ Calling(p) \/ Concluding(p) \/ Launching(p) \/ Crash(p)
    BY <1>2 DEF Next
  <2>1. CASE Claiming(p)
    BY <2>1, AcceptStep, MakeDirectoryStep, WriteClaimStep, TakeClaimStep DEF Claiming
  <2>2. CASE Preparing(p)
    BY <2>2, PublishBeforeStep, ConsumerRaisesStep, FactoryReturnsStep, EntersStep,
       InvokeAbandonedStep DEF Preparing
  <2>3. CASE Calling(p)
    BY <2>3, ParametersHookStep, SendHookStep, InvokeRaisesStep, InvokeReturnsStep,
       CloseClientStep, CloseInterruptedStep DEF Calling
  <2>4. CASE Concluding(p)
    BY <2>4, PublishRawStep, SalvageRaisesStep, AssessStep, JoinStep, EndStep, InspectStep,
       FinalizeStep, WriteIndexStep DEF Concluding
  <2>5. CASE Launching(p)
    BY <2>5, PublishReceiptStep, ConfirmStep, EmitConfirmationStep, InterruptedStep
       DEF Launching
  <2> QED BY <2>1, <2>2, <2>3, <2>4, <2>5, CrashStep
<1> QED BY <1>1, <1>2

\* The invariant holds of every behaviour.
LEMMA Always == Spec => []IInv
BY Initially, Inductive, PTL DEF Spec

\* However many operator processes are started and wherever they die, nothing
\* leaves before the claim, the inputs, the request and the marker are whole.
THEOREM DurableBeforeSendHolds == Spec => []DurableBeforeSend
<1>1. IInv => DurableBeforeSend
  BY DEF IInv, Evidence
<1> QED BY <1>1, Always, PTL

\* An index on disk is backed by the files it lists; COMPLETE and a verdict
\* stand for one request and its whole published response.
THEOREM IndexIsBackedHolds == Spec => []IndexIsBacked
<1>1. IInv => IndexIsBacked
  BY DEF IInv, Evidence, IndexBacked, IndexIsBacked, Whole
<1> QED BY <1>1, Always, PTL

\* An association of a report is never on disk without the response it reads.
THEOREM AssociationIsBoundHolds == Spec => []AssociationIsBound
<1>1. IInv => AssociationIsBound
  BY DEF IInv, Evidence
<1> QED BY <1>1, Always, PTL

\* A launcher's COMPLETE is backed by the receipt, a whole COMPLETE index and a
\* closed client; a client some path has left open is under a constructed
\* transport, and neither the return nor a whole index calls its run COMPLETE.
THEOREM LauncherTruthHolds == Spec => []LauncherTruth
<1>1. IInv => LauncherTruth
  <2>1. IInv => OpenClientReported
    BY DEF IInv, Reported, OpenClientReported, Concluded, Whole
  <2> QED BY <2>1 DEF IInv, Launched, LauncherTruth, Whole
<1> QED BY <1>1, Always, PTL
-----------------------------------------------------------------------------
(* The refinement *)

Over == directory /\ \A p \in Operators : pc[p] \notin MaySend

\* A step that sends nothing, and lets nobody send who could not before.
Quiet(p) ==
    /\ sends' = sends /\ (directory => directory')
    /\ \A q \in Operators : q # p => pc'[q] = pc[q]
    /\ pc'[p] \in MaySend => pc[p] \in MaySend \/ ~directory

\* A quiet step ends the run, or leaves it as it was.
LEMMA QuietStep ==
    ASSUME IInv, NEW p \in Operators, Quiet(p)
    PROVE  [OneShot!Next]_<<[s \in {"invoke"} |-> sends], Over>>
<1>1. Over => Over'
  BY DEF Over, Quiet
<1>2. sends' = sends
  BY DEF Quiet
<1>3. CASE ~Over /\ Over'
  <2>1. OneShot!End
    BY <1>2, <1>3 DEF OneShot!End, Over
  <2> QED BY <2>1 DEF OneShot!Next
<1>4. CASE Over' = Over
  BY <1>2, <1>4
<1>5. Over \in BOOLEAN /\ Over' \in BOOLEAN
  BY DEF Over
<1> QED BY <1>1, <1>3, <1>4, <1>5

\* Every action but an approval is quiet.
LEMMA QuietActions ==
    ASSUME IInv, NEW p \in Operators,
           \/ Claiming(p) \/ Preparing(p) \/ Concluding(p) \/ Launching(p) \/ Crash(p)
           \/ ParametersHook(p) \/ InvokeRaises(p) \/ InvokeReturns(p)
           \/ CloseClient(p) \/ CloseInterrupted(p)
    PROVE  Quiet(p)
<1>1. ASSUME NEW place \in Live \cup {"returned", "raised", "crashed"},
             pc' = [pc EXCEPT ![p] = place] \/ pc' = pc, sends' = sends,
             directory' = directory,
             place \in MaySend => pc[p] \in MaySend
      PROVE  Quiet(p)
  BY <1>1 DEF Quiet, IInv, TypeOK
<1>2. CASE Claiming(p)
  <2>1. CASE Prepare(p) \/ Validate(p) \/ ClaimRefused(p)
    <3>1. /\ UNCHANGED <<disk, sends>>
          /\ \E place \in {"validate", "start", "raised"} : pc' = [pc EXCEPT ![p] = place]
      BY <2>1 DEF Prepare, Validate, ClaimRefused, Accept, Goto
    <3> QED BY <1>1, <3>1 DEF disk, Live, MaySend, Consuming
  <2>2. CASE MakeDirectory(p)
    BY <2>2 DEF MakeDirectory, Goto, Quiet, IInv, TypeOK
  <2>3. CASE WriteClaim(p) \/ TakeClaim(p)
    <3>1. /\ UNCHANGED <<directory, sends>> /\ pc[p] \in MaySend
          /\ \E place \in {"stat", "before", "raised"} : pc' = [pc EXCEPT ![p] = place]
      BY <2>3 DEF WriteClaim, TakeClaim, Goto, disk, MaySend
    <3> QED BY <1>1, <3>1 DEF Live, MaySend, Consuming
  <2> QED BY <1>2, <2>1, <2>2, <2>3 DEF Claiming
<1>3. CASE Preparing(p)
  <2>1. CASE ConsumerRaises(p)
    <3>1. UNCHANGED <<directory, sends>> /\ pc' = [pc EXCEPT ![p] = "final"]
      BY <2>1 DEF ConsumerRaises, Goto, disk
    <3> QED BY <1>1, <3>1 DEF Live, MaySend, Consuming
  <2>2. CASE ~ConsumerRaises(p)
    <3>1. /\ UNCHANGED <<directory, sends>> /\ pc[p] \in MaySend
          /\ \/ pc' = pc
             \/ \E place \in {"final", "factory", "adapter", "built", "sdk", "salvage"} :
                   pc' = [pc EXCEPT ![p] = place]
      BY <1>3, <2>2 DEF Preparing, PublishBefore, FactoryReturns, AdapterBuilds, InvokeEnters,
                        InvokeAbandoned, Goto, disk, MaySend
    <3> QED BY <1>1, <3>1 DEF Live, MaySend, Consuming
  <2> QED BY <2>1, <2>2
<1>4. CASE \/ ParametersHook(p) \/ InvokeRaises(p) \/ InvokeReturns(p)
           \/ CloseClient(p) \/ CloseInterrupted(p)
  <2>1. /\ UNCHANGED <<directory, sends>>
        /\ \/ pc' = pc
           \/ \E place \in {"closing", "evidence", "salvage"} : pc' = [pc EXCEPT ![p] = place]
    BY <1>4 DEF ParametersHook, Refuse, InvokeRaises, InvokeReturns, CloseClient,
                CloseInterrupted, Goto, disk
  <2> QED BY <1>1, <2>1 DEF Quiet, IInv, TypeOK, Live, MaySend, Consuming
<1>5. CASE Concluding(p)
  <2>1. /\ UNCHANGED <<directory, sends>>
        /\ \/ pc' = pc
           \/ \E place \in {"assess", "final", "join", "end", "inspect", "index", "receipt",
                            "raised"} : pc' = [pc EXCEPT ![p] = place]
    BY <1>5 DEF Concluding, PublishRaw, SalvageRaises, Assess, Join, End, Inspect, Finalize,
                WriteIndex, Goto, disk
  <2> QED BY <1>1, <2>1 DEF Quiet, IInv, TypeOK, Live, MaySend, Consuming
<1>6. CASE Launching(p) \/ Crash(p)
  <2>1. /\ UNCHANGED <<directory, sends>>
        /\ \E place \in {"raised", "confirm", "console", "returned", "crashed"} :
              pc' = [pc EXCEPT ![p] = place]
    BY <1>6 DEF Launching, PublishReceipt, Confirm, EmitConfirmation, Interrupted, Crash, Goto,
                disk
  <2> QED BY <1>1, <2>1 DEF Live, MaySend, Consuming
<1> QED BY <1>2, <1>3, <1>4, <1>5, <1>6

\* The approval of a send is the one delivery the abstract run allows.
LEMMA SendIsDelivery ==
    ASSUME IInv, NEW p \in Operators, SendHook(p)
    PROVE  [OneShot!Next]_<<[s \in {"invoke"} |-> sends], Over>>
<1>1. CASE sends' = sends
  <2>1. directory' = directory /\ (pc' = pc \/ pc' = [pc EXCEPT ![p] = "closing"]) /\ pc[p] = "sdk"
    BY DEF SendHook, Refuse, Goto, disk
  <2>2. Quiet(p)
    BY <1>1, <2>1 DEF Quiet, IInv, TypeOK, MaySend
  <2> QED BY <2>2, QuietStep
<1>2. CASE Admitted(wire[p]) /\ sends' = sends + 1 /\ pc' = pc
  <2>1. /\ pc[p] = "sdk" /\ directory' = directory /\ pc[p] \in Claimed /\ Wired(p)
    BY DEF SendHook, disk, IInv, Claimed, Live, MaySend,
         Consuming, Unclaimed
  <2>2. ~Over /\ ~Over'
    BY <1>2, <2>1 DEF Over, MaySend
  <2>3. sends = 0 /\ sends' = 1
    BY <1>2, <2>1 DEF Wired, Admitted
  <2>4. OneShot!Deliver("invoke")
    BY <2>2, <2>3 DEF OneShot!Deliver, Over
  <2> QED BY <2>4 DEF OneShot!Next
<1> QED BY <1>1, <1>2 DEF SendHook

\* Over every process started for one execution_id, the run implements the
\* one-shot chain: at most one request leaves, and none once nobody in the
\* directory may send.
THEOREM InvocationIsOneShot == Spec => ImplementsOneShot
<1>1. Init => OneShot!Init
  BY DEF Init, OneShot!Init, MaySend
<1>2. IInv /\ [Next]_vars => [OneShot!Next]_<<[s \in {"invoke"} |-> sends], Over>>
  <2> SUFFICES ASSUME IInv, [Next]_vars
               PROVE  [OneShot!Next]_<<[s \in {"invoke"} |-> sends], Over>>
    OBVIOUS
  <2>1. CASE UNCHANGED vars
    BY <2>1 DEF vars, disk, Over
  <2>2. ASSUME NEW p \in Operators,
               Claiming(p) \/ Preparing(p) \/ Calling(p) \/ Concluding(p) \/ Launching(p) \/ Crash(p)
        PROVE  [OneShot!Next]_<<[s \in {"invoke"} |-> sends], Over>>
    <3>1. CASE SendHook(p)
      BY <3>1, SendIsDelivery
    <3>2. CASE ~SendHook(p)
      <4>1. Quiet(p)
        BY <2>2, <3>2, QuietActions DEF Calling
      <4> QED BY <4>1, QuietStep
    <3> QED BY <3>1, <3>2
  <2> QED BY <2>1, <2>2 DEF Next
<1> QED BY <1>1, <1>2, Always, PTL DEF Spec, ImplementsOneShot, OneShot!Spec, Over
=============================================================================
