---------------------- MODULE ObservationCaptureProofs ----------------------
(***************************************************************************)
(* Proofs about ObservationCapture, for every set of captures started with *)
(* one output, every length of the plan and every number of moments.       *)
(***************************************************************************)
EXTENDS ObservationCapture, TLAPS

-----------------------------------------------------------------------------
(* The inductive invariant *)

Acting == Reading \cup {"index", "report", "exit0", "exit1", "exit3"}

\* One capture at most made the directory; before it did, nothing is there.
Sole ==
    /\ \A p, q \in Captures : pc[p] \in Acting /\ pc[q] \in Acting => p = q
    /\ ~exists => /\ \A p \in Captures : pc[p] \notin Acting
                  /\ \A f \in Names : disk[f] = "none"
                  /\ \A r \in Reads : sent[r] = 0

\* The lists of the publisher are the directory.
Filed ==
    /\ \A f \in files : Whole(f)
    /\ \A f \in Names : disk[f] \in {"part", "whole"} =>
          f \in files \/ [name |-> f, opened |-> TRUE] \in failures
Noted(r) == \/ ObservationFile(r) \in files
            \/ \E f \in failures : f.name = ObservationFile(r)

\* A read that was judged as planned and published.
Had(r) == IF r = 0 THEN verified ELSE r \in records

\* Reads are attempted in the order of the plan, each after the one before it
\* was had in full.
Progress ==
    /\ \A r \in Reads : Had(r) => /\ r < attempted /\ Kept(r) /\ sent[r] = 1
                                  /\ observations[r].started <= previous
    /\ \A r \in Reads : r + 1 < attempted => Had(r)
    /\ \A r \in Reads : sent[r] = 1 => r < attempted
    /\ \A r \in 1..Planned : Had(r) => observations[r - 1].started < observations[r].started

Between(p) == pc[p] \in {"plan", "client", "clocks"} =>
    attempted <= Planned /\ \A r \in Reads : r < attempted => Had(r)
During(p) == pc[p] \in {"call", "judge", "record", "observation"} =>
    /\ attempted \in 1..Planned + 1 /\ ~Had(Read)
    /\ \A r \in Reads : Had(r) => observations[r].started < previous
    /\ sent[Read] = IF pc[p] = "call" THEN 0 ELSE 1

\* What has been accepted so far of the read under way.
Sound == answer[Read] = "bound" /\ now.started = previous /\ previous <= now.received
Judged(p) ==
    /\ pc[p] = "record" => /\ Read # 0 /\ now.outcome = "ACCEPTED" /\ ~now.record /\ Sound
    /\ pc[p] = "observation" /\ now.outcome = "ACCEPTED" =>
          /\ Sound /\ now.record = (Read # 0)
          /\ Read # 0 => Whole(RecordFile(Read))

\* The index is written last, of what the capture came to.
Turned(p) == pc[p] = "index" =>
    /\ cause = "none" => Whole(PlanFile) /\ \A r \in Reads : Had(r)
    /\ cause # "none" => Planned \notin records
    /\ \A r \in Reads : sent[r] = 1 => Noted(r)
Open(p) ==
    /\ pc[p] \in Reading \cup {"index"} => ~Whole(IndexFile) /\ status = "none"
    /\ pc[p] \in Reading => cause = "none"
    /\ pc[p] \in Reading \ {"plan"} => Whole(PlanFile)

Placed(p) == Between(p) /\ During(p) /\ Judged(p) /\ Turned(p) /\ Open(p)

\* The status is that of the index, and says the truth.
Concluded ==
    /\ IndexTruthful
    /\ status \in {"COMPLETE", "STOPPED", "INTERRUPTED"} => Whole(IndexFile) /\ index.status = status
    /\ status = "COMPLETE" => Whole(PlanFile) /\ \A r \in Reads : Kept(r)
    /\ \A p \in Captures : pc[p] = "exit0" => status = "COMPLETE"

IInv == TypeOK /\ Sole /\ Filed /\ Progress /\ (\A p \in Captures : Placed(p)) /\ Concluded
-----------------------------------------------------------------------------
(* The directory *)

\* The names of the files are distinct.
LEMMA FileNames ==
    /\ PlanFile \in Names /\ IndexFile \in Names /\ PlanFile # IndexFile
    /\ \A r \in 1..Planned : /\ RecordFile(r) \in Names /\ RecordFile(r) # IndexFile
    /\ \A r \in Reads : /\ ObservationFile(r) \in Names /\ ObservationFile(r) # IndexFile
BY DEF Names, PlanFile, IndexFile, RecordFile, ObservationFile

\* A publication leaves every other file alone, never replaces one, and is
\* listed as a file or as a failure.
LEMMA PublishStep ==
    ASSUME TypeOK, Filed, NEW name \in Names, NEW r \in Results(name), Publish(name, r)
    PROVE  /\ disk' \in [Names -> {"none", "part", "whole", "alien"}]
           /\ files' \subseteq Names /\ failures' \subseteq Failure /\ Filed'
           /\ \A f \in Names : f # name => disk'[f] = disk[f]
           /\ \A f \in Names : Whole(f) => Whole(f)'
           /\ r.ok => Whole(name)' /\ r.opened /\ r.left = "whole"
           /\ Whole(name)' => Whole(name) \/ (r.opened /\ r.left = "whole")
           /\ name \in files' \/ \E f \in failures' : f.name = name
           /\ \A s : Noted(s) => Noted(s)'
           /\ r.ok \in BOOLEAN /\ r.opened \in BOOLEAN
<1>1. /\ r.ok \in BOOLEAN /\ r.opened \in BOOLEAN
      /\ r.left \in {"none", "part", "whole", "alien"}
      /\ r.ok => disk[name] = "none" /\ name \notin files /\ r.opened /\ r.left = "whole"
      /\ r.opened => disk[name] = "none" /\ name \notin files /\ r.left \in {"part", "whole"}
      /\ ~r.opened => r.left = disk[name]
  BY DEF Results
<1>2. disk' = [disk EXCEPT ![name] = r.left]
  BY DEF Publish
<1>3. /\ disk' \in [Names -> {"none", "part", "whole", "alien"}] /\ disk'[name] = r.left
      /\ \A f \in Names : f # name => disk'[f] = disk[f]
  BY <1>1, <1>2 DEF TypeOK
<1>4. CASE r.ok
  <2>1. files' = files \cup {name} /\ failures' = failures
    BY <1>4 DEF Publish, Listed
  <2>2. Filed'
    BY <1>1, <1>3, <1>4, <2>1 DEF Filed, Whole, TypeOK
  <2>3. \A s : Noted(s) => Noted(s)'
    BY <2>1 DEF Noted
  <2> QED BY <1>1, <1>3, <1>4, <2>1, <2>2, <2>3 DEF TypeOK, Whole
<1>5. CASE ~r.ok
  <2> DEFINE failed == [name |-> name, opened |-> r.opened]
  <2>1. files' = files /\ failures' = failures \cup {failed}
    BY <1>5 DEF Publish, Listed
  <2>2. failed \in Failure /\ failed.name = name /\ (r.opened => failed = [name |-> name, opened |-> TRUE])
    BY <1>1 DEF Failure
  <2> HIDE DEF failed
  <2>3. Filed'
    <3>1. \A f \in files' : Whole(f)'
      BY <1>1, <1>3, <2>1 DEF Filed, Whole, TypeOK
    <3>2. ASSUME NEW f \in Names, disk'[f] \in {"part", "whole"}
          PROVE  f \in files' \/ [name |-> f, opened |-> TRUE] \in failures'
      <4>1. CASE f = name /\ r.opened
        BY <2>1, <2>2, <4>1
      <4>2. CASE ~(f = name /\ r.opened)
        BY <1>1, <1>3, <2>1, <3>2, <4>2 DEF Filed
      <4> QED BY <4>1, <4>2
    <3> QED BY <3>1, <3>2 DEF Filed
  <2>4. name \in files' \/ \E f \in failures' : f.name = name
    BY <2>1, <2>2
  <2>5. \A s : Noted(s) => Noted(s)'
    BY <2>1 DEF Noted
  <2> QED BY <1>1, <1>3, <1>5, <2>1, <2>2, <2>3, <2>4, <2>5 DEF TypeOK, Whole
<1> QED BY <1>1, <1>4, <1>5

\* What was had in full stays so.
LEMMA KeptStays ==
    ASSUME NEW r \in Reads, \A f \in Names : Whole(f) => Whole(f)',
           observations'[r] = observations[r], answer'[r] = answer[r]
    PROVE  Kept(r) => Kept(r)'
<1>1. r # 0 => r \in 1..Planned
  BY PlannedAssumption DEF Reads
<1>2. /\ Whole(ObservationFile(r)) => Whole(ObservationFile(r))'
      /\ r # 0 /\ Whole(RecordFile(r)) => Whole(RecordFile(r))'
  BY <1>1, FileNames
<1> QED BY <1>2 DEF Kept, Whole
-----------------------------------------------------------------------------
(* The capture that claimed the directory is the only one that acts *)

\* While it acts the others do not; where it goes is all there is to show.
LEMMA SoleStep ==
    ASSUME IInv, NEW p \in Captures, pc[p] \in Acting, NEW w \in Acting \cup {"dead"},
           pc' = [pc EXCEPT ![p] = w], UNCHANGED exists
    PROVE  /\ exists /\ Sole' /\ pc'[p] = w
           /\ \A q \in Captures : q # p => pc'[q] = pc[q] /\ pc[q] \notin Acting
           /\ Placed(p)' => \A q \in Captures : Placed(q)'
<1>1. exists
  BY DEF IInv, Sole
<1>2. pc'[p] = w /\ \A q \in Captures : q # p => pc'[q] = pc[q] /\ pc[q] \notin Acting
  BY DEF IInv, TypeOK, Sole
<1>3. Sole'
  BY <1>1, <1>2 DEF Sole
<1>4. \A q \in Captures : q # p => Placed(q)'
  BY <1>2 DEF Placed, Between, During, Judged, Turned, Open, Acting, Reading
<1> QED BY <1>1, <1>2, <1>3, <1>4

\* Until the index is written there is nothing to be true.
LEMMA NotConcluded ==
    ASSUME IInv, NEW p \in Captures, pc[p] \in Acting, ~Whole(IndexFile)', status' = "none",
           pc'[p] # "exit0", \A q \in Captures : q # p => pc'[q] = pc[q] /\ pc[q] \notin Acting
    PROVE  Concluded'
BY DEF Concluded, IndexTruthful, Whole, Acting

\* A capture that only leaves: it is refused, killed, or returns its status.
LEMMA LeaveStep ==
    ASSUME IInv, NEW p \in Captures, Reject(p) \/ Report(p) \/ Die(p)
    PROVE  IInv'
<1>1. PICK w \in {"exit0", "exit1", "exit2", "exit3", "dead"} :
         /\ pc' = [pc EXCEPT ![p] = w]
         /\ w \in {"exit0", "exit1", "exit3"} => pc[p] = "report"
         /\ w = "exit0" => status = "COMPLETE"
  BY DEF Reject, Report, Die, Goto
<1>2. UNCHANGED <<exists, disk, observations, index, sent, answer, clients, attempted, previous,
                  records, verified, files, failures, now, cause, status>>
  BY DEF Reject, Report, Die, world, progress, publisher, verdict
<1>3. pc'[p] = w /\ \A q \in Captures : q # p => pc'[q] = pc[q]
  BY <1>1 DEF IInv, TypeOK
<1>4. TypeOK'
  BY <1>1, <1>2 DEF IInv, TypeOK, Ended
<1>5. Sole'
  <2>1. \A q \in Captures : pc'[q] \in Acting => pc[q] \in Acting
    BY <1>1, <1>3 DEF Acting, Reading
  <2> QED BY <1>2, <2>1 DEF IInv, Sole
<1>6. Filed' /\ Progress'
  BY <1>2 DEF IInv, Filed, Progress, Had, Kept, Whole
<1>7. \A q \in Captures : Placed(q)'
  <2> SUFFICES ASSUME NEW q \in Captures PROVE Placed(q)'
    OBVIOUS
  <2>1. CASE q = p
    BY <1>3, <2>1 DEF Placed, Between, During, Judged, Turned, Open, Reading
  <2>2. CASE q # p
    <3>1. Placed(q) /\ pc'[q] = pc[q]
      BY <1>3, <2>2 DEF IInv
    <3>2. Between(q)' /\ During(q)' /\ Judged(q)'
      BY <1>2, <3>1 DEF Placed, Between, During, Judged, Had, Read, Sound, Whole
    <3>3. Turned(q)' /\ Open(q)'
      BY <1>2, <3>1 DEF Placed, Turned, Open, Had, Whole, Noted
    <3> QED BY <3>2, <3>3 DEF Placed
  <2> QED BY <2>1, <2>2
<1>8. Concluded'
  BY <1>1, <1>2, <1>3 DEF IInv, Concluded, IndexTruthful, Whole, Kept
<1> QED BY <1>4, <1>5, <1>6, <1>7, <1>8 DEF IInv

\* A file that somebody else puts there is never taken for the capture's.
LEMMA IntrudeStep ==
    ASSUME IInv, Intrude
    PROVE  IInv'
<1>1. PICK f0 \in Names : disk[f0] = "none" /\ disk' = [disk EXCEPT ![f0] = "alien"]
  BY DEF Intrude
<1>2. /\ exists
      /\ UNCHANGED <<exists, observations, index, sent, answer, clients, attempted, previous,
                     records, verified, files, failures, now, cause, status, pc>>
  BY DEF Intrude, progress, publisher, verdict
<1>3. /\ disk' \in [Names -> {"none", "part", "whole", "alien"}] /\ disk'[f0] = "alien"
      /\ \A f \in Names : f # f0 => disk'[f] = disk[f]
  BY <1>1 DEF IInv, TypeOK
<1>4. \A f \in Names : /\ Whole(f)' <=> Whole(f)
                       /\ disk'[f] \in {"part", "whole"} => disk[f] \in {"part", "whole"}
  BY <1>1, <1>3 DEF Whole
<1>5. TypeOK'
  BY <1>2, <1>3 DEF IInv, TypeOK
<1>6. Sole'
  BY <1>2 DEF IInv, Sole
<1>7. Filed'
  BY <1>2, <1>4 DEF IInv, Filed, TypeOK
<1>8. \A r \in Reads : Kept(r) => Kept(r)'
  BY <1>2, <1>4, KeptStays
<1>9. Progress'
  BY <1>2, <1>8 DEF IInv, Progress, Had
<1>10. \A q \in Captures : Placed(q)'
  <2> SUFFICES ASSUME NEW q \in Captures PROVE Placed(q)'
    OBVIOUS
  <2>1. Placed(q)
    BY DEF IInv
  <2>2. Between(q)' /\ During(q)'
    BY <1>2, <2>1 DEF Placed, Between, During, Had, Read
  <2>3. Judged(q)'
    <3>1. pc[q] = "observation" /\ Read # 0 => RecordFile(Read) \in Names
      BY <2>1, FileNames, PlannedAssumption DEF Placed, During, Read, IInv, TypeOK
    <3>2. now.outcome = now'.outcome /\ Read' = Read
      BY <1>2 DEF Read
    <3> QED BY <1>2, <1>4, <2>1, <3>1, <3>2 DEF Placed, Judged, Sound
  <2>4. Turned(q)' /\ Open(q)'
    BY <1>2, <1>4, <2>1, FileNames DEF Placed, Turned, Open, Had, Noted
  <2> QED BY <2>2, <2>3, <2>4 DEF Placed
<1>11. Concluded'
  <2>1. IndexTruthful'
    <3> SUFFICES ASSUME Whole(IndexFile)' PROVE IndexTruthful'
      BY DEF IndexTruthful
    <3>1. Whole(IndexFile) /\ index.files \subseteq Names /\ index.records \subseteq Reads
      BY <1>4, FileNames DEF IInv, TypeOK, Index
    <3>2. /\ \A f \in index'.files : Whole(f)'
          /\ \A r \in index'.records : Kept(r)'
          /\ index'.status = "COMPLETE" <=> index'.records = 1..Planned
      BY <1>2, <1>4, <1>8, <3>1 DEF IInv, Concluded, IndexTruthful
    <3>3. \A f \in Names \ {IndexFile} : disk'[f] \in {"part", "whole"} =>
             f \in index'.files \/ [name |-> f, opened |-> TRUE] \in index'.failures
      BY <1>2, <1>4, <3>1 DEF IInv, Concluded, IndexTruthful
    <3>4. \A r \in Reads : sent'[r] = 1 =>
             \/ ObservationFile(r) \in index'.files
             \/ \E f \in index'.failures : f.name = ObservationFile(r)
      BY <1>2, <3>1 DEF IInv, Concluded, IndexTruthful
    <3> QED BY <3>2, <3>3, <3>4 DEF IndexTruthful
  <2> QED BY <1>2, <1>4, <1>8, <2>1, FileNames DEF IInv, Concluded
<1> QED BY <1>5, <1>6, <1>7, <1>9, <1>10, <1>11 DEF IInv
-----------------------------------------------------------------------------
(* Before the first read *)

\* The claim: only a capture that made the directory goes on.
LEMMA ClaimStep ==
    ASSUME IInv, NEW p \in Captures, Claim(p)
    PROVE  IInv'
<1>1. /\ ~exists /\ exists' = TRUE /\ pc' = [pc EXCEPT ![p] = "plan"]
      /\ clients' = {} /\ attempted' = 0 /\ previous' = 0 /\ now' = Nothing
      /\ files' = {} /\ failures' = {} /\ records' = {} /\ verified' = FALSE
      /\ cause' = "none" /\ status' = "none"
      /\ UNCHANGED <<disk, observations, index, sent, answer>>
  BY DEF Claim, Claimable, Goto
<1>2. /\ pc'[p] = "plan" /\ \A q \in Captures : q # p => pc'[q] = pc[q] /\ pc[q] \notin Acting
      /\ \A f \in Names : disk[f] = "none"
      /\ \A r \in Reads : sent[r] = 0
  BY <1>1 DEF IInv, TypeOK, Sole
<1>3. TypeOK'
  <2>1. pc' \in [Captures -> {"start", "index", "report"} \cup Reading \cup Ended]
    BY <1>1 DEF IInv, TypeOK, Reading
  <2>2. Nothing \in Observation
    BY PlannedAssumption DEF Nothing, Observation
  <2>3. /\ attempted' \in 0..Planned + 1 /\ previous' \in 0..LastMoment
        /\ now' \in Observation
    BY <1>1, <2>2, PlannedAssumption
  <2> QED BY <1>1, <2>1, <2>3 DEF IInv, TypeOK
<1>4. Sole'
  BY <1>1, <1>2 DEF Sole
<1>5. Filed' /\ Progress'
  BY <1>1, <1>2, PlannedAssumption DEF Filed, Progress, Had, Whole, Reads
<1>6. \A q \in Captures : Placed(q)'
  <2>1. Placed(p)'
    BY <1>1, <1>2, FileNames, PlannedAssumption
       DEF Placed, Between, During, Judged, Turned, Open, Whole, Reads, Reading
  <2>2. \A q \in Captures : q # p => Placed(q)'
    BY <1>2 DEF Placed, Between, During, Judged, Turned, Open, Acting, Reading
  <2> QED BY <2>1, <2>2
<1>7. Concluded'
  BY <1>1, <1>2, FileNames DEF Concluded, IndexTruthful, Whole, Acting
<1> QED BY <1>3, <1>4, <1>5, <1>6, <1>7 DEF IInv

\* A capture between two reads, or about to turn to its index without all of
\* them, has no doubt about what it sent.
LEMMA BetweenNoted ==
    ASSUME IInv, NEW p \in Captures, pc[p] \in {"plan", "client", "clocks"}
    PROVE  /\ Planned \notin records
           /\ \A r \in Reads : sent[r] = 1 => Noted(r)
<1>1. attempted <= Planned /\ \A r \in Reads : r < attempted => Had(r)
  BY DEF IInv, Placed, Between
<1>2. attempted \in Nat /\ Planned \in Reads /\ Planned # 0
  BY PlannedAssumption DEF IInv, TypeOK, Reads
<1>3. Planned \notin records
  BY <1>1, <1>2, PlannedAssumption DEF IInv, Progress, Had
<1>4. ASSUME NEW r \in Reads, sent[r] = 1 PROVE Noted(r)
  <2>1. Kept(r)
    BY <1>1, <1>4 DEF IInv, Progress
  <2>2. disk[ObservationFile(r)] = "whole" /\ ObservationFile(r) \in Names
    BY <2>1, FileNames DEF Kept, Whole
  <2>3. ObservationFile(r) \in files
        \/ [name |-> ObservationFile(r), opened |-> TRUE] \in failures
    BY <2>2 DEF IInv, Filed
  <2> QED BY <2>3 DEF Noted
<1> QED BY <1>3, <1>4

\* A step between two reads touches neither the directory nor the lists.
LEMMA BetweenStep ==
    ASSUME IInv, NEW p \in Captures, pc[p] \in {"client", "clocks"}, TypeOK',
           NEW w \in {"client", "clocks", "index"}, pc' = [pc EXCEPT ![p] = w],
           cause' = IF w = "index" THEN "stop" ELSE cause,
           UNCHANGED <<exists, disk, observations, index, sent, answer, attempted, previous,
                       records, verified, files, failures, now, status>>
    PROVE  IInv'
<1>1. /\ exists /\ Sole' /\ pc'[p] = w
      /\ \A q \in Captures : q # p => pc'[q] = pc[q] /\ pc[q] \notin Acting
      /\ Placed(p)' => \A q \in Captures : Placed(q)'
  BY SoleStep DEF Acting, Reading
<1>2. Placed(p)
  BY DEF IInv
<1>3. Filed' /\ Progress'
  BY DEF IInv, Filed, Progress, Had, Kept, Whole
<1>4. Placed(p)'
  <2>1. Between(p)' /\ During(p)' /\ Judged(p)'
    BY <1>1, <1>2 DEF Placed, Between, During, Judged, Had
  <2>2. Turned(p)'
    BY <1>1, BetweenNoted DEF Turned, Noted
  <2>3. Open(p)'
    BY <1>1, <1>2 DEF Placed, Open, Whole, Reading
  <2> QED BY <2>1, <2>2, <2>3 DEF Placed
<1>5. Concluded'
  <2>1. ~Whole(IndexFile)' /\ status' = "none"
    BY <1>2 DEF Placed, Open, Whole, Reading
  <2> QED BY <1>1, <2>1, NotConcluded DEF Acting, Reading
<1> QED BY <1>1, <1>3, <1>4, <1>5 DEF IInv

\* The client of the service is created, or the capture stops.
LEMMA ClientStep ==
    ASSUME IInv, NEW p \in Captures, Client(p)
    PROVE  IInv'
<1>1. PICK w \in {"clocks", "index"} :
         /\ pc[p] = "client" /\ pc' = [pc EXCEPT ![p] = w]
         /\ cause' = IF w = "index" THEN "stop" ELSE cause
  BY DEF Client, Stop, Goto
<1>2. /\ clients' \subseteq {"sts", "lambda"}
      /\ UNCHANGED <<exists, disk, observations, index, sent, answer, attempted, previous,
                     records, verified, files, failures, now, status>>
  BY DEF Client, Service, world, publisher, IInv, TypeOK
<1>3. TypeOK'
  BY <1>1, <1>2 DEF IInv, TypeOK, Reading
<1> QED BY <1>1, <1>2, <1>3, BetweenStep

\* The plan's copy is published, or the capture turns to its index.
LEMMA WritePlanStep ==
    ASSUME IInv, NEW p \in Captures, WritePlan(p)
    PROVE  IInv'
<1>1. PICK r \in Results(PlanFile) :
         /\ Publish(PlanFile, r)
         /\ Goto(p, IF r.ok THEN "client" ELSE "index")
         /\ cause' = IF r.ok THEN cause ELSE "publication"
  BY DEF WritePlan
<1>2. /\ pc[p] = "plan"
      /\ UNCHANGED <<exists, observations, index, sent, answer, clients, attempted, previous,
                     records, verified, now, status>>
  BY DEF WritePlan, progress
<1> PICK w : w = IF r.ok THEN "client" ELSE "index"
  OBVIOUS
<1>3. w \in {"client", "index"} /\ pc' = [pc EXCEPT ![p] = w] /\ (w = "client" <=> r.ok)
  BY <1>1 DEF Goto
<1>4. /\ disk' \in [Names -> {"none", "part", "whole", "alien"}]
      /\ files' \subseteq Names /\ failures' \subseteq Failure /\ Filed'
      /\ \A f \in Names : f # PlanFile => disk'[f] = disk[f]
      /\ \A f \in Names : Whole(f) => Whole(f)'
      /\ r.ok => Whole(PlanFile)'
  BY <1>1, PublishStep, FileNames DEF IInv
<1>5. /\ exists /\ Sole' /\ pc'[p] = w
      /\ \A q \in Captures : q # p => pc'[q] = pc[q] /\ pc[q] \notin Acting
      /\ Placed(p)' => \A q \in Captures : Placed(q)'
  BY <1>2, <1>3, SoleStep DEF Acting, Reading
<1>6. Placed(p)
  BY DEF IInv
<1>7. TypeOK'
  <2>1. pc' \in [Captures -> {"start", "index", "report"} \cup Reading \cup Ended]
    BY <1>3 DEF IInv, TypeOK, Reading
  <2>2. cause' \in {"none", "stop", "publication"}
    BY <1>1 DEF IInv, TypeOK
  <2> QED BY <1>2, <1>4, <2>1, <2>2 DEF IInv, TypeOK
<1>8. Progress'
  <2>1. \A s \in Reads : Kept(s) => Kept(s)'
    BY <1>2, <1>4, KeptStays
  <2> QED BY <1>2, <2>1 DEF IInv, Progress, Had
<1>9. Placed(p)'
  <2>1. Between(p)' /\ During(p)' /\ Judged(p)'
    BY <1>2, <1>3, <1>5, <1>6 DEF Placed, Between, During, Judged, Had
  <2>2. Turned(p)'
    <3>1. \A s \in Reads : sent'[s] = 1 => Noted(s)'
      BY <1>1, <1>2, BetweenNoted, PublishStep, FileNames DEF IInv
    <3> QED BY <1>1, <1>2, <1>3, <1>5, <3>1, BetweenNoted DEF Turned
  <2>3. Open(p)'
    BY <1>1, <1>2, <1>3, <1>4, <1>5, <1>6, FileNames DEF Placed, Open, Whole, Reading
  <2> QED BY <2>1, <2>2, <2>3 DEF Placed
<1>10. Concluded'
  <2>1. ~Whole(IndexFile)' /\ status' = "none"
    BY <1>2, <1>4, <1>6, FileNames DEF Placed, Open, Whole, Reading
  <2> QED BY <1>2, <1>3, <1>5, <2>1, NotConcluded DEF Acting, Reading
<1> QED BY <1>4, <1>5, <1>7, <1>8, <1>9, <1>10 DEF IInv
-----------------------------------------------------------------------------
(* A read *)

\* The clocks are read and the read is counted, or the capture stops.
LEMMA ReadClocksStep ==
    ASSUME IInv, NEW p \in Captures, ReadClocks(p)
    PROVE  IInv'
<1>1. /\ pc[p] = "clocks"
      /\ UNCHANGED <<exists, disk, observations, index, sent, answer, clients, records, verified,
                     files, failures, now, status>>
  BY DEF ReadClocks, world, publisher
<1>2. CASE Stop(p) /\ UNCHANGED <<attempted, previous>>
  <2>1. pc' = [pc EXCEPT ![p] = "index"] /\ cause' = "stop"
    BY <1>2 DEF Stop, Goto
  <2>2. TypeOK'
    BY <1>1, <1>2, <2>1 DEF IInv, TypeOK
  <2> QED BY <1>1, <1>2, <2>1, <2>2, BetweenStep
<1>3. CASE \E t \in Moments : /\ attempted <= Planned /\ t > previous
                              /\ attempted' = attempted + 1 /\ previous' = t
                              /\ Goto(p, "call") /\ UNCHANGED cause
  <2>1. PICK t \in Moments : /\ attempted <= Planned /\ t > previous
                             /\ attempted' = attempted + 1 /\ previous' = t
                             /\ pc' = [pc EXCEPT ![p] = "call"] /\ UNCHANGED cause
    BY <1>3 DEF Goto
  <2>2. /\ attempted \in Nat /\ attempted' \in 1..Planned + 1 /\ previous \in Nat
        /\ previous' \in 1..LastMoment /\ Planned \in Nat
    BY <2>1, PlannedAssumption DEF IInv, TypeOK, Moments
  <2>3. /\ exists /\ Sole' /\ pc'[p] = "call"
        /\ \A q \in Captures : q # p => pc'[q] = pc[q] /\ pc[q] \notin Acting
        /\ Placed(p)' => \A q \in Captures : Placed(q)'
    BY <1>1, <2>1, SoleStep DEF Acting, Reading
  <2>4. Placed(p)
    BY DEF IInv
  <2>5. TypeOK'
    <3>1. pc' \in [Captures -> {"start", "index", "report"} \cup Reading \cup Ended]
      BY <2>1 DEF IInv, TypeOK, Reading
    <3> QED BY <1>1, <2>1, <2>2, <3>1 DEF IInv, TypeOK
  <2>6. Filed'
    BY <1>1 DEF IInv, Filed, Whole
  <2>7. Reads \subseteq Nat /\ \A r \in Reads : observations[r].started \in Nat
    BY PlannedAssumption DEF IInv, TypeOK, Observation, Reads
  <2>8. \A r \in Reads : Had(r) <=> r < attempted
    BY <1>1, <2>4 DEF Placed, Between, IInv, Progress
  <2>9. Progress'
    <3>1. \A r \in Reads : Kept(r) => Kept(r)'
      BY <1>1, KeptStays DEF Whole
    <3>2. \A r \in Reads : Had(r)' <=> Had(r)
      BY <1>1 DEF Had
    <3>3. \A r \in Reads : Had(r)' => /\ r < attempted' /\ Kept(r)' /\ sent'[r] = 1
                                      /\ observations'[r].started <= previous'
      BY <1>1, <2>1, <2>2, <2>7, <3>1, <3>2 DEF IInv, Progress
    <3>4. /\ \A r \in Reads : r + 1 < attempted' => Had(r)'
          /\ \A r \in Reads : sent'[r] = 1 => r < attempted'
      <4>1. \A r \in Reads : r + 1 < attempted' => r < attempted
        BY <2>1, <2>2, <2>7
      <4>2. \A r \in Reads : sent'[r] = 1 => r < attempted
        BY <1>1 DEF IInv, Progress
      <4>3. \A r \in Reads : r < attempted => r < attempted'
        BY <2>1, <2>2, <2>7
      <4> QED BY <2>8, <3>2, <4>1, <4>2, <4>3
    <3>5. \A r \in 1..Planned : Had(r)' => observations'[r - 1].started < observations'[r].started
      <4>1. 1..Planned \subseteq Reads
        BY PlannedAssumption DEF Reads
      <4> QED BY <1>1, <3>2, <4>1 DEF IInv, Progress
    <3> QED BY <3>3, <3>4, <3>5 DEF Progress
  <2>10. Placed(p)'
    <3>1. During(p)'
      <4>1. Read' = attempted /\ attempted \in Reads
        BY <2>1, <2>2 DEF Read, Reads
      <4>2. ~Had(attempted) /\ sent[attempted] = 0
        BY <2>2, <2>8, <4>1 DEF IInv, TypeOK, Progress
      <4>3. \A r \in Reads : Had(r)' => observations'[r].started < previous'
        BY <1>1, <2>1, <2>2, <2>7 DEF IInv, Progress, Had
      <4> QED BY <1>1, <2>2, <2>3, <4>1, <4>2, <4>3 DEF During, Had
    <3>2. Between(p)' /\ Judged(p)' /\ Turned(p)'
      BY <2>3 DEF Between, Judged, Turned
    <3>3. Open(p)'
      BY <1>1, <2>1, <2>3, <2>4 DEF Placed, Open, Whole, Reading
    <3> QED BY <3>1, <3>2, <3>3 DEF Placed
  <2>11. Concluded'
    <3>1. ~Whole(IndexFile)' /\ status' = "none"
      BY <1>1, <2>4 DEF Placed, Open, Whole, Reading
    <3> QED BY <1>1, <2>3, <3>1, NotConcluded DEF Acting, Reading
  <2> QED BY <2>3, <2>5, <2>6, <2>9, <2>10, <2>11 DEF IInv
<1> QED BY <1>2, <1>3 DEF ReadClocks

\* During a read: which one it is, and that it was not had before.
LEMMA DuringFacts ==
    ASSUME IInv, NEW p \in Captures, pc[p] \in {"call", "judge", "record", "observation"}
    PROVE  /\ Read \in Reads /\ attempted = Read + 1 /\ ~Had(Read) /\ Planned \notin records
           /\ \A r \in Reads : Had(r) <=> r < Read
           /\ \A r \in Reads : r # Read /\ sent[r] = 1 => r < Read
           /\ Planned \in Nat /\ Reads \subseteq Nat /\ Placed(p) /\ pc[p] \in Acting
           /\ Read # 0 => Read \in 1..Planned
<1>1. /\ attempted \in 1..Planned + 1 /\ ~Had(Read) /\ Planned \in Nat \ {0} /\ Placed(p)
  BY PlannedAssumption DEF IInv, Placed, During
<1>2. Read \in Reads /\ attempted = Read + 1 /\ Reads \subseteq Nat /\ (Read # 0 => Read \in 1..Planned)
  BY <1>1 DEF Read, Reads
<1>3. \A r \in Reads : Had(r) <=> r < Read
  BY <1>1, <1>2 DEF IInv, Progress
<1>4. Planned \notin records
  BY <1>1, <1>2, <1>3 DEF Had, Reads
<1>5. \A r \in Reads : r # Read /\ sent[r] = 1 => r < Read
  BY <1>1, <1>2 DEF IInv, Progress
<1> QED BY <1>1, <1>2, <1>3, <1>4, <1>5 DEF Acting, Reading

\* The request leaves, once, and its answer is what it is.
LEMMA CallStep ==
    ASSUME IInv, NEW p \in Captures, Call(p)
    PROVE  IInv'
<1>1. PICK a \in Answers : answer' = [answer EXCEPT ![Read] = a]
  BY DEF Call
<1>2. /\ pc[p] = "call" /\ pc' = [pc EXCEPT ![p] = "judge"]
      /\ sent' = [sent EXCEPT ![Read] = @ + 1]
      /\ UNCHANGED <<exists, disk, observations, index, clients, attempted, previous,
                     records, verified, files, failures, now, cause, status>>
  BY DEF Call, Goto, progress, publisher, verdict
<1>3. /\ Read \in Reads /\ attempted = Read + 1 /\ ~Had(Read)
      /\ \A r \in Reads : Had(r) <=> r < Read
      /\ Planned \in Nat /\ Reads \subseteq Nat /\ Placed(p) /\ pc[p] \in Acting
  BY <1>2, DuringFacts
<1>4. sent[Read] = 0
  BY <1>2, <1>3 DEF Placed, During
<1>5. /\ sent' \in [Reads -> 0..1] /\ sent'[Read] = 1
      /\ \A r \in Reads : r # Read => sent'[r] = sent[r]
      /\ answer' \in [Reads -> Answers] /\ \A r \in Reads : r # Read => answer'[r] = answer[r]
  BY <1>1, <1>2, <1>3, <1>4 DEF IInv, TypeOK
<1>6. /\ exists /\ Sole' /\ pc'[p] = "judge"
      /\ \A q \in Captures : q # p => pc'[q] = pc[q] /\ pc[q] \notin Acting
      /\ Placed(p)' => \A q \in Captures : Placed(q)'
  BY <1>2, <1>3, SoleStep DEF Acting, Reading
<1>7. TypeOK'
  <2>1. pc' \in [Captures -> {"start", "index", "report"} \cup Reading \cup Ended]
    BY <1>2 DEF IInv, TypeOK, Reading
  <2> QED BY <1>2, <1>5, <2>1 DEF IInv, TypeOK
<1>8. Filed'
  BY <1>2 DEF IInv, Filed, Whole
<1>9. \A r \in Reads : Had(r)' <=> Had(r)
  BY <1>2 DEF Had
<1>10. Progress'
  <2>1. \A r \in Reads : r # Read /\ Kept(r) => Kept(r)'
    BY <1>2, <1>5, KeptStays DEF Whole
  <2>2. \A r \in Reads : Had(r)' => /\ r < attempted' /\ Kept(r)' /\ sent'[r] = 1
                                    /\ observations'[r].started <= previous'
    BY <1>2, <1>3, <1>5, <1>9, <2>1 DEF IInv, Progress
  <2>3. /\ \A r \in Reads : r + 1 < attempted' => Had(r)'
        /\ \A r \in Reads : sent'[r] = 1 => r < attempted'
    BY <1>2, <1>3, <1>5, <1>9 DEF IInv, Progress
  <2>4. \A r \in 1..Planned : Had(r)' => observations'[r - 1].started < observations'[r].started
    <3>1. 1..Planned \subseteq Reads
      BY <1>3 DEF Reads
    <3> QED BY <1>2, <1>9, <3>1 DEF IInv, Progress
  <2> QED BY <2>2, <2>3, <2>4 DEF Progress
<1>11. Placed(p)'
  <2>1. During(p)'
    <3>1. Read' = Read
      BY <1>2 DEF Read
    <3> QED BY <1>2, <1>3, <1>5, <1>6, <1>9, <3>1 DEF Placed, During
  <2>2. Between(p)' /\ Judged(p)' /\ Turned(p)'
    BY <1>6 DEF Between, Judged, Turned
  <2>3. Open(p)'
    BY <1>2, <1>3, <1>6 DEF Placed, Open, Whole, Reading
  <2> QED BY <2>1, <2>2, <2>3 DEF Placed
<1>12. Concluded'
  <2>1. ~Whole(IndexFile)' /\ status' = "none"
    BY <1>2, <1>3 DEF Placed, Open, Whole, Reading
  <2> QED BY <1>3, <1>6, <2>1, NotConcluded
<1> QED BY <1>6, <1>7, <1>8, <1>10, <1>11, <1>12 DEF IInv

\* A step of a read that touches nothing of the earlier ones.
LEMMA DuringStep ==
    ASSUME IInv, NEW p \in Captures, pc[p] \in {"judge", "record"}, TypeOK', Filed',
           NEW w \in {"record", "observation"}, pc' = [pc EXCEPT ![p] = w],
           \A f \in Names : Whole(f) => Whole(f)', Whole(IndexFile)' => Whole(IndexFile),
           Judged(p)',
           UNCHANGED <<exists, observations, index, sent, answer, clients, attempted, previous,
                       records, verified, cause, status>>
    PROVE  IInv'
<1>1. /\ Read \in Reads /\ Planned \in Nat /\ Placed(p) /\ pc[p] \in Acting
  BY DuringFacts
<1>2. /\ exists /\ Sole' /\ pc'[p] = w
      /\ \A q \in Captures : q # p => pc'[q] = pc[q] /\ pc[q] \notin Acting
      /\ Placed(p)' => \A q \in Captures : Placed(q)'
  BY <1>1, SoleStep DEF Acting, Reading
<1>3. Progress'
  <2>1. \A r \in Reads : Kept(r) => Kept(r)'
    BY KeptStays
  <2> QED BY <2>1 DEF IInv, Progress, Had
<1>4. Placed(p)'
  <2>1. During(p)'
    BY <1>1, <1>2 DEF Placed, During, Read, Had
  <2>2. Between(p)' /\ Turned(p)'
    BY <1>2 DEF Between, Turned
  <2>3. Open(p)'
    <3>1. pc[p] \in Reading \ {"plan"} /\ pc'[p] \in Reading \ {"plan"}
      BY <1>2 DEF Reading
    <3>2. Whole(PlanFile)' /\ ~Whole(IndexFile)' /\ status' = "none" /\ cause' = "none"
      BY <1>1, <3>1, FileNames DEF Placed, Open
    <3> QED BY <3>2 DEF Open
  <2> QED BY <2>1, <2>2, <2>3 DEF Placed
<1>5. Concluded'
  <2>1. ~Whole(IndexFile)' /\ status' = "none"
    BY <1>1 DEF Placed, Open, Reading
  <2> QED BY <1>1, <1>2, <2>1, NotConcluded
<1> QED BY <1>2, <1>3, <1>4, <1>5 DEF IInv

\* The answer is judged against the plan and the clocks.
LEMMA JudgeStep ==
    ASSUME IInv, NEW p \in Captures, Judge(p)
    PROVE  IInv'
<1>1. PICK received \in 0..LastMoment, timed \in BOOLEAN :
         /\ now' = [outcome |-> IF answer[Read] = "error" THEN "READ_FAILED"
                                ELSE IF Accepted(answer[Read], received, timed)
                                     THEN "ACCEPTED" ELSE "REJECTED",
                    record |-> FALSE, started |-> previous, received |-> received]
         /\ Goto(p, IF Accepted(answer[Read], received, timed) /\ Read # 0
                    THEN "record" ELSE "observation")
  BY DEF Judge
<1>2. /\ pc[p] = "judge"
      /\ UNCHANGED <<exists, disk, observations, index, sent, answer, clients, attempted, previous,
                     records, verified, files, failures, cause, status>>
  BY DEF Judge, world, progress, publisher, verdict
<1> PICK accepted : accepted = Accepted(answer[Read], received, timed)
  OBVIOUS
<1>3. /\ accepted => answer[Read] = "bound" /\ previous <= received
      /\ now'.outcome \in {"ACCEPTED", "READ_FAILED", "REJECTED"}
      /\ now'.outcome = "ACCEPTED" => accepted
      /\ now'.record = FALSE /\ now'.started = previous /\ now'.received = received
      /\ now' \in Observation
  <2>1. accepted => answer[Read] = "bound" /\ previous <= received
    BY PlannedAssumption DEF Accepted, IInv, TypeOK
  <2>2. previous \in 0..LastMoment
    BY DEF IInv, TypeOK
  <2> QED BY <1>1, <2>1, <2>2 DEF Observation
<1> PICK w : w = IF accepted /\ Read # 0 THEN "record" ELSE "observation"
  OBVIOUS
<1>4. /\ w \in {"record", "observation"} /\ pc' = [pc EXCEPT ![p] = w]
      /\ w = "record" => accepted /\ Read # 0
      /\ w = "observation" /\ accepted => Read = 0
  BY <1>1 DEF Goto
<1>5. w = "record" => now'.outcome = "ACCEPTED"
  BY <1>1, <1>3, <1>4
<1>6. pc'[p] = w /\ Read' = Read
  BY <1>2, <1>4 DEF IInv, TypeOK, Read
<1>7. TypeOK'
  <2>1. pc' \in [Captures -> {"start", "index", "report"} \cup Reading \cup Ended]
    BY <1>4 DEF IInv, TypeOK, Reading
  <2> QED BY <1>2, <1>3, <2>1 DEF IInv, TypeOK
<1>8. Filed' /\ (\A f \in Names : Whole(f) => Whole(f)') /\ (Whole(IndexFile)' => Whole(IndexFile))
  BY <1>2 DEF IInv, Filed, Whole
<1>9. Judged(p)'
  <2>1. now'.outcome = "ACCEPTED" => Sound'
    BY <1>2, <1>3, <1>6 DEF Sound
  <2> QED BY <1>3, <1>4, <1>5, <1>6, <2>1 DEF Judged
<1> QED BY <1>2, <1>4, <1>7, <1>8, <1>9, DuringStep

\* The record is published, or its failure is remembered in the outcome.
LEMMA WriteRecordStep ==
    ASSUME IInv, NEW p \in Captures, WriteRecord(p)
    PROVE  IInv'
<1> PICK name : name = RecordFile(Read)
  OBVIOUS
<1>1. PICK r \in Results(name) :
         /\ Publish(name, r)
         /\ now' = IF r.ok THEN [now EXCEPT !.record = TRUE]
                   ELSE [now EXCEPT !.outcome = "PUBLICATION_FAILED"]
  BY DEF WriteRecord
<1>2. /\ pc[p] = "record" /\ pc' = [pc EXCEPT ![p] = "observation"]
      /\ UNCHANGED <<exists, observations, index, sent, answer, clients, attempted, previous,
                     records, verified, cause, status>>
  BY DEF WriteRecord, Goto, progress, verdict
<1>3. Judged(p) /\ Read \in 1..Planned
  BY <1>2, DuringFacts DEF Placed, Judged
<1>4. /\ Read # 0 /\ now.outcome = "ACCEPTED" /\ ~now.record /\ Sound
      /\ name \in Names /\ name # IndexFile
  BY <1>2, <1>3, FileNames DEF Judged
<1>5. /\ disk' \in [Names -> {"none", "part", "whole", "alien"}]
      /\ files' \subseteq Names /\ failures' \subseteq Failure /\ Filed'
      /\ \A f \in Names : f # name => disk'[f] = disk[f]
      /\ \A f \in Names : Whole(f) => Whole(f)'
      /\ r.ok => Whole(name)'
  BY <1>1, <1>4, PublishStep DEF IInv
<1>6. /\ now' \in Observation /\ now'.started = now.started /\ now'.received = now.received
      /\ now'.outcome = "ACCEPTED" => r.ok /\ now'.record = TRUE
  <2>1. now \in Observation
    BY DEF IInv, TypeOK
  <2> QED BY <1>1, <1>4, <2>1 DEF Observation
<1>7. pc'[p] = "observation" /\ Read' = Read
  BY <1>2 DEF IInv, TypeOK, Read
<1>8. TypeOK'
  <2>1. pc' \in [Captures -> {"start", "index", "report"} \cup Reading \cup Ended]
    BY <1>2 DEF IInv, TypeOK, Reading
  <2> QED BY <1>2, <1>5, <1>6, <2>1 DEF IInv, TypeOK
<1>9. Judged(p)'
  <2>1. now'.outcome = "ACCEPTED" => Whole(RecordFile(Read))'
    <3>1. name = RecordFile(Read')
      BY <1>7
    <3> QED BY <1>5, <1>6, <3>1 DEF Whole
  <2>2. Sound'
    BY <1>2, <1>4, <1>6, <1>7 DEF Sound
  <2> QED BY <1>4, <1>6, <1>7, <2>1, <2>2 DEF Judged
<1>10. Whole(IndexFile)' => Whole(IndexFile)
  BY <1>4, <1>5, FileNames DEF Whole
<1> QED BY <1>2, <1>5, <1>8, <1>9, <1>10, DuringStep

\* The observation is published: the read is had in full, or the capture turns
\* to its index with the read noted there.
LEMMA WriteObservationStep ==
    ASSUME IInv, NEW p \in Captures, WriteObservation(p)
    PROVE  IInv'
<1> PICK name : name = ObservationFile(Read)
  OBVIOUS
<1> PICK n : n = Read
  OBVIOUS
<1>1. PICK r \in Results(name) :
         /\ Publish(name, r)
         /\ observations' = IF r.opened /\ r.left = "whole"
                            THEN [observations EXCEPT ![n] = now] ELSE observations
         /\ cause' = IF Broken(r) THEN "publication"
                     ELSE IF now.outcome \in {"REJECTED", "READ_FAILED"} THEN "stop" ELSE cause
         /\ IF cause' = "none"
            THEN /\ records' = IF Appended THEN records \cup {n} ELSE records
                 /\ verified' = TRUE
                 /\ Goto(p, IF n = Planned THEN "index" ELSE "client")
            ELSE UNCHANGED <<records, verified>> /\ Goto(p, "index")
  BY DEF WriteObservation
<1>2. /\ pc[p] = "observation"
      /\ UNCHANGED <<exists, index, sent, answer, clients, attempted, previous, now, status>>
  BY DEF WriteObservation
<1>3. /\ n \in Reads /\ attempted = n + 1 /\ ~Had(n) /\ Planned \notin records
      /\ \A s \in Reads : Had(s) <=> s < n
      /\ \A s \in Reads : s # n /\ sent[s] = 1 => s < n
      /\ Planned \in Nat /\ Reads \subseteq Nat /\ Placed(p) /\ pc[p] \in Acting
      /\ n # 0 => n \in 1..Planned
  BY <1>2, DuringFacts
<1>4. /\ name \in Names /\ name # IndexFile /\ Reads = 0..Planned /\ n <= Planned
  BY <1>3, FileNames DEF Reads
<1>5. /\ disk' \in [Names -> {"none", "part", "whole", "alien"}]
      /\ files' \subseteq Names /\ failures' \subseteq Failure /\ Filed'
      /\ \A f \in Names : f # name => disk'[f] = disk[f]
      /\ \A f \in Names : Whole(f) => Whole(f)'
      /\ r.ok => Whole(name)' /\ r.opened /\ r.left = "whole"
      /\ name \in files' \/ \E f \in failures' : f.name = name
      /\ r.ok \in BOOLEAN
  BY <1>1, <1>4, PublishStep DEF IInv
<1>6. /\ observations' \in [Reads -> Observation]
      /\ \A s \in Reads : s # n => observations'[s] = observations[s]
      /\ r.ok => observations'[n] = now
  BY <1>1, <1>3, <1>5 DEF IInv, TypeOK
<1> PICK w : w = IF cause' = "none" THEN IF n = Planned THEN "index" ELSE "client" ELSE "index"
  OBVIOUS
<1>7. /\ w \in {"client", "index"} /\ pc' = [pc EXCEPT ![p] = w]
      /\ w = "client" => cause' = "none" /\ n # Planned
      /\ w = "index" /\ cause' = "none" => n = Planned
  BY <1>1 DEF Goto
<1>8. /\ exists /\ Sole' /\ pc'[p] = w
      /\ \A q \in Captures : q # p => pc'[q] = pc[q] /\ pc[q] \notin Acting
      /\ Placed(p)' => \A q \in Captures : Placed(q)'
  BY <1>2, <1>3, <1>7, SoleStep DEF Acting, Reading
<1>9. cause = "none" /\ Whole(PlanFile) /\ ~Whole(IndexFile) /\ status = "none"
  BY <1>2, <1>3 DEF Placed, Open, Reading
<1>10. /\ cause' \in {"none", "stop", "publication"}
       /\ cause' = "none" => r.ok /\ now.outcome = "ACCEPTED"
  <2>1. now.outcome \in {"ACCEPTED", "READ_FAILED", "REJECTED", "PUBLICATION_FAILED"}
    BY DEF IInv, TypeOK, Observation
  <2> QED BY <1>1, <1>5, <1>9, <2>1 DEF Broken
<1>11. cause' = "none" =>
          /\ answer[n] = "bound" /\ now.started = previous /\ previous <= now.received
          /\ now.record = (n # 0) /\ (n # 0 => Whole(RecordFile(n)))
  <2>1. Judged(p)
    BY <1>3 DEF Placed
  <2> QED BY <1>2, <1>10, <2>1 DEF Judged, Sound
<1>12. /\ cause' # "none" => UNCHANGED <<records, verified>>
       /\ cause' = "none" => /\ verified' = TRUE
                             /\ records' = IF n # 0 THEN records \cup {n} ELSE records
  BY <1>1, <1>11 DEF Appended
<1>13. \A s \in Reads : Had(s)' <=> Had(s) \/ (cause' = "none" /\ s = n)
  <2>1. CASE cause' # "none"
    BY <1>12, <2>1 DEF Had
  <2>2. CASE cause' = "none"
    <3>1. n # 0 => verified
      BY <1>3, <1>4 DEF Had
    <3> QED BY <1>3, <1>12, <2>2, <3>1 DEF Had
  <2> QED BY <2>1, <2>2
<1>14. TypeOK'
  <2>1. pc' \in [Captures -> {"start", "index", "report"} \cup Reading \cup Ended]
    BY <1>7 DEF IInv, TypeOK, Reading
  <2>2. records' \subseteq Reads \ {0} /\ verified' \in BOOLEAN
    BY <1>3, <1>12 DEF IInv, TypeOK
  <2> QED BY <1>2, <1>5, <1>6, <1>10, <2>1, <2>2 DEF IInv, TypeOK
<1>15. \A s \in Reads : s # n /\ Kept(s) => Kept(s)'
  BY <1>2, <1>5, <1>6, KeptStays
<1>16. cause' = "none" => Kept(n)' /\ observations'[n].started = previous
  <2> SUFFICES ASSUME cause' = "none" PROVE Kept(n)' /\ observations'[n].started = previous
    OBVIOUS
  <2>1. /\ observations'[n] = now /\ now.outcome = "ACCEPTED" /\ disk'[name] = "whole"
        /\ name = ObservationFile(n)
    BY <1>5, <1>6, <1>10 DEF Whole
  <2>2. n # 0 => Whole(RecordFile(n))'
    BY <1>3, <1>5, <1>11, FileNames
  <2> QED BY <1>2, <1>11, <2>1, <2>2 DEF Kept, Whole
<1>17. Progress'
  <2>1. /\ previous \in Nat /\ sent[n] = 1
        /\ \A s \in Reads : Had(s) => observations[s].started < previous
    BY <1>2, <1>3 DEF Placed, During, IInv, TypeOK
  <2>2. ASSUME NEW s \in Reads, Had(s)'
        PROVE  /\ s < attempted' /\ Kept(s)' /\ sent'[s] = 1
               /\ observations'[s].started <= previous'
    <3>1. CASE s = n
      BY <1>2, <1>3, <1>13, <1>16, <2>1, <2>2, <3>1
    <3>2. CASE s # n
      <4>1. Had(s) /\ Kept(s)
        BY <1>13, <2>2, <3>2 DEF IInv, Progress
      <4> QED BY <1>2, <1>6, <1>15, <3>2, <4>1 DEF IInv, Progress
    <3> QED BY <3>1, <3>2
  <2>3. /\ \A s \in Reads : s + 1 < attempted' => Had(s)'
        /\ \A s \in Reads : sent'[s] = 1 => s < attempted'
    BY <1>2, <1>13 DEF IInv, Progress
  <2>4. ASSUME NEW s \in 1..Planned, Had(s)'
        PROVE  observations'[s - 1].started < observations'[s].started
    <3>1. s \in Reads /\ s - 1 \in Reads /\ s - 1 # s
      BY <1>3, <1>4
    <3>2. CASE s = n
      <4>1. cause' = "none" /\ Had(s - 1) /\ s - 1 # n
        BY <1>3, <1>13, <2>4, <3>1, <3>2
      <4> QED BY <1>6, <1>16, <2>1, <3>1, <3>2, <4>1
    <3>3. CASE s # n
      <4>1. Had(s) /\ s - 1 # n
        BY <1>3, <1>13, <2>4, <3>1, <3>3
      <4> QED BY <1>6, <3>1, <3>3, <4>1 DEF IInv, Progress
    <3> QED BY <3>2, <3>3
  <2> QED BY <2>2, <2>3, <2>4 DEF Progress
<1>18. \A s \in Reads : sent[s] = 1 => Noted(s)'
  <2> SUFFICES ASSUME NEW s \in Reads, sent[s] = 1 PROVE Noted(s)'
    OBVIOUS
  <2>1. CASE s = n
    BY <1>5, <2>1 DEF Noted
  <2>2. CASE s # n
    <3>1. Had(s)
      BY <1>3, <2>2
    <3>2. Whole(ObservationFile(s)) /\ ObservationFile(s) \in Names
      BY <3>1, FileNames DEF IInv, Progress, Kept
    <3>3. disk'[ObservationFile(s)] = "whole"
      BY <1>5, <3>2 DEF Whole
    <3> QED BY <1>5, <3>2, <3>3 DEF Filed, Noted
  <2> QED BY <2>1, <2>2
<1>19. Placed(p)'
  <2>1. Between(p)'
    <3>1. ASSUME w = "client" PROVE attempted <= Planned /\ \A s \in Reads : s < attempted => Had(s)'
      BY <1>3, <1>4, <1>7, <1>13, <3>1
    <3> QED BY <1>2, <1>7, <1>8, <3>1 DEF Between
  <2>2. During(p)' /\ Judged(p)'
    BY <1>7, <1>8 DEF During, Judged
  <2>3. Turned(p)'
    <3>1. cause' = "none" /\ w = "index" => \A s \in Reads : Had(s)'
      BY <1>3, <1>4, <1>7, <1>13
    <3>2. cause' # "none" => Planned \notin records'
      BY <1>3, <1>12
    <3> QED BY <1>2, <1>5, <1>8, <1>9, <1>18, <3>1, <3>2, FileNames DEF Turned
  <2>4. Open(p)'
    BY <1>2, <1>4, <1>5, <1>7, <1>8, <1>9, FileNames DEF Open, Whole, Reading
  <2> QED BY <2>1, <2>2, <2>3, <2>4 DEF Placed
<1>20. Concluded'
  <2>1. ~Whole(IndexFile)' /\ status' = "none"
    BY <1>2, <1>4, <1>5, <1>9, FileNames DEF Whole
  <2> QED BY <1>3, <1>7, <1>8, <2>1, NotConcluded
<1> QED BY <1>5, <1>8, <1>14, <1>17, <1>19, <1>20 DEF IInv
-----------------------------------------------------------------------------
(* The end *)

\* The index says what the capture came to, and so does the status.
LEMMA WriteIndexStep ==
    ASSUME IInv, NEW p \in Captures, WriteIndex(p)
    PROVE  IInv'
<1>1. PICK r \in Results(IndexFile) :
         /\ Publish(IndexFile, r)
         /\ index' = IF r.opened /\ r.left = "whole"
                     THEN [status |-> Status, files |-> files, failures |-> failures,
                           records |-> records, verified |-> verified, attempted |-> attempted]
                     ELSE index
         /\ status' = Returned(r)
  BY DEF WriteIndex
<1>2. /\ pc[p] = "index" /\ pc' = [pc EXCEPT ![p] = "report"]
      /\ UNCHANGED <<exists, observations, sent, answer, clients, attempted, previous, records,
                     verified, now, cause>>
  BY DEF WriteIndex, Goto, progress
<1>3. /\ disk' \in [Names -> {"none", "part", "whole", "alien"}]
      /\ files' \subseteq Names /\ failures' \subseteq Failure /\ Filed'
      /\ \A f \in Names : f # IndexFile => disk'[f] = disk[f]
      /\ \A f \in Names : Whole(f) => Whole(f)'
      /\ r.ok => Whole(IndexFile)' /\ r.opened /\ r.left = "whole"
      /\ Whole(IndexFile)' => Whole(IndexFile) \/ (r.opened /\ r.left = "whole")
      /\ r.ok \in BOOLEAN
  BY <1>1, PublishStep, FileNames DEF IInv
<1>4. /\ exists /\ Sole' /\ pc'[p] = "report"
      /\ \A q \in Captures : q # p => pc'[q] = pc[q] /\ pc[q] \notin Acting
      /\ Placed(p)' => \A q \in Captures : Placed(q)'
  BY <1>2, SoleStep DEF Acting
<1>5. Placed(p)
  BY DEF IInv
<1>6. /\ ~Whole(IndexFile)
      /\ cause = "none" => Whole(PlanFile) /\ \A s \in Reads : Had(s)
      /\ cause # "none" => Planned \notin records
      /\ \A s \in Reads : sent[s] = 1 => Noted(s)
  BY <1>2, <1>5 DEF Placed, Turned, Open
<1>7. /\ Status \in {"COMPLETE", "STOPPED", "INTERRUPTED"}
      /\ Status = "COMPLETE" <=> cause = "none"
  BY DEF Status, IInv, TypeOK
<1>8. TypeOK'
  <2>1. pc' \in [Captures -> {"start", "index", "report"} \cup Reading \cup Ended]
    BY <1>2 DEF IInv, TypeOK
  <2>2. index' \in Index
    BY <1>1, <1>7 DEF IInv, TypeOK, Index
  <2>3. status' \in {"none", "COMPLETE", "STOPPED", "INTERRUPTED", "INTERRUPTED_UNINDEXED"}
    BY <1>1, <1>7 DEF Returned
  <2> QED BY <1>2, <1>3, <2>1, <2>2, <2>3 DEF IInv, TypeOK
<1>9. \A s \in Reads : Kept(s) => Kept(s)'
  BY <1>2, <1>3, KeptStays
<1>10. Progress'
  BY <1>2, <1>9 DEF IInv, Progress, Had
<1>11. Placed(p)'
  BY <1>4 DEF Placed, Between, During, Judged, Turned, Open, Reading
<1>12. records = 1..Planned <=> cause = "none"
  <2>1. CASE cause = "none"
    <3>1. \A s \in Reads : s # 0 => s \in records
      BY <1>6, <2>1 DEF Had
    <3>2. 1..Planned = Reads \ {0}
      BY PlannedAssumption DEF Reads
    <3> QED BY <2>1, <3>1, <3>2 DEF IInv, TypeOK
  <2>2. CASE cause # "none"
    <3>1. Planned \in 1..Planned
      BY PlannedAssumption
    <3> QED BY <1>6, <2>2, <3>1
  <2> QED BY <2>1, <2>2
<1>13. IndexTruthful'
  <2> SUFFICES ASSUME Whole(IndexFile)' PROVE IndexTruthful'
    BY DEF IndexTruthful
  <2>1. /\ index'.status = Status /\ index'.files = files /\ index'.failures = failures
        /\ index'.records = records
    BY <1>1, <1>3, <1>6
  <2>2. \A f \in index'.files : Whole(f)'
    BY <1>3, <2>1 DEF IInv, Filed, TypeOK
  <2>3. \A s \in index'.records : Kept(s)'
    <3>1. \A s \in records : s \in Reads /\ Had(s)
      BY DEF IInv, TypeOK, Had
    <3> QED BY <1>9, <2>1, <3>1 DEF IInv, Progress
  <2>4. index'.status = "COMPLETE" <=> index'.records = 1..Planned
    BY <1>7, <1>12, <2>1
  <2>5. \A f \in Names \ {IndexFile} : disk'[f] \in {"part", "whole"} =>
           f \in index'.files \/ [name |-> f, opened |-> TRUE] \in index'.failures
    BY <1>3, <2>1 DEF IInv, Filed
  <2>6. \A s \in Reads : sent'[s] = 1 =>
           \/ ObservationFile(s) \in index'.files
           \/ \E f \in index'.failures : f.name = ObservationFile(s)
    BY <1>2, <1>6, <2>1 DEF Noted
  <2> QED BY <2>2, <2>3, <2>4, <2>5, <2>6 DEF IndexTruthful
<1>14. Concluded'
  <2>1. ASSUME status' \in {"COMPLETE", "STOPPED", "INTERRUPTED"}
        PROVE  Whole(IndexFile)' /\ index'.status = status' /\ status' = Status
    <3>1. r.ok
      BY <1>1, <2>1 DEF Returned
    <3> QED BY <1>1, <1>3, <3>1 DEF Returned
  <2>2. status' = "COMPLETE" => Whole(PlanFile)' /\ \A s \in Reads : Kept(s)'
    <3> SUFFICES ASSUME status' = "COMPLETE" PROVE Whole(PlanFile)' /\ \A s \in Reads : Kept(s)'
      OBVIOUS
    <3>1. cause = "none"
      BY <1>7, <2>1
    <3> QED BY <1>3, <1>6, <1>9, <3>1, FileNames DEF IInv, Progress
  <2>3. \A q \in Captures : pc'[q] # "exit0"
    BY <1>4 DEF Acting
  <2> QED BY <1>13, <2>1, <2>2, <2>3 DEF Concluded
<1> QED BY <1>3, <1>4, <1>8, <1>10, <1>11, <1>14 DEF IInv
-----------------------------------------------------------------------------
(* The invariant, and the properties *)

\* Nobody has begun, and nothing is there.
LEMMA Initially == Init => IInv
<1> SUFFICES ASSUME Init PROVE IInv
  OBVIOUS
<1> USE PlannedAssumption
<1>1. TypeOK
  <2>1. Nothing \in Observation /\ Unwritten \in Index
    BY DEF Nothing, Observation, Unwritten, Index
  <2>2. pc \in [Captures -> {"start", "index", "report"} \cup Reading \cup Ended]
    BY DEF Init
  <2>3. /\ disk \in [Names -> {"none", "part", "whole", "alien"}]
        /\ observations \in [Reads -> Observation] /\ sent \in [Reads -> 0..1]
        /\ answer \in [Reads -> Answers]
    BY <2>1 DEF Init, Answers
  <2>4. /\ 0 \in 0..Planned + 1 /\ 0 \in 0..LastMoment /\ {} \subseteq {"sts", "lambda"}
        /\ {} \subseteq Names /\ {} \subseteq Failure /\ {} \subseteq Reads \ {0}
    OBVIOUS
  <2> QED BY <2>1, <2>2, <2>3, <2>4 DEF Init, TypeOK
<1>2. Sole
  BY DEF Init, Sole, Acting, Reading
<1>3. Filed /\ Progress
  BY DEF Init, Filed, Progress, Had, Whole, Reads
<1>4. \A p \in Captures : Placed(p)
  BY DEF Init, Placed, Between, During, Judged, Turned, Open, Reading
<1>5. Concluded
  BY FileNames DEF Init, Concluded, IndexTruthful, Whole
<1> QED BY <1>1, <1>2, <1>3, <1>4, <1>5 DEF IInv

\* Every step keeps it.
LEMMA Inductive == IInv /\ [Next]_vars => IInv'
<1> SUFFICES ASSUME IInv, [Next]_vars PROVE IInv'
  OBVIOUS
<1>1. ASSUME NEW p \in Captures, Observe(p) PROVE IInv'
  BY <1>1, ClientStep, ReadClocksStep, CallStep, JudgeStep, WriteRecordStep,
     WriteObservationStep DEF Observe
<1>2. ASSUME NEW p \in Captures, Reject(p) \/ Claim(p) \/ WritePlan(p) PROVE IInv'
  BY <1>2, LeaveStep, ClaimStep, WritePlanStep
<1>3. ASSUME NEW p \in Captures, WriteIndex(p) \/ Report(p) \/ Die(p) PROVE IInv'
  BY <1>3, WriteIndexStep, LeaveStep
<1>4. CASE Intrude
  BY <1>4, IntrudeStep
<1>5. CASE UNCHANGED vars
  <2>1. UNCHANGED <<exists, disk, observations, index, sent, answer, clients, attempted, previous,
                    records, verified, files, failures, now, cause, status, pc>>
    BY <1>5 DEF vars, world, progress, publisher, verdict
  <2>2. TypeOK' /\ Sole' /\ Filed' /\ Progress'
    BY <2>1 DEF IInv, TypeOK, Sole, Filed, Progress, Had, Kept, Whole
  <2>3. \A p \in Captures : Between(p)' /\ During(p)' /\ Judged(p)'
    BY <2>1 DEF IInv, Placed, Between, During, Judged, Had, Read, Sound, Whole
  <2>4. \A p \in Captures : Turned(p)' /\ Open(p)'
    BY <2>1 DEF IInv, Placed, Turned, Open, Had, Whole, Noted
  <2>5. Concluded'
    BY <2>1 DEF IInv, Concluded, IndexTruthful, Whole, Kept
  <2> QED BY <2>2, <2>3, <2>4, <2>5 DEF IInv, Placed
<1> QED BY <1>1, <1>2, <1>3, <1>4, <1>5 DEF Next

\* So every reachable state satisfies it.
LEMMA Always == Spec => []IInv
BY Initially, Inductive, PTL DEF Spec

\* scripts/jev_release_observation_capture.py: a read leaves only when each
\* earlier one was answered as planned and is on disk in full, in the order of
\* its timestamps, for a plan of any length.
THEOREM EarlierKeptHolds == Spec => []EarlierKept
<1>1. IInv => EarlierKept
  <2> SUFFICES ASSUME IInv, NEW r \in Reads, sent[r] = 1, NEW q \in 0..r - 1
               PROVE  /\ Kept(q)
                      /\ q + 1 < r => observations[q].started < observations[q + 1].started
    BY DEF IInv, EarlierKept
  <2>1. r \in Nat /\ r <= Planned /\ r < attempted /\ Planned \in Nat /\ attempted \in Nat
    BY PlannedAssumption DEF IInv, Progress, TypeOK, Reads
  <2>2. q \in Reads /\ q + 1 < attempted /\ (q + 1 < r => q + 1 \in 1..Planned /\ q + 1 \in Reads
                                                       /\ (q + 1) + 1 < attempted /\ (q + 1) - 1 = q)
    BY <2>1 DEF Reads
  <2>3. Had(q) /\ (q + 1 < r => Had(q + 1))
    BY <2>2 DEF IInv, Progress
  <2>4. Kept(q)
    BY <2>2, <2>3 DEF IInv, Progress
  <2>5. ASSUME q + 1 < r PROVE observations[q].started < observations[q + 1].started
    <3> PICK s : s = q + 1
      OBVIOUS
    <3>1. s \in 1..Planned /\ Had(s) /\ s - 1 = q
      BY <2>2, <2>3, <2>5
    <3>2. observations[s - 1].started < observations[s].started
      BY <3>1 DEF IInv, Progress
    <3> QED BY <3>1, <3>2
  <2> QED BY <2>4, <2>5
<1> QED BY <1>1, Always, PTL

\* The index, the returned status and exit 0 say what is on disk: a listed file
\* is whole, a call or a partial file never goes unlisted, and success is the
\* whole plan, read and kept.
THEOREM ReportTrueHolds == Spec => []ReportTrue
<1>1. IInv => ReportTrue
  BY DEF IInv, Concluded, ReportTrue
<1> QED BY <1>1, Always, PTL

\* A step is a read that leaves, the end, or nothing to the chain.
LEMMA ChainStep == IInv /\ [Next]_vars => [Chain!Next]_<<sent, ended>>
<1> SUFFICES ASSUME IInv, [Next]_vars PROVE [Chain!Next]_<<sent, ended>>
  OBVIOUS
<1>1. ASSUME NEW p \in Captures, Call(p) PROVE Chain!Next
  <2> PICK n : n = Read
    OBVIOUS
  <2>1. pc[p] = "call" /\ pc' = [pc EXCEPT ![p] = "judge"] /\ sent' = [sent EXCEPT ![n] = @ + 1]
    BY <1>1 DEF Call, Goto
  <2>2. n \in Reads /\ sent[n] = 0 /\ \A s \in Reads : s < n => sent[s] = 1
    <3>1. /\ Read \in Reads /\ Placed(p) /\ \A r \in Reads : Had(r) <=> r < Read
      BY <2>1, DuringFacts
    <3> QED BY <2>1, <3>1 DEF Placed, During, IInv, Progress
  <2>3. sent' = [sent EXCEPT ![n] = 1]
    BY <2>1, <2>2 DEF IInv, TypeOK
  <2>4. pc'[p] = "judge"
    BY <2>1 DEF IInv, TypeOK
  <2>5. ~ended /\ ~ended'
    BY <2>1, <2>4 DEF ended, Reading
  <2>6. \A s \in Reads : [r \in Reads |-> r][s] < [r \in Reads |-> r][n] => sent[s] = 1
    BY <2>2
  <2>7. Chain!Deliver(n)
    <3>1. ended = FALSE /\ ended' = FALSE
      BY <2>5 DEF ended
    <3> QED BY <2>2, <2>3, <2>6, <3>1 DEF Chain!Deliver
  <2> QED BY <2>2, <2>7 DEF Chain!Next
<1>2. ASSUME UNCHANGED sent PROVE [Chain!Next]_<<sent, ended>>
  <2>1. ended => ended'
    <3> SUFFICES ASSUME ended PROVE ended'
      OBVIOUS
    <3>1. exists /\ \A q \in Captures : pc[q] \notin Reading
      BY DEF ended
    <3>2. exists'
      BY <3>1 DEF Next, Reject, Claim, Claimable, WritePlan, Observe, Client, ReadClocks, Call, Judge,
         WriteRecord, WriteObservation, WriteIndex, Report, Die, Intrude, vars, world
    <3>3. ASSUME NEW q \in Captures, pc'[q] \in Reading PROVE FALSE
      <4>1. pc'[q] # pc[q]
        BY <3>1, <3>3
      <4>2. PICK p \in Captures : \/ WriteIndex(p) \/ Report(p) \/ Die(p) \/ Reject(p)
                                  \/ Claim(p) \/ WritePlan(p) \/ Observe(p)
        BY <4>1 DEF Next, Intrude, vars
      <4>3. WriteIndex(p) \/ Report(p) \/ Die(p) \/ Reject(p)
        BY <3>1, <4>2 DEF Claim, Claimable, WritePlan, Observe, Client, ReadClocks, Call, Judge,
           WriteRecord, WriteObservation, Reading
      <4>4. \E w \in {"report", "exit0", "exit1", "exit2", "exit3", "dead"} : pc' = [pc EXCEPT ![p] = w]
        BY <4>3 DEF WriteIndex, Report, Die, Reject, Goto
      <4> QED BY <3>1, <3>3, <4>4 DEF IInv, TypeOK, Reading
    <3> QED BY <3>2, <3>3 DEF ended
  <2>2. ended \in BOOLEAN /\ ended' \in BOOLEAN
    BY DEF ended, IInv, TypeOK
  <2> QED BY <1>2, <2>1, <2>2 DEF Chain!Next, Chain!End
<1>3. ASSUME ~\E p \in Captures : Call(p) PROVE UNCHANGED sent
  BY <1>3 DEF Next, Reject, Claim, WritePlan, Observe, Client, ReadClocks, Judge, WriteRecord,
     WriteObservation, WriteIndex, Report, Die, Intrude, vars, world
<1> QED BY <1>1, <1>2, <1>3

\* Each read leaves once at most, in the order of the plan, and none after the
\* capture has turned to its index, however often it is started again.
THEOREM ReadsAreOneShot == Spec => ImplementsReads
<1>1. Init => Chain!Init
  BY DEF Init, Chain!Init, ended
<1>2. IInv /\ [Next]_vars => [Chain!Next]_<<sent, ended>>
  BY ChainStep
<1> QED BY <1>1, <1>2, Always, PTL DEF Spec, ImplementsReads, Chain!Spec
=============================================================================
