------------------------- MODULE ObservationCapture -------------------------
(***************************************************************************)
(* scripts/jev_release_observation_capture.py: a capture claims an output  *)
(* directory, makes at most Planned + 1 reads, the account check (read 0)  *)
(* first, and leaves records, observations and an index of both.           *)
(*                                                                         *)
(* Every call, write and clock read may fail; a capture that is killed, or *)
(* leaves by an exception the code does not name, is "dead".  The host's   *)
(* clock shows any of Moments at any time, or nothing usable (0).          *)
(***************************************************************************)
EXTENDS Naturals

CONSTANTS Captures,   \* processes started with the same --out
          Planned,    \* the planned observations: reads 1..Planned
          LastMoment  \* bound: the moments the clock can show

ASSUME PlannedAssumption == Planned \in Nat \ {0} /\ LastMoment \in Nat \ {0}

VARIABLES
    \* the output directory and AWS
    exists, disk, observations, index, sent, answer,
    \* the capture that claimed the directory
    clients, attempted, previous, now, files, failures, records, verified,
    cause, status,
    \* every capture
    pc

world == <<exists, disk, observations, index, sent, answer>>
publisher == <<files, failures>>
progress == <<clients, attempted, previous, records, verified>>
verdict == <<cause, status>>
vars == <<world, progress, publisher, now, verdict, pc>>
-----------------------------------------------------------------------------
(* Shapes *)

Reads == 0..Planned
Moments == 1..LastMoment
PlanFile == <<"plan", 0>>
IndexFile == <<"index", 0>>
RecordFile(r) == <<"record", r>>
ObservationFile(r) == <<"observation", r>>
Names == {PlanFile, IndexFile} \cup {RecordFile(r) : r \in 1..Planned}
            \cup {ObservationFile(r) : r \in Reads}

Answers == {"none", "error", "unbound", "bound"}
Observation == [outcome : {"ACCEPTED", "READ_FAILED", "REJECTED", "PUBLICATION_FAILED"},
                record : BOOLEAN,
                started : 0..LastMoment, received : 0..LastMoment]
Failure == [name : Names, opened : BOOLEAN]
Index == [status : {"COMPLETE", "STOPPED", "INTERRUPTED"}, files : SUBSET Names,
          failures : SUBSET Failure, records : SUBSET Reads,
          verified : BOOLEAN, attempted : 0..Planned + 1]

Reading == {"plan", "client", "clocks", "call", "judge", "record", "observation"}
Ended == {"exit0", "exit1", "exit2", "exit3", "dead"}

Nothing == [outcome |-> "REJECTED", record |-> FALSE, started |-> 0, received |-> 0]
Unwritten == [status |-> "INTERRUPTED", files |-> {}, failures |-> {},
              records |-> {}, verified |-> FALSE, attempted |-> 0]

TypeOK ==
    /\ exists \in BOOLEAN
    /\ disk \in [Names -> {"none", "part", "whole", "alien"}]
    /\ observations \in [Reads -> Observation] /\ index \in Index
    /\ sent \in [Reads -> 0..1] /\ answer \in [Reads -> Answers]
    /\ clients \subseteq {"sts", "lambda"} /\ attempted \in 0..Planned + 1
    /\ previous \in 0..LastMoment /\ now \in Observation
    /\ files \subseteq Names /\ failures \subseteq Failure
    /\ records \subseteq Reads \ {0} /\ verified \in BOOLEAN
    /\ cause \in {"none", "stop", "publication"}
    /\ status \in {"none", "COMPLETE", "STOPPED", "INTERRUPTED", "INTERRUPTED_UNINDEXED"}
    /\ pc \in [Captures -> {"start", "index", "report"} \cup Reading \cup Ended]

Init ==
    /\ exists = FALSE /\ disk = [f \in Names |-> "none"]
    /\ observations = [r \in Reads |-> Nothing] /\ index = Unwritten
    /\ sent = [r \in Reads |-> 0] /\ answer = [r \in Reads |-> "none"]
    /\ clients = {} /\ attempted = 0 /\ previous = 0 /\ now = Nothing
    /\ files = {} /\ failures = {} /\ records = {} /\ verified = FALSE
    /\ cause = "none" /\ status = "none"
    /\ pc = [p \in Captures |-> "start"]

Goto(p, place) == pc' = [pc EXCEPT ![p] = place]
Read == attempted - 1        \* the read under way
Service == IF attempted = 0 THEN "sts" ELSE "lambda"
-----------------------------------------------------------------------------
(* Publisher *)

Listed(name, r) == IF r.ok THEN {name} ELSE {}

\* write_json and write_bytes: exclusive creation of a whole file, or a failure
\* before the open, at an existing file, or after it.
Results(name) ==
    LET free == disk[name] = "none" /\ name \notin files
    IN  {r \in [ok : BOOLEAN, opened : BOOLEAN, left : {"none", "part", "whole", "alien"}] :
           /\ r.ok => free /\ r.opened /\ r.left = "whole"
           /\ r.opened => free /\ r.left \in {"part", "whole"}
           /\ ~r.opened => r.left = disk[name]}

Publish(name, r) ==
    /\ disk' = [disk EXCEPT ![name] = r.left]
    /\ files' = files \cup Listed(name, r)
    /\ failures' = IF r.ok THEN failures
                   ELSE failures \cup {[name |-> name, opened |-> r.opened]}
-----------------------------------------------------------------------------
(* capture: claim_output and the plan's copy *)

\* Mutant: a directory that is there is used.
ClaimableAgain == TRUE

Claimable == ~exists

\* The plan and the path are refused, or the directory exists.
Reject(p) ==
    /\ pc[p] = "start" /\ Goto(p, "exit2")
    /\ UNCHANGED <<world, progress, publisher, now, verdict>>

Claim(p) ==
    /\ pc[p] = "start" /\ Claimable /\ Goto(p, "plan")
    /\ exists' = TRUE
    /\ clients' = {} /\ attempted' = 0 /\ previous' = 0 /\ now' = Nothing
    /\ files' = {} /\ failures' = {} /\ records' = {} /\ verified' = FALSE
    /\ cause' = "none" /\ status' = "none"
    /\ UNCHANGED <<disk, observations, index, sent, answer>>

WritePlan(p) ==
    /\ pc[p] = "plan"
    /\ \E r \in Results(PlanFile) :
          /\ Publish(PlanFile, r)
          /\ Goto(p, IF r.ok THEN "client" ELSE "index")
          /\ cause' = IF r.ok THEN cause ELSE "publication"
    /\ UNCHANGED <<exists, observations, index, sent, answer, progress, now, status>>
-----------------------------------------------------------------------------
(* Capture.observe *)

Stop(p) == Goto(p, "index") /\ cause' = "stop"

Client(p) ==
    /\ pc[p] = "client"
    /\ \/ /\ Goto(p, "clocks") /\ clients' = clients \cup {Service}
          /\ UNCHANGED cause
       \/ /\ Service \notin clients /\ Stop(p)
          /\ UNCHANGED clients
    /\ UNCHANGED <<world, attempted, previous, records, verified, publisher, now, status>>

\* The call limit and both clocks come before the call; a failure makes none.
ReadClocks(p) ==
    /\ pc[p] = "clocks"
    /\ \/ Stop(p) /\ UNCHANGED <<attempted, previous>>
       \/ \E t \in Moments :
             /\ attempted <= Planned /\ t > previous
             /\ attempted' = attempted + 1 /\ previous' = t
             /\ Goto(p, "call") /\ UNCHANGED cause
    /\ UNCHANGED <<world, clients, records, verified, publisher, now, status>>

Call(p) ==
    /\ pc[p] = "call" /\ Goto(p, "judge")
    /\ sent' = [sent EXCEPT ![Read] = @ + 1]
    /\ \E a \in Answers \ {"none"} : answer' = [answer EXCEPT ![Read] = a]
    /\ UNCHANGED <<exists, disk, observations, index, progress, publisher, now, verdict>>

\* An answer without error or retries that binds to the plan, and clocks that
\* did not run backwards (received is 0 if it is unusable, timed is FALSE if
\* the elapsed time is).
Accepted(a, received, timed) == a = "bound" /\ timed /\ received >= previous

Judge(p) ==
    /\ pc[p] = "judge"
    /\ \E received \in 0..LastMoment, timed \in BOOLEAN :
          LET a == answer[Read]
              accepted == Accepted(a, received, timed)
          IN  /\ now' = [outcome |-> IF a = "error" THEN "READ_FAILED"
                                     ELSE IF accepted THEN "ACCEPTED" ELSE "REJECTED",
                         record |-> FALSE, started |-> previous, received |-> received]
              /\ Goto(p, IF accepted /\ Read # 0 THEN "record" ELSE "observation")
    /\ UNCHANGED <<world, progress, publisher, verdict>>

\* The account check has no record.
Appended == now.record

\* A record that cannot be published does not keep its observation from being.
WriteRecord(p) ==
    /\ pc[p] = "record" /\ Goto(p, "observation")
    /\ \E r \in Results(RecordFile(Read)) :
          /\ Publish(RecordFile(Read), r)
          /\ now' = IF r.ok THEN [now EXCEPT !.record = TRUE]
                    ELSE [now EXCEPT !.outcome = "PUBLICATION_FAILED"]
    /\ UNCHANGED <<exists, observations, index, sent, answer, progress, verdict>>

\* Mutant: the failure of the record's publication is forgotten.
BrokenHere(r) == ~r.ok

Broken(r) == ~r.ok \/ now.outcome = "PUBLICATION_FAILED"

WriteObservation(p) ==
    /\ pc[p] = "observation"
    /\ \E r \in Results(ObservationFile(Read)) :
          /\ Publish(ObservationFile(Read), r)
          /\ observations' = IF r.opened /\ r.left = "whole"
                             THEN [observations EXCEPT ![Read] = now] ELSE observations
          /\ cause' = IF Broken(r) THEN "publication"
                      ELSE IF now.outcome \in {"REJECTED", "READ_FAILED"} THEN "stop"
                      ELSE cause
          /\ IF cause' = "none"
             THEN /\ records' = IF Appended THEN records \cup {Read} ELSE records
                  /\ verified' = TRUE
                  /\ Goto(p, IF Read = Planned THEN "index" ELSE "client")
             ELSE UNCHANGED <<records, verified>> /\ Goto(p, "index")
    /\ UNCHANGED <<exists, index, sent, answer, clients, attempted, previous, now, status>>
-----------------------------------------------------------------------------
(* capture: the index, the returned status and the exit *)

Status == CASE cause = "publication" -> "INTERRUPTED"
            [] cause = "stop" -> "STOPPED"
            [] cause = "none" -> "COMPLETE"

\* Mutant: the status is not taken back when the index cannot be written.
ReturnedBeforeIndex(r) == Status

Returned(r) == IF r.ok THEN Status ELSE "INTERRUPTED_UNINDEXED"

WriteIndex(p) ==
    /\ pc[p] = "index" /\ Goto(p, "report")
    /\ \E r \in Results(IndexFile) :
          /\ Publish(IndexFile, r)
          /\ index' = IF r.opened /\ r.left = "whole"
                      THEN [status |-> Status, files |-> files, failures |-> failures,
                            records |-> records, verified |-> verified,
                            attempted |-> attempted]
                      ELSE index
          /\ status' = Returned(r)
    /\ UNCHANGED <<exists, observations, sent, answer, progress, now, cause>>

\* main: exit 3 if the status cannot be put into words.
Report(p) ==
    /\ pc[p] = "report"
    /\ \E place \in {"exit3", IF status = "COMPLETE" THEN "exit0" ELSE "exit1"} :
          Goto(p, place)
    /\ UNCHANGED <<world, progress, publisher, now, verdict>>

\* A kill, or an exception that is not named.  What a write leaves when it is
\* cut short is what a failed write leaves.
Die(p) ==
    /\ pc[p] \notin Ended /\ Goto(p, "dead")
    /\ UNCHANGED <<world, progress, publisher, now, verdict>>

\* Somebody puts a file into the directory (bound: one).
Intrude ==
    /\ exists /\ \A f \in Names : disk[f] # "alien"
    /\ \E f \in Names : disk[f] = "none" /\ disk' = [disk EXCEPT ![f] = "alien"]
    /\ UNCHANGED <<exists, observations, index, sent, answer, progress, publisher,
                   now, verdict, pc>>

Observe(p) == \/ Client(p) \/ ReadClocks(p) \/ Call(p) \/ Judge(p)
              \/ WriteRecord(p) \/ WriteObservation(p)
Next ==
    \/ \E p \in Captures : \/ Reject(p) \/ Claim(p) \/ WritePlan(p) \/ Observe(p)
                           \/ WriteIndex(p) \/ Report(p) \/ Die(p)
    \/ Intrude

Spec == Init /\ [][Next]_vars
-----------------------------------------------------------------------------
(* Properties *)

Whole(f) == disk[f] = "whole"
Kept(r) == /\ Whole(ObservationFile(r)) /\ observations[r].outcome = "ACCEPTED"
           /\ observations[r].record = (r # 0) /\ answer[r] = "bound"
           /\ r # 0 => Whole(RecordFile(r))
           /\ observations[r].started <= observations[r].received

\* A read leaves only when every earlier one, the account check first, was
\* answered as planned and is on disk in full, in the order of its timestamps.
EarlierKept == TypeOK /\
    \A r \in Reads : sent[r] = 1 => \A q \in 0..r - 1 :
        /\ Kept(q)
        /\ q + 1 < r => observations[q].started < observations[q + 1].started

\* What stands in the index is there: listed files are whole, a record is
\* listed with its accepted observation only, COMPLETE means all of the plan.
\* What is there stands in the index: every file the capture may have left,
\* and every call it made, listed or named as failed.
IndexTruthful == Whole(IndexFile) =>
    /\ \A f \in index.files : Whole(f)
    /\ \A r \in index.records : Kept(r)
    /\ index.status = "COMPLETE" <=> index.records = 1..Planned
    /\ \A f \in Names \ {IndexFile} : disk[f] \in {"part", "whole"} =>
          f \in index.files \/ [name |-> f, opened |-> TRUE] \in index.failures
    /\ \A r \in Reads : sent[r] = 1 =>
          \/ ObservationFile(r) \in index.files
          \/ \E f \in index.failures : f.name = ObservationFile(r)

\* The status a caller gets is that of the index it can read, which is true,
\* unless it says that there is none; exit 0 is a complete capture on disk.
ReportTrue ==
    /\ IndexTruthful
    /\ status \in {"COMPLETE", "STOPPED", "INTERRUPTED"} =>
          Whole(IndexFile) /\ index.status = status
    /\ (\E p \in Captures : pc[p] = "exit0") =>
          /\ index.status = "COMPLETE" /\ Whole(PlanFile)
          /\ \A r \in Reads : Kept(r)

\* Each read leaves once at most, in the order of the plan, none after the
\* capture has turned to its index, whoever else is started with its output.
ended == exists /\ \A p \in Captures : pc[p] \notin Reading
Chain == INSTANCE OneShotChain WITH Stages <- Reads, Place <- [r \in Reads |-> r]
ImplementsReads == Chain!Spec
=============================================================================
