------------------------- MODULE RouterBenchProofs -------------------------
(***************************************************************************)
(* Proofs about RouterBench, for every frozen plan and error limit.        *)
(***************************************************************************)
EXTENDS RouterBench, FiniteSetTheorems, TLAPS

-----------------------------------------------------------------------------
(* The inductive invariant *)

Place ==
    /\ pc \in {"announce", "call", "settle", "record"} =>
          position \in Calls /\ errors[Router] < InfraLimit
    /\ pc = "announce" => Paid(position)
    /\ pc \in Before => position = 1 /\ executed = 0 /\ announced = {}
    /\ stopReason # "none" => pc \in {"record", "finish", "raised", "exited"} \cup After
    /\ pc = "finish" => stopReason # "none"

\* The call in hand is one of p.
InHand(p) == pc \in {"announce", "call", "settle"} /\ position \in Calls /\ Provider = p

\* What the ledger is going to take for the call in hand, or keeps for the one
\* an interrupt cut.
Due(p) == IF pc = "settle" /\ InHand(p) THEN Charged(p)
          ELSE IF pc = "raised" THEN account[p].reserved ELSE 0

Trusted(p) == HardCap(p) /\ (p = "bedrock" => plan.usageReported)

\* The account of p is not behind its bill.
Money(p) ==
    /\ account[p].reserved = IF Outstanding(p) THEN Reservation[p] ELSE 0
    /\ Exposure(p) <= CostCap[p] + (MaxCall[p] - Reservation[p])
    /\ InHand(p) => Exposure(p) <= CostCap[p]
    /\ account[p].committed > CostCap[p] => stopReason # "none"
    /\ pc = "settle" /\ InHand(p) => record.cost <= MaxCall[p]
    /\ Trusted(p) => billed[p] <= account[p].committed + Due(p)

\* The calls of a set that go to p, and the first n calls that are paid.
CallsOf(s, p, S) == {i \in S : ProviderOf(s[i]) = p}
PaidUpTo(s, n) == {i \in 1..n : ProviderOf(s[i]) # "none"}

\* The announced calls that were made.
Made == IF pc = "call" THEN announced \ {position} ELSE announced

\* No provider bills more than the most of every announced call.
Carried ==
    \A p \in Providers : billed[p] <= MaxCall[p] * Cardinality(CallsOf(Schedule, p, Made))

\* The journal is not behind the calls.
Covered ==
    /\ Carried
    /\ \A i \in announced : Paid(i) /\ i <= position
    /\ pc \in {"next", "announce"} => position \notin announced
    /\ pc \in {"call", "settle", "record"} /\ Paid(position) => position \in announced
    /\ announced \ recorded \subseteq {position}
    /\ pc \notin {"call", "settle", "record", "raised"} => announced \subseteq recorded
    /\ ending # "none" => pc \in After \cup {"exited", "raised"}
    /\ ending \in {"run_finished", "run_stopped"} => announced \subseteq recorded

\* The calls with a request reserved, and with an announcement if they are
\* paid, when none was passed over.
Begun == IF pc \in Before \cup {"next"} THEN position - 1 ELSE position
Told == IF pc \in Before \cup {"next", "announce"} THEN position - 1 ELSE position

Entire(reserved, told, written) ==
    /\ recorded = 1..written
    /\ announced = PaidUpTo(Schedule, told)
    /\ \A p \in Providers :
          account[p].requests = Cardinality(CallsOf(Schedule, p, 1..reserved))

\* As many records as calls are a record of every call.
Progress ==
    /\ pc \in Before \cup InLoop =>
          /\ executed <= IF pc = "record" THEN position ELSE position - 1
          /\ executed = (IF pc = "record" THEN position ELSE position - 1) =>
                Entire(Begun, Told, position - 1)
    /\ pc \in After \cup {"exited"} /\ Complete =>
          Entire(Len(Schedule), Len(Schedule), Len(Schedule))

\* What the output path holds, and what the exit code will say of it.
Output ==
    /\ pc \in {"start", "built"} => journal # "mine"
    /\ pc \in {"opened", "finish"} \cup InLoop \cup After => journal = "mine"
    /\ artifact \in {"full", "minimal"} => pc = "exited"
    /\ artifact \in {"torn", "full", "minimal"} => journal = "mine"
    /\ artifact = "full" => ~redacted /\ exit # 2
    /\ artifact = "minimal" => exit = 3 /\ journal = "mine"
    /\ pc \in After => ending = IF stopReason = "none" THEN "run_finished" ELSE "run_stopped"
    /\ pc \in {"artifact", "write"} => (exit = 0 => Complete) /\ (exit = 1 => ~Complete)
    /\ pc = "write" => exit = 3
    /\ exit = 2 => pc = "exited"
    /\ pc = "exited" =>
          /\ exit = 0 => /\ Complete /\ ending = "run_finished"
                         /\ journal = "mine" /\ artifact = "full"
          /\ exit = 1 => ~Complete /\ artifact = "full"
          /\ exit = 2 => announced = {} /\ executed = 0 /\ journal # "mine"
          /\ exit = 3 => journal = "mine" /\ artifact \in {"full", "minimal"}

IInv == /\ TypeOK /\ Place /\ (\A p \in Providers : Money(p))
        /\ Covered /\ Progress /\ Output
-----------------------------------------------------------------------------
(* Facts about the plan and about counting *)

\* A frozen plan's sizes and sums are what the ledger can compare.
LEMMA PlanFacts ==
    ASSUME TypeOK
    PROVE  /\ Schedule \in Seq(Routers) /\ Len(Schedule) \in Nat
           /\ \A i \in Calls : Schedule[i] \in Routers
           /\ \A p \in Providers :
                 /\ Reservation[p] \in Nat /\ MaxCall[p] \in Nat /\ CostCap[p] \in Nat
                 /\ Reservation[p] <= MaxCall[p]
<1>1. IsPlan(plan)
  BY PlansAssumption DEF TypeOK
<1> QED BY <1>1 DEF IsPlan, Schedule, Reservation, MaxCall, CostCap, Calls

\* A router's provider is one of the two, or none.
LEMMA ProviderFacts == \A r \in Routers : ProviderOf(r) \in Providers \cup {"none"}
BY DEF Routers, ProviderOf, Providers

\* The plan is frozen.
LEMMA Fixed ==
    ASSUME UNCHANGED plan
    PROVE  /\ Schedule' = Schedule /\ Calls' = Calls /\ Reservation' = Reservation
           /\ MaxCall' = MaxCall /\ CostCap' = CostCap
           /\ \A p \in Providers : Trusted(p)' = Trusted(p)
BY DEF Schedule, Calls, Reservation, MaxCall, CostCap, Trusted, HardCap

\* One more call is one more of its provider's.
LEMMA CountOne ==
    ASSUME NEW s, NEW p, NEW S, IsFiniteSet(S), NEW x, x \notin S
    PROVE  /\ Cardinality(CallsOf(s, p, S)) \in Nat
           /\ Cardinality(CallsOf(s, p, S \cup {x})) =
                 Cardinality(CallsOf(s, p, S)) + (IF ProviderOf(s[x]) = p THEN 1 ELSE 0)
<1>1. IsFiniteSet(CallsOf(s, p, S)) /\ x \notin CallsOf(s, p, S)
  BY FS_Subset DEF CallsOf
<1>2. Cardinality(CallsOf(s, p, S)) \in Nat
  BY <1>1, FS_CardinalityType
<1>3. CASE ProviderOf(s[x]) = p
  <2>1. CallsOf(s, p, S \cup {x}) = CallsOf(s, p, S) \cup {x}
    BY <1>3 DEF CallsOf
  <2>2. Cardinality(CallsOf(s, p, S) \cup {x}) = Cardinality(CallsOf(s, p, S)) + 1
    BY <1>1, FS_AddElement
  <2> QED BY <1>2, <1>3, <2>1, <2>2
<1>4. CASE ProviderOf(s[x]) # p
  <2>1. CallsOf(s, p, S \cup {x}) = CallsOf(s, p, S)
    BY <1>4 DEF CallsOf
  <2> QED BY <1>2, <1>4, <2>1
<1> QED BY <1>3, <1>4

\* The same of the first calls of a schedule, and of those that are paid.
LEMMA CountNext ==
    ASSUME NEW s, NEW n \in Nat
    PROVE  /\ \A p : Cardinality(CallsOf(s, p, 1..(n + 1))) =
                        Cardinality(CallsOf(s, p, 1..n))
                        + (IF ProviderOf(s[n + 1]) = p THEN 1 ELSE 0)
           /\ \A p : Cardinality(CallsOf(s, p, 1..n)) \in Nat
           /\ PaidUpTo(s, n + 1) = IF ProviderOf(s[n + 1]) = "none" THEN PaidUpTo(s, n)
                                   ELSE PaidUpTo(s, n) \cup {n + 1}
<1>1. 1..(n + 1) = (1..n) \cup {n + 1} /\ n + 1 \notin 1..n
  OBVIOUS
<1>2. IsFiniteSet(1..n)
  BY FS_Interval
<1>3. PaidUpTo(s, n + 1) = IF ProviderOf(s[n + 1]) = "none" THEN PaidUpTo(s, n)
                           ELSE PaidUpTo(s, n) \cup {n + 1}
  BY <1>1 DEF PaidUpTo
<1>4. /\ \A p : Cardinality(CallsOf(s, p, 1..(n + 1))) =
                   Cardinality(CallsOf(s, p, 1..n))
                   + (IF ProviderOf(s[n + 1]) = p THEN 1 ELSE 0)
      /\ \A p : Cardinality(CallsOf(s, p, 1..n)) \in Nat
  <2> DEFINE S == 1..n
             x == n + 1
  <2>1. IsFiniteSet(S) /\ x \notin S /\ 1..(n + 1) = S \cup {x}
    BY <1>1, <1>2
  <2> SUFFICES ASSUME NEW p
               PROVE  /\ Cardinality(CallsOf(s, p, S \cup {x})) =
                            Cardinality(CallsOf(s, p, S))
                            + (IF ProviderOf(s[x]) = p THEN 1 ELSE 0)
                      /\ Cardinality(CallsOf(s, p, S)) \in Nat
    BY <2>1
  <2> HIDE DEF S, x
  <2> QED BY <2>1, CountOne
<1> QED BY <1>3, <1>4

\* The announced calls are some of the schedule's, so they can be counted.
LEMMA AnnouncedFinite ==
    ASSUME TypeOK
    PROVE  IsFiniteSet(announced) /\ IsFiniteSet(Made)
<1>1. IsFiniteSet(Calls)
  BY PlanFacts, FS_Interval DEF Calls
<1>2. announced \in SUBSET Calls /\ Made \in SUBSET Calls
  BY DEF TypeOK, Made
<1> QED BY <1>1, <1>2, FS_Subset

\* The records of calls, field by field.
LEMMA RecordFields ==
    /\ \A c \in Nat : /\ Reply(c) \in Records /\ Reply(c).known /\ Reply(c).cost = c
                      /\ Failed(Reply(c)) \in Records
                      /\ Failed(Reply(c)).known /\ Failed(Reply(c)).cost = c
    /\ Failed(NoRecord) \in Records /\ ~Failed(NoRecord).known /\ Failed(NoRecord).cost = 0
    /\ Unanswered \in Records /\ ~Unanswered.known /\ Unanswered.cost = 0
    /\ HarnessError \in Records /\ ~HarnessError.known /\ HarnessError.cost = 0
    /\ [Unanswered EXCEPT !.known = TRUE] \in Records
    /\ [Unanswered EXCEPT !.known = TRUE].known
    /\ [Unanswered EXCEPT !.known = TRUE].cost = 0
<1>1. NoRecord \in Records /\ ~NoRecord.known /\ NoRecord.cost = 0
  BY DEF NoRecord, Records
<1>2. ASSUME NEW rec \in Records
      PROVE  Failed(rec) \in Records /\ Failed(rec).known = rec.known
             /\ Failed(rec).cost = rec.cost
  BY DEF Failed, Records
<1>3. ASSUME NEW c \in Nat
      PROVE  Reply(c) \in Records /\ Reply(c).known /\ Reply(c).cost = c
  <2> DEFINE heard == [NoRecord EXCEPT !.known = TRUE]
  <2>1. heard \in Records /\ heard.known
    BY <1>1 DEF Records
  <2>2. Reply(c) = [heard EXCEPT !.cost = c]
    BY DEF Reply
  <2> HIDE DEF heard
  <2> QED BY <2>1, <2>2 DEF Records
<1>4. Failed(NoRecord) \in Records /\ ~Failed(NoRecord).known /\ Failed(NoRecord).cost = 0
  BY <1>1, <1>2
<1>5. Unanswered \in Records /\ ~Unanswered.known /\ Unanswered.cost = 0
  BY <1>4 DEF Unanswered, Records
<1>6. HarnessError \in Records /\ ~HarnessError.known /\ HarnessError.cost = 0
  BY <1>4 DEF HarnessError, Records
<1>7. /\ [Unanswered EXCEPT !.known = TRUE] \in Records
      /\ [Unanswered EXCEPT !.known = TRUE].known
      /\ [Unanswered EXCEPT !.known = TRUE].cost = 0
  BY <1>5 DEF Records
<1> QED BY <1>2, <1>3, <1>4, <1>5, <1>6, <1>7

\* What route() may return for a paid call: a cost it knows is one it can have,
\* and is what is billed, except where a reply need not carry its usage.
LEMMA PaidFacts ==
    ASSUME TypeOK, NEW p \in Providers, NEW outcome \in PaidOutcomes(p)
    PROVE  /\ outcome[1] \in Records /\ outcome[2] \in 0..MaxCall[p]
           /\ outcome[1].cost <= MaxCall[p]
           /\ (p = "bedrock" => plan.usageReported) =>
                 outcome[2] <= IF outcome[1].known THEN outcome[1].cost ELSE MaxCall[p]
<1> DEFINE Good(rec, b) ==
        /\ rec \in Records /\ b \in 0..MaxCall[p] /\ rec.cost <= MaxCall[p]
        /\ (p = "bedrock" => plan.usageReported) =>
              b <= IF rec.known THEN rec.cost ELSE MaxCall[p]
<1>1. MaxCall[p] \in Nat
  BY PlanFacts
<1>2. ASSUME NEW b \in Bills(p)
      PROVE  Good(Reply(b), b) /\ Good(Failed(Reply(b)), b) /\ Good(Unanswered, b)
             /\ Good(HarnessError, b) /\ Good(Failed(NoRecord), b)
  <2>1. b \in Nat /\ b \in 0..MaxCall[p] /\ b <= MaxCall[p]
    BY <1>1, <1>2 DEF Bills
  <2> QED BY <1>1, <2>1, RecordFields
<1>3. Good([Unanswered EXCEPT !.known = TRUE], 0)
  BY <1>1, RecordFields
<1>4. ASSUME NEW b \in Bills(p), p = "bedrock", ~plan.usageReported
      PROVE  Good(Reply(0), b)
  <2>1. b \in 0..MaxCall[p]
    BY <1>4 DEF Bills
  <2> QED BY <1>1, <1>4, <2>1, RecordFields
<1>5. Good(outcome[1], outcome[2])
  <2> HIDE DEF Good
  <2>1. CASE outcome \in HaikuOutcomes /\ p = "bedrock"
    <3>1. CASE \E b \in Bills(p) : \/ outcome = <<Reply(b), b>>
                                   \/ outcome = <<Failed(Reply(b)), b>>
                                   \/ outcome = <<Unanswered, b>>
      BY <1>2, <3>1
    <3>2. CASE outcome = <<[Unanswered EXCEPT !.known = TRUE], 0>>
      BY <1>3, <3>2
    <3>3. CASE \E b \in Bills(p) : ~plan.usageReported /\ outcome = <<Reply(0), b>>
      BY <1>4, <2>1, <3>3
    <3> QED BY <2>1, <3>1, <3>2, <3>3 DEF HaikuOutcomes
  <2>2. CASE outcome \in JevOutcomes /\ p = "typesafe"
    BY <1>2, <2>2 DEF JevOutcomes, CallErrors, Validated
  <2>3. CASE outcome \in {<<HarnessError, b>> : b \in Bills(p)}
    BY <1>2, <2>3
  <2> QED BY <2>1, <2>2, <2>3 DEF PaidOutcomes, Providers
<1> QED BY <1>5
-----------------------------------------------------------------------------
(* Steps outside the loop *)

\* Before the first call and after the last nothing is owed, and a step that
\* leaves the run alone leaves the money and the journal's cover alone.
LEMMA Outside ==
    ASSUME IInv, UNCHANGED <<plan, run>>,
           pc \in Before \cup After,
           pc' \in Before \cup After \cup {"next", "exited", "raised"},
           pc' \in Before \cup {"next"} => pc \in Before
    PROVE  (\A p \in Providers : Money(p)') /\ Covered'
<1>1. /\ UNCHANGED <<position, account, stopReason, errors, record, executed, touched,
                     announced, recorded, ending, billed>>
      /\ Schedule' = Schedule /\ Calls' = Calls /\ Reservation' = Reservation
      /\ MaxCall' = MaxCall /\ CostCap' = CostCap
      /\ \A p \in Providers : Trusted(p)' = Trusted(p)
  BY Fixed DEF run
<1>2. pc \notin InLoop /\ pc # "raised"
  BY DEF Before, After, InLoop
<1>3. pc' \notin {"announce", "call", "settle", "record"}
  BY DEF Before, After
<1>4. ASSUME NEW p \in Providers
      PROVE  Money(p)'
  <2>1. Money(p)
    BY DEF IInv
  <2>2. account[p].reserved = 0
    BY <1>2, <2>1 DEF Money, Outstanding, InLoop
  <2>3. account'[p].reserved = 0 /\ ~Outstanding(p)' /\ ~InHand(p)'
        /\ Due(p)' = 0 /\ Due(p) = 0
    BY <1>1, <1>2, <1>3, <2>2 DEF Outstanding, InHand, Due, InLoop
  <2>4. Exposure(p)' = Exposure(p)
    BY <1>1 DEF Exposure
  <2> QED BY <1>1, <2>1, <2>3, <2>4 DEF Money
<1>5. Covered'
  <2>1. Made' = Made
    BY <1>1, <1>2, <1>3 DEF Made, InLoop
  <2>2. ending' # "none" => pc' \in After \cup {"exited", "raised"}
    BY <1>1 DEF IInv, Covered, Before, After
  <2>3. pc' = "next" => announced = {}
    BY DEF IInv, Place
  <2>4. pc \notin {"call", "settle", "record", "raised"}
    BY <1>2 DEF InLoop
  <2>5. \A i \in announced : Paid(i)' = Paid(i)
    BY <1>1 DEF Paid
  <2>6. Carried'
    BY <1>1, <2>1 DEF IInv, Covered, Carried
  <2> QED BY <1>1, <1>3, <2>2, <2>3, <2>4, <2>5, <2>6 DEF IInv, Covered
<1> QED BY <1>4, <1>5

\* The steps that lead up to the first call, or end before it.
LEMMA EntryStep ==
    ASSUME IInv, UNCHANGED plan,
           Refuse \/ BuildRouters \/ RefuseInfeasible \/ Open \/ OpenRaises \/ Start
    PROVE  IInv'
<1>1. /\ UNCHANGED <<run, redacted, artifact>> /\ pc \in Before
      /\ pc' \in Before \cup {"next", "exited", "raised"}
      /\ journal' = IF pc' = "opened" THEN "mine" ELSE journal
      /\ exit' = IF pc' = "exited" THEN 2 ELSE exit
      /\ pc' \in {"opened", "next"} => pc' = "opened" \/ pc = "opened"
      /\ pc = "opened" => pc' = "next"
      /\ pc' # "start"
  BY DEF Refuse, BuildRouters, BuildOutcomes, RefuseInfeasible, Open, JournalOpens,
         OpenRaises, Start, cli, Before
<1>2. UNCHANGED <<position, account, stopReason, errors, record, executed, touched,
                  announced, recorded, ending, billed>>
  BY <1>1 DEF run
<1>3. /\ Schedule' = Schedule /\ Calls' = Calls
      /\ Len(Schedule) \in Nat
  BY Fixed, PlanFacts DEF IInv
<1>4. (\A p \in Providers : Money(p)') /\ Covered'
  BY <1>1, Outside
<1>5. TypeOK'
  BY <1>1, <1>2, <1>3 DEF IInv, TypeOK, Before, InLoop, After
<1>6. Place'
  BY <1>1, <1>2 DEF IInv, Place, Before, After
<1>7. Progress'
  <2>1. /\ executed = 0 /\ position = 1 /\ Entire(0, 0, 0)
    BY <1>1 DEF IInv, Place, Progress, Begun, Told, Before, InLoop
  <2>2. Entire(0, 0, 0)'
    BY <1>2, <1>3, <2>1 DEF Entire
  <2>3. \/ pc' # "record" /\ Begun' = position' - 1 /\ Told' = position' - 1
        \/ pc' \in {"exited", "raised"}
    BY <1>1 DEF Before, Begun, Told
  <2>4. pc' \notin After /\ (pc' \in {"exited", "raised"} => pc' \notin Before \cup InLoop)
    BY <1>1 DEF Before, After, InLoop
  <2>5. CASE pc' \in {"exited", "raised"}
    <3>1. Complete' => Len(Schedule) = 0
      BY <1>2, <1>3, <2>1 DEF Complete
    <3> QED BY <1>3, <2>2, <2>4, <2>5, <3>1 DEF Progress
  <2>6. CASE pc' \notin {"exited", "raised"}
    BY <1>2, <2>1, <2>2, <2>3, <2>4, <2>6 DEF Progress
  <2> QED BY <2>5, <2>6
<1>8. Output'
  BY <1>1, <1>2 DEF IInv, Place, Output, Before, After, InLoop
<1> QED BY <1>4, <1>5, <1>6, <1>7, <1>8 DEF IInv

\* The steps from the returned result to the end of main.
LEMMA ReportStep ==
    ASSUME IInv, UNCHANGED plan, Report
    PROVE  IInv'
<1>1. /\ UNCHANGED <<run, redacted, journal>> /\ pc \in After
      /\ pc' \in {"artifact", "write", "exited", "raised"}
  BY DEF Report, Metrics, RefuseArtifact, WriteFull, WriteMinimal, OutputRaises, After
<1>2. UNCHANGED <<position, account, stopReason, errors, record, executed, touched,
                  announced, recorded, ending, billed>>
  BY <1>1 DEF run
<1>3. Schedule' = Schedule /\ Calls' = Calls /\ (Complete' <=> Complete)
  BY <1>2, Fixed DEF Complete
<1>4. (\A p \in Providers : Money(p)') /\ Covered'
  BY <1>1, Outside DEF Before, After
<1>5. TypeOK'
  <2>1. exit' \in 0..3 /\ artifact' \in {"none", "other", "dry", "torn", "full", "minimal"}
    BY DEF IInv, TypeOK, Report, Metrics, RefuseArtifact, WriteFull, WriteMinimal,
           OutputRaises
  <2> QED BY <1>1, <1>2, <1>3, <2>1 DEF IInv, TypeOK, After
<1>6. Place'
  BY <1>1, <1>2 DEF IInv, Place, Before, After
<1>7. Progress'
  <2>1. pc' \notin Before \cup InLoop
    BY <1>1 DEF Before, InLoop
  <2>2. Complete => Entire(Len(Schedule), Len(Schedule), Len(Schedule))
    BY <1>1 DEF IInv, Progress
  <2> QED BY <1>2, <1>3, <2>1, <2>2 DEF Progress, Entire
<1>8. Output'
  <2>1. CASE Metrics
    BY <1>1, <1>2, <1>3, <2>1 DEF IInv, Output, Metrics, Before, After, InLoop
  <2>2. CASE RefuseArtifact
    BY <1>1, <1>2, <1>3, <2>2 DEF IInv, Output, RefuseArtifact, Before, After, InLoop
  <2>3. CASE WriteFull
    <3>1. exit \in {0, 1, 3} /\ stopReason \in StopReasons
      BY <2>3 DEF IInv, TypeOK, Output, WriteFull
    <3>2. exit = 0 => ending = "run_finished"
      BY <2>3 DEF IInv, Output, WriteFull, After, Complete
    <3> QED BY <1>1, <1>2, <1>3, <2>3, <3>1, <3>2
            DEF IInv, Output, WriteFull, Safe, Before, After, InLoop
  <2>4. CASE WriteMinimal
    BY <1>1, <1>2, <1>3, <2>4 DEF IInv, Output, WriteMinimal, Before, After, InLoop
  <2>5. CASE OutputRaises
    BY <1>1, <1>2, <1>3, <2>5 DEF IInv, Output, OutputRaises, Before, After, InLoop
  <2> QED BY <2>1, <2>2, <2>3, <2>4, <2>5 DEF Report
<1> QED BY <1>4, <1>5, <1>6, <1>7, <1>8 DEF IInv

\* Another invocation takes what is not taken, or writes over what is not this
\* invocation's, and nothing else.
LEMMA OtherStep ==
    ASSUME IInv, UNCHANGED plan, Other
    PROVE  IInv'
<1>1. /\ UNCHANGED <<pc, run, redacted, exit>>
      /\ journal = "mine" => journal' = "mine" /\ artifact' = artifact
      /\ journal # "mine" => journal' = "other"
      /\ artifact' # artifact => artifact' \in {"other", "dry"}
  BY DEF Other, OtherStarts, OtherIsLive, OtherIsDry, IInv, TypeOK
<1>2. UNCHANGED <<position, account, stopReason, errors, record, executed, touched,
                  announced, recorded, ending, billed>>
  BY <1>1 DEF run
<1>3. /\ Schedule' = Schedule /\ Calls' = Calls /\ Reservation' = Reservation
      /\ MaxCall' = MaxCall /\ CostCap' = CostCap
      /\ \A p \in Providers : Trusted(p)' = Trusted(p)
  BY Fixed
<1>4. TypeOK'
  BY <1>1, <1>2, <1>3 DEF IInv, TypeOK
<1>5. Place'
  BY <1>1, <1>2, <1>3 DEF IInv, Place, Router, Paid
<1>6. \A p \in Providers : Money(p)'
  BY <1>1, <1>2, <1>3
     DEF IInv, Money, Outstanding, InHand, Due, Charged, Exposure, Provider, Router
<1>7. Covered' /\ Progress'
  BY <1>1, <1>2, <1>3 DEF IInv, Covered, Carried, Made, Paid, Progress, Entire, Begun, Told, Complete
<1>8. Output'
  BY <1>1, <1>2, <1>3 DEF IInv, Output, Complete
<1> QED BY <1>4, <1>5, <1>6, <1>7, <1>8 DEF IInv
-----------------------------------------------------------------------------
(* Steps of the loop *)

\* A step that leaves a provider's account and bill alone, and no call of its
\* in hand, keeps its money.
LEMMA MoneyFree ==
    ASSUME IInv, UNCHANGED plan, NEW p \in Providers,
           ~InHand(p), ~InHand(p)', pc # "raised", pc' # "raised",
           account'[p] = account[p], billed'[p] = billed[p],
           stopReason # "none" => stopReason' # "none"
    PROVE  Money(p)'
<1>1. /\ Reservation' = Reservation /\ MaxCall' = MaxCall /\ CostCap' = CostCap
      /\ Trusted(p)' = Trusted(p)
  BY Fixed
<1>2. Money(p) /\ ~Outstanding(p) /\ ~Outstanding(p)' /\ Due(p) = 0 /\ Due(p)' = 0
  BY DEF IInv, Outstanding, InHand, Due
<1>3. Exposure(p)' = Exposure(p)
  BY DEF Exposure
<1> QED BY <1>1, <1>2, <1>3 DEF Money

\* The loop does not touch the output path.
LEMMA OutputKept ==
    ASSUME IInv, pc \in InLoop, pc' \in InLoop \cup {"finish", "raised"},
           UNCHANGED <<journal, artifact, exit>>
    PROVE  Output'
BY DEF IInv, Output, InLoop, After

\* A stopped router's call is passed over: no money moves and none is recorded.
LEMMA SkipStep ==
    ASSUME IInv, UNCHANGED plan, SkipStopped
    PROVE  IInv'
<1>1. /\ UNCHANGED <<pc, account, stopReason, errors, record, executed, touched,
                     announced, recorded, ending, billed>>
      /\ UNCHANGED <<redacted, journal, artifact, exit>>
      /\ pc = "next" /\ position \in Calls /\ position' = position + 1
  BY DEF SkipStopped, Skipped, cli
<1>2. /\ Schedule' = Schedule /\ Calls' = Calls /\ Len(Schedule) \in Nat /\ MaxCall' = MaxCall
  BY Fixed, PlanFacts DEF IInv
<1>3. TypeOK'
  BY <1>1, <1>2 DEF IInv, TypeOK, Calls
<1>4. Place'
  BY <1>1 DEF IInv, Place, Before
<1>5. \A p \in Providers : Money(p)'
  BY <1>1, MoneyFree DEF InHand
<1>6. Covered'
  <2>1. Made' = Made
    BY <1>1 DEF Made
  <2>2. Carried'
    BY <1>1, <1>2, <2>1 DEF IInv, Covered, Carried
  <2>3. announced \subseteq Nat /\ announced \subseteq recorded
    BY <1>1 DEF IInv, TypeOK, Covered, Calls
  <2>4. \A i \in announced : i <= position' /\ i # position'
    BY <1>1, <2>3 DEF IInv, Covered, Calls
  <2> QED BY <1>1, <1>2, <2>2, <2>3, <2>4 DEF IInv, Covered, Paid
<1>7. Progress'
  BY <1>1, <1>2 DEF IInv, TypeOK, Progress, Calls, Before, InLoop, After
<1>8. Output'
  BY <1>1, OutputKept DEF InLoop
<1> QED BY <1>3, <1>4, <1>5, <1>6, <1>7, <1>8 DEF IInv

\* A call of a local router reserves nothing.
LEMMA BeginLocalStep ==
    ASSUME IInv, UNCHANGED plan, BeginLocal
    PROVE  IInv'
<1>1. /\ UNCHANGED <<position, account, stopReason, errors, record, executed, touched,
                     announced, recorded, ending, billed>>
      /\ UNCHANGED <<redacted, journal, artifact, exit>>
      /\ pc = "next" /\ position \in Calls /\ pc' = "call"
      /\ ~Stopped(Router) /\ ~Paid(position)
  BY DEF BeginLocal, cli
<1>2. /\ Schedule' = Schedule /\ Calls' = Calls /\ Len(Schedule) \in Nat
      /\ MaxCall' = MaxCall /\ Schedule[position] \in Routers
  BY <1>1, Fixed, PlanFacts DEF IInv
<1>3. TypeOK'
  BY <1>1, <1>2 DEF IInv, TypeOK, InLoop
<1>4. Place'
  <2>1. errors[Router] < InfraLimit
    BY <1>1, <1>2, LimitAssumption DEF IInv, TypeOK, Stopped, Router
  <2> QED BY <1>1, <1>2, <2>1 DEF IInv, Place, Before, Router, After
<1>5. \A p \in Providers : Money(p)'
  <2>1. \A p \in Providers : ~InHand(p)'
    BY <1>1, <1>2 DEF InHand, Provider, Router, Paid, Providers
  <2> QED BY <1>1, <2>1, MoneyFree DEF InHand
<1>6. Covered'
  <2>1. Made' = Made
    BY <1>1 DEF IInv, Covered, Made
  <2>2. Carried'
    BY <1>1, <1>2, <2>1 DEF IInv, Covered, Carried
  <2> QED BY <1>1, <1>2, <2>2 DEF IInv, Covered, Paid, After
<1>7. Progress'
  <2>1. position - 1 \in Nat /\ (position - 1) + 1 = position
    BY <1>1, <1>2 DEF Calls
  <2>2. /\ \A p \in Providers : Cardinality(CallsOf(Schedule, p, 1..position)) =
                                Cardinality(CallsOf(Schedule, p, 1..(position - 1)))
        /\ PaidUpTo(Schedule, position) = PaidUpTo(Schedule, position - 1)
    <3>1. \A p \in Providers : ProviderOf(Schedule[position]) # p
      BY <1>1 DEF Paid, Providers
    <3> DEFINE n == position - 1
    <3>2. n \in Nat /\ position = n + 1
      BY <2>1
    <3> HIDE DEF n
    <3>3. \A p \in Providers : Cardinality(CallsOf(Schedule, p, 1..position)) =
                               Cardinality(CallsOf(Schedule, p, 1..n))
      <4> TAKE p \in Providers
      <4>1. /\ Cardinality(CallsOf(Schedule, p, 1..(n + 1))) =
                  Cardinality(CallsOf(Schedule, p, 1..n))
                  + (IF ProviderOf(Schedule[n + 1]) = p THEN 1 ELSE 0)
            /\ Cardinality(CallsOf(Schedule, p, 1..n)) \in Nat
        BY <3>2, CountNext
      <4> QED BY <3>1, <3>2, <4>1
    <3>4. PaidUpTo(Schedule, position) = PaidUpTo(Schedule, n)
      BY <1>1, <3>2, CountNext DEF Paid
    <3> QED BY <3>3, <3>4 DEF n
  <2>3. executed <= position - 1
        /\ (executed = position - 1 => Entire(position - 1, position - 1, position - 1))
    BY <1>1 DEF IInv, Progress, InLoop, Begun, Told
  <2>4. executed = position - 1 => Entire(position, position, position - 1)'
    BY <1>1, <1>2, <2>2, <2>3 DEF Entire
  <2> QED BY <1>1, <2>3, <2>4 DEF Progress, Begun, Told, Before, InLoop, After
<1>8. Output'
  BY <1>1, OutputKept DEF InLoop
<1> QED BY <1>3, <1>4, <1>5, <1>6, <1>7, <1>8 DEF IInv

\* The ledger refuses the next call: the run stops where it is.
LEMMA RefusedStep ==
    ASSUME IInv, UNCHANGED plan, BeginPaid, ~Affordable(Provider)
    PROVE  IInv'
<1>1. /\ UNCHANGED <<position, account, errors, record, executed, touched,
                     announced, recorded, ending, billed>>
      /\ UNCHANGED <<redacted, journal, artifact, exit>>
      /\ pc = "next" /\ position \in Calls /\ pc' = "finish" /\ stopReason' = "budget"
  BY DEF BeginPaid, cli
<1>2. /\ Schedule' = Schedule /\ Calls' = Calls /\ MaxCall' = MaxCall
  BY Fixed
<1>3. TypeOK'
  BY <1>1, <1>2 DEF IInv, TypeOK, StopReasons
<1>4. Place'
  BY <1>1 DEF IInv, Place, Before, After
<1>5. \A p \in Providers : Money(p)'
  BY <1>1, MoneyFree DEF InHand
<1>6. Covered'
  <2>1. Made' = Made
    BY <1>1 DEF Made
  <2>2. Carried'
    BY <1>1, <1>2, <2>1 DEF IInv, Covered, Carried
  <2> QED BY <1>1, <1>2, <2>2 DEF IInv, Covered, Paid, After
<1>7. Progress'
  BY <1>1 DEF Progress, Before, InLoop, After
<1>8. Output'
  BY <1>1, OutputKept DEF InLoop
<1> QED BY <1>3, <1>4, <1>5, <1>6, <1>7, <1>8 DEF IInv

\* The ledger reserves the worst case of the next call, within the cap.
LEMMA ReserveStep ==
    ASSUME IInv, UNCHANGED plan, BeginPaid, Affordable(Provider)
    PROVE  IInv'
<1>0. PICK v : v = Provider
  OBVIOUS
<1>1. /\ UNCHANGED <<position, stopReason, errors, record, executed, touched,
                     announced, recorded, ending, billed>>
      /\ UNCHANGED <<redacted, journal, artifact, exit>>
      /\ pc = "next" /\ position \in Calls /\ pc' = "announce"
      /\ ~Stopped(Router) /\ Paid(position)
      /\ account' = [account EXCEPT ![v].requests = @ + 1,
                                    ![v].reserved = @ + Reservation[v]]
  BY <1>0 DEF BeginPaid, cli
<1>2. /\ Schedule' = Schedule /\ Calls' = Calls /\ Len(Schedule) \in Nat
      /\ Reservation' = Reservation /\ MaxCall' = MaxCall /\ CostCap' = CostCap
      /\ \A p \in Providers : Trusted(p)' = Trusted(p)
      /\ Schedule[position] \in Routers
  BY <1>1, Fixed, PlanFacts DEF IInv
<1>3. v \in Providers /\ Provider' = v
  BY <1>0, <1>1, <1>2, ProviderFacts DEF Provider, Router, Paid
<1>4. /\ Reservation[v] \in Nat /\ MaxCall[v] \in Nat /\ CostCap[v] \in Nat
      /\ Reservation[v] <= MaxCall[v]
  BY <1>3, PlanFacts DEF IInv
<1>5. Exposure(v) + Reservation[v] <= CostCap[v] /\ Money(v) /\ stopReason = "none"
  BY <1>0, <1>1, <1>3 DEF Affordable, IInv, Place, After
<1>6. \A p \in Providers : InHand(p)' <=> p = v
  BY <1>1, <1>2, <1>3 DEF InHand
<1>7. account[v].reserved = 0 /\ ~InHand(v)
  BY <1>1, <1>5 DEF Money, Outstanding, InHand
<1>8. account[v] \in [requests : Nat, committed : Nat, reserved : Nat]
  BY <1>3 DEF IInv, TypeOK
<1>9. /\ account' \in [Providers -> [requests : Nat, committed : Nat, reserved : Nat]]
      /\ account'[v].requests = account[v].requests + 1
      /\ account'[v].committed = account[v].committed
      /\ account'[v].reserved = Reservation[v]
      /\ \A p \in Providers : p # v => account'[p] = account[p]
  <2> DEFINE asked == [account EXCEPT ![v].requests = @ + 1]
  <2>1. /\ asked \in [Providers -> [requests : Nat, committed : Nat, reserved : Nat]]
        /\ asked[v].requests = account[v].requests + 1
        /\ asked[v].committed = account[v].committed
        /\ asked[v].reserved = account[v].reserved
        /\ \A p \in Providers : p # v => asked[p] = account[p]
    <3>1. account \in [Providers -> [requests : Nat, committed : Nat, reserved : Nat]]
      BY DEF IInv, TypeOK
    <3> QED BY <1>3, <3>1
  <2>2. account' = [asked EXCEPT ![v].reserved = @ + Reservation[v]]
    BY <1>1
  <2> HIDE DEF asked
  <2>4. asked[v].reserved + Reservation[v] = Reservation[v]
    BY <1>4, <1>7, <2>1
  <2>3. account' = [asked EXCEPT ![v].reserved = Reservation[v]]
    BY <2>2, <2>4
  <2> QED BY <1>3, <1>4, <2>1, <2>3
<1>10. TypeOK'
  BY <1>1, <1>2, <1>9 DEF IInv, TypeOK, InLoop
<1>11. Place'
  <2>1. errors[Router] < InfraLimit
    BY <1>1, <1>2, LimitAssumption DEF IInv, TypeOK, Stopped, Router
  <2> QED BY <1>1, <1>2, <1>5, <2>1 DEF IInv, Place, Before, Router, Paid
<1>12. \A p \in Providers : Money(p)'
  <2> TAKE p \in Providers
  <2>1. CASE p = v
    <3>1. Outstanding(v)' /\ Due(v)' = 0 /\ Due(v) = 0
      BY <1>1, <1>6, <1>3 DEF Outstanding, InHand, Due
    <3>2. Exposure(v)' <= CostCap[v]
      BY <1>4, <1>5, <1>7, <1>8, <1>9 DEF Exposure
    <3>3. Trusted(v) => billed[v] <= account[v].committed
      BY <1>5, <1>8, <3>1 DEF Money, IInv, TypeOK
    <3>4. /\ Exposure(v)' \in Nat /\ account'[v].committed <= CostCap[v]
      BY <1>4, <1>5, <1>7, <1>8, <1>9 DEF Exposure
    <3>5. Exposure(v)' <= CostCap[v] + (MaxCall[v] - Reservation[v])
      BY <1>4, <3>2, <3>4
    <3>6. ~(account'[v].committed > CostCap[v])
      BY <1>4, <1>8, <1>9, <3>4
    <3>7. Trusted(v)' => billed'[v] <= account'[v].committed + Due(v)'
      BY <1>1, <1>2, <1>3, <1>8, <1>9, <3>1, <3>3
    <3> QED BY <1>1, <1>2, <1>9, <2>1, <3>1, <3>2, <3>5, <3>6, <3>7 DEF Money
  <2>2. CASE p # v
    <3>1. ~InHand(p) /\ ~InHand(p)'
      BY <1>1, <1>6, <2>2 DEF InHand
    <3> QED BY <1>1, <1>9, <2>2, <3>1, MoneyFree
  <2> QED BY <2>1, <2>2
<1>13. Covered'
  <2>1. Made' = Made
    BY <1>1 DEF Made
  <2>2. Carried'
    BY <1>1, <1>2, <2>1 DEF IInv, Covered, Carried
  <2> QED BY <1>1, <1>2, <2>2 DEF IInv, Covered, Paid, After
<1>14. Progress'
  <2>1. executed <= position - 1
        /\ (executed = position - 1 => Entire(position - 1, position - 1, position - 1))
    BY <1>1 DEF IInv, Progress, InLoop, Begun, Told
  <2> DEFINE n == position - 1
  <2>2. n \in Nat /\ position = n + 1
    BY <1>1, <1>2 DEF Calls
  <2> HIDE DEF n
  <2>3. \A p \in Providers : Cardinality(CallsOf(Schedule, p, 1..position)) =
            Cardinality(CallsOf(Schedule, p, 1..n)) + (IF p = v THEN 1 ELSE 0)
        /\ Cardinality(CallsOf(Schedule, p, 1..n)) \in Nat
    BY <1>0, <2>2, CountNext DEF Provider, Router
  <2>4. Entire(n, n, n) => Entire(position, n, n)'
    BY <1>1, <1>2, <1>3, <1>9, <2>3 DEF Entire, n
  <2> QED BY <1>1, <2>1, <2>4 DEF n, Progress, Begun, Told, Before, InLoop, After
<1>15. Output'
  BY <1>1, OutputKept DEF InLoop
<1> QED BY <1>10, <1>11, <1>12, <1>13, <1>14, <1>15 DEF IInv

\* The announcement, before the call.
LEMMA AnnounceStep ==
    ASSUME IInv, UNCHANGED plan, Announce
    PROVE  IInv'
<1>1. /\ UNCHANGED <<position, account, stopReason, errors, record, executed, touched,
                     recorded, ending, billed>>
      /\ UNCHANGED <<redacted, journal, artifact, exit>>
      /\ pc = "announce" /\ pc' = "call" /\ announced' = announced \cup {position}
  BY DEF Announce, Announcement, cli
<1>2. /\ Schedule' = Schedule /\ Calls' = Calls /\ Len(Schedule) \in Nat
      /\ Reservation' = Reservation /\ MaxCall' = MaxCall /\ CostCap' = CostCap
      /\ \A p \in Providers : Trusted(p)' = Trusted(p)
  BY Fixed, PlanFacts DEF IInv
<1>3. /\ position \in Calls /\ Paid(position) /\ position \notin announced
      /\ announced \subseteq recorded
  BY <1>1 DEF IInv, Place, Covered
<1>4. TypeOK'
  BY <1>1, <1>2, <1>3 DEF IInv, TypeOK, InLoop
<1>5. Place'
  BY <1>1, <1>2 DEF IInv, Place, Before, Router, After
<1>6. \A p \in Providers : Money(p)'
  BY <1>1, <1>2
     DEF IInv, Money, Outstanding, InHand, Due, Exposure, Provider, Router
<1>7. Covered'
  <2>1. Made' = Made
    BY <1>1, <1>3 DEF Made
  <2>2. Carried'
    BY <1>1, <1>2, <2>1 DEF IInv, Covered, Carried
  <2>3. \A i \in announced' : Paid(i)' /\ i <= position'
    BY <1>1, <1>2, <1>3 DEF IInv, Covered, Paid, Calls
  <2> QED BY <1>1, <1>2, <1>3, <2>2, <2>3 DEF IInv, Covered, After
<1>8. Progress'
  <2>1. executed <= position - 1
        /\ (executed = position - 1 => Entire(position, position - 1, position - 1))
    BY <1>1 DEF IInv, Progress, InLoop, Begun, Told, Before
  <2> DEFINE n == position - 1
  <2>2. n \in Nat /\ position = n + 1
    BY <1>2, <1>3 DEF Calls
  <2> HIDE DEF n
  <2>3. PaidUpTo(Schedule, position) = PaidUpTo(Schedule, n) \cup {position}
    BY <1>3, <2>2, CountNext DEF Paid
  <2>4. Entire(position, n, n) => Entire(position, position, n)'
    BY <1>1, <1>2, <2>3 DEF Entire, n
  <2> QED BY <1>1, <2>1, <2>4 DEF n, Progress, Begun, Told, Before, InLoop, After
<1>9. Output'
  BY <1>1, OutputKept DEF InLoop
<1> QED BY <1>4, <1>5, <1>6, <1>7, <1>8, <1>9 DEF IInv

\* A call in hand and what it may bill, made or cut: its provider bills one
\* more announced call.
LEMMA CarriedOn ==
    ASSUME IInv, UNCHANGED plan, pc = "call", Paid(position), position \in Calls,
           NEW v \in Providers, v = Provider, NEW b \in 0..MaxCall[v],
           billed' = [billed EXCEPT ![v] = @ + b],
           announced' = announced, pc' # "call"
    PROVE  Carried'
<1>1. MaxCall' = MaxCall /\ Schedule' = Schedule /\ MaxCall[v] \in Nat
  BY Fixed, PlanFacts DEF IInv
<1>2. position \in announced
  BY DEF IInv, Covered
<1>3. Made = announced \ {position} /\ Made' = Made \cup {position}
  BY <1>2 DEF Made
<1>4. IsFiniteSet(Made) /\ position \notin Made
  BY <1>3, AnnouncedFinite DEF IInv
<1> DEFINE count(p) == Cardinality(CallsOf(Schedule, p, Made))
<1>5. ASSUME NEW p \in Providers
      PROVE  billed'[p] <= MaxCall'[p] * Cardinality(CallsOf(Schedule', p, Made'))
  <2>1. billed[p] <= MaxCall[p] * count(p) /\ billed[p] \in Nat
    BY DEF IInv, Covered, Carried, TypeOK
  <2>2. count(p) \in Nat
        /\ Cardinality(CallsOf(Schedule, p, Made \cup {position}))
              = count(p) + (IF ProviderOf(Schedule[position]) = p THEN 1 ELSE 0)
    BY <1>4, CountOne
  <2>3. ProviderOf(Schedule[position]) = v
    BY DEF Provider, Router
  <2> HIDE DEF count
  <2>4. CASE p = v
    <3>1. billed'[v] = billed[v] + b
      BY DEF IInv, TypeOK
    <3>2. MaxCall[v] * (count(v) + 1) = MaxCall[v] * count(v) + MaxCall[v]
      BY <1>1, <2>2, <2>4
    <3>3. MaxCall[v] * count(v) \in Nat
      BY <1>1, <2>2, <2>4
    <3>4. b <= MaxCall[v] /\ b \in Nat
      BY <1>1
    <3>5. billed[v] + b <= MaxCall[v] * count(v) + MaxCall[v]
      BY <1>1, <2>1, <2>4, <3>3, <3>4
    <3>6. Cardinality(CallsOf(Schedule', v, Made')) = count(v) + 1
      BY <1>1, <1>3, <2>2, <2>3, <2>4
    <3> QED BY <1>1, <2>4, <3>1, <3>2, <3>5, <3>6
  <2>5. CASE p # v
    <3>1. billed'[p] = billed[p]
      BY <2>5 DEF IInv, TypeOK
    <3>2. Cardinality(CallsOf(Schedule', p, Made')) = count(p)
      BY <1>1, <1>3, <2>2, <2>3, <2>5
    <3> QED BY <1>1, <2>1, <3>1, <3>2
  <2> QED BY <2>4, <2>5
<1> QED BY <1>5 DEF Carried

\* The call, its record, and its bill.
LEMMA RoutePaidStep ==
    ASSUME IInv, UNCHANGED plan, RoutePaid
    PROVE  IInv'
<1>1. /\ UNCHANGED <<position, account, stopReason, errors, executed, announced,
                     recorded, ending>>
      /\ UNCHANGED <<redacted, journal, artifact, exit>>
      /\ pc = "call" /\ Paid(position) /\ pc' = "settle" /\ touched' \in {touched, TRUE}
  BY DEF RoutePaid, Touches, cli
<1>2. /\ Schedule' = Schedule /\ Calls' = Calls
      /\ Reservation' = Reservation /\ MaxCall' = MaxCall /\ CostCap' = CostCap
      /\ \A p \in Providers : Trusted(p)' = Trusted(p)
  BY Fixed
<1>3. position \in Calls /\ Schedule[position] \in Routers
  BY <1>1, PlanFacts DEF IInv, Place
<1>4. PICK v \in Providers : v = Provider
  BY <1>1, <1>3, ProviderFacts DEF Provider, Router, Paid
<1>5. PICK outcome \in PaidOutcomes(v) :
         record' = outcome[1] /\ billed' = [billed EXCEPT ![v] = @ + outcome[2]]
  BY <1>4 DEF RoutePaid
<1> DEFINE b == outcome[2]
<1>6. /\ record' \in Records /\ b \in 0..MaxCall[v] /\ record'.cost <= MaxCall[v]
      /\ (v = "bedrock" => plan.usageReported) =>
            b <= IF record'.known THEN record'.cost ELSE MaxCall[v]
  BY <1>5, PaidFacts DEF IInv
<1>7. billed' = [billed EXCEPT ![v] = @ + b]
  BY <1>5
<1> HIDE DEF b
<1>8. /\ MaxCall[v] \in Nat /\ Reservation[v] \in Nat /\ CostCap[v] \in Nat
      /\ billed[v] \in Nat /\ b \in Nat /\ b <= MaxCall[v] /\ record'.cost \in Nat
      /\ record'.known \in BOOLEAN
      /\ account[v] \in [requests : Nat, committed : Nat, reserved : Nat]
  BY <1>6, PlanFacts DEF IInv, TypeOK, Records
<1>9. /\ billed' \in [Providers -> Nat] /\ billed'[v] = billed[v] + b
      /\ \A p \in Providers : p # v => billed'[p] = billed[p]
  BY <1>7, <1>8 DEF IInv, TypeOK
<1>10. TypeOK'
  <2>1. /\ pc' \in InLoop /\ touched' \in BOOLEAN
    BY <1>1 DEF IInv, TypeOK, InLoop
  <2>2. /\ plan' \in Plans /\ position' \in 1..(Len(Schedule') + 1)
        /\ account' \in [Providers -> [requests : Nat, committed : Nat, reserved : Nat]]
        /\ executed' \in 0..Len(Schedule') /\ announced' \subseteq Calls'
        /\ recorded' \subseteq Calls'
    BY <1>1, <1>2 DEF IInv, TypeOK
  <2> QED BY <1>1, <1>6, <1>9, <2>1, <2>2 DEF IInv, TypeOK
<1>11. Place'
  <2>1. stopReason = "none" /\ errors[Router] < InfraLimit
    BY <1>1, <1>3 DEF IInv, Place, After
  <2> QED BY <1>1, <1>2, <1>3, <2>1 DEF Place, Before, Router
<1>12. \A p \in Providers : Money(p)'
  <2> TAKE p \in Providers
  <2>1. (InHand(p) <=> p = v) /\ (InHand(p)' <=> p = v)
    BY <1>1, <1>2, <1>3, <1>4 DEF InHand, Provider, Router
  <2>2. CASE p = v
    <3>1. Money(v) /\ InHand(v) /\ InHand(v)'
      BY <2>1, <2>2 DEF IInv
    <3>2. Outstanding(v) /\ Outstanding(v)' /\ Due(v) = 0
      BY <1>1, <3>1 DEF Outstanding, InHand, Due
    <3>3. Exposure(v)' = Exposure(v)
      BY <1>1 DEF Exposure
    <3>4. Due(v)' = IF record'.known THEN record'.cost ELSE Reservation[v]
      BY <1>1, <1>2, <3>1 DEF Due, Charged
    <3>5. Trusted(v) => billed[v] <= account[v].committed
      BY <1>8, <3>1, <3>2 DEF Money
    <3>6. Trusted(v) => b <= Due(v)'
      BY <1>6, <3>4 DEF Trusted, HardCap
    <3>7. Due(v)' \in Nat
      BY <1>8, <3>4
    <3>8. Trusted(v)' => billed'[v] <= account'[v].committed + Due(v)'
      BY <1>1, <1>2, <1>8, <1>9, <3>5, <3>6, <3>7
    <3> QED BY <1>1, <1>2, <1>6, <2>2, <3>1, <3>2, <3>3, <3>8 DEF Money
  <2>3. CASE p # v
    BY <1>1, <1>9, <2>1, <2>3, MoneyFree
  <2> QED BY <2>2, <2>3
<1>13. Covered'
  <2>1. Carried'
    BY <1>1, <1>3, <1>4, <1>6, <1>7, CarriedOn
  <2> QED BY <1>1, <1>2, <2>1 DEF IInv, Covered, Paid, After
<1>14. Progress'
  BY <1>1, <1>2 DEF IInv, Progress, Entire, Begun, Told, Before, InLoop, After
<1>15. Output'
  BY <1>1, OutputKept DEF InLoop
<1> QED BY <1>10, <1>11, <1>12, <1>13, <1>14, <1>15 DEF IInv

\* A call of the rules has no provider.
LEMMA RouteLocalStep ==
    ASSUME IInv, UNCHANGED plan, RouteLocal
    PROVE  IInv'
<1>1. /\ UNCHANGED <<position, account, stopReason, errors, executed, announced,
                     recorded, ending, billed>>
      /\ UNCHANGED <<redacted, journal, artifact, exit>>
      /\ pc = "call" /\ ~Paid(position) /\ pc' = "settle" /\ touched' \in {touched, TRUE}
      /\ record' \in LocalOutcomes
  BY DEF RouteLocal, Touches, cli
<1>2. Schedule' = Schedule /\ Calls' = Calls /\ MaxCall' = MaxCall
  BY Fixed
<1>3. record' \in Records
  BY <1>1, RecordFields DEF LocalOutcomes
<1>4. TypeOK'
  BY <1>1, <1>2, <1>3 DEF IInv, TypeOK, InLoop
<1>5. Place'
  BY <1>1, <1>2 DEF IInv, Place, Before, Router, After
<1>6. \A p \in Providers : Money(p)'
  <2>1. \A p \in Providers : ~InHand(p) /\ ~InHand(p)'
    BY <1>1, <1>2 DEF InHand, Provider, Router, Paid, Providers
  <2> QED BY <1>1, <2>1, MoneyFree
<1>7. Covered'
  <2>1. Made' = Made
    BY <1>1 DEF IInv, Covered, Made
  <2>2. Carried'
    BY <1>1, <1>2, <2>1 DEF IInv, Covered, Carried
  <2> QED BY <1>1, <1>2, <2>2 DEF IInv, Covered, Paid, After
<1>8. Progress'
  BY <1>1, <1>2 DEF IInv, Progress, Entire, Begun, Told, Before, InLoop, After
<1>9. Output'
  BY <1>1, OutputKept DEF InLoop
<1> QED BY <1>4, <1>5, <1>6, <1>7, <1>8, <1>9 DEF IInv

\* The reservation gives way to what is known of the cost; only one call over
\* its reservation can pass the cap.
LEMMA SettlePaidStep ==
    ASSUME IInv, UNCHANGED plan, Settle, Paid(position)
    PROVE  IInv'
<1>1. /\ UNCHANGED <<position, errors, record, touched, announced, recorded, ending, billed>>
      /\ UNCHANGED <<redacted, journal, artifact, exit>>
      /\ pc = "settle" /\ pc' = "record" /\ executed' = executed + 1
      /\ account' = Settled(Provider)
      /\ stopReason' = IF Exceeded(Provider) THEN "exceeded" ELSE stopReason
  BY DEF Settle, cli
<1>2. /\ Schedule' = Schedule /\ Calls' = Calls /\ Len(Schedule) \in Nat
      /\ Reservation' = Reservation /\ MaxCall' = MaxCall /\ CostCap' = CostCap
      /\ \A p \in Providers : Trusted(p)' = Trusted(p)
  BY Fixed, PlanFacts DEF IInv
<1>3. position \in Calls /\ Schedule[position] \in Routers
      /\ stopReason = "none" /\ executed <= position - 1
  BY <1>1, PlanFacts DEF IInv, Place, Progress, InLoop, After
<1>4. PICK v \in Providers : v = Provider
  BY <1>3, ProviderFacts DEF Provider, Router, Paid
<1>5. InHand(v) /\ Outstanding(v) /\ Money(v) /\ Due(v) = Charged(v)
  BY <1>1, <1>3, <1>4 DEF InHand, Outstanding, IInv, Due
<1>6. /\ MaxCall[v] \in Nat /\ Reservation[v] \in Nat /\ CostCap[v] \in Nat
      /\ Reservation[v] <= MaxCall[v] /\ billed[v] \in Nat
      /\ record.cost \in Nat /\ record.known \in BOOLEAN
      /\ account[v] \in [requests : Nat, committed : Nat, reserved : Nat]
  BY PlanFacts DEF IInv, TypeOK, Records
<1>7. /\ account[v].reserved = Reservation[v] /\ record.cost <= MaxCall[v]
      /\ account[v].committed + account[v].reserved <= CostCap[v]
      /\ Trusted(v) => billed[v] <= account[v].committed + Charged(v)
  BY <1>1, <1>5 DEF Money, Exposure
<1>8. Charged(v) \in Nat /\ Charged(v) <= MaxCall[v]
      /\ (~Exceeded(v) => Charged(v) <= Reservation[v])
  BY <1>6, <1>7 DEF Charged, Exceeded
<1> DEFINE c == Charged(v)
           d == account[v].reserved - Reservation[v]
<1>9. d = 0 /\ account' = [account EXCEPT ![v].reserved = d, ![v].committed = @ + c]
  BY <1>1, <1>4, <1>6, <1>7 DEF Settled
<1> HIDE DEF c
<1>10. /\ account' \in [Providers -> [requests : Nat, committed : Nat, reserved : Nat]]
       /\ account'[v].requests = account[v].requests
       /\ account'[v].committed = account[v].committed + c
       /\ account'[v].reserved = 0
       /\ \A p \in Providers : p # v => account'[p] = account[p]
  <2> DEFINE freed == [account EXCEPT ![v].reserved = 0]
  <2>1. account \in [Providers -> [requests : Nat, committed : Nat, reserved : Nat]]
    BY DEF IInv, TypeOK
  <2>2. /\ freed \in [Providers -> [requests : Nat, committed : Nat, reserved : Nat]]
        /\ freed[v].requests = account[v].requests
        /\ freed[v].committed = account[v].committed
        /\ freed[v].reserved = 0
        /\ \A p \in Providers : p # v => freed[p] = account[p]
    BY <2>1
  <2>3. account' = [freed EXCEPT ![v].committed = @ + c]
    BY <1>9
  <2>4. freed[v].committed + c \in Nat
    BY <1>6, <1>8, <2>2 DEF c
  <2> HIDE DEF freed
  <2> QED BY <2>2, <2>3, <2>4
<1>11. \A p \in Providers : account'[p].requests = account[p].requests
  BY <1>10
<1>12. TypeOK'
  <2>1. executed' \in 0..Len(Schedule)
    BY <1>1, <1>2, <1>3 DEF IInv, TypeOK, Calls
  <2> QED BY <1>1, <1>2, <1>10, <2>1 DEF IInv, TypeOK, InLoop, StopReasons
<1>13. Place'
  BY <1>1, <1>2 DEF IInv, Place, Before, Router
<1>14. \A p \in Providers : Money(p)'
  <2> TAKE p \in Providers
  <2>1. CASE p = v
    <3>1. ~Outstanding(v)' /\ ~InHand(v)' /\ Due(v)' = 0
      BY <1>1 DEF Outstanding, InHand, Due
    <3>2. Exposure(v)' = account[v].committed + c
      BY <1>6, <1>8, <1>10 DEF Exposure, c
    <3>3. account[v].committed + c <= CostCap[v] + (MaxCall[v] - Reservation[v])
      BY <1>6, <1>7, <1>8 DEF c
    <3>4. account[v].committed + c > CostCap[v] => stopReason' # "none"
      BY <1>1, <1>4, <1>6, <1>7, <1>8 DEF c
    <3>5. Trusted(v)' => billed'[v] <= account'[v].committed + Due(v)'
      BY <1>1, <1>2, <1>6, <1>7, <1>8, <1>10, <3>1 DEF c
    <3> QED BY <1>1, <1>2, <1>10, <2>1, <3>1, <3>2, <3>3, <3>4, <3>5 DEF Money
  <2>2. CASE p # v
    <3>1. ~InHand(p) /\ ~InHand(p)'
      BY <1>1, <1>4, <2>2 DEF InHand
    <3> QED BY <1>1, <1>3, <1>10, <2>2, <3>1, MoneyFree
  <2> QED BY <2>1, <2>2
<1>15. Covered'
  <2>1. Made' = Made
    BY <1>1 DEF Made
  <2>2. Carried'
    BY <1>1, <1>2, <2>1 DEF IInv, Covered, Carried
  <2> QED BY <1>1, <1>2, <2>2 DEF IInv, Covered, Paid, After
<1>16. Progress'
  <2>1. executed = position - 1 => Entire(position, position, position - 1)
    BY <1>1 DEF IInv, Progress, InLoop, Begun, Told, Before
  <2>2. executed' <= position /\ (executed' = position => executed = position - 1)
    BY <1>1, <1>2, <1>3 DEF IInv, TypeOK, Calls
  <2>3. Entire(position, position, position - 1) => Entire(position, position, position - 1)'
    BY <1>1, <1>2, <1>11 DEF Entire
  <2> QED BY <1>1, <2>1, <2>2, <2>3 DEF Progress, Begun, Told, Before, InLoop, After
<1>17. Output'
  BY <1>1, OutputKept DEF InLoop
<1> QED BY <1>12, <1>13, <1>14, <1>15, <1>16, <1>17 DEF IInv

\* A call of a local router has nothing to settle.
LEMMA SettleLocalStep ==
    ASSUME IInv, UNCHANGED plan, Settle, ~Paid(position)
    PROVE  IInv'
<1>1. /\ UNCHANGED <<position, account, stopReason, errors, record, touched, announced,
                     recorded, ending, billed>>
      /\ UNCHANGED <<redacted, journal, artifact, exit>>
      /\ pc = "settle" /\ pc' = "record" /\ executed' = executed + 1
  BY DEF Settle, cli
<1>2. Schedule' = Schedule /\ Calls' = Calls /\ MaxCall' = MaxCall /\ Len(Schedule) \in Nat
  BY Fixed, PlanFacts DEF IInv
<1>3. position \in Calls /\ executed <= position - 1
  BY <1>1 DEF IInv, Place, Progress, InLoop
<1>4. TypeOK'
  <2>1. executed' \in 0..Len(Schedule)
    BY <1>1, <1>2, <1>3 DEF IInv, TypeOK, Calls
  <2> QED BY <1>1, <1>2, <2>1 DEF IInv, TypeOK, InLoop
<1>5. Place'
  BY <1>1, <1>2 DEF IInv, Place, Before, Router, After
<1>6. \A p \in Providers : Money(p)'
  <2>1. \A p \in Providers : ~InHand(p) /\ ~InHand(p)'
    BY <1>1, <1>2 DEF InHand, Provider, Router, Paid, Providers
  <2> QED BY <1>1, <2>1, MoneyFree
<1>7. Covered'
  <2>1. Made' = Made
    BY <1>1 DEF Made
  <2>2. Carried'
    BY <1>1, <1>2, <2>1 DEF IInv, Covered, Carried
  <2> QED BY <1>1, <1>2, <2>2 DEF IInv, Covered, Paid, After
<1>8. Progress'
  <2>1. executed = position - 1 => Entire(position, position, position - 1)
    BY <1>1 DEF IInv, Progress, InLoop, Begun, Told, Before
  <2>2. executed' <= position /\ (executed' = position => executed = position - 1)
    BY <1>1, <1>2, <1>3 DEF IInv, TypeOK, Calls
  <2>3. Entire(position, position, position - 1) => Entire(position, position, position - 1)'
    BY <1>1, <1>2 DEF Entire
  <2> QED BY <1>1, <2>1, <2>2, <2>3 DEF Progress, Begun, Told, Before, InLoop, After
<1>9. Output'
  BY <1>1, OutputKept DEF InLoop
<1> QED BY <1>4, <1>5, <1>6, <1>7, <1>8, <1>9 DEF IInv

\* The record covers the call, whether the run goes on or stops.
LEMMA RecordStep ==
    ASSUME IInv, UNCHANGED plan, Record
    PROVE  IInv'
<1>1. /\ UNCHANGED <<account, record, executed, touched, announced, ending, billed,
                     journal, artifact, exit>>
      /\ pc = "record" /\ recorded' = recorded \cup {position}
      /\ redacted' \in {redacted, TRUE}
      /\ stopReason' \in {"harness", "failure", stopReason}
      /\ \/ stopReason' # "none" /\ pc' = "finish" /\ UNCHANGED <<position, errors>>
         \/ /\ stopReason' = "none" /\ pc' = "next" /\ position' = position + 1
            /\ errors' = [errors EXCEPT ![Router] = IF record.infra THEN @ + 1 ELSE 0]
  BY DEF Record, Redactions
<1>2. Schedule' = Schedule /\ Calls' = Calls /\ MaxCall' = MaxCall /\ Len(Schedule) \in Nat
  BY Fixed, PlanFacts DEF IInv
<1>3. /\ position \in Calls /\ Router \in Routers /\ errors[Router] < InfraLimit
      /\ executed <= position /\ position \in Nat
      /\ executed = position => Entire(position, position, position - 1)
  <2>1. executed <= position
        /\ (executed = position => Entire(position, position, position - 1))
    BY <1>1 DEF IInv, Progress, InLoop, Begun, Told, Before
  <2> QED BY <1>1, <1>2, <2>1, PlanFacts DEF IInv, Place, Router, Calls
<1>4. TypeOK'
  <2>1. position' \in 1..(Len(Schedule) + 1)
    BY <1>1, <1>2, <1>3 DEF Calls
  <2>2. errors' \in [Routers -> 0..InfraLimit]
    <3>1. errors \in [Routers -> 0..InfraLimit] /\ InfraLimit \in Nat
      BY LimitAssumption DEF IInv, TypeOK
    <3>2. errors[Router] + 1 \in 0..InfraLimit /\ 0 \in 0..InfraLimit
      BY <1>3, <3>1
    <3> QED BY <1>1, <3>1, <3>2
  <2>3. recorded' \subseteq Calls /\ stopReason' \in StopReasons /\ redacted' \in BOOLEAN
    BY <1>1, <1>3 DEF IInv, TypeOK, StopReasons
  <2>4. pc' \in InLoop \cup {"finish"}
    BY <1>1 DEF InLoop
  <2> QED BY <1>1, <1>2, <2>1, <2>2, <2>3, <2>4 DEF IInv, TypeOK
<1>5. Place'
  BY <1>1 DEF IInv, Place, Before, After
<1>6. \A p \in Providers : Money(p)'
  <2>1. \A p \in Providers : ~InHand(p) /\ ~InHand(p)'
    BY <1>1 DEF InHand
  <2>2. stopReason # "none" => stopReason' # "none"
    BY <1>1
  <2> QED BY <1>1, <2>1, <2>2, MoneyFree
<1>7. Covered'
  <2>1. Made' = Made
    BY <1>1 DEF Made
  <2>2. Carried'
    BY <1>1, <1>2, <2>1 DEF IInv, Covered, Carried
  <2>3. announced \subseteq recorded'
    BY <1>1 DEF IInv, Covered
  <2>4. \A i \in announced : Paid(i)' /\ i <= position' /\ (pc' = "next" => i # position')
    BY <1>1, <1>2, <1>3 DEF IInv, TypeOK, Covered, Paid, Calls
  <2>5. ending' = "none"
    BY <1>1 DEF IInv, Covered, After
  <2> QED BY <1>1, <2>2, <2>3, <2>4, <2>5 DEF Covered
<1>8. Progress'
  <2>1. CASE pc' = "finish"
    BY <2>1 DEF Progress, Before, InLoop, After
  <2>2. CASE pc' = "next"
    <3>0. PICK n : n = position
      OBVIOUS
    <3>1. position' = n + 1 /\ position' - 1 = n /\ n \in Nat
      BY <1>1, <1>3, <2>2, <3>0
    <3>2. 1..position = (1..(position - 1)) \cup {position}
      BY <1>2, <1>3 DEF Calls
    <3>3. Entire(position, position, position - 1)
             => Entire(n, n, n)'
      BY <1>1, <1>2, <3>0, <3>2 DEF Entire
    <3>4. executed' <= n /\ (executed' = n => Entire(n, n, n)')
      BY <1>1, <1>3, <3>0, <3>3
    <3> QED BY <2>2, <3>1, <3>4 DEF Progress, Begun, Told, Before, InLoop, After
  <2> QED BY <1>1, <2>1, <2>2
<1>9. Output'
  BY <1>1, OutputKept DEF InLoop
<1> QED BY <1>4, <1>5, <1>6, <1>7, <1>8, <1>9 DEF IInv

\* The end of the loop: without a reason to stop, every call was come to.
LEMMA FinishStep ==
    ASSUME IInv, UNCHANGED plan, Finish
    PROVE  IInv'
<1>1. /\ UNCHANGED <<position, account, stopReason, errors, record, executed, touched,
                     announced, recorded, billed>>
      /\ UNCHANGED <<redacted, journal, artifact, exit>>
      /\ pc = "finish" \/ (pc = "next" /\ position = Len(Schedule) + 1)
      /\ pc' = "returned"
      /\ ending' = IF stopReason = "none" THEN "run_finished" ELSE "run_stopped"
  BY DEF Finish, Exhausted, cli
<1>2. Schedule' = Schedule /\ Calls' = Calls /\ MaxCall' = MaxCall /\ Len(Schedule) \in Nat
  BY Fixed, PlanFacts DEF IInv
<1>3. TypeOK'
  BY <1>1, <1>2 DEF IInv, TypeOK, After
<1>4. Place'
  BY <1>1 DEF IInv, Place, Before, After
<1>5. \A p \in Providers : Money(p)'
  <2>1. \A p \in Providers : ~InHand(p) /\ ~InHand(p)'
    BY <1>1 DEF InHand
  <2> QED BY <1>1, <2>1, MoneyFree
<1>6. Covered'
  <2>1. Made' = Made
    BY <1>1 DEF Made
  <2>2. Carried'
    BY <1>1, <1>2, <2>1 DEF IInv, Covered, Carried
  <2> QED BY <1>1, <1>2, <2>2 DEF IInv, Covered, Paid, After
<1>7. Progress'
  <2>1. pc' \notin Before \cup InLoop
    BY <1>1 DEF Before, InLoop
  <2>2. ASSUME Complete'
        PROVE  Entire(Len(Schedule), Len(Schedule), Len(Schedule))'
    <3> DEFINE L == Len(Schedule)
    <3>1. stopReason = "none" /\ executed = L
      BY <1>1, <1>2, <2>2 DEF Complete
    <3>2. pc = "next" /\ position = L + 1 /\ position - 1 = L
      BY <1>1, <1>2, <3>1 DEF IInv, Place
    <3>3. Entire(L, L, L)
      BY <3>1, <3>2 DEF IInv, Progress, InLoop, Begun, Told
    <3> QED BY <1>1, <1>2, <3>3 DEF Entire
  <2> QED BY <2>1, <2>2 DEF Progress
<1>8. Output'
  BY <1>1 DEF IInv, Output, InLoop, After
<1> QED BY <1>3, <1>4, <1>5, <1>6, <1>7, <1>8 DEF IInv

\* An interrupt keeps the reservation of the call it cuts, which covers it.
LEMMA InterruptStep ==
    ASSUME IInv, UNCHANGED plan, Interrupt
    PROVE  IInv'
<1>1. /\ UNCHANGED <<position, account, stopReason, errors, record, executed, touched,
                     announced, recorded>>
      /\ UNCHANGED <<redacted, journal, artifact, exit>>
      /\ pc \in InLoop \cup {"opened", "finish"} /\ pc' = "raised"
      /\ ending' \in {"run_interrupted", "none"}
      /\ ~(pc = "call" /\ Paid(position)) => billed' = billed
  BY DEF Interrupt, cli
<1>2. /\ Schedule' = Schedule /\ Calls' = Calls
      /\ Reservation' = Reservation /\ MaxCall' = MaxCall /\ CostCap' = CostCap
      /\ \A p \in Providers : Trusted(p)' = Trusted(p)
  BY Fixed
<1>3. /\ billed' \in [Providers -> Nat] /\ Carried'
      /\ \A p \in Providers : /\ ~(pc = "call" /\ InHand(p)) => billed'[p] = billed[p]
                              /\ billed'[p] <= billed[p] + MaxCall[p]
  <2>1. CASE pc = "call" /\ Paid(position)
    <3>1. position \in Calls /\ Schedule[position] \in Routers
      BY <2>1, PlanFacts DEF IInv, Place
    <3>2. PICK v \in Providers : v = Provider
      BY <2>1, <3>1, ProviderFacts DEF Provider, Router, Paid
    <3>3. PICK b \in 0..MaxCall[v] : billed' = [billed EXCEPT ![v] = @ + b]
      BY <2>1, <3>2 DEF Interrupt, Bills
    <3>4. MaxCall[v] \in Nat /\ billed \in [Providers -> Nat] /\ b \in Nat /\ b <= MaxCall[v]
      BY PlanFacts DEF IInv, TypeOK
    <3>5. \A p \in Providers : MaxCall[p] \in Nat /\ billed[p] \in Nat
      BY <3>4, PlanFacts DEF IInv
    <3>6. Carried'
      BY <1>1, <2>1, <3>1, <3>2, <3>3, CarriedOn
    <3>7. billed'[v] = billed[v] + b /\ \A p \in Providers : p # v => billed'[p] = billed[p]
      BY <3>3, <3>4
    <3>8. InHand(v)
      BY <2>1, <3>1, <3>2 DEF InHand
    <3> QED BY <2>1, <3>3, <3>4, <3>5, <3>6, <3>7, <3>8
  <2>2. CASE ~(pc = "call" /\ Paid(position))
    <3>1. billed' = billed /\ \A p \in Providers : MaxCall[p] \in Nat /\ billed[p] \in Nat
      BY <1>1, <2>2, PlanFacts DEF IInv, TypeOK
    <3>2. Made' = Made
      BY <1>1, <2>2 DEF IInv, Covered, Made
    <3>3. Carried'
      BY <1>1, <1>2, <3>1, <3>2 DEF IInv, Covered, Carried
    <3> QED BY <3>1, <3>3 DEF IInv, TypeOK
  <2> QED BY <2>1, <2>2
<1>4. TypeOK'
  BY <1>1, <1>2, <1>3 DEF IInv, TypeOK
<1>5. Place'
  BY <1>1 DEF IInv, Place, Before
<1>6. \A p \in Providers : Money(p)'
  <2> TAKE p \in Providers
  <2>1. Money(p) /\ pc # "raised"
    BY <1>1 DEF IInv, InLoop
  <2>2. /\ MaxCall[p] \in Nat /\ Reservation[p] \in Nat /\ CostCap[p] \in Nat
        /\ billed[p] \in Nat /\ billed'[p] \in Nat
        /\ record.cost \in Nat /\ record.known \in BOOLEAN
        /\ account[p] \in [requests : Nat, committed : Nat, reserved : Nat]
    BY <1>3, PlanFacts DEF IInv, TypeOK, Records
  <2>3. Exposure(p)' = Exposure(p) /\ ~InHand(p)' /\ Due(p)' = account[p].reserved
    BY <1>1 DEF Exposure, InHand, Due
  <2>4. account[p].reserved = IF InHand(p) THEN Reservation[p] ELSE 0
    BY <2>1 DEF Money, Outstanding, InHand
  <2>5. account'[p].reserved = IF Outstanding(p)' THEN Reservation[p] ELSE 0
    <3>1. InHand(p) => (Outstanding(p)' <=> account[p].reserved > 0)
      BY <1>1, <1>2 DEF InHand, Outstanding, Provider, Router
    <3>2. Outstanding(p)' => account[p].reserved > 0
      BY <1>1 DEF Outstanding
    <3> QED BY <1>1, <2>2, <2>4, <3>1, <3>2
  <2>6. Trusted(p) => billed'[p] <= account[p].committed + account[p].reserved
    <3> SUFFICES ASSUME Trusted(p)
                 PROVE  billed'[p] <= account[p].committed + account[p].reserved
      OBVIOUS
    <3>1. billed[p] <= account[p].committed + Due(p) /\ Reservation[p] = MaxCall[p]
      BY <2>1 DEF Money, Trusted, HardCap
    <3>2. CASE InHand(p) /\ pc = "settle"
      <4>1. Due(p) = Charged(p) /\ record.cost <= MaxCall[p]
        BY <2>1, <3>2 DEF Due, Money
      <4> QED BY <1>3, <2>2, <2>4, <3>1, <3>2, <4>1 DEF Charged
    <3>3. CASE InHand(p) /\ pc # "settle"
      <4>1. Due(p) = 0
        BY <2>1, <3>3 DEF Due
      <4> QED BY <1>3, <2>2, <2>4, <3>1, <3>3, <4>1
    <3>4. CASE ~InHand(p)
      <4>1. Due(p) = 0
        BY <2>1, <3>4 DEF Due
      <4> QED BY <1>3, <2>2, <2>4, <3>1, <3>4, <4>1
    <3> QED BY <3>2, <3>3, <3>4
  <2> QED BY <1>1, <1>2, <2>1, <2>3, <2>5, <2>6 DEF Money
<1>7. Covered'
  BY <1>1, <1>2, <1>3 DEF IInv, Covered, Paid, Before, InLoop
<1>8. Progress'
  BY <1>1 DEF Progress, Before, InLoop, After
<1>9. Output'
  BY <1>1 DEF IInv, Output, InLoop, After
<1> QED BY <1>4, <1>5, <1>6, <1>7, <1>8, <1>9 DEF IInv
-----------------------------------------------------------------------------
(* The theorems *)

\* A process that has done nothing owes nothing.
LEMMA Initially == Init => IInv
<1> SUFFICES ASSUME Init PROVE IInv
  OBVIOUS
<1>1. /\ account = NewAccounts /\ billed = [p \in Providers |-> 0]
      /\ pc = "start" /\ position = 1 /\ stopReason = "none" /\ record = NoRecord
      /\ executed = 0 /\ announced = {} /\ recorded = {} /\ ending = "none" /\ exit = 0
      /\ plan \in Plans
  BY DEF Init
<1>2. IsPlan(plan)
  BY <1>1, PlansAssumption
<1>3. Len(Schedule) \in Nat
  BY <1>2 DEF IsPlan, Schedule
<1>4. /\ \A p \in Providers : /\ account[p] \in [requests : Nat, committed : Nat, reserved : Nat]
                              /\ account[p].requests = 0 /\ account[p].committed = 0
                              /\ account[p].reserved = 0
      /\ account \in [Providers -> [requests : Nat, committed : Nat, reserved : Nat]]
  BY <1>1 DEF NewAccounts
<1>5. TypeOK
  <2>1. NoRecord \in Records
    BY DEF NoRecord, Records
  <2>2. errors \in [Routers -> 0..InfraLimit]
    BY LimitAssumption DEF Init
  <2>3. touched \in BOOLEAN /\ redacted \in BOOLEAN
    BY Zenon DEF Init
  <2>5. billed \in [Providers -> Nat]
    BY <1>1
  <2>4. position \in 1..(Len(Schedule) + 1) /\ executed \in 0..Len(Schedule)
    BY <1>1, <1>3
  <2> QED BY <1>1, <1>4, <2>1, <2>2, <2>3, <2>4, <2>5 DEF Init, TypeOK, Before, StopReasons
<1>6. Place /\ Output
  BY DEF Init, Place, Output, Before, After, InLoop
<1>7. ASSUME NEW p \in Providers PROVE Money(p)
  <2>1. /\ MaxCall[p] \in Nat /\ Reservation[p] \in Nat /\ CostCap[p] \in Nat
        /\ Reservation[p] <= MaxCall[p]
    BY <1>5, PlanFacts
  <2>2. ~Outstanding(p) /\ ~InHand(p) /\ Due(p) = 0 /\ Exposure(p) = 0 /\ billed[p] = 0
    BY <1>1, <1>4 DEF Outstanding, InHand, Due, Exposure
  <2> QED BY <1>1, <1>4, <2>1, <2>2 DEF Money
<1>8. \A S : S = {} => \A p : CallsOf(Schedule, p, S) = {} /\ Cardinality({}) = 0
  BY FS_EmptySet DEF CallsOf
<1>9. Covered
  <2>1. Made = {}
    BY <1>1 DEF Made
  <2>2. Carried
    <3> SUFFICES ASSUME NEW p \in Providers
                 PROVE  billed[p] <= MaxCall[p] * Cardinality(CallsOf(Schedule, p, Made))
      BY DEF Carried
    <3>1. Cardinality(CallsOf(Schedule, p, Made)) = 0 /\ billed[p] = 0
      BY <1>1, <1>8, <2>1
    <3>2. MaxCall[p] \in Nat
      BY <1>5, PlanFacts
    <3>3. MaxCall[p] * 0 = 0
      BY <3>2
    <3> QED BY <3>1, <3>3
  <2> QED BY <1>1, <2>2 DEF Covered
<1>10. Progress
  <2>1. Entire(0, 0, 0)
    <3>1. 1..0 = {}
      OBVIOUS
    <3> QED BY <1>1, <1>4, <1>8, <3>1 DEF Entire, PaidUpTo
  <2> QED BY <1>1, <2>1 DEF Progress, Begun, Told, Before, After
<1> QED BY <1>5, <1>6, <1>7, <1>9, <1>10 DEF IInv

\* Every step keeps it.
LEMMA Inductive == IInv /\ [Next]_vars => IInv'
<1> SUFFICES ASSUME IInv, [Next]_vars PROVE IInv'
  OBVIOUS
<1>1. CASE UNCHANGED vars
  <2>1. UNCHANGED <<plan, pc, position, account, stopReason, errors, record, executed,
                    touched, announced, recorded, ending, billed, redacted, journal,
                    artifact, exit>>
    BY <1>1 DEF vars, run, cli
  <2>2. /\ Schedule' = Schedule /\ Calls' = Calls /\ Reservation' = Reservation
        /\ MaxCall' = MaxCall /\ CostCap' = CostCap
        /\ \A p \in Providers : Trusted(p)' = Trusted(p)
    BY <2>1, Fixed
  <2>3. TypeOK'
    BY <2>1, <2>2 DEF IInv, TypeOK
  <2>4. Place' /\ Output'
    BY <2>1, <2>2 DEF IInv, Place, Router, Paid, Output, Complete
  <2>5. \A p \in Providers : Money(p)'
    BY <2>1, <2>2
       DEF IInv, Money, Outstanding, InHand, Due, Charged, Exposure, Provider, Router
  <2>6. Covered' /\ Progress'
    BY <2>1, <2>2
       DEF IInv, Covered, Carried, Made, Paid, Progress, Entire, Begun, Told, Complete
  <2> QED BY <2>3, <2>4, <2>5, <2>6 DEF IInv
<1>2. CASE Next
  <2>1. UNCHANGED plan
    BY <1>2 DEF Next, Step
  <2>2. CASE Main
    <3>1. CASE Refuse \/ BuildRouters \/ RefuseInfeasible \/ Open \/ OpenRaises \/ Start
      BY <2>1, <3>1, EntryStep
    <3>2. CASE Begin
      BY <2>1, <3>2, SkipStep, BeginLocalStep, RefusedStep, ReserveStep, AnnounceStep
         DEF Begin
    <3>3. CASE RoutePaid \/ RouteLocal \/ Settle \/ Record \/ Finish
      BY <2>1, <3>3, RoutePaidStep, RouteLocalStep, SettlePaidStep, SettleLocalStep,
         RecordStep, FinishStep
    <3>4. CASE Report
      BY <2>1, <3>4, ReportStep
    <3> QED BY <2>2, <3>1, <3>2, <3>3, <3>4 DEF Main, Loop
  <2>3. CASE Interrupt \/ Other
    BY <2>1, <2>3, InterruptStep, OtherStep
  <2> QED BY <1>2, <2>2, <2>3 DEF Next, Step
<1> QED BY <1>1, <1>2

\* The invariant is one of the specification.
LEMMA Invariant == Spec => []IInv
BY Initially, Inductive, PTL DEF Spec

\* Where a reservation is the most a call can cost and replies carry their
\* usage, no sequence of calls, timeouts, harness errors and interrupts makes a
\* provider bill more than the ledger has reserved and committed, nor the ledger
\* more than its cap.
THEOREM BilledWithinCapHolds == Spec => []BilledWithinCap
<1>1. IInv => BilledWithinCap
  <2> SUFFICES ASSUME IInv, NEW p \in Providers, Trusted(p)
               PROVE  billed[p] <= Exposure(p) /\ Exposure(p) <= CostCap[p]
    BY DEF BilledWithinCap, Trusted
  <2>1. Money(p) /\ Reservation[p] = MaxCall[p]
    BY DEF IInv, Trusted, HardCap
  <2>2. /\ MaxCall[p] \in Nat /\ Reservation[p] \in Nat /\ CostCap[p] \in Nat
        /\ billed[p] \in Nat /\ record.cost \in Nat /\ record.known \in BOOLEAN
        /\ account[p] \in [requests : Nat, committed : Nat, reserved : Nat]
    BY PlanFacts DEF IInv, TypeOK, Records
  <2>3. Exposure(p) <= CostCap[p]
    BY <2>1, <2>2 DEF Money, Exposure
  <2>4. Due(p) <= account[p].reserved /\ Due(p) \in Nat
    <3>1. CASE pc = "settle" /\ InHand(p)
      <4>1. Outstanding(p) /\ record.cost <= MaxCall[p]
        BY <2>1, <3>1 DEF Money, InHand, Outstanding
      <4> QED BY <2>1, <2>2, <3>1, <4>1 DEF Money, Due, Charged
    <3>2. CASE ~(pc = "settle" /\ InHand(p))
      BY <2>2, <3>2 DEF Due
    <3> QED BY <3>1, <3>2
  <2>5. billed[p] <= Exposure(p)
    BY <2>1, <2>2, <2>4 DEF Money, Exposure
  <2> QED BY <2>3, <2>5
<1> QED BY <1>1, Invariant, PTL

\* Under any plan, what is committed passes a cap by the excess of one call at
\* most, and the run makes no other call once it has.
THEOREM OvershootIsOneCallHolds == Spec => []OvershootIsOneCall
<1>1. IInv => OvershootIsOneCall
  <2> SUFFICES ASSUME IInv, NEW p \in Providers
               PROVE  /\ account[p].committed <= CostCap[p] + (MaxCall[p] - Reservation[p])
                      /\ account[p].committed > CostCap[p]
                            => pc \notin {"next", "announce", "call"}
    BY DEF OvershootIsOneCall
  <2>1. Money(p) /\ Place
    BY DEF IInv
  <2>2. /\ MaxCall[p] \in Nat /\ Reservation[p] \in Nat /\ CostCap[p] \in Nat
        /\ account[p] \in [requests : Nat, committed : Nat, reserved : Nat]
    BY PlanFacts DEF IInv, TypeOK
  <2> QED BY <2>1, <2>2 DEF Money, Exposure, Place, After
<1> QED BY <1>1, Invariant, PTL

\* The journal is never behind the money: a provider bills announced calls only,
\* each once, and at most the call in hand was announced and not recorded.
THEOREM JournalCoversSpendHolds == Spec => []JournalCoversSpend
<1>1. IInv => JournalCoversSpend
  <2> SUFFICES ASSUME IInv PROVE JournalCoversSpend
    OBVIOUS
  <2>1. ASSUME NEW p \in Providers
        PROVE  billed[p] <= MaxCall[p] * Cardinality(CallsOf(Schedule, p, announced))
    <3>1. billed[p] <= MaxCall[p] * Cardinality(CallsOf(Schedule, p, Made))
      BY DEF IInv, Covered, Carried
    <3>2. IsFiniteSet(CallsOf(Schedule, p, announced))
      BY AnnouncedFinite, FS_Subset DEF IInv, CallsOf
    <3>3. CallsOf(Schedule, p, Made) \in SUBSET CallsOf(Schedule, p, announced)
      BY DEF CallsOf, Made
    <3> DEFINE m == Cardinality(CallsOf(Schedule, p, Made))
               a == Cardinality(CallsOf(Schedule, p, announced))
               c == MaxCall[p]
    <3>4. m \in Nat /\ a \in Nat /\ m <= a
      BY <3>2, <3>3, FS_Subset, FS_CardinalityType
    <3>5. c \in Nat /\ billed[p] \in Nat /\ billed[p] <= c * m
      BY <3>1, PlanFacts DEF IInv, TypeOK
    <3> HIDE DEF m, a, c
    <3>6. c * m <= c * a /\ c * m \in Nat /\ c * a \in Nat
      BY <3>4, <3>5
    <3>7. billed[p] <= c * a
      BY <3>5, <3>6
    <3> QED BY <3>7 DEF a, c
  <2> QED BY <2>1 DEF IInv, Covered, CallsOf, JournalCoversSpend
<1> QED BY <1>1, Invariant, PTL

\* No reservation outlives its call, and a router that failed InfraLimit times
\* in a row is called no more.
THEOREM LedgerSettledHolds == Spec => []LedgerSettled
<1>1. IInv => LedgerSettled
  BY DEF IInv, Money, Place, LedgerSettled
<1> QED BY <1>1, Invariant, PTL

\* A result that claims validity accounts for every scheduled call, and an exit
\* code says no more than the output path holds.
THEOREM ResultTruthHolds == Spec => []ResultTruth
<1>1. IInv => ResultTruth
  <2> SUFFICES ASSUME IInv PROVE ResultTruth
    OBVIOUS
  <2>1. Len(Schedule) \in Nat
    BY PlanFacts DEF IInv
  <2>2. Entire(Len(Schedule), Len(Schedule), Len(Schedule)) =>
           /\ recorded = Calls /\ announced = {i \in Calls : Paid(i)}
           /\ \A p \in Providers : account[p].requests = Planned(p)
    BY DEF Entire, Calls, PaidUpTo, Paid, CallsOf, Planned
  <2>3. pc \in After \cup {"exited"} /\ Complete => Entire(Len(Schedule), Len(Schedule), Len(Schedule))
    BY DEF IInv, Progress
  <2>4. ASSUME pc \in After \cup {"exited"}, stopReason = "none", NEW p \in Providers
        PROVE  account[p].reserved = 0 /\ account[p].committed <= CostCap[p]
    <3>1. Money(p)
      BY DEF IInv
    <3>2. ~Outstanding(p)
      BY <2>4 DEF Outstanding, After
    <3>3. CostCap[p] \in Nat
          /\ account[p] \in [requests : Nat, committed : Nat, reserved : Nat]
      BY PlanFacts DEF IInv, TypeOK
    <3> QED BY <2>4, <3>1, <3>2, <3>3 DEF Money
  <2>5. pc \in After \cup {"exited"} /\ Valid =>
          /\ recorded = Calls /\ announced = {i \in Calls : Paid(i)}
          /\ \A p \in Providers :
                account[p].requests = Planned(p) /\ account[p].reserved = 0
                /\ account[p].committed <= CostCap[p]
    BY <2>2, <2>3, <2>4 DEF Valid, Complete
  <2>6. pc = "exited" /\ exit = 0 => recorded = Calls
    BY <2>2, <2>3 DEF IInv, Output
  <2> QED BY <2>5, <2>6 DEF IInv, Output, ResultTruth
<1> QED BY <1>1, Invariant, PTL

\* No journal is replaced, nobody writes over this invocation's artifact, and
\* this invocation writes over nothing: its journal is what keeps a dry run out.
THEOREM EvidenceNeverReplacedHolds == Spec => EvidenceNeverReplaced
<1> DEFINE Kept == /\ journal # "none" => UNCHANGED journal
                   /\ artifact \in {"torn", "full", "minimal"} => UNCHANGED artifact
                   /\ artifact \in {"other", "dry"} => artifact' \in {artifact, "dry"}
<1>1. IInv /\ [Next]_vars => [Kept]_vars
  <2> SUFFICES ASSUME IInv, Next PROVE Kept
    OBVIOUS
  <2>1. CASE Main
    <3>1. CASE Refuse \/ BuildRouters \/ RefuseInfeasible \/ Open \/ OpenRaises \/ Start
      BY <3>1 DEF Refuse, BuildRouters, RefuseInfeasible, Open, JournalOpens, OpenRaises,
                  Start, cli
    <3>2. CASE Loop
      BY <3>2 DEF Loop, Begin, SkipStopped, BeginLocal, BeginPaid, Announce, RoutePaid,
                  RouteLocal, Settle, Record, Finish, cli
    <3>3. CASE Report
      BY <3>3 DEF Report, Metrics, RefuseArtifact, WriteFull, WriteMinimal, OutputRaises,
                  ArtifactOpens
    <3> QED BY <2>1, <3>1, <3>2, <3>3 DEF Main
  <2>2. CASE Interrupt
    BY <2>2 DEF Interrupt, cli
  <2>3. CASE Other
    <3>1. artifact \in {"torn", "full", "minimal"} => journal = "mine"
      BY DEF IInv, Output
    <3> QED BY <2>3, <3>1 DEF Other, OtherStarts, OtherIsLive, OtherIsDry
  <2> QED BY <2>1, <2>2, <2>3 DEF Next, Step
<1> QED BY <1>1, Invariant, PTL DEF Spec, EvidenceNeverReplaced
=============================================================================
