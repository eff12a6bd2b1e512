---------------------------- MODULE RouterBench ----------------------------
(***************************************************************************)
(* experiments/router_bench: a live invocation of cli.main, and in it      *)
(* runner.run over a frozen schedule, with the Ledger of safety.py in      *)
(* front of every paid call, the RunJournal of persistence.py around it,   *)
(* and the artifact that main writes from its result.                      *)
(*                                                                         *)
(* What a call really costs is known to the provider only.  The ledger     *)
(* learns it from recorded usage, takes it for zero when the request was   *)
(* not sent or rejected, and charges the reservation when it cannot tell.  *)
(* An interrupt may come at any step, a call included.  Another invocation *)
(* may have the same output path.  Money is counted in indivisible units;  *)
(* the 1e-12 of the comparisons only absorbs the rounding of floats.       *)
(***************************************************************************)
EXTENDS Naturals, Sequences, FiniteSets

CONSTANTS
    Plans,        \* what build_plan and build_verification_plan may return
    InfraLimit    \* CONSECUTIVE_INFRA_ERROR_LIMIT

Providers == {"bedrock", "typesafe"}
Routers == {"haiku", "rules", "jev"}
ProviderOf(r) == CASE r = "haiku" -> "bedrock" [] r = "jev" -> "typesafe"
                   [] OTHER -> "none"

\* schedule: the router of each call; reservation: worst_case_usd of each
\* provider's router; maxCall: the most one call of a provider can cost;
\* expected: what it costs on average; cap: cost_caps, per provider and total;
\* frozen: the Jev payload template and the rules have the fingerprints they
\* were frozen with; usageReported: the premise that a Bedrock reply always
\* carries its usage.
IsPlan(q) ==
    /\ q.schedule \in Seq(Routers)
    /\ q.reservation \in [Providers -> Nat] /\ q.maxCall \in [Providers -> Nat]
    /\ q.expected \in [Providers -> Nat]
    /\ q.cap \in [Providers \cup {"total"} -> Nat]
    /\ \A p \in Providers : q.reservation[p] <= q.maxCall[p]
    /\ q.stopOnFirstFailure \in BOOLEAN /\ q.frozen \in BOOLEAN
    /\ q.usageReported \in BOOLEAN

ASSUME PlansAssumption == \A q \in Plans : IsPlan(q)
ASSUME LimitAssumption == InfraLimit \in Nat \ {0}

VARIABLES
    plan,                  \* the plan of this invocation, which stays
    pc, position,          \* where the loop is, and at which call
    account, stopReason,   \* the ledger, and why the run stops
    errors,                \* consecutive infrastructure errors of each router
    record, executed,      \* the call's record, and len(records)
    touched,               \* downstream code was called or imported
    announced, recorded, ending,   \* the journal: calls with call_started and
                                   \* with a record, and its last line
    billed,                \* what the providers will bill
    redacted,              \* a record failed the safety check
    journal, artifact,     \* the two files of the output path
    exit                   \* exit_code, which counts once main has returned

cli == <<redacted, journal, artifact, exit>>
run == <<position, account, stopReason, errors, record, executed, touched,
         announced, recorded, ending, billed>>
vars == <<plan, pc, run, cli>>

Schedule == plan.schedule
Reservation == plan.reservation
MaxCall == plan.maxCall
CostCap == plan.cap

Calls == 1..Len(Schedule)
Router == Schedule[position]
Provider == ProviderOf(Router)
Paid(i) == ProviderOf(Schedule[i]) # "none"
Planned(p) == Cardinality({i \in Calls : ProviderOf(Schedule[i]) = p})

Before == {"start", "built", "opened"}
After == {"returned", "artifact", "write"}
InLoop == {"next", "announce", "call", "settle", "record"}
StopReasons == {"none", "budget", "exceeded", "harness", "failure"}

\* known: cost_usd is not None; infra, failure and harness: what the record says.
Records == [known : BOOLEAN, cost : Nat, infra : BOOLEAN, failure : BOOLEAN,
            harness : BOOLEAN]
NoRecord == [known |-> FALSE, cost |-> 0, infra |-> FALSE, failure |-> FALSE,
             harness |-> FALSE]

TypeOK ==
    /\ plan \in Plans
    /\ pc \in Before \cup InLoop \cup {"finish"} \cup After \cup {"exited", "raised"}
    /\ position \in 1..(Len(Schedule) + 1)
    /\ account \in [Providers -> [requests : Nat, committed : Nat, reserved : Nat]]
    /\ stopReason \in StopReasons
    /\ errors \in [Routers -> 0..InfraLimit]
    /\ record \in Records
    /\ executed \in 0..Len(Schedule)
    /\ touched \in BOOLEAN
    /\ announced \subseteq Calls /\ recorded \subseteq Calls
    /\ ending \in {"none", "run_interrupted", "run_stopped", "run_finished"}
    /\ billed \in [Providers -> Nat]
    /\ redacted \in BOOLEAN
    /\ journal \in {"none", "other", "mine"}
    /\ artifact \in {"none", "other", "dry", "torn", "full", "minimal"}
    /\ exit \in 0..3

NewAccounts == [p \in Providers |-> [requests |-> 0, committed |-> 0, reserved |-> 0]]

Init ==
    /\ plan \in Plans /\ pc = "start" /\ position = 1
    /\ account = NewAccounts
    /\ stopReason = "none" /\ errors = [r \in Routers |-> 0]
    /\ record = NoRecord /\ executed = 0 /\ touched = FALSE
    /\ announced = {} /\ recorded = {} /\ ending = "none"
    /\ billed = [p \in Providers |-> 0]
    /\ redacted = FALSE /\ journal \in {"none", "other"}
    /\ artifact \in {"none", "other"} /\ exit = 0

-----------------------------------------------------------------------------
(* Before the run *)

Expected(p) == Planned(p) * plan.expected[p]

\* _finish: the expected cost and one reservation of each provider the plan
\* calls fit its cap, the expected total the total's, and the payload template
\* and the rules are the frozen ones.
Feasible ==
    /\ plan.frozen
    /\ \A p \in Providers :
          Planned(p) > 0 => Expected(p) + Reservation[p] <= CostCap[p]
    /\ Expected("bedrock") + Expected("typesafe") <= CostCap["total"]

\* main refuses a live run for want of an authorization or of repetitions.
Refuse ==
    /\ pc = "start" /\ pc' = "exited" /\ exit' = 2
    /\ UNCHANGED <<run, redacted, journal, artifact>>

\* A router is built around a live client; or its model is not the pinned one,
\* or has no key; or its construction fails, as it does where the SDK would
\* retry a billed call.
BuildOutcomes == {"built", "exited", "raised"}

BuildRouters ==
    /\ pc = "start" /\ pc' \in BuildOutcomes
    /\ exit' = IF pc' = "exited" THEN 2 ELSE exit
    /\ UNCHANGED <<run, redacted, journal, artifact>>

RefuseInfeasible ==
    /\ pc = "built" /\ ~Feasible /\ pc' = "exited" /\ exit' = 2
    /\ UNCHANGED <<run, redacted, journal, artifact>>

\* RunJournal creates its file exclusively, or raises.
JournalOpens == journal = "none" /\ journal' = "mine"

Open ==
    /\ pc = "built" /\ Feasible /\ JournalOpens /\ pc' = "opened"
    /\ UNCHANGED <<run, redacted, artifact, exit>>

\* The file exists, or cannot be made; nothing is undone.
OpenRaises ==
    /\ pc = "built" /\ Feasible /\ pc' = "raised"
    /\ UNCHANGED <<run, cli>>

\* The provenance and run_started are on disk.
Start ==
    /\ pc = "opened" /\ pc' = "next"
    /\ UNCHANGED <<run, cli>>

-----------------------------------------------------------------------------
(* The ledger *)

Exposure(p) == account[p].committed + account[p].reserved

\* Ledger.reserve: the request cap (exactly the planned count), the
\* provider's cap and the total cap.
Affordable(p) ==
    /\ account[p].requests < Planned(p)
    /\ Exposure(p) + Reservation[p] <= CostCap[p]
    /\ Exposure("bedrock") + Exposure("typesafe") + Reservation[p] <= CostCap["total"]

Charged(p) == IF record.known THEN record.cost ELSE Reservation[p]

\* Mutant: a call of unknown usage is not charged.
SettledUnchargedIfUnknown(p) ==
    [account EXCEPT ![p].reserved = @ - Reservation[p],
                    ![p].committed = @ + record.cost]

\* Ledger.settle: the actual cost, or the whole reservation, replaces it.
Settled(p) == [account EXCEPT ![p].reserved = @ - Reservation[p],
                              ![p].committed = @ + Charged(p)]

\* Mutant: a call over its reservation is accounted for and the run goes on.
ExceededNever(p) == FALSE

Exceeded(p) == record.known /\ record.cost > Reservation[p]
-----------------------------------------------------------------------------
(* The loop *)

\* Mutant: a stopped router is tried again as soon as it comes up.
StoppedNever(r) == FALSE

Stopped(r) == errors[r] >= InfraLimit

\* Mutant: passing over a stopped router's call does not advance the loop.
SkippedStays == position

Skipped == position + 1

SkipStopped ==
    /\ pc = "next" /\ position \in Calls /\ Stopped(Router)
    /\ position' = Skipped
    /\ UNCHANGED <<pc, account, stopReason, errors, record, executed, touched,
                   announced, recorded, ending, billed, cli>>

BeginLocal ==
    /\ pc = "next" /\ position \in Calls /\ ~Stopped(Router) /\ ~Paid(position)
    /\ pc' = "call"
    /\ UNCHANGED <<position, account, stopReason, errors, record, executed,
                   touched, announced, recorded, ending, billed, cli>>

BeginPaid ==
    /\ pc = "next" /\ position \in Calls /\ ~Stopped(Router) /\ Paid(position)
    /\ IF Affordable(Provider)
       THEN /\ account' = [account EXCEPT ![Provider].requests = @ + 1,
                                          ![Provider].reserved = @ + Reservation[Provider]]
            /\ pc' = "announce" /\ UNCHANGED stopReason
       ELSE pc' = "finish" /\ stopReason' = "budget" /\ UNCHANGED account
    /\ UNCHANGED <<position, errors, record, executed, touched, announced,
                   recorded, ending, billed, cli>>

\* Mutant: the announcement is left for after the call.
AnnouncementSkipped == announced

\* call_started is flushed and fsynced before the call.
Announcement == announced \cup {position}

Announce ==
    /\ pc = "announce" /\ pc' = "call"
    /\ announced' = Announcement
    /\ UNCHANGED <<position, account, stopReason, errors, record, executed,
                   touched, recorded, ending, billed, cli>>

Bills(p) == 0..MaxCall[p]
Reply(cost) == [NoRecord EXCEPT !.known = TRUE, !.cost = cost]
Failed(rec) == [rec EXCEPT !.failure = TRUE]
Unanswered == [Failed(NoRecord) EXCEPT !.infra = TRUE]
HarnessError == [Failed(NoRecord) EXCEPT !.harness = TRUE]

\* What route() may return for a paid call, and what the call is billed.
\* HaikuRouter: a reply, parsed or not, at the cost of its usage (missing
\* usage counts as no tokens); a request not sent or rejected, at no cost; an
\* error whose cost is unknown.
HaikuOutcomes ==
    {<<Reply(b), b>> : b \in Bills("bedrock")}
    \cup {<<Failed(Reply(b)), b>> : b \in Bills("bedrock")}
    \cup {<<[Unanswered EXCEPT !.known = TRUE], 0>>}
    \cup {<<Unanswered, b>> : b \in Bills("bedrock")}
    \cup {<<Reply(0), b>> : b \in {x \in Bills("bedrock") : ~plan.usageReported}}

\* JevClient.post gets no answer, or one that is not 200.
CallErrors == {<<Unanswered, b>> : b \in Bills("typesafe")}

\* validate_jev_response accepts a reply with its usage, or makes nothing of it.
Validated == {<<Reply(b), b>> : b \in Bills("typesafe")}
             \cup {<<Failed(NoRecord), b>> : b \in Bills("typesafe")}

JevOutcomes == CallErrors \cup Validated

\* Any exception of route() becomes a harness error.
PaidOutcomes(p) ==
    (IF p = "bedrock" THEN HaikuOutcomes ELSE JevOutcomes)
    \cup {<<HarnessError, b>> : b \in Bills(p)}

\* The rules are local and free, and may only fail as a harness.
LocalOutcomes == {Reply(0), HarnessError}

\* The tripwire: a downstream entry point was called, or its module imported.
Touches == {touched, TRUE}

RoutePaid ==
    /\ pc = "call" /\ Paid(position) /\ pc' = "settle"
    /\ \E outcome \in PaidOutcomes(Provider) :
          /\ record' = outcome[1]
          /\ billed' = [billed EXCEPT ![Provider] = @ + outcome[2]]
    /\ touched' \in Touches
    /\ UNCHANGED <<position, account, stopReason, errors, executed, announced,
                   recorded, ending, cli>>

RouteLocal ==
    /\ pc = "call" /\ ~Paid(position) /\ pc' = "settle"
    /\ record' \in LocalOutcomes
    /\ touched' \in Touches
    /\ UNCHANGED <<position, account, stopReason, errors, executed, announced,
                   recorded, ending, billed, cli>>

\* The reservation is settled, if there is one, and the record is kept.
Settle ==
    /\ pc = "settle" /\ pc' = "record"
    /\ executed' = executed + 1
    /\ IF Paid(position)
       THEN /\ account' = Settled(Provider)
            /\ stopReason' = IF Exceeded(Provider) THEN "exceeded" ELSE stopReason
       ELSE UNCHANGED <<account, stopReason>>
    /\ UNCHANGED <<position, errors, record, touched, announced, recorded,
                   ending, billed, cli>>

\* RunJournal.record: the record, or its safe fields.
Redactions == {redacted, TRUE}

\* The record is written, cut to its safe fields if it fails the safety check,
\* and only then the run decides whether to go on.
Record ==
    /\ pc = "record"
    /\ recorded' = recorded \cup {position}
    /\ stopReason' = IF record.harness THEN "harness"
                     ELSE IF plan.stopOnFirstFailure /\ record.failure THEN "failure"
                     ELSE stopReason
    /\ IF stopReason' # "none"
       THEN pc' = "finish" /\ UNCHANGED <<position, errors>>
       ELSE /\ pc' = "next" /\ position' = position + 1
            /\ errors' = [errors EXCEPT ![Router] = IF record.infra THEN @ + 1 ELSE 0]
    /\ redacted' \in Redactions
    /\ UNCHANGED <<account, record, executed, touched, announced, ending, billed,
                   journal, artifact, exit>>
-----------------------------------------------------------------------------
(* The end *)

Exhausted == pc = "next" /\ position = Len(Schedule) + 1

\* The last line; the result is then returned.
Finish ==
    /\ pc = "finish" \/ Exhausted
    /\ pc' = "returned"
    /\ ending' = IF stopReason = "none" THEN "run_finished" ELSE "run_stopped"
    /\ UNCHANGED <<position, account, stopReason, errors, record, executed,
                   touched, announced, recorded, billed, cli>>

\* An interrupt, or a write to the journal that fails, leaves the run; the
\* journal may say so, or the process is gone.  A call it cuts may be billed.
Interrupt ==
    /\ pc \in InLoop \cup {"opened", "finish"} /\ pc' = "raised"
    /\ ending' \in IF pc \in InLoop THEN {"run_interrupted", "none"} ELSE {"none"}
    /\ IF pc = "call" /\ Paid(position)
       THEN \E b \in Bills(Provider) :
               billed' = [billed EXCEPT ![Provider] = @ + b]
       ELSE UNCHANGED billed
    /\ UNCHANGED <<position, account, stopReason, errors, record, executed,
                   touched, announced, recorded, cli>>

-----------------------------------------------------------------------------
(* The result *)

Complete == stopReason = "none" /\ executed = Len(Schedule)

Valid == Complete /\ ~touched /\ \A r \in Routers : ~Stopped(r)

\* The metrics may fail; the run's result stands.
Metrics ==
    /\ pc = "returned" /\ pc' = "artifact"
    /\ exit' \in {IF Complete THEN 0 ELSE 1, 3}
    /\ UNCHANGED <<run, redacted, journal, artifact>>

\* Mutant: the artifact is checked without its records.
SafeIgnoringRecords == TRUE

\* assert_safe_for_output walks every record: one that the journal had to cut
\* is refused again.
Safe == ~redacted

\* The full artifact is refused by the safety check.
RefuseArtifact ==
    /\ pc = "artifact" /\ pc' = "write" /\ exit' = 3
    /\ UNCHANGED <<run, redacted, journal, artifact>>

\* Mutant: the artifact replaces what is there.
ArtifactOpensAnyway == TRUE

\* The artifact is created exclusively.
ArtifactOpens == artifact = "none"

WriteFull ==
    /\ pc = "artifact" /\ Safe /\ ArtifactOpens
    /\ pc' = "exited" /\ artifact' = "full"
    /\ UNCHANGED <<run, redacted, journal, exit>>

WriteMinimal ==
    /\ pc = "write" /\ ArtifactOpens
    /\ pc' = "exited" /\ artifact' = "minimal"
    /\ UNCHANGED <<run, redacted, journal, exit>>

\* The file exists, the write fails or is cut, the minimal artifact is refused
\* too, or the process is interrupted.
OutputRaises ==
    /\ pc \in After /\ pc' = "raised"
    /\ \/ UNCHANGED artifact
       \/ /\ pc = "write" \/ (pc = "artifact" /\ Safe)
          /\ ArtifactOpens /\ artifact' = "torn"
    /\ UNCHANGED <<run, redacted, journal, exit>>

\* Another invocation with this output starts with its journal, which it too
\* creates exclusively; a live one then creates its artifact exclusively, and a
\* dry run writes over whatever is there.
OtherStarts == journal = "none" /\ journal' = "other" /\ UNCHANGED artifact
OtherIsLive == artifact = "none" /\ artifact' = "other"
OtherIsDry == artifact' = "dry"

Other ==
    /\ \/ OtherStarts
       \/ journal = "other" /\ (OtherIsLive \/ OtherIsDry) /\ UNCHANGED journal
    /\ UNCHANGED <<pc, run, redacted, exit>>

Begin == SkipStopped \/ BeginLocal \/ BeginPaid \/ Announce
Loop == Begin \/ RoutePaid \/ RouteLocal \/ Settle \/ Record \/ Finish
Report == Metrics \/ RefuseArtifact \/ WriteFull \/ WriteMinimal \/ OutputRaises
Main == Refuse \/ BuildRouters \/ RefuseInfeasible \/ Open \/ OpenRaises \/ Start \/ Loop \/ Report
Step == Main /\ UNCHANGED plan
Next == Step \/ ((Interrupt \/ Other) /\ UNCHANGED plan)

\* Every call returns (both clients have timeouts and no retries), so main
\* goes on as long as it can.
Spec == Init /\ [][Next]_vars /\ WF_vars(Step)
-----------------------------------------------------------------------------
(* Properties *)

HardCap(p) == Reservation[p] = MaxCall[p]

\* Where a reservation is the most a call can cost and replies carry their
\* usage, what is billed never exceeds the cap: calls that time out, harness
\* errors and interrupts included, because the ledger is never behind the
\* provider.
BilledWithinCap == \A p \in Providers :
  HardCap(p) /\ (p = "bedrock" => plan.usageReported) =>
    billed[p] <= Exposure(p) /\ Exposure(p) <= CostCap[p]

\* What is committed passes a cap by the excess of one call at most, and the
\* run makes no other call once it has.
OvershootIsOneCall == \A p \in Providers :
    /\ account[p].committed <= CostCap[p] + (MaxCall[p] - Reservation[p])
    /\ account[p].committed > CostCap[p] => pc \notin {"next", "announce", "call"}

\* The journal is never behind the money: what may have been billed was
\* announced, and at most the call in hand was announced and not recorded.
JournalCoversSpend ==
    /\ \A p \in Providers :
          billed[p] <= MaxCall[p] * Cardinality({i \in announced : ProviderOf(Schedule[i]) = p})
    /\ announced \ recorded \subseteq {position}
    /\ ending \in {"run_finished", "run_stopped"} => announced \subseteq recorded

\* The call in hand holds a reservation of p; an interrupted one keeps it.
Outstanding(p) == /\ position \in Calls /\ Provider = p
                  /\ \/ pc \in {"announce", "call", "settle"}
                     \/ pc = "raised" /\ account[p].reserved > 0

\* No reservation outlives its call, and a router that failed InfraLimit times
\* in a row is called no more.
LedgerSettled ==
    /\ TypeOK
    /\ \A p \in Providers : account[p].reserved =
          IF Outstanding(p) THEN Reservation[p] ELSE 0
    /\ pc \in {"announce", "call"} => errors[Router] < InfraLimit

\* A result that claims validity has every scheduled call on record, announced
\* if it was paid, settled, and within its reservation; an exit code of 0 says
\* that a complete run's whole artifact is on disk beside its journal, 2 that
\* nothing was called or written; and what the safety check had to cut from the
\* journal never reaches a full artifact.
ResultTruth ==
    /\ pc \in After \cup {"exited"} /\ Valid =>
          /\ recorded = Calls /\ announced = {i \in Calls : Paid(i)}
          /\ \A p \in Providers :
                account[p].requests = Planned(p) /\ account[p].reserved = 0
                /\ account[p].committed <= CostCap[p]
    /\ pc = "exited" =>
          /\ exit = 0 => /\ recorded = Calls /\ ending = "run_finished"
                         /\ journal = "mine" /\ artifact = "full"
          /\ exit = 1 => ~Complete /\ artifact = "full"
          /\ exit = 2 => announced = {} /\ executed = 0 /\ journal # "mine"
          /\ exit = 3 => journal = "mine" /\ artifact \in {"full", "minimal"}
    /\ artifact = "full" => ~redacted /\ exit # 2
    /\ artifact = "minimal" => exit = 3 /\ journal = "mine"

\* Paid evidence stays: no journal is ever replaced, what this invocation wrote
\* as its artifact stays as it is, a torn one included, though a dry run with
\* the same output would write over it, and what it found there is replaced by
\* such a dry run only, never by this invocation.
EvidenceNeverReplaced ==
    [][/\ journal # "none" => UNCHANGED journal
       /\ artifact \in {"torn", "full", "minimal"} => UNCHANGED artifact
       /\ artifact \in {"other", "dry"} => artifact' \in {artifact, "dry"}]_vars

\* As long as every call returns, main ends.
Concludes == <>(pc \in {"exited", "raised"})

\* The claim of Ledger's docstring: a reservation is kept at worst case when
\* usage is unknown, so the ledger covers the bill.
UnknownKeptAtWorstCase == \A p \in Providers : HardCap(p) =>
    billed[p] <= Exposure(p)
=============================================================================
