----------------------------- MODULE SmokePolicy -----------------------------
(***************************************************************************)
(* One isolated smoke run of app/services/rag_smoke_policy.py: the single- *)
(* use claim, the five-stage chain, the reservation made before every      *)
(* model call, the SDK hooks that admit one request, the settlement of its *)
(* usage and the journal that records each step before it happens.         *)
(*                                                                         *)
(* The policy is shared by three parties that call it in any order: the    *)
(* application (the body of "with policy.activate"), the SDK client (the   *)
(* two event hooks, inside the call that invoke makes) and an observer of  *)
(* bypassed requests (record_extra_request).  None of them is trusted to   *)
(* call in the right order or to let an exception through: the tests catch *)
(* SmokeStop inside the body and carry on, and botocore itself catches     *)
(* what a before-send handler raises.  The process may die at any moment   *)
(* and be restarted over the same claim directory.                         *)
(*                                                                         *)
(* Money is a natural number of indivisible units; the code's arithmetic   *)
(* is exact (money_total, charge), so nothing is lost by that.             *)
(***************************************************************************)
EXTENDS Integers, Sequences, FiniteSets

CONSTANTS
    Amount,       \* the reservation of each model stage: charge() of its pinned bounds
    Caps,         \* ceilings_usd: one cap per provider and one for their total
    Cost,         \* what a delivered request may really cost
    ExtraCost,    \* what a bypassed one may
    Evidence,     \* distinct digests an observer may cite for an extra request
    MaxRuns       \* bound: processes started over one claim directory

Order == <<"router", "index", "metadata", "embedding", "generation">>
StageNames == {"router", "index", "metadata", "embedding", "generation"}
ModelStages == {"router", "embedding", "generation"}
S3Stages == {"index", "metadata"}
Providers == {"haiku", "titan"}
Services == {"bedrock-runtime", "s3"}
ProviderOf(s) == IF s = "embedding" THEN "titan" ELSE "haiku"
ServiceOf(s) == IF s \in S3Stages THEN "s3" ELSE "bedrock-runtime"

\* _ORDER[position]: position counts finished stages, from 0 to Len(Order).
Rank(s) ==
    CASE s = "router" -> 0 [] s = "index" -> 1 [] s = "metadata" -> 2
      [] s = "embedding" -> 3 [] s = "generation" -> 4

\* The marker record_extra_request leaves when it cannot tell what it saw.
Unidentified == "unidentified_model_request"

ASSUME AmountAssumption == Amount \in [ModelStages -> Nat \ {0}]
ASSUME CapsAssumption == Caps \in [{"haiku", "titan", "total"} -> Nat \ {0}]
ASSUME CostAssumption == Cost \subseteq Nat /\ ExtraCost \subseteq Nat
ASSUME MaxRunsAssumption == MaxRuns \in Nat \ {0}

VARIABLES
    \* the SmokePolicy object
    used, halted, clients, position, sequence, exposure, attempts, permit,
    unestablished, coverageViolated, extras, extraEvidence, extraKnown,
    \* where the process is, and the SmokeStop code it carries
    pc, code,
    \* the claim directory, which outlives the process
    claimed, disk,
    \* the world outside: requests that left, and what the provider bills
    sent, spent, extraSpent,
    runs

object == <<used, halted, clients, position, sequence, exposure, attempts,
            permit, unestablished, coverageViolated, extras, extraEvidence,
            extraKnown>>
vars == <<object, pc, code, claimed, disk, sent, spent, extraSpent, runs>>

-----------------------------------------------------------------------------
(* Shapes *)

\* A journal file: readable, or unusable because it is absent or cut short.
Files == {"whole", "broken"}
Kinds == {"claim", "attempt", "usage", "blocked-send", "extra-request",
          "complete", "stopped"}
Codes == {"NONE", "RUN_ALREADY_CLAIMED", "CLAIM_UNAVAILABLE",
          "INPUT_BINDING_MISMATCH", "CLIENT_CONFIG_INVALID",
          "EVIDENCE_PUBLICATION_FAILED", "CHAIN_ORDER_INVALID",
          "CLIENTS_MISSING", "REQUEST_INVALID", "RESERVATION_EXHAUSTED",
          "EXTRA_ATTEMPT", "UNEXPECTED_REQUEST", "UNEXPECTED_SEND",
          "EXTRA_SEND", "ENDPOINT_INVALID", "PAYLOAD_REJECTED",
          "UNCERTAIN_PROVIDER_OUTCOME", "ATTEMPT_COUNT_INVALID",
          "EXTRA_REQUEST_OBSERVED", "USAGE_OVERRUN", "MODEL_OUTPUT_INVALID",
          "EXTRA_EVIDENCE_INVALID", "CHECK_FAILED", "CHAIN_INCOMPLETE",
          "LOCAL_OR_UNCERTAIN_FAILURE"}

\* None, for a charge that was never established.
NoCharge == -1

\* An attempt that was not made, and the record invoke creates before the call.
NoAttempt == [made |-> FALSE, hold |-> 0, charge |-> NoCharge,
              settled |-> FALSE, delivery |-> "UNKNOWN"]
NewAttempt(amount) == [NoAttempt EXCEPT !.made = TRUE, !.hold = amount]

\* The capability invoke hands to the SDK hooks for the length of one call.
NoPermit == [stage |-> "none", checks |-> 0, sends |-> 0, approved |-> 0]
NewPermit(s) == [NoPermit EXCEPT !.stage = s]

\* Mutant: a write is reported before fsync, whatever became of the file.
UnsyncedWrites == [ok : BOOLEAN, file : Files]

\* What a journal write may do: succeed, or fail with the file readable or
\* not (open, write, flush and fsync may each fail).
Writes == {w \in [ok : BOOLEAN, file : Files] : w.ok => w.file = "whole"}

AttemptRecords == [made : BOOLEAN, hold : Nat, charge : Nat \cup {NoCharge},
                   settled : BOOLEAN, delivery : {"UNKNOWN", "YES"}]
PermitRecords == [stage : StageNames \cup {"none"}, checks : 0..2,
                  sends : 0..2, approved : 0..1]
ExtraRecords == [stage : StageNames, delivery : {"NO", "YES", "UNKNOWN"},
                 charge : Nat \cup {NoCharge}]
\* overrun: the field a usage record carries; no other kind has it.
JournalRecords == [ordinal : Nat, kind : Kinds,
                   stage : StageNames \cup {"none"}, overrun : BOOLEAN,
                   file : Files]

TypeOK ==
    /\ used \in BOOLEAN /\ halted \in BOOLEAN /\ clients \subseteq Services
    /\ position \in 0..5
    /\ sequence \in Nat
    /\ exposure \in [Providers -> Nat]
    /\ attempts \in [StageNames -> AttemptRecords]
    /\ permit \in PermitRecords
    /\ unestablished \subseteq StageNames \cup {Unidentified}
    /\ coverageViolated \in BOOLEAN
    /\ extras \in Seq(ExtraRecords)
    /\ extraEvidence \subseteq Evidence
    /\ extraKnown \in [Providers -> Nat]
    /\ pc \in {"new", "body", "sdk", "stop", "done", "dead"}
    /\ code \in Codes
    /\ claimed \in BOOLEAN
    /\ disk \in Seq(JournalRecords)
    /\ sent \in [StageNames -> Nat]
    /\ spent \in [ModelStages -> Nat]
    /\ extraSpent \in [Providers -> Nat]
    /\ runs \in 1..MaxRuns
-----------------------------------------------------------------------------
(* accounting(): what the policy says of itself *)

Hold(s) == attempts[s].hold
Charge(s) == IF attempts[s].charge = NoCharge THEN 0 ELSE attempts[s].charge

\* retained_holds_usd and known_charges_usd; S3 stages reserve nothing.
Holds(p) == IF p = "titan" THEN Hold("embedding")
            ELSE Hold("router") + Hold("generation")
Known(p) == extraKnown[p] + IF p = "titan" THEN Charge("embedding")
                            ELSE Charge("router") + Charge("generation")

WithinCaps(e) == /\ e["haiku"] <= Caps["haiku"]
                 /\ e["titan"] <= Caps["titan"]
                 /\ e["haiku"] + e["titan"] <= Caps["total"]

BoundEstablished == unestablished = {}
CeilingEstablished == /\ BoundEstablished /\ ~coverageViolated
                      /\ WithinCaps(exposure)
Coverage == IF coverageViolated THEN "VIOLATED"
            ELSE IF BoundEstablished THEN "WITHIN_RECORDED_RESERVATIONS"
            ELSE "UNESTABLISHED"
-----------------------------------------------------------------------------
(* Initial state: __init__ has validated its configuration *)

FreshObject ==
    /\ used = FALSE /\ halted = FALSE /\ clients = {}
    /\ position = 0 /\ sequence = 0
    /\ exposure = [p \in Providers |-> 0]
    /\ attempts = [s \in StageNames |-> NoAttempt]
    /\ permit = NoPermit
    /\ unestablished = {} /\ coverageViolated = FALSE
    /\ extras = <<>> /\ extraEvidence = {}
    /\ extraKnown = [p \in Providers |-> 0]

Init ==
    /\ FreshObject
    /\ pc = "new" /\ code = "NONE"
    /\ claimed = FALSE /\ disk = <<>>
    /\ sent = [s \in StageNames |-> 0]
    /\ spent = [s \in ModelStages |-> 0]
    /\ extraSpent = [p \in Providers |-> 0]
    /\ runs = 1
-----------------------------------------------------------------------------
(* Journal and exceptions *)

\* Mutant: the number is taken only once the file is written.
JournalLate(kind, s, over, w) ==
    /\ sequence' = IF w.ok THEN sequence + 1 ELSE sequence
    /\ disk' = Append(disk, [ordinal |-> sequence + 1, kind |-> kind,
                             stage |-> s, overrun |-> over, file |-> w.file])

\* _journal: the number is taken before the file is created.
Journal(kind, s, over, w) ==
    /\ sequence' = sequence + 1
    /\ disk' = Append(disk, [ordinal |-> sequence + 1, kind |-> kind,
                             stage |-> s, overrun |-> over, file |-> w.file])

\* A SmokeStop raised in the body: the caller catches it, or it reaches
\* the handlers of activate.
RaiseInBody(c) ==
    \/ pc' = "body" /\ UNCHANGED code
    \/ pc' = "stop" /\ code' = c

\* An exception leaves invoke: halted, and the permit is withdrawn.
InvokeFails(c) == halted' = TRUE /\ permit' = NoPermit /\ RaiseInBody(c)

\* A SmokeStop raised inside the SDK call, leaving permit p and halted h: the
\* SDK swallows it and goes on, or it ends the call and then invoke.
RaiseInSdk(c, p, h) ==
    \/ permit' = p /\ halted' = h /\ UNCHANGED <<pc, code>>
    \/ InvokeFails(c)
-----------------------------------------------------------------------------
(* Before the run *)

\* bind_clients: all the clients are accepted, or binding stops at the first
\* that is not; AttributeError and TypeError also halt the policy.
BindClients ==
    /\ pc = "new" /\ ~used /\ clients = {}
    /\ \/ clients' = Services /\ UNCHANGED <<halted, pc, code>>
       \/ /\ clients' \in {{}, {"bedrock-runtime"}}
          /\ halted' \in BOOLEAN
          /\ pc' = "done" /\ code' = "CLIENT_CONFIG_INVALID"
    /\ UNCHANGED <<used, position, sequence, exposure, attempts, permit,
                   unestablished, coverageViolated, extras, extraEvidence,
                   extraKnown, claimed, disk, sent, spent, extraSpent, runs>>

\* activate refuses the query or the claim path before it claims anything.
ActivateRefused ==
    /\ pc = "new"
    /\ pc' = "done" /\ code' = "INPUT_BINDING_MISMATCH"
    /\ UNCHANGED <<object, claimed, disk, sent, spent, extraSpent, runs>>

\* activate marks the policy used, and mkdir finds the directory or fails.
ActivateStops ==
    /\ pc = "new" /\ ~used
    /\ used' = TRUE /\ halted' = TRUE /\ pc' = "done"
    /\ code' = IF claimed THEN "RUN_ALREADY_CLAIMED" ELSE "CLAIM_UNAVAILABLE"
    /\ UNCHANGED <<clients, position, sequence, exposure, attempts, permit,
                   unestablished, coverageViolated, extras, extraEvidence,
                   extraKnown, claimed, disk, sent, spent, extraSpent, runs>>

\* Mutant: a directory that is already there is taken over (exist_ok).
CreatableAgain == TRUE

\* mkdir without exist_ok.
Creatable == ~claimed

\* activate creates the claim directory and writes the claim record.
ActivateClaims ==
    /\ pc = "new" /\ ~used /\ Creatable
    /\ used' = TRUE /\ claimed' = TRUE
    /\ \E w \in Writes :
          /\ Journal("claim", "none", FALSE, w)
          /\ halted' = ~w.ok
          /\ IF w.ok THEN pc' = "body" /\ UNCHANGED code
             ELSE pc' = "stop" /\ code' = "EVIDENCE_PUBLICATION_FAILED"
    /\ UNCHANGED <<clients, position, exposure, attempts, permit,
                   unestablished, coverageViolated, extras, extraEvidence,
                   extraKnown, sent, spent, extraSpent, runs>>
-----------------------------------------------------------------------------
(* invoke, up to the SDK call *)

InOrder(s) == ~halted /\ position < 5 /\ Rank(s) = position

\* The exposure once s holds its reservation.
Reserved(s) == IF s \in S3Stages THEN exposure
               ELSE [exposure EXCEPT ![ProviderOf(s)] = @ + Amount[s]]

\* Mutant: each provider's ceiling is enforced, their total is not.
FitsProviderOnly(s) == s \in ModelStages =>
    Reserved(s)[ProviderOf(s)] <= Caps[ProviderOf(s)]

\* The code compares the stage's own provider and the total only; the other
\* provider's exposure is not moved by this reservation.
Fits(s) == s \in ModelStages =>
    /\ Reserved(s)[ProviderOf(s)] <= Caps[ProviderOf(s)]
    /\ Reserved(s)["haiku"] + Reserved(s)["titan"] <= Caps["total"]

\* Why invoke may refuse s now: halted or out of order, no client, a request
\* that is not the pinned one, a reservation the ceilings cannot hold.
Refusals(s) ==
    IF ~InOrder(s) THEN {"CHAIN_ORDER_INVALID"}
    ELSE IF ServiceOf(s) \notin clients THEN {"CLIENTS_MISSING"}
    ELSE {"REQUEST_INVALID"}
         \cup {c \in {"RESERVATION_EXHAUSTED"} : ~Fits(s)}

InvokeRefused(s) ==
    /\ pc = "body"
    /\ \E c \in Refusals(s) : RaiseInBody(c)
    /\ UNCHANGED <<object, claimed, disk, sent, spent, extraSpent, runs>>

\* invoke reserves, publishes the attempt and only then calls the SDK.  The
\* reservation stays if the record cannot be written.
InvokeBegins(s) ==
    /\ pc = "body" /\ InOrder(s) /\ ServiceOf(s) \in clients
    /\ Fits(s)
    /\ exposure' = Reserved(s)
    /\ attempts' = [attempts EXCEPT ![s] =
                       NewAttempt(IF s \in S3Stages THEN 0 ELSE Amount[s])]
    /\ \E w \in Writes :
          /\ Journal("attempt", s, FALSE, w)
          /\ \/ /\ w.ok
                /\ permit' = NewPermit(s) /\ pc' = "sdk"
                /\ UNCHANGED <<halted, code>>
             \/ /\ ~w.ok
                /\ halted' = TRUE
                /\ RaiseInBody("EVIDENCE_PUBLICATION_FAILED")
                /\ UNCHANGED permit
    /\ UNCHANGED <<used, clients, position, unestablished, coverageViolated,
                   extras, extraEvidence, extraKnown, claimed, sent, spent,
                   extraSpent, runs>>
-----------------------------------------------------------------------------
(* Inside the SDK call: the two event hooks *)

\* _parameters: the built request must be the permitted one, and only once.
ParametersHook ==
    /\ pc = "sdk" /\ permit.checks < 2
    /\ \/ RaiseInSdk("UNEXPECTED_REQUEST", permit, halted)
       \/ LET p == [permit EXCEPT !.checks = @ + 1]
          IN IF p.checks = 1
             THEN permit' = p /\ UNCHANGED <<halted, pc, code>>
             ELSE RaiseInSdk("EXTRA_ATTEMPT", p, halted)
    /\ UNCHANGED <<used, clients, position, sequence, exposure, attempts,
                   unestablished, coverageViolated, extras, extraEvidence,
                   extraKnown, claimed, disk, sent, spent, extraSpent, runs>>

Resent == [permit EXCEPT !.sends = @ + 1]

\* Mutant: a repeated send of the checked request is approved again.
FirstSendRepeats == permit.checks = 1

FirstSend == permit.sends = 0 /\ permit.checks = 1

\* _send after the policy halted: nothing is counted, the request is refused.
SendRefused ==
    /\ pc = "sdk" /\ halted
    /\ RaiseInSdk("UNEXPECTED_SEND", permit, halted)
    /\ UNCHANGED <<used, clients, position, sequence, exposure, attempts,
                   unestablished, coverageViolated, extras, extraEvidence,
                   extraKnown, claimed, disk, sent, spent, extraSpent, runs>>

\* _send for a second time, or with no single parameter check before it: the
\* request is blocked before transport, recorded as not delivered, and halts.
SendBlocked ==
    /\ pc = "sdk" /\ ~halted /\ ~FirstSend
    /\ extras' = Append(extras, [stage |-> permit.stage, delivery |-> "NO",
                                 charge |-> NoCharge])
    /\ \E w \in Writes :
          /\ Journal("blocked-send", permit.stage, FALSE, w)
          /\ RaiseInSdk(IF w.ok THEN "EXTRA_SEND"
                        ELSE "EVIDENCE_PUBLICATION_FAILED", Resent, TRUE)
    /\ UNCHANGED <<used, clients, position, exposure, attempts, unestablished,
                   coverageViolated, extraEvidence, extraKnown, claimed, sent,
                   spent, extraSpent, runs>>

\* _send to an endpoint that is not the pinned one: refused, yet not halted.
SendMisdirected ==
    /\ pc = "sdk" /\ ~halted /\ FirstSend
    /\ RaiseInSdk("ENDPOINT_INVALID", Resent, halted)
    /\ UNCHANGED <<used, clients, position, sequence, exposure, attempts,
                   unestablished, coverageViolated, extras, extraEvidence,
                   extraKnown, claimed, disk, sent, spent, extraSpent, runs>>

\* _send approves: the request leaves, and the provider will bill its cost.
SendApproved ==
    /\ pc = "sdk" /\ ~halted /\ FirstSend
    /\ permit' = [Resent EXCEPT !.approved = @ + 1]
    /\ sent' = [sent EXCEPT ![permit.stage] = @ + 1]
    /\ IF permit.stage \in ModelStages
       THEN \E c \in Cost : spent' = [spent EXCEPT ![permit.stage] = @ + c]
       ELSE UNCHANGED spent
    /\ UNCHANGED <<used, halted, clients, position, sequence, exposure,
                   attempts, unestablished, coverageViolated, extras,
                   extraEvidence, extraKnown, pc, code, claimed, disk,
                   extraSpent, runs>>
-----------------------------------------------------------------------------
(* invoke, after the SDK call *)

\* Mutant: a counted send is taken for an approved one.
CountValidUnapproved(noRetry) ==
    noRetry /\ permit.sends = 1 /\ permit.checks = 1

\* Exactly one checked, approved send and a response that reports no retry.
CountValid(noRetry) ==
    noRetry /\ permit.sends = 1 /\ permit.checks = 1 /\ permit.approved = 1

\* The count is recorded before the payload is looked at.
Counted(valid) ==
    unestablished' = unestablished \cup {s \in {permit.stage} : ~valid}
Delivered(valid) == [attempts EXCEPT ![permit.stage].delivery =
                        IF valid THEN "YES" ELSE "UNKNOWN"]

\* The call raises: a timeout, a reset, a service error.
CallRaises ==
    /\ pc = "sdk"
    /\ InvokeFails("UNCERTAIN_PROVIDER_OUTCOME")
    /\ UNCHANGED <<used, clients, position, sequence, exposure, attempts,
                   unestablished, coverageViolated, extras, extraEvidence,
                   extraKnown, claimed, disk, sent, spent, extraSpent, runs>>

\* A response whose body or usage is rejected, or whose reading fails.
ReturnRejected ==
    /\ pc = "sdk"
    /\ \E noRetry \in BOOLEAN :
          /\ Counted(CountValid(noRetry))
          /\ attempts' = Delivered(CountValid(noRetry))
    /\ \E c \in {"PAYLOAD_REJECTED", "UNCERTAIN_PROVIDER_OUTCOME"} : InvokeFails(c)
    /\ UNCHANGED <<used, clients, position, sequence, exposure,
                   coverageViolated, extras, extraEvidence, extraKnown,
                   claimed, disk, sent, spent, extraSpent, runs>>

\* The checks that end invoke, in their order.
Verdicts(valid, exceeded) ==
    IF ~valid THEN {"ATTEMPT_COUNT_INVALID"}
    ELSE IF halted THEN {"EXTRA_REQUEST_OBSERVED"}
    ELSE IF exceeded THEN {"USAGE_OVERRUN"}
    ELSE {"NONE"} \cup {c \in {"MODEL_OUTPUT_INVALID"} :
                          permit.stage \in {"router", "generation"}}

Conclude(c) ==
    \/ /\ c = "NONE"
       /\ position' = position + 1 /\ permit' = NoPermit /\ pc' = "body"
       /\ UNCHANGED <<halted, code>>
    \/ c # "NONE" /\ InvokeFails(c) /\ UNCHANGED position

\* An object read that passes its binding checks.
ReturnObject ==
    /\ pc = "sdk" /\ permit.stage \in S3Stages
    /\ \E noRetry \in BOOLEAN :
          LET valid == CountValid(noRetry) IN
          /\ Counted(valid)
          /\ attempts' = Delivered(valid)
          /\ \E c \in Verdicts(valid, FALSE) : Conclude(c)
    /\ UNCHANGED <<used, clients, sequence, exposure, coverageViolated, extras,
                   extraEvidence, extraKnown, claimed, disk, sent, spent,
                   extraSpent, runs>>

\* Mutant: the hold is released for every answer, attributable or not.
SettleAlwaysReleases(s, actual, valid, exceeded) ==
    /\ attempts' = [Delivered(valid) EXCEPT
                       ![s].charge = actual,
                       ![s].settled = valid,
                       ![s].hold = 0]
    /\ exposure' = [exposure EXCEPT ![ProviderOf(s)] =
                       IF valid THEN @ + actual - Amount[s] ELSE @ + actual]
    /\ coverageViolated' = (coverageViolated \/ exceeded)

\* Mutant: only money over the reservation violates the coverage.
SettleIgnoresTokens(s, actual, valid, exceeded) ==
    /\ attempts' = [Delivered(valid) EXCEPT
                       ![s].charge = actual,
                       ![s].settled = valid,
                       ![s].hold = IF valid THEN 0 ELSE Amount[s]]
    /\ exposure' = [exposure EXCEPT ![ProviderOf(s)] =
                       IF valid THEN @ + actual - Amount[s] ELSE @ + actual]
    /\ coverageViolated' = (coverageViolated \/ actual > Amount[s])

\* _returned_usage: an attributable charge replaces the hold, any other is
\* added to it; tokens or money over the bound violate the coverage.
Settle(s, actual, valid, exceeded) ==
    /\ attempts' = [Delivered(valid) EXCEPT
                       ![s].charge = actual,
                       ![s].settled = valid,
                       ![s].hold = IF valid THEN 0 ELSE Amount[s]]
    /\ exposure' = [exposure EXCEPT ![ProviderOf(s)] =
                       IF valid THEN @ + actual - Amount[s] ELSE @ + actual]
    /\ coverageViolated' = (coverageViolated \/ exceeded)

\* A model response with well-formed usage.  What it reports is what the
\* provider bills for the request; overTokens: a token count over its bound.
ReturnUsage ==
    /\ pc = "sdk" /\ permit.stage \in ModelStages
    /\ \E noRetry, overTokens \in BOOLEAN, w \in Writes :
          LET s == permit.stage
              valid == CountValid(noRetry)
              exceeded == overTokens \/ spent[s] > Amount[s]
          IN /\ Counted(valid)
             /\ Settle(s, spent[s], valid, exceeded)
             /\ Journal("usage", s, exceeded, w)
             /\ \/ w.ok /\ \E c \in Verdicts(valid, exceeded) : Conclude(c)
                \/ /\ ~w.ok /\ InvokeFails("EVIDENCE_PUBLICATION_FAILED")
                   /\ UNCHANGED position
    /\ UNCHANGED <<used, clients, extras, extraEvidence, extraKnown, claimed,
                   sent, spent, extraSpent, runs>>
-----------------------------------------------------------------------------
(* record_extra_request: a bypassed request seen by an observer *)

\* The exception goes to whoever called: an SDK callback or the body.
RaiseToObserver(c) ==
    \/ pc = "sdk" /\ RaiseInSdk(c, permit, TRUE)
    \/ pc = "body" /\ halted' = TRUE /\ RaiseInBody(c) /\ UNCHANGED permit

\* The request cannot be identified, or its digest was used before.
RecordUnidentified ==
    /\ pc \in {"body", "sdk"}
    /\ unestablished' = unestablished \cup {Unidentified}
    /\ \E p \in Providers, c \in ExtraCost :
          extraSpent' = [extraSpent EXCEPT ![p] = @ + c]
    /\ Unidentified \notin unestablished    \* bound: one such observation
    /\ RaiseToObserver("EXTRA_EVIDENCE_INVALID")
    /\ UNCHANGED <<used, clients, position, sequence, exposure, attempts,
                   coverageViolated, extras, extraEvidence, extraKnown,
                   claimed, disk, sent, spent, runs>>

\* A real charge of a request nobody approved.
Unauthorized(priced, c) == priced /\ c > 0

\* Mutant: a delivered request without a price is taken as bounded.
UnboundedIfUndelivered(s, delivery, priced) ==
    {t \in {s} : delivery = "UNKNOWN"}

\* The stage is unbounded if its charge is unknown, or its delivery is.
Unbounded(s, delivery, priced) ==
    {t \in {s} : ~priced \/ delivery = "UNKNOWN"}

\* An identified request; its charge is known when its usage is valid and
\* its model, region and tier are the pinned ones.
RecordExtra(e, s, delivery, priced) ==
    /\ pc \in {"body", "sdk"}
    /\ e \notin extraEvidence /\ s \in ModelStages
    /\ extraEvidence' = extraEvidence \cup {e}
    /\ \E c \in ExtraCost, w \in Writes :
          LET p == ProviderOf(s) IN
          /\ extraSpent' = [extraSpent EXCEPT ![p] = @ + c]
          /\ extras' = Append(extras, [stage |-> s, delivery |-> delivery,
                                charge |-> IF priced THEN c ELSE NoCharge])
          /\ exposure' = [exposure EXCEPT ![p] = @ + IF priced THEN c ELSE 0]
          /\ extraKnown' = [extraKnown EXCEPT ![p] = @ + IF priced THEN c ELSE 0]
          /\ coverageViolated' = (coverageViolated \/ Unauthorized(priced, c))
          /\ unestablished' = unestablished \cup Unbounded(s, delivery, priced)
          /\ Journal("extra-request", s, FALSE, w)
          /\ IF w.ok THEN halted' = TRUE /\ UNCHANGED <<permit, pc, code>>
             ELSE RaiseToObserver("EVIDENCE_PUBLICATION_FAILED")
    /\ UNCHANGED <<used, clients, position, attempts, claimed, sent, spent, runs>>
-----------------------------------------------------------------------------
(* The end of the run *)

\* The application's own checks between the calls raise SmokeStop, or any
\* other exception does.
BodyRaises ==
    /\ pc = "body"
    /\ pc' = "stop"
    /\ code' \in {"CHECK_FAILED", "LOCAL_OR_UNCERTAIN_FAILURE"}
    /\ UNCHANGED <<object, claimed, disk, sent, spent, extraSpent, runs>>

\* Mutant: a run that halted after its last stage still completes.
CompleteAfterHalt == position = 5

Complete == ~halted /\ position = 5

\* The body returns: the chain must be complete, and says so on disk.
BodyReturns ==
    /\ pc = "body"
    /\ IF Complete
       THEN \E w \in Writes :
               /\ Journal("complete", "none", FALSE, w)
               /\ halted' = ~w.ok
               /\ pc' = IF w.ok THEN "done" ELSE "stop"
               /\ code' = IF w.ok THEN "NONE" ELSE "EVIDENCE_PUBLICATION_FAILED"
       ELSE /\ pc' = "stop" /\ code' = "CHAIN_INCOMPLETE"
            /\ UNCHANGED <<halted, sequence, disk>>
    /\ UNCHANGED <<used, clients, position, exposure, attempts, permit,
                   unestablished, coverageViolated, extras, extraEvidence,
                   extraKnown, claimed, sent, spent, extraSpent, runs>>

\* activate's handlers: halt, record the stop, leave; a failed record
\* replaces the code.
Stop ==
    /\ pc = "stop"
    /\ halted' = TRUE /\ pc' = "done"
    /\ \E w \in Writes :
          /\ Journal("stopped", "none", FALSE, w)
          /\ code' = IF w.ok THEN code ELSE "EVIDENCE_PUBLICATION_FAILED"
    /\ UNCHANGED <<used, clients, position, exposure, attempts, permit,
                   unestablished, coverageViolated, extras, extraEvidence,
                   extraKnown, claimed, sent, spent, extraSpent, runs>>

\* The object a process builds, and everything a dying one forgets.
NewObject ==
    /\ used' = FALSE /\ halted' = FALSE /\ clients' = {}
    /\ position' = 0 /\ sequence' = 0
    /\ exposure' = [p \in Providers |-> 0]
    /\ attempts' = [s \in StageNames |-> NoAttempt]
    /\ permit' = NoPermit
    /\ unestablished' = {} /\ coverageViolated' = FALSE
    /\ extras' = <<>> /\ extraEvidence' = {}
    /\ extraKnown' = [p \in Providers |-> 0]

\* The process dies, or a BaseException unwinds past every handler: nothing
\* more is written.
Die ==
    /\ pc \in {"new", "body", "sdk", "stop"}
    /\ pc' = "dead" /\ code' = "NONE"
    /\ NewObject
    /\ UNCHANGED <<claimed, disk, sent, spent, extraSpent, runs>>

\* A new process builds a new policy over the same claim directory.
Restart ==
    /\ pc \in {"done", "dead"} /\ runs < MaxRuns
    /\ runs' = runs + 1
    /\ pc' = "new" /\ code' = "NONE"
    /\ NewObject
    /\ UNCHANGED <<claimed, disk, sent, spent, extraSpent>>
-----------------------------------------------------------------------------
Prepare == BindClients \/ ActivateRefused \/ ActivateStops \/ ActivateClaims
Invoke == \E s \in StageNames : InvokeRefused(s) \/ InvokeBegins(s)
Hooks == \/ ParametersHook
         \/ SendRefused \/ SendBlocked \/ SendMisdirected \/ SendApproved
Return == CallRaises \/ ReturnRejected \/ ReturnObject \/ ReturnUsage
Observe == \/ RecordUnidentified
           \/ \E e \in Evidence, s \in ModelStages,
                 delivery \in {"YES", "UNKNOWN"}, priced \in BOOLEAN :
                 RecordExtra(e, s, delivery, priced)
Finish == BodyRaises \/ BodyReturns \/ Stop

\* What the process itself does; Die and Restart come from outside.
Run == Prepare \/ Invoke \/ Hooks \/ Return \/ Observe \/ Finish

Next == Run \/ Die \/ Restart

Spec == Init /\ [][Next]_vars
-----------------------------------------------------------------------------
(* Properties *)

OnDisk(kind, s) ==
    \E i \in DOMAIN disk : /\ disk[i].kind = kind /\ disk[i].stage = s
                           /\ disk[i].file = "whole"

\* What the run has really cost a provider.
Spend(p) == extraSpent[p] + IF p = "titan" THEN spent["embedding"]
                            ELSE spent["router"] + spent["generation"]

\* The pinned evidence bounds each request: one whose usage never came back
\* cost no more than its reservation.  This is the premise the policy states.
PriceBoundHeld == \A s \in ModelStages :
    attempts[s].charge = NoCharge => spent[s] <= Amount[s]

\* The running exposure that gates every reservation is, at every moment and
\* on every path, the sum accounting() reports: holds kept plus charges known.
Conservation == \A p \in Providers : exposure[p] = Holds(p) + Known(p)

\* A run with nothing unestablished and no violated coverage never exceeds a
\* cap, whatever was settled, overrun, lost or observed on the way: the
\* comparison with the caps in accounting() can then only confirm it.
CeilingSound == BoundEstablished /\ ~coverageViolated => WithinCaps(exposure)

\* As long as the policy says its exposure bound is established, the exposure
\* covers what the providers will really bill the run, requests whose answer
\* was lost and requests that bypassed the hooks included.
SpendCovered == sequence > 0 /\ BoundEstablished /\ PriceBoundHeld
                    => \A p \in Providers : Spend(p) <= exposure[p]

\* No request leaves before its own attempt record is whole on disk and
\* before every earlier stage was sent and its usage recorded, so that after
\* a crash the directory names every request that may have been billed.
RecordedBeforeSend == \A s \in StageNames : sent[s] > 0 =>
    /\ OnDisk("attempt", s)
    /\ \A t \in StageNames : Rank(t) < Rank(s) => sent[t] = 1
    /\ \A t \in ModelStages : Rank(t) < Rank(s) => OnDisk("usage", t)

\* A settled attempt was sent exactly once and its charge is the provider's
\* bill: no repeated, blocked or misdirected send is ever settled.
SettledIsBilled == sequence > 0 => \A s \in ModelStages :
    attempts[s].settled => sent[s] = 1 /\ attempts[s].charge = spent[s]

\* Journal files are numbered from one without a gap or a repetition, also
\* when writes fail: the exclusive creation never collides with a file of
\* the run and evidence_snapshot finds one file per number.
JournalNumbered == \A i \in DOMAIN disk : disk[i].ordinal = i

\* A run that reports completion sent every stage exactly once, settled every
\* reservation and stayed below its ceilings.
CompleteIsClean == pc = "done" /\ code = "NONE" =>
    /\ \A s \in StageNames : sent[s] = 1
    /\ \A s \in ModelStages : attempts[s].settled
    /\ \A p \in Providers : Holds(p) = 0
    /\ extras = <<>> /\ CeilingEstablished

\* The run refines the one-shot chain: over all the processes ever started on
\* one claim directory each stage's request leaves at most once and in order,
\* however the SDK repeats its callbacks, and none leaves once the process
\* that made the claim has left activate.
Claimant == pc \in {"body", "sdk", "stop"}
Chain == INSTANCE OneShotChain
            WITH Stages <- StageNames, Place <- [s \in StageNames |-> Rank(s)],
                 sent <- sent, ended <- claimed /\ ~Claimant
ImplementsChain == Chain!Spec
=============================================================================
