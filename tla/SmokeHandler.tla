---------------------------- MODULE SmokeHandler ----------------------------
(***************************************************************************)
(* app/rag_smoke_handler.py around the policy of SmokePolicy: one Lambda   *)
(* invocation builds the clients, runs the chain, closes the clients,      *)
(* hashes its journal and returns a bounded response; and the operator's   *)
(* inspect_handler (scripts/jev_rag_smoke_operator.py), which accepts or   *)
(* rejects that response from its fields alone.                            *)
(*                                                                         *)
(* The two files decide "uncertain" separately.  The handler walks its     *)
(* except clauses; the operator re-derives the verdict from the attempts.  *)
(* The function may be invoked again over the same /tmp, and may die with  *)
(* no response at any moment.                                              *)
(***************************************************************************)
EXTENDS SmokePolicy

CONSTANT MaxEvents    \* evidence_snapshot's limit on local events (32)
ASSUME MaxEventsAssumption == MaxEvents \in Nat

VARIABLES
    phase,     \* where handler() is
    status, reply, answer,    \* the response's status, code and result
    compact,   \* the response omits the extra requests
    events     \* how many local events the response carries

local == <<phase, status, reply, answer, compact, events>>
hvars == <<vars, local>>

Running == {"entry", "run", "close", "snapshot", "bound"}
Verdict == {"STRUCTURAL_SUCCESS", "STOPPED", "UNCERTAIN"}
HandlerCodes == {"CLIENT_INITIALIZATION_FAILED", "CLIENT_FACTORY_INVALID",
                 "LOCAL_EXECUTION_UNAVAILABLE", "RESULT_INVALID",
                 "RESULT_TOO_LARGE", "CLIENT_CLOSE_FAILED", "SMOKE_STOPPED",
                 "LOCAL_EVIDENCE_UNAVAILABLE"}

HandlerTypeOK ==
    /\ TypeOK
    /\ phase \in Running \cup {"returned", "refused", "lost"}
    /\ status \in Verdict
    /\ reply \in Codes \cup HandlerCodes
    /\ answer \in BOOLEAN /\ compact \in BOOLEAN
    /\ events \in 0..MaxEvents

\* What handler() assigns before it does anything.
Fresh(p) ==
    /\ phase' = p /\ status' = "STOPPED" /\ reply' = "CLIENT_INITIALIZATION_FAILED"
    /\ answer' = FALSE /\ compact' = FALSE /\ events' = 0

HandlerInit ==
    /\ Init
    /\ phase = "entry" /\ status = "STOPPED"
    /\ reply = "CLIENT_INITIALIZATION_FAILED"
    /\ answer = FALSE /\ compact = FALSE /\ events = 0
-----------------------------------------------------------------------------
(* Before the policy runs *)

\* validate refuses the event: the response names no policy and no run.
EnvelopeRefused ==
    /\ phase = "entry"
    /\ phase' = "refused"
    /\ UNCHANGED <<vars, status, reply, answer, compact, events>>

\* The client factory raises, or returns what is not a pair of clients.
FactoryFails ==
    /\ phase = "entry"
    /\ phase' = "close"
    /\ reply' \in {"CLIENT_INITIALIZATION_FAILED", "CLIENT_FACTORY_INVALID",
                   "LOCAL_EXECUTION_UNAVAILABLE"}
    /\ UNCHANGED <<vars, status, answer, compact, events>>

FactoryBuilds ==
    /\ phase = "entry" /\ phase' = "run"
    /\ UNCHANGED <<vars, status, reply, answer, compact, events>>

\* bind_clients, then process_smoke: nothing of the policy runs unbound.
PolicyRuns ==
    /\ phase = "run"
    /\ BindClients \/ (clients = Services /\ Run)
    /\ UNCHANGED local

\* The import of the orchestrator fails before the policy is activated.
ImportFails ==
    /\ phase = "run" /\ pc = "new" /\ clients = Services
    /\ phase' = "close" /\ reply' = "LOCAL_EXECUTION_UNAVAILABLE"
    /\ status' = IF \E s \in StageNames : attempts[s].made
                 THEN "UNCERTAIN" ELSE "STOPPED"
    /\ UNCHANGED <<vars, answer, compact, events>>
-----------------------------------------------------------------------------
(* The outcome of the policy *)

UncertainCodes == {"UNCERTAIN_PROVIDER_OUTCOME", "LOCAL_OR_UNCERTAIN_FAILURE",
                   "EVIDENCE_PUBLICATION_FAILED"}

\* An attempt with a reservation that was never settled.
HeldAttempt == \E s \in ModelStages : attempts[s].made /\ ~attempts[s].settled

\* Mutant: neither the attempts nor the marks the policy left are consulted.
UncertainByCode(c) == c \in UncertainCodes

\* The handler's test, on the SmokeStop code.
Uncertain(c) == c \in UncertainCodes \/ ~BoundEstablished \/ HeldAttempt

\* STOP_CODES does not list what refuses a request before it is reserved.
Listed(c) == IF c = "REQUEST_INVALID" THEN "SMOKE_STOPPED" ELSE c

\* except SmokeStop.
PolicyStopped ==
    /\ phase = "run" /\ pc = "done" /\ code # "NONE"
    /\ phase' = "close"
    /\ reply' = Listed(code)
    /\ status' = IF Uncertain(Listed(code)) THEN "UNCERTAIN" ELSE "STOPPED"
    /\ UNCHANGED <<vars, answer, compact, events>>

\* process_smoke returned; bounded_result accepts its result or raises
\* EnvelopeError, which leaves the initial status.
PolicyCompleted ==
    /\ phase = "run" /\ pc = "done" /\ code = "NONE"
    /\ phase' = "close"
    /\ \/ status' = "STRUCTURAL_SUCCESS" /\ reply' = "NONE" /\ answer' = TRUE
       \/ /\ reply' \in {"RESULT_INVALID", "RESULT_TOO_LARGE"}
          /\ UNCHANGED <<status, answer>>
    /\ UNCHANGED <<vars, compact, events>>
-----------------------------------------------------------------------------
(* The end of the invocation *)

\* Both clients are closed; one failure makes the whole result uncertain.
Close ==
    /\ phase = "close" /\ phase' = "snapshot"
    /\ \/ UNCHANGED <<status, reply, answer>>
       \/ /\ status' = "UNCERTAIN" /\ reply' = "CLIENT_CLOSE_FAILED"
          /\ answer' = FALSE
    /\ UNCHANGED <<vars, compact, events>>

\* Each of this object's files is there once and readable.
Readable == /\ sequence <= MaxEvents
            /\ \A n \in 1..sequence :
                  \E i \in DOMAIN disk : disk[i].ordinal = n /\ disk[i].file = "whole"

\* Mutant: a journal that cannot be read is reported as empty.
SnapshotDropsEvents ==
    /\ phase = "snapshot" /\ phase' = "bound"
    /\ events' = IF used /\ Readable THEN sequence ELSE 0
    /\ UNCHANGED <<vars, status, reply, answer, compact>>

\* evidence_snapshot: a policy that never claimed has no events; a file that
\* is missing, cut short or unreadable makes the result uncertain.
Snapshot ==
    /\ phase = "snapshot" /\ phase' = "bound"
    /\ \/ /\ used => Readable
          /\ events' = IF used THEN sequence ELSE 0
          /\ UNCHANGED <<status, reply, answer>>
       \/ /\ used /\ sequence > 0
          /\ events' = 0 /\ answer' = FALSE
          /\ status' = "UNCERTAIN" /\ reply' = "LOCAL_EVIDENCE_UNAVAILABLE"
    /\ UNCHANGED <<vars, compact>>

\* The response, or its compact form when it is over MAX_RESULT_BYTES.
Respond ==
    /\ phase = "bound" /\ phase' = "returned"
    /\ \/ UNCHANGED <<status, reply, answer, compact, events>>
       \/ /\ status' = "UNCERTAIN" /\ reply' = "RESULT_TOO_LARGE"
          /\ answer' = FALSE /\ compact' = TRUE /\ events' = 0
    /\ UNCHANGED vars

\* The function is killed, or an exception no clause names leaves handler().
Lost ==
    /\ phase \in Running
    /\ Fresh("lost") /\ NewObject
    /\ pc' = "dead" /\ code' = "NONE"
    /\ UNCHANGED <<claimed, disk, sent, spent, extraSpent, runs>>

\* Another invocation finds the same /tmp.
InvokedAgain ==
    /\ phase \in {"returned", "refused", "lost"} /\ runs < MaxRuns
    /\ Fresh("entry") /\ NewObject
    /\ pc' = "new" /\ code' = "NONE" /\ runs' = runs + 1
    /\ UNCHANGED <<claimed, disk, sent, spent, extraSpent>>

HandlerNext ==
    \/ EnvelopeRefused \/ FactoryFails \/ FactoryBuilds
    \/ PolicyRuns \/ ImportFails \/ PolicyStopped \/ PolicyCompleted
    \/ Close \/ Snapshot \/ Respond
    \/ Lost \/ InvokedAgain

HandlerSpec == HandlerInit /\ [][HandlerNext]_hvars
-----------------------------------------------------------------------------
(* inspect_handler, on the response alone *)

ChargeOver(s) == attempts[s].charge > IF s \in S3Stages THEN 0 ELSE Amount[s]

\* consumer_accounting: the bound, the coverage and the ceiling against the
\* stages named.
TotalsConsistent ==
    /\ BoundEstablished <=> unestablished = {}
    /\ Coverage = "VIOLATED" \/
       Coverage = IF unestablished = {} THEN "WITHIN_RECORDED_RESERVATIONS"
                  ELSE "UNESTABLISHED"
    /\ CeilingEstablished => BoundEstablished /\ Coverage # "VIOLATED"

\* consumer_accounting: each attempt against the totals beside it.
AttemptsConsistent == \A s \in StageNames : attempts[s].made =>
    LET a == attempts[s] IN
    /\ a.hold = IF a.settled \/ s \in S3Stages THEN 0 ELSE Amount[s]
    /\ a.settled => s \in ModelStages /\ a.charge # NoCharge
    /\ a.charge # NoCharge /\ ~a.settled => s \in unestablished
    /\ ChargeOver(s) => Coverage = "VIOLATED"

\* What consumer_accounting adds up itself, from the attempts listed.
ListedHold(s) == IF attempts[s].made THEN attempts[s].hold ELSE 0

\* consumer_accounting: retained_holds_usd against the attempts' holds.
HoldsConsistent ==
    /\ Holds("titan") = ListedHold("embedding")
    /\ Holds("haiku") = ListedHold("router") + ListedHold("generation")

\* consumer_accounting: a usage record among the events carried that says
\* overrun, in tokens or in dollars, leaves the coverage violated.
OverrunsConsistent == \A i \in DOMAIN disk :
    disk[i].ordinal <= events /\ disk[i].kind = "usage" /\ disk[i].overrun
        => Coverage = "VIOLATED"

\* inspect_handler: each extra request against the totals.
ExtrasConsistent == \A i \in DOMAIN extras :
    LET x == extras[i] IN
    /\ x.delivery = "NO" => x.charge = NoCharge
    /\ x.charge > 0 => Coverage = "VIOLATED"
    /\ x.delivery # "NO" =>
          /\ x.stage \in ModelStages
          /\ x.delivery = "UNKNOWN" \/ x.charge = NoCharge => x.stage \in unestablished

\* consumer_accounting's own derivation of uncertainty.
Uncertainty(c) ==
    \/ unestablished # {}
    \/ \E s \in StageNames : attempts[s].made /\ ~attempts[s].settled /\ s \in ModelStages
    \/ c \in {"UNCERTAIN_PROVIDER_OUTCOME", "LOCAL_OR_UNCERTAIN_FAILURE",
              "EVIDENCE_PUBLICATION_FAILED"}

\* The status each code may come with.
StatusConsistent ==
    LET doubt == Uncertainty(reply)
        as(b) == IF b THEN "UNCERTAIN" ELSE "STOPPED"
    IN
    /\ status # "UNCERTAIN" => ~doubt
    /\ CASE reply \in {"CLIENT_CLOSE_FAILED", "LOCAL_EVIDENCE_UNAVAILABLE"} ->
              status = "UNCERTAIN"
         [] reply = "LOCAL_EXECUTION_UNAVAILABLE" ->
              status = as(\E s \in StageNames : attempts[s].made)
         [] reply = "RESULT_TOO_LARGE" -> status = as(compact \/ doubt)
         [] reply \in (Codes \ {"NONE", "REQUEST_INVALID"})
                      \cup {"SMOKE_STOPPED", "RESULT_INVALID"} ->
              status = as(doubt)
         [] OTHER -> TRUE

SuccessConsistent == status = "STRUCTURAL_SUCCESS" =>
    /\ \A s \in StageNames : attempts[s].made
    /\ CeilingEstablished /\ Coverage = "WITHIN_RECORDED_RESERVATIONS"
    /\ extras = <<>>

InspectHandler ==
    /\ status = "STRUCTURAL_SUCCESS" <=> reply = "NONE"
    /\ status = "STRUCTURAL_SUCCESS" <=> answer
    /\ compact => /\ status = "UNCERTAIN" /\ reply = "RESULT_TOO_LARGE"
                  /\ events = 0
    /\ TotalsConsistent /\ AttemptsConsistent /\ HoldsConsistent
    /\ OverrunsConsistent /\ StatusConsistent /\ SuccessConsistent
    /\ compact \/ ExtrasConsistent
-----------------------------------------------------------------------------
(* Properties *)

\* The operator accepts every response the handler can return once it has a
\* policy, on every path through its except clauses: the two independent
\* derivations of "uncertain" never contradict each other, the holds add up
\* to the totals beside them, and no journaled overrun, an overrun in tokens
\* alone included, comes with a coverage that is not violated.
InspectorAccepts == phase = "returned" => InspectHandler

\* A response that is not uncertain leaves no doubt about money: what the
\* policy of this invocation knows is exactly what the providers will bill,
\* and nothing is held.
CertainIsExact ==
    phase = "returned" /\ status # "UNCERTAIN" /\ sequence > 0 =>
        \A p \in Providers : Holds(p) = 0 /\ Spend(p) = Known(p)

\* A response that is not uncertain comes with the journal of everything it
\* did: each attempt it lists, and each settlement, can be read back.
EvidenceNamesAttempts == HandlerTypeOK /\
    (phase = "returned" /\ status # "UNCERTAIN" =>
        \A s \in StageNames :
            /\ attempts[s].made => OnDisk("attempt", s) /\ events > 0
            /\ attempts[s].settled => OnDisk("usage", s))
=============================================================================
