----------------------------- MODULE LiveSmoke -----------------------------
(***************************************************************************)
(* experiments/jev_candidate/live_smoke.py: the owner's isolated routing   *)
(* smoke.  execute() claims a directory for its fixed RUN_ID, writes its   *)
(* plan, and then routes every case through both providers once, with an   *)
(* ExactLedger in front of each call, a Permit around the SDKs and an      *)
(* ExactJournal beside them.  The first call it cannot account for ends    *)
(* the run.                                                                *)
(*                                                                         *)
(* Several processes may be started for the same RUN_ID.  Any of them may  *)
(* be interrupted (KeyboardInterrupt is caught) or die.  An interrupt is   *)
(* delivered where the interpreter looks for one, which is also inside     *)
(* Ledger.settle, after the reservation was given back.  Money is counted  *)
(* in indivisible units.                                                   *)
(***************************************************************************)
EXTENDS Integers

CONSTANTS
    Runs,         \* processes started for RUN_ID
    Cases,        \* how many cases the schedule has (6 in CASES)
    Reservation,  \* capacity_reservations
    MaxBill,      \* the most a call of a provider can be billed
    Caps          \* CAPS

Providers == {"typesafe", "bedrock"}
ASSUME RunsAssumption == Runs # {} /\ Cases \in Nat \ {0}
ASSUME MoneyAssumption ==
    /\ Reservation \in [Providers -> Nat \ {0}] /\ MaxBill \in [Providers -> Nat]
    /\ Caps \in [Providers \cup {"total"} -> Nat]
    /\ \A p \in Providers : Reservation[p] <= MaxBill[p]

\* The schedule: each case through typesafe, then bedrock.
Calls == 1..(2 * Cases)
ProviderOf(c) == IF c % 2 = 1 THEN "typesafe" ELSE "bedrock"

VARIABLES
    pc,            \* where each process is
    claimed, opened,   \* who made the run's directory; its journal exists
    position,      \* the call of the loop
    account, active,   \* the ledger; a reservation in hand, not settled
    permit, reply,     \* the Permit, and what route() reported
    status, code,  \* of the report to be written
    announced, completed, ending,   \* the journal: call_started, call_completed
                                    \* and the last event
    result,        \* the status in result.json
    sent, billed   \* requests that left for the wire; what they will be billed

vars == <<pc, claimed, opened, position, account, active, permit, reply, status,
          code, announced, completed, ending, result, sent, billed>>
ledger == <<account, active>>
journal == <<announced, completed, ending>>
world == <<sent, billed>>
report == <<status, code, result>>

\* Inside the try of execute, and past it.
Configuring == {"begin", "configure", "preflight"}
InLoop == {"next", "announce", "dispatch", "wired", "settle", "complete", "verify"}
Ending == {"close", "ending", "report"}
Stopped == {"returned", "raised", "dead"}
Codes == {"none", "interrupted", "configuration", "budget", "unexpected_activity",
          "usage_accounting_failure", "provider_failure", "resource_close_failure"}

NoReply == [outcome |-> "none", known |-> FALSE, cost |-> 0, bounded |-> FALSE,
            attempts |-> FALSE, touched |-> FALSE]
Idle == [armed |-> FALSE, dispatches |-> 0, wires |-> 0]

TypeOK ==
    /\ pc \in [Runs -> {"start", "open"} \cup Configuring \cup InLoop \cup Ending \cup Stopped]
    /\ claimed \in SUBSET Runs /\ opened \in BOOLEAN
    /\ position \in 1..(2 * Cases + 1)
    /\ account \in [Providers -> [requests : Nat, committed : Nat, reserved : Int]]
    /\ active \in BOOLEAN
    /\ permit \in [armed : BOOLEAN, dispatches : 0..1, wires : 0..1]
    /\ reply \in [outcome : {"none", "model", "low", "parse", "error"}, known : BOOLEAN,
                  cost : Nat, bounded : BOOLEAN, attempts : BOOLEAN, touched : BOOLEAN]
    /\ status \in {"STOPPED", "COMPLETED"} /\ code \in Codes
    /\ announced \subseteq Calls /\ completed \subseteq Calls
    /\ ending \in {"none", "run_finished", "run_stopped"}
    /\ result \in {"none", "STOPPED", "COMPLETED"}
    /\ sent \in [Calls -> Nat] /\ billed \in [Providers -> Nat]

Init ==
    /\ pc = [r \in Runs |-> "start"] /\ claimed = {} /\ opened = FALSE
    /\ position = 1
    /\ account = [p \in Providers |-> [requests |-> 0, committed |-> 0, reserved |-> 0]]
    /\ active = FALSE /\ permit = Idle /\ reply = NoReply
    /\ status = "STOPPED" /\ code = "none"
    /\ announced = {} /\ completed = {} /\ ending = "none" /\ result = "none"
    /\ sent = [c \in Calls |-> 0] /\ billed = [p \in Providers |-> 0]

Provider == ProviderOf(position)
GoTo(r, where) == pc' = [pc EXCEPT ![r] = where]
-----------------------------------------------------------------------------
(* The claim and the plan *)

\* directory.mkdir(exist_ok=False), before any setting is read.  A process
\* that finds the directory ends there, and so does one that was refused its
\* flag, its path or its source inventory.
Claim(r) ==
    /\ pc[r] = "start"
    /\ IF claimed = {}
       THEN GoTo(r, "open") /\ claimed' = {r}
       ELSE GoTo(r, "raised") /\ UNCHANGED claimed
    /\ UNCHANGED <<opened, position, ledger, permit, reply, report, journal, world>>

Refuse(r) ==
    /\ pc[r] = "start" /\ GoTo(r, "raised")
    /\ UNCHANGED <<claimed, opened, position, ledger, permit, reply, report,
                   journal, world>>

\* RunJournal: open(path, "x"), which may fail and is outside the try.
OpenJournal(r) ==
    /\ pc[r] = "open"
    /\ \/ ~opened /\ opened' = TRUE /\ GoTo(r, "begin")
       \/ GoTo(r, "raised") /\ UNCHANGED opened
    /\ UNCHANGED <<claimed, position, ledger, permit, reply, report, journal, world>>

\* run_started, the source inventory, the factory, the predecessor's plan and
\* this plan: any of them may be refused, see Fail.
Prepare(r) ==
    /\ \/ pc[r] = "begin" /\ GoTo(r, "configure")
       \/ pc[r] = "configure" /\ GoTo(r, "preflight")
    /\ UNCHANGED <<claimed, opened, position, ledger, permit, reply, report,
                   journal, world>>

\* The check "plan_budget", on the reservations of every case.
PlanWithinCaps ==
    /\ \A p \in Providers : Cases * Reservation[p] <= Caps[p]
    /\ Cases * (Reservation["typesafe"] + Reservation["bedrock"]) <= Caps["total"]

Preflight(r) ==
    /\ pc[r] = "preflight" /\ PlanWithinCaps
    /\ GoTo(r, "next")
    /\ UNCHANGED <<claimed, opened, position, ledger, permit, reply, report,
                   journal, world>>
-----------------------------------------------------------------------------
(* Leaving the try *)

\* Mutant: the reservation is given back and nothing is charged.
SettledForgotten(a, p, charge) == [a EXCEPT ![p].reserved = @ - Reservation[p]]

\* ExactLedger.settle: the charge replaces the reservation, unclamped.
SettledAt(a, p, charge) ==
    [a EXCEPT ![p].reserved = @ - Reservation[p], ![p].committed = @ + charge]

\* The except clause: the reservation in hand is settled at its full amount.
\* a is the ledger as the failure finds it.
StopFrom(r, a, why) ==
    /\ GoTo(r, "close") /\ code' = why
    /\ account' = IF active THEN SettledAt(a, Provider, Reservation[Provider]) ELSE a
    /\ active' = FALSE /\ UNCHANGED status

Stop(r, why) == StopFrom(r, account, why)

\* A write, a request of the factory or a check before the loop fails.
Fail(r) ==
    /\ pc[r] \in Configuring /\ Stop(r, "configuration")
    /\ UNCHANGED <<claimed, opened, position, permit, reply, journal, result, world>>

\* A request that left and is not waited for may be billed anything.
Unwatched(r) ==
    IF pc[r] = "wired" /\ permit.wires = 1
    THEN \E b \in 0..MaxBill[Provider] : billed' = [billed EXCEPT ![Provider] = @ + b]
    ELSE UNCHANGED billed

\* A KeyboardInterrupt anywhere in the try.
Interrupt(r) ==
    /\ pc[r] \in Configuring \cup InLoop /\ Stop(r, "interrupted")
    /\ Unwatched(r)
    /\ UNCHANGED <<claimed, opened, position, permit, reply, journal, result, sent>>

\* One that falls inside settle, once reserved_usd was reduced and before
\* committed_usd is charged: the reservation is not settled, and is settled
\* again by the except clause.
InterruptSettle(r) ==
    /\ pc[r] = "settle"
    /\ StopFrom(r, [account EXCEPT ![Provider].reserved = @ - Reservation[Provider]],
                "interrupted")
    /\ UNCHANGED <<claimed, opened, position, permit, reply, journal, result, world>>
-----------------------------------------------------------------------------
(* One call *)

\* ExactLedger.reserve.
Affordable(p) ==
    /\ account[p].requests < Cases
    /\ account[p].committed + account[p].reserved + Reservation[p] <= Caps[p]
    /\ account["typesafe"].committed + account["typesafe"].reserved
       + account["bedrock"].committed + account["bedrock"].reserved
       + Reservation[p] <= Caps["total"]

Held == [account EXCEPT ![Provider].requests = @ + 1,
                        ![Provider].reserved = @ + Reservation[Provider]]

Reserve(r) ==
    /\ pc[r] = "next" /\ position \in Calls
    /\ IF Affordable(Provider)
       THEN /\ GoTo(r, "announce")
            /\ account' = Held /\ active' = TRUE /\ UNCHANGED <<status, code>>
       ELSE Stop(r, "budget")
    /\ UNCHANGED <<claimed, opened, position, permit, reply, journal, result, world>>

\* An interrupt before the reservation made is assigned to active: nobody
\* settles it, and nothing is sent for it.
InterruptReserve(r) ==
    /\ pc[r] = "next" /\ position \in Calls /\ Affordable(Provider)
    /\ StopFrom(r, Held, "interrupted")
    /\ UNCHANGED <<claimed, opened, position, permit, reply, journal, result, world>>

\* Mutant: the line is left to be written with the outcome.
AnnouncedLater == announced

Announced == announced \cup {position}

\* call_started reaches the disk, or the write fails with the line on the
\* disk or not; then the permit is armed.
Announce(r) ==
    /\ pc[r] = "announce"
    /\ \/ /\ announced' = Announced /\ GoTo(r, "dispatch")
          /\ permit' = [Idle EXCEPT !.armed = TRUE]
          /\ UNCHANGED <<ledger, status, code>>
       \/ announced' \in {announced, Announced} /\ Stop(r, "configuration") /\ UNCHANGED permit
    /\ UNCHANGED <<claimed, opened, position, reply, completed, ending, result, world>>

\* Mutant: the permit does not count the requests on the wire.
WirableTwice == permit.armed /\ permit.dispatches = 1

\* Permit.wire.
Wirable == permit.armed /\ permit.dispatches = 1 /\ permit.wires = 0

\* Permit.consume in the bridge, and Permit.wire when the request leaves: at
\* once for Jev, in the before-send hook for Bedrock, which may refuse it.
Dispatch(r) ==
    /\ pc[r] = "dispatch" /\ permit.armed /\ permit.dispatches = 0
    /\ permit' = [permit EXCEPT !.dispatches = 1]
    /\ GoTo(r, "wired")
    /\ UNCHANGED <<claimed, opened, position, ledger, reply, report, journal, world>>

\* The SDK asks for the wire; it is configured never to ask twice.
Wire(r) ==
    /\ pc[r] = "wired" /\ Wirable
    /\ permit' = [permit EXCEPT !.wires = 1]
    /\ sent' = [sent EXCEPT ![position] = @ + 1]
    /\ UNCHANGED <<pc, claimed, opened, position, ledger, reply, report, journal, billed>>

\* A reply with usage, within the input bounds or not, and one without.
Usage(o, b, fits) ==
    [NoReply EXCEPT !.outcome = o, !.known = TRUE, !.cost = b, !.bounded = fits]
NoUsage(o) == [NoReply EXCEPT !.outcome = o]

\* What route() may report of a call that left and is billed b: usage within
\* the input bounds, usage out of them, no usable usage.
Replies(p, b) ==
    {Usage(o, b, TRUE) : o \in {n \in {"model", "low", "parse"} :
        b \in 1..Reservation[p] /\ (n = "parse" => p = "bedrock")}}
    \cup {Usage(o, b, FALSE) : o \in {n \in {"model"} : b > 0}}
    \cup {NoUsage(o) : o \in {n \in {"error", "model"} : n = "model" => p = "bedrock"}}

\* route() swallows every failure of a provider, the permit's refusals
\* included, and reports a fallback.  touched: the tripwire saw downstream code.
Route(r) ==
    /\ pc[r] = "wired" /\ GoTo(r, "settle")
    /\ \E attempts, touched \in BOOLEAN :
          IF permit.wires = 1
          THEN \E b \in 0..MaxBill[Provider] : \E answer \in Replies(Provider, b) :
                  /\ reply' = [answer EXCEPT !.attempts = attempts, !.touched = touched]
                  /\ billed' = [billed EXCEPT ![Provider] = @ + b]
          ELSE /\ reply' = [NoReply EXCEPT !.outcome = "error", !.touched = touched]
               /\ UNCHANGED billed
    /\ UNCHANGED <<claimed, opened, position, ledger, permit, report, journal, sent>>

\* A cost that is not known keeps the reservation.
Settle(r) ==
    /\ pc[r] = "settle" /\ GoTo(r, "complete")
    /\ account' = SettledAt(account, Provider,
                            IF reply.known THEN reply.cost ELSE Reservation[Provider])
    /\ active' = FALSE
    /\ UNCHANGED <<claimed, opened, position, permit, reply, report, journal, world>>

\* The row is appended to the results, and call_completed to the journal.
Complete(r) ==
    /\ pc[r] = "complete"
    /\ \/ completed' = completed \cup {position} /\ GoTo(r, "verify")
          /\ UNCHANGED <<ledger, status, code>>
       \/ completed' \in {completed, completed \cup {position}} /\ Stop(r, "configuration")
    /\ UNCHANGED <<claimed, opened, position, permit, reply, announced, ending,
                   result, world>>

\* Mutant: only the outcome of a completed call is looked at.
ObjectionIgnored == IF reply.outcome \in {"model", "low"} THEN "none" ELSE "provider_failure"

\* The three requirements on a completed call, in their order.
Objection ==
    IF permit.dispatches # 1 \/ permit.wires # 1 \/ ~reply.attempts \/ reply.touched
    THEN "unexpected_activity"
    ELSE IF ~reply.known \/ reply.cost > Reservation[Provider] \/ ~reply.bounded
    THEN "usage_accounting_failure"
    ELSE IF reply.outcome \notin {"model", "low"} THEN "provider_failure"
    ELSE "none"

Verify(r) ==
    /\ pc[r] = "verify"
    /\ IF Objection = "none"
       THEN /\ GoTo(r, "next") /\ position' = position + 1 /\ permit' = Idle
            /\ UNCHANGED <<ledger, status, code>>
       ELSE Stop(r, Objection) /\ UNCHANGED <<position, permit>>
    /\ UNCHANGED <<claimed, opened, reply, journal, result, world>>
-----------------------------------------------------------------------------
(* The end of the run *)

\* The loop is over; the tripwire's report also counts modules that were
\* imported on the way.
Conclude(r) ==
    /\ pc[r] = "next" /\ position \notin Calls
    /\ \/ GoTo(r, "close") /\ status' = "COMPLETED" /\ UNCHANGED <<ledger, code>>
       \/ Stop(r, "unexpected_activity")
    /\ UNCHANGED <<claimed, opened, position, permit, reply, journal, result, world>>

\* permit.clear, and every resource is closed; a failure changes the outcome.
CloseOutcomes == {<<status, code>>, <<"STOPPED", "resource_close_failure">>}

Close(r) ==
    /\ pc[r] = "close" /\ GoTo(r, "ending")
    /\ permit' = Idle
    /\ \E o \in CloseOutcomes : status' = o[1] /\ code' = o[2]
    /\ UNCHANGED <<claimed, opened, position, ledger, reply, result, journal, world>>

Closing == IF status = "COMPLETED" THEN "run_finished" ELSE "run_stopped"

\* The last event; a write that fails leaves execute before the result.
End(r) ==
    /\ pc[r] = "ending"
    /\ \/ ending' = Closing /\ GoTo(r, "report")
       \/ ending' \in {"none", Closing} /\ GoTo(r, "raised")
    /\ UNCHANGED <<claimed, opened, position, ledger, permit, reply, report,
                   announced, completed, world>>

\* result.json; then the report is returned, or the failure of the except
\* clause goes on.
Report(r) ==
    /\ pc[r] = "report"
    /\ \/ result' = status /\ GoTo(r, "returned")
       \/ UNCHANGED result /\ GoTo(r, "raised")
    /\ UNCHANGED <<claimed, opened, position, ledger, permit, reply, status, code,
                   journal, world>>

\* The process is killed, or interrupted where nothing catches it.
Die(r) ==
    /\ pc[r] \notin Stopped /\ GoTo(r, "dead")
    /\ Unwatched(r)
    /\ UNCHANGED <<claimed, opened, position, ledger, permit, reply, report,
                   journal, sent>>

Step(r) ==
    \/ Claim(r) \/ Refuse(r) \/ OpenJournal(r) \/ Prepare(r) \/ Preflight(r) \/ Fail(r)
    \/ Reserve(r) \/ Announce(r) \/ Dispatch(r) \/ Wire(r) \/ Route(r) \/ Settle(r)
    \/ Complete(r) \/ Verify(r) \/ Conclude(r) \/ Close(r) \/ End(r) \/ Report(r)

Outside(r) == Interrupt(r) \/ InterruptSettle(r) \/ InterruptReserve(r) \/ Die(r)

Next == \E r \in Runs : Step(r) \/ Outside(r)

Spec == Init /\ [][Next]_vars
-----------------------------------------------------------------------------
(* Properties *)

At(where) == \E r \in claimed : pc[r] \in where

\* The run goes on only while its ledger is the bill: whenever the loop comes
\* round, what is committed is what was billed and nothing is held.
GoesOnExactly == At({"next"}) =>
    \A p \in Providers : account[p].committed = billed[p] /\ account[p].reserved = 0

\* However it ends, the accounting it leaves is behind the bill by at most what
\* one call may cost above the capacity reserved for it.
BillCovered == \A p \in Providers :
    billed[p] <= account[p].committed + MaxBill[p] - Reservation[p]
                 + (IF active /\ Provider = p THEN Reservation[p] ELSE 0)

\* The check of the whole plan makes the caps of each call unreachable: no
\* reservation is refused, so a stop is never the budget's.
PlanSuffices == code # "budget"

\* Accounting of ExactLedger as execute() drives it, over interrupts at any
\* point, the inside of settle included.
LedgerTruth == TypeOK /\ GoesOnExactly /\ BillCovered /\ PlanSuffices

\* A request that left is in the journal; one call at most is there without
\* its outcome; result.json never contradicts the journal's last line.
EvidenceCoversSends ==
    /\ \A c \in Calls : sent[c] > 0 => c \in announced
    /\ completed \subseteq announced /\ announced \ completed \subseteq {position}
    /\ result # "none" => ending # "none"
    /\ result # "none" => (result = "COMPLETED" <=> ending = "run_finished")

\* A run that reports COMPLETED sent every call once, with a line before and a
\* line after it, and its committed money is the bill to the unit.
CompletedIsExact == result = "COMPLETED" =>
    /\ announced = Calls /\ completed = Calls /\ \A c \in Calls : sent[c] = 1
    /\ code = "none"
    /\ \A p \in Providers : account[p].committed = billed[p] /\ account[p].reserved = 0

\* The run is a one-shot chain over the calls of its schedule: nothing is sent
\* twice, out of order, or once it ended, whoever starts RUN_ID again.
Chain == INSTANCE OneShotChain WITH
    Stages <- Calls, Place <- [c \in Calls |-> c], sent <- sent,
    ended <- At(Ending \cup Stopped)
ImplementsChain == Chain!Spec

\* The claim of ExactLedger: "Unknown outcomes retain the full reservation".
UnknownRetained == \A p \in Providers :
    Reservation[p] = MaxBill[p] => billed[p] <= account[p].committed + account[p].reserved
=============================================================================
