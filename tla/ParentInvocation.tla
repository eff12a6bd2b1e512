-------------------------- MODULE ParentInvocation --------------------------
(***************************************************************************)
(* The parent's side of one smoke run: publish_claim (P0), consume_adapter *)
(* with its Publication, the one-use ParentTransport between the SDK's two *)
(* hooks, and the launcher that turns what was returned into a receipt and *)
(* a confirmation.                                                         *)
(*                                                                         *)
(* Several operator processes may be started for one execution_id over one *)
(* persistent root.  Nothing but the directory decides between them, and   *)
(* any of them may die between two steps.  A failed write leaves a file    *)
(* that is unusable ("broken": missing or cut short) or whole all the      *)
(* same.  Exceptions the code does not name propagate ("defect") through   *)
(* finally clauses that still publish what they can; an interrupt          *)
(* (KeyboardInterrupt) may arrive at any step, also between a resource     *)
(* taken and the clause that would release it.                             *)
(***************************************************************************)
EXTENDS Naturals, Sequences

CONSTANTS Operators,   \* the processes started for one execution_id
          Late,        \* bound: files a failed write may leave whole all the same
          TailMode     \* the plan asks for the log tail (the only launched mode)

ASSUME TailModeAssumption == TailMode \in BOOLEAN

VARIABLES
    directory, file, index, sends,     \* the root, and requests that left
    pc, at,                            \* where each process is in its lists
    listed, failed,                    \* Publication.files, any failures
    wire, client,                      \* ParentTransport.result, the SDK client
    clean, judged, defect,             \* consume_adapter's locals
    returned, launched                 \* what it and the launcher return

disk == <<directory, file, index>>
locals == <<clean, judged, defect>>
results == <<returned, launched>>
vars == <<disk, sends, pc, at, listed, failed, wire, client, locals, results>>
-----------------------------------------------------------------------------
(* Names and shapes *)

\* What must be durable before a client exists, in the order it is written.
Before == <<"operator-plan", "p0-plan", "invocation", "policy", "haiku-price",
            "titan-price", "request", "invocation-attempt">>

\* _publish_adapter, before any interpretation.
Raw == IF TailMode THEN <<"response", "response-metadata", "transport-result",
                          "log-encoded", "log-decoded", "log-evidence">>
       ELSE <<"response", "response-metadata", "transport-result">>

Names(s) == {s[i] : i \in DOMAIN s}
Files == Names(Before) \cup Names(Raw)
         \cup {"claim", "report-association", "index", "returned-status"}

\* ParentTransport, once built, and its Attempt: entered is dispatch_entries,
\* failed is the hooks' (a blocked send always sets it), fault is
\* result.failures, body that it was read to its end and closed.
NotEntered == [built |-> FALSE, entered |-> FALSE, checks |-> 0, approved |-> 0,
               failed |-> FALSE, fault |-> FALSE, logs |-> "none",
               body |-> FALSE]
NoIndex == [status |-> "NONE", files |-> {}, judged |-> FALSE]

\* From the claim to the end of client.invoke: the only places to send from.
MaySend == {"claim", "stat", "before", "factory", "adapter", "built", "sdk"}

\* The body of consume_adapter's try statement, but for invoke_once and for
\* the evidence published under an exception ("salvage").
Consuming == {"before", "factory", "adapter", "built", "evidence", "assess",
              "join", "end", "inspect"}
Live == MaySend \cup Consuming
        \cup {"prepare", "validate", "start", "closing", "salvage", "final",
              "index", "receipt", "confirm", "console"}

TypeOK ==
    /\ directory \in BOOLEAN
    /\ file \in [Files -> {"absent", "broken", "whole"}]
    /\ index \in [status : {"NONE", "COMPLETE", "INTERRUPTED"},
                  files : SUBSET Files, judged : BOOLEAN]
    /\ sends \in Nat
    /\ pc \in [Operators -> Live \cup {"returned", "raised", "crashed"}]
    /\ at \in [Operators -> 1..9]
    /\ listed \in [Operators -> SUBSET Files]
    /\ wire \in [Operators ->
          [built : BOOLEAN, entered : BOOLEAN, checks : 0..2, approved : 0..1,
           failed : BOOLEAN, fault : BOOLEAN, logs : {"none", "decoded", "unusable"},
           body : BOOLEAN]]
    /\ client \in [Operators -> {"none", "open", "closed", "unclosable", "lost"}]
    /\ \A b \in {failed, clean, judged, defect} : b \in [Operators -> BOOLEAN]
    /\ returned \in [Operators ->
          {"NONE", "COMPLETE", "INTERRUPTED", "INTERRUPTED_UNINDEXED"}]
    /\ launched \in [Operators -> {"NONE", "COMPLETE", "UNCONFIRMED"}]

Init ==
    /\ directory = FALSE /\ sends = 0 /\ index = NoIndex
    /\ file = [n \in Files |-> "absent"]
    /\ pc = [p \in Operators |-> "prepare"] /\ at = [p \in Operators |-> 1]
    /\ listed = [p \in Operators |-> {}]
    /\ wire = [p \in Operators |-> NotEntered]
    /\ client = [p \in Operators |-> "none"]
    /\ failed = [p \in Operators |-> FALSE] /\ clean = failed
    /\ judged = failed /\ defect = failed
    /\ returned = [p \in Operators |-> "NONE"]
    /\ launched = [p \in Operators |-> "NONE"]

Goto(p, place) == pc' = [pc EXCEPT ![p] = place]
Set(f, p, value) == [f EXCEPT ![p] = value]
-----------------------------------------------------------------------------
(* Publication *)

\* Mutant: success is reported before the file is flushed and closed.
UnsyncedOutcomes(n) == [ok : BOOLEAN, file : {"broken", "whole"}]

\* _write: exclusive creation, then write, flush, fsync and close.
Outcomes(n) ==
    {w \in [ok : BOOLEAN, file : {"broken", "whole"}] :
        /\ w.ok => w.file = "whole" /\ file[n] = "absent"
        /\ ~w.ok /\ w.file = "whole" => n \in Late
        /\ file[n] # "absent" => w.file = file[n]}

\* Mutant: a file is listed when its write begins.
PutListsFirst(p, n, w) ==
    /\ file' = [file EXCEPT ![n] = w.file]
    /\ listed' = [listed EXCEPT ![p] = @ \cup {n}]
    /\ failed' = [failed EXCEPT ![p] = @ \/ ~w.ok]

\* Publication.raw and .record: a failure is noted, a success listed.
Put(p, n, w) ==
    /\ file' = [file EXCEPT ![n] = w.file]
    /\ listed' = [listed EXCEPT ![p] = @ \cup {x \in {n} : w.ok}]
    /\ failed' = [failed EXCEPT ![p] = @ \/ ~w.ok]

\* An exception under way: one consume_adapter will catch, or let through.
Fails(p, caught) ==
    /\ failed' = Set(failed, p, TRUE)
    /\ defect' = Set(defect, p, ~caught)
-----------------------------------------------------------------------------
(* Authorization, validation and publish_claim *)

\* A step that accepts its inputs, or raises and creates nothing.
Accept(p, here, next) ==
    /\ pc[p] = here
    /\ Goto(p, next) \/ Goto(p, "raised")
    /\ UNCHANGED <<disk, sends, at, listed, failed, wire, client, locals, results>>

\* prepare binds the authorization to every input and to the root.
Prepare(p) == Accept(p, "prepare", "validate")

\* consume_adapter validates the same inputs again, then claims.
Validate(p) == Accept(p, "validate", "start")

\* mkdir decides; an input that no longer validates, or an OSError, creates
\* nothing.
ClaimRefused(p) ==
    /\ pc[p] = "start" /\ Goto(p, "raised")
    /\ UNCHANGED <<disk, sends, at, listed, failed, wire, client, locals, results>>

MakeDirectory(p) ==
    /\ pc[p] = "start" /\ ~directory
    /\ directory' = TRUE /\ Goto(p, "claim")
    /\ UNCHANGED <<file, index, sends, at, listed, failed, wire, client,
                   locals, results>>

\* A claim that cannot be written is retained, and blocks every other process.
WriteClaim(p) ==
    /\ pc[p] = "claim"
    /\ \E w \in Outcomes("claim") :
          /\ file' = [file EXCEPT !["claim"] = w.file]
          /\ Goto(p, IF w.ok THEN "stat" ELSE "raised")
    /\ UNCHANGED <<directory, index, sends, at, listed, failed, wire, client,
                   locals, results>>

\* consume_adapter takes the claim over, or cannot stat it.
TakeClaim(p) ==
    /\ pc[p] = "stat"
    /\ \/ Goto(p, "before") /\ listed' = Set(listed, p, {"claim"})
       \/ Goto(p, "raised") /\ UNCHANGED listed
    /\ UNCHANGED <<disk, sends, at, failed, wire, client, locals, results>>
-----------------------------------------------------------------------------
(* consume_adapter, up to the dispatch *)

\* The six inputs, the request and the marker; the first failure ends it.
PublishBefore(p) ==
    /\ pc[p] = "before"
    /\ \E w \in Outcomes(Before[at[p]]) :
          /\ Put(p, Before[at[p]], w)
          /\ IF ~w.ok THEN Goto(p, "final") /\ UNCHANGED at
             ELSE /\ at' = [at EXCEPT ![p] = @ + 1]
                  /\ IF at[p] = Len(Before) THEN Goto(p, "factory")
                     ELSE UNCHANGED pc
    /\ UNCHANGED <<directory, index, sends, wire, client, locals, results>>

\* The client exists, but an interrupt arrives before it is assigned.
Lost(p) == IF pc[p] = "factory" THEN {"none", "lost"} ELSE {client[p]}

\* The clock, the factory, ParentTransport's checks of its client, the one
\* comparison after it, publishing what came back, or an interrupt raises:
\* outside invoke_once every exception leads to the except clauses.
ConsumerRaises(p) ==
    /\ pc[p] \in Consuming
    /\ \E caught \in BOOLEAN : Fails(p, caught)
    /\ client' \in {Set(client, p, c) : c \in Lost(p)}
    /\ Goto(p, "final")
    /\ UNCHANGED <<disk, sends, at, listed, wire, clean, judged, results>>

\* The one-use factory closes by itself a client it rejects.
FactoryReturns(p) ==
    /\ pc[p] = "factory"
    /\ client' = Set(client, p, "open") /\ Goto(p, "adapter")
    /\ UNCHANGED <<disk, sends, at, listed, failed, wire, locals, results>>

\* ParentTransport accepts the client: from here closing it is its affair.
AdapterBuilds(p) ==
    /\ pc[p] = "adapter"
    /\ wire' = [wire EXCEPT ![p].built = TRUE]
    /\ Goto(p, "built")
    /\ UNCHANGED <<disk, sends, at, listed, failed, client, locals, results>>

\* invoke_once uses the transport up and enters its try statement.
InvokeEnters(p) ==
    /\ pc[p] = "built"
    /\ wire' = [wire EXCEPT ![p].entered = TRUE]
    /\ Goto(p, "sdk")
    /\ UNCHANGED <<disk, sends, at, listed, failed, client, locals, results>>

\* It raises before it is there: the evidence is published, and no one is
\* left to close the client.
InvokeAbandoned(p) ==
    /\ pc[p] = "built"
    /\ \E entered \in BOOLEAN : wire' = [wire EXCEPT ![p].entered = entered]
    /\ \E caught \in BOOLEAN : Fails(p, caught)
    /\ at' = Set(at, p, 1) /\ Goto(p, "salvage")
    /\ UNCHANGED <<disk, sends, listed, client, clean, judged, results>>
-----------------------------------------------------------------------------
(* client.invoke: the hooks, called by an SDK that may swallow what they raise *)

\* A hook refuses: AdapterError ends the call, or the SDK goes on without.
Refuse(p, t) ==
    \/ wire' = Set(wire, p, t) /\ UNCHANGED pc
    \/ wire' = Set(wire, p, [t EXCEPT !.fault = TRUE]) /\ Goto(p, "closing")

ParametersHook(p) ==
    /\ pc[p] = "sdk" /\ wire[p].checks < 2       \* bound: two builds
    /\ LET t == [wire[p] EXCEPT !.checks = @ + 1] IN
       \/ /\ ~t.failed /\ t.checks = 1
          /\ wire' = Set(wire, p, t) /\ UNCHANGED pc
       \/ Refuse(p, [t EXCEPT !.failed = TRUE])   \* also for another request
    /\ UNCHANGED <<disk, sends, at, listed, failed, client, locals, results>>

\* Mutant: an approved request is approved again when the SDK retries.
AdmittedAgain(t) == ~t.failed /\ t.entered /\ t.checks = 1

Admitted(t) == ~t.failed /\ t.entered /\ t.checks = 1 /\ t.approved = 0

SendHook(p) ==
    /\ pc[p] = "sdk"
    /\ \/ /\ Admitted(wire[p])
          /\ wire' = [wire EXCEPT ![p].approved = @ + 1]
          /\ sends' = sends + 1 /\ UNCHANGED pc
       \/ /\ Refuse(p, [wire[p] EXCEPT !.failed = TRUE])
          /\ UNCHANGED sends
    /\ UNCHANGED <<disk, at, listed, failed, client, locals, results>>

\* A service error, a transport error or an interrupt; or a defect, which
\* propagates.
InvokeRaises(p) ==
    /\ pc[p] = "sdk"
    /\ wire' = [wire EXCEPT ![p].fault = TRUE]
    /\ \E caught \in BOOLEAN : defect' = Set(defect, p, ~caught)
    /\ Goto(p, "closing")
    /\ UNCHANGED <<disk, sends, at, listed, failed, client, clean, judged, results>>

\* A response: _metadata, then _logs, then the body read to its end and
\* closed.  fault stands for whatever those found wrong; a body that fails
\* to read or close is always a fault, and may be a defect.
InvokeReturns(p) ==
    /\ pc[p] = "sdk"
    /\ \E body, fault, bug \in BOOLEAN,
          logs \in IF TailMode THEN {"decoded", "unusable"} ELSE {"none"} :
          /\ ~body \/ logs = "unusable" => fault
          /\ bug => ~body
          /\ wire' = [wire EXCEPT ![p].body = body, ![p].logs = logs,
                                  ![p].fault = fault]
          /\ defect' = Set(defect, p, bug)
    /\ Goto(p, "closing")
    /\ UNCHANGED <<disk, sends, at, listed, failed, client, clean, judged, results>>

HooksCounted(t) == t.checks = 1 /\ t.approved = 1 /\ ~t.failed

\* The end of invoke_once: the client is closed on every path, a lone defect
\* of close propagates, and the hooks are counted unless one does.
CloseClient(p) ==
    /\ pc[p] = "closing" /\ at' = Set(at, p, 1)
    /\ \E ok, bug \in BOOLEAN :
          /\ bug => ~ok
          /\ client' = Set(client, p, IF ok THEN "closed" ELSE "unclosable")
          /\ \/ /\ ~defect[p] /\ ~bug /\ Goto(p, "evidence")
                /\ wire' = [wire EXCEPT ![p].fault =
                                @ \/ ~ok \/ ~HooksCounted(wire[p])]
                /\ UNCHANGED <<failed, defect>>
             \/ /\ defect[p] \/ bug
                /\ Fails(p, FALSE) /\ Goto(p, "salvage")
                /\ wire' = [wire EXCEPT ![p].fault = TRUE]
    /\ UNCHANGED <<disk, sends, listed, clean, judged, results>>

\* An interrupt in its except or finally clauses: the close was not reached,
\* or was over.  It replaces whatever propagated.
CloseInterrupted(p) ==
    /\ pc[p] = "closing" /\ at' = Set(at, p, 1)
    /\ client' \in {Set(client, p, c) : c \in {"open", "closed", "unclosable"}}
    /\ Fails(p, TRUE) /\ Goto(p, "salvage")
    /\ UNCHANGED <<disk, sends, listed, wire, clean, judged, results>>
-----------------------------------------------------------------------------
(* _publish_adapter, and what may be concluded from it *)

\* Every file is tried, whatever became of the others, also while an
\* exception of invoke_once propagates.
PublishRaw(p) ==
    /\ pc[p] \in {"evidence", "salvage"}
    /\ \E w \in Outcomes(Raw[at[p]]) : Put(p, Raw[at[p]], w)
    /\ at' = [at EXCEPT ![p] = @ + 1]
    /\ IF at[p] < Len(Raw) THEN UNCHANGED pc
       ELSE Goto(p, IF pc[p] = "evidence" THEN "assess" ELSE "final")
    /\ UNCHANGED <<directory, index, sends, wire, client, locals, results>>

\* Publishing raises while an exception propagates: it is secondary, unless
\* it is an interrupt outside the clause that suppresses it.
SalvageRaises(p) ==
    /\ pc[p] = "salvage"
    /\ Goto(p, "final")
    /\ \E stays \in BOOLEAN : defect' = [defect EXCEPT ![p] = @ /\ stays]
    /\ UNCHANGED <<disk, sends, at, listed, failed, wire, client, clean, judged,
                   results>>

CleanWire(p) == LET t == wire[p] IN
    ~t.fault /\ t.entered /\ HooksCounted(t) /\ t.body /\ client[p] = "closed"

\* The adapter's failures are noted after its files.
Assess(p) ==
    /\ pc[p] = "assess"
    /\ failed' = [failed EXCEPT ![p] = @ \/ wire[p].fault \/ ~CleanWire(p)]
    /\ clean' = Set(clean, p, CleanWire(p) /\ Names(Raw) \subseteq listed[p])
    /\ Goto(p, IF wire[p].logs = "decoded" THEN "join" ELSE "end")
    /\ UNCHANGED <<disk, sends, at, listed, wire, client, judged, defect, results>>

\* Mutant: the report is parsed from memory, published or not.
JoinableUnpublished(p) == TRUE

\* Raw bytes and labels must be published before parsing.
Joinable(p) == Names(Raw) \subseteq listed[p]

\* parse_report refuses the tail (REPORT_INVALID), or may not read it.
ReportRejected(p) ==
    /\ clean' = Set(clean, p, FALSE)
    /\ failed' = [failed EXCEPT ![p] = @ \/ Joinable(p)]
    /\ UNCHANGED <<file, listed>>

\* The report is parsed from the published tail and associated.
Join(p) ==
    /\ pc[p] = "join" /\ Goto(p, "end")
    /\ \/ /\ Joinable(p)
          /\ \E w \in Outcomes("report-association") :
                /\ Put(p, "report-association", w)
                /\ clean' = [clean EXCEPT ![p] = @ /\ w.ok]
       \/ ReportRejected(p)
    /\ UNCHANGED <<directory, index, sends, at, wire, client, judged, defect, results>>

\* An unclean transport goes no further.
End(p) ==
    /\ pc[p] = "end"
    /\ \/ clean[p] /\ Goto(p, "inspect") /\ UNCHANGED <<failed, defect>>
       \/ ~clean[p] /\ Fails(p, TRUE) /\ Goto(p, "final")
    /\ UNCHANGED <<disk, sends, at, listed, wire, client, clean, judged, results>>

\* FunctionError, or inspect_handler accepts the body; an interrupt may still
\* arrive.  That it rejects the body, or fails, is ConsumerRaises.
Inspect(p) ==
    /\ pc[p] = "inspect" /\ Goto(p, "final")
    /\ judged' = Set(judged, p, TRUE)
    /\ Fails(p, TRUE) \/ UNCHANGED <<failed, defect>>
    /\ UNCHANGED <<disk, sends, at, listed, wire, client, clean, results>>
-----------------------------------------------------------------------------
(* The finally clause, and the return *)

\* Mutant: only a client of an orderly rejection is closed.
OwesCloseUnlessDefect(p) == client[p] = "open" /\ ~wire[p].built /\ ~defect[p]

\* transport is None: a client no transport was built over is the consumer's
\* to close, any other is not.
OwesClose(p) == client[p] = "open" /\ ~wire[p].built

\* A lone defect of close leaves without an index.
Finalize(p) ==
    /\ pc[p] = "final"
    /\ \/ ~OwesClose(p) /\ Goto(p, "index") /\ UNCHANGED <<client, failed>>
       \/ /\ OwesClose(p) /\ client' = Set(client, p, "closed")
          /\ Goto(p, "index") /\ UNCHANGED failed
       \/ /\ OwesClose(p) /\ client' = Set(client, p, "unclosable")
          /\ failed' = Set(failed, p, TRUE)
          /\ Goto(p, "index") \/ (~defect[p] /\ Goto(p, "raised"))
    /\ UNCHANGED <<disk, sends, at, listed, wire, locals, results>>

Status(p) == IF failed[p] THEN "INTERRUPTED" ELSE "COMPLETE"

\* The index says what was true before it was written; what is returned also
\* knows whether it was.  A propagating defect returns nothing.
WriteIndex(p) ==
    /\ pc[p] = "index"
    /\ index' = [status |-> Status(p), files |-> listed[p], judged |-> judged[p]]
    /\ \E w \in Outcomes("index") :
          /\ Put(p, "index", w)
          /\ \/ /\ ~defect[p] /\ Goto(p, "receipt")
                /\ returned' = Set(returned, p,
                       IF w.ok THEN Status(p) ELSE "INTERRUPTED_UNINDEXED")
             \/ (defect[p] \/ ~w.ok) /\ Goto(p, "raised") /\ UNCHANGED returned
    /\ UNCHANGED <<directory, sends, at, wire, client, locals, launched>>
-----------------------------------------------------------------------------
(* _Prepared.run, after consume_adapter has returned *)

\* _publish_receipt writes and reads back; a failure is raised.
PublishReceipt(p) ==
    /\ pc[p] = "receipt"
    /\ \E w \in Outcomes("returned-status") :
          /\ file' = [file EXCEPT !["returned-status"] = w.file]
          /\ Goto(p, IF ~w.ok THEN "raised"
                     ELSE IF returned[p] = "COMPLETE" THEN "confirm" ELSE "console")
    /\ UNCHANGED <<directory, index, sends, at, listed, failed, wire, client,
                   locals, results>>

\* confirm: the index and every file it lists are read back and compared.
Confirmable(p) ==
    /\ returned[p] = "COMPLETE" /\ file["index"] = "whole"
    /\ index.status = "COMPLETE" /\ \A n \in index.files : file[n] = "whole"

Confirm(p) ==
    /\ pc[p] = "confirm"
    /\ \/ Confirmable(p) /\ Goto(p, "console")
       \/ Goto(p, "raised")
    /\ UNCHANGED <<disk, sends, at, listed, failed, wire, client, locals, results>>

\* emit_confirmation exits 3 (not printed), 2 (not complete) or 0.
Launch(p, printed) ==
    IF returned[p] = "COMPLETE" /\ printed THEN "COMPLETE" ELSE "UNCONFIRMED"

EmitConfirmation(p) ==
    /\ pc[p] = "console" /\ Goto(p, "returned")
    /\ \E printed \in BOOLEAN : launched' = Set(launched, p, Launch(p, printed))
    /\ UNCHANGED <<disk, sends, at, listed, failed, wire, client, locals, returned>>

\* An interrupt in the finally clause or while the launcher prints is caught
\* by nobody.
Interrupted(p) ==
    /\ pc[p] \in {"final", "index", "console"} /\ Goto(p, "raised")
    /\ UNCHANGED <<disk, sends, at, listed, failed, wire, client, locals, results>>

\* A dead process forgets; the directory and the request do not.
Crash(p) ==
    /\ pc[p] \in Live /\ Goto(p, "crashed")
    /\ at' = Set(at, p, 1) /\ listed' = Set(listed, p, {})
    /\ wire' = Set(wire, p, NotEntered) /\ client' = Set(client, p, "none")
    /\ failed' = Set(failed, p, FALSE) /\ clean' = Set(clean, p, FALSE)
    /\ judged' = Set(judged, p, FALSE) /\ defect' = Set(defect, p, FALSE)
    /\ returned' = Set(returned, p, "NONE")
    /\ UNCHANGED <<disk, sends, launched>>
-----------------------------------------------------------------------------
Claiming(p) == \/ Prepare(p) \/ Validate(p)
               \/ ClaimRefused(p) \/ MakeDirectory(p) \/ WriteClaim(p) \/ TakeClaim(p)
Preparing(p) == \/ PublishBefore(p) \/ ConsumerRaises(p)
                \/ FactoryReturns(p) \/ AdapterBuilds(p)
                \/ InvokeEnters(p) \/ InvokeAbandoned(p)
Calling(p) == \/ ParametersHook(p) \/ SendHook(p)
              \/ InvokeRaises(p) \/ InvokeReturns(p)
              \/ CloseClient(p) \/ CloseInterrupted(p)
Concluding(p) == \/ PublishRaw(p) \/ SalvageRaises(p) \/ Assess(p) \/ Join(p)
                 \/ End(p) \/ Inspect(p) \/ Finalize(p) \/ WriteIndex(p)
Launching(p) == \/ PublishReceipt(p) \/ Confirm(p) \/ EmitConfirmation(p)
                \/ Interrupted(p)

Next == \E p \in Operators :
    Claiming(p) \/ Preparing(p) \/ Calling(p) \/ Concluding(p) \/ Launching(p) \/ Crash(p)

Spec == Init /\ [][Next]_vars
-----------------------------------------------------------------------------
(* Properties *)

\* Over every process started for one execution_id the invocation leaves at
\* most once, and never after the claimant has returned, raised or died,
\* however the SDK repeats its callbacks or swallows what they raise.
OneShot == INSTANCE OneShotChain
              WITH Stages <- {"invoke"}, Place <- [s \in {"invoke"} |-> 0],
                   sent <- [s \in {"invoke"} |-> sends],
                   ended <- directory /\ \A p \in Operators : pc[p] \notin MaySend
ImplementsOneShot == OneShot!Spec

\* The claim, the six inputs, the request and the marker of the attempt are
\* whole on disk before anything leaves: after a crash the directory shows
\* that the outcome is unknown and what was asked.
DurableBeforeSend == sends > 0 =>
    \A n \in Names(Before) \cup {"claim"} : file[n] = "whole"

\* An index on disk is never ahead of the other files.  All it lists is
\* whole; a verdict on the handler, or the word COMPLETE, stands for one
\* request and its whole published response, even where the process died or
\* could not return it.
IndexIsBacked == TypeOK /\ (file["index"] = "whole" =>
    /\ \A n \in index.files : file[n] = "whole"
    /\ index.status = "COMPLETE" => index.judged
    /\ index.judged => sends = 1 /\ Names(Before) \cup Names(Raw) \subseteq index.files)

\* An association of a report is on disk only beside all it was read from.
AssociationIsBound == file["report-association"] = "whole" =>
    \A n \in Names(Raw) : file[n] = "whole"

\* Past its finally clause consume_adapter leaves a client open only under a
\* constructed transport; such a client, like one that was lost before it was
\* assigned, is never reported COMPLETE, by the return or by a whole index.
\* (The code leaves one open when an exception arrives after ParentTransport
\* was built and before invoke_once, or its close, was reached.)
OpenClientReported == \A p \in Operators :
    pc[p] \in {"index", "receipt", "confirm", "console", "returned"} =>
        /\ client[p] = "open" => wire[p].built
        /\ client[p] \in {"open", "lost"} =>
              /\ failed[p] /\ returned[p] # "COMPLETE"
              /\ pc[p] # "index" /\ file["index"] = "whole"
                    => index.status = "INTERRUPTED"

\* A launcher result COMPLETE is backed by the receipt, a whole COMPLETE index
\* and a closed client; it never hides an unindexed run, or a client that some
\* other path has left open.
LauncherTruth == OpenClientReported /\ \A p \in Operators :
    launched[p] = "COMPLETE" =>
        /\ file["returned-status"] = "whole" /\ client[p] = "closed"
        /\ file["index"] = "whole" /\ index.status = "COMPLETE"
=============================================================================
