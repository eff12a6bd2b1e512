---------------------------- MODULE RequestPath ----------------------------
(***************************************************************************)
(* The ordinary request path: the endpoints of app/main.py, the            *)
(* orchestrator, the routers, the two agents, and the retriever with its   *)
(* process-wide index.                                                     *)
(*                                                                         *)
(* Endpoints are plain functions, so a server runs several requests at     *)
(* once in its thread pool.  They share the retriever's _index and         *)
(* _metadata and two files of the temporary directory, into which a load   *)
(* downloads one object after the other, nothing binding the two.  An      *)
(* operator may rebuild the index meanwhile with build_index.py, on the    *)
(* same host: it writes the same two files before it uploads them.         *)
(*                                                                         *)
(* An index or a metadata list is the number of the build it came from, 0  *)
(* for none.                                                               *)
(* A function deployed on Lambda serves one request at a time: it has the  *)
(* behaviours of one request.                                              *)
(***************************************************************************)
EXTENDS Naturals

CONSTANTS
    Requests,    \* requests in the process at once
    Batch,       \* the most cases an /evaluate carries (25)
    Builds,      \* bound: rebuilds of the index
    Raised       \* the exceptions that a call to a service may raise

Kinds == {"access_denied", "throttled", "unavailable", "timeout", "model_error",
          "invalid_model_output", "configuration", "internal"}

ASSUME RequestsAssumption == Requests # {} /\ Batch \in Nat \ {0} /\ Builds \in Nat

\* What the SDK raises: the error codes of a ClientError, by the table they are
\* in, or its status if they are in none; its other exceptions; anything else.
Exceptions == {"denied", "throttling", "down", "model", "model_timeout", "misuse",
               "status_5xx", "status_4xx", "timed_out", "no_connection",
               "no_credentials", "unforeseen"}

ASSUME RaisedAssumption == Raised \subseteq Exceptions

VARIABLES
    bucket, temp,    \* the two objects, and the two local files
    cache,           \* _index and _metadata
    rebuild, built,  \* where the rebuild in hand is, and its number
    overlap,         \* a rebuild in progress met a load in progress
    pc, job          \* each request, and the query it is at

store == <<bucket, temp, rebuild, built>>
vars == <<store, cache, overlap, pc, job>>

Pair(i, m) == [index |-> i, meta |-> m]
Pairs == [index : 0..(Builds + 1), meta : 0..(Builds + 1)]
Unset == Pair(0, 0)    \* _index is None

Loading == {"get_index", "get_meta", "read_index", "read_meta", "assign"}
Places == {"idle", "route", "load"} \cup Loading
          \cup {"search", "rows", "generate", "summarize", "answered", "done"}
Endpoints == {"ask", "summarize", "evaluate"}
Outcomes == {"none", "generated", "no_evidence", "summary", "failed"}
RouterOutcomes == {"none", "model", "fallback"}

\* What the trace and the local variables of one query hold.
Query == [pair |-> Unset, routed |-> "none",
          kind |-> "none", outcome |-> "none", status |-> 0]

TypeOK ==
    /\ bucket \in Pairs /\ temp \in Pairs /\ cache \in Pairs
    /\ rebuild \in {"idle", "written", "dumped", "uploaded", "failed"}
    /\ built \in 1..(Builds + 1) /\ overlap \in BOOLEAN
    /\ pc \in [Requests -> Places]
    /\ \A r \in Requests :
          /\ job[r].left \in 0..Batch
          /\ job[r].query.pair \in Pairs /\ job[r].query.routed \in RouterOutcomes
          /\ job[r].query.kind \in Kinds \cup {"none"}
          /\ job[r].query.outcome \in Outcomes

Init ==
    /\ bucket = Pair(1, 1) /\ temp = Unset /\ cache = Unset
    /\ rebuild = "idle" /\ built = 1 /\ overlap = FALSE
    /\ pc = [r \in Requests |-> "idle"]
    /\ job = [r \in Requests |-> [left |-> 0, query |-> Query]]
-----------------------------------------------------------------------------
(* Steps of a request *)

Step(r, from, to) == pc[r] = from /\ pc' = [pc EXCEPT ![r] = to]
Known(r, field, value) == job' = [job EXCEPT ![r].query = [@ EXCEPT ![field] = value]]

HttpStatus(kind) ==
    CASE kind \in {"access_denied", "throttled", "unavailable"} -> 503
      [] kind = "timeout" -> 504
      [] kind \in {"model_error", "invalid_model_output"} -> 502
      [] OTHER -> 500

Classify(e) ==
    CASE e \in {"denied", "no_credentials"} -> "access_denied"
      [] e = "throttling" -> "throttled"
      [] e \in {"down", "status_5xx", "no_connection"} -> "unavailable"
      [] e \in {"model_timeout", "timed_out"} -> "timeout"
      [] e = "model" -> "model_error"
      [] e = "misuse" -> "configuration"
      [] e = "status_4xx" -> "internal"
      [] OTHER -> "none"

\* failure_from: what cannot be classified is internal.
FailureFrom(e) == IF Classify(e) = "none" THEN "internal" ELSE Classify(e)
ServiceKinds == {FailureFrom(e) : e \in Raised}

\* http_status_for: no error, 200; else the kind's.
StatusFor(kind) == IF kind = "none" THEN 200 ELSE HttpStatus(kind)

\* finish and emit: the trace of the query gets its outcome and its status.
Answer(r, pair, kind, outcome) ==
    /\ pc' = [pc EXCEPT ![r] = "answered"]
    /\ job' = [job EXCEPT ![r].query =
           [@ EXCEPT !.pair = pair, !.kind = kind, !.outcome = outcome,
                     !.status = StatusFor(kind)]]

\* _failure_result answers with the failure.
FailWith(r, kinds) == \E k \in kinds : Answer(r, Unset, k, "failed")

Succeed(r, outcome) == Answer(r, job[r].query.pair, "none", outcome)

\* process routes the query; process_direct dispatches the endpoint's task.
First(e) == IF e = "summarize" THEN "summarize" ELSE "route"

\* The endpoint: /evaluate may refuse its caller or its cases, and then
\* processes nothing.
Accept(r) ==
    /\ pc[r] = "idle"
    /\ \E e \in Endpoints, n \in 0..Batch :
          /\ e # "evaluate" => n = 1
          /\ job' = [job EXCEPT ![r].left = n]
          /\ pc' = [pc EXCEPT ![r] = IF n = 0 THEN "done" ELSE First(e)]
    /\ UNCHANGED <<store, cache>>

\* record_converse_usage reads the usage of a Converse reply outside the try of
\* each of its callers: usage that is not an object is fatal to the query, and
\* the orchestrator takes the exception for an internal failure.
UsageUnreadable == {"internal"}

\* The choice of either router's model stands unless its confidence is below
\* 0.6; that, and every failure of the call or of its output but the one above,
\* is recorded and is not fatal.
ModelRoutes == {<<"model", "qa">>, <<"model", "summarize">>}
HaikuFallback == <<"fallback", "qa">>
JevFallback == <<"fallback", "qa">>

\* A process has one of the two routers.
Routes == ModelRoutes \cup {HaikuFallback, JevFallback}

\* process: route, then dispatch.  What the router did is kept where it sends
\* the query away from the grounded path.
Route(r) ==
    /\ pc[r] = "route"
    /\ \/ \E o \in Routes :
             /\ IF o[2] = "qa" THEN UNCHANGED job ELSE Known(r, "routed", o[1])
             /\ pc' = [pc EXCEPT ![r] = IF o[2] = "qa" THEN "load" ELSE "summarize"]
       \/ FailWith(r, UsageUnreadable)
    /\ UNCHANGED <<store, cache>>

Summarize(r) ==
    /\ pc[r] = "summarize"
    /\ \/ Succeed(r, "summary")
       \/ FailWith(r, ServiceKinds \cup UsageUnreadable \cup {"invalid_model_output"})
    /\ UNCHANGED <<store, cache>>
-----------------------------------------------------------------------------
(* The load *)

Cached(r) == Step(r, "load", "search") /\ cache # Unset
             /\ UNCHANGED <<store, cache, job>>

StartLoad(r) == Step(r, "load", "get_index") /\ cache = Unset
                /\ UNCHANGED <<store, cache, job>>

\* Two downloads, each replacing its file, and two reads of what is there.
GetIndex(r) ==
    /\ Step(r, "get_index", "get_meta")
    /\ temp' = [temp EXCEPT !.index = bucket.index]
    /\ UNCHANGED <<bucket, rebuild, built, cache, job>>

GetMeta(r) ==
    /\ Step(r, "get_meta", "read_index")
    /\ temp' = [temp EXCEPT !.meta = bucket.meta]
    /\ UNCHANGED <<bucket, rebuild, built, cache, job>>

ReadIndex(r) ==
    /\ Step(r, "read_index", "read_meta")
    /\ Known(r, "pair", Pair(temp.index, job[r].query.pair.meta))
    /\ UNCHANGED <<store, cache>>

ReadMeta(r) ==
    /\ Step(r, "read_meta", "assign")
    /\ Known(r, "pair", Pair(job[r].query.pair.index, temp.meta))
    /\ UNCHANGED <<store, cache>>

\* _index, _metadata = index, metadata: the interpreter switches threads at
\* calls and backward jumps, not between the two stores.
Assign(r) ==
    /\ Step(r, "assign", "search")
    /\ cache' = job[r].query.pair
    /\ Known(r, "pair", Unset)
    /\ UNCHANGED store

\* Mutants: a load that fails is an empty retrieval, as it once was; it is
\* tried again.
LoadFailureEmpty(r) == Succeed(r, "no_evidence")
LoadFailureRetried(r) == pc' = [pc EXCEPT ![r] = "load"] /\ UNCHANGED job

LoadFailure(r) == FailWith(r, ServiceKinds \cup {"internal"})

\* Mutant: the index is assigned as soon as it is read.
HalfLeft(r) == Pair(job[r].query.pair.index, 0)

\* Nothing was assigned before both were read.
CacheLeft(r) == cache

\* A download, or the reading of a file another party is writing, fails.
LoadFails(r) ==
    /\ pc[r] \in Loading \ {"assign"} /\ LoadFailure(r)
    /\ cache' = CacheLeft(r)
    /\ UNCHANGED store
-----------------------------------------------------------------------------
(* The retrieval and the answer *)

\* The embedding touches nothing shared; then _index.search, in which other
\* threads run.  An index may hold no vector.
EmbedAndSearch(r) ==
    /\ pc[r] = "search"
    /\ \/ /\ pc' = [pc EXCEPT ![r] = "rows"]
          /\ Known(r, "pair", Pair(cache.index, 0))
       \/ Succeed(r, "no_evidence")
       \/ FailWith(r, ServiceKinds \cup {"invalid_model_output", "internal"})
    /\ UNCHANGED <<store, cache>>

\* _metadata[idx] for each hit: the global is read again.  A row that is not
\* there is a failure.
Rows(r) ==
    /\ pc[r] = "rows"
    /\ \/ /\ pc' = [pc EXCEPT ![r] = "generate"]
          /\ Known(r, "pair", Pair(job[r].query.pair.index, cache.meta))
       \/ /\ job[r].query.pair.index # cache.meta
          /\ FailWith(r, {"internal"})
    /\ UNCHANGED <<store, cache>>

Generate(r) ==
    /\ pc[r] = "generate"
    /\ \/ Succeed(r, "generated")
       \/ FailWith(r, ServiceKinds \cup UsageUnreadable \cup {"invalid_model_output"})
    /\ UNCHANGED <<store, cache>>

\* The request log, whose failures are swallowed; the body leaves under the
\* status of the trace.  /evaluate goes on with the next case whatever became
\* of this one.
Respond(r) ==
    /\ pc[r] = "answered"
    /\ job' = [job EXCEPT ![r].left = @ - 1, ![r].query = Query]
    /\ pc' = [pc EXCEPT ![r] = IF job[r].left > 1 THEN "route" ELSE "done"]
    /\ UNCHANGED <<store, cache>>
-----------------------------------------------------------------------------
(* A rebuild, on the host of the server *)

WriteIndex ==
    /\ rebuild = "idle" /\ built <= Builds
    /\ rebuild' = "written" /\ built' = built + 1
    /\ temp' = [temp EXCEPT !.index = built + 1]
    /\ UNCHANGED bucket

DumpMeta ==
    /\ rebuild = "written" /\ rebuild' = "dumped"
    /\ temp' = [temp EXCEPT !.meta = built]
    /\ UNCHANGED <<bucket, built>>

\* Each upload sends what the file holds by then.
PutIndex ==
    /\ rebuild = "dumped" /\ rebuild' = "uploaded"
    /\ bucket' = [bucket EXCEPT !.index = temp.index]
    /\ UNCHANGED <<temp, built>>

PutMeta ==
    /\ rebuild = "uploaded" /\ rebuild' = "idle"
    /\ bucket' = [bucket EXCEPT !.meta = temp.meta]
    /\ UNCHANGED <<temp, built>>

\* Nothing is undone.
RebuildFails ==
    /\ rebuild \notin {"idle", "failed"} /\ rebuild' = "failed"
    /\ UNCHANGED <<bucket, temp, built>>

Rebuild ==
    /\ WriteIndex \/ DumpMeta \/ PutIndex \/ PutMeta \/ RebuildFails
    /\ UNCHANGED <<cache, pc, job>>

Serve(r) ==
    \/ Accept(r) \/ Route(r) \/ Summarize(r)
    \/ Cached(r) \/ StartLoad(r) \/ GetIndex(r) \/ GetMeta(r)
    \/ ReadIndex(r) \/ ReadMeta(r) \/ Assign(r) \/ LoadFails(r)
    \/ EmbedAndSearch(r) \/ Rows(r) \/ Generate(r) \/ Respond(r)

\* A rebuild that has not ended well, and a load that has not ended.
Meeting == rebuild # "idle" /\ \E r \in Requests : pc[r] \in Loading

Observed == overlap' = (overlap \/ Meeting')

Next == (Rebuild \/ \E r \in Requests : Serve(r)) /\ Observed

\* Every read of a request has a timeout and its bodies are bounded; its thread
\* is scheduled.
Spec == /\ Init /\ [][Next]_vars
        /\ \A r \in Requests : WF_vars(Serve(r) /\ Observed)
-----------------------------------------------------------------------------
(* Properties *)

\* Failures surface and only failures do: 200 means a query that met no fatal
\* failure, "no evidence" means that a loaded index was searched and held
\* nothing, and a query whose router failed or doubted is summarized without
\* evidence in no case: it is sent down the grounded path, or failed.
AnswersHonest == TypeOK /\ \A r \in Requests : pc[r] = "answered" =>
    LET q == job[r].query IN
    /\ q.status = 200 <=> q.kind = "none"
    /\ q.status = 200 => q.outcome \in {"generated", "no_evidence", "summary"}
    /\ q.outcome = "generated" => q.pair.index # 0 /\ q.pair.meta # 0
    /\ q.outcome = "no_evidence" => cache # Unset
    /\ q.outcome = "summary" => q.routed \in {"none", "model"}

\* Evidence comes from the passages the vectors were made from, in every
\* answer and for as long as the process lives, however its requests and their
\* loads interleave and fail, as long as no rebuild was under way, or was left
\* unfinished, during a load.
AlignedUnlessOverlap == ~overlap =>
    /\ cache # Unset => cache.index = cache.meta
    /\ \A r \in Requests : job[r].query.outcome = "generated" =>
          job[r].query.pair.index = job[r].query.pair.meta
    /\ rebuild = "idle" => bucket = Pair(built, built)

\* Every request that is accepted is answered.
EveryRequestAnswered == \A r \in Requests : (pc[r] # "idle" ~> pc[r] = "done")
=============================================================================
