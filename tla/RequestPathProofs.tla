------------------------- MODULE RequestPathProofs -------------------------
(***************************************************************************)
(* Proofs about RequestPath, for every set of requests, size of a batch,   *)
(* number of rebuilds and set of exceptions.                               *)
(***************************************************************************)
EXTENDS RequestPath, TLAPS

-----------------------------------------------------------------------------
(* The inductive invariant *)

QueryRecords == [pair : Pairs, routed : RouterOutcomes, kind : Kinds \cup {"none"},
                 outcome : Outcomes, status : {0, 200, 500, 502, 503, 504}]
JobRecords == [left : 0..Batch, query : QueryRecords]

Shape ==
    /\ bucket \in Pairs /\ temp \in Pairs /\ cache \in Pairs
    /\ rebuild \in {"idle", "written", "dumped", "uploaded", "failed"}
    /\ built \in 1..(Builds + 1) /\ overlap \in BOOLEAN
    /\ pc \in [Requests -> Places] /\ job \in [Requests -> JobRecords]

Full(p) == p.index # 0 /\ p.meta # 0
Of(p, n) == p.index = n /\ p.meta = n

\* The places of a load at which a file was downloaded, and a file was read.
IndexHere == {"get_meta", "read_index", "read_meta", "assign"}
MetaHere == {"read_index", "read_meta", "assign"}

\* What the pairs are made of, however loads and rebuilds met: no part of a
\* pair is missing where it is used.
Stores ==
    /\ Full(bucket)
    /\ cache = Unset \/ Full(cache)
    /\ rebuild \in {"written", "dumped", "uploaded"} => temp.index # 0
    /\ rebuild \in {"dumped", "uploaded"} => temp.meta # 0

\* The same of a request at place w with the query q.
Sound(w, q) ==
    /\ w \in IndexHere => temp.index # 0
    /\ w \in MetaHere => temp.meta # 0
    /\ w \in {"read_meta", "assign", "rows", "generate"} => q.pair.index # 0
    /\ w \in {"assign", "generate"} => q.pair.meta # 0
    /\ w \in {"search", "rows", "generate"} => cache # Unset
    /\ q.routed \in {"none", "model"}
    /\ w # "answered" => q.outcome = "none"
    /\ w = "answered" =>
          /\ q.status = 200 <=> q.kind = "none"
          /\ q.status = 200 => q.outcome \in {"generated", "no_evidence", "summary"}
    /\ q.outcome = "generated" => q.pair.index # 0 /\ q.pair.meta # 0
    /\ q.outcome = "no_evidence" => cache # Unset

\* Without an overlap: how far the rebuild in hand got.
Undisturbed ==
    /\ cache # Unset => cache.index = cache.meta
    /\ rebuild = "idle" => Of(bucket, built)
    /\ rebuild \in {"written", "dumped"} => temp.index = built
    /\ rebuild \in {"dumped", "uploaded"} => temp.meta = built
    /\ rebuild = "uploaded" => bucket.index = built

\* And every load that is going on is one of the build that stands.
Aligned(w, q) ==
    /\ w \in Loading => rebuild = "idle" /\ (cache = Unset \/ Of(cache, built))
    /\ w \in IndexHere => temp.index = built
    /\ w \in MetaHere => temp.meta = built
    /\ w \in {"read_meta", "assign"} => q.pair.index = built
    /\ w = "assign" => q.pair.meta = built
    /\ w = "rows" => q.pair.index = cache.index
    /\ w = "generate" \/ q.outcome = "generated" => q.pair.index = q.pair.meta

Served(w, q) == Sound(w, q) /\ (~overlap => Aligned(w, q))

Resting == {"idle", "done"}

\* A request that is being served has a query left.
Working == \A r \in Requests : pc[r] \in Resting \/ job[r].left # 0

IInv ==
    /\ Shape /\ Stores /\ Working
    /\ ~overlap => Undisturbed
    /\ \A r \in Requests : Served(pc[r], job[r].query)
-----------------------------------------------------------------------------
(* Facts about the helpers *)

\* The builds are numbered from 1, so a pair of parts from them is a pair.
LEMMA BuildNumbers ==
    ASSUME Shape
    PROVE  /\ built \in Nat /\ built >= 1 /\ built <= Builds + 1
           /\ \A i, m \in 0..(Builds + 1) : /\ Pair(i, m) \in Pairs
                                            /\ Pair(i, m).index = i /\ Pair(i, m).meta = m
           /\ Unset \in Pairs /\ Unset.index = 0 /\ Unset.meta = 0
           /\ \A p \in Pairs : /\ p.index \in 0..(Builds + 1) /\ p.meta \in 0..(Builds + 1)
                               /\ p.index = 0 /\ p.meta = 0 => p = Unset
<1>1. built \in Nat /\ built >= 1 /\ built <= Builds + 1
  BY RequestsAssumption DEF Shape
<1>2. \A i, m \in 0..(Builds + 1) : /\ Pair(i, m) \in Pairs
                                    /\ Pair(i, m).index = i /\ Pair(i, m).meta = m
  BY DEF Pair, Pairs
<1>3. Unset \in Pairs /\ Unset.index = 0 /\ Unset.meta = 0
  BY RequestsAssumption DEF Unset, Pair, Pairs
<1>4. \A p \in Pairs : p.index \in 0..(Builds + 1) /\ p.meta \in 0..(Builds + 1)
  BY DEF Pairs
<1>5. \A p \in Pairs : p.index = 0 /\ p.meta = 0 => p = Unset
  BY DEF Pairs, Unset, Pair
<1> QED BY <1>1, <1>2, <1>3, <1>4, <1>5

\* The status of a trace is 200 exactly when it has no failure.
LEMMA Statuses == \A k \in Kinds \cup {"none"} :
    /\ StatusFor(k) \in {0, 200, 500, 502, 503, 504}
    /\ StatusFor(k) = 200 <=> k = "none"
BY DEF StatusFor, HttpStatus, Kinds

\* Whatever a service raises becomes one of the kinds.
LEMMA FailureKinds == ServiceKinds \subseteq Kinds
<1>1. \A e \in Raised : FailureFrom(e) \in Kinds
  <2> TAKE e \in Raised
  <2>1. Classify(e) \in Kinds \cup {"none"}
    BY DEF Classify, Kinds
  <2> QED BY <2>1 DEF FailureFrom, Kinds
<1> QED BY <1>1 DEF ServiceKinds

Others(r) == \A s \in Requests : s # r => job'[s] = job[s]

\* Recording the pair a load or a search is at.
LEMMA KnownPair ==
    ASSUME Shape, NEW r \in Requests, NEW v \in Pairs, Known(r, "pair", v)
    PROVE  /\ job' \in [Requests -> JobRecords] /\ Others(r)
           /\ job'[r].query.pair = v /\ job'[r].left = job[r].left
           /\ job'[r].query.routed = job[r].query.routed
           /\ job'[r].query.outcome = job[r].query.outcome
<1> DEFINE q == [job[r].query EXCEPT !.pair = v]
<1>1. job[r] \in JobRecords /\ job[r].query \in QueryRecords
  BY DEF Shape, JobRecords
<1>2. q \in QueryRecords /\ q.pair = v /\ q.routed = job[r].query.routed
      /\ q.outcome = job[r].query.outcome
  BY <1>1 DEF QueryRecords
<1>3. job' = [job EXCEPT ![r].query = q]
  BY DEF Known
<1> HIDE DEF q
<1>4. job' \in [Requests -> JobRecords] /\ Others(r) /\ job'[r].query = q
      /\ job'[r].left = job[r].left
  BY <1>1, <1>2, <1>3 DEF Shape, JobRecords, Others
<1> QED BY <1>2, <1>4

\* Recording what the router did.
LEMMA KnownRouted ==
    ASSUME Shape, NEW r \in Requests, NEW v \in RouterOutcomes, Known(r, "routed", v)
    PROVE  /\ job' \in [Requests -> JobRecords] /\ Others(r)
           /\ job'[r].query.pair = job[r].query.pair
           /\ job'[r].query.routed = v /\ job'[r].left = job[r].left
           /\ job'[r].query.outcome = job[r].query.outcome
<1> DEFINE q == [job[r].query EXCEPT !.routed = v]
<1>1. job[r] \in JobRecords /\ job[r].query \in QueryRecords
  BY DEF Shape, JobRecords
<1>2. q \in QueryRecords /\ q.routed = v /\ q.pair = job[r].query.pair
      /\ q.outcome = job[r].query.outcome
  BY <1>1 DEF QueryRecords
<1>3. job' = [job EXCEPT ![r].query = q]
  BY DEF Known
<1> HIDE DEF q
<1>4. job' \in [Requests -> JobRecords] /\ Others(r) /\ job'[r].query = q
      /\ job'[r].left = job[r].left
  BY <1>1, <1>2, <1>3 DEF Shape, JobRecords, Others
<1> QED BY <1>2, <1>4

\* Finishing a trace.
LEMMA Finished ==
    ASSUME Shape, NEW r \in Requests, NEW v \in Pairs, NEW k \in Kinds \cup {"none"},
           NEW o \in Outcomes, Answer(r, v, k, o)
    PROVE  /\ job' \in [Requests -> JobRecords] /\ Others(r)
           /\ pc' = [pc EXCEPT ![r] = "answered"] /\ job'[r].left = job[r].left
           /\ job'[r].query.pair = v /\ job'[r].query.kind = k
           /\ job'[r].query.outcome = o /\ job'[r].query.status = StatusFor(k)
           /\ job'[r].query.routed = job[r].query.routed
<1> DEFINE q == [job[r].query EXCEPT !.pair = v, !.kind = k, !.outcome = o,
                                     !.status = StatusFor(k)]
<1>1. job[r] \in JobRecords /\ job[r].query \in QueryRecords
  BY DEF Shape, JobRecords
<1>2. StatusFor(k) \in {0, 200, 500, 502, 503, 504}
  BY Statuses
<1>3. /\ q \in QueryRecords /\ q.pair = v /\ q.kind = k /\ q.outcome = o
      /\ q.status = StatusFor(k) /\ q.routed = job[r].query.routed
  <2> DEFINE d == job[r].query
             st == StatusFor(k)
             d1 == [d EXCEPT !.pair = v]
             d2 == [d1 EXCEPT !.kind = k]
             d3 == [d2 EXCEPT !.outcome = o]
             d4 == [d3 EXCEPT !.status = st]
  <2>1. d \in QueryRecords /\ st \in {0, 200, 500, 502, 503, 504}
    BY <1>1, <1>2
  <2>2. q = d4
    OBVIOUS
  <2> HIDE DEF d, st
  <2>3. d1 \in QueryRecords /\ d1.pair = v /\ d1.routed = d.routed
    BY <2>1 DEF QueryRecords
  <2> HIDE DEF d1
  <2>4. d2 \in QueryRecords /\ d2.pair = v /\ d2.routed = d.routed /\ d2.kind = k
    BY <2>3 DEF QueryRecords
  <2> HIDE DEF d2
  <2>5. d3 \in QueryRecords /\ d3.pair = v /\ d3.routed = d.routed /\ d3.kind = k
        /\ d3.outcome = o
    BY <2>4 DEF QueryRecords
  <2> HIDE DEF d3
  <2>6. d4 \in QueryRecords /\ d4.pair = v /\ d4.routed = d.routed /\ d4.kind = k
        /\ d4.outcome = o /\ d4.status = st
    BY <2>1, <2>5 DEF QueryRecords
  <2> HIDE DEF d4
  <2> QED BY <2>2, <2>6 DEF d, st
<1>4. job' = [job EXCEPT ![r].query = q]
  BY DEF Answer
<1> HIDE DEF q
<1>5. job' \in [Requests -> JobRecords] /\ Others(r) /\ job'[r].query = q
      /\ job'[r].left = job[r].left
  BY <1>1, <1>3, <1>4 DEF Shape, JobRecords, Others
<1> QED BY <1>3, <1>5 DEF Answer
-----------------------------------------------------------------------------
(* Steps of one request *)

\* overlap records every meeting.
LEMMA NoOverlap ==
    ASSUME Observed, Shape
    PROVE  /\ overlap' \in BOOLEAN
           /\ ~overlap' => ~overlap
           /\ ~overlap' => \A r \in Requests : pc'[r] \in Loading => rebuild' = "idle"
BY DEF Observed, Meeting, Shape

\* A request that changes nothing shared has to answer for itself only.
LEMMA OwnStep ==
    ASSUME IInv, Observed, NEW r \in Requests, NEW w \in Places,
           pc' = [pc EXCEPT ![r] = w],
           job' \in [Requests -> JobRecords], Others(r), UNCHANGED <<store, cache>>,
           \/ w = "done" \/ job'[r].left # 0
           \/ pc[r] \notin Resting /\ job'[r].left = job[r].left,
           Sound(w, job'[r].query),
           ~overlap /\ (w \in Loading => rebuild = "idle") => Aligned(w, job'[r].query)
    PROVE  IInv'
<1>1. UNCHANGED <<bucket, temp, rebuild, built, cache>>
  BY DEF store
<1>2. Shape' /\ pc'[r] = w /\ \A s \in Requests : s # r => pc'[s] = pc[s]
  BY <1>1, NoOverlap DEF IInv, Shape
<1>3. Stores' /\ (~overlap' => Undisturbed')
  BY <1>1, NoOverlap DEF IInv, Stores, Undisturbed
<1>5. Working'
  BY <1>2 DEF IInv, Working, Resting, Others
<1>4. \A s \in Requests : Served(pc[s], job[s].query)'
  <2> TAKE s \in Requests
  <2>1. CASE s = r
    <3>1. Sound(pc[s], job[s].query)'
      BY <1>1, <1>2, <2>1 DEF Sound
    <3>2. ~overlap' => ~overlap /\ (w \in Loading => rebuild = "idle")
      BY <1>1, <1>2, NoOverlap DEF IInv
    <3>3. ~overlap' => Aligned(pc[s], job[s].query)'
      BY <1>1, <1>2, <2>1, <3>2 DEF Aligned
    <3> QED BY <3>1, <3>3 DEF Served
  <2>2. CASE s # r
    <3>1. pc'[s] = pc[s] /\ job'[s] = job[s] /\ Served(pc[s], job[s].query)
      BY <1>2, <2>2 DEF IInv, Others
    <3>2. Sound(pc[s], job[s].query)'
      BY <1>1, <3>1 DEF Served, Sound
    <3>3. ~overlap' => Aligned(pc[s], job[s].query)'
      BY <1>1, <3>1, NoOverlap DEF Served, Aligned, IInv
    <3> QED BY <3>2, <3>3 DEF Served
  <2> QED BY <2>1, <2>2
<1> QED BY <1>2, <1>3, <1>4, <1>5 DEF IInv

\* An answer is fit to leave when what it says of the evidence is so.
LEMMA AnswerStep ==
    ASSUME IInv, Observed, NEW r \in Requests, NEW v \in Pairs,
           NEW k \in Kinds \cup {"none"}, NEW o \in Outcomes,
           Answer(r, v, k, o), pc[r] \notin Resting, UNCHANGED <<store, cache>>,
           k = "none" => o \in {"generated", "no_evidence", "summary"},
           o = "generated" => Full(v) /\ (~overlap => v.index = v.meta),
           o = "no_evidence" => cache # Unset
    PROVE  IInv'
<1>1. /\ job' \in [Requests -> JobRecords] /\ Others(r)
      /\ pc' = [pc EXCEPT ![r] = "answered"] /\ job'[r].left = job[r].left
      /\ job'[r].query.pair = v /\ job'[r].query.kind = k
      /\ job'[r].query.outcome = o /\ job'[r].query.status = StatusFor(k)
      /\ job'[r].query.routed = job[r].query.routed
  BY Finished DEF IInv
<1>2. Sound(pc[r], job[r].query)
  BY DEF IInv, Served
<1>3. Sound("answered", job'[r].query)
  BY <1>1, <1>2, Statuses DEF Sound, Full, IndexHere, MetaHere
<1>4. ~overlap => Aligned("answered", job'[r].query)
  BY <1>1 DEF Aligned, IndexHere, MetaHere, Loading
<1>5. "answered" \in Places
  BY DEF Places
<1> QED BY <1>1, <1>3, <1>4, <1>5, OwnStep

\* A failure names one of the kinds, so it never answers 200.
LEMMA FailStep ==
    ASSUME IInv, Observed, NEW r \in Requests, UNCHANGED <<store, cache>>,
           pc[r] \notin Resting, NEW kinds, kinds \subseteq Kinds, FailWith(r, kinds)
    PROVE  IInv'
<1>1. PICK k \in Kinds : Answer(r, Unset, k, "failed")
  BY DEF FailWith
<1>2. k # "none" /\ "failed" \in Outcomes /\ Unset \in Pairs
  BY BuildNumbers DEF IInv, Kinds, Outcomes
<1> QED BY <1>1, <1>2, AnswerStep

\* A request arrives with its number of queries, none of them begun.
LEMMA AcceptStep ==
    ASSUME IInv, Observed, NEW r \in Requests, Accept(r)
    PROVE  IInv'
<1>1. PICK e \in Endpoints, n \in 0..Batch :
         /\ job' = [job EXCEPT ![r].left = n]
         /\ pc' = [pc EXCEPT ![r] = IF n = 0 THEN "done" ELSE First(e)]
  BY DEF Accept
<1> DEFINE w == IF n = 0 THEN "done" ELSE First(e)
<1>2. w \in {"done", "summarize", "route"} /\ w \in Places /\ (w = "done" \/ n # 0)
  BY DEF First, Places
<1>3. pc' = [pc EXCEPT ![r] = w] /\ pc[r] = "idle" /\ UNCHANGED <<store, cache>>
  BY <1>1 DEF Accept
<1> HIDE DEF w
<1>4. /\ job' \in [Requests -> JobRecords] /\ Others(r)
      /\ job'[r].query = job[r].query /\ job'[r].left = n
  BY <1>1 DEF IInv, Shape, JobRecords, Others
<1>5. Served("idle", job[r].query)
  BY <1>3 DEF IInv
<1>6. Sound(w, job[r].query)
  BY <1>2, <1>5 DEF Served, Sound, IndexHere, MetaHere
<1>7. ~overlap => Aligned(w, job[r].query)
  BY <1>2, <1>5 DEF Served, Aligned, Loading, IndexHere, MetaHere
<1> QED BY <1>2, <1>3, <1>4, <1>6, <1>7, OwnStep

\* The router sends the query to the grounded path or away from it, or its
\* reply's usage fails the query.
LEMMA RouteStep ==
    ASSUME IInv, Observed, NEW r \in Requests, Route(r)
    PROVE  IInv'
<1>1. pc[r] = "route" /\ UNCHANGED <<store, cache>> /\ Served("route", job[r].query)
  BY DEF Route, IInv
<1>2. ASSUME NEW o \in Routes,
             IF o[2] = "qa" THEN UNCHANGED job ELSE Known(r, "routed", o[1]),
             pc' = [pc EXCEPT ![r] = IF o[2] = "qa" THEN "load" ELSE "summarize"]
      PROVE  IInv'
  <2>1. CASE o[2] = "qa"
    <3>1. pc' = [pc EXCEPT ![r] = "load"] /\ job' = job /\ "load" \in Places
      BY <1>2, <2>1 DEF Places
    <3>2. job' \in [Requests -> JobRecords] /\ Others(r)
      BY <3>1 DEF IInv, Shape, Others
    <3>3. Sound("load", job[r].query) /\ (~overlap => Aligned("load", job[r].query))
      BY <1>1 DEF Served, Sound, Aligned, Loading, IndexHere, MetaHere
    <3> QED BY <1>1, <3>1, <3>2, <3>3, OwnStep DEF Resting
  <2>2. CASE o[2] # "qa"
    <3>1. o = <<"model", "summarize">>
      BY <2>2 DEF Routes, ModelRoutes, HaikuFallback, JevFallback
    <3>2. pc' = [pc EXCEPT ![r] = "summarize"] /\ Known(r, "routed", "model")
          /\ "summarize" \in Places /\ "model" \in RouterOutcomes
      BY <1>2, <3>1 DEF Places, RouterOutcomes
    <3>3. /\ job' \in [Requests -> JobRecords] /\ Others(r)
          /\ job'[r].query.pair = job[r].query.pair
          /\ job'[r].query.routed = "model" /\ job'[r].left = job[r].left
          /\ job'[r].query.outcome = job[r].query.outcome
      BY <3>2, KnownRouted DEF IInv
    <3>4. Sound("summarize", job'[r].query)
          /\ (~overlap => Aligned("summarize", job'[r].query))
      BY <1>1, <3>3 DEF Served, Sound, Aligned, Loading, IndexHere, MetaHere
    <3> QED BY <1>1, <3>2, <3>3, <3>4, OwnStep DEF Resting
  <2> QED BY <2>1, <2>2
<1>3. CASE FailWith(r, UsageUnreadable)
  BY <1>1, <1>3, FailStep DEF Kinds, UsageUnreadable, Resting
<1> QED BY <1>2, <1>3 DEF Route

\* A summary, or the failure of its own query; the stores are not touched.
LEMMA SummarizeStep ==
    ASSUME IInv, Observed, NEW r \in Requests, Summarize(r)
    PROVE  IInv'
<1>1. UNCHANGED <<store, cache>> /\ pc[r] \notin Resting
  BY DEF Summarize, Resting
<1>2. CASE Succeed(r, "summary")
  <2>1. job[r].query.pair \in Pairs
    BY DEF IInv, Shape, JobRecords, QueryRecords
  <2> QED BY <1>1, <1>2, <2>1, AnswerStep DEF Succeed, Outcomes
<1>3. CASE FailWith(r, ServiceKinds \cup UsageUnreadable \cup {"invalid_model_output"})
  BY <1>1, <1>3, FailStep, FailureKinds DEF Kinds, UsageUnreadable
<1> QED BY <1>2, <1>3 DEF Summarize

\* The index is there, or has to be loaded.
LEMMA LookStep ==
    ASSUME IInv, Observed, NEW r \in Requests, Cached(r) \/ StartLoad(r)
    PROVE  IInv'
<1>1. pc[r] = "load" /\ job' = job /\ UNCHANGED <<store, cache>>
  BY DEF Cached, StartLoad, Step
<1>2. job' \in [Requests -> JobRecords] /\ Others(r) /\ Served("load", job[r].query)
  BY <1>1 DEF IInv, Shape, Others
<1>3. CASE Cached(r)
  <2>1. pc' = [pc EXCEPT ![r] = "search"] /\ "search" \in Places /\ cache # Unset
    BY <1>3 DEF Cached, Step, Places
  <2>2. Sound("search", job[r].query) /\ (~overlap => Aligned("search", job[r].query))
    BY <1>2, <2>1 DEF Served, Sound, Aligned, Loading, IndexHere, MetaHere
  <2> QED BY <1>1, <1>2, <2>1, <2>2, OwnStep DEF Resting
<1>4. CASE StartLoad(r)
  <2>1. pc' = [pc EXCEPT ![r] = "get_index"] /\ "get_index" \in Places /\ cache = Unset
        /\ "get_index" \in Loading
    BY <1>4 DEF StartLoad, Step, Places, Loading
  <2>2. Sound("get_index", job[r].query)
    BY <1>2 DEF Served, Sound, IndexHere, MetaHere
  <2>3. ~overlap /\ rebuild = "idle" => Aligned("get_index", job[r].query)
    BY <1>2, <2>1 DEF Served, Aligned, Loading, IndexHere, MetaHere
  <2> QED BY <1>1, <1>2, <2>1, <2>2, <2>3, OwnStep DEF Resting
<1> QED BY <1>3, <1>4

\* What is read is what the temporary files hold.
LEMMA ReadStep ==
    ASSUME IInv, Observed, NEW r \in Requests, ReadIndex(r) \/ ReadMeta(r)
    PROVE  IInv'
<1>1. UNCHANGED <<store, cache>>
  BY DEF ReadIndex, ReadMeta
<1>2. /\ temp.index \in 0..(Builds + 1) /\ temp.meta \in 0..(Builds + 1)
      /\ job[r].query.pair.index \in 0..(Builds + 1)
      /\ job[r].query.pair.meta \in 0..(Builds + 1)
  BY BuildNumbers DEF IInv, Shape, JobRecords, QueryRecords
<1>3. CASE ReadIndex(r)
  <2> DEFINE v == Pair(temp.index, job[r].query.pair.meta)
  <2>1. v \in Pairs /\ v.index = temp.index
    BY <1>2, BuildNumbers DEF IInv
  <2>2. pc[r] = "read_index" /\ pc' = [pc EXCEPT ![r] = "read_meta"] /\ "read_meta" \in Places
        /\ Known(r, "pair", v) /\ Served("read_index", job[r].query)
    <3>1. pc[r] = "read_index" /\ pc' = [pc EXCEPT ![r] = "read_meta"]
      BY <1>3 DEF ReadIndex, Step
    <3>2. "read_meta" \in Places
      BY DEF Places, Loading
    <3>3. Known(r, "pair", v)
      BY <1>3 DEF ReadIndex
    <3>4. Served("read_index", job[r].query)
      BY <3>1 DEF IInv
    <3> QED BY <3>1, <3>2, <3>3, <3>4
  <2> HIDE DEF v
  <2>3. /\ job' \in [Requests -> JobRecords] /\ Others(r) /\ job'[r].query.pair = v
        /\ job'[r].left = job[r].left
        /\ job'[r].query.routed = job[r].query.routed
        /\ job'[r].query.outcome = job[r].query.outcome
    BY <2>1, <2>2, KnownPair DEF IInv
  <2>4. job[r].query.outcome = "none"
    BY <2>2 DEF Served, Sound
  <2>5. Sound("read_meta", job'[r].query)
    BY <2>1, <2>2, <2>3, <2>4 DEF Served, Sound, IndexHere, MetaHere
  <2>6. ~overlap => Aligned("read_meta", job'[r].query)
    BY <2>1, <2>2, <2>3, <2>4 DEF Served, Aligned, Loading, IndexHere, MetaHere
  <2> QED BY <1>1, <2>2, <2>3, <2>5, <2>6, OwnStep DEF Resting
<1>4. CASE ReadMeta(r)
  <2> DEFINE v == Pair(job[r].query.pair.index, temp.meta)
  <2>1. v \in Pairs /\ v.index = job[r].query.pair.index /\ v.meta = temp.meta
    BY <1>2, BuildNumbers DEF IInv
  <2>2. pc[r] = "read_meta" /\ pc' = [pc EXCEPT ![r] = "assign"] /\ "assign" \in Places
        /\ Known(r, "pair", v) /\ Served("read_meta", job[r].query)
    <3>1. pc[r] = "read_meta" /\ pc' = [pc EXCEPT ![r] = "assign"]
      BY <1>4 DEF ReadMeta, Step
    <3>2. "assign" \in Places
      BY DEF Places, Loading
    <3>3. Known(r, "pair", v)
      BY <1>4 DEF ReadMeta
    <3>4. Served("read_meta", job[r].query)
      BY <3>1 DEF IInv
    <3> QED BY <3>1, <3>2, <3>3, <3>4
  <2> HIDE DEF v
  <2>3. /\ job' \in [Requests -> JobRecords] /\ Others(r) /\ job'[r].query.pair = v
        /\ job'[r].left = job[r].left
        /\ job'[r].query.routed = job[r].query.routed
        /\ job'[r].query.outcome = job[r].query.outcome
    BY <2>1, <2>2, KnownPair DEF IInv
  <2>4. job[r].query.outcome = "none"
    BY <2>2 DEF Served, Sound
  <2>5. Sound("assign", job'[r].query)
    BY <2>1, <2>2, <2>3, <2>4 DEF Served, Sound, IndexHere, MetaHere
  <2>6. ~overlap => Aligned("assign", job'[r].query)
    BY <2>1, <2>2, <2>3, <2>4 DEF Served, Aligned, Loading, IndexHere, MetaHere
  <2> QED BY <1>1, <2>2, <2>3, <2>5, <2>6, OwnStep DEF Resting
<1> QED BY <1>3, <1>4

\* A load that fails answers its own query and leaves the cache as it was.
LEMMA LoadFailsStep ==
    ASSUME IInv, Observed, NEW r \in Requests, LoadFails(r)
    PROVE  IInv'
<1>1. /\ UNCHANGED <<store, cache>> /\ FailWith(r, ServiceKinds \cup {"internal"})
      /\ pc[r] \notin Resting
  BY DEF LoadFails, CacheLeft, LoadFailure, Loading, Resting
<1> QED BY <1>1, FailStep, FailureKinds DEF Kinds

\* The search, which meets an index that is there.
LEMMA SearchStep ==
    ASSUME IInv, Observed, NEW r \in Requests, EmbedAndSearch(r)
    PROVE  IInv'
<1>1. UNCHANGED <<store, cache>> /\ pc[r] = "search" /\ Served("search", job[r].query)
  BY DEF EmbedAndSearch, IInv
<1>2. cache # Unset /\ Full(cache) /\ cache \in Pairs
  BY <1>1 DEF Served, Sound, IInv, Stores, Shape
<1>3. CASE pc' = [pc EXCEPT ![r] = "rows"] /\ Known(r, "pair", Pair(cache.index, 0))
  <2> DEFINE v == Pair(cache.index, 0)
  <2>1. v \in Pairs /\ v.index = cache.index /\ v.index # 0
    BY <1>2, BuildNumbers, RequestsAssumption DEF IInv, Full
  <2> HIDE DEF v
  <2>2. /\ job' \in [Requests -> JobRecords] /\ Others(r) /\ job'[r].query.pair = v
        /\ job'[r].left = job[r].left
        /\ job'[r].query.routed = job[r].query.routed
        /\ job'[r].query.outcome = job[r].query.outcome
    BY <1>3, <2>1, KnownPair DEF IInv, v
  <2>3. job[r].query.outcome = "none"
    BY <1>1 DEF Served, Sound
  <2>4. Sound("rows", job'[r].query)
    BY <1>1, <1>2, <2>1, <2>2, <2>3 DEF Served, Sound, IndexHere, MetaHere
  <2>5. Aligned("rows", job'[r].query)
    BY <2>1, <2>2, <2>3 DEF Aligned, Loading, IndexHere, MetaHere
  <2>6. "rows" \in Places
    BY DEF Places
  <2> QED BY <1>1, <1>3, <2>2, <2>4, <2>5, <2>6, OwnStep DEF Resting
<1>4. CASE Succeed(r, "no_evidence")
  <2>1. job[r].query.pair \in Pairs
    BY DEF IInv, Shape, JobRecords, QueryRecords
  <2> QED BY <1>1, <1>2, <1>4, <2>1, AnswerStep DEF Succeed, Outcomes, Resting
<1>5. CASE FailWith(r, ServiceKinds \cup {"invalid_model_output", "internal"})
  BY <1>1, <1>5, FailStep, FailureKinds DEF Kinds, Resting
<1> QED BY <1>3, <1>4, <1>5 DEF EmbedAndSearch

\* The rows come from the metadata of the index that was searched.
LEMMA RowsStep ==
    ASSUME IInv, Observed, NEW r \in Requests, Rows(r)
    PROVE  IInv'
<1>1. UNCHANGED <<store, cache>> /\ pc[r] = "rows" /\ Served("rows", job[r].query)
  BY DEF Rows, IInv
<1>2. cache # Unset /\ Full(cache) /\ cache \in Pairs /\ job[r].query.pair \in Pairs
  BY <1>1 DEF Served, Sound, IInv, Stores, Shape, JobRecords, QueryRecords
<1>3. CASE /\ pc' = [pc EXCEPT ![r] = "generate"]
           /\ Known(r, "pair", Pair(job[r].query.pair.index, cache.meta))
  <2> DEFINE v == Pair(job[r].query.pair.index, cache.meta)
  <2>1. v \in Pairs /\ v.index = job[r].query.pair.index /\ v.meta = cache.meta
    BY <1>2, BuildNumbers DEF IInv
  <2> HIDE DEF v
  <2>2. /\ job' \in [Requests -> JobRecords] /\ Others(r) /\ job'[r].query.pair = v
        /\ job'[r].left = job[r].left
        /\ job'[r].query.routed = job[r].query.routed
        /\ job'[r].query.outcome = job[r].query.outcome
    BY <1>3, <2>1, KnownPair DEF IInv, v
  <2>3. job[r].query.outcome = "none"
    BY <1>1 DEF Served, Sound
  <2>4. Sound("generate", job'[r].query)
    BY <1>1, <1>2, <2>1, <2>2, <2>3 DEF Served, Sound, Full, IndexHere, MetaHere
  <2>5. ~overlap => Aligned("generate", job'[r].query)
    <3>1. ~overlap => job[r].query.pair.index = cache.index /\ cache.index = cache.meta
      BY <1>1, <1>2 DEF Served, Aligned, IInv, Undisturbed
    <3> QED BY <2>1, <2>2, <2>3, <3>1 DEF Aligned, Loading, IndexHere, MetaHere
  <2>6. "generate" \in Places
    BY DEF Places
  <2> QED BY <1>1, <1>3, <2>2, <2>4, <2>5, <2>6, OwnStep DEF Resting
<1>4. CASE FailWith(r, {"internal"})
  BY <1>1, <1>4, FailStep DEF Kinds, Resting
<1> QED BY <1>3, <1>4 DEF Rows

\* The answer, or the failure of its own query; the stores are not touched.
LEMMA GenerateStep ==
    ASSUME IInv, Observed, NEW r \in Requests, Generate(r)
    PROVE  IInv'
<1>1. UNCHANGED <<store, cache>> /\ pc[r] = "generate" /\ Served("generate", job[r].query)
  BY DEF Generate, IInv
<1>2. CASE Succeed(r, "generated")
  <2>1. job[r].query.pair \in Pairs
    BY DEF IInv, Shape, JobRecords, QueryRecords
  <2>2. Full(job[r].query.pair)
        /\ (~overlap => job[r].query.pair.index = job[r].query.pair.meta)
    BY <1>1 DEF Served, Sound, Aligned, Full
  <2> QED BY <1>1, <1>2, <2>1, <2>2, AnswerStep DEF Succeed, Outcomes, Resting
<1>3. CASE FailWith(r, ServiceKinds \cup UsageUnreadable \cup {"invalid_model_output"})
  BY <1>1, <1>3, FailStep, FailureKinds DEF Kinds, UsageUnreadable, Resting
<1> QED BY <1>2, <1>3 DEF Generate

\* A response leaves, and the next query of the batch begins afresh.
LEMMA RespondStep ==
    ASSUME IInv, Observed, NEW r \in Requests, Respond(r)
    PROVE  IInv'
<1>1. /\ UNCHANGED <<store, cache>> /\ pc[r] = "answered"
      /\ job' = [job EXCEPT ![r].left = @ - 1, ![r].query = Query]
  BY DEF Respond
<1>2. PICK w \in {"route", "done"} :
         /\ pc' = [pc EXCEPT ![r] = w]
         /\ w = "done" \/ job[r].left > 1
  BY DEF Respond
<1>3. Query \in QueryRecords
  BY BuildNumbers
     DEF Query, QueryRecords, IInv, RouterOutcomes, Outcomes
<1>4. Sound(w, Query) /\ Aligned(w, Query) /\ w \in Places
  BY <1>2 DEF Query, Sound, Aligned, IndexHere, MetaHere, Loading, Places
<1>5. job[r] \in JobRecords /\ job[r].left # 0
  BY <1>1 DEF IInv, Shape, Working, Resting
<1>6. job[r].left - 1 \in 0..Batch /\ (w = "done" \/ job[r].left - 1 # 0)
  BY <1>2, <1>5, RequestsAssumption DEF JobRecords
<1> DEFINE n == job[r].left - 1
<1>7. job' = [job EXCEPT ![r].left = n, ![r].query = Query]
  BY <1>1
<1> HIDE DEF n
<1> DEFINE taken == [job EXCEPT ![r].left = n]
<1>8. job' = [taken EXCEPT ![r].query = Query]
  BY <1>7
<1>10. taken \in [Requests -> JobRecords] /\ taken[r].left = n
       /\ \A s \in Requests : s # r => taken[s] = job[s]
  BY <1>6 DEF IInv, Shape, JobRecords, n
<1> HIDE DEF taken
<1>9. /\ job' \in [Requests -> JobRecords] /\ Others(r)
      /\ job'[r].query = Query /\ job'[r].left = n
  BY <1>3, <1>8, <1>10 DEF JobRecords, Others
<1> QED BY <1>1, <1>2, <1>4, <1>6, <1>9, OwnStep DEF n
-----------------------------------------------------------------------------
(* Steps that change what requests share *)

\* A download replaces one of the two files, for every load at once.
LEMMA GetStep ==
    ASSUME IInv, Observed, NEW r \in Requests, GetIndex(r) \/ GetMeta(r)
    PROVE  IInv'
<1>1. /\ UNCHANGED <<bucket, rebuild, built, cache, job>>
      /\ pc[r] \in {"get_index", "get_meta"}
  BY DEF GetIndex, GetMeta, Step
<1>2. PICK w \in {"get_meta", "read_index"} :
         /\ pc' = [pc EXCEPT ![r] = w]
         /\ w = "read_index" => pc[r] = "get_meta"
         /\ temp' = IF w = "get_meta" THEN [temp EXCEPT !.index = bucket.index]
                                      ELSE [temp EXCEPT !.meta = bucket.meta]
  BY DEF GetIndex, GetMeta, Step
<1>3. /\ temp \in Pairs /\ bucket \in Pairs /\ Full(bucket)
      /\ bucket.index \in 0..(Builds + 1) /\ bucket.meta \in 0..(Builds + 1)
  BY BuildNumbers DEF IInv, Shape, Stores
<1>4. /\ temp' \in Pairs
      /\ IF w = "get_meta" THEN temp'.index = bucket.index /\ temp'.meta = temp.meta
                           ELSE temp'.index = temp.index /\ temp'.meta = bucket.meta
  BY <1>2, <1>3 DEF Pairs
<1>5. Shape' /\ pc'[r] = w /\ \A s \in Requests : s # r => pc'[s] = pc[s]
  BY <1>1, <1>2, <1>4, NoOverlap DEF IInv, Shape, Places, Loading
<1>6. Stores'
  BY <1>1, <1>3, <1>4 DEF IInv, Stores, Full
<1>7. Working'
  BY <1>1, <1>2, <1>5 DEF IInv, Working, Resting
<1>8. Served(pc[r], job[r].query)
  BY DEF IInv
<1>9. ~overlap' => ~overlap /\ rebuild = "idle" /\ Of(bucket, built)
  <2>1. ~overlap' => ~overlap
    BY NoOverlap DEF IInv
  <2>2. ~overlap => rebuild = "idle"
    BY <1>1, <1>8 DEF Served, Aligned, Loading
  <2> QED BY <2>1, <2>2 DEF IInv, Undisturbed
<1>10. ~overlap' => Undisturbed'
  BY <1>1, <1>9 DEF IInv, Undisturbed
<1>11. \A s \in Requests : Served(pc[s], job[s].query)'
  <2> TAKE s \in Requests
  <2>1. Served(pc[s], job[s].query)
    BY DEF IInv
  <2>2. Sound(pc[s], job[s].query)'
    <3>1. CASE s = r
      BY <1>1, <1>2, <1>3, <1>4, <1>5, <1>8, <3>1
         DEF Served, Sound, Full, IndexHere, MetaHere
    <3>2. CASE s # r
      BY <1>1, <1>3, <1>4, <1>5, <2>1, <3>2 DEF Served, Sound, Full
    <3> QED BY <3>1, <3>2
  <2>3. ~overlap' => Aligned(pc[s], job[s].query)'
    <3> SUFFICES ASSUME ~overlap' PROVE Aligned(pc[s], job[s].query)'
      OBVIOUS
    <3>1. CASE s = r
      BY <1>1, <1>2, <1>4, <1>5, <1>8, <1>9, <3>1
         DEF Served, Aligned, Of, Loading, IndexHere, MetaHere
    <3>2. CASE s # r
      BY <1>1, <1>4, <1>5, <1>9, <2>1, <3>2 DEF Served, Aligned, Of
    <3> QED BY <3>1, <3>2
  <2> QED BY <2>2, <2>3 DEF Served
<1> QED BY <1>5, <1>6, <1>7, <1>10, <1>11 DEF IInv

\* The globals are assigned.  They may be there already, another load having
\* ended meanwhile, and may be in use: without an overlap they keep their value.
LEMMA AssignStep ==
    ASSUME IInv, Observed, NEW r \in Requests, Assign(r)
    PROVE  IInv'
<1> DEFINE v == job[r].query.pair
<1>1. /\ UNCHANGED <<bucket, temp, rebuild, built>> /\ cache' = v
      /\ pc[r] = "assign" /\ pc' = [pc EXCEPT ![r] = "search"]
      /\ Known(r, "pair", Unset)
  BY DEF Assign, Step, store
<1>2. v \in Pairs
  BY DEF IInv, Shape, JobRecords, QueryRecords
<1>3. Served("assign", job[r].query)
  BY <1>1 DEF IInv
<1>4. /\ job' \in [Requests -> JobRecords] /\ Others(r)
      /\ job'[r].query.pair = Unset /\ job'[r].left = job[r].left
      /\ job'[r].query.routed = job[r].query.routed
      /\ job'[r].query.outcome = job[r].query.outcome
  BY <1>1, BuildNumbers, KnownPair DEF IInv
<1>5. Shape' /\ pc'[r] = "search" /\ \A s \in Requests : s # r => pc'[s] = pc[s]
  BY <1>1, <1>2, <1>4, NoOverlap DEF IInv, Shape, Places
<1>6. Full(v) /\ v # Unset
  BY <1>3, BuildNumbers DEF Served, Sound, Full, IInv
<1>7. Stores'
  BY <1>1, <1>6 DEF IInv, Stores
<1>8. Working'
  BY <1>1, <1>4, <1>5 DEF IInv, Working, Resting, Others
<1>9. ~overlap => Of(v, built) /\ (cache = Unset \/ cache = v)
  <2>1. ~overlap => Of(v, built) /\ (cache = Unset \/ Of(cache, built))
    BY <1>3 DEF Served, Aligned, Of, Loading
  <2>2. cache \in Pairs
    BY DEF IInv, Shape
  <2>3. Of(v, built) /\ Of(cache, built) => cache = v
    BY <1>2, <2>2 DEF Of, Pairs
  <2> QED BY <2>1, <2>3
<1> HIDE DEF v
<1>10. ~overlap' => Undisturbed'
  BY <1>1, <1>9, NoOverlap DEF IInv, Undisturbed, Of
<1>11. \A s \in Requests : Served(pc[s], job[s].query)'
  <2> TAKE s \in Requests
  <2>1. Served(pc[s], job[s].query)
    BY DEF IInv
  <2>2. Sound(pc[s], job[s].query)'
    <3>1. CASE s = r
      BY <1>1, <1>3, <1>4, <1>5, <1>6, <3>1 DEF Served, Sound, IndexHere, MetaHere
    <3>2. CASE s # r
      BY <1>1, <1>4, <1>5, <1>6, <2>1, <3>2 DEF Served, Sound, Others
    <3> QED BY <3>1, <3>2
  <2>3. ~overlap' => Aligned(pc[s], job[s].query)'
    <3> SUFFICES ASSUME ~overlap' PROVE Aligned(pc[s], job[s].query)'
      OBVIOUS
    <3>1. ~overlap
      BY NoOverlap DEF IInv
    <3>2. CASE s = r
      BY <1>1, <1>3, <1>4, <1>5, <3>1, <3>2
         DEF Served, Aligned, Sound, Loading, IndexHere, MetaHere
    <3>3. CASE s # r
      <4>1. job'[s] = job[s] /\ pc'[s] = pc[s]
        BY <1>4, <1>5, <3>3 DEF Others
      <4>2. pc[s] = "rows" => cache = v
        BY <1>9, <2>1, <3>1 DEF Served, Sound
      <4> QED BY <1>1, <1>9, <2>1, <3>1, <4>1, <4>2 DEF Served, Aligned
    <3> QED BY <3>2, <3>3
  <2> QED BY <2>2, <2>3 DEF Served
<1> QED BY <1>5, <1>7, <1>8, <1>10, <1>11 DEF IInv
-----------------------------------------------------------------------------
(* Steps of a rebuild *)

\* A step of the rebuild, after which it is in progress or has ended well.
\* While it is in progress and met no load, no load is there to be disturbed.
LEMMA RebuildStep ==
    ASSUME IInv, Observed, Rebuild
    PROVE  IInv'
<1>1. UNCHANGED <<cache, pc, job>>
  BY DEF Rebuild
<1>2. built \in Nat /\ built >= 1 /\ built <= Builds + 1 /\ Builds \in Nat
  BY BuildNumbers, RequestsAssumption DEF IInv
<1>3. bucket \in Pairs /\ temp \in Pairs /\ Full(bucket)
  BY DEF IInv, Shape, Stores
<1>4. CASE WriteIndex
  <2>1. /\ rebuild = "idle" /\ built <= Builds /\ rebuild' = "written"
        /\ built' = built + 1 /\ bucket' = bucket
        /\ temp' = [temp EXCEPT !.index = built + 1]
    BY <1>4 DEF WriteIndex
  <2>2. temp' \in Pairs /\ temp'.index = built + 1 /\ temp'.meta = temp.meta
    BY <1>2, <1>3, <2>1 DEF Pairs
  <2>3. Shape'
    BY <1>1, <1>2, <2>1, <2>2, NoOverlap DEF IInv, Shape
  <2>4. Stores' /\ Working'
    BY <1>1, <1>2, <2>1, <2>2 DEF IInv, Stores, Working, Full
  <2>5. ~overlap' => Undisturbed'
    BY <1>1, <2>1, <2>2, NoOverlap DEF IInv, Undisturbed
  <2>6. \A s \in Requests : Served(pc[s], job[s].query)'
    <3> TAKE s \in Requests
    <3>1. Served(pc[s], job[s].query)
      BY DEF IInv
    <3>2. Sound(pc[s], job[s].query)'
      BY <1>1, <1>2, <2>2, <3>1 DEF Served, Sound
    <3>3. ~overlap' => ~overlap /\ pc[s] \notin Loading
      BY <1>1, <2>1, NoOverlap DEF IInv
    <3>4. ~overlap' => Aligned(pc[s], job[s].query)'
      BY <1>1, <3>1, <3>3 DEF Served, Aligned, Loading, IndexHere, MetaHere
    <3> QED BY <3>2, <3>4 DEF Served
  <2> QED BY <2>3, <2>4, <2>5, <2>6 DEF IInv
<1>5. CASE DumpMeta
  <2>1. /\ rebuild = "written" /\ rebuild' = "dumped"
        /\ built' = built /\ bucket' = bucket
        /\ temp' = [temp EXCEPT !.meta = built]
    BY <1>5 DEF DumpMeta
  <2>2. temp' \in Pairs /\ temp'.index = temp.index /\ temp'.meta = built
    BY <1>2, <1>3, <2>1 DEF Pairs
  <2>3. Shape'
    BY <1>1, <2>1, <2>2, NoOverlap DEF IInv, Shape
  <2>4. Stores' /\ Working'
    BY <1>1, <1>2, <2>1, <2>2 DEF IInv, Stores, Working, Full
  <2>5. ~overlap' => Undisturbed'
    BY <1>1, <2>1, <2>2, NoOverlap DEF IInv, Undisturbed
  <2>6. \A s \in Requests : Served(pc[s], job[s].query)'
    <3> TAKE s \in Requests
    <3>1. Served(pc[s], job[s].query)
      BY DEF IInv
    <3>2. Sound(pc[s], job[s].query)'
      BY <1>1, <1>2, <2>2, <3>1 DEF Served, Sound
    <3>3. ~overlap' => ~overlap /\ pc[s] \notin Loading
      BY <1>1, <2>1, NoOverlap DEF IInv
    <3>4. ~overlap' => Aligned(pc[s], job[s].query)'
      BY <1>1, <3>1, <3>3 DEF Served, Aligned, Loading, IndexHere, MetaHere
    <3> QED BY <3>2, <3>4 DEF Served
  <2> QED BY <2>3, <2>4, <2>5, <2>6 DEF IInv
<1>6. CASE PutIndex \/ PutMeta \/ RebuildFails
  <2>1. built' = built /\ temp' = temp /\ rebuild # "idle"
    BY <1>6 DEF PutIndex, PutMeta, RebuildFails
  <2>2. CASE PutIndex
    <3>1. rebuild = "dumped" /\ rebuild' = "uploaded"
          /\ bucket' = [bucket EXCEPT !.index = temp.index]
      BY <2>2 DEF PutIndex
    <3>2. bucket' \in Pairs /\ bucket'.index = temp.index /\ bucket'.meta = bucket.meta
      BY <1>3, <3>1 DEF Pairs
    <3>3. Shape' /\ Stores'
      BY <1>1, <2>1, <3>1, <3>2, NoOverlap DEF IInv, Shape, Stores, Full
    <3>4. ~overlap' => Undisturbed'
      BY <1>1, <2>1, <3>1, <3>2, NoOverlap DEF IInv, Undisturbed
    <3> QED BY <1>1, <2>1, <3>3, <3>4, NoOverlap
            DEF IInv, Working, Served, Sound, Aligned
  <2>3. CASE PutMeta
    <3>1. rebuild = "uploaded" /\ rebuild' = "idle"
          /\ bucket' = [bucket EXCEPT !.meta = temp.meta]
      BY <2>3 DEF PutMeta
    <3>2. bucket' \in Pairs /\ bucket'.index = bucket.index /\ bucket'.meta = temp.meta
      BY <1>3, <3>1 DEF Pairs
    <3>3. Shape' /\ Stores'
      BY <1>1, <2>1, <3>1, <3>2, NoOverlap DEF IInv, Shape, Stores, Full
    <3>4. ~overlap' => Undisturbed'
      BY <1>1, <2>1, <3>1, <3>2, NoOverlap DEF IInv, Undisturbed, Of
    <3> QED BY <1>1, <2>1, <3>3, <3>4, NoOverlap
            DEF IInv, Working, Served, Sound, Aligned
  <2>4. CASE RebuildFails
    <3>1. rebuild' = "failed" /\ bucket' = bucket
      BY <2>4 DEF RebuildFails
    <3>2. Shape' /\ Stores'
      BY <1>1, <2>1, <3>1, NoOverlap DEF IInv, Shape, Stores
    <3>3. ~overlap' => Undisturbed'
      BY <1>1, <2>1, <3>1, NoOverlap DEF IInv, Undisturbed
    <3> QED BY <1>1, <2>1, <3>2, <3>3, NoOverlap
            DEF IInv, Working, Served, Sound, Aligned
  <2> QED BY <1>6, <2>2, <2>3, <2>4
<1> QED BY <1>4, <1>5, <1>6 DEF Rebuild
-----------------------------------------------------------------------------
(* The theorems *)

\* The invariant holds of the process as it starts.
LEMMA Initially == Init => IInv
<1> SUFFICES ASSUME Init PROVE IInv
  OBVIOUS
<1>1. Pair(1, 1) \in Pairs /\ Pair(1, 1).index = 1 /\ Pair(1, 1).meta = 1
      /\ Unset \in Pairs
  BY RequestsAssumption DEF Pair, Pairs, Unset
<1>2. Query \in QueryRecords /\ Query.outcome = "none" /\ Query.routed = "none"
  BY <1>1 DEF Query, QueryRecords, RouterOutcomes, Outcomes
<1>3. Shape
  <2>1. [left |-> 0, query |-> Query] \in JobRecords
    BY <1>2, RequestsAssumption DEF JobRecords
  <2>2. job \in [Requests -> JobRecords]
    BY <2>1 DEF Init
  <2>3. pc \in [Requests -> Places]
    BY DEF Init, Places
  <2>4. built \in 1..(Builds + 1)
    BY RequestsAssumption DEF Init
  <2> QED BY <1>1, <2>2, <2>3, <2>4 DEF Init, Shape
<1>4. Stores /\ Undisturbed /\ Working
  BY <1>1 DEF Init, Stores, Undisturbed, Working, Resting, Full, Of
<1>5. \A r \in Requests : Served(pc[r], job[r].query)
  <2> TAKE r \in Requests
  <2>1. pc[r] = "idle" /\ job[r].query = Query
    BY DEF Init
  <2> QED BY <1>2, <2>1 DEF Served, Sound, Aligned, Loading, IndexHere, MetaHere
<1> QED BY <1>3, <1>4, <1>5 DEF IInv

\* Every step of the process and of a rebuild keeps it.
LEMMA Inductive == IInv /\ [Next]_vars => IInv'
<1> SUFFICES ASSUME IInv, [Next]_vars PROVE IInv'
  OBVIOUS
<1>1. CASE Rebuild /\ Observed
  BY <1>1, RebuildStep
<1>2. ASSUME NEW r \in Requests, Serve(r), Observed PROVE IInv'
  <2>1. CASE Accept(r) \/ Route(r) \/ Summarize(r) \/ Cached(r) \/ StartLoad(r)
    BY <1>2, <2>1, AcceptStep, RouteStep, SummarizeStep, LookStep
  <2>2. CASE GetIndex(r) \/ GetMeta(r) \/ ReadIndex(r) \/ ReadMeta(r)
    BY <1>2, <2>2, GetStep, ReadStep
  <2>3. CASE Assign(r) \/ LoadFails(r) \/ EmbedAndSearch(r) \/ Rows(r)
    BY <1>2, <2>3, AssignStep, LoadFailsStep, SearchStep, RowsStep
  <2>4. CASE Generate(r) \/ Respond(r)
    BY <1>2, <2>4, GenerateStep, RespondStep
  <2> QED BY <1>2, <2>1, <2>2, <2>3, <2>4 DEF Serve
<1>3. CASE UNCHANGED vars
  BY <1>3 DEF vars, store, IInv, Shape, Stores, Working, Undisturbed, Served, Sound,
              Aligned
<1> QED BY <1>1, <1>2, <1>3 DEF Next

\* The invariant is one of the specification.
LEMMA Invariant == Spec => []IInv
BY Initially, Inductive, PTL DEF Spec

\* Failures surface and only failures do, in every answer of every request,
\* however many run at once and whatever their services raise: 200 means a
\* query that met no fatal failure, an answer from evidence had a whole index
\* and its whole metadata, and "no evidence" means that a loaded index was
\* searched.
THEOREM AnswersHonestHolds == Spec => []AnswersHonest
<1>1. IInv => AnswersHonest
  <2> SUFFICES ASSUME IInv PROVE AnswersHonest
    OBVIOUS
  <2>1. TypeOK
    BY DEF IInv, Shape, TypeOK, JobRecords, QueryRecords
  <2>2. ASSUME NEW r \in Requests, pc[r] = "answered"
        PROVE  Sound("answered", job[r].query)
    BY <2>2 DEF IInv, Served
  <2> QED BY <2>1, <2>2 DEF AnswersHonest, Sound
<1> QED BY <1>1, Invariant, PTL

\* Evidence comes from the passages the vectors were made from, for as long as
\* no rebuild was under way, or was left unfinished, during a load: loads that
\* interleave with each other, with searches and with failures never pair an
\* index with the metadata of another build.
THEOREM AlignedUnlessOverlapHolds == Spec => []AlignedUnlessOverlap
<1>1. IInv => AlignedUnlessOverlap
  <2> SUFFICES ASSUME IInv, ~overlap PROVE AlignedUnlessOverlap
    BY DEF AlignedUnlessOverlap
  <2>1. cache # Unset => cache.index = cache.meta
    BY DEF IInv, Undisturbed
  <2>2. rebuild = "idle" => bucket = Pair(built, built)
    BY DEF IInv, Undisturbed, Of, Shape, Pairs, Pair
  <2>3. \A r \in Requests : Aligned(pc[r], job[r].query)
    BY DEF IInv, Served
  <2> QED BY <2>1, <2>2, <2>3 DEF AlignedUnlessOverlap, Aligned
<1> QED BY <1>1, Invariant, PTL
=============================================================================
