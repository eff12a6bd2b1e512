# A verification development for the financial research copilot

The repository is a FastAPI/Lambda service that answers questions about company
filings, and around it a large amount of code whose only purpose is to spend a
known amount of money once: a smoke run with a fixed ceiling, the operator that
invokes it, a benchmark with a cost ledger.  That code is where a mistake is
expensive and where a test reaches least: a request that is sent twice, a bill
nobody recorded, a file that claims more than happened.  This directory models
it in TLA+, beside the ordinary request path and the packaging of a release,
checks it with TLC and proves its safety with TLAPS.

    tlc -config MCSmokePolicy.cfg MCSmokePolicy        # one run
    tlapm SmokeProofs.tla                              # the proofs of one module

`PROJECT.json` maps each definition to the lines it models, and lists the runs,
the mutants that show each property can fail, the hazards and the theorems.

## 1. Inventory

Each part, the state it keeps, its operations, what is hard about it and what
makes it correct.

**Smoke policy** (`app/services/rag_smoke_policy.py`).
State: the claim directory and its numbered journal files; `halted`,
`position`, `sequence`, the per-provider `_exposure`, one attempt per stage, the
permit of the call in progress, extra requests and their evidence digests.
Operations: `bind_clients`, `activate`, `invoke`, the botocore hooks
`_parameters` and `_send`, `record_extra_request`, `accounting`.
Hard: three callers that trust each other little (application, SDK, observer);
exceptions that are swallowed on the way; writes that fail half-way; process
death between any two steps; a restart over the same directory.
Correct when: a stage is sent at most once, in order and after its record; the
account of money is exact, bounded and covers the bill; "complete" is true.

**Smoke request path** (`app/agents/orchestrator.py: process_smoke`, router, QA
agent, `retriever.retrieve_from_snapshots`).  No state of its own.  It is the
body of `with policy.activate(...)`, and may raise or swallow at any point.

**Smoke Lambda handler** (`app/rag_smoke_handler.py`).
State: status, code and result as the `except` clauses assign them; `/tmp` with
the claim.  Operations: `validate`, the client factory, `process_smoke`, close,
`evidence_snapshot`, the bounded response.  Hard: failures after success
(closing, reading the journal, the size limit), a second invocation of a warm
function, death without a response.  Correct when: its verdict is true of the
money, comes with its evidence, and is accepted by the operator's inspection,
which derives the same verdict from other fields.

**Parent's side** (`scripts/jev_rag_smoke_preinvoke.py`, `_operator.py`,
`_client_factory.py`, `_live_adapter.py`, `_execution.py`).
State: the directory of one execution id with its claim, six inputs, request,
marker, response, log and index files; the one-use factory and transport; the
consumer's local verdicts.  Operations: `prepare`, `publish_claim`,
`consume_adapter`, `ParentTransport.invoke_once` and its hooks,
`_publish_adapter`, `parse_report`, `inspect_handler`, `confirm`,
`emit_confirmation`.  Hard: two operators started for one id; death anywhere;
defects that propagate through `finally` clauses which still publish; a status
decided before the file that carries it is written; three owners of one client.
Correct when: the invocation leaves once at most and after its marker; nothing
on disk or returned claims more than is there; a client that is left open is
never part of a run reported COMPLETE.

**Router benchmark** (`experiments/router_bench/`).
State: a ledger per provider (requests, committed, reserved), consecutive errors
per router, the journal, the artifact, the tripwire, the exit code.  Operations:
the refusals of `cli.main`, `build_plan` and `build_verification_plan`, the
construction of the routers, `reserve`, `call_started`, `route`, `settle`,
`record`, stop conditions, the interrupt clause, metrics, the safety check, both
artifacts.  Hard: calls that time out after they were billed, missing usage,
interrupts between two steps, a router that is stopped while others go on, a
record the journal had to cut, two invocations of one output, one of which may
be a dry run that opens the artifact for writing over it.  Correct when: the
bill stays under the cap; the journal covers the bill; "valid" means complete;
exit code and files say what happened.

**Ordinary request path** (`app/main.py`, agents, `retriever.py`, `errors.py`,
`observability.py`).  State: a process-wide FAISS index and metadata, loaded
lazily from S3 into two temporary files; a trace per query.  Operations: `/ask`,
`/summarize`, `/evaluate`, routing with its fallbacks, `_load_index_if_needed`,
`retrieve_chunks`, generation, summaries, `classify` and `http_status_for`.
Hard: concurrent first requests over the same two files, a rebuild on the same
host that writes them too, a bucket that changes between the two downloads,
degradation when a part fails.  Correct when: index and metadata belong
together; a failure has an error's status and only a failure has one.

**Visa source migration** (`scripts/migrate_visa_source.py`).  State: one live
metadata object, its backups, a local plan.  Operations: `execute`, `verify`,
`rollback`, and `plan`, which makes the reads of `execute`.  Hard: another writer
of the bucket; a backup that copies whatever is live at that moment; a rollback
without `If-Match`; a rebuild of the index (`app/services/build_index.py`) that
uploads index and metadata one after the other.  Correct when: no version written
by somebody else is lost, every overwritten version has a backup, a backup that
was reported stays what it was, and rows and vectors stay those of one build.

**Release observation capture** (`scripts/jev_release_observation_capture.py`).
State: an output directory claimed once, the reads made, records, observations
and an index of both.  Operations: `claim_output`, `Publisher.write_bytes`,
`Capture.observe`, `capture`, the exit of `main`.  Hard: a record published
without its observation or the other way round, writes that fail after their
bytes are there, clocks that run backwards, a status decided before the index is
written.  Correct when: a read leaves once and only after the earlier ones are
kept; the index lists exactly what is on disk; the status is that of the index.

**Jev candidate live smoke** (`experiments/jev_candidate/live_smoke.py`).
State: the directory of a fixed `RUN_ID`, an exact ledger per provider, a permit
that counts dispatches and wires, the journal, `result.json`.  Operations:
`execute` from its claim to its report, `ExactLedger.reserve` and `settle`,
`Permit`, `AwsWireGuard`, `ExactJournal.event`.  Hard: an interrupt at any
bytecode, the inside of `settle` included; routers that swallow every failure;
writes that fail half-way; a call more expensive than was reserved.  Correct
when: calls leave once and in order; the run goes on only while its ledger is
the bill; the journal covers what left and agrees with the result.

**Packaging** (`scripts/lambda_package.py`).  State: the run's local copies of
sources, hashes and wheels, a stage directory, the output path.  Operations:
`preflight`, `assemble` (`source_files`, `inspect_wheel`, the wheel copies, pip,
the comparison of the stage, the second read of the sources, `os.link`), `main`.
Hard: inputs that are read one by one while somebody edits them; a wheel that is
hashed, reopened, hashed again and installed; two runs with one output.  Correct
when: a package holds one state of the tree and the bytes of the lock; a success
is the run's own package.

**Reviewer protocol v2**, **release preflight and saved records**,
**evaluation**: see section 8.

Interactions: the operator's transport calls Lambda; Lambda runs the handler;
the handler builds a policy and clients and calls `process_smoke`; the policy's
hooks run inside the SDK call that `invoke` makes; the response goes back to
`inspect_handler`.  The benchmark calls the routers of the ordinary path under
its own ledger, as does the live smoke.  The migration rewrites the object the
retriever caches; a rebuild of the index writes the retriever's temporary files
as well, when it runs on the same host.

## 2. Modules

| module | models | composed with |
|---|---|---|
| `OneShotChain` | what a claimed run promises: each stage once, in order, none after the end | implemented by `SmokePolicy`, `ParentInvocation`, `ObservationCapture` and `LiveSmoke` |
| `SmokePolicy` | one policy object, its journal, the SDK and observer around it, death and restart | `OneShotChain` (refinement) |
| `SmokeHandler` | `handler()` around the policy, and the operator's inspection of its response | EXTENDS `SmokePolicy` |
| `SmokeProofs` | the theorems about `SmokePolicy` and `SmokeHandler` | EXTENDS `SmokeHandler` |
| `ParentInvocation` | several operators over one root: claim, publish, invoke, publish, index, confirm | `OneShotChain` (refinement) |
| `RouterBench` | a live benchmark from `cli.main`'s refusals to its exit code: loop, ledger, journal, bills, artifact | |
| `RequestPath` | concurrent requests of one process, the retriever's shared index and files, a rebuild on the host | |
| `VisaMigration` | `execute`, `verify` and `rollback` of several operators against one bucket, beside a rebuild of the index | |
| `LiveSmoke` | the owner's routing smoke: claim, exact ledger, permit, journal and result, with interrupts everywhere | `OneShotChain` (refinement) |
| `LambdaPackage` | several runs of the packaging script beside editors of its inputs | |
| `LambdaPackageProofs` | the theorems about `LambdaPackage` | EXTENDS `LambdaPackage` |
| `ObservationCapture` | captures with one output: claim, reads, records, observations, index, status | `OneShotChain` (refinement) |
| `ParentInvocationProofs`, `RouterBenchProofs`, `RequestPathProofs`, `VisaMigrationProofs`, `ObservationCaptureProofs`, `LiveSmokeProofs` | the theorems about the module of that name | EXTENDS that module |
| `MC*` | instances for TLC | |

### SmokePolicy

`pc` is where the process is: `new` (the object exists), `body` (inside
`with activate`), `sdk` (inside the client call of `invoke`), `stop` (in the
handlers of `activate`), `done`, `dead`.  Other variables keep the names of the
code: `halted`, `position`, `sequence`, `exposure`, `attempts`, `permit`,
`unestablished` and so on.  `disk` is the list of journal files in the order
they were opened; `sent`, `spent` and `extraSpent` belong to the world: the
requests that left and what the provider bills for them, which the policy never
sees.

* The SDK is not trusted.  In `sdk` the two hooks may be called in any order and
  repeatedly, and a `SmokeStop` raised in them either ends the call or is
  swallowed (`RaiseInSdk`), after which the SDK goes on.  Only an approved send
  (`SendApproved`) lets a request out.
* The application is not trusted.  In `body` any stage may be invoked, and a
  `SmokeStop` either propagates or is caught and the body goes on
  (`RaiseInBody`); the repository's tests do both.
* A write (`Writes`) succeeds with a whole file, or fails with a whole or an
  unusable one.  The number of a journal file is taken before the file is
  opened, as `_journal` does.
* A check of content (a prompt, a digest, a payload) is a choice between
  acceptance and the `SmokeStop` it raises.  Money is a natural number of units:
  the code's arithmetic is exact.
* A usage record in `disk` carries its `overrun` field, which is true of tokens
  over the bound although the money stayed within it; no other record has one.
* `MaxRuns` bounds the processes over one claim directory, `ParametersHook` is
  bounded at two builds per call, and an observer that cannot identify a request
  reports once.

### SmokeHandler

One action per clause of `handler()`: the refused envelope, the factory, the
policy's run (`PolicyRuns` takes a step of `SmokePolicy`), `ImportFails`,
`PolicyStopped`, `PolicyCompleted`, `Close`, `Snapshot`, `Respond`.  `Lost` is a
killed function; `InvokedAgain` is a warm one that finds the same `/tmp`.
`InspectHandler` is `inspect_handler` with `consumer_accounting`: a predicate on
the response alone, clause by clause, so that the two independent derivations of
"uncertain" can be compared on every reachable response.  Its money is in four
parts: `TotalsConsistent` (bound, coverage and ceiling), `AttemptsConsistent`
(each attempt against the totals), `HoldsConsistent` (the holds the operator adds
up itself from the attempts listed) and `OverrunsConsistent` (a usage record among
the events carried that says overrun needs a violated coverage).  A refused envelope is
outside that comparison: its response has no run id, and the inspection rejects
it by design.

### ParentInvocation

One process per member of `Operators`, all over one directory.  `pc` walks
`prepare`, `validate`, `start` (`publish_claim`), `claim`, `stat`, `before` (the
files of `Before`, in order), `factory`, `adapter` (`ParentTransport` is under
construction), `built` (it exists, and `invoke_once` has not entered its own
`try`), `sdk`, `closing`, `evidence` (the files of `Raw`; `salvage` where they are
published under an exception of `invoke_once`), `assess`, `join`, `end`,
`inspect`, `final` (the `finally` clause), `index`, `receipt`, `confirm`,
`console`.  `file` is the directory as a
reader would find it, `listed` is `Publication.files`, `failed` says whether
`Publication.failures` is not empty, `defect` that an exception the code does
not name is on its way out.  `Crash` may strike anywhere; the directory and the
request that left survive it.

* An exception or an interrupt leaves each step of the `try` statement of
  `consume_adapter` (`ConsumerRaises`), the steps between the construction of the
  transport and its `try` (`InvokeAbandoned`), and the clauses that close and
  publish (`CloseInterrupted`, `SalvageRaises`, `Interrupted`).
* `client` is `lost` when the factory had made it and an interrupt came before it
  was assigned.  `OwesClose` is the test `transport is None` of the `finally`
  clause: a client under a constructed transport is left to `invoke_once`.

### RouterBench

`pc` walks `start` (the refusals), `built` (the routers exist), `opened` (the
journal does), then `next`, `announce`, `call`, `settle`, `record` of the loop in
`runner.run`, `finish`, and back in `main` `returned`, `artifact` and `write`; it
ends as `exited` (with `exit`) or `raised`.  A plan is a record that
`build_plan` or `build_verification_plan` may return; `Init` picks one of
`Plans`, and it stays.  `account` is the ledger, `billed` what the provider
charges, which a record may not know (`HaikuOutcomes`, `JevOutcomes`).
`Interrupt` leaves the loop from any of its steps, inside a call that may have
been billed too.  `redacted` remembers that the journal had to cut a record,
which the safety check of the artifact then refuses.  `Other` is another
invocation with the same output path: it begins with its journal, which is
created exclusively by a dry run too (`OtherStarts`); then a live one creates its
artifact exclusively (`OtherIsLive`) and a dry one opens it with `w`
(`OtherIsDry`), whatever is there.  A plan is infeasible for its money or because
the payload template or the rules are not the frozen ones.

### RequestPath

One process with several `Requests` in its thread pool.  `pc` walks `route`,
`load` and the six calls of a load (`get_index` to `assign`), `search`, `rows`,
`generate` or `summarize`, `answered`; an `/evaluate` goes round once per case.
`cache` is the pair of globals, `temp` the two files of the temporary directory,
`bucket` the two objects; each holds the number of the build it comes from.
`Rebuild` writes the files, then uploads them, one at a time, and may fail in
between.

* The two reads of `_index` and `_metadata` in `retrieve_chunks` are two steps;
  the assignment of both is one, because the interpreter switches threads at
  calls and backward jumps, not between two stores.
* `Classify` and `FailureFrom` translate the tables of `errors.py`; `Raised` are
  the exceptions a call to a service raises.
* A router's failure, or a confidence below 0.6, sends the query on the grounded
  path; `routed` keeps what the router did where it did not.
* `UsageUnreadable`: usage of a Converse reply that is not an object makes
  `record_converse_usage` raise outside the `try` of its callers, the router's
  included, and fails the query as internal.
* `overlap` is history: a rebuild in progress, or one that failed, met a load.

### VisaMigration

One process per member of `Operators` (mode `execute`), `Verifiers` (`verify`)
and `Restorers` (`rollback`), and one rebuild at a time.  Every call to S3 is a step, and `pc`
is the call that comes next: for `execute`, `headMeta`, `getMeta`, `getIndex`
and `headNew` of `load_state`, then `backup`, `checkBackup`, `copyPdf`,
`checkPdf`, `put`, `checkMeta` and `checkIndex`.  Calls on the old PDF, which
nothing writes, are left out.

* A metadata object is a pair: the build its rows come from, and the names under
  which rows cite the Visa filing.  An ETag is the content it is the digest of,
  so a version that returns has its old ETag again, as in S3.
* `gone` is a call that raised or a process that died.  A write whose answer is
  lost is a write followed by `Gone`; the copy of the backup and the
  unconditional put of `rollback` may be repeated, as the client's default
  retries do.  A repeated conditional put finds another ETag and raises, which
  is a write followed by `Gone` too.
* `verify` is given the key and the index hash that an `execute` reported.
* `backups` is indexed by the second in the key.  `key` is 0 before an operator
  has one.  A rollback is given the key of an `execute` that has ended, whether
  it reported success or not.
* The new PDF is absent, the same as the old one, or something else to begin
  with.  A rebuild cites both names when it finds both files.
* A rebuild that fails between its uploads leaves a torn pair, and is the last
  (`builder.place = "torn"`).

### ObservationCapture

One process per member of `Captures`, all with the same `--out`; `mkdir` lets one
of them pass, and the variables other than `pc` and the directory are those of
that one.  `pc` walks `plan`, then for each read `client`, `clocks`, `call`,
`judge`, `record` and `observation` of `observe`, then `index` and `report`, and
ends as the exit of `main` (`exit0` to `exit3`) or `dead`.  Read 0 is the account
check, which has no record.  `disk` says of each file whether it is missing, cut
short, whole, or somebody else's; `observations` and `index` are the contents of
those that are whole.

* `Results` is `write_bytes`: exclusive creation of a whole file, or a failure
  before the file is opened (the serializer, the directory, an existing file)
  or after it, with the file cut short or whole.
* An answer is an error, unusable in some way (`unbound`: unreadable, retried,
  of another account or function), or what the plan asked for (`bound`).
* The clock shows any moment at any time, so that it may stand still or run
  backwards; 0 is a clock that fails or shows nothing usable.

### LiveSmoke

One process per member of `Runs`, all started for the same `RUN_ID`; `mkdir` lets
one pass.  `pc` walks `start`, `open`, the preparations `begin`, `configure` and
`preflight`, then for each call `next`, `announce`, `dispatch`, `wired`,
`settle`, `complete` and `verify`, and past the `try` `close`, `ending` and
`report`.  `account` and `active` are `ExactLedger` and the reservation in hand,
`billed` is the provider's truth.

* `StopFrom` is the `except` clause: it settles the reservation in hand at its
  full amount.  It takes the ledger as the failure finds it, so that an
  interrupt inside `settle` (`InterruptSettle`) or between `reserve` and its
  assignment (`InterruptReserve`) is one more case of it.
* A router swallows what its provider or the permit raises and reports a
  fallback; the three checks after the call (`Objection`) are what notices.
* A cost may exceed its reservation (`MaxBill`), or not come back at all.

### LambdaPackage

One record of local state per member of `Runs`; `at` walks `read`, `hash`,
`open`, `rehash`, `install`, `compare`, `confirm`, `build`, `link`, `leave`,
`print`.  A preflight skips from `rehash` to `confirm` and prints after it.
`tree` is what the sources hold now, `first` what the run read, `house` what the
wheels hold now, `inspected` what was found behind the checked hash, `staged`
what pip left, `out` the file at the output and who put it there.  `trees` is
history: the trees that existed since the run started.

* The content of a source is the number of its last edit.  An edit that brings
  an earlier content back exactly while a run reads is not modelled: two equal
  reads of a file would then not show that it was the same in between, and a
  package could mix two states of the tree that never were one.
* Wheels may be replaced and put back between any two of the reads.
* Declarations, imports, native headers, layouts and limits only refuse
  (`Refuse`), which may also happen after the publication.

## 3. Runs, and what they show

| run | instance | distinct states | shows |
|---|---|---|---|
| `smoke` | two processes, costs 1 and 2, an identified and an unidentified bypass at any moment | 1.3 M | nothing is sent twice, out of order or before its record; only billed attempts settle; the account is conserved, bounded and covers the bill; the numbered journal; completion is clean; `OneShotChain` |
| `smoke_handler` | two invocations over one `/tmp`, evidence limit 10 | 297,852 | every response is accepted by the inspection and true of the money |
| `parent_invocation` | two operators, one id | 3.5 M | one invocation; nothing claims more than is on disk; a client left open is reported; `OneShotChain` |
| `router` | five plans: hard reservations over all three routers, practical ones with usage that may be missing, a verification, one too dear, one no longer frozen | 1.2 M | the bill stays under the cap; the journal covers it; files and exit code are true; the run concludes |
| `request_path` | two requests, batches of up to two cases, one rebuild | 279,752 | failures surface and only they do; evidence of one build unless a rebuild overlaps a load; every request is answered |
| `visa_migration` | two operators, a verify, a rollback, a rebuild, two seconds | 849,754 | nothing is overwritten without a backup; the original can be restored; rows and vectors belong together |
| `observation_capture` | two captures of one output, three planned reads, four moments | 1.8 M | reads leave once and in order; index and status say what is on disk; `OneShotChain` |
| `live_smoke` | two starts of one `RUN_ID`, four calls, a Bedrock bill of one unit above its reservation | 74,436 | the ledger is the bill; journal and result agree; `OneShotChain` |
| `lambda_package` | two runs, two sources, one wheel, two edits, two exchanges | 2.4 M | one state of the sources, the locked wheels, a success that is the run's own |
| `router_usage` | the hard plan with missing usage | | violated, see section 7 |
| `visa_backup` | `visa_migration` | | violated, see section 7 |
| `live_settle` | one start, bills within the reservations | | violated, see section 7 |

Each property of a passing run has a mutant: a definition of the model changed
as a plausible bug would change the code (the operator beside it, marked
"Mutant"), with which TLC finds the property violated.

The properties, in one line each:

* `RecordedBeforeSend`: before a request leaves, its attempt is whole on disk,
  and so is the usage of every earlier model stage.
* `SettledIsBilled`, `Conservation`, `CeilingSound`, `SpendCovered`: the account
  of money.  `SpendCovered` has the policy's own premise: a request whose usage
  never came back cost no more than the pinned price evidence allows
  (`PriceBoundHeld`).
* `JournalNumbered`, `CompleteIsClean`, `ImplementsChain`: the journal, the
  meaning of completion and the refinement.
* `InspectorAccepts`, `CertainIsExact`, `EvidenceNamesAttempts`: the handler
  and the operator agree; a verdict other than UNCERTAIN is exact about money
  and comes with its journal.
* `DurableBeforeSend`, `IndexIsBacked`, `AssociationIsBound`, `LauncherTruth`
  (which includes `OpenClientReported`: past the `finally` clause an open client
  has a constructed transport, and it, like a lost one, is never in a run
  reported COMPLETE), `ImplementsOneShot`: the parent.
* `BilledWithinCap`, `OvershootIsOneCall`, `JournalCoversSpend`,
  `LedgerSettled`: the benchmark's money.  `OvershootIsOneCall` is about what the
  ledger commits; where usage may be missing the bill may pass the cap by more.
  `ResultTruth`, `EvidenceNeverReplaced`, `Concludes`: its files, its exit code
  and its end.  `EvidenceNeverReplaced` protects journals from everybody, what
  this invocation wrote from everybody, and what it found from itself; a file it
  found that has no journal beside it may be written over by a dry run.
* `AnswersHonest`, `AlignedUnlessOverlap`, `EveryRequestAnswered`: the request
  path.  The second has a premise, and needs it: `build_index.py:126-134` and
  `retriever.py:99-106` use the same two local files, and the bucket's pair is
  replaced in two steps, so that a rebuild beside a load can pair the vectors of
  one build with the rows of another, for the rest of the process's life.
* `LedgerTruth`, `EvidenceCoversSends`, `CompletedIsExact`, `ImplementsChain`:
  the live smoke.
* `SnapshotBound`, `WheelsBound`, `SuccessIsOurs`: packaging.  The last has two
  halves: success means the run's own package, and no step replaces what is at
  the output, a file of another program included.
* `OriginalRecoverable`, `NothingLost`, `RowsAligned`: the
  migration.  The first two have the premise `DistinctKeys`, that no two
  operators computed the key of their backup in the same second; without it
  they are false, which is the finding `visa_backup`.  `NothingLost`: what the
  write of `execute` replaces is in a backup, or was made from what is in one.
  `RowsAligned` is about `execute` and the rebuild: a rollback after a rebuild restores the rows of
  the old build beside the vectors of the new one, as the code checks only the
  metadata it wrote.
* `EarlierKept`, `ReportTrue` (which includes `IndexTruthful`),
  `ImplementsReads`: the capture.

Where a run's list has no type invariant, the first safety property of its module
includes it.

Things the models made plain, which are right and easy to get wrong:

* A second invocation over the same `/tmp` answers STOPPED /
  RUN_ALREADY_CLAIMED, whatever the first one spent: the answer speaks of its
  own policy object only.
* `index.json` may say COMPLETE where the caller was told
  INTERRUPTED_UNINDEXED: a write that fails after its bytes are there.  The
  launcher never says COMPLETE in that case (`LauncherTruth`).
* A claim that could not be written is retained and blocks every later attempt.
* A client stays open when an exception or an interrupt arrives after
  `ParentTransport` was built (`operator.py:1258`) and before `invoke_once` enters
  its `try` (`live_adapter.py:747-753`): the consumer closes only where
  `transport is None`, following the comment at `operator.py:1358-1359` that a
  constructed adapter owns closure, and nobody calls that adapter any more.  Such
  a run is reported INTERRUPTED, never COMPLETE (`OpenClientReported`).
* The journal, not the artifact, is what keeps a dry run from writing over a live
  artifact: `cli.py:210` opens with `w` for a dry run, which cannot get there while
  the live journal stands beside it.
* If the consumer's own close raises an unexpected exception and nothing else
  was wrong, `consume_adapter` leaves without an index; the other files stay.
* `record_extra_request` has no caller in production code: the bypasses of the
  run `smoke` are the contract the tests use, and the behaviours without one, a
  part of the same run, are the deployed ones.
* The migration compares its backup with the bytes it read, and conditions its
  write on an ETag older than those bytes.  Both are needed: a rebuild or a
  second operator between any two of its calls is caught by one or the other.
* An interrupt between `reserve` and the assignment of its result leaves the
  live smoke's ledger holding a reservation nobody settles: too much, which is
  the safe side.
* A packaging run may report FAILED although its package is published: the stage
  is removed and the result printed after `os.link`.  The first half of
  `SuccessIsOurs` therefore goes one way only.
* `inspect_wheel` hashes the bytes it reads and then opens the path again
  (`lambda_package.py:295-299`).  A wheel exchanged in between is caught by the
  byte comparison with what pip installed from a copy that was hashed once more;
  a preflight has no such comparison, and its sizes may be those of another
  wheel.

### Why the bounds are enough

Every safety property of a passing run is also a theorem (section 5), which holds
for every value of the constants.  What follows says why the instances are large
enough for TLC to meet the interesting cases, which the mutants and the liveness
properties depend on.

*SmokePolicy.*  All five stages are there, so every order and omission of them
is.  A router reservation of 2 and caps of 3 give each case of the money: a
router that costs less leaves room for the generation, one that costs all of it
exhausts the cap, embedding and generation may overrun.  Two processes are
needed for a claim that is found; a third meets nothing new, as nothing of a
second one survives.  A third build or send in one call repeats the second.
One observed digest can be new, and then seen before; a bypassed request costs one
unit, as nothing was reserved for it and every positive cost is alike.  The
theorems of section 5 hold for all amounts, caps, costs and restarts.

*SmokeHandler.*  The same instance, with a bypassed request that cannot be
identified; an evidence limit of 10 lies above a complete
journal (claim, five attempts, three usages, completion) and below one with
blocked sends, so that both sides of the limit occur.

*ParentInvocation.*  Two operators are a winner and a loser of `mkdir`; the code
does not distinguish a second loser.  A failed write may leave any file
unusable, and five files (`Late`) whole all the same: the claim, the marker, the
response, the index and the receipt, which are those whose presence somebody
later acts on.

*RouterBench.*  The schedules interleave the three routers so that each stop
condition (budget, an exceeded reservation, a harness error, a first failure, a
router that failed in a row) happens with calls of the others still to come, at a
call, at the last call and before the first.  `InfraLimit` is 2 instead of the
code's 3, which happens within fewer calls.  The request cap equals the number of
planned calls, in the code and in the model, and therefore never binds.

*RequestPath.*  Two requests are what a shared file and a shared global need: one
that loads while the other loads, searches or has the old pair in hand.  A third
meets nothing that one of two has not left.  Batches of two give a case after a
failed one; one rebuild gives two versions.  The four exceptions lead to the four
kinds of status an error has.

*LiveSmoke.*  Two cases give a first and a last call of each provider.  The caps
fit the plan exactly, so that an overrun is felt.  Two processes are a winner and
a loser of `mkdir`.

*LambdaPackage.*  Two sources beside the requirements give one read before and
one after an edit, two edits a tree between two others; a wheel exchanged and put
back is one that every check could miss.  The theorems hold for all bounds.

*VisaMigration.*  Two operators are enough for one to overwrite what the other
read, backed up or wrote; a third one meets the states a second one leaves.  One
rebuild is enough for a version that is neither the original nor the migrated
one, and for a pair that does not belong together; one rollback for a version
that comes back under its old ETag.  Two seconds give both keys that collide and
keys that do not.

*ObservationCapture.*  Three planned reads and the account check give a first
read, a last one and two in between, which is where the two clients are made and
reused.  Four moments are what four reads need to be accepted, and every shorter
or backward sequence is among the choices.  One foreign file may appear under
any name; a second one would only fail a second write, which may fail anyway.

## 4. Fairness

Two modules state fairness.

`RouterBench`: `WF_vars(Step)`, `main` goes on as long as it can.  It is a single
thread, both clients have connect and read timeouts and no retries, and every
other step is local.  `Interrupt` and `Other` are not fair, and `Concludes`
allows them.

`RequestPath`: each request is weakly fair on its own, `WF_vars(Serve(r) /\
Observed)`.  It has a thread of the pool, the clients of Bedrock, Jev and S3 have
read timeouts and a bounded number of attempts, and it takes no lock, so that it
is always its own turn.  The rebuild is not fair.

The other modules are safety only: their processes may die at any moment and
nothing in the code retries on their behalf, so that nothing but "either it ends
or it was killed" could be said.  Deadlock is not checked in any run, because
each program ends.

## 5. Proofs

Each `*Proofs` module proves one theorem per property, named after it (`...Holds`,
or what the theorem says).  All have the same shape.  `IInv` is the inductive
invariant; a lemma per action shows that the action keeps it, with one step per
part it can disturb; `Inductive` puts them together; a safety property follows
from `IInv` in one state, an action property or a refinement from `IInv` and one
step.  Each invariant was run with TLC on the instance of section 3 before its
proof was begun.

The assumptions are the named `ASSUME`s of the modules, which TLC evaluates on
every run.  They give the constants their types, exclude empty plans and say that
the most a call may cost is no less than its reservation; none says that a
reservation covers a cost, that a cap is large enough, or that a number is small.

### The smoke policy

`SmokeProofs` proves of `SmokePolicy`, for every reservation, ceiling,
request cost, set of evidence digests and number of restarts:

| theorem | states |
|---|---|
| `Inductive` | `[]IInv` |
| `TypeCorrect` | `[]TypeOK` |
| `JournalIsNumbered` | `[]JournalNumbered` |
| `ExposureIsConserved` | `[]Conservation` |
| `CeilingIsSound` | `[]CeilingSound` |
| `SettledAttemptsAreBilled` | `[]SettledIsBilled` |
| `SpendIsCovered` | `[]SpendCovered` |
| `CompletionIsClean` | `[]CompleteIsClean` |
| `RecordedBeforeSendHolds` | `[]RecordedBeforeSend` |
| `ChainIsOneShot` | `ImplementsChain` |

Assumptions: the four named ones of `SmokePolicy` (reservations and caps are
positive naturals, costs are naturals, at least one run).  Nothing assumes that a
reservation fits a cap or that a request costs what was reserved for it.

The invariant.  None of the properties is inductive: `SettledIsBilled` says
nothing of the permit that is about to be settled, `CeilingSound` nothing of
what a settlement releases.  `IInv` is `Control /\ Accounts`:

* `Control` = `TypeOK`, `Phases` (what each `pc` implies of the claim, the
  journal length and the flags: a process that is not halted has nothing
  unestablished, no violation and no extra request), `Permits` (the permit
  belongs to the stage in turn, and counts one send at most unless the policy
  halted) and `JournalNumbered`.
* `Accounts` = `Ledger` (what an attempt holds, by the place of its stage
  relative to `position`), `Sends` (the same for what left the process, which
  is where the claim makes restarts harmless), `Bills` (charges known equal the
  bill; nothing is settled unsent), `Conservation` and `CeilingSound`.

One lemma per action shows that it preserves `IInv`; actions that touch only a
few variables share `QuietKeepsAccounts`.  `Balance` is the arithmetic of a
settlement, in all the ways one can go.  The safety theorems then follow from
`IInv` in a state, and `ChainIsOneShot` from `IInv` and one step (`ChainStep`:
an approved send is `Deliver` of the permit's stage, leaving `activate` or dying
is `End`, everything else stutters).

`RecordedBeforeSend` speaks of the files, which `IInv` only counts.  `Recorded`
adds what the process relies on before it sends: the record of the attempt in
flight, and the usage of each stage it has passed.  Steps that only append
to the journal share `Plain`.

### The handler and the inspection

The same module proves of `SmokeHandler`, whose steps are those of the policy and
the handler's own, for every number of invocations over one `/tmp` and every
limit of the evidence (`MaxEventsAssumption`):

| theorem | states |
|---|---|
| `InspectorAcceptsHolds` | `[]InspectorAccepts` |
| `CertainIsExactHolds` | `[]CertainIsExact` |
| `EvidenceNamesAttemptsHolds` | `[]EvidenceNamesAttempts` |

The invariant of the handler is
`IInv /\ Books /\ Overruns /\ Places /\ Answered /\ ReadBack`:

* `Books` is what a verdict needs to know of the policy and `IInv` does not say.
  `Owned`: the object that holds a journal wrote all of it.  `Chronicle`: each
  attempt and settlement was written.  `Charges`, `Extras` and `Bypassed`: a
  charge or an extra request that is not known to the unit leaves its stage
  unestablished, and with nothing unestablished the extra charges are the bill.
* `Overruns`: no record in the journal of an object says overrun unless its
  coverage is violated.  Each step of the policy either writes no such record or
  marks it in the same settlement.
* `Answered` says that status, code and result are consistent in the inspector's
  sense from the moment the policy is left; the clauses of `handler()` that come
  later (close, snapshot, size) each keep it.
* `ReadBack`: an answer that is not uncertain read its journal back in full.

`SameDoubt` is the heart of `InspectorAccepts`: the operator's derivation of
uncertainty, from the accounting in the response, and the handler's, from its
policy, are equivalent in *every* state, not only in those that respond.

### The package

`LambdaPackageProofs` proves of `LambdaPackage`, for every set of runs, number of
sources, set of wheels and number of edits and exchanges:

| theorem | states |
|---|---|
| `PackageIsASnapshot` | `[]SnapshotBound` |
| `PackageHoldsLockedWheels` | `[]WheelsBound` |
| `SuccessMeansOwnPackage` | `SuccessIsOurs` |

Assumptions: the three named ones of `LambdaPackage` (at least one source and one
wheel, no run called like nobody or the other tool, natural bounds).

The invariant.  `SnapshotBound` speaks of a package that exists; what makes it
true happened long before.  `IInv` is `TypeOK /\ OutInv /\ \A r : RunInv(r)`,
and `RunInv` follows a run through its places:

* `Pending` says which inputs or wheels may be left to do at each place;
* `Reading` that what was read so far is not ahead of the tree (edits only raise
  a content), and that the tree of now is among the run's;
* `Separated` that some tree `t` of the run's time lies between what was read and
  what is there, input by input: the tree of the moment the first reading ended.
  It is the argument of the double collect: an input that reads the same again
  had that content in `t`, so that when all have been confirmed, what was read
  *is* `t` (`Snapshot`);
* `Installed` and `Owned` carry the comparison with the installed files and the
  authorship of the output past the link.

One lemma per action shows that it preserves `IInv`; those that change one run
share `Update` and `Others`, those that end it `Ended`, and `StillSeparated`
moves the tree `t` along with the second reads.

### The parent's invocation

`ParentInvocationProofs` proves of `ParentInvocation`, for every set of operators
and of `Late` files, in both modes (`TailModeAssumption`):

| theorem | states |
|---|---|
| `DurableBeforeSendHolds` | `[]DurableBeforeSend` |
| `IndexIsBackedHolds` | `[]IndexIsBacked` |
| `AssociationIsBoundHolds` | `[]AssociationIsBound` |
| `LauncherTruthHolds` | `[]LauncherTruth` |
| `InvocationIsOneShot` | `ImplementsOneShot` |

The invariant.  `Claim` says that one process at a time can be in the directory,
that nothing is there before it is made, and that a process outside of it has
done nothing: it reduces the proof to one process.  For that process, `Backing`
carries through its places what it has listed and may therefore say (a `clean`
run has all of `Raw`, a `judged` one all of both), and `Wired` how often the hooks
approved.  The delicate parts are the `finally` clauses: a defect that propagates
still publishes, and `Backing` has to say of `final` that a run which was judged
had a clean wire, whatever raised.  `Reported` follows an open or lost client from
there: its run has failed already, so that the index and the return say so.
`Launched` keeps what was printed true after its process is gone.

### The router benchmark

`RouterBenchProofs` proves of `RouterBench`, for every plan that satisfies
`IsPlan` (`PlansAssumption`) and every positive limit of errors
(`LimitAssumption`):

| theorem | states |
|---|---|
| `BilledWithinCapHolds` | `[]BilledWithinCap` |
| `OvershootIsOneCallHolds` | `[]OvershootIsOneCall` |
| `JournalCoversSpendHolds` | `[]JournalCoversSpend` |
| `LedgerSettledHolds` | `[]LedgerSettled` |
| `ResultTruthHolds` | `[]ResultTruth` |
| `EvidenceNeverReplacedHolds` | `EvidenceNeverReplaced` |

The invariant.  `Money` adds to the ledger what is `Due` between a call and its
settlement, so that bill and ledger can be compared at every place.  `Carried`
bounds the bill by the number of calls that were made: each bill raises it by one
call's most and the set of made calls by one, with the cardinalities of the
library's finite sets.  `Progress` is what makes "complete" true although the
code only compares two numbers: as many records as calls are a record of *every*
call, because each round of the loop adds one at most (`Entire`).  `Output`
carries the verdict through artifact and exit, and says that an artifact of this
invocation has its journal beside it, which is what keeps others from it.

### The request path

`RequestPathProofs` proves of `RequestPath`, for any number of requests, size of a
batch, number of rebuilds (`RequestsAssumption`) and set of exceptions
(`RaisedAssumption`):

| theorem | states |
|---|---|
| `AnswersHonestHolds` | `[]AnswersHonest` |
| `AlignedUnlessOverlapHolds` | `[]AlignedUnlessOverlap` |

The invariant.  `Stores` and `Sound` hold whatever overlaps: no part of a pair is
missing where it is used.  `Undisturbed` and `Aligned` hold as long as nothing
overlapped: how far a rebuild got, and that every load under way reads the build
that stands.  Requests share the files, so that a load of one writes what
another reads; that this does no harm without a rebuild is the conjunct
`temp.index = built`, for all of them at once.

### The Visa migration

`VisaMigrationProofs` proves of `VisaMigration`, for every set of operators,
verifies and rollbacks, every number of rebuilds and of seconds
(`DisjointAssumption`, `BoundsAssumption`):

| theorem | states |
|---|---|
| `OriginalRecoverableHolds` | `[]OriginalRecoverable` |
| `RowsAlignedHolds` | `[]RowsAligned` |
| `NothingLostHolds` | `NothingLost` |

The invariant.  `Seen`: no version of a build to come exists, so that what a
rebuild publishes is new to every ETag.  `Ordered`: without a rollback builds only
go up, and an ETag that still matches therefore covers bytes of its own build.
`Safe`, under `DistinctKeys`: `Held(m)`, some operator that is past its copy has
`m` in its backup, which nobody will touch again; whatever is migrated, live or
in a backup, was made from something held; and a version that comes back under an
old ETag is the bytes that were read under it, or held.

An earlier form of `NothingLost` asked that the version which is replaced be in a
backup itself.  It holds of the instance that TLC checks and cannot be proved,
because it is false: with three operators, three seconds and a rollback, a
migrated version is replaced that no backup holds, since another operator made
the same version again from the same original, under the same ETag.  Nothing is
lost by it.  The property now says what matters: the version, or what it was made
from, is in a backup.

### The observation capture

`ObservationCaptureProofs` proves of `ObservationCapture`, for every set of
captures, length of the plan and number of moments (`PlannedAssumption`):

| theorem | states |
|---|---|
| `EarlierKeptHolds` | `[]EarlierKept` |
| `ReportTrueHolds` | `[]ReportTrue` |
| `ReadsAreOneShot` | `ImplementsReads` |

The invariant.  `Sole` reduces the proof to the capture that made the directory;
`Filed` ties its two lists to the directory; `Progress` says that each read `Had`
is one that was sent, kept and timed after the one before.  `Placed` follows a
read through its places: what was accepted so far (`Judged`), and what the index
is about to say (`Turned`).  `Concluded` is the part about the status, which is
decided before the index is written and has to be unsaid if that write fails.

### The live smoke

`LiveSmokeProofs` proves of `LiveSmoke`, for every set of processes, number of
cases (`RunsAssumption`), reservation, greatest bill and caps
(`MoneyAssumption`):

| theorem | states |
|---|---|
| `LedgerTruthHolds` | `[]LedgerTruth` |
| `EvidenceCoversSendsHolds` | `[]EvidenceCoversSends` |
| `CompletedIsExactHolds` | `[]CompletedIsExact` |
| `RunIsOneShot` | `ImplementsChain` |

The invariant.  `Alone` reduces the proof to one process.  `Books` says at each
place of a call which of ledger and bill is ahead, and by how much (`Between`,
`InCall`, `Answered`, `AfterCall`); `Track` which lines of the journal a call
has; `Verdict` what the run says of itself.  That no reservation is ever refused
(`PlanSuffices`) needs `WithinPlan`: as long as nothing overran, what the calls
so far have taken is at most their reservations, and the check of the whole plan
did the sum.  The interrupts inside `settle` and `reserve` leave the loop, so that
of the books only `BillCovered` has to survive them.

## 6. Only model-checked

* `Concludes` of `RouterBench` and `EveryRequestAnswered` of `RequestPath`:
  liveness under fairness is outside what TLAPS can prove, and so is `ENABLED`.
* The three runs of section 7, which show a violation: there is nothing to prove.

Every other property of a run is a theorem of section 5.  What neither shows is
the step from the code to the model: the map in `PROJECT.json` and the mutants are
there for a reader to judge it.

## 7. Findings

* `router_usage` (a bug).  A Bedrock reply without usage makes
  `record_converse_usage` record a call with both token counts `None`;
  `HaikuRouter.route` adds them up as zero, so the cost is a *known* $0, and
  `Ledger.settle` releases the whole reservation.  `safety.py:152-153` and
  `config.py:55` promise the worst case when usage is unknown.
* `live_settle` (a bug).  `ExactLedger.settle` gives the reservation back before
  it charges anything and marks it settled last.  A `KeyboardInterrupt` in
  between reaches the `except` clause with the reservation still in hand, which
  settles it again: the reserved amount becomes negative, and the exposure that
  journal and result report is below the bill, although `live_smoke.py:131` says
  that unknown outcomes retain the full reservation.  `LedgerTruth` bounds the
  error by what one call may cost, and shows that the run does not go on.
* `visa_backup` (a bug).  The backup's key has a resolution of one second and
  `copy_object` overwrites: two operators that reach that line in one second share
  it.  One of them migrates; the other's copy, made after the first one's check,
  replaces the original under that key with the migrated metadata.  It fails
  afterwards, and the backup that the successful migration reported is gone
  (`migrate_visa_source.py:366`), though the runbook says that it stays in place
  and that a rollback with it restores the original metadata.

## 8. Not modelled

* The grammar of inputs: configurations, plans, prices, requests, prompts,
  reports, log lines, lock files and archives.  Each validation is a choice
  between acceptance and the exception it raises, in the order the code makes it.
* `simulate` and its `SendGate`: an offline sibling of `consume_adapter` over the
  same protocol, without a client to own.
* `inspect_logs`; release preflight and saved records: pure functions from bytes
  to a verdict, most of their code comparisons of named fields.
* Reviewer protocol v2 (`experiments/reviewer_protocol_v2/`): offline tooling of
  a study.  Each function takes records, compares their fields and returns or
  raises; nothing is kept between calls and nothing runs beside it, so that a
  model would say the same as the code, line by line.
* `scripts/candidate_package.py`: a sequential writer of one archive.
  `experiments/jev_candidate/smoke.py`: an offline comparison over fixed answers.
* The benchmark's metrics, frozen payload and simulated clients: statistics over
  the records, a template, and stand-ins for what the model leaves to chance.
* The evaluation harness: scoring formulas and sequential I/O.
* The text the models produce, HTTP and the frontend.

## 9. Plan

In order of what matters most; all items exist.

1. `SmokePolicy` with `OneShotChain`, run `smoke`.
2. `SmokeHandler` over `SmokePolicy`, run `smoke_handler`.
3. `SmokeProofs`, about both.
4. `ParentInvocation` with `OneShotChain`, run `parent_invocation`, and its proofs.
5. `RouterBench`, run `router`, and its proofs.
6. `VisaMigration`, run `visa_migration`, and its proofs.
7. `ObservationCapture` with `OneShotChain`, run `observation_capture`, and its
   proofs.
8. `RequestPath`, run `request_path`, and its proofs.
9. `LiveSmoke` with `OneShotChain`, run `live_smoke`, and its proofs.
10. `LambdaPackage`, run `lambda_package`, and its proofs.

What could follow: the consequences of `OneShotChain` (at most one send in a
lifetime) stated once and inherited through the four refinements; which parts of a
store may differ after an overlap of a rebuild and a load, as theorems instead of
an excluded case; a property of `rollback`'s write, which has no `If-Match`.
