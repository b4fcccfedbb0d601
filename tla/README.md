# Ahmed Agent: a verification project

TLA+ models of the agent's server (`src/*.py`: a Starlette/FastMCP process over a
PostgreSQL database), the TLC runs that check them on small instances, and the
properties proved of them for every instance with TLAPS.

    tlc -config RunSafety.cfg MCRunLifecycle.tla      one run
    tlapm RunLifecycle_proofs.tla                     one module's proofs

## 1. The system

One owner talks to one agent over HTTP. The process is a single asyncio event loop
per worker, and several workers (or a restarted one beside a suspended one) share
the database. Nothing is shared between requests in memory except a few module
globals (the pool, the schema flag, caches, counters); the state that matters is in
PostgreSQL, and almost every concurrency question is *which statement of which
request commits when, and what a request does that sees an error although its
transaction committed* (`command_timeout = 30`, `persistence_core.py`).

| Component | Code | State it keeps | Operations | Interacts with |
|---|---|---|---|---|
| Run lifecycle | `server.chat_message`, `run_state.py`, `persistence_runs.py`, `persistence_events.py` | `agent_runs` (status, checkpoint stage, recovery state, worker, lease), `agent_messages`, the heartbeat task | create, checkpoint, append, finish; renew lease; scan for orphans; resume: claim, complete the tail, release | model providers (one call), audit chain (events in the same transactions) |
| Audit chain | `persistence_audit._append_audit_event`, `verify_audit_chain` | `audit_events`, the advisory lock, the id sequence | append inside any business transaction, verify a window | every writer below |
| Pending actions | `persistence_audit.py`, `server.approve_action`, `reject_action`, `agent_runtime.test_sensitive_action` | `pending_actions` | create with an idempotency key, approve, claim, complete, reject, expire | audit chain |
| Runtime alerts | `alerting.py`, `persistence_runs.persist_runtime_alert_evaluations`, `server.alerts_runtime` | `runtime_alerts` | measure, judge, transition per rule, all rules in one transaction | audit chain, run metrics |
| File ingestion | `my_files.ingest_document`, `persistence_docs.py`, `server.files_upload` | `original_source_blobs`, `original_sources`, `documents`, `document_chunks` | check hash, store source, store document, embed; compensate on failure | embedding provider |
| File retrieval | `my_files.search_my_files`, `_hybrid_results`, `persistence_docs.py` | none (reads) | full-text search, vector search, reciprocal rank fusion | file ingestion |
| Model providers | `agent_providers.py`, `agent_runtime.run_ahmed` | health of each provider (status, 429 streak, cooldown) | attempt, retry, fall back | run lifecycle |
| Tool calls | `agent_runtime._build_agent`, `_reflect_on_tool_failure`, `policy.py` | failure notes and evidence envelopes of an attempt | concurrent calls of a round, their events, timeouts, retry prompts | all the tools |
| Web search | `skill_tools.py`, `search_fabric.py` | keys disabled for the life of the process, Brave's counters | queries in batches, budget, ranking, extraction, Brave beside or after Tavily, fusion | Tavily, Brave |
| Academic search | `academic_search.py` | health of each registry | intents, DOI resolution, OpenAlex and its citation graph, merge of records | Crossref, DataCite, OpenAlex, doi.org |
| GitHub search | `github_search.py` | health, quota of the two buckets | routing, one request with retries | GitHub |
| Owner authentication | `auth.py` | failure window per client | authorize, throttle | audit chain |
| Pool and schema | `persistence_core.py` | `_pool`, `_schema_ready`, `_schema_lock`, the task that builds the full-text index | first use, DDL, background build | all persistence |
| Retention | `persistence_runs.cleanup_retention` | deletes old checkpoints and test scopes | preview, clean | run lifecycle, audit chain |
| Doctor | `doctor.py` | cached report | collect | all |
| Evidence, routing, evaluation | `agent_evidence.py`, `request_routing.py`, `eval_*.py`, ... | none, or JSON files | pure functions and scripts | |

What is hard about them: two handlers, or a handler and a recovery, drive one
row (`finish_run` is not fenced by worker); statements that commit and are
reported as failed; a process that dies between two statements of one request;
leases that lapse under a live worker; rows that cannot be locked because they do
not exist yet; locks of three kinds (row, advisory, pool connection) held together;
compensations that race with other uploads; measurements that are stale when they
are written; one word of success that answers for several providers, one of which failed;
tool calls of a round that share a memory and may be cut anywhere; a cleanup of many
statements, without foreign keys, beside a recovery of the runs it deletes. `PROJECT.json` lists each of these at its line under `hazards`.

What makes each component correct: a run's model is called once, its answer stored
once, and what the owner was told of it stays true; the audit table is one chain
that only grows at its end; an action is executed once, after an approval given in
time; a rule's alert events form episodes; a file reported as stored is kept with its
original, once per content; a search tells an outage from an absence, merges what is one
work and nothing else, and stays within its budget; a request meets the whole schema or an
error; a cleanup takes all of a resting test run and nothing of any other.

## 2. The modules

| Module | Models | Role |
|---|---|---|
| `RunContract` | what the owner is promised about one run | abstract specification |
| `RunLifecycle` | chat handler, heartbeat, orphan scan, resume handler over `agent_runs` and `agent_messages` | refines `RunContract` |
| `AuditChain` | concurrent transactions that append audit events | |
| `PendingActions` | tool calls, approvals and rejections over `pending_actions` | |
| `Alerting` | overlapping polls over `runtime_alerts` | |
| `Ingest` | upload requests over sources, blobs and documents | |
| `Providers` | the health of the model providers and the attempts of `run_ahmed` | |
| `HttpRetry` | the bounded retries of one HTTP request | used by the searches |
| `RankFusion` | reciprocal rank fusion, in exact integers | used by web and file search |
| `Orders` | finite sets as lists, in a given order | used wherever the code sorts or filters |
| `ToolCalls` | concurrent tool calls of one attempt and their failure memory | base of the searches |
| `WebSearch`, `AcademicSearch`, `GitHubSearch`, `FileSearch` | the function behind each search tool | extend `ToolCalls` |
| `SearchTools` | every tool of an attempt at once | composes the five |
| `Requests` | the requests one process handles | base of the next three |
| `Startup` | pool, schema, background index | |
| `OwnerAuth` | the throttle of failed attempts | |
| `Retention` | cleanups against runs being written, recovered and growing old | |
| `Housekeeping` | a request from arrival to answer, and restarts | composes the three |
| `MC*` | small instances of the above | |
| `*_proofs` | theorems and their proofs | |

One convention runs through all of them. A transaction of one statement or of one
locked row is one action, because its isolation makes it one; a handler is a `pc` that
goes from one awaited transaction to the next. A transaction ends `"ok"`, `"err"` (it
rolled back) or `"lost"` (it committed and its caller sees an error); the last two are
counted by `faults`, bounded by `MaxFaults`. A crash leaves the database as it is and
takes the handler away. Operators under a comment `Mutant:` are plausible
bugs of the definition that follows them; each is there to show that a property can fail.

**RunLifecycle.** `row[r]` is the `agent_runs` row; `status`, `stage`, `recovery`,
`worker` are its columns and `lease` abstracts `lease_expires_at` into null, fresh,
aging and lapsed, so that only the order of renewals and expiry counts (`LeaseAges`,
`LeaseLapses`). `batches` counts appended answers, `calls` model invocations. A chat goes
`new -> context -> starting -> model -> answered -> append -> appended -> finish ->
completing -> done`, one action per awaited statement of `chat_message`; `mem` is the
stage its in-memory `RunState` holds, which checkpoints may fail to write
(`save_checkpoint` errors are logged and forgotten). The heartbeat is `beat` and
`HeartbeatRenews`. Resumes read a stage, claim, count messages, and complete or release.
With `Stalls` a process can be suspended, or a checkpoint delayed, for longer than a
lease.

**AuditChain.** A transaction works through rows in order: it locks a business row, takes
the advisory lock, reads the newest hash, inserts; it holds everything to its end. Ids
come from a sequence and are consumed by aborted transactions. A hash is the term it is
computed from, so collisions are excluded. `Accepts` is `verify_audit_chain`'s loop.

**PendingActions.** Each function of `persistence_audit.py` locks the row and commits its
audit event, so it is one action, except the approval: its `NOW()` is fixed when the
transaction begins (`BeginApproval`) and used after it has waited for the row.

**Alerting.** A poll reads metrics and verifies the chain in two statements, then walks
the rules in one transaction (`Select`, `Upsert`, `Commit`, `Abort`). One tick is 15
minutes. `Judged` is `_severity_for_value`, thresholds as fractions compared exactly.

**Ingest.** Requests ingest their files in order; each file is `check, create, store,
tell, embed, mark`, with `undo` after a failed `store_document` and `yield` after a lost
race. `delete_original_source` is two actions: under READ COMMITTED its look for other
sources of the blob may be stale when it commits; then the foreign key refuses it.
`database` says whether the unique index and the vector column exist, both being optional
in the code.

**Providers.** Nothing is stored and there is one event loop, so the code between two awaits of
`run_ahmed` is one action: the precheck (`Refuse`, `Start`), the top of the loop (`Ask`), what follows
a call (`Answer`, `FallBack`, `BackOff`, `Break`) and what follows the await of a switch or sleep when no
iteration is left (`RunOut`). `health` is `_provider_states`, shared by all runs; `cooling` abstracts
`rate_limited_until` against the clock. `provider_health` writes what it reads: `Refreshed`
is applied wherever the code calls it, and its other readers are `ReadHealth`. The doctor reads all
providers at once, which is several `ReadHealth` steps.

**ToolCalls.** The model asks for a round of calls, which run at once; `at[c]` is `work`, `record`
or `done`. A call's last step, after its last await, writes `notes`, the number of failure notes that stand for a
signature, from which `_reflect_on_tool_failure` counts; `TimesOut` cuts it anywhere before, with no note. `ends` is
a history against which the count it tells is checked.

**WebSearch.** `web[c]` is where a search stands: its queries go in batches of `Parallel`; the
credits of replies that told any are compared with `Budget` after a batch; hits are ranked,
read by at most two extractions, and grouped with Brave's one by one (`Home`, `Grouping`) and ordered by the shares of `RankFusion`. A page is a record of
what the ranking looks at (canonical url, site, how near its title is to another, priority,
whether it is safe to open); the marker lists that give a question its mode are
part of what is asked.

**AcademicSearch.** An intent decides the chain of requests. A DOI is asked of doi.org for its agency, then
of the registry the agency names; other intents ask OpenAlex and Crossref. Works come
back raw, each spelling its DOI in its own way; `CrossrefResult` and `OpenAlexResult` normalise them as the two
parsers do (Crossref's notices are what a work updates, OpenAlex's are retractions), `MergedRecords` groups them by
normalised DOI, else the provider's id, else title, authors and year, and chooses each field as
`merge_academic_results` does; `Conflicts` is its `metadata_conflicts`, who says what of a field the members
disagree on. The answer is the first `max_results` of the merged records (`FirstOf`).

**GitHubSearch.** `Endpoint` is the routing of `search`, `Bucket` the quota an endpoint draws on. Late
answers are ordinary steps: `Kept` is what an answer's headers leave of the bucket's note.

**FileSearch.** Two queries, each of which may fail or be skipped, while documents change status
between them; `FusionIsFair`'s counterpart here is `ExcerptsAreFair`.

**Startup.** `pc[r]` follows a request through `_get_pool` and `_ensure_policy_schema`, one action per
awaited statement under `_schema_lock`; `task` is `_fts_index_task`. `ProcessDies` forgets the globals and leaves the
database; a build under way is cut and leaves its index invalid, or PostgreSQL finishes it. That PostgreSQL goes on
building beside the next process is not modelled.

**OwnerAuth.** An attempt is one step, as `authorize_owner` does not await between its look and its
note. `age` is time since the last failure in units of the first delay, `TooMany` the count whose power of two
overflows a float.

**Retention.** A cleanup is its statements in order (`DeleteOld`, `SelectRuns`, `DeleteRows` of each table,
`DeleteRuns`, `DeleteSessions`, `Commit`); `txn` holds what it has locked and deleted and not
committed. Chats and recoveries are the calls of `persistence_runs.py` that write the same rows. Two
simplifications: a statement takes its row locks at once, and waits only for rows other
cleanups delete (a cycle ends by `RollBack`, as the database aborts one of it); the ages of checkpoints
grow only while a run is at rest. The lock of the audit chain is `AuditChain`'s.

**Housekeeping.** `Arrive` is `authorize_owner`, after which the audit event and the handler's first
query both go through `Startup`; then the handler is `Retention`'s. `Restart` ends every request.

## 3. The runs

| Run | Instance | Shows |
|---|---|---|
| `RunSafety` | 1 run id, 2 chats, 2 resumes sharing one recovery worker id, stalls, 2 faults, symmetry | `ModelCalledOnce`, `SucceededIsPersisted`, `AcknowledgedIsDurable`, `ConclusionIsFinal`, and every step is a step of `RunContract` |
| `RunLiveness` | 1 chat, 2 resumes, 1 fault, no stalls, fairness | a beating worker keeps its run; every run settles; an orphaned run with a stored answer is finished |
| `Audit` | 4 transactions (checkpoint, auth event, two alert polls over two rules), 3 connections, 1 abort, fairness | linear chain, contiguous transactions, tampering detected for every window size, no cycle of waits |
| `Actions` | 1 key, 2 tool calls, 2 approvers, 1 rejecter, 2 faults, fairness | the trail tells the story, nothing starts late, an approval is executed unless something failed |
| `Alerts` | 2 polls, 2 rules, 3 facts, 1 tick, 1 change, 1 fault, fairness | episodes, spaced repetitions, no silent rise, alerts catch up with the facts |
| `AlertUnmeasured` | 1 fault | violated: a poll that measured nothing records a recovery (finding) |
| `Uploads` | 3 requests, 6 files of 4 contents (three of the same), 2 faults, all four databases | stored files are kept, one document per content, races settle by themselves, answers are true of every file of the batch |
| `UploadOriginal` | 1 fault | violated: a committed document loses its original (finding) |
| `Fallback` | 3 runs, 2 providers, 1 retry, a circuit that opens at 2 429s, fairness | READY is below the threshold, recovery is earned, no run goes back to a provider, every run ends |
| `Searches` | 2 calls at once, 15 plans of one to three rounds, every tool; lists of up to two hits or works; 2 retries, budget of 2 credits, quotas of 2 and 1 | the failure count is honest, an outage is never silent, spending, fair rankings, faithful merges, GitHub's quota, DOI ownership |
| `DoiOutage` | as `Searches` | violated: a DOI whose registry cannot be reached is answered NOT_FOUND (finding) |
| `Housekeeping` | 2 requests and 1 of the past, 6 casts, 2 sessions (one of a probe), 2 clients, 1 restart, delays capped at 2, fairness | schema first, answers stand, refusals are earned, test runs at rest leave nothing, the rest is spared, every request is answered |

Why the bounds are enough to see the cases. The tables have no constraint that relates
two runs, two keys or two contents, so one of each (several contents in `Uploads`, for
batches) carries every interaction; it takes two chats to repeat a run id, two resumes
to share a recovery worker id, and one fault to separate a commit from its
acknowledgement. A second fault lets a compensation or a recovery fail as well. In
`Audit`, three connections are fewer than the writers, and two polls take the same rows
in the same order. In `Alerts`, two overlapping polls suffice for a stale write, and a
tick puts a repetition on the exact end of a cooldown; the rules chosen are a counting
one and a rate with a sample size. In `Uploads`, three uploads of one content give a
winner, a loser, and an upload that checks in between; 25 to 33 steps deep, the runs end by
exhausting the state space. In `Fallback`, one retry is the smallest number that separates
a last attempt from a first, and three runs let a mark, an answer and a cooldown fall
between two steps of one run. In `Searches`, two
calls are the smallest round with an interleaving; a plan brings calls of one tool together, because
calls of different tools share only the failure memory, which the plans of mixed inspections exercise. The pages
hold one page under two urls, near titles on one site (a likeness that is not
transitive), a primary source and an unsafe url; the works every spelling of a DOI, a
missing title, a work without any identifier, and one DOI of which Crossref says that it updates another and OpenAlex
that it is retracted; `max_results` is less than the works that two lists may bring. In `Housekeeping`, each cast pairs the requests that meet in one place: a chat
in a probe's conversation or not beside a cleanup of test data, two cleanups on a
new database, the owner and a stranger at the same host and at another, and two cleanups of test data that meet on a run
left by a process that died. That run is the third request, answered before the behaviour starts (`Past`); the
two cleanups and its recovery wait for each other on its rows, in a circle too, which ends by `RollBack`. In the other casts nothing is left of it. `MaxDelay` 2 and `TooMany` 3 put the doubling,
the cap and the overflow a few failures apart. The run takes its schema from the start of a new
database only in the cast of two cleanups of different kinds; in the others the process has served before, which keeps the product
of both state spaces out.

`Uploads`, `Fallback`, `Searches` and `DoiOutage` switch deadlock off because their requests come to an end; nothing else stops.

### Fairness

* A handler that has not been killed goes on: weak fairness of each chat, resume and
  client step. Statements return or time out (`command_timeout`), and provider calls have
  timeouts, so no await lasts for ever.
* The lease ages, because time passes; the heartbeat runs, because the loop is live.
* `ScanOrphans`, resumes, approvals and polls are requests of the owner: the liveness
  properties are about an owner who keeps asking, which the code leaves to the owner.
* Strong fairness of audit transactions and polls: they wait for PostgreSQL locks
  and pool connections, both served first come first served, so one that can go on infinitely
  often does. Aborts, crashes and lost answers have no fairness.
* Strong fairness of each request in `Housekeeping`: `asyncio.Lock` and PostgreSQL's row locks are first come
  first served, and the event loop runs whatever can run. Arriving, asking again, time and restarts have none.
  `Searches` has no liveness property: its calls end by `tool_timeout` whatever else happens.

## 4. What is proved

TLAPS checks these for every value of the constants, under the assumptions the modules
name: disjoint request kinds, recovery worker ids that differ from chat worker ids, types
of the bounds and, for the searches, what the code guarantees of their inputs (next to the theorems below).
Nothing is assumed of the number of runs, requests, faults, tool calls or pages. Every safety
property a passing run checks, invariants and action properties alike, is a theorem.

**`RunLifecycle_proofs`.** `TypeCorrect`, `RowAlwaysConsistent` (inductive as it stands over
the types), and the three evidence properties `ModelCalledOnceAlways`,
`SucceededIsPersistedAlways`, `AcknowledgedIsDurableAlways`. None of the three is inductive: a
finish writes "succeeded" because of where its handler is, not because of what the row
says. The invariant `Evidence` adds what each position implies: `ChatProgram` (how far the run
has come at each `pc` of a chat), `ResumeProgram` (what a resume read or counted remains
true until it uses it: stages of a run with a stored answer are never rewritten to
claim one that is not), `SoleDriver` (the primary key lets one chat drive a run),
`DeliveredIsQuiet` (nothing drives a run whose answer was delivered) and
`AbsentIsUntouched`. It is proved preserved action by action.

Three more theorems rest on it. `ConclusionsAreFinal` and the refinement `ContractIsImplemented` classify
every step once (`Kinds`): it accepts a run, invokes its model, saves its answer, concludes it, delivers
it, or is quiet; each kind is an action of `RunContract` or a stutter under the mapping (`AcceptedRuns` to
`DeliveredRuns`). `ConclusionIsFinal` asks one thing more while no statement has failed, that
a conclusion is never replaced by another, so `FaultFree` carries that a chat on its way
to fail has no stored answer, which is what a recovery would succeed with; `AnsweredIsDone` says that a chat that was answered has nothing left to do.
`HeldWhileBeatingAlways` has the hypothesis `~Stalls` (no process is suspended
for longer than a lease), without which the property is meant to fail; `HeldInv` extends
it to the moment between the insert and the first renewal, because a lease granted there is what the heartbeat starts from.

**`AuditChain_proofs`.** `TypeCorrect`, `ChainIsAlwaysLinear`, `HistoryAlwaysGrowsAtTheEnd`,
`TransactionsAreAlwaysContiguous`, `TamperingIsAlwaysDetected`. For the first three the
strengthening says that buffered events continue the table's chain for the holder of the
lock only, that ids below the sequence are used up, and that the hash a transaction read is
still the newest while it holds the lock. Contiguity needs `RecordInv`: an open transaction's events are its
own and name pieces it has done (`OwnEvents`), and it holds one for every piece that requires one (`WorkDone`), so
that what it commits is whole. Detection is about sets of events of any size, whose
linear order would call for induction; instead `LadderInv` keeps that the table has a newest event below and
an oldest above each of its events, and from the neighbours of the row that was changed,
or removed the verification of a window is shown to fail.

**`PendingActions_proofs`.** `TypeCorrect`, `TrailAlwaysTellsTheStory`, `NothingEverStartsLate`,
`AlwaysOneActionPerKey`, `SettledAnswersAlwaysHold`. They rest on one lemma, `StepsAreLegal`:
every step moves each status along the graph pending -> approved -> executing -> executed, pending ->
rejected, pending -> expired, and extends the trail by the event of that edge.

**`Alerting_proofs`.** `TypeCorrect`, `RisesAreAlwaysAnnounced`, `EpisodesAreAlwaysWellFormed`,
`RepetitionsAreAlwaysSpaced`. `AlertInv` says of what is not committed that it was computed
from the row that is stored, as long as the row's lock has been held since (`Based`), and of the log that the row
stands at the end of its last episode (`InEpisodes`). The last two have the hypothesis `Stored`, that the rules' rows
exist already: `SELECT ... FOR UPDATE` locks nothing otherwise, two first polls may both open an
alert (`OpensOnce`, section 5), and the log is then no sequence of episodes. A rise is announced even then.

**`Ingest_proofs`.** `TypeCorrect`, `StoredFilesAlwaysKept`, `AlwaysOneDocumentPerContent`, `AnswersAlwaysTrue`,
`RacesAlwaysSettle`. The argument is local (`StepIsLocal`: no request writes another upload's rows) except for
the blobs: `Kept` says what each position of `ingest_document` has written, what each
result means, that sources have their blob (the foreign key refuses the one delete that
would break it) and by which results a request was answered. `Settled` adds what holds
while nothing has failed: a loser's source is removed only when the winner's document,
and hence its source, exists, so a blob never goes with it.

**`Providers_proofs`.** `TypeCorrect`, `ReadyAlwaysBelowThreshold`, `RecoveryAlwaysEarned`, `RunsNeverGoBack`, for
any number of providers, runs and retries. `Honest` is kept provider by provider, because every
mark goes through `Marked`, `Blamed` or `Refreshed`; that no run goes back needs that a run that
has not started has asked nobody.

**`Housekeeping_proofs`.** `Invariance` (the inductive invariant), `TypeCorrectness`, `SchemaComesFirst`, `NothingIsLeft`,
`TheRestIsSpared`, `AnswersAreKept`, `RefusalsAreEarnedAlways`, for any number of requests,
sessions, clients and restarts. The first part is about `Retention` alone: what one step of a cleanup, a chat or a recovery does to the
rows. Two cleanups never hold the same run (`HoldsItsRuns`), what is going
bears the id of a run held or is a checkpoint past its age (`TakesItsOwn`), and a run chosen at rest stays at
rest, with nothing left in the tables passed (`RestingGo`): the lock on its row keeps a recovery from
taking it up, and after the commit there is no row to take up. For the schema it says what each `pc` under the
lock has made, that `lock` is the one request in the DDL, and that the build never runs beside it, because it is
started in the step that makes the schema ready; `ServedAnswersStand` follows from who may
write `vectors` and `index`, and from what the build knows of its index when it creates it. For the throttle it relates `failures` and `age` to `wrong`, the last wrong
token.

**`SearchTools_proofs`.** `TypeCorrect`, `FailuresAreCountedHonestly`, `QuotasAreAlwaysGitHubs`,
`OwnershipIsAlwaysProven`, `OutagesAreNeverSilent`, `SpendingIsAlwaysBounded`,
`MergesAreAlwaysFaithful`, `RankingsAreAlwaysFair`, for any plans, pages, replies, limits and numbers of calls.
A step of one search is for the others and for the tools a step that works, records, times out or
starts the next round (`ToolSteps`), so `SearchInv` is a conjunction kept part by part:

* `ToolInv`: the notes of a signature are as many as its failures since it last succeeded, in the
  history `ends`;
* `GitHubInv`: a figure that is under way is one GitHub gave for the bucket of what was asked;
* `AcademicInv`: the owner named beside a record has answered with it, and nothing is said of a DOI
  while it is being resolved;
* `WebInv`: what is known to be spent, and what was found, ranked and extracted; a loop that goes on has credits
  left, and the replies of a batch cost at most `Parallel * Max(Costs)` (`SumsAre`, by counting a table);
* `FileInv` and `AnswersRest`: an answer that is a result has its evidence beside it.

Three invariants are kept beside it, because they say what the pure parts of the searches compute:
`MergeInv` (of the records of a search in any order), `FairInv` (excerpts) and `FusionInv` (web hits). They rest on lemmas
about the operators: a finite set in a total order is a list without repetitions
that keeps the order (`OrderedList`), shares fall with ranks (`SharesFall`), a merged
record is one of a work's group (`MergedIs`), the key of a record tells one work from another (`IdentityTells`), what a
merged record says is what its members say (`MergedRecordIs`), a sort by score, class, rank and url that is stable is a total order
(`StableOrderIs`). The grouping of web hits is a recursive function: that after every hit the
groups are each of one site, share no url and house every hit so far (`GroupsFit`) is shown
by the least hit after which they are not (`GroupedFits`), as is that the recursion
has a solution at all (`GroupingIs`).

What these assume of their inputs: priorities of pages are distinct and a canonical url names its site
(`PageAssumption`: `normalize_url` keeps the host, and the site is the host without its www); a provider's list is no longer
than the ranks there are shares for, and a share divides the score evenly (`CatchAssumption`, `FusionAssumption`:
scores are fractions in the code, and integers scaled to a common multiple here); a search asks for
at least one result (`ResultAssumption`, `ExcerptAssumption`, `IntentAssumption`: `max_results` has `ge=1`); a chunk is known by its document and
index (`ChunkAssumption`: chunks are numbered as they are cut), and no more chunks exist than there are ranks; what a provider lists has the fields of a work (`CatalogueAssumption`).

Only model-checked: the liveness properties `EveryRunSettles`, `OrphanedTailIsFinished`, `EveryTransactionEnds`,
`ApprovedIsExecuted`, `AlertsCatchUp`, `EveryRunEnds` and `EveryRequestIsAnswered`, because fairness and ENABLED
are out of the prover's reach.

## 5. What the code does not keep

Each finding has a run that shows it.

* `AlertUnmeasured`: metrics that could not be read are judged as healthy and close an alert.
* `UploadOriginal`: a `store_document` that committed and lost its acknowledgement is taken for
  a failure, and the original is deleted under a searchable document.
* `DoiOutage`: `DOIResolver.resolve` answers NOT_FOUND whenever the registry the agency named gave no
  record, an outage of it included, and the tool returns that to the model as a fact.

Three more properties are stated in the modules and violated, and no run repeats them; add
`INVARIANT` and the name to the configuration in brackets to see the trace.

* `HitsAreDuplicates` (`Actions.cfg`): `create_pending_action` looks the row up after inserting it, so every
  keyed call is logged as a deduplicated hit.
* `OpensOnce` (`Alerts.cfg`, with `Stored = FALSE`): `SELECT ... FOR UPDATE` locks nothing for a rule without a
  row, so two first polls both open the alert.
* `BlamedWasAsked` (`Fallback.cfg`): the loop ends after its last fallback, so the provider switched to is
  never asked, and it is the one the error names and whose circuit opens.

Noted while modelling, without a property:

* The heartbeat stops before the answer is stored, so a recovery may own the run its first worker
  still writes (`docs/ARCHITECTURE.md:83`: "Run leases identify the active worker.").
  `SucceededIsPersisted` and `ImplementsContract` hold in exactly these behaviours.
* A stored checkpoint stage may skip stages or stay behind, because a failed
  `save_checkpoint` is only logged; the properties above hold all the same.
* An open circuit is not looked at again between the precheck and the call; an error that is not
  a 429 replaces RATE_LIMITED by ERROR, which lets later runs through; a provider in ERROR
  is no fallback until a run that asks for it by name is answered.
* A text file of no bytes passes validation, raises `ValueError` in `create_original_source`
  and is answered 500.
* Two compensations of the same content that overlap may both leave the blob, each seeing the
  other's source.
* An action whose completion failed stays `executing` (`ApprovedIsExecuted` names this exception).
* Web search: a question too long for Tavily still goes to Brave in DEEP mode; one transient failure of
  Brave disables it until the process restarts; `providers_used` always lists tavily, and a left over `error`
  stays in a merged answer that is ok; Brave's count of requests, which is cumulative, is added to
  each answer; credits of extractions understate when one is unknown; FAST may answer ok with an empty list when
  every url is unsafe.
* Academic search: a title that Crossref's parser fills in with the DOI wins over OpenAlex's real one,
  and the two are reported as a conflict. Of several notices the first becomes `update_status`, so Crossref's "this
  updates another work" may take the place of OpenAlex's "retracted", which then stands among the conflicts only.
* GitHub: a 404 marks the health ERROR, which academic search ignores; `ok` is true of an answer
  although a provider failed.
* Retention: what a test run in progress writes after a cleanup has passed its table is left for good; so is
  a run created between the look for empty sessions and their deletion; a test session that
  never had a run is not deleted; `ensure_session` keeps the scope, so a chat in a probe's conversation counts as
  test data.
* Startup: first callers that find no pool each create one, and all but the last leak; a build cut by its
  timeout leaves an invalid index until the next process.
* Throttle: `2 ** (failures - 1)` is taken before the cap, so after 1024 failures each attempt is
  answered 500 until fifteen minutes have passed; clients behind one proxy share a key.

## 6. What is not modelled, and the plan

What is left to do, in order: the refinement of a search to a specification of its answer alone; chunking,
against the promise that the chunks cover the text; the deletions of an evaluation's documents
beside uploads. Theorems worth adding to those of the runs'
properties: the safety half of the liveness properties, that a wait always has a holder who can go on (audit
transactions that take several rows take them in one order, and none that holds the lock of the chain waits
for a row of one that waits for it),
and the refinement above once it is stated.

Not modelled, and why:

* the doctor, original source reads and evidence inspection only read; that reading a provider's health writes
  it is `ReadHealth` in `Providers`, and what a tool does with an inspection's outcome is in `ToolCalls`;
* request routing and the marker lists of questions and pages are keyword sets without state: a
  model of them would restate the sets;
* the evaluation harness and the benchmarks are sequential scripts over files, run by hand against the
  service; `cleanup_evaluation_run` is theirs;
* chunking, and the MCP server's page fetch, which keep no state;
* the cache of model clients, and requests for a provider that is not configured, which raise at once.

Left out for good: prompt texts and configuration constants (no state), pure I/O
(HTTP and JSON shaping), the content of messages and files, PostgreSQL itself beyond the locking and isolation the code relies on, and SHA-256 collisions.
