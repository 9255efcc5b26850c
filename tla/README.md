# A TLA+ verification of dq-made-easy

dq-made-easy manages data-quality rules, groups them into Great Expectations
(GX) suites and run plans, dispatches their execution to workers, and keeps the
results. This directory holds TLA+ models of the parts of it where several
processes share state, TLC configurations that check them on small instances,
and TLAPS proofs for every instance.

## Inventory

| Component | State it keeps | Operations | Talks to |
|---|---|---|---|
| GX dispatch API (`application/use_cases/gx_dispatch*.py`, `services/gx_queue_service.py`, `api/v1/gx_start_api.py`) | none of its own; requests in flight | schedule a suite, dispatch a grouped scope, ad-hoc list of suites, start a caller-executed run | run store, Redis ready list, heartbeat key |
| Run store and report endpoint (`postgres_gx_execution_run_repository.py`, `postgres_dq_result_event_repository.py`, `gx_report_api.py`) | run rows (status, `completed_at`), DQ result events | create run, status transition, record event | PostgreSQL; called by workers over HTTP |
| GX dispatch worker (`dq-engine/gx_dispatch_worker.py`, `gx_dispatch_api.py`) | ready and processing lists, heartbeat key, the message in hand | start, recover, claim, process, acknowledge, report a failure, clean up, exit | Redis, report endpoint, Spark |
| GX dispatch execution (`gx_dispatch_dispatch.py`, `dq_plan_execution_*.py`) | a Spark session | progress reports, evaluation, terminal report | report endpoint |
| Join-pair materialization worker (`join_pair_materialization_worker.py`) | its own two lists and heartbeat | materialize a join, forward the dispatch | ready list of the GX worker, report endpoint |
| Run plan governance (`gx_run_plans.py`, `gx_run_plan_governance.py`, `postgres_validation_run_plan_repository.py`) | plans, versions and their states, approvals | create, version, validate, transition, activate, deactivate, record dispatch | dispatch API, approvals |
| Rule lifecycle and approvals (`endpoints/approvals.py`, `_postgres_rule*.py`, `update_rule.py`, `activate_rule.py`) | rules, versions, requests, suites in the artifact registry | create, edit, roll back, test, remove, recover, activate, request, decide, repair | contract service, artifact registry |
| Profiling queue and worker (`profiling_*_service.py`, `dq-profiling`), with the queued test-data generation | request rows, Redis records, two lists | enqueue, pop, report | Redis, API |
| Natural-language draft queue (`natural_language_draft_*.py`, `endpoints/data_catalog.py`) | a row, a Redis record and an event stream per request, a list | enqueue, process in a thread of the API, board decision | Redis, PostgreSQL, language model |
| Connector sync worker (`connector_sync_worker.py`, `connector_sync_jobs.py`) | a job table | enqueue, cancel, claim, retry | PostgreSQL |
| Test-data materialization (`test_data_materialization_*`) | Redis record and two lists, files, delivery notes | admit, reuse, write files, report | object store, Redis, API |
| Kafka delivery and consumer (`kafka_client.py`, `dq-kafka-consumer`) | producer buffer, topic and offsets, stored objects | publish, flush, poll, write, commit | Kafka, object store |
| Incidents (`endpoints/incidents.py`, `postgres_incident_repository.py`) | incidents with comments, lock, history and ticket; root cause suggestions | create, change, comment, lock, decide, ask for assistance | ticket system, mail |
| Delivery-linked execution, exception facts, contracts and metadata | projections and stored documents | reads and writes of one request | PostgreSQL |
| Compiler and lowerers, expectation evaluation | none | pure translation; calls to Spark and Trino | - |
| UIs, CLI, Airflow operator and SDK, gateway, identity, LLM, infrastructure | - | - | clients of the API, or third-party products |

What is hard here. The API, the workers and Redis fail independently. A dispatch
is a row in PostgreSQL and a message in Redis written one after the other with
no transaction. All workers share one processing list, one ready list and one
heartbeat key. A failed call may have taken effect. A worker that dies is
restarted and puts everything in the processing list back, so messages are
delivered more than once, and the run store accepts any status over any other.
The status of a run also gates later dispatches (409), so a status that is never
set, or set too late, refuses work. The other queues follow the same pattern,
each with other gaps: a destructive pop, a processing list nobody reads, two
stores for one status, a row lock without a second look. The handlers of
incidents write back whole rows they read earlier.

What makes each component correct:

* *dispatch API*: at most one active run per plan (per suite without plan); an
  accepted dispatch has a message; a rejected one runs only by an ambiguous push;
* *run store*: a report is recorded once; a terminal run is reopened only by
  redelivery;
* *dispatch worker*: in-flight work is recoverable, nothing is acknowledged
  before it was executed or its failure recorded, every accepted dispatch ends;
* *join-pair worker*: a job is forwarded or its run recorded as failed;
* *run plan governance*: one version in force per plan, and never again once it
  was retired; the last recorded run is one of the version in force; a run that
  went out is for a version that came into force or can no longer do so;
* *rules*: a rule in service was approved since it last left service, its row
  shows its current version, a removed rule stays as it is, and the deactivation
  of one rule takes no other out of execution;
* *other queues*: a request leaves its queue only in a final status, and what is
  lost is explained by a fault;
* *materialization*: completed means delivered, delivered means whole;
* *violations*: what is counted is in the topic, what is in the topic is stored,
  once;
* *incidents*: the history tells how the record came to be as it is.

`PROJECT.json` lists the hazards at their lines.

## Modules

| Module | Models | Run |
|---|---|---|
| `GxDispatch` | dispatch API, run store, Redis lists, dispatch workers | `two_workers`, `one_worker` |
| `JoinPair` (extends `GxDispatch`) | the join branch of the dispatch and the ETL worker before it | `join_pair` |
| `RunPlanGovernance`, `PlanInForce` | plans, versions, approvals, dispatches; what they promise together | `run_plan` |
| `ProfilingQueue` | profiling and test-data requests, their worker | `profiling` |
| `DraftQueue` | natural-language drafts and definition tasks | `drafts` |
| `RuleLifecycle` | rules, requests, suites | `rules` |
| `ConnectorSync` | the job table and its workers | `connector_sync` |
| `Materialization` | test-data requests, files and delivery notes | `materialization` |
| `ViolationStream` | producer, topic, consumer | `violation_stream` |
| `IncidentRecord` | the record of an incident | `incidents` |
| `RootCauseReview` | the review of a root cause suggestion | `review_threads` |
| `RunPlanGovernanceProofs`, `RootCauseReviewProofs`, `RuleLifecycleProofs`, `IncidentRecordProofs`, `MaterializationProofs`, `DraftQueueProofs` | theorems about the module they are named after | - |
| `GxDispatchProofs` | theorems about `GxDispatch`, and about `JoinPair`, which extends it | - |
| `QueueProofs` | theorems about `ConnectorSync`, `ProfilingQueue` and `ViolationStream` | - |

`MC...` modules name the small instances. Left of the plan: an abstract run
lifecycle which `GxDispatch` implements under redelivery. Every safety property
a run checks is a theorem.

## The dispatch model (`GxDispatch`)

A run id stands for the request, the row and the message: the API mints one id
and uses it as `queue_message_id`. What the properties do not tell apart (the
payload, who asked, progress percentages, metrics, diagnostics, violations) is
left out.

| Variable | Code |
|---|---|
| `row` | `gx_execution_runs.status` and whether `completed_at` is set |
| `events` | `dq_result_events`, whose id is made of run and terminal status |
| `req` | how far the API handler of each request got |
| `ready`, `processing` | Redis lists `dq-gx:execution-dispatch` and `...:processing`; the head of the sequence is the left end |
| `pc`, `msg`, `fatal` | position of each worker in `run_worker_forever`, its `raw_message`, and whether `_should_fail_closed_worker` holds for its exception |
| `heartbeat` | existence of the heartbeat key |
| `executed` | history: runs whose `process_dispatch_message` returned |
| `crashes`, `faults` | the bounds' counters |

Four kinds of run: `suite` (through `enqueue_scheduled_gx_suite_run`), `engine`
(the same, for an engine other than gx, whose worker branch always raises),
`grouped` (`create_grouped_scope_gx_run`, which does not mark the row when the
push fails) and `handoff` (`start_suite_run`: a row for the caller to execute,
with no message and no checks).

API actions. `CheckHeartbeat`, `CreateRun` (conflict check and insert, between
which nothing is awaited on Redis, so that in the single uvicorn process the
entrypoint starts they are one step), `CreateRunRaises`, `Push` and `PushRaises`
(asyncio client, then sync client, each of which may fail after its push
landed), `MarkEnqueueFailed`, `StartSuiteRun`, `ExternalReport`, `ApiCrash`, and
`Purge` for the database reseed scripts that leave Redis alone.

Worker actions follow the loop line by line: `StartWorker`, `Recover` and
`RecoveryFails` (one RPOPLPUSH each), `Claim` and `ClaimReplyLost`,
`ReportProgress`, `ProgressRaises`, `ExecutionRaises`, `Finish`, `Ack`,
`AckRaises`, `ReportFailure`, `ReportFailureRaises`, `Cleanup`, `CleanupRaises`,
`Crash`, `WriteHeartbeat`, and `HeartbeatExpires` for the key's time to live.
The report endpoint commits the transition and then the event, so a report that
fails has three outcomes (`ReportErrorEffect`), and a repeated terminal report
is refused after it changed the row (`ReportRefusedEffect`).

Outside the model: messages without a run id (the API never sends one; the
worker would leave it in the processing list), the join-pair branch of a suite
dispatch (`JoinPair`), and the ad-hoc endpoint's list of suites, which is a
sequence of suite dispatches and stops at the first that fails.

### Runs

| Run | Instance | What it shows |
|---|---|---|
| `two_workers` | 2 symmetric workers, a grouped and a suite dispatch of one plan, 1 crash, 1 fault | `OneFreshRunPerObject`, `PendingRunIsQueued` |
| `one_worker` | 1 worker, a grouped, a non-gx and a caller-executed run, 1 crash, 1 fault, a reseed, `FairSpec` | `RunningRunIsAttended`, `InFlightMessageIsRecoverable`, `OnlyRefusedMessagesStranded`, `AcceptedDispatchIsHandled` |

* `OneFreshRunPerObject`: if two runs of one plan (or of one suite without plan)
  are active, one of them had already completed and was reopened by a redelivered
  message. The unqualified claim is false, because the run store accepts
  `running` after `failed`.
* `PendingRunIsQueued`: a dispatch answered "accepted" and still pending is in
  one of the two lists. It survives stealing and foreign acknowledgements because
  whoever removes a copy has first moved the row out of pending.
* `RunningRunIsAttended`, `InFlightMessageIsRecoverable`: EDR-007's recovery
  promises for one worker. For two the second fails: see the disagreements below.
* `OnlyRefusedMessagesStranded`: what a polling worker leaves in the processing
  list is refused by the report endpoint, but for one message per lost call.
* `AcceptedDispatchIsHandled`: every accepted dispatch is executed, or its
  failure is recorded as an event, unless a call is lost.

The bounds `MaxCrashes` and `MaxFaults` limit how often a process dies and how
often a call between processes fails. One of each gives a crash during the
redelivery of a message that a lost call left behind; an outage that makes both
Redis clients of one push fail counts as one fault. With two dispatches one can
wait for, or be reordered against, the other. Two workers give 1.7 million
states, and the theorems cover the rest. `JoinPair` has the reseed of dispatched
runs.
Deadlock is not checked: when every request was answered and every worker waits
in BRPOPLPUSH the system may stop.

Fairness (`FairSpec`): a worker's steps with its restart, and the steps of the API
process, each as one weakly fair disjunction. Requests, crashes, faults and the
heartbeat are not fair.

## The join-pair model (`JoinPair`)

A join dispatch goes to a list of its own, from where an ETL worker is to land
the joined data and then push the dispatch to the list of the GX worker. The
module extends `GxDispatch`: the run rows, the report endpoint, the crashes and
the faults are those of that module, its other actions stay in `JoinNext` (with
the caller-executed runs, `StartSuiteRun` and `ExternalReport`, for the runs that
are not joins), and
the new variables are the second pair of lists, the ETL worker and its heartbeat.

`JoinCheckConflict` and `JoinCreateRun` are two actions, because the handler
awaits the second worker's heartbeat between them. `BuildJoinedDataframe` always
raises: `_apply_actuality_date_pre_filter` calls `_resolve_optional_bool_env`
with one argument too many on its first line, whatever the flag. The statements
behind it are unreachable at this commit and have no action. `JoinAck` is the
LREM of the `finally` clause, which comes also after a lost failure report.
`JoinCrash` is a kill, or the SIGTERM of `docker compose stop`, for which the
worker has no handler; Ctrl-C at a terminal, which would run the LREM with the run
still active, is left out.

`join_pair`: 2 join dispatches of one suite, one with a sound contract and one
without, 1 ETL worker, 1 crash, 2 faults, a reseed. `UntraceableRunCostsALostCall`
counts accepted active runs that are in no list against the lost calls, so that
two faults show that one of them never costs two runs; `JoinDispatchSettles` says
that an accepted join does not stay active unless a process dies or a call is
lost. No process ever recovers the ETL workers' processing list, so the second
cannot be had after a crash.

## The run plan model (`RunPlanGovernance`)

One plan, its versions, the approvals that ask for a version to be activated or
deactivated, and the requests that dispatch a run of a version. A handler runs
on the API's single event loop and reaches PostgreSQL synchronously, so it is
one action up to its next await of Redis. Activation and replay await Redis
twice, for the worker's heartbeat and for the push, and are three actions each:
`StartActivation` or `StartReplay`, `CreateRun`, `FinishActivation` or
`FinishReplay`. Every other handler can run in the two gaps.

| Variable | Code |
|---|---|
| `plan` | `validation_run_plans`: `status`, `current_active_version_id`, `last_dispatched_run_id` |
| `ver` | `validation_run_plan_versions`: `governance_state`, `validation_status`, `review_status` |
| `apr` | `approvals`: version, type and status; `future` when `effective_at` has not come, `audited` when the audit row `<id>-u` exists |
| `op` | an activation or replay request: how far it got and the version it read |
| `live` | the runs of the plan in an active status, which the conflict check sees |
| `faults` | the bound's counter |

* Versions: `CreatePlan`, `CreatePlanVersion`, `Validate` (two transitions in one
  handler), `TransitionGovernanceState`, `RequestApproval` (transition and
  approval row) and `RequestApprovalFails` (the row cannot be written; the way
  back is allowed by the table for an inactive or active version and not for a
  draft).
* Approvals: `CreateApproval` (POST, which does not look at the plan),
  `EditApproval`, `DecideApproval` (the effect on the plan is committed before
  the checks that may refuse the decision, hence `Recorded` decides only what
  happens to the approval row), `DeleteApproval`, `EffectiveTimeReached`.
* Dispatch: the actions above, `DispatchRefused`, `PushRaises`, `RunEnds`,
  `ApiCrash`.

Who acts is not part of the state: the code asks only whether the actor is the
requester, which is the parameter `self`. The dispatch pipeline behind
`CreateRun` is `GxDispatch`; here a run is active or not.

`run_plan`: 2 versions, 1 approval, 3 requests, 1 fault; it checks
`OneVersionInForce`, `LastDispatchIsOfCurrent`, `PlanStatusMatchesVersion`,
`DispatchedVersionIsDecided` and the refinement `KeepsPlanInForce`. Activation and
replay push their run before they look at the version again;
`DispatchedVersionIsDecided` says what an unrecorded run then means: its version
was cancelled for good or had been put in force by another request, and no later
transition makes it activatable again. Nothing is claimed about validation and
review, because the columns `validation_status` and `review_status` do not show
that either took place (see the disagreements). Versions, approvals
and requests are symmetric model values. Three requests are the fewest in which a
replay is overtaken by the activation of another version. The approval slot is
reused after a deletion, so one slot bounds the rows that exist at once and not
their number over time. The rest is covered by the theorems, which hold for any
constants. No fairness is assumed: all properties are safety properties.

## The queue models

### `ProfilingQueue`

Requests come by three routes: `enqueue` (conflict check, row, push), `catalog`
(row and a push to `bull:data-profiling:wait`, which no process reads) and
`testdata` (a scan for an active record, an await, a Redis record that expires, a
push). The worker pops destructively and reports `started`, which is outside its
`try`, then the result. `store` holds a request's status and whether it ended
before; `recent` the 24-hour window of the conflict check; `queue` and `bull` the
lists; `req`, `pc`, `msg` the positions of the handlers and workers.

The route decides which store a request has (`IsTestData`), the `type` in its
message which branch the worker takes (`AsTestData`). For an enqueue request `type`
is a field of the client's body that nobody checks, so `Enqueue` picks it. An
enqueue request that says `test_data_generation` (`Mislabelled`) names no record;
the worker drops it before any status call (`Recordless`, `BeginRaises`), its row
stays pending with no failure anywhere, and its source is refused from then on. The
two properties about lost and ending requests are therefore about requests whose
type fits their route; `OneFreshRequestPerSource` is about all.

Left out: an enqueue request without `data_source_id`, which the conflict check
skips, and a client-chosen `profiling_request_id` that is blank or padded, which
the worker strips and then does not find.

`profiling`: two enqueue requests and one of each other kind for one source, one
worker, 2 failures (crashes and lost calls together). `OneFreshRequestPerSource`
is the conflict check under redelivery; `LostRequestCostsAFailure` counts vanished
requests whose type fits against failures, and two failures are the fewest that show the count;
`EnqueuedRequestSettles` needs that no failure happens, as the pop leaves no
trace. Fairness: the handlers' steps, the worker's steps and its restart.

### `DraftQueue`

A request has a row, a Redis record that expires, and an event stream. The thread
in the API process writes them one after the other with three different
treatments of errors (`StoreMark`, `PublishMark`, `TryUpdateRow`), and a board
decision (`Decide`, `SaveRecord`, `SaveRow`) writes back the record it read.
A handler blocks the event loop and not the thread, hence `Serving`.

`drafts`: a draft and a definition task, 2 failures. The three invariants count
requests whose stores differ, that vanished, or whose end was not announced,
against the failures; `AcceptedDraftSettles` covers records that expire while
their job waits. A suggestion or an import that the work leaves elsewhere is not
part of the state.

### `ConnectorSync`

The job table as committed transactions: a worker's claim holds the row lock
until its outcome commits, so a second claim of the same job or a cancellation
waits (`contended`, `FinishCancel`) and then writes without looking again, because
the claim has no `SKIP LOCKED` and the cancellation no condition. The sub-select's
snapshot and the row lock of a claim are one step: a cancellation that commits
between the two is left out. After a
retryable error the worker sleeps outside any transaction and then makes the job
pending. `retry_count` is compared and never increased by the worker, so retries
have no bound in the model either. `_load_connector` splits `module:Class` at the
last dot and always raises at this commit; the model keeps all outcomes, as the
registry may hold another form.

`connector_sync`: 2 jobs, 2 workers, 2 faults. `JobEnds` is a leads-to under the
premise that from some time on no job is retried; without it the oldest job
starves the others.

### `Materialization`

Admission (two lengths against two limits), the decision to reuse what is there,
the record, the push, and the worker's cycle: wipe a location, upload file by
file, ask the API for the delivery notes, record, acknowledge. `store` holds the
files at each location; `torn` marks a note written while the location did not
hold a whole dataset; `partial` records that expired and were recreated with the
worker's fields alone, which `Report` must not take for a request. `Beneath` and
`Inside` relate locations whose keys are prefixes of each other.
`BatchAssumption`: within one request no target is wiped together with a later,
different one. `default_materialization_output_uri` names the directories of a
batch after the versions they hold, with the same segments behind the name.

`materialization`: 3 requests over 2 sibling locations (one with a delta table, one
in two files), 1 worker, 2 faults. With two workers `WorkerDeliversWhole` fails,
see below; `LeftoverCostsAFault` is the reason why the in-flight limit can fill up
for good. `RequestSettles` excludes stopped processes, an unreachable Redis and
expired records (`halted`), and not the failures of storage and reports.

### `ViolationStream`

A publisher checks, sends, flushes every `SendBatch`, reports the number of its
violations to the API and flushes once more when it stops; the producer delivers
in order or drops. The consumer gathers a batch over several polls, writes it and
lets the client commit: a poll commits the position of the poll before when the
interval has passed (`due`), the close commits the position. One partition, one
consumer. The consumer's database writer is not an action: its statements use the
column name `offset`, which PostgreSQL reserves, so it stores nothing and logs.

`violation_stream`: one run with three violations and one with an invalid record,
one signal, one fault of any kind. `failed` remembers the kinds, and each property
excuses only the kinds that explain its failure. Fairness: processes run on, the
container is restarted, every wait has a deadline (weak); a poll returns what
there is again and again (strong, as `EndPoll` disables it in between).

## The rule model (`RuleLifecycle`)

`row` has a rule's flags, status words, text and current version; `versions` its
history; `requests` the approvals; `artifacts` the registry's versions of each
suite; `edits` the `update_rule` calls that passed their check and wait for the
contract service. Every other handler blocks the loop until it ends and is one
action, with a cut between two commits where an error may end it (`faults`).
`Peers` are rules that stay in service and share a suite with the rule.

`rules`: 1 rule, 1 peer, 1 shared suite, 2 users, 3 versions, 2 requests, 1
rollback, 2 suite versions, 1 fault. Two requests allow an old decision next to a
new request, three versions an edit that overtakes a rollback. The premise of
`ActiveRuleWasGranted` (written inactive, not rolled back) excludes the two ways
around review that the disagreements below describe. `ActiveRulesStayCovered`
exempts one step: the deactivation of a rule which only older active versions of a
suite list (`Outdated`). The handler then starts from the latest version that
contains the rule, which need not be the suite's latest. The proof of the
unqualified form failed at this step, and rightly: let a suite of a peer `a` and the
rules `b`, `c`, `d` be registered while `d` is out of service, so that its versions
become `abcd`, `ac` (`b` deactivated), `a` (`c` deactivated), and, with `b` and `d`
activated again, `ab` (`d` deactivated, from the first version). When `c` is activated
and deactivated once more, the handler starts from `ac` and publishes `a`: `b`, in
service, is no longer checked. The run is too small for this and does not need
the exemption.

Left out: what a rule says (compilation, validation, templates, tags), SodaCL
suites, the GX suite table, the status PATCH of a suite, requests created already
decided, scopes, effective times, authorship.

## The incident models (`IncidentRecord`, `RootCauseReview`)

A handler reads the whole row, computes a new one and calls `update_*`, which
loads the row again, sets every column and lets SQLAlchemy write those that differ
from what it just loaded. The handlers are plain functions in FastAPI's thread
pool, so reading, `Load` and `Write` are separate actions. Creating an incident
with a ticket, and asking for assistance, also wait for another system between
reading and writing. Requests are numbered in the order in which they read
(another order renames them), and `readAt` and `wroteAt` are history variables;
`Overlaid(q)` says that another request read the row before `q` wrote it and wrote
after.

`incidents`: 4 requests by the owner, two statuses; `review_threads`: 4 requests.
Four let a creation with a ticket, a lock and two changes overlap. The properties
say that nothing is lost or mixed unless a request was overlaid, and
`LockIsKept` that even then no comment stands behind a lock. `NoRowAssumption`:
the absence of a row is not a row. Left out: the routing
policy, tickets' and suggestions' text, SLA definitions, and a PATCH of the ticket's
id or number (`incidents.py:966`), which changes the row without an event.

## Disagreements with the documentation

What the models do, because the code does it, and a document, comment or test says
otherwise. Paths are relative to `src/`.

* *Dispatch.* `process_dispatch_message` calls the coroutine function `report_run`
  without awaiting it (`dq-engine/gx_dispatch_dispatch.py:858`), so a completed run
  stays `running`. The discard of messages of vanished runs looks for
  `GX_API_REQUEST_FAILED` (`gx_dispatch_api.py:247`) where `DQ_API_REQUEST_FAILED`
  is raised. Startup recovery cannot tell a dead worker's messages from a live
  one's, and operators are told to scale the worker (EDR-007).
* *Join pair.* No joined data is ever landed (the `TypeError` above); two join
  dispatches of one suite can both pass the conflict check.
* *Run plans.* A refused decision takes effect (`endpoints/approvals.py:727`): a
  requester gets 403, an early approval 503, and the version is deactivated with
  the request pending. A replay reads its version before an await and not again. A
  replay while a deactivation is only requested dispatches its run and then fails.
  The milestone document has no way to `approved_pending_activation` but through
  validation ("Triggered when validation passes", then "by explicit approval",
  `docs/implementation-details/API_7_REAL_DQ_RULE_EXECUTION_MILESTONE.md:239-244`) and
  says "`validation_failed`: validation failed; cannot activate" (line 223). The table
  also allows `draft -> activation-requested -> approved_pending_activation`, and every
  transition to `approved_pending_activation` writes `passed` and `approved`
  (`postgres_validation_run_plan_repository.py:402-404`), so a version that was never
  validated comes into force with columns that say it was. From `pending_validation` a
  caller may name it as the target before any validator ran.
* *Profiling.* Requests of the catalog route wait in a list without a reader. An
  enqueue request of type `test_data_generation` is accepted, dropped by the worker
  (`test_data_jobs.py:82`) and stays `pending`, with its data source refused for good. A
  failing `started` report drops the job without a final status (EDR-022 promises
  one). An enqueue marks a request failed whose message may have landed.
* *Test-data queue.* Two requests pass the scan for active ones together.
* *Drafts.* The heartbeat is never written (a `NameError` that is caught), so every
  task looks stale. A decision handled between the thread's two writes is undone in
  the row. A pending decision imports a task that was created as approved.
* *Rules.* A pending rule can be edited; an edit that waits for the contract service
  overtakes an approval; withdrawing a request leaves the rule pending; a rollback
  restores `active` without review; an author may approve when another user asked;
  a reopened rule counts as approved; a retired rule can be activated; deactivating
  a suite's latest version uncovers an older active one, and the GX suite table is
  not told; a repair runs before its decision is refused; no rule ever becomes
  `tested`.
* *Connector sync.* A late cancellation overwrites `completed`; a cancellation during
  the delay is overwritten by `pending`; retries have no end and starve younger jobs;
  two workers can claim one job; no timestamps are written by the worker.
* *Materialization.* Crashes use up the in-flight limit for good; one object counts as
  an existing output, so the remains of a failed upload are delivered; two workers
  write one location; limits are checked before awaits; a request can fail with notes
  committed; a second request rewrites what the first delivered; wiping `.../data`
  also wipes `.../data2`.
* *Violations.* A commit may run ahead of a batch in memory; a failed write is passed
  over and committed; a batch read again becomes another object; without Kafka the
  violations are only counted; one invalid record holds back all of its run.
* *Incidents.* Of two overlapping changes one leaves no trace; a lock, a removal, a
  ticket number or a decision can be overwritten; assistance can be asked for twice.

## Proofs

Each proof module has theorems about the component it is named after and holds
for every value of the constants, under the named assumptions of that component
alone: a named assumption is used only where a step cites it. What more a theorem
assumes is in its statement. The shape is the same
throughout: an inductive invariant `IInv` (or, in `GxDispatchProofs`, one per
theorem), a lemma per action, and per action a step for each conjunct that it can
disturb. The strengthened invariants were checked with TLC before they were proved.

### `GxDispatchProofs`

The theorems about `GxDispatch` use `ConstantsAssumption` alone, so they hold for
any sets of runs and workers, any kinds, plans and suites, and any bounds. Its first
lemmas say what the community definitions of `Cons`, `Front`, `Last` and
`RemoveFirst` do to the type and the elements of a sequence. `OneWorker` is the
hypothesis of the three marked "for one worker"; `docker-compose/engine.yml` starts one.

| Theorem | Argument |
|---|---|
| `TypeCorrect` | `TypeOK` is inductive; its last worker clause (a message is held exactly in the states after the claim) is what gives `msg[w] \in Runs` where it is used |
| `OneFreshRun` | `FreshInv` adds `TerminalIsCompleted`: a terminal row has `completed_at`. A row can only become active again from terminal, hence completed; a row becomes active for the first time in `CreateRun`, where `~Conflict` and the symmetry of `Compete` (`CompeteConflict`) exclude a competitor |
| `AcceptedPendingIsQueued` | `PendingInv` adds: a request that got past "new" is a dispatch, a queued or held message has a created row behind it, and a run past its first report in a worker's hands is not pending. The last makes every LREM harmless |
| `InFlightIsRecoverable`, `RunningIsAttended` | both for one worker; `SingleInv` adds that the message in hand is in the processing list until the acknowledgement, and that once it has been removed the run is executed or its row terminal |
| `NothingElseStranded` | for one worker; `StrandedInv` adds a bound in every state of the worker: the messages in the processing list, besides the one in hand, that the report endpoint would not refuse are at most as many as the faults, and one more while the worker is down or recovering. Refusal is permanent (`RefusedStays`): an event goes only with its row, and a purged row does not come back |
| `UntraceableRunsAreFew` | about `JoinSpec`; see below |

The last part is about `JoinPair`, and alone uses `JoinAssumption` (the joins are
dispatches of a suite). The property counts runs against lost calls, and a count
is not inductive, so `Traced(r)` says of one join everything that is true of it as
long as no call about it was lost: before its push it is nowhere; accepted and
active, its message is once in the ready list, or with one worker and in the
processing list; and a worker takes its copy out only after the run was recorded
as ended. `UntracedCostFaults` bounds the joins that are not traced: a step without
a fault keeps all of them, one with a fault (`JoinPushRaises`, a failure report that
is lost) all but one. A crash spoils none, because what waits in Redis is not
touched by it. `Apart` keeps the two pairs of lists from each other: no join is in
a list, or in the hands, of the GX workers, so that their reports never reach its
row, whatever else they do.

### `RunPlanGovernanceProofs`

It rests on `GovernanceAssumption` (the two null values
are not ids, the fault bound is a number). Its invariant `IInv` joins the types and
the checked invariants with two more: `RequestsSettled` (the plan's last run belongs
to a request that is over, so no later step changes its version; a started
request knows its version) and `NoPlanNoVersions`. `Answers` strengthens
`DispatchedVersionIsDecided` by the requests in flight, whose version is decided or
still approved, and `VersionsAdvance` says that no step takes back either. The
invariants need each other: that the plan's status agrees with its version follows from the version in
force, which needs the transition table's `AllowedFacts`.

| Theorem | Argument |
|---|---|
| `Invariance` | most steps are *quiet*: one version row changes and the sets of versions in force and retired do not. `QuietStep` treats them all; each handler's proof shows that its step is quiet. `ActivateStep` and `DeactivateStep` treat the two that are not |
| `GovernanceTyped`, `OneVersionInForceHolds`, `PlanStatusHolds`, `LastDispatchHolds` | conjuncts of `IInv` |
| `DispatchedVersionDecided` | from `Answers`: an approved version can only be cancelled or activated, a cancelled one has no transition, a version in force ends retired |
| `Refinement` | a quiet step or a step of a request is a stutter of `PlanInForce`, `activate_plan` is its `Activate`, `deactivate_plan` its `Deactivate` |

### `RootCauseReviewProofs`

It rests on `N \in Nat`. The argument: the row a request holds
in its hands has the events of all who wrote before it read, but for those already
overlaid (`EventsKept`); a write therefore loses exactly what it overlays. `Clocked` orders reads and writes,
`EventsKnown` says that only requests past their reading are in an event list, so
that the written list differs from the loaded one and is in fact written.
`AssistanceKept` and `StatusHeld` are the same argument for the other columns.

| Theorem | Argument |
|---|---|
| `Invariant` | `IInv`, the conjunction of the above, is inductive |
| `TypeCorrect`, `EventsAreKept`, `DecisionsAreKept`, `AssistanceIsSeen` | follow from `IInv` |

### `RuleLifecycleProofs`

`IInv` joins `TypeOK` with four statements. `Standing`: a rule in service exists, and
a removed one is not in service. `Written`: the row's version is the last and has the
row's text; an edit that waited for the contract service takes its number when it is
written, and so it still holds after another write came between. `GrantHeld`: a rule
written inactive and not rolled back that is in service *or whose row says approved*
is among the granted; without the second half an activation would have no ground.
`OwnSuite`: the suite published for a rule lists that rule only, which is why its
disabling takes nobody else along.

| Theorem | Argument |
|---|---|
| `RowIsCurrent`, `GrantedOnly` | from `Written` and `GrantHeld` |
| `RemovedStays` | every action but the recovery has a guard on the removed row, or writes the row it reads |
| `CoverageStays` | a step appends to a suite, or disables its versions; the cases are whether the latest active version lists the rule that is deactivated, whether others remain, and where an error cuts the loop over the suites |

### `IncidentRecordProofs`

The argument of `RootCauseReviewProofs`, with creation, lock and comments.
`ExplainedHeld` says, while nobody is overlaid, that the row and each row in the
hands of a request behind which nobody wrote are explained by their histories; a
write by any other request overlays somebody, which ends the premise. `LockHeld`
needs no such premise: *every* history in the system, in the table or in a handler's
hands, grew event by event under the check of the lock, and a write replaces the
table's history by another of those as a whole (the lock is itself read from the
history, `_incident_comments_locked`).

| Theorem | Argument |
|---|---|
| `EventsAreKept` | `EventsKept`: the held row has the events of all who wrote before it was read, but for those overlaid already |
| `Explained` | `ExplainedHeld` |
| `LockKept` | `LockHeld` |

### `MaterializationProofs`

| Theorem | Argument |
|---|---|
| `Completed` | `FinishDelivered`: a worker that is about to finish has a note for each target. A note is never deleted |
| `LeftoverBounded` | `Holding` (a worker has a message except while it polls) turns each disappearance of a worker's claim on a message into a fault |
| `DeliversWhole` | for one worker. `Filled` follows the store through a job: the targets behind the worker hold the whole dataset of this request and nothing else, the one before it holds what was uploaded so far. `BatchAssumption` keeps a later wipe from the earlier targets; other jobs write nothing meanwhile |

`OneWorker` is justified by `docker-compose/engine.yml:190`, which starts one; with
two the property is false (see the disagreements).

### `QueueProofs`

The three specifications share no variable, and each part uses the assumption of
its own module alone. What the parts have in common are the lemmas about lists.
Because one module extends all three, their definitions have different names
(`SyncNext`, `Next`, `StreamNext`; `at`, `pc`, `consumer`).

*`ConnectorSync`.* `Sole` is the heart of it: as long as there was no fault, a job
for which no claim waited has one worker at most, its status tells where that
worker is, and once it was synchronised it is completed or cancelled, so that no
claim takes it. The premise is what PostgreSQL leaves: a claim that waited for the
row lock proceeds without looking at the status again.

*`ProfilingQueue`.* `RowsKept` says of the requests of the enqueue route that no
message outlives its row and that an ended row has its `completed_at`; with it, a
row turns active for the second time only from an ended one, which is the exception
the property makes. `Clean(r)` says where the one message of an accepted active
request is, as long as no failure touched it, and `UncleanCostFailures` counts the
others, but for the mislabelled ones: one failed call or crash spoils one request.
`LabelledOnce` and `LabelStep` say that a request gets its type when it is created
and keeps it, so that none turns from mislabelled into counted.

*`ViolationStream`.* Two facts carry both properties over the whole history of the
topic. `InOrder`: what a producer holds was sent and is not in the topic, and the
topic has no message twice, so that a poll adds messages nobody read. `ReadOnce`:
unless a commit was lost or the consumer crashed, a consumer that is down has
committed its position, and batch and objects are pairwise disjoint parts of what
was read.
`NoneLost` follows a run: what its publisher went through is in the topic or in the
buffer, it reports only when it went through everything, and its end leaves the
buffer empty. `StreamAssumption` says that a run finds a violation once and that
two runs find different ones: the model tells every occurrence apart.

| Theorem | Argument |
|---|---|
| `SyncInvariant`, `ProfilingInvariant`, `StreamInvariant` | the conjunctions of the above with the types are inductive |
| `NotStranded` | a conjunct of `SyncInv` |
| `RepetitionExplained` | `Unrepeated`, which is `Sole` and the property, under no fault |
| `OneFreshRequest` | `FreshStep`: only `Enqueue` makes a fresh row active, and it looks for a competitor in the same step |
| `LostRequestsAreFew` | the requests counted, whose type fits their route, are not `Clean` |
| `MessagesAreStoredOnce` | disjoint objects: a message is in one at most |
| `CountedIsInTopic` | counted, hence all sent; stopped, hence nothing in the buffer |

### `DraftQueueProofs`

The three properties count requests against failures, and a crash of the API meets
all requests at once, so that counting each property for itself is not inductive.
`Clean(r)` says of one request everything that is true of it as long as no failure
touched it: how row, record, stream and list agree at each place of the thread and
of a board decision that overtakes it. `SuspectsCostFailures` bounds the number of
requests that are not clean. A step without a failure keeps every request clean, one
with a failure all but one; a crash spoils only the request the thread works on,
because what waits in Redis and PostgreSQL is not touched by it.

| Theorem | Argument |
|---|---|
| `StoresAgree`, `DraftsTraced`, `FinalAnnounced` | the requests each one counts are not clean, hence at most as many as the failures |

### Only model-checked

The liveness properties `AcceptedDispatchIsHandled`, `JoinDispatchSettles`,
`EnqueuedRequestSettles`, `AcceptedDraftSettles`, `JobEnds`, `RequestSettles` and
`MessageIsStored`: liveness under fairness, and ENABLED, are outside the prover's
reach. Every invariant and action property of the runs is proved.

## Fairness

Weak fairness on the disjunction of the steps of one process, because a live process
keeps running, and on its restart, because compose restarts a dead one
(`docker-compose/engine.yml`, `restart: unless-stopped`). Requests, crashes, faults,
expiries, decisions and signals are never fair.

## Not modelled

* The lowering of rules to GX, SodaCL and SQL, expectation evaluation, metadata and
  ontology projections: translations without state, whose result is a document.
* Delivery-linked execution assembles the data of a dispatch and keeps nothing.
* The exception facts and analytics, the read views of all components.
* Command line, Airflow operator and SDK: clients that call an endpoint and poll; the
  operations they call are modelled where they are served. User interfaces.
* The LLM service and its agent sessions: a wrapper of an external model.
* Identity, gateway, edge, infrastructure, database schema: configuration.

The modelled part is a small share of the lines of the repository: most of it is
schemas, views, translation and presentation, with one request's state.

Re-run with `tlc -config <cfg> <module of the run>` and `tlapm <proof module>.tla`.
