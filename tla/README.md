# carbonverify: formal models

TLA+ models of the carbonverify backend (`src/backend/app`), the TLC configurations that check
them on small instances, and proofs of their central invariants that TLAPS checks for every value
of the constants.  Paths below are relative to `src/backend/app` unless they start elsewhere.

Contents

1. The system: parts, state, operations, what is hard
2. The modules and how they correspond to the code
3. The runs: questions, bounds, results
4. Fairness
5. What is proved, and how
6. Where code and documents disagree
7. What is not modelled, and why
8. Plan
9. Further hazards

## 1. The system

carbonverify takes a carbon project from onboarding to an approved registry submission.  A FastAPI
server and a pool of Celery workers share one PostgreSQL database, a Redis that is broker, lock
server and session store, and S3.  Seven agents do the work of each lifecycle state and return a
confidence; the orchestrator advances a project when every agent is confident enough and queues a
human review item when one is not.  Around that sit a hash-chained record of all decisions, a
validation engine that runs workflows of steps and collects proofs, a brokerage and a token ledger
for the credits, an intake of leads from public registries, report generation and registry
polling, a WhatsApp bot, and the data-protection duties (subject requests, erasure).

Three facts about `database.py` and `tasks/celery_app.py` shape every model:

* **Stale copies.** Sessions are made with `expire_on_commit=False` and `autoflush=False`.  An ORM
  object keeps the attributes it was first loaded with: a second SELECT of the same row in the same
  session, `FOR UPDATE` included, locks the row and then returns the *old* attributes.  No table
  has a version column.  An UPDATE names only the columns whose new value differs from the loaded
  copy.  So a check is made against the copy and the write lands on whatever the row holds by then.
* **READ COMMITTED.** A statement sees what was committed when it started.  A `SELECT ... FOR
  UPDATE` that waited gets a fresh version of *the row it found*, not a new answer to its query.
* **At-least-once tasks.** `task_acks_late` and `task_reject_on_worker_lost` are set and the broker
  is Redis: a task whose worker dies, or that outlives the visibility timeout, is delivered again.
  Tasks that raise are retried up to `max_retries` and then dropped.

### Components

| Component | State | Operations | Talks to | What is hard | What makes it correct |
|---|---|---|---|---|---|
| Audit chain (`orchestrator/audit_chain.py`) | `agent_decisions`, each row with the hash of its predecessor | `record_decision`, `verify_chain`; deletion of a review item nulls the link of committed rows | everybody who decides | concurrent appends, clock steps, foreign-key edits | links go back in time; the verdict means what it says; no append hangs |
| Lifecycle (`orchestrator/orchestrator.py`, `tasks/lifecycle_jobs.py`) | `projects.status`, `agent_runs` | scan, advance, trigger, manual run, operator PATCH | agents, review queue, learning, Celery | stale copies, redelivery, thresholds that move | a status is earned or written by an operator; the pipeline goes on by itself |
| Agents (`agents/`) | none of their own: they read uploads, sources, calculations, reports | `execute` of seven agents | lifecycle, Kimi | a blended score that hides an engine's; a reply that is missing | no agent moves a project on without its evidence |
| Human review (`api/review_queue.py`, `orchestrator.py`) | `human_review_queue` | create, assign, resolve, PATCH, DELETE, hourly auto-approval | audit chain | sweep against reviewers; two commits per decision | the trail explains each decision; critical items wait for people; nothing stays pending |
| Learning (`learning/`) | decisions, suggested thresholds, weekly reports | effective threshold, weekly report | decisions, lifecycle | thresholds move between two reads of one task | never below the floor; a review counts once |
| Circuit breaker (`core/circuit_breaker.py`) | state, failure count, time of the last failure | `call` | Kimi API, Meta API, remediation | outcomes out of order | opens at the threshold, is tested again, closes when the service is back |
| Validation runs (`validation_engine/`) | runs, step executions, proofs, escalations | trigger, execute, remediate, cancel, recover, archive | Celery | redelivery; cancellation under the executor; recovery of slow runs | one executor; completion is proven; failures are escalated; runs end |
| Step execution (`validation_engine/orchestrator.py`, `executors.py`, `remediation.py`) | step executions, the context of a run | walk of a workflow graph, gates, remediation actions | every service a step calls | failure paths, cycles, retries of what was already done | a step is done once; a gate fails closed; it implements a validation run |
| Human escalations (`validation_engine/`) | `human_escalations` | raise, acknowledge, resolve, ladder every 15 minutes | runs, channels | sweep against operators | answered or given up, never forgotten |
| Proofs (`validation_engine/proofs.py`) | proofs, a Merkle root, anchors | capture, build, anchor, certify | Radix client | odd levels, a crash between commit and record | every proof and certificate verifies |
| Journeys and health (`tasks/validation_jobs.py`, `health.py`, `journey_service.py`, `scripts/pre_deploy_check.py`) | runs, snapshots, offline batches | tick, execute, snapshot, gate, sync | validation engine | overlapping ticks, midnight, stuck runs | the gate sees fresh, earned figures |
| Applications portal (`api/applications.py`, `services/application_pipeline.py`) | an application, its documents, its hand-offs | upload, request, run, classify, notify | validation engine, mail | uploads during a run, overlapping runs | the applicant is told what is missing; one hand-off |
| Brokerage (`brokerage/transaction_engine.py`) | listing, transactions, escrows | create, confirm, execute, deposit, transfer, release, cancel | HTTP requests only | every request writes from copies it read without a lock | credits conserved; no payment before deposit and transfer; no unconfirmed trade completes |
| Matching (`brokerage/matching_engine.py`) | suggestions | global run | listings, profiles | what it loaded changes under it | only viable pairs, and all that stay eligible |
| Token ledger (`tokenization/token_service.py`) | tokens, listings, retirements | mint, fractionalize, list, buy, retire | Radix client | lost updates, anchor before commit | tonnes conserved; burns recorded |
| Reports and polling (`tasks/report_jobs.py`, `reports/`, `vvb_liaison/`) | `reports` | generate, edit, submit, poll | registries | redelivered generation over a submission, lock expiry | a report that is submitted is held by its registry |
| Escalations (`escalations/`) | events and what was sent where | raise, dispatch, acknowledge, resolve, P0/P1 sweeps | audit chain, channels | concurrent dispatches, one JSON column rewritten as a whole | a P0 is sent until a channel succeeds; who handled an event is on record |
| Remediation (`remediation/`) | `remediation_attempts` | attempt, defer, escalate, sweep | breakers, escalations | attempt numbers read before written, deferred rows | bounded attempts, then a human |
| Beat leader (`tasks/beat_scheduler.py`) | a Redis lock with a time to live | acquire, refresh, tick, release | Redis, Celery beat | expiry between get and expire | at most one scheduler ticks |
| Lead pipeline (`tasks/lead_jobs.py`, `tasks/pre_audit_jobs.py`, `services/lead_intelligence/`) | leads, documents, projects made of them | scrape, score, fetch, convert, pre-audit, re-audit | registries, lifecycle | commit before enqueue, concurrent conversion | one project per lead; a lead that is wanted gets on |
| Uploads, readings (`api/uploads.py`, `tasks/jobs.py`, `api/webhooks.py`) | uploads, data sources, replay keys | upload, reprocess, process, receive | S3, ClamAV, review queue | two commits, redelivery, replays | doubtful data is reviewed; a reading is stored once |
| WhatsApp bot (`services/whatsapp/`) | a conversation in Redis | webhook | Meta API | get-modify-set | a completed survey has all its answers |
| Knowledge base (`knowledge/`) | documents, chunks | ingest, delete | embedder | ingestions that overlap without a unique key | one text, all of it |
| Accounts (`api/auth.py`, `api/users.py`, `api/oauth.py`) | users, invitations | register, invite, accept, readdress, link | OAuth providers | checks that others overtake | one account per address; each can be signed in to |
| Sessions and tokens (`auth/`, `api/auth.py`) | session keys, refresh tokens, lockout | sign in, touch, rotate, end | Redis, PostgreSQL | resurrection, concurrent rotation | what was ended stays ended; no false lockout |
| Subject requests and erasure (`tasks/compliance_jobs.py`, `api/compliance.py`) | requests, the subject's rows, S3 objects | receive, erase, retry | PostgreSQL, S3 | crash between stores, paging over deleted rows | a fulfilled request has erased everything |
| Registers (`api/compliance.py`) | consents, conflicts, breaches, versions | record, revoke, PATCH | requests only | overlapping PATCHes | a consent that counts was given last; a stamp is the time of a request for it |
| Calculations (`calculations/`, `api/calculations.py`) | calculation runs | calculate, review, approve, PATCH | lifecycle, reports | cap before adjustment, stale PATCHes | a verdict is met by its checks; a decision is not undone |

The remaining parts (Kimi client, events and websockets, audit log and SIEM, administration and
read-only routers, migrations, web and mobile clients, deployment) are listed in `PROJECT.json` with
the reason each is left out; of the Radix and registry clients the ledger and the reports model what
they use.  `PROJECT.json` also lists, at their lines, the hazards that the properties watch; section
9 has others met on the way.

## 2. The modules and the code

Each module models one component; its comment says which files it translates, and `PROJECT.json`
("map") gives the lines of each definition.  Three conventions hold everywhere:

* An operation that reads, waits and writes is two or more actions, with what it has read kept in a
  record of its session (`call`, `treq`, `request`, `editor`, ...).  What the code does between an
  await and the next is one action.
* Definitions marked `Slip:` are faulty variants of the one that follows them, named for the bug
  they stand for.  Nothing uses them; each exists so that it can be put in place of the definition
  to see that a property notices.
* A variable marked *history* is written and never read by an action: it lets a property say what
  excuses a behaviour (two requests overlapped, a session died between its two commits, a key
  expired under its owner) or what a status was earned by.  *External* variables are the other side
  of an interface: a registry, the ledger, a service that comes and goes.

An invariant that a run checks is a conjunction of named parts (`TradesHold == Conserved /\
PaidBeforeRelease /\ ...`), each with a comment on the code behaviour it is about.

### The record of decisions

**AuditChain** (`orchestrator/audit_chain.py`).  `rows` is the committed table; each session goes
`idle -> waiting -> locked -> idle`.  `ReadTip` is the start of the SELECT (its snapshot), `LockTip`
the end of the wait for the row lock, `Append` the INSERT and commit, `RejectAppend` the insert that
fails on a deleted review item, `Crash` a lost connection.  The wait matters: when the lock is granted
the session has the tip of its own snapshot.  An empty table has no row to lock.  `Stamp` is the code
that moves `created_at` past the tip's when the clock has not passed it.  `DeleteItem` is the API's
deletion of a review item, whose foreign key is ON DELETE SET NULL and so edits a *hashed* column of
committed rows (`edited` remembers which); the deletion of a project does the same to `project_id`.  `ChainValid` and `FirstBroken` are `verify_chain`.  A hash
is the tuple of the fields it covers: no collisions, and nothing else is assumed of SHA-256.

### The pipeline and who decides

**Lifecycle** (`orchestrator/orchestrator.py`, `tasks/lifecycle_jobs.py`).  One project and several
database sessions, each a Celery task or an API request.  `Take`, `Enter`, `Stop`, `Transition` and
`Finish` are `advance_project` with its three stops (steady state, loop guard, step limit);
`StartAgent`, `AgentReturns` and `Route` are `dispatch_agent` with `_handle_confidence_result`;
`Trigger` is `process_project`, `Patch` the PATCH of a project with its transition table, `RunAgent`
the manual run, `Resolve` what the closing of a review item does to the project (nothing), `Scan` the
beat job.  `call[s].seen` is the status on the session's copy and `WriteEdit` writes the column only
when it changed on that copy.  Each task reads the threshold twice, once in `Route` and once in
`AllClear`.  Agents are reduced to the confidence they return, in percent.  `created_at` of
`agent_runs` is a default evaluated at import, so "the most recent run" may be any of the process:
`LatestRuns` is a set.

**Agents** (`agents/*.py`).  What each of the seven agents reads of a project, the confidence its
engines compute, what the reply of the model or its absence does to it, and the status it ends with.
Scores are exact integers.  `last` is the result the orchestrator is about to route, with the facts of
its evidence that the properties are about.  `created_at` of calculations and reports is evaluated at
import: an agent that asks for the latest row gets any of the process that started last (`Newest`).
Operators record any compliance, since neither schema nor column has a bound.

**ReviewQueue** (`api/review_queue.py`, `orchestrator/orchestrator.py`, `tasks/lifecycle_jobs.py`).  A
resolution is `Load`, `Apply` (first commit: the item) and `Record` (second commit: the decision).
The sweep loads all due items at once (`SweepStart`) and handles them from those copies
(`SweepApply`, `SweepRecord`); the SELECT inside `sla_auto_approve` returns the same copies.
`Flush` is the UPDATE of the changed columns.  `created_at` is the start of the process (`Restart`).
The order in which the sweep takes its items is left open; the code's query has no order that a
property could depend on.

**Learning** (`learning/service.py` between the routing and the reviewers).  `EffectiveThresholds` is
what a query over `decisions` may yield; an advance reads it in `Route` and again in `CheckAdvance`,
and decisions of others are committed in between.  A resolution commits the item (`ResolveItem`) and
then its decision (`RecordVerdict`); an operator may set any item back to pending (`PatchItem`) or
delete it (`DeleteItem`).  `WeeklyReport` pairs each review with its routing.

**Calculations** (`calculations/fnrb_calculator.py`, `methodology_validator.py`,
`api/calculations.py`).  `Fnrb` with its cap, fuel adjustment and notes; the marks and flags of each
methodology over every combination of evidence; and the life of one run under overlapping requests
(`ReadForUpdate`, `ReadForApproval`, `Commit`).

### The validation engine

**ValidationRun** (`validation_engine/orchestrator.py`, `tasks.py`, `state_machine.py`,
`api/validation_engine.py`).  One run, the messages that ask for its execution, and the tasks that
receive them.  `mine[t]` is the status on the task's copy of the run; `Advance` asks the state machine
about it and overwrites the row.  `Begin`, `NotPending` and `AlreadyTerminal` are the three fates of a
message; `Work` the execution: step, proof, remediation check, failure handling, merkle root,
completion or failure and escalation.  The workflow is a chain of steps; a step in `Optional` has a
failure path to the next.

**StepExecution** (`orchestrator.py`, `executors.py`, `remediation.py`).  One worker walks a workflow
*graph*: what each executor may return or raise, the gates with their conditions, which remediation an
error gets and what it does, and where the failure path leads.  On a chain of steps it implements
`ValidationRun`: `Run == INSTANCE ValidationRun WITH ...` maps place, steps and rows to those of a run
with one task, and `ImplementsRun` is `Run!Spec`.  A workflow that is not a chain maps to a run that
nobody triggers.

**HumanEscalations**.  One `human_escalations` row, the requests that answer it from what they read,
and `check_stalled_escalations`, which climbs the ladder of levels when nobody answers.

**CircuitBreaker** (`core/circuit_breaker.py`).  The lock covers only the look-up of the state and the
booking of an outcome.  `Admit` is the part of `call` before the await, `Succeed`, `Fail` and `Cancel`
the parts after it; in between the caller is in `calling` and the state may have changed.  `service`
is the remote side.

**MerkleTree** (`validation_engine/proofs.py`).  Levels, paths, verification, the anchor with its two
commits, the certificate with all its proofs, those of anchors included, and the archival that deletes
them.  A hash is the term it was computed from; the ledger has that of a payload with the root and a time.

**Journeys** (`tasks/validation_jobs.py`, `health.py`, `journey_service.py`,
`scripts/pre_deploy_check.py`).  Overlapping ticks of the synthetic journeys, children of the worker
that die, snapshots and streaks by UTC day, the deploy gate, and the sync of an offline batch row by
row.

**Portal** (`api/applications.py`, `services/application_pipeline.py`, `executors.py`).  One
application: uploads and requests, and the pipeline runs they queue, which read, wait for the model
and commit what they found over what others wrote meanwhile (`Saved`).  The mail about a change is best
effort: it may not be sent, and is not sent again.

### Credits

**Brokerage** (`brokerage/transaction_engine.py`, `api/brokerage.py`).  One listing and the trades on
it.  A request selects (`...Load`), may select a second row later (`SettleLoad`, `CancelLoadListing`),
and commits.  Each SELECT sees its own moment and the write is computed from it.  `raced` is a history
variable: a commit used a copy that another commit had made old, or went on with a cancelled trade.
The properties about credits speak of unraced histories; those about payments and confirmations hold
in every race.

**Matching** (`brokerage/matching_engine.py`).  A global run loads listings and profiles once and
commits one suggestion after another while both change.

**TokenLedger** (`tokenization/token_service.py`).  Mint, divide, list, buy, retire: each request
loads, checks, and commits.  `AnchorBurn` is the call of the Radix client before the commit: done,
refused, or done and never answered.

**Reports** (`tasks/report_jobs.py`, `api/reports.py`, `vvb_liaison/`).  A report is generated by a
task that is retried and redelivered, edited and submitted by operators from loaded copies, and polled
daily behind a Redis lock that expires.  `Updated` writes the columns a commit names, on a row that
may be gone.  What the quality gates find is one verdict.  A draft is nothing, what an editor wrote, the
text of a refusal or a generated document; the session does not notice what is changed in place.

### Operations

**Escalation** (`escalations/`).  Raisers, the P0 and P1 beat tasks and the P1 message two hours later
are dispatchers that load a batch, send channel by channel, and at the end of an event store the whole
`channels_sent` of their copy.  Operators load, commit and then record their decision.

**Remediation** (`remediation/`).  Rounds of the orchestrator, the recovery journey, the sweep and an
operator over one attempt table that nothing locks.  A sweep reads the newest failed rows up to its
limit (`REMEDIATION_SWEEP_BATCH`) and takes their targets one after the other.

**BeatLeader** (`tasks/beat_scheduler.py`).  SET NX, GET, EXPIRE and DEL as separate steps of pods that
die, a key that expires, a Redis that is down.

### What comes in

**LeadPipeline** (`tasks/lead_jobs.py`, `tasks/pre_audit_jobs.py`, `api/leads.py`,
`services/lead_intelligence`).  One lead: scrapes and imports, scores and deadlines (UPDATE names the
columns that differ from the loaded ones), fetches, conversion, pre-audit and re-audit, with messages
that come back when a worker dies.  People enter scores, priorities and crediting periods as they like.

**Ingestion** (`api/uploads.py`, `tasks/jobs.py`, `api/webhooks.py`, `api/data_sources.py`,
`services/validation_engine.py`).  Files through a task with two commits, readings through a webhook
with replay keys; what each pipeline finds in a content and the confidence computed of it are
operators of their own.

**Conversation** (`services/whatsapp`).  The state of one phone in Redis; a handler routes a message by
the state it read, then does its operations one get and one set at a time (`Written`, `After`).  The key
may expire at any moment, in the middle of a handling too; every call of Redis may fail.

**Knowledge** (`knowledge/service.py`).  Ingestions of one document by overlapping requests, with the
row locks and the snapshots of DELETE under READ COMMITTED, and the windows of `chunk_text`.

### People and their data

**Accounts** (`api/auth.py`, `api/users.py`, `api/oauth.py`).  Every way an account comes about or
changes its address.  Each request checks first and writes later; what keeps two apart is the unique
hash, the unique open invitation and one row lock.

**Sessions** (`auth/`, `api/auth.py`).  Lockout, rotation of refresh tokens, sessions in Redis with the
index of each user, and everything that ends them, one call at a time.

**Erasure** (`tasks/compliance_jobs.py`, `api/compliance.py`).  The task that deletes rows and then
photos, pages by OFFSET over the table it deletes from, and starts over on each delivery.

**Registers** (`api/compliance.py`).  Consents in the order of their flushes and commits, conflicts of
interest with the independence check, PATCHes of requests and breaches with the times they set,
methodology versions.

### MC and proof modules

`MC<module>` instantiates modules for TLC.  Those that extend several components (`MCServices`,
`MCOperations`, `MCIssuance`, `MCData`, `MCEngines`, `MCValidationRun`) have a variable `focus`: the
components share no row, so one behaviour follows one of them and the others stay as they are.
Checking their product would multiply states without a behaviour that any property could tell apart.
`<name>Proofs` holds theorems: `AuditChainProofs`, `LifecycleProofs` and
`ValidationRunProofs` those of the core, `IntakeProofs`, `CommerceProofs`, `OperationsProofs` and
`ServicesProofs` those of several components each.
`SetLemmas` has what the proofs need of finite sets and of least elements.  No module replaces a
definition of another.

## 3. The runs

| Run | Question | Instance | Result |
|---|---|---|---|
| `audit_concurrent` | What survives concurrent appends, a clock that steps both ways and deletions of queue items? Is the verdict exact without a fork? Does every append end? | 2 sessions, 3 decisions, 2 items, clock 1..2 | holds, 182 250 states |
| `lifecycle_auto` | With tasks, triggers and manual runs on stale copies, is every status earned or an operator's? Does routing agree with the decision? | 2 sessions, confidences 90 and 96, bar 95, from `submitted` | holds, 6 150 870 states |
| `review_queue` | Does the trail explain each decision? Does everything that may end by itself end? | 2 items of priority 3 or 4, 1 reviewer, 1 day, 1 crash | holds, 900 104 states |
| `validation_run` | One executor, proven completion, an end; an escalation that is answered; a breaker that opens, tests and closes | 2 tasks, 2 steps (one optional), 3 remediations, 3 retries, 2 messages, 2 faults; 2 operators; 3 callers, threshold 2, timeout 2 | holds, 165 286 states |
| `brokerage` | Conservation without races; payments and confirmations in every race | 2 requests, 2 trades, 2 credits, amounts 1 and 2, spot and escrow | holds, 1 762 470 states |
| `operations` | Is every handling explained, a P0 event sent until a channel succeeds, a failed target brought to an end or a person, and the schedule ticked by one pod? | 1 event, 2 operators, a raiser and a beat worker; 2 targets of one rule, 2 rounds, 2 attempts, sweeps of 2 rows, 6 strategies; 2 pods, 2 periods | holds, 313 250 states |
| `issuance` | Are tonnes, burns and submissions what the records say? Does a generation end? | 5 tokens, 2 requests, 2 tonnes; 1 report, 1 job, 1 editor, 2 polls | holds, 908 451 states |
| `leads` | One project, each document once, a priority that fits; does a wanted lead get on? | 2 workers, 1 document, 1 age, crediting periods that fit and not, 1 fault | holds, 563 947 states |
| `data` | Is doubtful data reviewed, a reading stored once, a survey complete, what is reported as erased gone? Does an upload end? | 1 file of 9 contents, 1 reading of 4 payloads, 2 workers, 2 hooks, 2 handlers, 2 questions, 3 messages, 2 erasures over 3 or 4 rows in pages of 2 | holds, 639 635 states |
| `engines` | Does a project reach a steady state with no human while thresholds move? Is a step done once, a gate closed by what it cannot evaluate, and does the execution implement `ValidationRun`? | 1 session, confidence 97, bars 95 and 97, 1 fault; 7 workflow graphs, conditions of depth 2 | holds, 105 284 states |
| `services` | Accounts, sessions, portal, journeys, proofs, offline batches, learning, knowledge, registers, matching, agents, calculations: what each promises under its own concurrency | 2 or 3 of every actor and row (`MCServices.cfg`) | holds, 1 940 367 states |
| `charcoal_cap` | Is the fNRB of charcoal capped at 0.50, as `ARCHITECTURE.md` says? | references 0.30 and 0.55 | **violated** |

Why the bounds are enough for the questions asked:

* **AuditChain.** A fork needs two sessions and a stored tip, three records in all; the genesis fork
  needs two.  A clock with two readings has both directions of a step, and `Stamp` goes past it.
  Two items let one decision refer to a deleted item and another to a live one.  For longer chains
  there are the theorems.
* **Lifecycle.** Two sessions are what a stale write needs.  `submitted` is the last state that is
  driven, with a steady state behind it, so that a task that advances it, a trigger that jumps over
  it and a manual run that adds to its agent's runs all meet; the run `engines` starts at `onboarding`
  or `verified` and walks all of them.  Confidences and bars on both sides of each other are enough
  for every comparison the code makes.
* **ReviewQueue.** Priorities 3 and 4 are the two sides of "never by itself"; two items and one
  reviewer let the sweep hold copies of one while the other is decided.
* **ValidationRun.** Two messages and two tasks are what double execution needs; two faults are a
  worker that dies and a second delivery; one step that may fail and one that may not.
  `MaxRemediations` and `MaxRetries` are the code's own.
* **StepExecution.** The seven graphs are a chain with a disabled step and a failure path, a gate, a
  failure path that leads back, one that ends the workflow, a cycle, a misconfigured step, and no
  enabled step; the theorems are about any graph.
* **CircuitBreaker.** With a threshold of two, three callers leave one to report late after the
  other two have opened it.  The count saturates at `MaxFailures`: past the threshold the code only
  compares it and sets it to 0.
* **Brokerage, TokenLedger.** Two requests are what a lost update needs; two trades and two credits
  make both "each takes half" and "each takes all" possible; five tokens are a parent with two
  divisions of two.  `MaxCredits` bounds what repeated cancellations can give back.
* **Escalation.** A dispatcher of each kind and two operators race on one event; a second event would
  only lengthen the batch, whose limits are the code's own and which the theorem covers.
* **Remediation.** With sweeps of two rows two failures of one target crowd out the older row of the
  other.  Both targets fail the same rule, and processes overlap while one target has failed.  Processes
  are alike, and so are targets: the spare process and the spare target start after the others.  The
  spare target fails no rule that retries, of which `FailedNotForgotten` promises nothing.
* **LeadPipeline, Ingestion, Conversation.** Two workers or handlers meet on one row; one fault may
  fall between any two steps; contents and payloads are one for each way through the pipelines.
* **Erasure.** Three or four rows in pages of two have rows of the subject on both sides of the end of
  a page.
* **Services.** Two requests race for a row and three rows (addresses, tokens, documents) show a
  victim beside the two that raced; figures stand on both sides of each limit.  Two calculations, two
  reports and two times of import make "the latest" ambiguous and wrong; one patched or deleted item and
  four decisions let a review be decided, reopened and decided again.  A behaviour of the agents has files
  and sources, sources and figures, or figures and reports, since no agent reads all four.

Deadlock is checked in `audit_concurrent`.  The others really stop: a
project in a steady state outside the scan's window, an archived run, a sold listing, an application
whose bounds are used up.

## 4. Fairness

Fairness is stated only of what the program does by itself, never of people, faults or the clock of
an item's age; safety properties are checked without relying on it.

* AuditChain: PostgreSQL queues the waiters of a row lock (`SF(LockTip)`); a session that holds the
  lock runs on to a commit or an error (`WF(Append \/ RejectAppend)`).
* Lifecycle: beat runs the scan for ever, and the scan enqueues a project whose state leaves it no
  other conclusion (`WF(ScanSurely)`; where it may read either of two runs of one import, nothing is
  assumed); a worker takes what is queued and its task proceeds (`WF(Step(s))`).  In `MCEngines` this
  fairness is not guarded by `focus`, so that behaviours which follow a workflow are excluded from
  `ReachesSteady` once the lifecycle could move: the property speaks of those that follow the lifecycle.
* ReviewQueue: time passes, beat runs the sweep, a request in progress proceeds.  No reviewer is
  obliged to do anything.
* CircuitBreaker: time passes, callers keep calling, and a call that is tried over and over is not
  cancelled every time (`SF(Succeed \/ Fail)`; with weak fairness the caller could cancel for ever).
* ValidationRun: requests and tasks in progress proceed (`Fairness`).  That some worker receives what is
  in the broker is *not* assumed: no deployed worker subscribes to the queue `validation`
  (`docker-compose.production.yml:81`, `infrastructure/k8s/base/celery-worker-deployment.yaml:41`).  It is
  the premise of `RunEnds` (`MessagesAreTaken`), which says what holds where one does.  Nothing is assumed of
  the recovery of stuck runs either: its docstring says it is run "periodically via Celery beat or manually",
  but it is not in the beat schedule.  Hence the other premise, that no worker dies.
* HumanEscalations: deadlines pass, requests proceed, and a sweep that has begun goes on
  (`LadderFairness`).  Beat sends the sweep every 15 minutes, to the same unserved queue: that it begins is
  the premise of `EscalationIsAnswered` (`StalledAreSwept`).
* Escalation, Remediation: beat sends its tasks, dispatchers and rounds proceed, messages arrive
  (`EscFairness`, `RemFairness`); their tasks go to the queue that workers do serve; operators and the outcome of a send are free, except that the
  in-app channel, tried for ever, succeeds for ever again.
* Reports: a queued generation is taken and proceeds (`GenerationFairness`).
* LeadPipeline: workers proceed with what they have and take messages; the nightly tasks run; the
  cool-down passes.
* Ingestion, Conversation, Erasure: a worker or handler goes on, a request queues its task, a counter
  with an expiry expires.

`BeatFairness` and `PollFairness` state what the election and the polls could assume; no run relies on
them.

## 5. What is proved

All theorems are of the specification without fairness, for any number of sessions, callers, rows,
steps and any limits, under the `ASSUME` of their module (types of the constants, finiteness of the
sets that are counted, names that stand for nothing being no member of a set).  TLC evaluates each
assumption in the runs of that module.  `PROJECT.json` lists the theorems; here is how they go.

An invariant the runs check is seldom inductive, because a write lands steps after the read it was
computed from.  What each proof adds says what a session may still believe when it writes.

**SetLemmas.**  Least and largest elements of sets of naturals, induction over finite sets by a minimal
counterexample (`MinimalSubset`; the library's induction theorems take an operator as a parameter,
which the provers cannot instantiate), sums that change in one place, cardinalities of sets
that gain or lose one element.

**AuditChainProofs.**  `PrevAlwaysEarlier`: an append writes what the session read and computed in
earlier steps, so `ForestInv` adds that a tip a session holds is still stored, up to the columns SET
NULL may edit, and that the stamp of a session about to insert is later than its tip: a race can fork
the chain but never loop or dangle it.  `SerialChainIsLinear`: with one session the chain is linear in
the order `verify_chain` reads.  `ChainsAreSound` (`ChainIsSound`, with any number of sessions): until two
records share a predecessor the chain is that line, the verdict is exact and the first record reported
is the earliest edited one.  Its invariant says that ids are unique, that a hash that no longer fits
says who was edited, and that the tip a session holds is either still the last record or, if another
has taken it, the append to come is the fork that ends the promise.

**LifecycleProofs.**  `StatusIsEarned`: the strengthening relates `cleared`, the states a task has
visited, and its copy of the project.  `AdvancesAreRouted` (`AdvancesAreEarned`): besides, as long as no
threshold moves (`Learners = {}`; with moving thresholds the statement is false, and `HeldIsQueued` of
section 6 says how), what a task has collected, what it has queued and what it will decide agree
agent by agent (`RoutingInv`).

**IntakeProofs.**
* `DecisionsAreExplained` (`AuditExplains`): `BelieversOwn` says that a session between its two commits still
  owns the explanation of the item it wrote.
* `DataIsAccounted` (`DataIsAccountedFor`): of one reading what is stored, what a hook is about to store and a
  replay key that is free are together at most one more than the windows that have passed (`ReadingsFit`);
  a flag is carried by the process that stored the data or is on record.
* `ConversationsAreSound` (`ConversationsHold`): undisturbed, at most one handler is busy, what it is about to
  write is the value it has read, which the key holds unless it expired meanwhile, and the operations it has
  left are those of the flow it was routed by; an expiry leaves the state any flow begins with.
* `ErasuresAreAccounted` (`ErasureHolds`): one worker has a request at a time (`Holding`), and what its scan
  has passed holds no row of the subject unless rows have moved before it (`Passed`).  The rows a deletion
  keeps are computed row by row; that they are those of the places kept, and that the rows before the first
  deleted one stay where they are (`KeptSoFar`), is proved by the first row at which it could fail.

**ValidationRunProofs.**  `ExecutedByOne` (`OneExecutor`) and `CompletionIsProven` (`CompletedIsProven`).  A run
is executed once because only a pending run is begun and nothing writes `pending` again (`Fresh`);
completion proves its steps because a task leaves a step only when it is settled (`Progress`) and the
merkle root is built after the last; a completed run has no task left (`Over`).  The theorems hold
although the state machine is asked about stale statuses.  `ClosedBelowThreshold` (`TripsAtThreshold`):
in every order of outcomes the breaker is closed exactly while fewer than the threshold are booked.

**CommerceProofs.**  `TradesAreSafe` (`TradesHold`).  For payments and confirmations each open request's copy
implies the columns it will write.  For conservation the credits of a listing and of its trades are a
sum over the trades, and the invariant adds what each loaded copy has to do with the row while
nothing has raced.  `LeadsAreKept` (`LeadsHold`): until two of a kind overlap, at most one worker is at a
conversion, at a fetch or at a scoring, what it has loaded is what the row still holds, a lead with a
project is not under conversion and an address about to be stored has no row yet.

**ServicesProofs.**
* `CalculationsAreSound` (`CalculationsHold`): the flags of a methodology and its points are sums over its
  requirements (`FigureInv`, `VerdictInv`), and the score of an evidence with all but few marks follows;
  `ExcessComesFromCharcoal` for every reference value; `DecisionsOutliveUpdates` (`NeverDraftAgain`, an action
  property) because a draft copy is repeated, never written over a decision (`DraftIsRepeated`).
* `AccountsAreSound` (`AccountsHold`), `SessionsAreSound` (`SessionsHold`): whatever a request found before it
  writes may be gone; the invariant says what the unique index, the row lock or the second look still
  guarantees at each place of a request.
* `RegistersAreKept` (`RegistersHold`): the times of consents differ, and a request about to write has
  taken its time after all that it has read (`TimesAreOrdered`), so that only a request which had not read a
  stamp can replace it by an earlier one.  `SuggestionsAreSound` (`SuggestionsHold`): what a run has still to do, has saved
  and has loaded cover its candidates.  `LearningIsSound` (`LearningHolds`): a clamped threshold is never
  below the floor; the pairing of reviews with routings is injective, and a decision of a human is on an item
  that one resolved (`HumansDecide`), whatever became of its status, or has lost its link.
* `AgentsAreGrounded` (`AgentsAdvanceOnEvidence`): bounds on the blend of an engine's score with the mark of
  the model, agent by agent, for whatever row each of them takes for the latest and any compliance on it.
* `ApplicantsAreServed` (`ApplicantIsServed`): an upload that asked for a run is on its way to one or read by
  one; a run that is alone knows, up to its commit, what is missing and whether an item is open, and after it
  only the mail of that run is left to tell the applicant.
* `JourneysAreSound` (`JourneysHold`): a loop invariant for the ticks (`Covered`, `LoopFits`) and for the walk
  over past days (`StreakFits`: a set of days closed downwards holds as many as its largest); the rows of an
  offline batch, one by one (`SyncInv`).
* `LibraryIsSound` (`LibraryHolds`): the chunks of a request are all there or not at all (`Whole`); while row
  locks put the requests in order, everybody but the one that holds them is still reading, and what a
  request deletes are all the chunks there are; a window of the text fits the step it was reached by.
* `ProofsAreSound` (`ProofsVerify`): levels, indices and hashes along a path are recursive functions, and what
  holds of each step of them is proved by the first one at which it could fail.  Two hashes that differ
  stay different up the path because the hash of a pair determines both halves; the indices the rows carry
  are their places, so what a certificate lists with an index are the leaves in the order the tree was
  built from, and the anchors beside them have none.

**OperationsProofs.**
* `OnlyOneTicks` (`LeadersTickAlone`): a pod between its GET and its EXPIRE owns the key unless it expired.
* `StepsAreEarned` (`StepsHold`): `StepInv` says where a run of each status stands, that a step executed is
  done once, that each failure on record was remedied or paged, and what a gate's output came from.
  The condition language is covered for atoms and conditions built of them by case analysis.
* `StepsImplementRun` (`ImplementsRun`), the refinement: `ChainInv` says that on a chain what lies
  behind the current step is executed, what lies ahead is fresh and that the walk only goes forward;
  then each action of `StepExecution` on a chain is one step of `ValidationRun` or a stutter of it, one
  lemma per action, and on other graphs the mapped run stays untriggered.
* `LedgerIsSound` (`LedgerIsExact`): children of a token come in whole divisions, because the commit that
  divides writes all of them at once; the amount of a listing that nobody raced for is what a single
  open purchase has loaded; a burn is counted by the request that has it, then by its row.
* `EscalationsAreHandled` (`EscalationsHold`): a dispatcher writes copies of rows that exist and touches no
  column but its own; an operator between commit and record explains the change; the arithmetic of the
  health score bounds every part of it by its weight.
* `ReportsAreTrue` (`ReportsHold`): a registry holds what a submission in flight was answered for, and
  the lock of the polls is held by its poll unless it lapsed.

Every invariant a passing run checks is stated by a theorem.  Only model-checked: the liveness properties,
since fairness and ENABLED are outside TLAPS.  What a recursive function computes is proved where a theorem
needs it, without the library's induction theorems: were there a first step at which the statement fails,
the step before it would refute that (`LeastOf`).


## 6. Where code and documents disagree

One of these is a run that TLC ends with a counterexample, `charcoal_cap`: the cap is applied first and
the fuel adjustment after it.  The others were found the same way while their component was modelled;
the modules keep the property, whose name is given, for whoever wants to see its counterexample.

* `NoTipFork` (AuditChain).  `audit_chain.py:93-97` says that a second writer re-reads the new tip.
  Under READ COMMITTED it gets the row of its own snapshot: two concurrent appends share a predecessor
  and `verify_chain` then reports tampering.
* `ApprovalAdvances` (Lifecycle).  `docs/AUTONOMOUS_PLATFORM.md:37` says approving an item fires the
  next lifecycle step.  An approval publishes a message nobody consumes; the stored confidence stays
  below 0.95, so the scan does not enqueue the project again.
* `SweepOnlyPending` (ReviewQueue).  `sla_auto_approve` "auto-approves a stale pending review item"; its
  check reads the copy of the sweep's first query, so an item that a reviewer has rejected meanwhile is
  approved over that decision.
* `CancelSticks` (ValidationRun).  A run cancelled by a user is set to a running state again by the task
  that executes it, since `advance_state`'s locked re-fetch keeps the session's own attributes.
* `NeverOversold` (Brokerage).  Two purchases that read the same `available_credits` both succeed; a
  trade cancelled twice gives its credits back twice.
* `SentOnce` (BeatLeader).  `beat_scheduler.py:3` promises that pods do not run a task twice; `last_run_at`
  is each pod's own, so a pod that takes over sends what its predecessor has just sent.
* `RetirementIsPermanent` (TokenLedger).  A purchase that sells out a listing sets its token to sold
  although it was retired meanwhile (`token_service.py:252`, docstring at 281).
* `DecisionsArrive` (Reports).  The poll acts on `status_changed`, which the client it calls never
  returns (`report_jobs.py:192`, docstring at 142).
* `ChangesAreReAudited` (LeadPipeline).  The fetch stores the fingerprint the re-audit compares with
  (`docs/PRE_AUDIT_OPTIMIZATION.md:138`).
* `SkipContinues`, `TimeoutsAreRetried` (StepExecution).  `skip_retries` (`remediation.py:128`) and the row
  for timeouts (`remediation.py:23`) do not do what their comments say.
* `HeldIsQueued` (Learning).  A threshold that moves between the two reads of one task leaves a project
  held by an agent for whom nothing was queued (`orchestrator.py:278`).
* `ReasonsAreReported` (Learning).  Override reasons are matched against names that are never stored there
  (`learning/service.py:324`).
* `ChunksAreReplaced` (Knowledge).  Ingestion is called idempotent (`knowledge/service.py:97`); two that
  change nothing, or two first ones, take no lock and leave each other's chunks.
* `CurrentIsFound` (Registers).  The current methodology version may not be found (`api/compliance.py:571`).
* `ServiceIsKnown` (Journeys).  Children of a worker that have run no tick do not know the journey
  service (`journey_service.py:454`).

Others were read off the code and need no run:

* The liaison agent gives an approved report that was never submitted a confidence of 1.0, so a project
  advances from submitted to verified under "registry_approved" without an answer of a registry
  (`vvb_liaison_agent.py:219`, `docs/AUTONOMOUS_PLATFORM.md:134`).
* `client_success` ends at 0.8 at most, so onboarding never advances by itself (comment at
  `orchestrator.py:72`); `AgentsAdvanceOnEvidence` has it as a conjunct.
* P0 events are sent again every minute until somebody handles them, also after a channel has succeeded,
  while `escalations/service.py:4`, `docs/AUTONOMOUS_PLATFORM.md:34,48` and the name of
  `test_p0_redispatch_until_success` (`tests/test_escalations.py:406`) say until a channel succeeds.
  `P0SentUntilSuccess` checks what they promise; the pages after it are beyond it.
* `regulator_notified_at`, `subjects_notified_at`, `resolved_at` and `fulfilled_at` are set anew by every
  PATCH to their status: the time a duty was first met is not kept (`api/compliance.py:255,366`).
* A report whose draft holds only the text of a refusal keeps it, and the html of a later generation is
  lost: the draft is then changed in place (`api/reports.py:316`, `tasks/report_jobs.py:99`).
* A qualified lead whose crediting period does not end after it starts is queued for conversion every night
  (`tasks/pre_audit_jobs.py:244`) and refused every night (`lead_converter.py:93`).
* The API takes any priority and score for a lead (`schemas.py:798,822`), so until the next scoring the two
  need not fit; `PriorityFitsScore` excludes leads whose rating a person entered last.
* The compliance of a calculation has no bound (`schemas.py:285,299`): at 200 percent a report with issues
  advances (`agents/reporting_agent.py:160`).  `CleanReportsAdvance` speaks of calculations up to 100.
* The certificate of a run without captured proofs cannot be checked from what it lists, since its leaf is a
  hash of metadata (`validation_engine/proofs.py:271`); nor can the payload on the ledger, whose time no row
  keeps; an archived run has lost its proofs.
* A mail that tells an applicant what is missing is sent once or, where it fails or there is no address,
  never (`executors.py:1000,1049`).
* A subject request of an unknown subject type is marked fulfilled with nothing erased
  (`tasks/compliance_jobs.py:99`).
* A first validation without a reply of the model always keeps `missing_baseline`; quality control
  flags where its text says "Halt pipeline".
* A rejected calculation can be approved by POST approve; a PATCH to approved skips the check of its
  data sources and may change the figures of an approved run; one with reports cannot be deleted.
* `complexity_score` is used as a latitude; leakage assessed without data is 0, and issuance ignores it.
* `mint_token` does not look at the approval its comment speaks of (`token_service.py:50`).
* An operator's `rejected` overwritten by a task that advances the project, status and decision of a
  review item from two reviewers, a half-open breaker closed by a late success, a deposit that nobody
  returns when its trade is cancelled: in every interleaving of their kind, and no document promises
  otherwise.

## 7. What is not modelled, and why

* Inside the modelled parts: the wording of prompts, mails and reports; what step executors compute
  (what an HTTP, query or model call answers is a choice); the hash chain of a validation run's own
  transitions; the batches of the archival; a proof or a tree that cannot be stored, which fails its run; commission invoices; loss of Redis messages; websocket
  notifications (no state depends on them); more than one project, run, listing, lead or application
  at a time (rows of different ones do not meet, except in the audit chain).
* Floating-point and Monte Carlo arithmetic (emissions, leakage, confidence intervals): TLC has no
  reals, and none of it keeps state.  Scores that are weighted sums are exact integers in the modules.
* Parsing, scraping, text generation, retrieval, registry and blockchain HTTP clients: input and
  output without a protocol between actors; the modules have what their callers distinguish.
* Cryptography and library code: taken for what it promises.
* Web and mobile clients: the protocols they use are those of the routers.

## 8. Plan

* Refinement: `Log`, an append-only list, of which `AuditChain` without races is an implementation; `Lock`,
  at most one holder, implemented by `BeatLeader` and by the polls of `Reports` as long as no time to live
  runs out between two calls; `Ledger`, tonnes that move between owners and are retired, implemented by
  `TokenLedger` without overlapping commits.
* Properties: the hazards of section 9 that state rather than wording decides, above all those of the
  validation engine's archival and of the two-step completion of escrow trades.
* Components: the transition chain of a validation run, and the websocket fan-out if state comes to
  depend on it.


## 9. Further hazards

Hazards met while modelling that no property watches, beside those in `PROJECT.json`, by the component
they bite in.

* `orchestrator/orchestrator.py:730` (stale state): two resolutions on different loaded copies each write only the columns that differ from their copy, so status and human_decision may come from different reviewers.
* `core/circuit_breaker.py:70` (stale state): a success of a call that was let through before the breaker opened closes a half-open breaker although no test call has succeeded.  `chat_completion` swallows its exceptions, so the breaker of the Kimi API never opens.
* `validation_engine/tasks.py:206` (liveness): recover_stuck_validation_runs says it is run periodically via Celery beat or manually, but beat does not schedule it.
* `tasks/celery_app.py:33` (liveness): no deployed worker subscribes to the queues "validation" and "compliance" (`docker-compose.production.yml:81`, `infrastructure/k8s/base/celery-worker-deployment.yaml:41`).
* `validation_engine/orchestrator.py:289` (partial failure): a worker that dies between the transition to failed and _handle_run_failure leaves a failed run nobody is told of; the redelivered message sees a terminal run.
* `api/validation_engine.py:266` (partial failure): a request that dies after the commit of the run and before delay leaves a pending run that is never executed.
* `validation_engine/tasks.py:164` (partial failure): the first batch commit marks the run archived; a crash after it leaves proofs no later sweep selects.
* `validation_engine/orchestrator.py:200` (other): a cyclic workflow raises before the try of execute_workflow and leaves its run pending for ever.
* `validation_engine/orchestrator.py` (other): the retry policy is read from `step.config`; `require_human_approval`, `auto_approve_threshold`, `human_gates_required` and `timeout_ms` are never enforced; a gate's result does not decide the branch; `dom_capture` always raises.
* `validation_engine/tasks.py` (stale state): a late acknowledgement overwrites a resolution of a human escalation; a run resumed by an operator is set to queued, which execute refuses.
* `brokerage/transaction_engine.py:193` (ordering): only the transfer releases: when the buyer deposits after the seller has transferred, nothing releases the escrow but an operator or a repeated transfer.
* `brokerage/transaction_engine.py:251` (partial failure): a cancelled escrow trade keeps its escrow "holding" and the deposit is never given back.
* `brokerage/transaction_engine.py:72` (protocol sequence): a forward trade has no operation that completes it.
* `escalations/service.py:197` (interleaving): acknowledge checks the status it read: between the check and the commit another request resolves the event, and acknowledged overwrites resolved.
* `tasks/escalation_jobs.py:70` (resource bound): the sweep takes the 25 oldest open P0 events: with more than that open, the newest are never sent again.
* `tasks/beat_scheduler.py:82` (timeout retry): close deletes the lock after checking its owner in a separate call, so it may delete that of the next leader.
* `tasks/lifecycle_jobs.py:189` (timeout retry): the sweep selects old failed rows whatever came after them, so a target resolved since is remediated and escalated again, every 15 minutes.
* `tasks/lifecycle_jobs.py:192` (resource bound): a sweep reads the newest 50 failed rows: while targets that fail again and again make that many, an older one is forgotten (`FailedNotForgotten` excuses a target that is `Crowded` out).
* `remediation/engine.py:318` (interleaving): two rounds on one target read the same maximum and log the same attempt number.
* `tokenization/token_service.py:195` (protocol sequence): a token sold in full can be listed again for all of its tonnes, since only its size is compared.
* `tokenization/token_service.py:54` (protocol sequence): nothing stops a second mint of one run.
* `tasks/pre_audit_jobs.py:292` (partial failure): the pre-audits are queued before the new fingerprints are committed: a failure queues them all again.
* `tasks/lead_jobs.py:64` (interleaving): a manual scrape and the daily one both find a lead missing and insert it: the unique constraint fails the whole scrape of the later one.
* `tasks/compliance_jobs.py:63` (partial failure): after the last retry the request is marked rejected although part of the subject is already erased; `compliance_jobs.py:272`: the erasure of a user who is in the audit log fails on PostgreSQL every time; `api/compliance.py:696` sends a task name nobody has registered.
* `tasks/report_jobs.py:202` (stale state): the poll writes the status over whatever a human did since it selected the reports.
* `tasks/report_jobs.py:100` (stale state): draft_content of a report that already has one is changed in place, which the session does not notice, so the new draft is not written.
* `tasks/jobs.py:211` (timeout retry): a redelivered processing of an upload stores a second data source for one file.
* `services/pipelines/excel_csv.py:102` (numeric edge): a spreadsheet that cannot be read gets a confidence of 0.9; `image.py:155`: a picture with a time of its own raises; `services/provenance.py:67`: the hash of a record never verifies after add_transformation.
* `services/whatsapp/bot.py:284` (liveness): a support flow past its first step is stuck until it expires; `state_machine.py:146`: the counter of a window may be left without expiry; `intent_classifier.py:170`: a picture is accepted as the answer to a choice.
* `services/whatsapp/state_machine.py:55` (partial failure): a failed read returns the default state, so an outage of one call restarts the survey and the next write replaces it.
* `auth/sessions.py:114` (other): the time to live of a session is never prolonged.
* `api/oauth.py:180` (interleaving): two callbacks of one person link twice; `api/users.py:116` (protocol sequence): a user whose row has a legacy hash can be created again; `users.py:70`: settings are changed in place.
* `api/auth.py` (protocol sequence): an invitation that expired unused blocks new ones to its address.
* `knowledge/service.py:95` (interleaving): two first ingestions create two documents, after which every ingestion raises.
* `validation_engine/executors.py:913` (interleaving): two pending hand-offs make scalar_one_or_none raise; an upload during the first run is never classified; a run that ends late overwrites fresher findings; a crash after the commit loses the mail.
* `validation_engine/journey_service.py:310` (numeric edge): of three or more rows of a household in one offline batch several stay valid; `tasks/validation_jobs.py`: the in-flight check and the creation are two steps; the marker of an account journey makes later ones fail.
* `validation_engine/proofs.py` (other): lists of leaves of different length can have one root, since the last node of an odd level is doubled.
* `brokerage/matching_engine.py` (timeout retry): a global run repeats suggestions that exist; `brokerage/corporate_service.py:71` (interleaving): two holdings added to one portfolio add to the same total they read (tests alone call it).
* `api/compliance.py` (other): the independence check raises when two disclosures block.
* `learning/service.py` (numeric edge): a further reversal lowers a learned threshold.
