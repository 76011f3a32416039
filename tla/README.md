# Formal model of the ITSM platform

TLA+ specifications of this repository: how an employee's request becomes an authorized operation,
**whether, when and how often that operation is carried out**, and the rules every message, answer,
document and reader has to pass on the way. Each module is translated from the source; the
correspondence, definition by definition, is in `PROJECT.json` under `map`.

Contents: [inventory](#1-inventory) · [modules](#2-modules-and-the-code) · [runs](#3-runs) ·
[proofs](#4-proofs) · [disagreements](#5-where-documents-and-code-disagree) ·
[plan](#6-plan) · [not modelled](#7-not-modelled)

To repeat everything: `tlc -config X.cfg MCModule` for each run of section 3,
`tlapm M.tla` for each `*Proofs.tla`.

---

## 1. Inventory

The platform takes an employee's request, lets an agent propose an operation, has a human or a
policy authorize it, and executes it at most once. Three processes share one PostgreSQL database:
RagCore (Python: HTTP API, agent graph, workers), the Integrations Service (Python: connectors and
the command consumer) and a read-only .NET service. They talk over Azure Service Bus. Paths below
are under `ragcore/src/ragcore/` unless they say otherwise.

| Component | State it keeps | Operations | Talks to | What is hard | What makes it correct |
|---|---|---|---|---|---|
| **Work item authority** `persistence/repositories.py`, `persistence/concurrency.py`, `execution/claim.py`, `ragcore/workers/expiry_sweep.py` | `work_item`: state, version, `expires_at`, `claimed_at` | claim, transition, list_expired, sweep | resume worker, sweeper, API writers, all through row locks | a claim's predicate is evaluated several steps before it commits; the sweeper acts on rows read earlier | one claim, inside the window, on work still authorized; expiry never lands on work that moved |
| **Idempotent execution of a trigger** `messaging/sample_flow.py`, `execution/*`, `ragcore/workers/resume_worker.py` | `idempotency_record` | claim → replay → act → remember → notify, in one unit of work | work item, SignalR | redelivery, crash between act and commit, push before commit | at most one committed effect per key |
| **Transactional outbox** `messaging/outbox.py`, `ragcore/workers/outbox_dispatch.py`, `messaging/retry.py`, `messaging/deadletter.py` | `outbox_message`: seq, attempts, `dispatched_at` | enqueue, undispatched, publish, mark, record failure, report | writers' transactions, Service Bus | crash between send and mark; commits out of sequence order; poison and refused rows | nothing uncommitted sent, nothing unsent marked, every committed row sent in the end, exhaustion surfaced |
| **Integration seam** `persistence/integration_jobs.py`, `ragcore/workers/integration_result_worker.py`; `integrations/…/{messaging/consumer,execution/executor,policy/checks,persistence/jobs,persistence/executions}.py` | `integration_job`, `integration_execution` (one row per key), queue message with delivery count | dispatch, load, authority, access and key check, invoke, record, settle, conclude | both services share the job row; broker | check, call and record are separate transactions; two deliveries overlap; dead-lettering | one answer per job, never revised; answered or withdrawn work is not called; completed means answered |
| **Integration result outbox** `integrations/…/persistence/executions.py` | `integration.outbox_message` | claim_pending (SKIP LOCKED), mark, record failure | Service Bus | concurrent dispatchers, ceiling | as the trigger outbox; nothing calls it yet |
| **Agent graph and checkpointing** `graph/*` | checkpoint: channels and next node; several runs in memory | invoke, resume, thirteen nodes, two interrupts, abort | gate, repositories, models | runs of one thread are not serialized; facts are read in separate awaits; a run dies anywhere | only standing durable authority is spent; a thread at rest says why; no run turns back |
| **Governance gate, policy, conditions** `governance/*`, `domain/{governance,roles}.py` | none (pure) | assign treatment, evaluate | agent graph, catalogue, decisions | half-open window, missing window, wrong role, other version | proceeds exactly when authorized; asks staff only what staff can answer |
| **Approval and consent records** `persistence/repositories.py`, `domain/{work,decisions}.py` | `approval`, `consent` | record_verdict, record consent, decision_for | gate, staff | two deciders; runs copy the verdict | the first verdict stands, in every copy |
| **Session lifecycle and feedback** `application/sessions.py`, `domain/session_state.py` | `chat_session`, `message`, `feedback` | advance, triage, transition, record feedback | work item, cases, audit | several requests of one conversation read, decide and write | an ended session stays as it ended, and is stamped for removal |
| **Cases, escalation, cancellation** `application/{cases,escalation,cancellation}.py` | references, audit entries | anchor, escalate, cancel | system of record, session | a write no transaction covers precedes one that may be refused | what the audit trail calls an escalation, the system of record was told of |
| **Retention and erasure** `ragcore/workers/retention_sweep.py`, `persistence/{retention,erasure}.py` | `content_expires_at` | sweep, prune checkpoints, erase | sessions, checkpoints, overrides | overrides change between stamp and pass; the pass overlaps requests | neither too much nor too early |
| **Resilient egress** `egress/http.py`, `platform_clients/*`, `model/*`, `retrieval/search.py` | attempts of a call | send, time out, back off, classify, read | Integrations, AI gateway, index | a timed-out attempt goes on at the far side beside the next one | one case per session; outcomes that can be acted on; every call ends |
| **Content safety** `model/safety.py` | none | screen in and out | screening service | the service fails in the middle of a call | what was not let pass does not cross |
| **Workload API, connectors** `integrations/…/{api/workload,connectors,mcp,execution/normalization,catalogue}` | none | create_case, invoke tool, look up, discover | providers | unusable provider answers | only bounded, known fields come in |
| **Retrieval and ranking** `retrieval/*` | none | fuse, rerank, assess confidence | index, models | ties, empty legs, foreign documents | ranking is faithful; evidence is one's own |
| **Transient cache** `infrastructure/cache.py` | Redis entries with expiry | get, put, invalidate | Redis shared by all organisations | outages, stale entries, padded keys | only fresh entries of one's own organisation |
| **Identity and admission** `api/middleware/*`, `api/deps.py`; `integrations/…/api/middleware/*` | tenant registry (read) | admit, require role | gateway headers | self-asserted fields, suspended organisations | authority only from the contract's headers and the registry |
| **Messages and queues** `messaging/publisher.py`, `domain/envelopes.py`; `integrations/…/messaging/*` | none | row → body → queue → verdict | Service Bus | three consumers share queues' shapes | what one side publishes the right consumer accepts, and nothing else |
| **Audit trail** `application/audit.py`, `domain/audit.py` | `audit_event` | record, search | all | retention of each record | every consequential moment leaves a row that can be found |
| **.NET read service** `persistence/views.py`, `dotnet/` | none | admit, scope, page, count | views | rows come and go between two pages | a reader sees its own organisation, each standing row once |
| **Ingestion**; **configuration, routing**; **web and desktop clients** | – | – | – | – | not modelled, section 7 |

The hazards of this code, each at its line and with the properties aimed at it, are in
`PROJECT.json` under `hazards`.

---

## 2. Modules and the code

| Module | Models | Extends / uses |
|---|---|---|
| `Values` | `NULL`, Python's `None` | – |
| `Governance` | roles, treatment policy, gate, conditions, consent and approval evaluation, confidence, scope guardrail, triage | `Values` |
| `Boundary` | outbound policy and classification, provider answers, normalization, capability access, seam envelopes | `Values` |
| `Admission` | self-asserted fields, identity headers, registry, recovered organisation | `Governance` |
| `Records` | execution reports, operation columns, audit rows and their retention | `Governance` |
| `Messages` | outbox row → body → queue → consumer's verdict, both directions | `Boundary` |
| `ReadService` | published views, .NET admission, scope, keyset paging, dashboard | `Admission` |
| `Retrieval` | fusion and rerank on rational scores | – |
| `Cache` | *stateful*: the transient cache | `Values` |
| `Decisions` | every pure decision against what it promises, beside the cache | all of the above |
| `Agent` | agent graph, checkpoint, runs, records of the gate | `Governance` |
| `Session` | one session: moves, case, feedback, retention, erasure | `Records` |
| `Egress` | outbound calls and the far side of every attempt | `Boundary` |
| `WorkItem` | work item rows, consumers, sweepers, writers, operator | – |
| `TriggerChannel` | *abstract*: what the outbox promises | – |
| `Outbox` | outbox rows, writers' transactions, dispatchers | implements `TriggerChannel` |
| `JobAnswers` | *abstract*: what the integration seam promises about a job | – |
| `IntegrationExecution` | jobs, command messages, consumers, conclusion | implements `JobAnswers` (`answer <- result`) |
| `MC…` | instances for TLC: record-valued constants and symmetry | the module named |
| `…Proofs` | theorems and lemmas | the module named, TLAPS |

Pure code is modelled once, as operators, and used both by `Decisions`, which enumerates its inputs,
and by the state machines: `Agent` runs the gate of `Governance` on records that change under it,
`Session` uses the triage of `Governance` and the windows of `Records`, `Egress` the classification
and the access policy of `Boundary`.

Throughout, PostgreSQL runs at READ COMMITTED, everywhere (`persistence/engine.py:3`): a SELECT sees committed
rows, an UPDATE waits for the row lock of an open transaction and then re-evaluates its predicate.
A transaction is explicit wherever another actor can step into it.

### 2.1 `WorkItem`

`rows` and `outcome` are the committed `work_item` and `idempotency_record` tables. `pending[p][w]`
is what the open unit of work of process `p` wrote for `w`: it is the row lock (`LockedByOther`) and
vanishes on rollback.

* **Consumer** (`execute_sample_flow`): `Receive` reads the clock once (the code passes one `now`
  to every step) → `ClaimWon`/`ClaimLost` (`claim_once`: conditional UPDATE, waits for a lock,
  predicate re-evaluated) → `BeginEffect` (`replay`: act only when no outcome is recorded) →
  `Act` → `Notify` (the SignalR push, *inside* the unit of work) → `Commit`, or `Abort` anywhere
  (exception, crash, connection loss), after which the trigger is redelivered. `remember` is an
  UPDATE, so it takes effect only for a key in `Reserved`, one whose row exists.
* **Sweeper**: `ListExpired` reads up to `SweepLimit` overdue rows, oldest first (ties in either
  order); `SweepRow` is one guarded transition, skipped when the version moved; `SweepCommit` ends
  the pass, `SweepAbort` loses it.
* **Writers**: `ReadRow`, later `Transition` with the version read (`guarded_update`), each in its
  own short unit of work.
* **Environment**: `Tick`, `DuplicateDelivery`. `Authorize` and `ReleaseClaim` are taken from the
  tests, which stand in for the catalogue write that authorizes work and for an operator's recovery;
  no application code performs them yet.

`effects` counts operations performed, `applied` those whose consumption committed, `notified`
pushes sent: history, read only by properties.

### 2.2 `TriggerChannel` and `Outbox`

`TriggerChannel` has two actions, *accept* (the state change commits) and *deliver* (at least once,
only what was accepted). `Outbox` adds what makes that hard: `Enqueue` draws the sequence number at
the INSERT, `EndWrite` commits or rolls back later, so rows become visible **out of sequence
order**; `BeginPass` reads the oldest `BatchSize` undispatched rows; `Publish` may be accepted,
refused, or accepted and still raise; `MarkDispatched` / `RecordFailure` are uncommitted until
`EndPass`; `Malform` is the row no envelope can be rebuilt from, which raises out of the pass;
`Crash` loses the pass but not what was sent. A dead-letter report (`reported`) leaves the process
at once and is not rolled back.

### 2.3 `JobAnswers` and `IntegrationExecution`

`JobAnswers`: a job is answered once; a conclusion agrees with the answer and never changes.
`IntegrationExecution` refines it with the five separate transactions of one delivery:

`Receive`/`Reject` → `Load` (instruction and the facts `is_executable_at` reads) →
`CheckAuthority` (clock read here, later than the row) → `Refuse`/`Permit` (`AccessPolicy`) →
`CheckKey` (`execution_for_key`) → `Invoke` (succeeds, fails, or unreachable **with or without**
effect) → `Record` (execution row, job answer, audit, result outbox row in one transaction; losing
the unique key rolls all of it back) → `Settle`. `Fail`/`NoCredential` raise: the consumer
abandons, the broker redelivers and dead-letters at `MaxDelivery`. Meanwhile RagCore moves the work
(`MoveWork`), the organisation is suspended, catalogue facts are lost, the clock ticks and messages
expire. `Conclude` reads the job row, never the message.

Abstractions:

* The operation of a work item stands for the derived key; the derivation is a hash of
  (organisation, work item, operation), and two jobs of one operation share it.
* `AccessPolicy.evaluate` makes several reads. They are one step because facts are only ever lost:
  whatever refusal a sequence of reads can produce, one read at a suitable moment produces.
* What the message of a result says is not represented: RagCore's worker ignores it and reads its row.
* Whether the far system collapses two calls by `X-Idempotency-Key` is outside this repository, so
  `calls` counts calls sent that took effect at the boundary.
* The job's `dispatched` status column and the audit row are part of transactions that are modelled
  and are not distinguished.

### 2.4 `Agent`

One conversation thread. `saved` is the checkpoint (channels and next node), `run[r]` an invocation
under way with the channels it holds in memory, the other variables are the durable records the
gate reads. `SendMessage`, `InvokeWithProposal` and `Resume` start a run from the checkpoint it
finds; nothing in `graph/host.py` keeps a second one out, so runs overlap. A node computes on the
run's own channels; `Return` reduces its writes and checkpoints them with the next node. The sealing
reducers of `graph/state.py` are guards: `MaySeal` (a treatment only becomes stricter), `Mirror`
(the first decision stays), `RecordExecution` (a second record raises).

`govern` awaits four times, so it is four actions (`GovernLookup`, `GovernEntitled`,
`GovernVerdict`, `GovernDecide`) with the rest of the platform free to step between. `Suspend` ends
the run at an interrupt; woken, `WakeConsent`/`WakeApproval` read the durable row, ignore the resume
payload and return to the gate. `Execute` invokes (`calls` counts) and `RecordExecution` seals, so
that a crash between them is a behaviour. `Abort` is an exception, a disconnected client or a dead
process, anywhere. Around the thread: staff (`RecordVerdict`), the requester (`RecordConsent`), an
administrator (`SetStatus`, `SetEntitlement`, `Register`), and `RaiseOperation`, the insertion of
operation and approval rows, which `src/` reads and nothing in it performs (external).

Abstractions: one capability, whose versions are the catalogue; a turn is its sender, length and
scope; model text is opaque; the classification channel, which no node reads, is left out; the
clarification interrupt is built and wired to no edge, so it is no action.

### 2.5 `Session`

`row` is the `chat_session` row, `request[r]` a request that has read it. No code in `src/` puts the
pieces together into one unit of work, so each is a step of its own: `Read` takes the version and
state; `RecordProgress` is the write to the system of record that no transaction covers
(`CaseAnchoring`, `EscalationPath`), which is accepted or held for replay; `AuditEscalation` and
`OpenWorkItem` write the row that `escalate` and `advance` write before they name a state;
`Transition` is the guarded update of `SessionRepository.transition`, with the stamp that
`content_expiry_for` gives the state and its caller passes. `Abandon` stops between any two, and what
is written stays. `Replay` is the late arrival of a write that was held. Messages and feedback are
written beside it, with the ownership check of `FeedbackRepository.record`. Retention: `SetOverride`, `SweepBegin` (selects),
`Prune` (deletes checkpoints, outside the sweep's transaction), `SweepCommit`, `SweepAbort`, and
`Erase` for the organisation. `closed` remembers when and under which window the session ended:
history, read only by properties.

### 2.6 `Egress`

`call[c]` is a caller inside `ResilientHttpCaller.send`, `exchange[c][n]` the far side of its n-th
attempt, which goes on by itself after the caller has timed out. The caller: `Begin`, `ScreenIn`
(`SafeModel`), `Send`, `Receive` (classify; read, fail or back off), `TimeOut`, `ScreenOut`. httpx's
`timeout` bounds each wait on the network and not the attempt: from `Trickle` on the far side keeps
the bytes moving, and the attempt need not end. The far side: `Answer` (gateway, index and edge answer as they please), and for a case `Evaluate`,
`Resolve`, `Post`, the Integrations handler up to its one POST, each reading the entitlement
afresh while an administrator may change it. A POST is lost, takes effect with its answer usable, unusable or
lost, or is answered with a failure. The system of record keeps one case per idempotency key:
external, as the adapter's header uses it.

### 2.7 `Decisions` and `Cache`

`Decisions` takes one decision per behaviour: each `Decide…` action picks an input from the
enumerated set of one kind and writes it with what the code's operator answers; the invariants
compare the answer with an independent statement. `ProceedsIffAuthorised` and `ApprovalAloneResumes`
are about the gate; `RankingIsFaithful` about fusion and rerank; `PagesContract` about a client that
pages through a collection which changes meanwhile, by any key; `ContractsHold` is the conjunction of
eleven contracts, one to a boundary: `SeamContract`, `DoorContract`, `ConnectorContract`,
`EmbeddingContract`, `EntryContract`, `CatalogueContract`, `LegContract`, `AuditContract`,
`ReaderContract`, `ConversationContract`, `DashboardContract`. What a trail holds is
not enumerated: it is what the audit writer (`Recorded`) makes of a set of moments. The cache has
state and is stepped beside it: `CacheServesOnlyFreshOwn`.

Each of the eleven is broken, with the inputs of `MCDecisions`, by a change of one place: a missing
key read leniently (`FromJson`), a suspended organisation let in (`Admit`), a tool call sent as
retriable (`InvokeTool`), one character too many (`Truncated`), a row taken in although its
roles are not understood (`RecordFromRow`), an entitlement looked up without its organisation
(`IsEntitled`), a failed call reported with the far side's verification (`RunLeg`), a first moment
left out (`AuditSearch`), any role accepted (`Permits`), an expiry that is still open at its instant
(`Readable`), decisions not yet approved counted as such (`NotExecuted`).

Abstractions: a JSON value is its kind and length, a field name its folded spelling, a score an
integer (a fused one a fraction), an identifier a value, `""` or `"malformed"`.

---

## 3. Runs

Passing runs:

| Run | Instance | Properties |
|---|---|---|
| `WorkItem` | 2 work items, 2 consumers, 1 sweeper, 1 writer, 2 faults (992 k states) | `TypeOK`, `AtMostOneCommittedEffect`, `ClaimInsideWindow`, `ExpiryHitsOnlyWaitingWork`, `WithdrawnWorkIsNeverClaimed` |
| `WorkItemLive` | 1 consumer, fairness | `ClosedWindowIsSettled` |
| `Outbox` | 3 rows (1 refused, 1 malformed), 2 dispatchers | `TypeOK`, `NeverMarkedUnsent`, `ExhaustedIsSurfaced`, `PublishesOnlyWhatCommitted` (refinement of `TriggerChannel`) |
| `OutboxLive` | 3 well-formed rows, batch of 1, fairness | `EveryCommittedTriggerIsPublished` (refinement of the fair channel) |
| `Integration` | 1 job, 2 messages naming it and a stray one, 2 consumers (1.5 M states) | `TypeOK`, `AnsweredWorkIsNotCalledAgain`, `WithdrawnWorkIsNotCalled`, `HandledMeansAnswered`, `ActedMeansCalled`, `AnswersAreFinal` (refinement of `JobAnswers`) |
| `IntegrationLive` | 2 messages, 1 consumer, fairness | `EveryCommandEnds` |
| `Agent` | 2 runs, 2 catalogue versions, 2 kinds of turn, 2 invocations, 1 change (1.5 M states) | `TypeOK`, `SpendsOnlyStandingAuthority`, `RestIsExplained`, `MirrorIsTheRow`, `RunsOnlyAdvance` |
| `Session` | 2 requests of 3 kinds, 2 messages, 2 overrides (1.6 M states) | `TypeOK`, `FeedbackIsOwned`, `EndedWillExpire`, `EndedIsFinal`, `RetentionIsExact` |
| `Egress` | 2 calls of six workloads, 2 attempts, fairness (294 k states) | `TypeOK`, `OneCasePerSession`, `OutcomeIsHonest`, `BlockedTextNeverCrosses`, `OnlyOwnEvidence`, `EveryCallEnds` |
| `Decisions` | enumerated inputs, one decision each, cache beside (400 k states) | `ContractsHold`, `PagesContract`, `ProceedsIffAuthorised`, `ApprovalAloneResumes`, `RankingIsFaithful`, `CacheServesOnlyFreshOwn` |

`IntegrationTwice` and `EgressRefires` each find the violation of one statement of the documents
(section 5).

**Bounds, and why they suffice.** Two actors of each racing kind are what every race here needs (two
consumers for one claim, two dispatchers for one row, two deliveries for one key, two runs of one
thread, two requests of one session, two callers of one case); a second work
item makes the sweep limit bite, a third outbox row makes the batch bite. `Window = 1`,
`MaxTime = 2` give instants inside, at and after the window. `MaxFaults` allows a failure and a
failure of the recovery. `Ceiling = 2`, `MaxAttempts = 3` separate below, at and past the ceiling
(the count saturates there); `MaxDelivery = 2` or `3` separate first and last delivery.
`MaxVersion` stops only the writers (`WorkItem`) and the moves (`Session`, where three versions let
a request be overtaken twice).
`Agent`: two versions are what binding a decision to a version needs; two invocations are a turn and
its resume, or two runs overlapping; one change lets the fact that was read go stale; with
`Window = MaxTime = 1` the clock stands inside and at the end of the window. `Session`: a default
window of 2 with overrides below it and `MaxTime = 2` makes content due, not yet due, and due only
under the override that was in force. `Egress`: two attempts are a first one that lingers and the
last one; the statuses are one of each class, 403 being the one that is read specially.
`Decisions`: inputs are enumerated so that every branch and every boundary value occurs (window end,
size limit, equal scores, page ends); the cache has `MAX_TTL = 2` and a clock to 4, so an entry is
fresh, at its end, gone and rewritten.
The proofs of section 4 remove these bounds, and the enumeration of inputs, for every safety
property of the passing runs except two contracts of `Decisions` (section 4, last paragraph).
Symmetry (over processes, runs, requests) is used only in runs without liveness.

**Deadlock** is not checked: with counters at their bounds, queues empty and all processes idle the
system legitimately has nothing left to do, and a decision, once taken, is final.

**Fairness**, and what in the code justifies it:

* `WorkItem`: time passes; a consumer inside a unit of work finishes it (asyncio task with
  timeouts); a sweeper pass is invoked again and again (`expiry_sweep.main` leaves the schedule to
  the deployment; the module's purpose presumes one). Nothing forces a consumer to receive or a
  writer to write, and aborts are possible within the bound on faults.
* `Outbox`: a writer's transaction ends; passes of `dispatch_once` follow one another (the
  caller owns the schedule) and a pass that began takes its steps. Crashes and transient failures
  are bounded: "the transport recovers" is the assumption.
* `IntegrationExecution`: a consumer keeps receiving and handling; RagCore handles the
  result messages it is sent. Nothing makes the environment act.
* `Egress`: the caller's own steps (`Send`, `Receive`, `TimeOut`), as long as the far side does not
  trickle: a sleep ends, and so does a wait in which no byte moves, which is what httpx's `timeout`
  bounds (`http.py:290`). `EveryCallEnds` therefore excepts the calls whose last attempt trickles for
  ever. Nothing is assumed of the far side, nothing of the screening service, which has no timeout
  in `model/safety.py`, and nothing of the acquisition of a token (`integrations.py:160`), which comes
  before `Send`.

---

## 4. Proofs

All are invariance arguments, for **every** number of rows, processes, messages, requests, runs and
calls, every input of the decisions and every value of the bounds, from the named `ASSUME`s of the
modules (`NULL` is distinct from values, counters are naturals, `Reserved`/`Keyed`/`Refused` are
subsets, consumers and sweepers are disjoint, writers do not ask for `open`, `authorized`, `claimed`
or `expired`, an override that is an integer is one, a planned call is well formed). TLC evaluates
each of them in the run of its module.

Those of `Agent` and `Decisions` say no more than what the code's own types say of its inputs, since
the theorems hold for every set of them:

| Assumption | What it says, and why it is so |
|---|---|
| `GateNull`, `AgentNull` | `None` is not a member of an enumeration, a record or a version |
| `InputAssumption`, `BoundAssumption` (`Agent`) | entries are catalogue records, turns and search results are lists of them, windows and bounds are naturals |
| `GateAssumption`, `PeopleAssumption` | a request is a `GateRequest`; its decision, if any, a consent or a staff verdict with the roles then held; the recorded decisions one may ask for include those of a requester and of each staff role |
| `MessageAssumption`, `BoundaryAssumption` | a body has fields and lengths, an identifier is one value; sizes and statuses are naturals |
| `DoorAssumption`, `ReaderAssumption`, `AccessAssumption` | headers carry strings; a registry maps directory ids to organisations; versions are naturals or none |
| `CatalogueAssumption`, `ConversationAssumption`, `LegAssumption` | rows have the columns of their table, and an id names one row where the table has it unique |
| `RankingAssumption` | a leg is a list of scored references, candidates are finitely many with one score to a reference, scores are integers |
| `CollectionAssumption` | a snapshot is finite and an id names one of its rows (the primary key); keys are integers or null; the walk is given more requests than there are rows in all, so that it may come to its end |
| `ApprovalAssumption` | the tables behind the dashboard are finite; `decided_at` and `verdict` are set together (its CHECK), `work_item_id` is unique to an approval, and an approval or operation belongs to a work item of its organisation; instants are naturals |
| `MomentAssumption` | finitely many moments were recorded, each by one of the writer's three methods; instants are naturals |

**`WorkItemProofs`** – `TypeCorrect`, `AtMostOnce`, `ClaimsRespectTheWindow`, `ExpiryIsSafe`,
`ClaimsHitAuthorizedWork`. None is inductive alone. `IInv` adds
`RowLocks` (one open writer per row), `ConsumerInv` (a consumer past its claim holds exactly the
claim of the *current* committed row, which still satisfies the claim predicate at the instant the
consumer read; if it acts, there is still no outcome), `SweeperInv` (an uncommitted expiry is of a
row that is still overdue; a candidate's version is at most the row's, and equal only if the row is
still overdue — why the version check is enough), `EffectInv` (an applied effect has its outcome
recorded) and `OpenIsUnclaimed` (authorizing does not overwrite a claim). The heart: `RowLocks`
freezes the row between the predicate and the commit, so at the commit nothing has been decided
elsewhere.

**`OutboxProofs`** – `TypeCorrect`, `NothingIsLost`, `UndispatchableIsSurfaced`,
`ImplementsChannel`. `IInv` adds `PassInv` (what a pass marked was accepted; what it
holds is committed; what it counted to the ceiling it reported) and `RowLocks` (two passes do not
mark or count the same row at once, so a count is never lost and the crossing of the ceiling is seen by
the pass that commits it). `ImplementsChannel` is the safety half of the refinement.

**`IntegrationExecutionProofs`** – `TypeCorrect`, `NoCallAfterAnswer`, `NoCallAfterWithdrawal`,
`HandledIsAnswered`, `ActedIsCalled`, `AnsweredOnce`. `IInv` adds `RunOK` (per
delivery: a run received after the answer never passes the key check; one received after withdrawal
never passes the authority check, although row and clock are read at different moments, because
withdrawal is permanent; a run about to record success has called; a run about to settle has a
record) and `AnswerOK` (an answer comes with the execution record of its operation, and "executed"
with a call). `AnsweredOnce` is the refinement of `JobAnswers`.

**`SessionProofs`** – `TypeCorrect`, `EscalationsAreHandedOver`, `FeedbackHasAnOwner`, `ExpiryIsStamped`,
`EndsAreFinal`, `RetentionTakesWhatIsDue`. `IInv` adds `ReadsAreOfThePast` (what a request read is
no newer than the row, and while its version still stands so does the state: why one guarded version
suffices), `ReceiptsAreTrue` (what a request was told, the system of record knows),
`EndedIsClosed`, `MessagesHaveARow` and `SweepIsDue` (what a pass selected is still due when it
commits: an ended session does not move and its window does not change, although the override may).

**`EgressProofs`** – `TypeCorrect`, `CasesAreUnique`, `OutcomesAreHonest`, `ScreeningHolds`,
`EvidenceIsOwn`. `IInv` is local to a call: `CallerOK` (where the caller stands bounds its attempts
and its outcome; nothing has left before screening; an outcome points at the exchange that
justifies it) and `ExchangeOK` for each attempt (only a case with an owner gets past the handler;
success is said only of a case that is held; what was posted is never answered as a refusal), with
`CasesOK` for the system of record (one case to a key, and the key is the session's). An answered
exchange never changes, and cases are never removed, so what an outcome rests on stays true under
every late attempt: two lemmas, `CallerMoves` and `FarSideMoves`, say so once for all actions.

**`GovernanceProofs`** – `GateAnswers`: `gate.evaluate`, written as a cascade of early returns over
two helpers, is one decision table (`Answer`) on whether anything withholds, and on the kind,
version, maker, verdict and window of the decision. The two modules below rest on it.

**`AgentProofs`** – `AgentTypeOK`, `AgentRests`, `AgentMirrors`, `AgentSpends`, `AgentAdvances`. The
thread's state exists in many copies, the checkpoint and the channels of every run under way, so the
invariant is said of *one copy and the node it stands at*, against the durable rows. `CopyOK` has
five parts: `Announced` (what is pending fits where the copy stands), `Answered` (so does what has
been done), `Explained` (what a copy has at that point, withheld, rejected or executed, accounts for
how it will come to rest), `Standing` (a copy about to execute rests on authority that stands) and `Mirrored` (a
mirrored verdict is the row's). `ReadsStand` adds that what a run has read in the middle of `govern`
is still what the rows say: entries are never edited and verdicts never replaced. (Entitlement may be
taken away between its read and the gate, so nothing is claimed of it, and
`SpendsOnlyStandingAuthority` does not either.) A node that returns makes one new copy out of an old
one, one lemma to a node; every step of the rest of the platform leaves all copies right because it
only writes what no copy relies on (`RowsStand`, `PlatformKeepsCopies`). `AgentSpends` and
`AgentAdvances` are action properties, proved from the invariant action by action.

**`DecisionsProofs`** – the invariant is `EntriesArePuts` (each entry in Redis was written by an
accepted put of the organisation and key it stands under, and expires within `MAX_TTL` of it) for the
cache, and `DecisionIsMade` for the rest: a decision on record is its rule's answer to some input of
its set. The properties then become facts about the rules for every input:

* `CacheServes`; `GateProceeds` and `GateSuspends` (from the table of `GateAnswers`: what waits for
  staff accepts some role, so an approval can be made, and once made is let through; what waits for a
  consent is refused, since a consent is read back without a window).
* `RankingHolds`. A sort is `CHOOSE` of an enumeration, and that one exists cannot be had by induction
  over lists. It is had by counting: in a strict order on a finite set, the number of those before
  an element is different for each (`LowerHasFewerBefore`), so all the places are taken
  (`EveryPlaceIsTaken`) and their inverse is the sorted list (`RankedIsRanking`). The same lemma gives
  the best score of a leg and the newest records of a trail. Reversing a leg keeps its references,
  scores and scale, hence the fused set, hence the ranking; being at least as good in both legs
  is being at least as good in the weighted sum over positive scales; and every way out of `rerank`
  has one shape (`RerankShape`): the re-scored head over the tail as it was.
* `AuditHolds`, `SeamHolds`, `DoorHolds`, `ReadersHold`, `ConnectorsHold`, `EmbeddingHolds`,
  `EntriesHold`, `CataloguesHold`, `LegsHold`, `ConversationsHold`, `DashboardsHold`, one to a
  contract, and `ContractsStand`, which is all eleven; `PagesHold`.
* `DashboardsHold` and `PagesHold` are about recursions, a sum over rows and a client's walk over pages. The
  induction theorems take an operator and cannot be instantiated, but induction over a *set* of
  numbers needs none: the least number outside the set (`FromZeroOn`, from the well-foundedness of
  `<`). A recursive function is a `CHOOSE` of one that satisfies its equation, so it has to be shown
  that one exists: `TotalOfParts` exhibits the number of all that is counted (parts of different days
  are disjoint), `IsWalk` adds one page at a time. For pages the facts carried along are that
  everything shown so far precedes everything shown next (`SortedUpTo`), that a row which stayed is
  shown by now, left behind at a boundary it cannot be compared with, or still to come
  (`StayingIsShown`), and that after a boundary only what compares with it is shown (`LaterCompares`),
  so that what is left behind stays unseen (`LeftIsNotShown`). Every page with a successor puts the
  cursor on another row, so a walk of more pages than there are rows has ended (`WalkEnds`).

**Only model-checked**:

* the four liveness properties (`ClosedWindowIsSettled`, `EveryCommittedTriggerIsPublished`,
  `EveryCommandEnds`, `EveryCallEnds`): fairness and `ENABLED` are beyond the prover.

Every invariant and every safety action property of a passing run is a theorem.

---

## 5. Where documents and code disagree

Two of these have a run that finds the violation, and a quotation in `PROJECT.json` under `findings`:

| Run | Property | The document | The code |
|---|---|---|---|
| `IntegrationTwice` | `AtMostOneExternalEffect` | at most one external effect | look-up before the call, insert after it |
| `EgressRefires` | `SideEffectsAreNotRefired` | a side-effecting call reports a transient failure outward rather than re-firing | `create_case` is sent through the retrying caller; the idempotency key is what makes it harmless (`OneCasePerSession`) |

Four more are stated as they are by a property of a passing run, which holds because the code does
not do what the document says; where it is a theorem, for every instance:

| Property | The document | The code |
|---|---|---|
| `RestIsExplained` (`Agent`) | `graph/nodes/guardrail.py:136`: escalated work is routed to vendor fallback, a person picks it up | `close` comes next and puts `closed_declined` over `escalated` (`closure.py:36`): the session rests as declined, and nobody is told |
| `ApprovalAloneResumes` (`Decisions`) | `graph/nodes/governance.py:126`, `domain/decisions.py:74`: the window of a consent is the work item's, the repository resolves it from there | `ConsentRepository.decision_for` leaves it unset (`repositories.py:636`), and the gate refuses every consent for want of a window |
| `EveryCallEnds` (`Egress`) | `egress/http.py:39`: the longest any single outbound call may wait | `timeout=` is per wait on the network (`http.py:290`): a far side that trickles holds a call open for ever |
| `PagesContract` (`Decisions`) | `Keyset.cs:137`: a boundary neither repeats a row nor skips one | `After` compares with a null, which is never true: rows without `expiresAt` and rows with it are cut off from each other (`ApprovalReadModel.cs:84,101`); an enum key (`TenantReadModel.cs:72`, `SortKeys.cs:44`) raises on page two |

More that the models exhibit. Each is seen by adding the formula as an invariant to a run of
its module, or by the behaviour described:

* `messaging/retry.py:8` says no retry, ever, after the claim. Claim and outcome share one
  transaction: a failure rolls both back and the trigger acts again
  (`\A w \in WorkItems : effects[w] <= 1` fails).
* `sample_flow.py:11` draws the notification after the result; it is pushed before the commit
  (`notified[w] > 0 => outcome[w] # NULL` fails).
* `outbox_dispatch.py:100` says a malformed row reaches the failure path and surfaces; the exception
  leaves the pass, nothing is counted.
* `outbox_dispatch.py:12` says a blocked row never blocks another; refused rows fill the batch.
* `integrations/…/domain/execution.py:44` says a window refusal means expired, cancelled or
  suspended; the accepted approval states include two the column never holds, and not `none`.
* `repositories.py:806` says `remember` makes a repeat replay; it is an UPDATE of a row that only
  tests insert. With `Reserved = {}`, `\A w \in WorkItems : applied[w] <= 1` fails. This is why
  `AtMostOneCommittedEffect` is stated for `Reserved` keys.
* `outbox_dispatch.py:17` says a row at the ceiling is never auto-retried; the query has no attempts
  predicate: `\A m \in Messages : attempts[m] <= Ceiling` fails.
* `outbox_dispatch.py:162` calls an undispatchable command the alert that most needs action;
  `integration.execute` is no `TriggerKind`, so it is reported as `"operational"`.
* `catalogue.py:49` says a write without a key is refused; nothing looks:
  `\A w \in Works \ Keyed : calls[w] = 0` fails.
* `execution.py:54` says a refusal leaves nothing to reconcile; a second delivery refused while the
  first one's call is in flight takes the key: `record[w] \in Refusals => calls[w] = 0` fails.
* `credentials/resolver.py:15` says a missing reference is a refusal; it escapes, is abandoned and
  dead-letters: `msg[m].status = "dead" => JobOf[m] \notin dispatched` fails.

Met while translating, each at its line, and not contradicted by a property:

* **Execution.** A resume at an `execute` checkpoint spends a verdict without asking the gate again,
  and `SpendsOnlyStandingAuthority` therefore dates the window at the gate's decision. A new turn
  after a failed execution invokes again before `seal_execution` raises. A suspension of the
  organisation between admission and gate is not seen. The graph's key for an execution is not the
  one `ExecutionLeg` derives. `begin_effect` treats a recorded outcome that is `None` as none; a job
  that shares a key is suppressed without a result; `UNREACHABLE` counts as a refusal.
* **Decisions of people.** A verdict is bound to the latest operation rather than to the one staff saw (`repositories.py:489`). A verdict
  recorded between a wake's read and the gate leaves the session channel at `awaiting_approval`.
  `govern` never passes knowledge to the gate.
* **Sessions.** Escalation writes to the system of record before a transition that may be refused.
  When a work item was committed without the session's move, `advance` never moves the session on.
  Anchor and escalation share one key. The graph's `session_state` moves do not pass through
  `domain.session_state`. The sweep prunes the checkpoint of a thread that is suspended, when its
  work item completed before the window; checkpoint deletes are not rolled back with the sweep.
* **Egress.** `refused=True` can be reported after an earlier attempt posted: `OutcomeIsHonest` says
  it of the first attempt only. `model/safety.py:197` says the composition root binds `SafeModel` and
  never the inner adapter; `config/composition.py` binds the adapter. A 429 after the retries is a
  `ModelEgressError` where the documents say a rate limit is a budget refusal.
* **Retrieval and cache.** A missing `source_reference` is `""` and collapses documents in `fuse`;
  the rerank tail drops chunks equal to one in the head; `retrieved` accumulates over turns, so a
  repeated chunk makes the margin 0. `get` and `invalidate` swallow the `ValueError` of a blank key.
  Hybrid retrieval, rerank and cache are wired into no graph.
* **Doors.** `api/middleware/identity.py:21` says path segments are covered; headers and query are.
  The Integrations middleware screens the query only. The .NET service binds an organisation whatever
  its status, RagCore refuses one that is not active, and its forbidden parameters match exact
  lower-case names. `parse_message` of the resume worker ignores extra fields that the seam's parsers
  refuse.
* **Records and reading.** `AuditFacts.treatment` has no column, `AuditWriter._append` never passes
  retention overrides, and a suspension is recorded as `GATE_REFUSED`. The dashboard counts decisions only of days on which a session was created
  or an approval requested; an approval whose work item has no operation appears in no queue.
* **Without a caller in production**: `record_gate_outcome`, `record_execution`, `tenant_for_*`,
  `open_run`/`close_run`, `within_size_limit`; and of sessions and cases, `SessionLifecycle.advance`,
  `SessionRepository.transition`, `CaseAnchoring.anchor`, `EscalationPath.escalate`,
  `content_expiry_for` and `CaseAnchor.may_report_resolution`. `Session` takes these as steps a caller
  may make in the order each one's own code implies, and supposes that whoever calls `transition` passes
  the stamp `content_expiry_for` gives; it does not suppose that a resolution waits for the case. The
  scaffold binds `execution` and `case_system` to
  `None`, and `answer_clarification` returns 501.

---

## 6. Plan

Done: the execution core (`WorkItem`, `Outbox`, `IntegrationExecution`, their abstract
specifications and proofs); `Agent` with the gate and the records of decisions; `Session` with
escalation, cases and retention; `Egress` with screening and the Integrations handler; the pure
decisions and the cache; and the proofs of all of these (section 4).

Left, in this order:

1. A composition of `Outbox`, `IntegrationExecution` and `WorkItem` over shared rows: an authorized
   item leads to an answer or an alert; two jobs of one operation.
2. `ResultOutbox`: `claim_pending` with SKIP LOCKED as a second implementation of `TriggerChannel`,
   once something calls it.

---

## 7. Not modelled

* HTTP routing, settings, composition and OpenAPI generation: wiring, with no state transitions of
  their own. What the composition binds is used where a model depends on it.
* The web and desktop clients: user interface over the modelled APIs; the desktop's execution
  boundary always throws.
* Ingestion: the worker opens and closes a run record and nothing calls it.
* Of the .NET service, serialisation, dependency wiring and views that only project one row.
* The integration result outbox's dispatcher, which has no caller.
* Token signatures (the edge's), the text of prompts, answers and handovers, tool parameters.
* Backoff delays: when a step happens, not what it does. The models let it happen at any time.
* Logging, metrics, message wording, telemetry.
* Broker, PostgreSQL, Redis and the providers are taken from how the code uses them: at-least-once
  delivery, delivery count and time to live; READ COMMITTED, row locks, unique constraints; expiry;
  one case per idempotency key.
