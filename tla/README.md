# A verification project for the operations platform (DataCore, AgentCore, front end)

TLA+ models of the parts of this repository in which requests, timers, caches and restarts meet
over shared rows, and of the algorithms that decide what a user sees: 28 modules of model, from
the approval of action drafts to the cut of a slice under permissions. TLC checks them on small
instances; TLAPS proves the most important safety properties for every value of the constants.

How to run it:

    tlc -config ActionLive.cfg MCActionApproval.tla      # any .cfg with its module, see "Runs"
    tlapm ActionApprovalProofs.tla                       # and the other *Proofs.tla

Contents: 1 inventory, 2 modules and code, 3 runs and bounds, 4 fairness, 5 proofs,
6 divergences between documents and code, 7 what is not modelled, 8 what remains.

## 1. Inventory

### 1.1 The system

Three programs. **DataCore** (`apps/datacore`) keeps the tenants' data, rules, plans and action
drafts behind a Fastify API; **AgentCore** (`apps/agentcore`) answers questions by routing them
to a workflow or to an LLM agent; **frontend-shell** (`apps/frontend-shell`) shows both and
follows a query over server-sent events. `packages/contracts` holds the shared types. All state
lives in repositories (in memory or PostgreSQL); each program is one Node process, so code
interleaves at every `await` and nowhere else, and what is kept in maps and timers is gone
after a restart. Nearly every handler is *get a copy, decide, put the whole copy back*; there
are no transactions around two writes and almost no optimistic version checks. That is the
source of nearly everything that is hard here.

### 1.2 Components

| Component | State | Operations | What is hard | What makes it correct |
|---|---|---|---|---|
| Action drafts (`actions.ts`, `notifications.ts`) | drafts with their approval steps; outbox rows; notifications | create, submit, approve, reject, cancel; execute with retries inside the last approve | two requests holding copies of one draft; put and emit are two writes; a restart inside execute; a chain role nobody can fill | nobody acts on a target without a full chain of entitled approvals; steps in order; the audit trail leads the write-back and ends with the status; whoever must act is told; terminal statuses stay |
| Query tasks (`router/orchestrator.ts`, `ops/sweep.ts`, `events.ts`) | task rows, idempotency keys, event logs; in memory: open questions with timers, cancel flags, pipelines | submit, pipeline (route, clarify, plan, agent), reply, cancel, clarification timeout, supersession by a sibling, sweep | five actors patch one row last-write-wins; a question lives in memory; a restart forgets it | the documented state machine; one terminal event; one key, one task; at most two questions; never two pipelines for a task; every task ends |
| Outbox (`outbox.ts`) | event rows with seq, status, attempts | emit, delivery pass every 5 s, webhook calls, redelivery | passes overlap; a call succeeds whose answer is lost; one hook of several fails; retries against order | at least once to every hook that wants the event; first receipts in order per aggregate; every event delivered or dead |
| Scheduler (`scheduler.ts`) | jobs with the next run, run history | register, unregister, pause, resume, tick | ticks overlap; the claimed copy is put back after the handler; a restart after the claim | an occurrence is handled once; late ones are recorded, not handled; history is final; pausing holds |
| Execution lock (`execlock.ts`) | one row per resource: holder, lease, fence, rerun flag | acquire, heartbeat, assertFence, requestRerun, consumeRerun, release | a lease lapses under a holder that is alive; each operation is a get and a put | one holder; a fence per holder that never goes back; late writes refused; a rerun asked for is run |
| Simulation clock (`simclock.ts`) | clock row, script effects, playbooks' results | tick, tickOneDay, reset | TICKING survives a restart; a tick that fails is repeated; reset during a tick | a day's effects once, no more and no less |
| S&OP cycle (`sop.ts`) | versions in five steps | steps 1-5, edit, finalise directly or through an action draft | a slow step puts back an old version over FINAL; several drafts for one month | closed once, whole, and for good |
| Calibration (`calibration/`) | proposals, parameters | propose, apply at once or through a draft, roll back, look back | the parameter and the proposal are two writes; slices share a parameter; generations, write-backs and the meta loop put their copies over one record | the history explains the value in force |
| Rules (`rules.ts`), catalogue (`catalog/service.ts`) | versioned records | create, update, publish, retire, resolve | retire-then-publish in several writes, overlapping | never two PUBLISHED in sequence, never none in the place of one |
| Rule documents (`ruledocs.ts`) | document, segments, candidates | extract, retry a segment, review | the rule is published before the candidate is put | a candidate is APPROVED exactly if it has a rule |
| Modelling and quarantine (`modeling.ts`, `quarantine.ts`) | objects, bad rows | materialise, repair, reprocess, discard | all objects of a dataset are cleared and written again while repairs put theirs; keys make ids, and not always distinct ones | no row gets lost, but by an object of the same id |
| Ontology governance (`ontology-governance.ts`, `ontology.ts`) | publish requests with sign-offs; status of types and links; index of what refers to them | sign off, on behalf, expire, publish; deprecate, retire, change an element; store and index a slice or a formula | a sign-off and the expiry put whole copies; the index is cleared and written row by row while a retirement counts it | nothing published without an approval per domain; the index is what is stored; nothing in use is retired |
| Connectors (`connectors/service.ts`) | connections, sync jobs, datasets with rows | test, edit, sync | record, rows and connection are separate writes; the connection is put as it was read | the records tell how the last sync ended |
| Ontology workflows (`pipeline/service.ts`) | graph, published types, links, versions, slices | edit, validate, publish, promote | validation by hand-written graph algorithms; publication in several writes | no cycle passes; no link without its types |
| Ontology core (`ontology-core.ts`, `ontology-dsl.ts`, `authz.ts`) | objects, derivation specs, value runs, slices, policies | compile, upsert, recompute, evaluate; execute a slice | recompute puts value after value and cascades only where one changed; cuts and limits under permissions | stored values are those of their formulas; exactly what a caller may see |
| Time series (`timeseries.ts`) | points, windows, watermark | ingest, aggregate incrementally | points arrive during a run; a run breaks off; late points | incremental is as good as full |
| Plan check-up (`solvers/plan.ts`, front end `views/sim/`) | findings; form, debounce, answers | audit, fix; edit | answers out of order; a fix for a form that has changed | what is shown belongs to the form; a fix helps |
| Other solvers, plan views, synthetic data, lived-in history | results | computations | numeric | data, not control |
| Features and views (`features.ts`, `adminplatform.ts`) | template, tenant and role configurations, views | save, resolve; create, change, remove views | layers and required features; several writes per view | a role has the closed part of what its layers leave on |
| LLM provider records (`llmproviders.ts`, AgentCore `llm/`) | record, key; list, key and adapter in AgentCore's caches | save, announce, look up, build an adapter | three caches with their own lifetimes; a lost announcement | what is used is not older than a TTL |
| Users, workspace | records | CRUD | - | - |
| LLM providers and circuit breaker (`llm/`) | breaker state in memory | canAttempt, record, fall back | answers of requests begun in another state | one probe; it always comes back |
| Agent loop, budget, tools, workflow executor, MCP runtime | loop state, conversation, budgets, steps, connections | run, call tools, nest, retry; fold and compact the conversation | cancellation, budget, failure policy, reconnect; reminders and folds between calls and answers | ends; within budget; order of dependencies; every call has its answer in what is sent |
| Feature gate cache (`features/gate.ts`) | cache per tenant | enabledSet, invalidate | fetches overlap | never older than what was invalidated |
| Event stream (`api/sse.ts`, front end `sse/`) | log, subscriptions, client reducer | replay, follow, reconnect | events between replay and subscription | no event lost or applied twice |

How they interact: AgentCore's agent, whose loop nests workflows, tools, MCP servers and other
agents under one budget and sends its requests through the breaker of a provider, proposes drafts
through DataCore's action routes; S&OP, calibration and plans finish through action drafts; every
status change of a draft is emitted to the outbox, which feeds webhooks and audit; scheduler
handlers run scans, the clock and expiries; the query log feeds the event stream; the outbox's
webhooks empty AgentCore's caches of features and LLM providers; the publication of a rule
document publishes rules. The interfaces between modules of this project follow these calls:
`ActionApproval` ends at the row it gives the outbox (`events`), and `Outbox` begins with the row
it is given (`EmitList`); `AgentRun` is one `RunPathB` of `QueryTask` seen from inside,
`AgentContext` what such a run sends, `CircuitBreaker` where it goes; `SopCycle` and `Calibration`
are called by an executed draft of `ActionApproval`, which ends at the adapter's call.

`PROJECT.json` lists every component with its status and, under `hazards`, what is hard to test
in each, at its line.

## 2. Modules and the code they model

Conventions. A handler is a chain of actions cut at its awaits: get and check, put, emit,
notify. A request carries the **copy** it read, and a put writes the copy over the row, as the
repositories do (the memory store clones on get and put, `PgTenantRepo` serialises). Constants
that are bounds say so where they are declared. A **switch** constant (`Overlap`,
`Interference`, `EmitOverlap`, `OverlapsAllowed`, `ResetsBreak`, `ProbeRejections`,
`CollisionsAllowed`, `EditsDuringSync`, `UpdatesDuringPublish`, `WritersRace`,
`RecomputeOverlaps`, `TellInOrder`, `FallbackCrosses`, `StaleFixes`) says which interference is
admitted: the code admits it, a stronger property holds without it, and section 6 says what
happens with it. Comments "Mutant of" name the bug a variant of a definition stands for; the
variants are used by no specification.

### 2.1 Modules with runs of their own

**ActionLifecycle, ActionApproval, MCActionApproval, ActionApprovalProofs** -
`apps/datacore/src/actions.ts`. `store` is `repos.actionDrafts`; `req[r]` is a request in
flight: `pc` is the await it stands at, `copy` its draft. `Submit`, `Approve`, `Reject`,
`Cancel` are the checks of the handlers and what they change in the copy; `Put`, `Emit`,
`Notify` the writes that follow; `ExecuteGet` to `FailEmit` is `execute()`, with `CallSucceeds`
and `CallFails` the adapter (it may fail after it has written). `WriteFails` is a repository
write that throws, which inside the retry loop counts as a failed attempt (the try block
includes the put of EXECUTED and its event). `ActionLifecycle` is the state machine of the
comment above the class and of `docs/PRD-addendum-solvers-and-gaps.md`, over status, number of
open steps and "target touched"; `ActionApproval` implements it under the mapping at the end of
the module.

**QueryLifecycle, QueryTask, MCQueryTask, QueryTaskProofs** -
`apps/agentcore/src/router/orchestrator.ts`. `status`, `rounds`, `idem`, `events`, `experience`
are persisted; `pending`, `cancelled`, `pipe`, `job`, `sib` are the process's memory. `pipe[t]`
is the task's own submission and pipeline; classification, slot filling, plan and agent are a
nondeterministic choice of where it goes next (`Route`, `ProceedWithIntent`, `RunPathA`,
`RunPathB`). `job[t][a]` is what the canceller, the replier, the timer or the sweeper does
between its read and its writes, and `sib[t]` the list of siblings a submission supersedes, read
once and worked off. `old` stands for the sweep's age test. `QueryLifecycle` is the table of
`docs/PRD-query-orchestration-service.md` 5.1 with the terminal event of 8.2.

**OutboxPromise, Outbox, MCOutbox, OutboxProofs** - `apps/datacore/src/outbox.ts`. `EmitList`
and `EmitPut` are `emit`; `StartPass` is `processOnce` up to the loop (a head that is not due
holds its aggregate back), `NextHead`, `Post`, `PutDelivered`, `PutFailed` are `deliver`,
`RedeliverGet`/`Put` the manual redelivery. `Post(.., received, ok)` is one webhook call: it may
arrive without the answer coming back. Time is one flag per row (`due`). `OutboxPromise` is
section 2 of `docs/PRD-addendum-execution-semantics.md`.

**Scheduler, MCScheduler, SchedulerProofs** - `apps/datacore/src/scheduler.ts` with `claimDue`
of `repo/memory.ts`. `tick[k]` is a tick: what it has claimed, the occurrences, the job copies
and where its loop stands. `Advance` is the clock; cron expressions are a fixed period.

**ExecLock, MCExecLock, ExecLockProofs** - `apps/datacore/src/execlock.ts` and `tryAcquire` of
`repo/memory.ts`, one resource. Acquisition is one atomic step, as in the store; heartbeat,
requestRerun, consumeRerun and release get and put. `AssertFence`/`Write` is the guarded work.
Nothing in this commit calls `withLock` yet besides its tests; the model is of the class.

The `MC` modules hold small instances, symmetry sets, bounds on the exploration
(`OneFailure`, `Calm`) and claims of the documents that the code does not keep (see 6).

### 2.2 Parts of AgentCore: MCAgentCore, AgentCoreProofs

Five modules that share no state. `MCAgentCore` explores them as a **disjoint sum**: `part` is
chosen at the start and never changes, the variables of the other parts keep their initial
values. That is the same as five runs, and its properties are conjunctions over the parts. The
initial choices of a part that does not move are pinned, so no state is counted twice.

**AgentRun** - one run of the agent loop (`agent/loop.ts`) with the guarded tool executor, the
shared budget (`tools/`), workflows as tools and agents as steps (`engine.ts`,
`workflow/executor.ts`) and the nesting limits (`runtime.ts`). Nested invocations are awaited, so
the loops in progress are a stack, `runStack`; only the reads of one parallel round are under
way together. `ledger` counts what was really called, `budget` what the code counts.

**AgentContext** - the conversation of such a run: `cxMessages` as the loop keeps them,
`cxFrames` and `cxNotes` the rounds and what has been folded, and `Wire` what the two adapters
(`llm-adapters/`) make of it. Sizes are a free verdict: below, above the soft limit, at the hard
one.

**CircuitBreaker** - `llm/breaker.ts` and the calls through `withFallback`; a call that began
while CLOSED may report in any later state.

**EventStream** - rows and listeners (`events.ts`), the SSE stream with its replay across an
await (`api/sse.ts`), a connection that drops, the client's last id and duplicate check
(`useTaskStream.ts`).

**McpRuntime** - the pool, failure count, `markError`, recovery probes and the administrator's
status of one http server (`mcp/runtime.ts`); reads and writes of its row are steps.

### 2.3 Parts of DataCore and its neighbours: MCDataCore, DataCoreProofs, GovernanceProofs

Eighteen modules, explored as a disjoint sum in the same way.

*Several writes, or a copy put back late.* **SimClock** (`simclock.ts`): ticks of one or several
days on a copy of the clock, script effects and playbooks counted, failures, restarts, reset.
**SopCycle** (`sop.ts`): one month, every operation a reading and a writing half.
**Governance** (`ontology-governance.ts`, its route in `app.ts`): sign-offs, on behalf after 72
hours, expiry, publication; `approvedBy` records the sign-offs that were accepted, which the row
may lose. **Calibration** (`calibration/service.ts`): proposals of several slices for one
parameter, a value being the number of its generation; a generation lists, awaits and puts, a
write-back reads, sets the parameter and puts, the meta loop lists and puts. **Materialize**
(`modeling.ts`, `quarantine.ts`): rows become objects or wait in the quarantine; `IdOf` is the
object id made of a key, `EditKeys` what an edit may make of it, and a put over another row's
object is noted in `replaced`. **RulePublish** (`rules.ts`),
**RuleDocs** (`ruledocs.ts`): versions of one rule; segments, candidates and their review.
**Catalog** (AgentCore's `catalog/service.ts`): versions of an intent and of the plan it refers
to. **ConnectorSync** (`connectors/service.ts`): record and rows of each dataset apart.
**OntologyFlow** (`pipeline/service.ts`): a graph, its validation by Kahn's algorithm written as
in the code (turn by turn, a recursive function), and a publication in four writes. It extends
ConnectorSync and ElementRefs to join, in `ImportsSound`, what is imported promises.
**ElementRefs** (`ontology-governance.ts`, `ontology.ts`, the routes in `app.ts`): requests that
store a slice or a derivation spec (check its elements one by one, put it, list its old rows in
`element_refs`, remove each, put each new one) against stewards who deprecate, retire, change and
publish types and links, each on the record as it was read; publications of workflows and the
battery's seed put slices past both the check and the index. `torn` marks what was stored so, by
two requests at once, or not to the end, `refsCalm` histories in which stewards and stores did
not meet.

*Caches and late answers.* **FeatureCache** (`features.ts`, `features/gate.ts`): ETag, TTL, 304,
invalidation; `fcGone` records when a configuration ceased to be current; `CachesFollow` joins what
it and LlmDirectory promise. **LlmDirectory**
(`llmproviders.ts`, `llm/datacore-directory.ts`, `llm/providers.ts`): list, key and adapter.
**LiveAudit** (`solvers/plan.ts`, `useLiveSolver.ts`, `PlanAuditView.tsx`): debounce, requests
and answers around `plan_audit`, whose severities, fixes and verdict are computed with the code's
thresholds and rounding.

*Algorithms against a reference definition.* **TimeSeries** (`timeseries.ts`): the incremental
aggregation; a window's value is the set of its points. **FeatureConfig** (`features.ts`,
`adminplatform.ts`): layers and the cascade over required features, against the largest closed
set. **Derivation** (`ontology-dsl.ts`, `ontology-core.ts`): `extractDeps`, topological sort,
reverse navigation and `recompute`, against the formula evaluated on what is stored.
**OntologySlice** (`executeSlice`, `authz.ts`): the traversal with its cuts, against reachability.
Recursion is written as recursive functions and folds throughout; no module declares a RECURSIVE
operator, so that each can be reasoned about.

**MCDataCore** joins these modules, **MCAgentCore** those of the agent, each as a disjoint sum
whose variable `part` says who moves. `PartPremises` of MCDataCore lists what the theorems about
all parts at once presume; as an `ASSUME` it is evaluated for the run's instance, so no premise is
one that nothing satisfies.

## 3. Runs

Twelve runs; a run with `CHECK_DEADLOCK FALSE` has bounded resources (drafts, tasks, events,
time, edits) and really stops when they are used up.

| Run | Checks | Bounds and why they are enough |
|---|---|---|
| ActionLive | `NobodyLeftOut`, `TerminalIsFinal`, refinement of ActionLifecycle with liveness (`ImplementsProgress`) | two drafts, two requests that may overlap for different drafts, three users, chains of one and two roles in both orders, two attempts: both outcomes of the retry loop, every order of roles |
| ActionRaces | `ApprovalsSound`, `AuditBeforeWriteBack` | two requests for one draft at any await, one failed write or one restart; the smallest case in which one copy overwrites another. What more requests would do is in the proof |
| ActionEmitFails | violation, see 6 | one failed write, three attempts |
| QueryQuiet | `OneOfEach`, refinement of QueryLifecycle (`ImplementsLifecycle`), `Settles` | three submissions with one key and conversation, one after the other (two would not show that after a restart which lost the row of the key's first task every retry makes another task); replies against timeouts; one round; one restart. The proof covers any number of tasks, rounds and restarts |
| QuerySiblings | `OnePipeline`, `EndedIsAnnounced` | two tasks that overlap and supersede each other, cancellation, early sweep; one round (`OnePipeline` does not depend on it); `Calm` follows one outside actor at a time, besides pipelines and submissions, and at most one terminal event per stream. Both are proved without these bounds |
| OutboxSerial | refinement of OutboxPromise (`KeepsPromise`), `Settles` | three events, two in one aggregate, one nobody wants; two hooks, one of which filters; one backoff tier, one redelivery, one restart, one pass at a time |
| OutboxOverlap | `AtLeastOnce`, `OutboxInvariant` | two overlapping passes, two events of one aggregate; the proof covers the rest |
| SchedulerTicks | `RunsSound`, `ClaimedIsRecorded` | two jobs, two overlapping ticks, two occurrences each, three edits, one failing handler, one restart. What `RunsSound` says of one handling per occurrence is said of histories without a failing handler, `ClaimedIsRecorded` of those without a restart: what happens otherwise is in 6 |
| LockLeases | `ExclusiveHolder`, `EarlyRerunServed`, `FencesInOrder` | three executors (holder, successor, one that asks for reruns), two lapses, one death |
| AgentCoreParts | `PartTypeOK`, `RunSound`, `OneProbe`, `TimelineExact`, `ErrorIsProbed`, `NothingHangs` | below |
| DataCoreParts | `PartTypeOK`, `CachesFollow`, `TicksOnce`, `MonthCloses`, `PublishedIsApproved`, `HistoryExplains`, `NothingLost`, `RuleServed`, `ReviewDecides`, `FeaturesSound`, `CatalogServes`, `ImportsSound`, `ComputedIsCurrent`, `SliceSound`, `LiveSound` | below |
| LlmKeyRotation | violation, see 6 | one call, two records, lifetimes of two and three ticks |

Bounds of **AgentCoreParts**. Agent run: two agents and two workflows that call each other, every
kind of step, rounds of three reads with two in parallel, two iterations, two tool calls, one
solver call: each limit is reached inside a round, between rounds and in a nested run. Context:
turns of one and two calls with reads and writes, five requests: enough for two folds, a
compaction after them and the last chance. Breaker: three callers (one late report, one probe,
one that is refused), a window of four, two samples. Stream: four rows, two lost connections.
MCP: two callers, two probes, three faults, a pool of one, threshold two.

Bounds of **DataCoreParts** (values in the cfg). Each is the smallest at which the case its
property is about happens, and one more where that was affordable. Features: two saves, two
overlapping lookups, six ticks with a TTL of two. Clock: advances of one and three days, two
scripted days, two failures or restarts, five days. S&OP: two drafts and a direct request, one
operation at a time, seven edits. Governance: two domains, two owners and an administrator, four
sign-offs that overlap each other, the sweep and the publication. Calibration: two slices, two
generations at once, two proposals (one stacked on the other, rolled back in between, or put over
while it is open), two days. Materialisation: two rows of one key, one without and one whose other
key makes the same id, a key that an edit gives, so that every put may hit another row's object; two
jobs and a repair at once.
Rules: three versions, two editors. Documents: two segments, two extractions of each, two
reviewers, four calls. Series: four days, windows of two, batches of which one is late beyond
the tolerance. Features' configuration: three features that require each other in a chain,
a template with a gap in it, one new view, two roles. LLM directory: two calls, two records. Catalogue: two versions of each.
Connection: two datasets, three syncs that may each break off. Workflow: graphs with a cycle, a
dangling edge, an unconnected node and a duplicate id. References: one type, one link, a slice and
a formula; three stores, of which each may break off, so that one is repeated and one replaced; two
stewardships at any point of them. Derivation: a formula of each kind of
syntax node, over three types in two batches that compile in either order, a third batch that is
a cycle, two upserts. Slices: four specs in which a limit per node, the size of the whole or
neither cuts, under four sets of policies and three sets of roles. Check-up: 24 baselines around
the thresholds, two changes and the fixes.

Each property has a mutant: a variant of one definition, standing for a plausible bug, under
which TLC finds the property violated (`PROJECT.json`, `mutants`). Conjunctions (`RunSound`,
`CachesFollow`, `ImportsSound`, `ComputedIsCurrent`, `NothingHangs`) name the properties of the
modules they join.

The properties, by what they guard against:

* *Lost updates.* `ApprovalsSound` (with `Authorised`, `SequentialApproval`): whichever stale
  copy is put over whichever row, no draft gets through without every step approved, in order,
  by holders of the roles other than the originator. `OutboxInvariant`: whichever pass writes
  last, DELIVERED means acknowledged by every hook. `PublishedIsApproved`: sign-offs may be lost,
  but none is made up. `MonthCloses`: two drafts and a direct request close a month once.
* *Writes that belong together.* `AuditBeforeWriteBack`, `NobodyLeftOut`, `EndedIsAnnounced`,
  `HistoryExplains`, `ReviewDecides`, `NothingLost`, `ImportsSound`.
* *Exactly one.* `OneOfEach`, `OnePipeline`, `RunsSound`, `ExclusiveHolder`, `OneProbe`,
  `TicksOnce`, `TimelineExact`, `RuleServed`, `CatalogServes`.
* *Order.* `OutboxInvariant`, `KeepsPromise`, `FencesInOrder`, `ImplementsLifecycle`.
* *Something must happen.* `ImplementsProgress`, `NobodyLeftOut`, `Settles` (both),
  `ClaimedIsRecorded`, `EarlyRerunServed`, `ErrorIsProbed`, `NothingHangs`.
* *Stale.* `CachesFollow`, `ComputedIsCurrent`, `LiveSound`.
* *Limits and boundaries.* `RunSound`, `SliceSound`, `FeaturesSound`, and the counters in the type
  invariants.

## 4. Fairness

Only what a Node process gives; no strong fairness is used.

* ActionApproval: `WF(Continue(r))`, the event loop resumes a request whose promise has settled;
  nobody has to send one.
* QueryTask: weak fairness of each pipeline, of each job in flight, of the clarification timer, of
  ageing and of the sweep (timers fire); nobody has to submit, reply or cancel.
* Outbox: weak fairness of each pass (the interval timer starts it, a POST is answered or times
  out) and of the backoff; hooks may fail for ever, and redelivery is never required.
* Scheduler: weak fairness of ticks; the clock may stop.
* AgentCore's parts: `AgentProgress` (the loop's promises settle: model and tools answer, with
  whatever), `CallEnds` of each caller (a call to a provider ends: the
  SDK has a timeout) and `WindowSlides` (old samples leave the window as time passes); nobody has
  to make another call; `StreamProgress` (appends return, the history is
  read, the client retries for ever; nothing has to be emitted);
  `Marking` and `Probing` of each caller and probe (timers fire, puts end) and `ServerReturns` (the
  server can be reached again some time, without which no probe could succeed). The specification
  of MCAgentCore asks for fairness of a disjunction over parts; `part` never changes, so that is
  fairness of each.

DataCore's parts need none: their properties are about safety. Nothing says that a tenant's
administrator finishes, or repeats, a call that broke off.

## 5. Proofs

Eight modules. TLAPS checks each theorem for all values of the constants: any number of users,
roles, drafts, requests, events, hooks, passes, tasks, jobs, ticks, slices, rows, failures and
restarts. A premise beyond the modules' own `ASSUME`s is in the statement; where there is none,
the theorem holds with every interference the module has. Hardly any of the properties is
inductive by itself, because it says nothing of the copies in flight and of the places at which
requests stand; what is added says what each copy, and each place, may be relied on for.

*ActionApprovalProofs* (no premise). `InvariantHolds`: rows **and** copies in flight are `Sound`
(an approved step is vouched for; decided steps form a prefix; a draft that was let through has
them all), the status of a copy fits the place its request stands at, and a request past its
event has it on the trail. Since *every* copy is sound it does not matter which one overwrites
which row. From it: `TypeCorrect`, `AuthorisedAlways`, `SequentialAlways`, `ApprovalsSoundAlways`,
`AuditBeforeWriteBackAlways`. The races of section 6 lose updates but never authority.
Three more theorems say what holds when those races are absent. Under `~Overlap` and `MaxFaults =
0`, with any number of restarts, `AloneInvariant` says that a request's copy is the row, or the
row as its next put will leave it; hence `ImplementsLifecycleSafety` (each step maps to a step of
`ActionLifecycle` or a stutter) and `TerminalIsFinalAlways`. `ApproverExistsAlways` needs only that no
account is disabled and every type is registered, and holds for all overlaps: what `submit` found
out about the chain stays true in every copy. With all of it, and without restarts,
`NobodyLeftOutAlways`: `SpokenInvariant` follows for each place of a request what the trail and the
notifications still lack.

*OutboxProofs*. `DeliveryHolds` (no premise): a pass's copies are PENDING rows of the right seq,
and while no call of the head in hand has failed, each hook already called has acknowledged; with
it `TypeCorrect` and `AtLeastOnceAlways`, for any overlap. `OrderHolds` and `InOrderAlways` add,
under `~EmitOverlap`, that emissions of an aggregate get growing seqs and that what a pass holds
has nothing unsettled before it. With one pass, `KeepsPromiseAlways` is the refinement of
`OutboxPromise`: what a pass holds, if no other is under way, is PENDING and has nothing PENDING
before it but dead letters that came back, and only those are DEAD that somebody may redeliver.

*ExecLockProofs*, under `Interference = {}`: nobody uses the row between a get and its put, or
runs between a fence check and its write. `InvariantHolds` proves `LockInvariant`: a copy read is
the row as it is, hence every put keeps holder and fence; the row has the largest fence, and
whoever has passed the check has that one; who works holds a live row as long as no lease lapsed;
a flag that is up has a holder in its first round who will look at it. From it, among others,
`ExclusiveHolderAlways`, `EarlyRerunServedAlways`, `FencesStayInOrder`.

*SchedulerProofs* (no premise). `SchedulerInvariant`: at every place of its loop a tick holds only
what it has claimed; and until a handler throws (`Orderly`), nothing from a job's next run on has
been claimed, tried or recorded, what is MISSED was not tried, and two ticks hold different
occurrences. `RunsSoundAlways`, for any period, grace and horizon.

*QueryTaskProofs*. `QueryInvariant` (no premise): what every pipeline and every job is about to
write, and, while there was no restart, who still has to tell a stream that its task has ended.
From it `OnePipelineAlways`, `RoundsBoundedAlways`, and under `MaxCrashes = 0`
`EndedIsAnnouncedAlways`. Under `Interference = {}` (nobody cancels, supersedes, sweeps a live task, or
submits in the middle of another submission) `SoloInv` adds that whoever works on a task is the only
one: the row is what its pipeline, or the question that waits, takes it to be; a stream is silent until its
task has ended and then says one thing; a key leads to the first task with it, or to one whose row a restart lost. From it `ImplementsLifecycleAlways`, the refinement of `QueryLifecycle` step by step, and
`OneOfEachAlways`.

*GovernanceProofs* (no premise, except where an item names one). `GovernanceInvariant`: every approval in the row or in any copy
of it was accepted from somebody entitled. A sign-off can be lost by a late put, never invented.
`PublishedIsApprovedAlways`. `ReferencesSoundAlways`, for any elements, publications, indexers and
stewards: of a publication that one request writes alone, the rows are the old ones it has not
removed yet and the new ones it has put already, so when it is done they are what is stored; and
while stewards and stores do not meet, a retirement that has counted no rows has a free hand: no
slice refers to what a steward is about to put RETIRED, nor to what is RETIRED.
- `PublishedIsSoundAlways`, under `~UpdatesDuringPublish` (a graph saved between two steps of its publication is
  published unvalidated: see 6.3). `KahnDecides`, for any graph with different ids: the algorithm
  visits a node a turn until its queue is empty, which happens within as many turns as there are
  nodes; nodes that keep each other from being visited never are; and when the queue is empty the
  nodes left over have each an edge from within. So the count is short exactly if there is a
  cycle. `FlowInv`: the graph a publication goes by is one without issues.
- `SyncExplainedAlways`, for one sync at a time and no edit across it (`~EditsDuringSync`). `ConnInv`: jobs
  are numbered without gaps and the one under way is the latest, so whatever it writes is newer
  than what is there; the datasets before the one it is at are its own; and the copy it will put
  back is the row. `ImportsSoundAlways` joins the three.
- `ConfigurationSoundAlways`, for any registry whose requirements form trees (`RequirementsAssumption`,
  which TLC evaluates and the code's registry satisfies; 6.4 has what happens otherwise). The walk
  of `isOn` with its list of keys met is followed key by key: below a key it meets what that key
  requires, each once, and answers on exactly if all of that is left on. So what is on is closed
  under requirements and contains every closed set the layers leave on. `FeatInvariant` adds the
  records: views and their features agree unless a request is under way or broke off.
- `SeriesExactAlways`, under `~WritersRace` and `OneAggregator` (6.3 refutes it without either).
  `SeriesInvariant`: a window differs from its points only if one of them is newer than the last
  run; and at each place of an aggregation, what it has read differs from what is stored only by
  points newer than its own watermark, so what it still has to put is all that is behind.
- `DerivedIsCurrentAlways`. `DerivationInvariant`: each target that has an input is what its formula
  gives, or a change that reaches it is still to be reported; during a recompute, or it is marked
  and of a node not yet taken, or the one in hand. What carries the argument: a formula's value
  depends on nothing but what `extractDeps` says it reads, the order has a node after all it reads
  of, so what is computed is never read by what is done already. The premises are where the code
  falls short of this: `~RecomputeOverlaps` (6.3); `LinksLeadElsewhere`, a link from a type to itself
  gives one dependency for both directions; `FormulasPlain`, a WHERE compares with a literal
  (properties in it are not extracted), COUNT names no property, and formulas read properties that
  the objects have; `NewcomersReport`, a new object has a formula computed for it only if one of its own properties is
  in it, since a change that recompute is told of names a property (`app.ts:1261-1269`); `DerivedSeparate`, no property is both stored and
  derived. `DerivationTyped` adds, under `ValuesTyped` (formulas as the parser builds them), that
  whatever a formula of any kind gives is a number, a truth value, null or nothing.
- `SliceSoundAlways` (no premise). Each of the four loops that fill a slice (links of a parent,
  parents, hops, paths) is a function by recursion on the length of what it goes through, so a fact
  that one turn keeps holds after all. Kept are: what is in the slice the caller may see and a
  path leads to; its size stays within the limit, and it was cut only at it; edges join what is
  in it. Without limits on hops, and uncut, everything a path leads to gets in: each frontier holds
  all that the hop reaches from the frontier before it.

*AgentCoreProofs*. `OneProbeAlways`, under `~ProbeRejections` (a probe always reports: section 6
has what happens otherwise): a report takes its caller away from the primary and, when it opens
the breaker, makes all others stale. `ErrorIsProbedAlways` (no premise): a timer counts for as
long as it is set, so whoever puts ERROR, or finds a timer set and asks for none, leaves somebody
who will probe.
- `TimelineExactAlways`, under `TellInOrder`: at each place of a stream (history being read, replay,
  connected) the frames under way, and those still to be told, continue the rows the client has
  applied, with repetitions only of rows it has; so dropping what is not newer drops
  nothing else.
- `RunStaysInBounds` (no premise): on the stack no agent or workflow is nested twice and its
  height keeps to the nesting limits; what agents have called, and what the round in progress has
  paid for and not sent yet, is at most what the budget has counted.
- `RunSoundAlways` adds the conversation. Its premises: a model calls `final_answer` alone
  (`FinalAlone`) and a request is answered by a provider of its own dialect (`~FallbackCrosses`);
  section 6.2 has what happens otherwise, and the configuration satisfies both. Each message with
  answers follows the turn that made its calls, with one answer for each in order; each frame points
  to the message of its round, and the folded frames are the first ones, are the notes, and have their
  messages marked. Hence folding and compaction take away whole rounds, each of which is noted.
  Turns may be of any length.
- `PartTypesAlways`, the type invariant of all five parts, under the premises named so far.

*DataCoreProofs*.
- `RuleServedAlways` (no premise): while calls have not overlapped, PUBLISHED versions and the
  one about to be put are one; and whoever has retired a sibling is still to put his own.
- `MonthClosesAlways`, if at most one operation on a version is under way: the steps on record are a
  prefix, an open draft means that the meeting was held, and what an operation is about to put
  fits the version stored now.
- `TicksOnceAlways`, under `~OverlapsAllowed` and `~ResetsBreak`: whoever ticks is alone, the
  events the clock lists as fired are those that took effect, and at each place of a tick the days
  ahead are untouched.
- `ReviewDecidesAlways` (no premise): a candidate is put APPROVED only by a call that has
  published its rule; while calls neither overlap nor break off there is one review, rules and
  approvals match, and the document's status is that of its candidates.
- `HistoryExplainsAlways`, under `~CopiesRace` (otherwise section 6 refutes it): each record in
  force remembers the value and the records that explained it before; rollbacks in calm times take
  the latest off, like a stack; what a generation is about to put over is open or nothing, and what
  the meta loop holds is the record as it is. `HistoryKeptAlways` follows from the same invariant.
  A write-back that breaks off half-way leaves a value that no record explains (`stray`) until the
  next one ends; what is applied in between restores that value when it is rolled back.
- `CatalogServesAlways`, under `~CollisionsAllowed`: what a call holds is a DRAFT's copy that the
  row still is; who publishes an intent holds all that is PUBLISHED, to retire it first; a plan
  is put PUBLISHED only if valid; the numbers given are 1 to the number of records made, so a
  version that an intent is pinned to is there.
- `LiveSoundAlways`, for any form and any thresholds with a tolerance for segments of at least 1, an
  excess of the margin of at least 50 and a positive pass mark (scaled as in the model, where the
  code's are 50, 3000 and 85): rounding adds less than the thresholds allow, so a fix lands on the good side; what is
  shown at rest is the answer to the request with the latest number, which was made for the form.
- `NothingLostAlways` (no premise, and nothing is assumed of keys, edits and ids): there is a row
  before which all are in their place, objects, put over, or in the quarantine, and at which the rows
  end or a job stands; the id of an object is one that a key of its row makes (`PutStores`), so that
  a row whose object is gone has another's under its own id.
- `CachesFollowAlways`, if one tenant's saves do not overlap (otherwise section 6 refutes it).
  Features: each place of a lookup bounds the age of what it carries, and an ETag that still
  matches carries the present configuration. LLM records, with no premise (`RecordIsRecentAlways`): likewise each
  place of a call, and what the cached list held when it was asked for.
- `DataCoreTypesAlways` and `DataCoreSoundAlways`, of the whole sum and under `PartPremises`: whoever
  moves, each part takes a step of its own or none, so `Spec` implements the specification of each part,
  and all that was proved of each holds of it: every invariant and action property of the run DataCoreParts.
  `PartTypeOK` takes the parts' inductive invariants (`PartsInv`), since a type seldom
  keeps itself: a counter stays in range because of the place its caller stands at.
  `FeaturesSoundAlways` and `ComputedIsCurrentAlways` state the last two of the run's properties, with
  fewer premises.

Recursion and induction. What a recursive function, `FoldLeft` or `FlattenSeq` computes is proved
from the least counterexample: `<` is well-founded on the naturals (`WellFoundedInduction`), so a set of
lengths for which a claim fails has a least member (`LeastNumber`, `UpTo`), and the claim is
carried over one element (`FoldExists`, `Flattens` of AgentCoreProofs). The library's own
induction theorems take an operator as a parameter and cannot be used.

Only model-checked:
* Liveness (`ImplementsProgress` beyond its safety part, both `Settles`, `ClaimedIsRecorded`,
  `NothingHangs`), which needs ENABLED and fairness.
* What happens where a premise of a theorem does not hold: the refutations of section 6, and every
  case in which two things go wrong that a premise excludes.

Every other property of a passing run, safety invariant or action property, is stated by a
theorem.

## 6. Divergences between documents and code

Two are kept as runs that TLC must find violated:

* **ActionEmitFails** (`TerminalIsFinal`): the put of EXECUTED and its event are inside the try
  block of the retry loop; if the emit throws, the adapter is called again and the draft may end
  EXECUTION_FAILED after having been EXECUTED.
* **LlmKeyRotation** (`KeyIsRecent`): an adapter is cached under the record's `updatedAt` and for
  good. If the list of providers has expired and the key has not, the adapter of the new record
  is built with the old key, which is then used until the record changes again
  (`llm/datacore-directory.ts:23-26` promises five minutes).

The models show more when a switch or a bound of a configuration is changed. To see one, change
the configuration as said and give it the property named; in the two sums the rest of the run may
be left out by giving `part` one value, and where the switch is a premise in `PartPremises`, the
`ASSUME` of MCDataCore must go, which is there to refuse it.

### 6.1 Drafts, queries, outbox, scheduler, lock

| Change | Refuted | What happens |
|---|---|---|
| ActionLive with `Overlap = TRUE`, one draft | `TerminalIsFinal` | a cancel and an approve of one draft both pass their checks; the later put revives the draft |
| ActionLive with `MaxCrashes = 1` | `ImplementsProgress` | nobody resumes an APPROVED or EXECUTING draft |
| ActionLive with `MaxCrashes = 1` | `AuditTrailComplete` | restart between put and emit: a status nobody was told of |
| ActionLive with `Disabled = {carol}` | `ApproverExists` | submit counts disabled accounts as approvers |
| QueryQuiet with `"cancel"` | `EndedStays` (MCQueryTask) | CANCELLED is overwritten by a pipeline between two awaits |
| QuerySiblings, only `"submits"` with `"supersede"` or `"age"` | `OneTerminalEvent` | the superseded or swept pipeline goes on and announces a second end |
| QuerySiblings with `KeyOf <- SameKey` | `IdempotentSubmission` | the key is reserved before the row exists; a second submission in between finds the key, not the row, and creates a second task. A restart in between leaves a key to no task, and every later retry creates another |
| QueryQuiet, one restart | `WaitingEnds` | the timer of an open question is gone, the sweep takes EXECUTING rows only |
| QuerySiblings with `ActiveLimit = 1` | `ActiveWithinLimit` | tasks are counted three awaits before they are inserted |
| QuerySiblings | `SomeTaskSurvives` | two submissions of one conversation cancel each other |
| OutboxSerial with `EmitOverlap = TRUE` | `UniqueSeq` (MCOutbox) | two emissions of an aggregate compute one seq |
| OutboxSerial with `AggOf <- Alone` | `DraftInOrder` | no caller passes an aggregate key, so events of one draft overtake each other |
| OutboxOverlap | `DeliveredStays` | two passes hold copies of a row; the slower, failed one puts PENDING or DEAD over DELIVERED |
| SchedulerTicks | `PauseHolds` | a failing handler's tick puts back the job it claimed, and with it the status from before a pause |
| SchedulerTicks without `fails = 0`, one job, three ticks | `RunOnce` | the job put back after a failure is due again; two ticks look its run up before either records it |
| SchedulerTicks without `fails = 0` | `HistoryIsFinal` | for the same reason an occurrence may be handled and recorded MISSED |
| SchedulerTicks without `crashes > 0` | `ClaimedIsRecorded` | claimed, moved on, then restarted: neither run nor MISSED |
| LockLeases with `Interference = {"stale"}` | `FenceGrows` | a heartbeat's put after a release or a takeover writes the old holder back |
| LockLeases with `Interference = {"writes"}` | `WritesInOrder` | the fence check is apart from the write it guards |
| LockLeases | `RerunServed` (MCExecLock) | a rerun asked for after the holder has looked at the flag is lost |

### 6.2 AgentCoreParts

| Change | Refuted | What happens |
|---|---|---|
| - | `NestedCallsCounted` | `tools/budget.ts:4-7` and `engine.ts:286` say that nested workflows share the budget of the top level; a workflow's own steps do not pass the guarded executor |
| a turn `<<"final", "read">>` in `Turns` | `RequestsSound` | a turn with a submission that is refused and other calls leaves calls without their answers (`agent/loop.ts:513`) |
| `FallbackCrosses = TRUE` | `RequestsSound` | the fallback provider of another dialect gets a conversation made for the first (`anthropic.ts:242`) |
| `Turns = {<<"read">>}`, `MaxRequests = 7` | `SummaryIsRecent` | the cached summary of notes is recognised by their number; after a compaction it is that of the old ones (`agent/loop.ts:161`) |
| `ProbeRejections = TRUE` | `ProbeDecides` | a probe that is refused for the request's own fault reports nothing; the breaker stays HALF_OPEN and refuses everything (`llm/breaker.ts:8-9`) |
| `TellInOrder = FALSE` | `TimelineExact` | rows are told in the order their appends return; the client takes the later and then drops the earlier as a duplicate |

### 6.3 DataCoreParts

| Change | Refuted | What happens |
|---|---|---|
| two `SopWorkers` | `FinalStays` | a slow step puts its version over FINAL |
| - | `RejectIsFinal` | a rejection is overwritten by a sign-off that read before it (`docs/PRD-addendum-ontology-governance.md:113`) |
| - | `RetiredHasNoUser` | a retirement counts while the rows of a slice are cleared and not yet put again, or between the slice's check and its index: it retires what is in use (`docs/PRD-addendum-ontology-governance.md:37`) |
| - | `FormulasAreChecked` | the route of derivation specs checks no element, so a new formula may refer to what is deprecated or retired (`docs/PRD-addendum-ontology-governance.md:35`) |
| - | `RetiredStays` | `deprecate` takes a RETIRED element back to DEPRECATED; `upsertLinkType` puts a link without its deprecation; a publication puts back the record it read (`docs/PRD-addendum-ontology-governance.md:34`) |
| a slice and a formula of one key in `MCPublications` | `IndexExact` | the identifier of a row has no kind of publication in it, so rows of the one overwrite those of the other (`ontology-governance.ts:263`, `298`) |
| `CopiesRace = TRUE`, two generations | `HistoryKept`, `HistoryExplains` | one generation's PENDING proposal is applied; another, which has listed it while it was open, then puts its own over the APPLIED record (`calibration/service.ts:570`, `589`): the parameter has changed and no record says so, against `calibration/service.ts:568` (已生效/已回滚记录是变更史 —— 绝不覆盖) |
| `CopiesRace = TRUE`, one generation | `HistoryExplains` | the meta loop lists an APPLIED record, the record is rolled back, the loop puts its copy (`calibration/service.ts:765`): the record is APPLIED again, the parameter is not |
| - | `RowsConserved` | a row reprocessed with the key of another, unedited or not, is put over its object (`quarantine.ts:82-94` checks that a key is there), and so is a row whose key makes the same id (`modeling.ts:358` replaces every sign but letters, digits, `_` and `-`; Chinese keys of one length are one id), against `docs/PRD-addendum-validation-loop.md:36` (行数守恒（生成=入库+隔离区）) |
| - | `WaitsOnce` | each materialisation records a bad row again (`modeling.ts:329` says repeating changes nothing) |
| - | `FailedCanBeRetried` | a review takes a PARTIAL document to REJECTED or PUBLISHED though a segment failed, which can then not be retried (`ruledocs.ts:193`) |
| - | `FrequencyKept` | the limit is looked up when a proposal is generated, not when it is applied: two generated before either is applied are both applied (`calibration/service.ts:376`, `docs/PRD-addendum-m11-calibration.md:101`) |
| `OverlapsAllowed = TRUE`, two `Tickers` | `OneTick` | both read ACTIVE before either puts TICKING |
| `ResetsBreak = TRUE` | `ScriptExact` | a reset that stops half-way frees a clock left TICKING by a restart; the day is repeated and its event takes effect twice |
| two `Savers` | `Propagates` | two saves produce one version with different contents, and 304 keeps the older alive |
| two `Aggregators` | `SeriesExact` | the slower run puts an older window, without the newest points, over the newer one |
| `WritersRace = TRUE` | `SeriesExact` | a batch with the instant of the watermark is put after the run has read the points; the strict comparison of `repo/memory.ts:241` passes over it for ever |
| - | `FullWouldChangeNothing` | full recomputation also makes windows that end on a day without a point (`docs/PRD-addendum-a8-timeseries.md:54`) |
| a tenant configuration `[fb \|-> FALSE]` in `MCTenantConfigs` | `OffStaysOff` | creating or changing a view writes its feature into the overrides (`adminplatform.ts:499-502`, `docs/PRD-addendum-admin-platform.md:46`) |
| `CollisionsAllowed = TRUE` | `CatalogServes` | two calls for one record overlap: two publications leave two PUBLISHED, or the later put has the older reading |
| `EditsDuringSync = TRUE` | `SyncExplained` | a sync puts back the connection it read, and an edit made meanwhile is lost while its schedule runs |
| two `Syncers` | `SyncExplained` | both find no dataset and create one each (`connectors/service.ts:209`) |
| `UpdatesDuringPublish = TRUE` | `PublishedIsSound` | what is published is not the reading that was validated |
| `RecomputeOverlaps = TRUE` | `DerivedIsCurrent` | an upsert during a recompute, or a recompute that breaks off between two puts and is repeated, leaves downstream values stale: what was put already no longer counts as changed |
| the third batch of `MCSpecBatches` split in two | `AlwaysSortable` | a batch is checked for cycles within itself; two may form one together, and then every recompute throws |

### 6.4 Seen while modelling, without a property

* A write-back of a calibration that sets the parameter and breaks off is retried; the retry takes
  the new value for the old one (`calibration/service.ts:633-636`), so that rolling it back changes
  nothing (`docs/PRD-addendum-m11-calibration.md:117` says that it restores the old version).
* Two write-backs of one parameter at once may set it in one order and be recorded in the other; the
  model has one at a time.
* A restart in the middle of a tick leaves the clock TICKING, and every later tick is refused until
  a reset. A sync that stops leaves its job RUNNING. An execution of a draft is not continued after
  a restart (`actions.ts:243`); a restart between a draft's put and its outbox row loses the event.
* `api/sse.ts`: if the replay throws after the reply was hijacked, the connection stays open
  without a subscription.
* `agent/loop.ts:422` measures the context without the summary that the request will carry.
* `features.ts:180-192`: a key that the cascade meets a second time counts as off, so a feature
  that requires another one on two ways is switched off.
* `llmproviders.ts:35-36` promises to reject chains of fallbacks, but looks only at whether the
  target has a fallback already: A to B, then B to C, is accepted; only one step is ever taken.
* Updating a published ontology workflow keeps PUBLISHED with a graph that was never validated.
* `ontology-dsl.ts`: a value `this.x` of a WHERE is not counted as read by `extractDeps`, and
  dependencies are made unique regardless of their direction; an object with nothing to navigate
  to is never computed; an upsert during a recompute is overwritten by the recompute's late put;
  recompute does not append the temporal history its comment promises.
* `executeSlice` reads the snapshot version before its data.
* A type whose property a formula reads is indexed under the kind `prop`, which a retirement of the
  type does not count; and a retirement asks for no deprecation before it.
* Slices of a published workflow (`pipeline/service.ts:146`) and of the battery's seed
  (`synthetic/service.ts:711`) are stored without rows in `element_refs`; a retirement does not see
  them until they are stored again through their route.
* `app.ts:1008-1011`: the impact of a publish request compares the current types and links with
  themselves, so the route finds no breaking change.
* Check-up: the fix of X01 changes nothing if all segments are zero; that of X04 may stay hard; a
  plan with a hard finding may pass conditionally; a fix clicked during the debounce patches the
  newer form with a patch made for the older (`StaleFixes`).

## 7. What is not modelled

Within the components that are modelled, the data: texts, payloads, amounts and scores are model
values, verdicts or small numbers. Per module:

* *ActionApproval*: rule evaluation is a submit that passes or throws; `list` and `audit` only
  read. *QueryTask*: failing repository calls, packages deleted under a task, the expiry of
  idempotency keys; one user. *Outbox*: the signature and the text of a call,
  changes of the webhooks while events are in flight. *Scheduler*: cron
  expressions (a fixed period) and what handlers do. *ExecLock*: what `fn` computes.
* *AgentRun*: checkpoints of workflows and the checks made when one is saved. *AgentContext*:
  truncation of one result, counting tokens, what the summarizer writes. *CircuitBreaker*: which
  provider is chosen. *McpRuntime*: the stdio transport with its heartbeat and restarts.
* *SimClock*: points, orders and shipments of a day, which a repeated day writes with the same
  values. *SopCycle*: what a step computes. *Calibration*: pairing, numeric methods and backtest
  (one verdict). *Governance*: impact analysis. *ElementRefs*: what a type or a link is besides its
  status, snapshots of a version, references of rules and plans, which nothing indexes. *Materialize*: suggestions and
  the editing of a draft. *RuleDocs*: parsing, segmenting, and what the LLM finds. *Catalog*: agents,
  skills and workflows, which follow the same pattern. *ConnectorSync*: fetching, parsing and
  profiling. *OntologyFlow*: what processing nodes do, previews, the import of subgraphs.
* *FeatureConfig*: order and icons of views. *LlmDirectory*: creation and removal of
  providers, purposes, the connectivity test. *TimeSeries*: calendar windows and the arithmetic of
  aggregates. *Derivation*: tokens and their parser, the evolution of types, temporal history.
  *OntologySlice*: the expression language of row filters, projections. *LiveAudit*:
  `plan_generate` and the form's layout.

Left out as components:

* *Other solvers, plan views, synthetic data, lived-in history*: long floating-point or
  pseudo-random computations in one go; TLC has no reals, and a model in scaled integers would be
  a transliteration without a state to interleave.
* *Parsers, processing nodes, rule expressions, field mapping*: functions over strings, cells and
  rows. Their errors are in the characters, which these models abstract.
* *Users, authentication, workspace*: records written in one put; what they
  decide elsewhere is in the models that read them (who approves, who may read).
* *Front-end views*: rendering, except the check-up's and the stream's client logic.

The map therefore covers about a tenth of the repository's lines. Most of the rest is routes that
pass a body on, type declarations and schemas, generators, solvers, parsers, rendering and seed
data; to name those lines under definitions that do not say what they do would be untrue.

## 8. What remains

* Composition: an executed draft of `ActionApproval` calling `SopCycle` and `Calibration`, so that
  a retried adapter call meets a version that is FINAL already; `QueryTask`'s `RunPathB` refined by
  `AgentRun`.
* Proofs: the premises of `DerivedIsCurrentAlways` that the model could do without if WHERE operands
  were walked and dependencies kept their direction; what part of `PartTypeOK` survives overlaps, for
  which types have to be proved apart from what each part promises.
* Components: checkpoints of workflows, the stdio transport of MCP, the impact gate of publish requests.
