# Verification of bdlhxny-agent in TLA+

This directory holds TLA+ models of the concurrent core of the *Sentinel*
financial agent, TLC configurations that check them on small instances, and
TLAPS proofs that lift the most important results to every instance. Paths
below are relative to the repository; `engine`, `data` and `memory` stand for
`sentinel-engine/src/bdlh_runtime`, `sentinel-data/src/main/java/com/bdlh/runtime`
and `sentinel-memory/src/bdlh_memory`.

`PROJECT.json` is the machine-readable index: components, runs, mutants, the map
from every definition to the lines it models, findings, hazards and theorems.

To check a model: `tlc -config <X>.cfg <module>` (the pairs are in the table of
runs). To check a proof: `tlapm <module>` for each of the eight `*Proofs.tla`.

## 1. The system

Four services share PostgreSQL and, optionally, RocketMQ.

| Component | State it keeps | Operations | Talks to |
|---|---|---|---|
| Task store (`data/messaging/FinancialTaskStoreService`, `TaskOutboxService.complete...`) | `runtime.financial_task`: status, version, next wakeup, expiry, update time | create, update under a version, claim due, expire due, recover stale, complete and enqueue | called over HTTP by the engine; writes `outbox_event` |
| Task scheduler (`engine/infra/scheduler.py`) | the claims of the current tick, in memory | tick: recover, expire, claim, then one wakeup after another | a task store: the Java one over HTTP (`infra/remote_tasks.py`), or the engine's own tables; the agent engine inside each wakeup |
| The engine's own task store (`engine/infra/tasks.py`) | `bdlh_runtime_financial_task`, the wakeup keys that are taken, the notification outbox | the same calls, with an enqueue in place of the completion | PostgreSQL; wired by no shipped assembly |
| Task endpoints (`engine/api/routers/financial_tasks.py`) | nothing between requests | create, cancel (read, decide, write), get, list | the task store |
| Outbox (`data/messaging/TaskOutboxService`, `OutboxRelay`, `OutboxOperationsService`, `MemoryCandidateService`) | `runtime.outbox_event`: status, attempts, claim token and time, next attempt, compensation flag | insert, recover and claim, send, mark published, mark failed, requeue | RocketMQ |
| Notification consumer (`RocketMqNotificationConsumer`, `ConsumerInboxService`, `NotificationProjectionService`) | `runtime.consumer_inbox`, `runtime.user_notification` | process once | RocketMQ |
| Memory consumer (`memory/rocketmq_consumer.py`, `service.py`, `persistence.py`) | `memory.consumer_inbox`, the Mem0 store | claim, add, complete, fail | RocketMQ, Mem0 |
| Chat turns (`engine/api/routers/chat.py`, `agent_runs.py`, `infra/turn_router.py`, `run_control.py`, `run_state.py`, `chat_sessions.py`, `api/checkpoint_persistence.py`) | pending pointer of a session, pause flags, run states, checkpoints | send a message (new turn, resume, ask which), pause, cancel, resume, finish | the agent loop; the runtime data API |
| Runtime data API (`data/runtime/RuntimeDataService`) | sessions, messages, runs, history | upserts, last writer wins | called by the engine |
| Agent loop (`engine/engine/loop.py`, `runtime.py`, `executor.py`, `loader.py`) | rounds, loaded tools, budget of each run; one loader and one executor for all runs of a process | start, model call, tool call, search of tools, final answer, abort | tools through the governance |
| Tool governance (`engine/guardrails/*`) | the remaining budget of a run | gates before a call, wrapping and data-quality guard after it | tools |
| Tool catalogue and registry (`engine/tools/catalog.py`, `registry/*`) | the cards of a process | validate the registry, build the menu, register | read once at the start |
| Tool adapters (`engine/integrations/mcp/*`, `tools/*_adapter.py`) | one call long | route, ask one or three sources, fall back, flag what is missing | MCP servers, the data service, search |
| Watch events (`engine/watch/*`) | rules, events with a unique dedupe key, notifications with a unique run | poll, produce, inject, wake, notify | quotes, the agent loop |
| Deep research (`engine/tools/deep_research/*`) | the state of one research graph; one rate limiter per process | plan, search, reflect, assemble | the model, a search provider |
| Router, observation normalizer, profile and portfolio, authentication, search service, console | mostly none, or one request long | requests and computations | |

### What makes it hard

* A wakeup awaits a whole agent run between the claim of a task and the write
  of its result. Claim, recovery, expiry and cancellation of the same task go
  on meanwhile, in other processes; only a version number keeps them apart.
* The same five-minute lease idea appears three times with three different
  fences: row versions (tasks), claim tokens (outbox) and none at all (memory
  inbox).
* The update of a task checks the version but never the status, so the state
  machine of `infra/tasks.py` is enforced by callers that hold a snapshot.
* Completion, delivery and consumption are three transactions in three
  places; each may be repeated, none may be lost. On the engine's own tables the
  completion itself is two transactions.
* Each wakeup takes a key before it runs. Whoever takes a wakeup back must give
  the key back, or nobody wakes the task again.
* Which of these stories a process lives depends on its assembly: the stores the
  engine ships with refuse some calls always, those of the tests never do.
* Errors are swallowed per task but not per tick, per event but not while an
  event is marked failed.
* All runs of an engine process share one tool loader and one executor, which
  they write before an await and read after it.
* Results of several sources are put together from answers, fallbacks, errors
  disguised as answers and marks of unreal data, by four pieces of code that
  each know a part of the rules.
* Watchers of several processes look an event up, and append and mark it later,
  each in a call of its own; only a unique key with the day in it holds them
  apart.
* Deep research has five budgets, checked in four places of the graph.
* A chat run is paused, cancelled and resumed by other requests while it is in
  flight, through three stores that are written one after the other.

### What makes each component correct

* Tasks: the stored status moves along the state machine only; who can write a
  task holds it alone; a confirmed cancel is final; a completed task has one
  notification; no wakeup is blocked by a key left behind; every task ends.
* Outbox: no accepted event is lost, none is carried out twice, a given-up
  event is visible, a late relay cannot undo a result.
* Memory consumer: what is marked processed is stored, what is recorded as
  failed comes again, a message does not circulate for ever.
* Chat: a pause or a cancel that was acknowledged stays true until the user
  changes his mind, whatever is in flight; an ended run is left alone.
* Agent loop and governance: no budget is overdrawn, every run ends, a tool that
  was bound is granted, one run does not change what another is given.
* Tool calls: an error the adapter knows never reaches the model as data, nor
  does a value marked as unreal where the source answers with fields, and every
  call ends.
* Watch: one event per rule and day; no crossing is lost between two watchers;
  every tick ends.
* Deep research: the rate limit holds, nothing found is lost to a budget, the
  guard behind it refuses a bundle for its words or its addresses only, every
  research ends.

The list of hazards in `PROJECT.json`, each at its line, is what the properties
are aimed at. One hazard has no property, because the code does not keep it
(finding 4).

## 2. Modules

| Module | Models | Correspondence |
|---|---|---|
| `FinancialTask` | the state machine of `engine/infra/tasks.py` | `Transitions` is `_TRANSITIONS` |
| `TaskLifecycle` | abstract specification: statuses move along edges; completion and notification are one step | what users are promised |
| `TaskStore` | one operator per transaction of the Java store | `row` is `financial_task`, `outbox` the events of completions, `now` the database clock |
| `TaskStoreApi` | the store and any callers of its HTTP API | `held[c][t]` is the snapshot a caller last read; callers follow the contract of the completion endpoint |
| `PostgresTaskStore` | one operator per transaction of the engine's own store | `row` is `bdlh_runtime_financial_task`, `taken` the keys of `bdlh_runtime_task_wakeup`, `outbox` those of the notification outbox |
| `TaskScheduler` | the worker loops and the endpoints of the engine, on either store | `store` is the one of the assembly; `pc[w]`, `at[w]`, `claims` are the locals of `tick`; `cancel[t]` the locals of a cancel request; `raised` the creations answered with 500 |
| `NotificationDelivery` | abstract specification: an accepted command is carried out at most once | |
| `Outbox` | rows, relays, broker, notification consumer | `event` is `outbox_event`; `batch[r]`, `stage[r]` the loop of `relayPendingEvents`; `topic` the broker; `inbox`, `actions` the two tables of the consumer |
| `MemoryInbox` | the candidate consumer | `row` is `memory.consumer_inbox`; `work[c]` the progress of `consume` |
| `ChatRun` | one chat session: messages, run endpoints, streams in flight, on either assembly's stores | `registry` says which; `pending` is the bookmark in `runtime.chat_session`, `projection` the status in `runtime.run_projection`, `registered` the rows of `run_registry`, `flag` the table of `RunControlPlane`, `work[s]` a request in flight; `told[r]` is a history variable: the last promise made about a run |
| `ToolGovernance` | cards, scenes, the tool loader, the gates of the middleware | operators only: `LoadForTurn` is `ToolLoader.load_for_turn`, `PreGates` the gates G1 to G5 in their order |
| `AgentRuns` | the concurrent runs of one engine process | `run[r]` holds the locals of `AgentLoop.run` and of the middleware; `loader` and `executor` are the two shared objects; a stage is what the coroutine awaits |
| `ToolCatalog` | validation of the registry, menu, feature gate, cards and their argument contracts | operators only: `ValidSnapshot` is `load_and_validate`, `Catalogue` the registrations of `build_engine_runtime` |
| `ToolCall` | a process that starts, or refuses to, and serves calls | `call.legs` are the parts of a call under way, each with the index of its target; `Outcome` is the middleware after the call |
| `WatchEvents` | pollers, cron source, demo events, wakeup, notification | `source[p]` holds the locals of `tick` and the pause of the loop; `events`, `fired`, `notes` are tables |
| `DeepResearch` | one research from the executor's checks to the observation | `work` and `units` are the state of the graph; `granted` the deque of `ProcessRateLimiter` without its deletions; `bundle` the `ResearchBundle` |
| `*MC` | model values, inputs and symmetry sets | |
| `*Proofs` | theorems, one module per row of section 4; `ToolProofs` is about `ToolCall` and `DeepResearch` together | |

`TaskStoreApi` composes the Java store (`TaskStore`) with arbitrary callers that
follow its contract, and is shown to implement `TaskLifecycle`, under the
refinement mapping *status of the row* and *tasks with an event*. `TaskScheduler`
composes the engine's loops and endpoints with the engine's own store
(`PostgresTaskStore`), or with none where the assembly is the remote one:
its client raises in every create and update (finding 1), nothing else creates
tasks, and the sweeps of an empty table find nothing. `Outbox` implements
`NotificationDelivery` with
*accepted rows* and *committed actions*. The outbox rows of completions
(`TaskStore`) enter `Outbox` through `Accept`, which stands for the insert of
both a completion and a memory candidate; `MemoryInbox` begins with published
candidates. `ChatRun` stands alone: chat runs and tasks share no rows.
`AgentRuns` composes the shared loader and the gates of `ToolGovernance` with
the loop; what happens inside a tool is `ToolCall`, which takes its cards from
`ToolCatalog`. A deep research is one of the tools of `ToolCall`, and its graph
is `DeepResearch`.

### Which assembly is modelled

The scheduler, its handler, the task endpoints and the endpoints of a run are
written against ports (`TaskStore`, `RunRegistry`), and the repository holds
several implementations of each. `TaskScheduler` and `ChatRun` let a rigid
variable choose, so every property is about all of them:

* `"remote"`: what `infra/application.py` assembles, the only thing it can: the
  factories of the other stores refuse to build them. Here no task is ever
  created (finding 1) and no run paused, cancelled or resumed (finding 2). The
  theorems `NothingIsStoredRemotely` and `NothingIsStoppedRemotely` say so for
  every instance, and the safety properties of tasks, pauses and cancels hold
  for want of cases.
* `"postgres"` (tasks) and `"memory"` (runs): the implementation in `infra/tasks.py`
  and the in-memory stores, over which the tests of the scheduler and of the
  endpoints run. Here the same code of the scheduler, the handler, the endpoints
  and the chat stream does its work, and here the properties say something. They
  are what must go on to hold when the remote clients are repaired.

### Abstractions

* A SQL transaction is one step: each is a single statement, or takes its rows
  `FOR UPDATE`, or is serialised by a unique key. `SKIP LOCKED` only lets a
  claim miss rows that another claim is taking in the same instant.
* A remote call is one step of its store plus a fate: it happened and was
  answered, it happened and the answer was lost, or it never happened. Lost
  calls, lost answers and crashes draw from `MaxFaults`.
* The clock is a variable that ticks between any two steps, so any wakeup,
  send or consumption may outlive its lease. The sweeps of a tick are given
  the time the tick began with, which may lie behind the clock of the database.
* The agent run inside a wakeup, the quote and the price condition are a free
  choice between the outcomes the handler distinguishes. Four of its branches
  store the same row and are one action. A met condition is two actions on the
  engine's own store: enqueue the notification, then complete the row.
* Claim tokens (random UUIDs in the code) are numbers never handed out twice
  for an event. Payloads, audit trails and texts are left out, except that the
  text of an error decides the branch of the cancel endpoint
  (`CancelReread` after `TASK_VERSION_CONFLICT`).
* `ChatRun`: the engine is one process with one event loop and its store client
  blocks (`remote_runtime_data.py:30`), so what a handler does between two awaits
  is one step. A store call inside such a step may fail: the parameter `n` of an
  action is the number of its writes that took place. The agent run is an
  outcome; a stream that breaks (the engine raised, the client went away) writes
  nothing (`ChatLost`). A message is one of the four kinds the router tells
  apart. The paused state holds a checkpoint and no other state does, because
  each save replaces the row. A run waits for its user only by being paused: no
  path of the engine answers `ASK_USER` otherwise. The stores in memory can fail
  and do not survive a crash; a crash is therefore taken on the remote stores only.
* What `told` promises: *paused* when a pause was acknowledged in full and at
  most one stream executed the run; *cancelled* when a cancel was acknowledged
  and nothing executed it. The next message or resumption that takes the run up
  withdraws the promise, and so does a stream of the run that breaks. *error* is
  the answer of a request that ended in the look-up of its run.
* `AgentRuns`: coroutines of one event loop. A run keeps the loop between two
  awaits, so while one is between the gates of its calls ("calling") no other
  takes a step (`LoopFree`). The model is a free choice of text or calls; a
  search of tools finds any few of the tools the run may see. The kind of the
  public response (a run with any rejected call is reported as blocked,
  `engine/runtime.py:120`) is left out. Who counts as logged in is what the engine
  makes of the user id (`Authenticated`): see the notes of section 5.
* `ToolGovernance`: gate G2 is kept, but every card says it is read-only
  (`ToolCatalog.register` refuses others), so it never refuses: this is why
  `WritingIsNotOffered` is asked of the catalogue.
* `ToolCall`: a reply is one of the kinds the adapters and guards tell apart,
  with the marks of unreal data; values are left out. A data server may mark its
  data as any source may, but its answer stays a text
  (`raw_text`, `mcp/adapter.py:207-215`) that the guard, which walks fields and
  lists, does not look into: `OnlyRealDataPasses` therefore speaks of the other
  sources. `ErrorsAreNotData` is about the forms of error the adapter knows
  (three prefixes of a text, `error: true` in JSON); any other text is data to the
  code and to the model. Retries inside the HTTP client are part of one attempt.
* `WatchEvents`: each call of a table is a step; the evaluation of the quotes,
  which awaits nothing, is one. A rule's window is the day of the tick. The
  quotes of a step are any prices for any symbols that answered. Of the
  wakeup's context only what failed to load is kept. The watcher and the wakeup
  are not wired in `infra/application.py`; the model composes them as their
  constructors and tests do.
* `DeepResearch`: the model's units, queries and summary are free choices; a
  page is new or known to its unit and covers what was asked or not, and a page,
  like the texts of the model, may hold a term of the guard's secrets rule
  (`Telling`, `words`). Other searches of the process take from the same limiter.
  LangGraph's own limit of recursions, which the code leaves at its default and
  which may end a request with a very large budget of rounds, is not represented.
* Owners are left out: a query of another user's row answers 404 and changes
  nothing.
* In `TaskStoreApi` a row is written only below `MaxVersion`, in `TaskScheduler`
  users ask for expiries up to `Horizon` and faults stop there; the bounds are in
  the guards.

## 3. Runs

| Run (cfg) | Module | Shows | States |
|---|---|---|---|
| `TaskStoreApi` | `TaskStoreApiMC` | callers with stale snapshots, retries, crashes: `VersionNamesContent`, `OneNotificationPerCompletion`, `ImplementsLifecycle` | 28,519 |
| `TaskScheduler` | `TaskSchedulerMC` | two loops, one task, either store, slow wakeups, one fault: `ClaimIsLease`, `CurrentClaimIsExclusive`, `CancelledForGood`, `SlotIsFree`, `CompletedIsNotified`, and `EveryTaskEnds` under fairness | 456,088 |
| `TaskCreate` | `TaskSchedulerMC` | finding: no creation is stored (`CreatesAreStored`) | violation |
| `Outbox` | `OutboxMC` | two relays, two events, a fault, a requeue: `ClaimsAreLeased`, `PublishedWasSent`, `FailureIsVisible`, `ImplementsDelivery`, and `EveryEventEnds` under fairness | 229,482 |
| `MemoryInbox` | `MemoryInboxMC` | two consumers, three faults: `ProcessedIsRemembered`, `FailureIsRedelivered`, `SecondConsumerWaits`, `EverythingSettles` | 7,977 |
| `ChatRun` | `ChatRunMC` | three runs, two requests in flight, either assembly, two faults: `PauseHolds`, `CancelHolds`, `EndedIsSettled` | 132,084 |
| `ChatPause` | `ChatRunMC` | finding: the endpoints of a run answer with an error (`EndpointsAnswer`) | violation |
| `AgentRuns` | `AgentRunsMC` | a guest and a user in two scenes on one loader and executor: budget and rounds (`TypeOK`), `ScopedRunsAreIsolated`, `BoundIsCallable`, `LimitLeavesTwoRounds`, `ObserverIsActive`, `EveryRunEnds` | 215,287 |
| `ToolCall` | `ToolCallMC` | five registries, four settings, eleven tools of every route: `ErrorsAreNotData`, `OnlyRealDataPasses`, `WritingIsNotOffered`, `EveryCallEnds` | 71,780 |
| `ToolArguments` | `ToolCallMC` | finding: a call its contract admits is refused by its adapter | violation |
| `WatchEvents` | `WatchEventsMC` | two processes, two price rules and a daily one, a day that turns: `OncePerDay`, `FiredHasEvent`, `NoCrossingLost`, `EveryTickEnds` | 101,970 |
| `DeepResearch` | `DeepResearchMC` | one research of up to two units: `RateHolds`, `NeverRaises`, `GuardAgrees`, `EveryResearchEnds` | 1,776,174 |

Five further configurations lie beside these. They are not in `PROJECT.json`
and are there to be run by hand:

| cfg | Module | Shows |
|---|---|---|
| `TaskSchedulerBatch` | `TaskSchedulerMC` | two tasks claimed at once and settled one after the other, no cancels, no faults: the lease properties, `SlotIsFree` and `CompletedIsNotified` hold (131,348 states) |
| `MemoryAck` | `MemoryInboxMC` | `AckAfterProcessing` is violated: acknowledged although never processed |
| `MemoryOnce` | `MemoryInboxMC` | `ProcessedIsFinal` is violated: a late redelivery of a processed candidate is processed again |
| `AgentRecall` | `AgentRunsMC` | `RecallIsOwn` is violated: a recall reads the memory of the user whose run began last |
| `ResearchBudget` | `DeepResearchMC` | `ExhaustedIsNotComplete` is violated: a research that its budget of rounds or searches ended is COMPLETE |

Types are checked by TLC in `AgentRuns` and proved for every specification of a
run (section 4).

Deadlock is not checked in any run: the clock, the faults and the requests are
bounded, and every instance stops when they are used up.

### Bounds, and why they are enough

The leases are one or two time units long and the clock runs for three or four,
so a claim can be made, outlived, recovered and made again, which is the
longest story the properties tell. Two workers, relays or consumers are the
two parties of every race; the safety properties are proved
for any number of them. One
fault in `TaskScheduler` and `Outbox` is one lost call, lost reply or crash at any
point; that the error path fails as well (a failed update answered by a failed
`markPublishFailed`) is met there as a crash before the error path, which leaves
the row the same. Three faults in `MemoryInbox` let a failure follow a failure.
Two attempts make both the retry and the exhaustion
happen, and one requeue makes them happen again. `MaxVersion = 5` allows
create, claim, trigger, complete and a recovery in between.

In `TaskCreate` and `ChatPause` no call is lost and no process crashes, so what they
show is the code's own doing.

A session with two runs, one paused and one in flight, shows every interplay of
two runs through the one bookmark; a third lets one more be opened after both.
Two slots allow two executions of the same run, or one run's end during
another's request. `MaxFaults` bounds failed store calls and crashes together.
`AgentRuns`: the budget is two calls, the rounds therefore four, a reply holds up
to two calls and the miss limit is two, so that the fallback, the empty budget
and the limit of rounds all happen; one tool of each kind the gates tell apart.
`WatchEvents`: three moments, a session, the time after it, and the session of
the next day, so a tick may be overtaken by the day; no holiday falls in them,
which only would keep ticks from beginning. Pauses run from two to
three, so doubling meets its limit; `MaxFaults = 1` is one failing call.
`DeepResearch`: two rounds, three searches and three calls for two units, so
each of the five ways to end comes first in some behaviour; the limiter lets two
searches through in a window of one. Three pages: one that covers what was
asked, one whose address is not http, one with a term of the secrets rule. `ToolCall` holds no counters: its instance is the choice of
registries, settings and tools.

Symmetry is used over clients, tasks and workers in runs without liveness, and over runs and slots in `ChatRun`. The batch run carries the
constraint `MCNoCancel`: cancels meet every interleaving of one task in
`TaskScheduler`.

### Fairness

* `TaskScheduler!FairSpec`: the clock and every step of a worker loop that has
  not ended are weakly fair. Every call of the loop has a timeout of ten
  seconds (`remote_runtime_data.py:60`) and the agent run is bounded, so each
  step ends. A loop that an error ended is *not* restarted (no code does), which
  is why `EveryTaskEnds` allows for "every loop has stopped": this is the
  hazard of `scheduler.py:256`.
* `Outbox!FairSpec`: `@Scheduled` starts the relay a second after its last run
  ended; the broker redelivers until a message is acknowledged. `EveryEventEnds`
  excuses what the bounded clock cuts off (`PastTheClock`).
* `MemoryInbox!FairSpec`: the consumer thread takes the next message, and each
  call ends.

* `AgentRuns!FairSpec`: each step of a run in progress is weakly fair, since the
  model client and every tool have a timeout and the event loop resumes each
  coroutine. Starting a run and aborting one are not fair.
* `ToolCall!FairSpec`: each source answers or times out, and the process ends
  its start-up one way or the other.
* `WatchEvents!FairSpec`: a tick that began is carried on (`TickStep`). Nothing
  makes the next tick begin, because nothing in the code restarts a loop that an
  error ended.
* `DeepResearch!ResearchFairSpec`: the graph goes on (`Proceed`); the clock and other
  searches do not have to.

Users, operators, crashes and faults are never fair.

## 4. Proofs

All theorems hold for every value of the constants that satisfies the named
assumptions (`StoreAssumption`, `ApiAssumption`, `SchedulerAssumption`,
`OutboxAssumption`, `MemoryAssumption`, `ChatAssumption`, `ToolAssumption`,
`AgentAssumption`, `WatchAssumption`, `ResearchAssumption`): naturals, positive
leases, limits and cadence. Sets of tasks, workers, clients, relays, runs, slots,
tools, processes and addresses are arbitrary, those of watch rules finite. One
theorem about tool calls, `WritingNeverOffered`, needs `RegistryAssumption`: two
rows of the registry have different names, since the name is the primary key of
their table (`db/postgresql/schema/registry.sql:31`). No theorem uses fairness.

* `TaskStoreApiProofs`: its first lemmas are about the store: each operator keeps
  the type of the tables, moves statuses along `LegalMove` or not at all, never
  lowers a version, and changes a row only with its version.
  `VersionNamesContent` is inductive together with the
  types, because every write counts the version up: equal versions mean
  that nobody wrote in between. From it follows that the snapshot's status is
  the stored one whenever an update succeeds, hence the refinement of
  `TaskLifecycle`. `OneNotificationPerCompletion` needs that an event's task is
  COMPLETED at the event's version and that COMPLETED is never left.
* `TaskSchedulerProofs`: `LeaseInv` says of each claim that its
  version is at most the row's, and that the row is RUNNING since the claim as
  long as the versions are equal; that two claims of a task have different
  versions; and that a superseded claim is older than the staleness limit. The
  lease properties and the finality of cancel follow. `SlotInv` says where the
  keys are: a key that is taken is of an earlier wakeup than the one a sleeping
  task waits for, and not of a later one than a running task works on.
  `SlotIsFree` follows, since a key is then never the one waited for. Going
  back to sleep keeps it because it moves the wakeup on (`Cadence` is positive and
  a tick begins no earlier than the wakeups it claims); recovery keeps it because
  it gives the key back. `CompletedIsNotified` needs that a claim at stage
  *enqueued* has its notification and that its row, while its version stands, has
  the wakeup of the claim. `NothingIsStoredRemotely` proves finding 1 for
  every instance.
* `OutboxProofs`: a claim's token is at most the last one issued for its
  event, two claims never share a token, and a claim whose row is no longer its
  own is stale or its event is published. `PublishedWasSent` needs in addition
  that a relay at stage *published* has sent its first claim and that a message
  leaves the broker only into the inbox.
* `MemoryInboxProofs`: a row is written at or after the claim of every
  consumption under way, and a consumption about to complete has stored its
  memory.
* `ChatRunProofs`: the inductive invariant (`Kept`) says of a run promised to be
  paused that it is stored so and that its execution, if there is one, is the
  only one, a chat stream, and will find the pause request when it ends -
  without this the outcome it saves would break the promise. Of a run promised
  to be cancelled it says that nobody executes it. `Base` adds that bookmarks
  and executions belong to registered runs, so a new run is never one about
  which something was promised. `EndedIsSettled` follows from who writes a run
  state (`SettledStep`). `NothingIsStoppedRemotely` proves what finding 2 means
  for every instance: with the remote registry there is no bookmark, no
  pause request and no paused or abandoned run.

* `AgentRunsProofs`: the inductive invariant adds to the types that what a run
  was bound and granted in the last round agrees with each other
  (`Fits`), that no run in scoped mode is bound the meta tool, and a bound on the
  budget: what is paid is at least one for every round that executed something
  (`Account`). `LimitLeavesTwoRounds` follows, because
  there are two rounds more than calls.
* `WatchEventsProofs`: the invariant has three parts. Events: keys are unique,
  and a key is that of its rule and of the day of its event (`Keyed`), from which
  `OncePerDay` follows. Ticks: each rule a tick found is still to be looked at,
  or has an event of the tick's day (`TickInv`); a rule about to be marked has
  one of the tick's time, which gives `FiredHasEvent`. The last rule settled
  (`Settled`), nothing is left to be looked at, which gives `NoCrossingLost`.
  That a conflict counts as settled rests on `KnownIsDealt`: two equal keys of a
  rule have equal days.

* `ToolProofs`, the research: the inductive invariant (`ResearchInv`) gives
  each counter its budget *at each place of the graph* (`Budgets`: a search is
  under way only while one is left, a round only while one is left), says which
  unit is at work and that it may still search (`Position`), and that a provider
  that failed is remembered both in the flag and in the limitations, or in
  neither (`Remembered`). `GuardAgrees` rests on the last: the assembly looks at
  the flag and the guard at the limitations. What the property leaves the guard
  to find are a term of its secrets rule in a text or an address and an address
  that is not http, of which the assembly knows nothing. `RateHolds` is inductive by itself,
  by one argument about finite sets (`GrantOK`): a stretch of time that holds the
  new search began at most a window ago, so the earlier searches in it are among
  those the limiter counted. `NeverRaises` follows because a search begins with
  at least one call and one search left.
* `ToolProofs`, the calls: the invariant (`CallInv`) says of each part of a call
  that its reply is one the source it was last sent to can give, and that the
  adapter can use it, and of a finished call that its outcome is the guard's
  verdict on the observation made of the parts. The properties then are about
  operators: `McpOutcome` for the market tools and their fallbacks,
  `OtherOutcome` for the adapters that await one source, `OutcomeOf` for the
  wrapper and the guard. The theorems hold for any sets of registries and
  settings, of which the run goes through five and four.
  `UserDataNeverServed` proves finding 3 for every instance: the contracts
  leave the tools of the user's own data no argument, every reply of the data
  service to such a call is an error, and the deep search never comes as far as
  its graph.
* `ToolProofs`, both (the module extends the two, which is why the definitions
  `DeepResearch` would share with `ToolCall` carry names of their own, such as
  `ResearchSpec`): `ResearchIsAwaited` says that a research ends in one of the
  replies that `ToolCall` reckons with from it, so the two models fit at the
  place where one awaits the other.

The attempts to prove things of the tools changed the model in two places where
it was wrong. `Registrable` compared sets of cards, in which two equal cards
under one name are one, while `register` refuses the second; it now asks for
names apart from those of the engine's own tools. `ObsOf` chose among cases that
overlapped when an adapter raises, and TLC took the first; `OnError` says which
adapter does what. `Recent` and `RateHolds` now count positions of the deque
instead of filtering it.

Only model-checked: the liveness properties (`EveryTaskEnds`, `EveryEventEnds`,
`EverythingSettles`, `EveryRunEnds`, `EveryCallEnds`, `EveryTickEnds`,
`EveryResearchEnds`), which are out of the prover's reach, and the
counterexamples. Every safety property of a passing run is a theorem.

## 5. Findings

1. *No task can be created* (`TaskCreate`). `_save_payload` (`remote_tasks.py:150-159`)
   puts `datetime` objects into the body that httpx encodes as JSON
   (`remote_runtime_data.py:61-73`): `TypeError`, raised on as `RuntimeError`, before a
   request is sent. So every creation answers 500, and so would every update and
   every cancel of a task. The tests inject the request and encode nothing.
2. *No run can be paused, cancelled or resumed* (`ChatPause`). These endpoints, and
   those that read a run and its events, begin with `load_run_state`
   (`api/context.py:84`), which looks the run up without a user; the remote registry
   raises `ConfigurationError` (`remote_runtime_data.py:222-237, 292-297`) and the
   request answers 500. The tests use the in-memory registry, which answers.
3. *A call the contract of a tool admits is refused behind it*
   (`ToolArguments`). The four tools of the user's own data admit no argument,
   while the data service demands a `user_id`; the deep search forbids the
   `request_id` its request demands. Every such call is UNAVAILABLE or FAILED.
4. *The memory consumer acknowledges what nobody finished* (`MemoryAck`).
5. *Redelivery of a processed candidate after five minutes stores it again*
   (`MemoryOnce`).
6. *A recall may read another user's memory* (`AgentRecall`). The shared executor
   keeps the user of the run that began last (`executor.py:39`,
   `runtime.py:58`) and reads it when the recall is executed, awaits later;
   `tools/catalog.py:281` promises "the current user's" memory.
7. *A research ended by its budget may be COMPLETE* (`ResearchBudget`). The route
   after a round ends at the limits of rounds, searches or time without setting
   `budget_exhausted` (`deep_research/graph.py:228-245`), the only thing the
   assembly looks at (`assembly.py:114`, and
   `test_assemble_never_complete_when_budget_exhausted`).

`PROJECT.json` carries 1, 2 and 3; the others are shown by the further
configurations.

Behind finding 1, unreachable until it is repaired, and therefore given no run:
the wakeup handler moves only its own copy of a task to TRIGGERED and COMPLETED
(`scheduler.py:139-168`) and calls the completion of the remote store, while
the row is still RUNNING and `TaskOutboxService` refuses a row that is not TRIGGERED
(`TASK_NOT_TRIGGERED`, line 81); the tick swallows the refusal. And the cancel
endpoint recognises a lost race by the text `TASK_VERSION_CONFLICT`, which the
remote client does not raise. Behind finding 2, in the same way: a
chat run that ends with an answer clears the bookmark of the session without looking
whose it is (`chat.py:425-459`), so it may drop that of another run paused
meanwhile. With the stores in memory this happens; `PauseHolds` does not
contradict it, because it speaks of the stored state and not of the bookmark.

Seen in the code, not given a run: recovery by the Java store moves
`next_wakeup_at` to the current time, so the wakeup key of a recovered task
changes, while the test of the in-memory store
(`test_stale_running_wakeup_is_recovered_with_the_same_idempotency_slot`)
expects it to stay.

Of tools: a result an executor returns as a plain record with status
UNAVAILABLE or FAILED becomes a SUCCESS in the middleware's wrapper
(`_wrap_observation`). An MCP tool that answers with no text at all counts as
SUCCESS. The marks of mock or outdated data inside the text of an MCP answer are
seen by nobody: the adapter keeps the text as one string (`raw_text`). Renaming of arguments
applies the one table of the capability to both targets of a route. The closure
of `depends_on` is not used. A comment in `mcp/adapter.py` says its detection of
swallowed errors agrees with that of the normalizer, which knows only
the JSON form and which no path of the engine calls. The fallback of the tool search lasts for the life of the process
and its cache is shared by all sessions.

Of the watch ring: the docstring of `run_price_poller_loop` (`sources.py:374`)
and its condition differ: the pause grows only when a round produced nothing and
failed. A context provider that returns nothing leaves the marks of degradation
unset (`wakeup.py:43` against `:71`). `last_fired_at` is never read. A rule the
user pauses between the quote and the append still fires. An error of the store
that is not a conflict ends the loop of a poller.

Of deep research: `model_call_limit` is never enforced (`contracts.py:32`). The
executor ignores the verdict of its own call policy. Sources are deduplicated
within a unit only. One address that is not http blocks the whole bundle, and so does any text of it with a term of
the secrets rule (`research_rules.py:28-36`), which looks for the letters `sk-` and
so finds them in "risk-free" and "task-based". After a
search that was not available a unit is not checked for its end until its next
turn. No caller in production allows COMPLETE.

Of callers: the API names a guest "0" (`api/identity.py`), while the engine takes
`""`, `guest` and `anonymous` for guests (`runtime.py:20, 69`). To the engine a
guest of the API is therefore logged in, and the gate that asks for a login (G3)
refuses nobody who comes through the API. The model keeps the engine's own rule
(`Authenticated`), with one guest it knows and one it does not, and states no
property about guests.

Of chat runs (with the stores in memory): the resume endpoint looks at no status, so an abandoned run can be
resumed by its id, while the docstring of cancel (`agent_runs.py:188`) says it
cannot. It does not withdraw a pause request either: a run that was paused while
nothing executed it is paused again by every call of the endpoint, until a chat
message takes it up (`ResumeRefused`). A cancel of a run in flight is overwritten
by the run's own result. A run paused, continued while its first stream is still
in flight, and paused again has two streams; the first to end withdraws the
request, and the second saves its answer over the pause. `PauseHolds` and
`CancelHolds` promise nothing in these cases, and the premises say so.

## 6. Not modelled, and what could follow

Not modelled: authentication and authorization (the models begin behind them);
the semantic router and the numeric indicators (computation without state); the
guards on the text of input and output (pattern matching); the observation
normalizer, which nothing calls; the transports of
MCP; the Mem0 gateway; the console; the probes. Of modelled components, the
"note" in `PROJECT.json` says what is left out.

What could follow, in this order:

1. The search service: its fixed-window rate limit and its cache with expiry.
2. The confirmation of a financial profile: versions and their one current row.
3. The delivery of the engine's own notification outbox (`claim_pending`, three
   attempts, recovery of what was being sent).
4. The composition of `WatchEvents` with the wakeup's agent run, once the
   application wires the two.
5. The composition of `ToolCall` with `AgentRuns`: what a run is given as the
   result of a call, and what it pays for it.
