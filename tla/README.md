# A verification project for the agent dashboard

TLA+ models of the control plane in this repository: an append-only event log in
Postgres, an HTTP API that starts and controls runs, worker processes that
execute the items of runs, and projection tables that the dashboard polls. The
modules are translated from the Rust source, the SQL migrations and the Compose
file; `PROJECT.json` maps each definition to its lines.

## 1. The system

### Components, state, operations

| Component | Source | State it keeps | Operations | What makes it correct |
|---|---|---|---|---|
| Event store | `infra/src/persistence.rs`, `migrations/001` | table `event_log`; per-transaction advisory lock on `hashtext(run id)` | `append`, `load`, `load_all` | revisions 1, 2, ... per run; a batch whole or absent; what was acknowledged is there; the log only grows at its tail |
| Orchestrator | `application/src/orchestrator.rs` | none: folds `load` on every request | `start_run`, `pause`, `resume`, `cancel`, `retry`, `create_workspace`, `create_agent_profile` | a control event is appended only to the log it was decided on |
| API | `api/src/routes.rs` | rows it writes after the orchestrator appended | create run, controls, rebuild, read routes | the rows never show what the log does not have |
| Worker | `application/src/bin/worker.rs`, `worker.rs`, `bin/worker.rs` | run states, rebuilt on every poll; the batch it has not appended yet | load, pick, execute, complete, append with retries, project | a run completes only when its items did; a stop is heeded; nothing is lost for good |
| Rebuild | `infra/src/replay.rs` | the fold it loaded | load, clear, upsert rows | the tables afterwards show the log |
| Projections | `migrations/002`, `persistence.rs` | `agent_runs_projection`, `work_items_projection` | upserts, status update, clear | behind the log, never ahead of it |
| Boot | `api/src/main.rs`, `worker.rs` (`connect_with_retry`), `bin/rebuild.rs`, `migrations.rs` | attempts of two nested loops | connect, check the schema, migrate, reconnect | a boot ends; it ends well when the database is ready; a worker survives an outage |
| Planner, dispatcher | `application/src/planner.rs`, `dispatcher.rs` | none | split an objective, deal items to agents | between one and twelve items, no word lost, agents loaded evenly |
| Executors | `application/src/harness.rs` | none | execute an item, make its events | one of three lists of events, efforts positive, whatever an endpoint answers |
| WebSocket gateway | `infra/src/ws_gateway.rs`, `api/src/ws.rs` | a broadcast ring (100 asked for, tokio rounds up to 128), one receiver per client | `broadcast`, `subscribe`, the select loop | clients get what is stored, once and in order, and a client that lags gets on again |
| Dashboard | `dashboard/frontend/index.html` | what it polled | refresh | it shows what it was given |
| Domain state, cost tracker, Redis cache | `domain/`, `cost_tracker.rs`, `redis_cache.rs` | - | - | stubs: nothing calls them |

### How they interact

Nothing calls anything else directly except the API its orchestrator. The
processes meet in Postgres: API handlers and workers append to `event_log`, each
reads it back and folds it for itself (`RunReplayState::from_events`,
`run_states_from_events`, `rebuild_projections`, `build_cost_effort_history`:
four folds written by hand), and three writers write the projection tables - the
API after a control request, the worker after an append, the rebuild after a
clear. No transaction covers both an append and the rows that show it. Besides,
the orchestrator broadcasts the events it appended to the websockets of its own
process; what workers append is not broadcast, and the dashboard polls.

### What is hard

* **Interleaving.** Workers do not claim items; two of them execute the same
  ones. Control requests land in the middle of a worker's turn. A handler loads
  twice and appends to what it saw the second time.
* **Lost answers.** The answer to a `COMMIT` may be lost: the worker sends the
  same events again, the server may still commit the first transaction, and
  until it ends it that transaction holds the lock of the run.
* **Crashes.** A worker may die between executing, appending and projecting; a
  rebuild may die between its two `DELETE`s and its upserts.
* **Two orders.** `load` orders by revision, `load_all` by `occurred_at`, which
  is stamped before the append.
* **Drift.** The folds do not look at the same events.
* **Torn reads.** The page of a run is five queries outside of a transaction.
* **The stream.** Requests broadcast from several threads; slots of the ring are
  reused under slow receivers; a `select!` loses a branch whose pattern does not
  match, and waits for the other one alone. A send to a client that stopped reading
  is awaited without a timeout.

`PROJECT.json` lists each hazard at its line with the properties that watch it.

## 2. The modules

| Module | Models |
|---|---|
| `AppendOnlyLog` | what the event store promises: one journal per run, a batch appended once and whole, or not at all |
| `EventStore` | `append` statement by statement, its two kinds of callers, and what Postgres does with transactions whose client is gone; refines `AppendOnlyLog` |
| `EventStoreProofs` | the theorems about `EventStore` |
| `RunFolds` | the events of a run and the four folds |
| `RunSystem` | one run: API handlers, workers, rebuild and projection tables around the log; uses `RunFolds` |
| `RunPage` | `GET /api/runs/{id}` beside it, query by query; extends `RunSystem` |
| `Boot` | connection, readiness, migrations and reconnects of API, worker and rebuild binary |
| `FoldProofs` | what the folds compute, for logs of any length |
| `RunSystemProofs` | types of a run, and that no event is stored twice |
| `RunHistoryProofs` | what the log of a run promises, what rows and pages may show of it |
| `TurnProofs` | how much is executed after a stop, and how often an item |
| `BootProofs` | the theorem about `Boot` |
| `GatewayProofs` | the theorems about `Gateway`, and its refinement |
| `EventFeed` | what the websocket promises a client |
| `Gateway` | appends and broadcasts of the orchestrator, the ring, the task of each connection; refines `EventFeed` |
| `IntakeProofs` | the theorems about planner, dispatcher and executors |
| `Planner` | the functions of the planner and the dispatcher |
| `Harness` | the executors and the events they lead to; extends `Planner` |
| `Intake` | a request planned, dealt out and executed with these functions |
| `MCEventStore`, `MCRunSystem`, `MCRunPage`, `MCBoot`, `MCGateway`, `MCIntake` | instances for TLC |

**EventStore.** `event_log` is a set of rows `[agg, rev, id]`. A writer goes
through `load` (the revision it rebases on), `begin`, `lock`, `select`, `insert`
(one row a step), `commit` and `committed`. At every statement the connection may
be lost, and the process may die; a transaction that reached the server then
becomes an *orphan*, which keeps its lock until `EndOrphan` rolls it back or, if
the `COMMIT` was on its way, commits it. The orchestrator is a writer with one
attempt, the worker one with several, whose attempts reuse the event ids and
rebase the revisions. Keys of the advisory lock are a constant function of the
run, so that collisions of `hashtext` are covered. A transaction keeps a
connection of its process's pool from `begin` until `append` returns, and a load
needs a free one; nothing in a transaction asks for a second connection, which is
why a full pool does not stop for ever (the mutant of `CallsReturn` asks for one).

**RunSystem.** An append is one step here, which `EventStore` justifies; what is
left of its inside is `inflight`, the batch of a writer that lost the answer: it
holds the lock and lands, or does not, later. Every load, execution, append, row
upsert and `DELETE` is a step. `wrk[w]` holds the locals of the worker's loop,
`ctl[h]` those of a control request between its loads and its row update,
`rebuild` the fold a rebuild works from. An execution is a choice of outcome,
`success`, `failure` (the executor says so) or `error` (the executor returns
`Err`), with the events `events_for_execution` makes of it. `clock` is
`Utc::now()`: a counter that moves with each event, so that it also serves as
the identity of the event.

**RunPage.** One request at a time goes through `row`, `count`, `latest`, `items`
and `timeline`; between any two of them the rest of the system moves. `page`
holds what was read so far.

**Boot.** A process is at `connect`, `check`, `nap` (inner sleep), `sleep` (outer
sleep), `migrate`, `running` or `failed`; Postgres starts and stops at will. A
worker has a main loop: `load` (`load_all`), `running` (the turn), and `rest` when
the load failed, from which it goes through the connection loops again and, when
these give up, back to `load` with the store it had. `loop` says that a process
has been there.

**Gateway.** An event is its revision; `log[r]` is the batch it came with. A
request appends (`AppendEvents`) and then broadcasts event by event, so that two
requests mix. The channel of tokio is external and modelled from its contract: a
ring of slots with positions, a position per receiver, `Lagged` when the slot has
been reused, an error when nobody listens. A connection is `away`, `hello`,
`select`, `sending` or `gone`; `recvOff` and `nextOff` are the branches the
current `select!` has lost, which return with the next turn of the loop. With
both lost `select!` panics, which ends the task. `reading` says whether the client
takes what it is sent: a client may stop to (`ClientStalls`) and keep its connection,
for TCP keeps a peer that answers probes with a closed window. A send may then still
return, as long as buffers take the event, or wait for ever.

**Planner, Harness, Intake.** An objective is its number of words, an item the
interval of words it has. An executor is a function from what an endpoint may
answer to a result. `Intake` is the composition: a request is planned and dealt
out by `StartRun`, then items are executed with any result an executor can come
to. What `RunSystem` takes as constants (a set of items, outcomes, one positive
`Effort` and its `Chunk`) is what `PlanFits` and `ExecutionsAccounted` establish.

### What is abstracted

Costs follow the same additions as efforts and are left out, as are agents'
names, descriptions, workspaces, metadata and the lengths of delays. A run has a
constant set of items. `clock` is one clock for every process: `ControlIsLatest`
therefore holds for hosts whose clocks are synchronised more closely than events
follow each other, which is the deployment on one machine that the scripts make.
In `Gateway` there is one stream of revisions, as a client sees one feed.

## 3. What TLC checks

| Run | Instance | Shows |
|---|---|---|
| `store` | worker with two attempts and two handlers with one, which share an API pool of one connection; two runs with one lock key; 2 calls of up to 2 events | lock, tail, dense revisions, atomic batches, durability, growth at the tail; every call returns; append implements the abstract log |
| `run_control` | 2 items, 1 worker, 2 requests of any kind at once, executions that may fail | completion is earned, a stop is heeded, control events are the latest |
| `run_faults` | 1 item, 1 worker, 2 requests out of cancel, retry and at most one rebuild, 1 fault | no event twice, no item completed twice unpaid, a completed run shows its effort, rows stay behind the log; an assigned item in a running run does not wait for ever, also when a retry assigned it |
| `run_page` | 1 item, 1 worker, 1 cancel, 1 rebuild, the page of the run | what a torn read shows is explained by its own timeline |
| `run_completes` | 2 items, 2 workers, no faults | conflicting workers: nobody is paid twice, the effort is shown, and a running run completes |
| `boot` | API, worker, rebuild binary, launched up to twice, Postgres stops up to twice | work only with tables; every boot ends; a ready database is used; a worker in its loop comes back |
| `gateway` | 2 requests, 1 connection, 2 slots, 4 events in batches of up to 2 | batches in order and once; nothing missed without a lag; events reach a client that reads; speaking ends the silence after a lag; a closed client's task ends; the ring implements `EventFeed` |
| `intake` | objectives of 0 to 37 words, the counts at all boundaries of planner and dispatcher, answers at the ends of an i32 of 8 bits, 1 execution | no word lost or repeated, plan sizes, balanced loads, accounted executions |
| `boot_empty`, `folds_agree`, `rebuild_stale`, `pool_shown` | small | the four disagreements of section 6 |

The invariants worth reading first are `TransactionOwnsTail` (why the check of
the revision is safe although it is a `SELECT` and not an index), `BatchAtomic`
(why a retry after a lost answer does no harm), `CompletedIsEarned` and
`StopIsHeeded` (what workers without claims still guarantee), `ControlIsLatest`
(why two folds in two orders agree on control events), `PageExplained` (why a
torn page is still coherent: rows first, timeline last) and `GreetedMissNothing`.

**Bounds.** Two attempts make a retry after a conflict, after a lost answer and
after a late commit happen; two calls let another writer in before, between and
after. Two of the three writers are at work at a time: one holds the lock and the
other waits for it on a connection, or both handlers want the one connection of
their pool. Three at once are beyond TLC's reach; that locks stay exclusive and
tails owned for any number of them is proved, that their calls return is not. Two
items are needed for a run that is half done, two workers for a conflict, two
requests for a decision that is stale. One fault is a crash, a lost answer or a
late commit at any step; with it a rebuild may also stop half way. Two requests
are needed for a retry that does something: it has no effect unless a pause or a
cancel stopped the run before. `MaxRequests` counts rebuilds among them, so that
`run_faults` has a cancel and a retry or one of them and a rebuild, beside its
fault. `run_page` has no faults, to stay small, and leaves them to `run_faults`,
which checks the invariant the page rests on (`ProjectionBehindLog`) with them.
Faults and conflicts of two workers on two items at once are out of reach for
liveness: `RunCompletes` is checked with conflicts and no faults,
`AssignedIsPickedUp` with a fault and one worker. A ring of two slots is overrun
by three of the four events, and a batch of two mixes with another. `IntHalf` is
128 so that the wrapped, negative and largest numbers are few; the arithmetic does
not depend on the width. 37 words are one more than three times the largest plan.
`CHECK_DEADLOCK FALSE` is set because every instance may stop: calls, requests,
launches and events are bounded, and a run that is completed, blocked or cancelled
gives nobody anything to do. Symmetry of workers and of handlers is used in a
safety run of `RunSystem` only.

**Fairness.** A process that is alive takes its next statement: the worker polls
for ever, and futures that were started are polled (weak fairness of `WorkerStep`,
`ControlStep`, `UpsertCreated`, `RebuildStep`, `Step`, `Broadcast`, `SelectStep`).
In `EventStore` the steps of a writer are strongly fair (`Work`), because both
queues it may stand in are served in order: Postgres grants an advisory lock and
sqlx a connection to who waited longest. Postgres ends the transactions of lost
clients (weak fairness of `EndOrphan`, `EndInflight`). In `Gateway` the two
branches of a `select!` are strongly fair: tokio polls them in random order, so
none that is ready again and again is passed over for ever. A send returns
(`SendReturns`) when the client reads, when the close was read, or when the
connection broke; for a client that stays and does not read nothing says so, and
`EventsReachClient` names that case, `Stalled`. Nothing obliges a client to call,
to speak or to read, a request to be made, Postgres to start or stop, or a fault
to happen; and none of the faults is excluded by fairness, only by its bound.

## 4. What is proved

`tlapm` checks, for all values of the constants, the safety invariants of every
passing run, the action property `GrowsAtTail` and both refinements:

| Module | Theorem | Statement |
|---|---|---|
| `EventStoreProofs` | `Invariance`, `TypeCorrect`, `LockSafety`, `TailSafety`, `DenseRevisions` | the inductive invariant and the invariants of `store` it implies |
| | `TailGrowth` | the action property `GrowsAtTail` |
| | `ExactlyOnce`, `Durability` | `BatchAtomic`, `OkIsDurable` |
| | `Refinement` | `EventStore` implements `AppendOnlyLog` |
| `BootProofs` | `SchemaBeforeWork` | `RunsOnSchema` |
| `FoldProofs` | `StatusIsLast` | a fold ends with the status the last event that sets one gives |
| | `EffortInAnyOrder` | the same events add up to the same effort in any order |
| | `TimeOrderSorts` | the order of `load_all` is a permutation of the log, by rising time |
| `RunSystemProofs` | `TypesHold`, `EventsAreOnce` | `TypeOK`, `EventsOnce` |
| `RunHistoryProofs` | `ControlIsTheLatest`, `CompletionIsEarned`, `ProjectionIsBehindLog`, `CompletionShowsEffort` | `ControlIsLatest`, `CompletedIsEarned`, `ProjectionBehindLog`, `CompletedShowsEffort` |
| | `PageIsExplained`, `PageCountsDoAgree` | `PageExplained`, `PageCountsAgree` of `RunPage` |
| `TurnProofs` | `StopsAreHeeded`, `ExecutionsArePaid` | `StopIsHeeded`, `ExecutionsPaid` |
| `GatewayProofs` | `FeedTyped`, `BatchesAreInOrder`, `GreetedAreServed` | `TypeOK`, `BatchesInOrder`, `GreetedMissNothing` |
| | `GatewayImplementsFeed` | `Gateway` implements `EventFeed` |
| `IntakeProofs` | `IntakeTyped`, `WordsAreKept`, `PlansFit`, `LoadsAreBalanced`, `ExecutionsAreAccounted` | the invariants of `intake` |

**Assumptions.** They are the `ASSUME`s of the models, which TLC evaluates on the
instances. `EventStore`: every run has a lock key, every writer at least one
attempt and a process with a pool, bounds are natural numbers. `RunSystem`: a
finite set of items (`ItemsAssumption`); no worker is called "api"; the requests
and the outcomes are some of those the code knows; effort, items per turn and
attempts are positive (`NumbersAssumption`). `Gateway`: a ring of at least one
slot. `Planner`: the default and the largest numbers of items and of agents are
positive, and there are as many canned steps as a default plan needs. `Harness`:
an integer that can hold 10, of any width. `Intake`: counts are numbers, settings
are an i32. Nothing is assumed about how many workers, handlers, items, clients,
events, attempts, rebuilds or faults there are.

### The arguments

**EventStore.** `RevisionsDense` is not inductive: an insert of revision
`latest + 1` is harmless only if `latest` is still the last revision. That is
`TransactionOwnsTail`, which in turn needs that nobody else with the same key is
past the lock, orphans included: `LockExclusive`. `IInv` is the conjunction of
these with the types, `LastIsNat` (the maximum of a run's revisions exists) and
`TxNotEmpty` (an empty batch never opens a transaction). The lemma it turns on is
`CommitExtendsTail`: a batch that starts after the last revision and whose events
are new keeps the run dense and leaves the others alone. The steps of `Next` fall
into four groups - those that touch only locals (`LocalStep`), that leave a
transaction behind (`LeaveStep`), that commit (`CommitStep`) and the rest - and
`NextIInv` has one step for each action. For whole batches `BatchIInv` adds that
every row belongs to a call that exists, that a call is stored whole or not at
all, and that a writer at `committed` has its events stored. `Refinement` maps the
journal of a run to the ids of its rows by revision; a commit maps to the abstract
append of the batch, the return of `Ok` to its confirmation, and every other step
to a stutter.

**Boot.** `RunsOnSchema` is not inductive, because a worker returns from a
reconnect it gave up to its loop without having looked: `TablesSeen` adds that
whoever has been in the main loop knows the tables to be there, and tables are
never dropped.

**The folds.** The library's induction theorems take a predicate, which no prover
here can instantiate. `FoldProofs` therefore proves induction for a *set* of
numbers from the well-foundedness of `<`, and from it what the folds of
`RunFolds` give on a log of any length: the status of the last event that sets one,
a sum that grows with the log and does not depend on the order, a selection that
keeps the order.

**One run.** Four invariants, each resting on the one before.

1. `TypeInv`: the types, and who is where with what - a handler that is idle holds
   no events, a worker that is to append holds some.
2. `StampInv` gives `EventsOnce`, which alone is not inductive: a batch may be in
   flight, or stored, and in the memory of the worker that sends it again. It says
   that what handlers and workers hold is apart from all the rest, but for that: a
   worker's batch is the one in flight, or is stored whole, or shares no event.
   This is why the check for the first event's id on a retry is enough.
3. `HistoryInv` follows each process from the load that began its work: what it
   holds - items it takes for completed, an effort, rows it is going to write - was
   true of a log that has only been appended to since (`Grows`). What makes it
   inductive is that each part of it is monotone in the log. `Earned` says of a
   batch that ends the run that each item is completed before, in the log or in the
   batch itself; `Later` that what the API is about to append is later than the log
   as it was when the revision was read, which is the log it is appended to if the
   revision still fits. `PageInv` is the same for the five queries of a page, whose
   timeline is read last and so has whatever explained the rest.
4. `TurnInv` counts what is executed, and counts it as a set of time stamps over
   the log, the batch in flight and the worker's memory together, so that a batch
   that is in two of these places counts once. `Heeds`: after a stop that nothing
   has lifted, a worker that is still in its turn has nothing of this turn stored or
   in flight, and what it has in its memory is within the turn. `Pays`: at any time
   the completions of an item by one worker are at most the assignments before, and
   the faults; one assignment or fault is left over as long as the worker holds the
   item as assigned.
   The part that is hard to see is the lost answer: a worker that died or gave
   up forgets a batch that still lands, and executes again. `Spares` says that
   as long as a batch with a completion is in flight and its worker has made
   none since, one more is paid for, by the fault that hid the batch.
   `OriginInv` (who makes which events) keeps the two counts apart.

**Gateway.** `FeedInv` says of the ring that each position holds an event of the
log, those of one batch in their order; of a task between its greeting and a
lag, that the client was given every position from the one it subscribed at up to
the one it reads next. `GatewayImplementsFeed` maps a send on the channel to the
abstract `Publish`, an append to `Store` and what is handed to a client to `Give`,
which must come after all the client was given: `FeedInv` has that, because a task
only reads on. Greetings, wake-ups, lags, closes and a client that stops reading or
goes on are stutters.

**Intake.** `IntakeInv` says that the items are those the functions compute for the
request, so that the rest is about `Decompose`, `AssignItems` and `EventsFor`:
that the intervals of the items follow each other without a gap, that `chunks` of
the rounded-up size give no more items than asked for, that dealing round robin
loads agents evenly, and that every path through the three executors ends with a
positive effort within i32. Flattening a plan back into its words is again an
induction over a set of numbers.

## 5. Only model-checked, and not modelled

*Only model-checked*: liveness (`CallsReturn`, `RunCompletes`,
`AssignedIsPickedUp`, `BootEnds`, `ReadyRuns`, `WorkerRecovers`,
`EventsReachClient`, `SpeechUnmutes`, `ClosedIsReaped`), which needs fairness and
`ENABLED` and is out of the prover's reach; and the four properties of section 6,
which do not hold. `run_control` checks `CompletedIsEarned` with one worker and no
fault; for several workers and faults it is proved. That `RunSystem` may take an append as one step is an argument
from what `AppendOnlyLog` promises, not a theorem: a batch has no
call of its own there that `AppendOnlyLog` could number.

*Not modelled*: the dashboard page and the scripts, except for what they assert;
item affinity, under which nothing that `start_run` deals out has the id of a
worker, so that no item is ever picked; the counts of `overview_metrics`, no two of
which need to agree; list routes, which are single reads; `replan_on_failure`,
`Worker::execute_item`, domain state, cost tracker and Redis cache, which nothing
calls; costs, prompts and the texts of language models; sums of efforts beyond
i32, which the code adds without a check.

## 6. Where code and documents disagree

* `boot_empty`: README says the API runs migrations on boot. It looks for
  `event_log` first, and on a database that `initdb.d` did not prepare it gives up
  before it would create it.
* `folds_agree`: PLAN wants the worker's fold and the rebuild's to agree. After a
  cancel, a late completion sets the rebuilt row to running.
* `rebuild_stale`: README says the rebuild replays all events. A rebuild that loaded
  a running run writes what it folded over the row of a run that completed in
  between, and the row stays `running` although the log says completed.
* `pool_shown`: the smoke test takes `completed` for the end of a run, and README
  offers pools of workers on one event store. A worker of the pool whose turn began
  earlier writes its own status, `running`, over the completed row, and no worker
  looks at a completed run again.

## 7. Plan

In the order of importance; the first six are done.

1. `AppendOnlyLog`, `EventStore`, their refinement and proofs.
2. `RunFolds`, `RunSystem`, `RunPage`: one run with controls, workers, faults,
   rebuild and readers.
3. `Boot`: connection loops, readiness, migrations and reconnects, with a proof.
4. `Gateway`, `EventFeed`: the event stream and its refinement.
5. `Planner`, `Harness`, `Intake`: from a request to the events of its execution.
6. Proofs: the folds, one run and its page, the turns of workers, the gateway and
   its refinement, planner and executors.
7. A theorem that what `RunSystem` takes as one step is a step of the abstract log,
   with the calls of each batch as a history variable; what a row of the run may lag
   behind by, as an action property of the writers.
8. Item affinity, and runs a worker takes from one load in one turn.
