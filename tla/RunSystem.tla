----------------------------- MODULE RunSystem ------------------------------
(***************************************************************************)
(* One run, from POST /api/runs to its end: the API handlers that start,   *)
(* pause, resume, cancel and retry it, the worker processes that execute   *)
(* its items, the projection rebuild, and the two projection tables, all   *)
(* of them around the event log.                                           *)
(*                                                                         *)
(* The log is a sequence whose positions are the revisions: EventStore     *)
(* shows that append gives dense revisions and whole batches under one     *)
(* lock, so an append is one step here, which fails when another batch     *)
(* came in since the writer read the latest revision.  What remains of it  *)
(* is a COMMIT whose answer the writer did not get: its batch is in flight,*)
(* holds the lock and is ended by the server later.  Every other step is   *)
(* one call of the database or one execution of an item; steps of          *)
(* different processes interleave freely.                                  *)
(***************************************************************************)
EXTENDS RunFolds, SequencesExt

CONSTANTS
    Workers,        \* worker processes, WORKER_ITEM_AFFINITY unset
    Handlers,       \* control requests being served at the same time
    Requests,       \* the kinds of control request that are made
    Outcomes,       \* what an executor can answer: success, failure, error
    Effort,         \* the effort an execution reports
    ItemsPerLoop,   \* WORKER_ITEMS_PER_LOOP
    MaxAttempts,    \* WORKER_APPEND_ATTEMPTS
    MaxControls,    \* bound: control requests
    MaxRebuilds,    \* bound: projection rebuilds
    MaxRequests,    \* bound: both of them together
    MaxFaults       \* bound: crashes and failed calls of the database

(* by is a worker or the API.                                               *)
ASSUME WorkersAssumption == "api" \notin Workers
ASSUME RequestsAssumption == Requests \subseteq {"pause", "resume", "cancel", "retry"}
ASSUME OutcomesAssumption == Outcomes \subseteq {"success", "failure", "error"}
ASSUME NumbersAssumption ==
    /\ Effort \in Nat \ {0} /\ ItemsPerLoop \in Nat \ {0} /\ MaxAttempts \in Nat \ {0}
    /\ MaxControls \in Nat /\ MaxRebuilds \in Nat /\ MaxRequests \in Nat
    /\ MaxFaults \in Nat

VARIABLES
    log,        \* the events of the run, by revision
    inflight,   \* a batch its writer no longer waits for, or none
    clock,      \* Utc::now(): the next occurred_at
    runRow,     \* the row of the run in agent_runs_projection
    itemRow,    \* the status of each item in work_items_projection
    creation,   \* where create_run is
    ctl,        \* ctl[h]: the control request h serves
    wrk,        \* wrk[w]: the locals of a worker's loop
    rebuild,    \* the locals of rebuild_projections
    controls, rebuilds, faults      \* what the bounds have left

vars == <<log, inflight, clock, runRow, itemRow, creation, ctl, wrk, rebuild,
          controls, rebuilds, faults>>

-----------------------------------------------------------------------------
(* load orders by revision; load_all by occurred_at, which is stamped when  *)
(* the event is made, before it is appended.                                *)
ByTime == InTimeOrder(log)

NoRunRow == [status |-> "absent", effort |-> 0]

IdleControl == [pc |-> "idle", kind |-> "", reassign |-> {}, base |-> 0, events |-> <<>>]
IdleWorker ==
    [pc |-> "idle", status |-> "", items |-> NoItems, effort |-> 0, count |-> 0,
     events |-> <<>>, attempt |-> 0, base |-> 0, todo |-> <<>>]
IdleRebuild == [pc |-> "idle", status |-> "", items |-> NoItems, effort |-> 0, todo |-> {}]

Init ==
    /\ log = <<>> /\ inflight = <<>> /\ clock = 0
    /\ runRow = NoRunRow /\ itemRow = NoItems
    /\ creation = "new"
    /\ ctl = [h \in Handlers |-> IdleControl]
    /\ wrk = [w \in Workers |-> IdleWorker]
    /\ rebuild = IdleRebuild
    /\ controls = 0 /\ rebuilds = 0 /\ faults = 0

(* A fault is possible while the bound has not been used up.                *)
Fault == faults < MaxFaults /\ faults' = faults + 1

(* The items in some order, for the events of one batch.                    *)
AssignAll(items, by, t) ==
    LET s == SetToSeq(items)
    IN  [k \in 1..Len(s) |-> ItemEvent("WorkItemAssigned", s[k], by, t + k - 1)]

-----------------------------------------------------------------------------
(* append: the lock of the run is free, the revisions still fit, and the    *)
(* primary key has none of the events.                                      *)
LockFree == inflight = <<>>
(* Mutant of AlreadyStored: no primary key.                                 *)
StoredUnknown(events) == FALSE
AlreadyStored(events) == \E k \in DOMAIN log : log[k].at = events[1].at
(* Mutant of Fits: the revision is not compared.                            *)
FitsAnywhere(base, events) == ~ AlreadyStored(events)
Fits(base, events) == base = Len(log) /\ ~ AlreadyStored(events)

(* The server ends the transaction of a writer that is gone.                *)
EndInflight ==
    /\ inflight # <<>>
    /\ inflight' = <<>>
    /\ log' = log \o inflight \/ UNCHANGED log
    /\ UNCHANGED <<clock, runRow, itemRow, creation, ctl, wrk, rebuild,
                   controls, rebuilds, faults>>

-----------------------------------------------------------------------------
(* create_run: start_run appends RunStarted and one assignment per item to  *)
(* a run nobody else knows, then the handler upserts the row of the run.    *)
StartRun ==
    /\ creation = "new"
    /\ log' = <<RunEvent("RunStarted", "api", clock)>> \o AssignAll(Items, "api", clock + 1)
    /\ clock' = clock + 1 + Cardinality(Items)
    /\ \/ creation' = "appended" /\ UNCHANGED faults
       \/ creation' = "done" /\ Fault           \* appended, but the answer is lost
    /\ UNCHANGED <<inflight, runRow, itemRow, ctl, wrk, rebuild, controls, rebuilds>>

(* The row is written whole, over whatever a worker wrote in between.       *)
UpsertCreated ==
    /\ creation = "appended"
    /\ runRow' = [status |-> "running", effort |-> 0]
    /\ creation' = "done"
    /\ UNCHANGED <<log, inflight, clock, itemRow, ctl, wrk, rebuild, controls, rebuilds, faults>>

CreateRunDies ==
    /\ creation = "appended"
    /\ Fault
    /\ creation' = "done"
    /\ UNCHANGED <<log, inflight, clock, runRow, itemRow, ctl, wrk, rebuild, controls, rebuilds>>

-----------------------------------------------------------------------------
(* Control requests.  Target is what change_status is called with.          *)
Target == [pause |-> "paused", resume |-> "running", cancel |-> "cancelled",
           retry |-> "running"]

SetCtl(h, r) == ctl' = [ctl EXCEPT ![h] = r]

(* The first load decides: nothing to do when the run is already there, and *)
(* for retry also when it is completed or has no open item.                 *)
Decide(h, kind) ==
    LET seen == OrchestratorFold(log)
        open == {i \in Items : seen.items[i] \notin {"absent", "completed"}}
    IN
    /\ ctl[h].pc = "idle"
    /\ controls < MaxControls /\ controls + rebuilds < MaxRequests
    /\ controls' = controls + 1
    /\ log # <<>>
    /\ IF \/ seen.status = Target[kind]
          \/ kind = "retry" /\ (seen.status = "completed" \/ open = {})
         THEN UNCHANGED ctl
         ELSE SetCtl(h, [IdleControl EXCEPT !.pc = "revision", !.kind = kind,
                            !.reassign = IF kind = "retry" THEN open ELSE {}])
    /\ UNCHANGED <<log, inflight, clock, runRow, itemRow, creation, wrk, rebuild, rebuilds, faults>>

(* next_revision is a load of its own; the events are stamped after it.     *)
NextRevision(h) ==
    LET c == ctl[h] IN
    /\ c.pc = "revision"
    /\ SetCtl(h, [c EXCEPT !.pc = "append", !.base = Len(log),
                    !.events = <<StatusChanged(Target[c.kind], "api", clock)>>
                               \o AssignAll(c.reassign, "api", clock + 1)])
    /\ clock' = clock + 1 + Cardinality(c.reassign)
    /\ UNCHANGED <<log, inflight, runRow, itemRow, creation, wrk, rebuild, controls, rebuilds, faults>>

(* append refuses the batch when the log grew since next_revision; when the *)
(* answer is lost the handler gives up and the batch is in flight.          *)
AppendControl(h) ==
    LET c == ctl[h] IN
    /\ c.pc = "append"
    /\ LockFree
    /\ \/ /\ ~ Fits(c.base, c.events)
          /\ SetCtl(h, IdleControl)
          /\ UNCHANGED <<log, inflight, faults>>
       \/ /\ Fits(c.base, c.events)
          /\ log' = log \o c.events
          /\ SetCtl(h, [c EXCEPT !.pc = "sync", !.events = <<>>, !.base = 0])
          /\ UNCHANGED <<inflight, faults>>
       \/ /\ Fits(c.base, c.events)
          /\ inflight' = c.events
          /\ SetCtl(h, IdleControl)
          /\ Fault
          /\ UNCHANGED log
    /\ UNCHANGED <<clock, runRow, itemRow, creation, wrk, rebuild, controls, rebuilds>>

(* sync_projection_status: an UPDATE, which finds no row for a run that is  *)
(* not projected and answers 404; retry knows the workspace and inserts.    *)
SyncStatus(h) ==
    LET c == ctl[h] IN
    /\ c.pc = "sync"
    /\ runRow' = IF runRow.status = "absent" /\ c.kind # "retry"
                   THEN runRow
                   ELSE [runRow EXCEPT !.status = Target[c.kind]]
    /\ SetCtl(h, IdleControl)
    /\ UNCHANGED <<log, inflight, clock, itemRow, creation, wrk, rebuild, controls, rebuilds, faults>>

(* The API stops, or a call of the database fails.                          *)
ControlFails(h) ==
    /\ ctl[h].pc # "idle"
    /\ Fault
    /\ SetCtl(h, IdleControl)
    /\ UNCHANGED <<log, inflight, clock, runRow, itemRow, creation, wrk, rebuild, controls, rebuilds>>

-----------------------------------------------------------------------------
(* The worker's loop.                                                       *)
SetWrk(w, r) == wrk' = [wrk EXCEPT ![w] = r]

Assigned(w) == {i \in Items : wrk[w].items[i] = "assigned"}

(* Mutant of Drained: the inner loop ends only when it has done its number. *)
DrainedByCount(w) == wrk[w].count = ItemsPerLoop

Drained(w) == wrk[w].count = ItemsPerLoop \/ Assigned(w) = {}

(* load_all and run_states_from_events, once each; runs that are not        *)
(* running, or have no item yet, are skipped.                               *)
LoadRun(w) ==
    /\ wrk[w].pc = "idle"
    /\ \E events \in {ByTime} : \E seen \in {WorkerFold(events)} :
        /\ seen.known /\ seen.status = "running" /\ seen.items # NoItems
        /\ SetWrk(w, [IdleWorker EXCEPT !.pc = "work", !.status = seen.status,
                        !.items = seen.items, !.effort = seen.effort])
    /\ UNCHANGED <<log, inflight, clock, runRow, itemRow, creation, ctl, rebuild,
                   controls, rebuilds, faults>>

(* events_for_execution, stamped when the executor has answered; an         *)
(* executor error gives a failed event without a started one.               *)
Chunk == IF Effort \div 2 > 1 THEN Effort \div 2 ELSE 1
ExecutionEvents(w, i, outcome) ==
    CASE outcome = "success" ->
            <<ItemEvent("WorkItemStarted", i, w, clock),
              EffortEvent("WorkItemCompleted", i, Effort, w, clock + 1),
              EffortEvent("ProgressChunkEmitted", i, Chunk, w, clock + 2)>>
      [] outcome = "failure" ->
            <<ItemEvent("WorkItemStarted", i, w, clock),
              ItemEvent("WorkItemFailed", i, w, clock + 1)>>
      [] outcome = "error" ->
            <<ItemEvent("WorkItemFailed", i, w, clock)>>

(* Mutants of ExecuteItem: the item is not marked in the worker's memory;   *)
(* any item is picked, whatever its status; the effort is not added.        *)
ExecuteItemUnmarked(w, i, outcome) ==
    LET v == wrk[w]
        events == ExecutionEvents(w, i, outcome) IN
    /\ v.pc = "work"
    /\ v.count < ItemsPerLoop
    /\ v.items[i] = "assigned"
    /\ SetWrk(w, [v EXCEPT !.count = @ + 1, !.events = @ \o events])
    /\ clock' = clock + Len(events)
    /\ UNCHANGED <<log, inflight, runRow, itemRow, creation, ctl, rebuild,
                   controls, rebuilds, faults>>
ExecuteAnyItem(w, i, outcome) ==
    LET v == wrk[w]
        events == ExecutionEvents(w, i, outcome) IN
    /\ v.pc = "work"
    /\ v.count < ItemsPerLoop
    /\ SetWrk(w, [v EXCEPT !.count = @ + 1, !.events = @ \o events, !.items[i] = "completed"])
    /\ clock' = clock + Len(events)
    /\ UNCHANGED <<log, inflight, runRow, itemRow, creation, ctl, rebuild,
                   controls, rebuilds, faults>>

ExecuteItemUnpaid(w, i, outcome) ==
    LET v == wrk[w]
        events == ExecutionEvents(w, i, outcome) IN
    /\ v.pc = "work"
    /\ v.count < ItemsPerLoop
    /\ v.items[i] = "assigned"
    /\ SetWrk(w, [v EXCEPT !.count = @ + 1, !.events = @ \o events, !.items[i] = "completed"])
    /\ clock' = clock + Len(events)
    /\ UNCHANGED <<log, inflight, runRow, itemRow, creation, ctl, rebuild,
                   controls, rebuilds, faults>>

(* One turn of the inner loop: any assigned item, in the order of a hash    *)
(* map.  Only the effort of the completion is added to the worker's total.  *)
ExecuteItem(w, i, outcome) ==
    LET v == wrk[w]
        events == ExecutionEvents(w, i, outcome) IN
    /\ v.pc = "work"
    /\ v.count < ItemsPerLoop
    /\ v.items[i] = "assigned"
    /\ SetWrk(w, [v EXCEPT
            !.count = @ + 1,
            !.events = @ \o events,
            !.items[i] = IF outcome = "success" THEN "completed" ELSE "failed",
            !.status = IF outcome = "success" THEN @ ELSE "blocked",
            !.effort = IF outcome = "success" THEN @ + Effort ELSE @])
    /\ clock' = clock + Len(events)
    /\ UNCHANGED <<log, inflight, runRow, itemRow, creation, ctl, rebuild,
                   controls, rebuilds, faults>>

(* Mutant of AllCompleted: no item is open, instead of every item completed.*)
NoneOpen(items) ==
    /\ \E i \in Items : items[i] # "absent"
    /\ \A i \in Items : items[i] \in {"absent", "completed", "failed"}

AllCompleted(items) ==
    /\ \E i \in Items : items[i] # "absent"
    /\ \A i \in Items : items[i] \in {"absent", "completed"}

(* Mutant of Completes: only a turn that executed something ends the run.   *)
CompletesAfterWork(w) ==
    /\ AllCompleted(wrk[w].items) /\ wrk[w].status # "completed"
    /\ wrk[w].events # <<>>

Completes(w) == AllCompleted(wrk[w].items) /\ wrk[w].status # "completed"

(* After the inner loop: the run is completed when every item is; a turn    *)
(* without events is over.                                                  *)
FinishTurn(w) ==
    LET v == wrk[w]
        events == IF Completes(w)
                    THEN Append(v.events, RunEvent("RunCompleted", w, clock))
                    ELSE v.events IN
    /\ v.pc = "work"
    /\ Drained(w)
    /\ clock' = IF Completes(w) THEN clock + 1 ELSE clock
    /\ IF events = <<>>
         THEN SetWrk(w, IdleWorker)
         ELSE SetWrk(w, [v EXCEPT !.pc = "load", !.events = events, !.count = 0,
                           !.status = IF Completes(w) THEN "completed" ELSE @])
    /\ UNCHANGED <<log, inflight, runRow, itemRow, creation, ctl, rebuild,
                   controls, rebuilds, faults>>

(* append_events_with_retry: read the latest revision and rebase on it.     *)
RebaseBatch(w) ==
    LET v == wrk[w] IN
    /\ v.pc = "load"
    /\ SetWrk(w, [v EXCEPT !.pc = "append", !.base = Len(log), !.attempt = @ + 1])
    /\ UNCHANGED <<log, inflight, clock, runRow, itemRow, creation, ctl, rebuild,
                   controls, rebuilds, faults>>

(* The item rows the batch touches, in the order of the events.             *)
ItemUpserts(events) ==
    Touching(DOMAIN ItemStatus, events)

(* Mutants of NextAttempt: one attempt too many; a worker that goes on to   *)
(* the projections when the events were dropped.                            *)
OneAttemptMore(w) ==
    SetWrk(w, IF wrk[w].attempt <= MaxAttempts
                THEN [wrk[w] EXCEPT !.pc = "load", !.base = 0]
                ELSE IdleWorker)
ErrorIgnored(w) ==
    SetWrk(w, IF wrk[w].attempt < MaxAttempts
                THEN [wrk[w] EXCEPT !.pc = "load", !.base = 0]
                ELSE [wrk[w] EXCEPT !.pc = "items", !.events = <<>>, !.base = 0,
                        !.attempt = 0, !.todo = ItemUpserts(wrk[w].events)])

(* The attempts that are left, or the events are dropped.                   *)
NextAttempt(w) ==
    SetWrk(w, IF wrk[w].attempt < MaxAttempts
                THEN [wrk[w] EXCEPT !.pc = "load", !.base = 0]
                ELSE IdleWorker)

AppendBatch(w) ==
    LET v == wrk[w] IN
    /\ v.pc = "append"
    /\ LockFree
    /\ \/ /\ ~ Fits(v.base, v.events)
          /\ NextAttempt(w)
          /\ UNCHANGED <<log, inflight, faults>>
       \/ /\ Fits(v.base, v.events)
          /\ log' = log \o v.events
          /\ SetWrk(w, [v EXCEPT !.pc = "items", !.events = <<>>, !.base = 0,
                           !.attempt = 0, !.todo = ItemUpserts(v.events)])
          /\ UNCHANGED <<inflight, faults>>
       \/ /\ Fits(v.base, v.events)
          /\ inflight' = v.events
          /\ NextAttempt(w)
          /\ Fault
          /\ UNCHANGED log
    /\ UNCHANGED <<clock, runRow, itemRow, creation, ctl, rebuild, controls, rebuilds>>

(* The load or the append fails and nothing is committed.                   *)
AppendFails(w) ==
    /\ wrk[w].pc = "append"
    /\ Fault
    /\ NextAttempt(w)
    /\ UNCHANGED <<log, inflight, clock, runRow, itemRow, creation, ctl, rebuild, controls, rebuilds>>

(* update_run_projections: the item rows one by one, then the run's row     *)
(* from the worker's own totals; it stops at the first error.               *)
UpsertItem(w) ==
    LET v == wrk[w]
        e == Head(v.todo) IN
    /\ v.pc = "items" /\ v.todo # <<>>
    /\ itemRow' = [itemRow EXCEPT ![e.item] = ItemStatus[e.type]]
    /\ SetWrk(w, [v EXCEPT !.todo = Tail(@)])
    /\ UNCHANGED <<log, inflight, clock, runRow, creation, ctl, rebuild,
                   controls, rebuilds, faults>>

UpsertRun(w) ==
    LET v == wrk[w] IN
    /\ v.pc = "items" /\ v.todo = <<>>
    /\ runRow' = [status |-> v.status, effort |-> v.effort]
    /\ SetWrk(w, IdleWorker)
    /\ UNCHANGED <<log, inflight, clock, itemRow, creation, ctl, rebuild,
                   controls, rebuilds, faults>>

(* The process dies, perhaps with its COMMIT in flight, and is started      *)
(* again, or update_run_projections fails: the next turn begins with a load.*)
WorkerDies(w) ==
    LET v == wrk[w] IN
    /\ v.pc # "idle"
    /\ Fault
    /\ SetWrk(w, IdleWorker)
    /\ \/ UNCHANGED inflight
       \/ /\ v.pc = "append" /\ LockFree /\ Fits(v.base, v.events)
          /\ inflight' = v.events
    /\ UNCHANGED <<log, clock, runRow, itemRow, creation, ctl, rebuild, controls, rebuilds>>

-----------------------------------------------------------------------------
(* rebuild_projections, called by the API or by the rebuild binary.         *)
SetRebuild(r) == rebuild' = r

RebuildLoad ==
    LET seen == RebuildFold(ByTime) IN
    /\ rebuild.pc = "idle"
    /\ rebuilds < MaxRebuilds /\ controls + rebuilds < MaxRequests
    /\ rebuilds' = rebuilds + 1
    /\ SetRebuild([pc |-> "clear_items", status |-> seen.status, items |-> seen.items,
                   effort |-> seen.effort,
                   todo |-> {i \in Items : seen.items[i] # "absent"}])
    /\ UNCHANGED <<log, inflight, clock, runRow, itemRow, creation, ctl, wrk, controls, faults>>

(* clear: two DELETEs, the items first.                                     *)
ClearItems ==
    /\ rebuild.pc = "clear_items"
    /\ itemRow' = NoItems
    /\ SetRebuild([rebuild EXCEPT !.pc = "clear_runs"])
    /\ UNCHANGED <<log, inflight, clock, runRow, creation, ctl, wrk, controls, rebuilds, faults>>

ClearRuns ==
    /\ rebuild.pc = "clear_runs"
    /\ runRow' = NoRunRow
    /\ SetRebuild([rebuild EXCEPT !.pc = "run"])
    /\ UNCHANGED <<log, inflight, clock, itemRow, creation, ctl, wrk, controls, rebuilds, faults>>

RebuildRun ==
    /\ rebuild.pc = "run"
    /\ runRow' = IF rebuild.status = "absent" THEN runRow
                 ELSE [status |-> rebuild.status, effort |-> rebuild.effort]
    /\ SetRebuild([rebuild EXCEPT !.pc = "items"])
    /\ UNCHANGED <<log, inflight, clock, itemRow, creation, ctl, wrk, controls, rebuilds, faults>>

RebuildItem(i) ==
    /\ rebuild.pc = "items" /\ i \in rebuild.todo
    /\ itemRow' = [itemRow EXCEPT ![i] = rebuild.items[i]]
    /\ SetRebuild([rebuild EXCEPT !.todo = @ \ {i}])
    /\ UNCHANGED <<log, inflight, clock, runRow, creation, ctl, wrk, controls, rebuilds, faults>>

RebuildEnds ==
    /\ rebuild.pc = "items" /\ rebuild.todo = {}
    /\ SetRebuild(IdleRebuild)
    /\ UNCHANGED <<log, inflight, clock, runRow, itemRow, creation, ctl, wrk,
                   controls, rebuilds, faults>>

(* A call fails in the middle: what was cleared stays cleared.              *)
RebuildFails ==
    /\ rebuild.pc # "idle"
    /\ Fault
    /\ SetRebuild(IdleRebuild)
    /\ UNCHANGED <<log, inflight, clock, runRow, itemRow, creation, ctl, wrk, controls, rebuilds>>

-----------------------------------------------------------------------------
ControlStep(h) == NextRevision(h) \/ AppendControl(h) \/ SyncStatus(h)

WorkerStep(w) ==
    \/ LoadRun(w)
    \/ \E i \in Items, o \in Outcomes : ExecuteItem(w, i, o)
    \/ FinishTurn(w)
    \/ RebaseBatch(w)
    \/ AppendBatch(w)
    \/ UpsertItem(w)
    \/ UpsertRun(w)

RebuildStep ==
    \/ ClearItems
    \/ ClearRuns
    \/ RebuildRun
    \/ \E i \in Items : RebuildItem(i)
    \/ RebuildEnds

Next ==
    \/ StartRun \/ UpsertCreated \/ CreateRunDies
    \/ EndInflight
    \/ \E h \in Handlers :
        \/ \E kind \in Requests : Decide(h, kind)
        \/ ControlStep(h)
        \/ ControlFails(h)
    \/ \E w \in Workers : WorkerStep(w) \/ AppendFails(w) \/ WorkerDies(w)
    \/ RebuildLoad \/ RebuildStep \/ RebuildFails

Spec == Init /\ [][Next]_vars

(* A process that runs goes on: the worker polls for ever, a handler and a  *)
(* rebuild that began take their next step, and Postgres ends what a dead   *)
(* client left.  A run need not be started, and requests, rebuilds and      *)
(* faults need not happen.                                                  *)
FairSpec ==
    /\ Spec
    /\ WF_vars(UpsertCreated)
    /\ WF_vars(EndInflight)
    /\ WF_vars(RebuildStep)
    /\ \A h \in Handlers : WF_vars(ControlStep(h))
    /\ \A w \in Workers : WF_vars(WorkerStep(w))

-----------------------------------------------------------------------------
ItemStatuses == {"absent", "assigned", "running", "completed", "failed"}
RunStatuses  == {"absent", "running", "paused", "cancelled", "blocked", "completed"}
EventTypes   == {"RunStarted", "RunStatusChanged", "WorkItemAssigned", "WorkItemStarted",
                 "WorkItemCompleted", "WorkItemFailed", "ProgressChunkEmitted",
                 "RunCompleted"}
Events ==
    {e \in [type : EventTypes, item : Items \cup {NoItem},
            status : {"", "running", "paused", "cancelled"}, effort : Nat,
            by : Workers \cup {"api"}, at : Nat] :
        /\ e.status # ""     <=> e.type = "RunStatusChanged"
        /\ e.item # NoItem   <=> e.type \in DOMAIN ItemStatus \cup EffortTypes
        /\ e.effort # 0      <=> e.type \in EffortTypes}

ControlStates ==
    [pc : {"idle", "revision", "append", "sync"}, kind : Requests \cup {""},
     reassign : SUBSET Items, base : Nat, events : Seq(Events)]
WorkerStates ==
    [pc : {"idle", "work", "load", "append", "items"},
     status : RunStatuses \cup {""}, items : [Items -> ItemStatuses],
     effort : Nat, count : 0..ItemsPerLoop, events : Seq(Events),
     attempt : 0..MaxAttempts, base : Nat, todo : Seq(Events)]
RebuildStates ==
    [pc : {"idle", "clear_items", "clear_runs", "run", "items"},
     status : RunStatuses \cup {""}, items : [Items -> ItemStatuses],
     effort : Nat, todo : SUBSET Items]

(* The variables have their types.                                          *)
TypeOK ==
    /\ log \in Seq(Events) /\ inflight \in Seq(Events) /\ clock \in Nat
    /\ runRow \in [status : RunStatuses, effort : Nat]
    /\ itemRow \in [Items -> ItemStatuses]
    /\ creation \in {"new", "appended", "done"}
    /\ ctl \in [Handlers -> ControlStates]
    /\ wrk \in [Workers -> WorkerStates]
    /\ rebuild \in RebuildStates
    /\ controls \in 0..MaxControls /\ rebuilds \in 0..MaxRebuilds /\ faults \in 0..MaxFaults

-----------------------------------------------------------------------------
(* Properties.                                                              *)
Positions(type)  == {p \in DOMAIN log : log[p].type = type}
Logged(types, i) == \E p \in DOMAIN log : log[p].type \in types /\ log[p].item = i
StatusSet(statuses) ==
    {p \in Positions("RunStatusChanged") : log[p].status \in statuses}

(* A run is completed only when it has been earned (worker.rs, the test of  *)
(* all_items_completed before complete_event): before a RunCompleted there  *)
(* is a completion of every item, whoever wrote them.  run_control checks   *)
(* it against control requests; that it survives the batches of several     *)
(* workers, retries and crashes is the theorem CompletionIsEarned.          *)
CompletedIsEarned ==
    \A p \in Positions("RunCompleted") : \A i \in Items :
        \E q \in 1..(p - 1) : log[q].type = "WorkItemCompleted" /\ log[q].item = i

(* No claim is written before an item is executed (worker.rs, the inner     *)
(* loop), so two workers may do the same item; but one worker completes an  *)
(* item again only because it was assigned again, or because a fault hid    *)
(* what it had stored: a COMMIT whose answer was lost.  The count is one    *)
(* worker's: how often a pool executes an item is not bounded.              *)
ExecutionsPaid ==
    \A w \in Workers, i \in Items :
        Cardinality({p \in Positions("WorkItemCompleted") :
                        log[p].item = i /\ log[p].by = w})
          <= Cardinality({p \in Positions("WorkItemAssigned") : log[p].item = i}) + faults

(* No event is in the log twice: append_events_with_retry sends the same    *)
(* ids again, and what an earlier attempt stored is refused.                *)
EventsOnce == \A p, q \in DOMAIN log : log[p].at = log[q].at => p = q

(* A pause or a cancel is heeded (worker.rs skips a run that is not         *)
(* running): as long as nobody sets the run running again, each worker adds *)
(* after it no more than the turn it was in, which may complete the run.    *)
Executions(w, from) ==
    Cardinality({p \in from..Len(log) :
        log[p].by = w /\ log[p].type \in {"WorkItemCompleted", "WorkItemFailed"}})
StopIsHeeded ==
    \A p \in StatusSet({"paused", "cancelled"}) :
        (\A q \in StatusSet({"running"}) : q < p)
            => \A w \in Workers : Executions(w, p) <= ItemsPerLoop

(* What the API writes is later than all that stands before it, by revision *)
(* and by occurred_at alike: it stamps after it read the revision and is    *)
(* refused when anything came in between.  The folds read the log in two    *)
(* orders (load and load_all) and meet two control events in the same one   *)
(* because of this; a worker's batch may still stand on either side.        *)
ControlIsLatest ==
    \A p, q \in DOMAIN log : q < p /\ log[p].by = "api" => log[q].at < log[p].at

(* The tables never run ahead of the log: every status and every effort     *)
(* shown is that of events that are stored, also when appends fail, are     *)
(* dropped or are answered late (worker.rs: projections after the append).  *)
ProjectionBehindLog ==
    /\ runRow.status = "completed" => Positions("RunCompleted") # {}
    /\ runRow.status = "blocked"   => Positions("WorkItemFailed") # {}
    /\ runRow.status \in {"paused", "cancelled"} => StatusSet({runRow.status}) # {}
    /\ runRow.effort <= HistoryEffort(log)
    /\ \A i \in Items :
         /\ itemRow[i] = "completed" => Logged({"WorkItemCompleted"}, i)
         /\ itemRow[i] = "failed"    => Logged({"WorkItemFailed"}, i)

(* A run that is shown as completed is shown with the effort of all its     *)
(* items at least (work/smoke-test.sh fails a run that is not): the worker  *)
(* adds what it executed to what it folded, and every other worker, a       *)
(* rebuild or a control request may have written the row in between.        *)
CompletedShowsEffort ==
    runRow.status = "completed" => runRow.effort >= Effort * Cardinality(Items)

(* A run that is running comes to an end when every execution succeeds: it  *)
(* completes, or is stopped, however the workers conflict and rebase on     *)
(* each other; the one that sees the last item completed may be another     *)
(* than the one that completed it (worker.rs polls).  The run has conflicts *)
(* and no faults: for those see AssignedIsPickedUp.                         *)
Unfinished ==
    Positions("WorkItemFailed") = {} /\ WorkerFold(ByTime).status = "running"
RunCompletes == Unfinished ~> ~ Unfinished

(* An item that is assigned in a running run does not wait for ever: it is  *)
(* executed and its result stored, or the run stops; after a crash, a       *)
(* batch that was dropped or a retry too (worker.rs polls load_all).        *)
Waiting(i) ==
    LET seen == WorkerFold(ByTime)
    IN  seen.status = "running" /\ seen.items[i] = "assigned"
AssignedIsPickedUp == \A i \in Items : Waiting(i) ~> ~ Waiting(i)

-----------------------------------------------------------------------------
(* What the documentation says and the code does not do.                    *)

(* PLAN.md wants run_states_from_events and rebuild_projections to agree on *)
(* the core fields; a cancelled run whose last item completes is cancelled  *)
(* for one and running for the other.                                       *)
FoldsAgreeOnStatus ==
    log # <<>> => WorkerFold(ByTime).status = RebuildFold(ByTime).status

(* README.md: the rebuild replays all events.  After one that loaded a run  *)
(* that was running, whose creation is long over, the row should come to    *)
(* show the log again.  A run that completes between the load and the       *)
(* upserts is written over with what was loaded, and nobody corrects it.    *)
LoadedRunning ==
    creation = "done" /\ rebuild.pc = "clear_items" /\ rebuild.status = "running"
RowIsCurrent == runRow.status = "completed" \/ Positions("RunCompleted") = {}
RebuildReplaysAll == LoadedRunning ~> rebuild.pc = "idle" /\ RowIsCurrent

(* README.md launches pools of workers that share the event store, and      *)
(* work/smoke-test.sh takes completed for the end of a run.  A worker of    *)
(* the pool that still executes an item when another completes the run      *)
(* writes its own, older status over it, and nobody corrects the row.       *)
ShownCompletedStays ==
    [][creation = "done" /\ runRow.status = "completed" => runRow'.status = "completed"]_vars

=============================================================================
