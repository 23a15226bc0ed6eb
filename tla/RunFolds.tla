------------------------------ MODULE RunFolds ------------------------------
(***************************************************************************)
(* The events of a run and the four places that fold them into a state:    *)
(* the orchestrator (RunReplayState::from_events), the worker              *)
(* (run_states_from_events), the projection rebuild (rebuild_projections)  *)
(* and the cost/effort history of the API.  Each fold is written           *)
(* separately in the code; here they differ only in the tables they look   *)
(* an event up in.                                                         *)
(*                                                                         *)
(* An event is [type, item, status, effort, by, at]: the payload variant,  *)
(* the fields of it that a fold reads, the process that made it and its    *)
(* occurred_at.  Costs follow the same additions as efforts and are left   *)
(* out; so are the agents of items.                                        *)
(***************************************************************************)
EXTENDS Integers, Sequences, FiniteSets

CONSTANTS
    Items,      \* the work items of the run
    NoItem      \* the item of an event that is about the run

ASSUME ItemsAssumption == IsFiniteSet(Items) /\ NoItem \notin Items

-----------------------------------------------------------------------------
(* Constructors of the payload variants.                                    *)
Event(type, item, status, effort, by, at) ==
    [type |-> type, item |-> item, status |-> status, effort |-> effort,
     by |-> by, at |-> at]

RunEvent(type, by, at)          == Event(type, NoItem, "", 0, by, at)
StatusChanged(status, by, at)   == Event("RunStatusChanged", NoItem, status, 0, by, at)
ItemEvent(type, item, by, at)   == Event(type, item, "", 0, by, at)
EffortEvent(type, item, n, by, at) == Event(type, item, "", n, by, at)

(* The status an event gives its item; blockers are known to every fold but *)
(* the worker's, and no code emits one.                                     *)
ItemStatus ==
    [WorkItemAssigned   |-> "assigned",
     WorkItemStarted    |-> "running",
     WorkItemCompleted  |-> "completed",
     WorkItemFailed     |-> "failed",
     BlockerEncountered |-> "blocked"]

(* Besides RunStatusChanged, what makes a fold change the status of the run.*)
OrchestratorStatus ==
    [RunStarted         |-> "running",
     BlockerEncountered |-> "blocked",
     RunCompleted       |-> "completed"]
(* Mutant of WorkerStatus: a completed item sets the run running again.     *)
WorkerStatusRevives ==
    [RunStarted         |-> "running",
     WorkItemCompleted  |-> "running",
     WorkItemFailed     |-> "blocked",
     BlockerEncountered |-> "blocked",
     RunCompleted       |-> "completed"]
WorkerStatus ==
    [RunStarted         |-> "running",
     WorkItemFailed     |-> "blocked",
     BlockerEncountered |-> "blocked",
     RunCompleted       |-> "completed"]
RebuildStatus ==
    [RunStarted           |-> "running",
     ProgressChunkEmitted |-> "running",
     WorkItemCompleted    |-> "running",
     WorkItemFailed       |-> "blocked",
     BlockerEncountered   |-> "blocked",
     RunCompleted         |-> "completed"]

NoItems == [i \in Items |-> "absent"]

(* The three things a fold keeps, after the first k events.                 *)
StatusOf(table, start, events) ==
    LET status[k \in 0..Len(events)] ==
          IF k = 0 THEN start
          ELSE IF events[k].type = "RunStatusChanged" THEN events[k].status
          ELSE IF events[k].type \in DOMAIN table THEN table[events[k].type]
          ELSE status[k - 1]
    IN  status[Len(events)]

ItemsOf(types, events) ==
    LET items[k \in 0..Len(events)] ==
          IF k = 0 THEN NoItems
          ELSE IF events[k].type \in types
                 THEN [items[k - 1] EXCEPT ![events[k].item] = ItemStatus[events[k].type]]
          ELSE items[k - 1]
    IN  items[Len(events)]

EffortTypes == {"WorkItemCompleted", "ProgressChunkEmitted"}
EffortOf(start, events) ==
    LET total[k \in 0..Len(events)] ==
          IF k = 0 THEN start
          ELSE IF events[k].type \in EffortTypes THEN total[k - 1] + events[k].effort
          ELSE total[k - 1]
    IN  total[Len(events)]

(* load_all: ORDER BY occurred_at, and no two events of a run have the same.*)
InTimeOrder(events) ==
    LET Place(p) == Cardinality({q \in DOMAIN events : events[q].at <= events[p].at})
    IN  [k \in DOMAIN events |-> events[CHOOSE p \in DOMAIN events : Place(p) = k]]

(* The events whose type is known to a projection of items, in their order. *)
Touching(types, events) ==
    LET kept[k \in 0..Len(events)] ==
          IF k = 0 THEN <<>>
          ELSE IF events[k].type \in types THEN Append(kept[k - 1], events[k])
          ELSE kept[k - 1]
    IN  kept[Len(events)]

-----------------------------------------------------------------------------
OrchestratorFold(events) ==
    [status |-> StatusOf(OrchestratorStatus, "pending", events),
     items  |-> ItemsOf(DOMAIN ItemStatus, events)]

(* known is ~ workspace_id.is_nil(): the fold has seen RunStarted.          *)
WorkerFold(events) ==
    [known  |-> \E k \in DOMAIN events : events[k].type = "RunStarted",
     status |-> StatusOf(WorkerStatus, "pending", events),
     items  |-> ItemsOf(DOMAIN ItemStatus \ {"BlockerEncountered"}, events),
     effort |-> EffortOf(0, events)]

(* A run without events has no row.  RunStarted is the first event of a run *)
(* in both orders, so the row it inserts overwrites nothing.                *)
RebuildFold(events) ==
    [status |-> StatusOf(RebuildStatus, "absent", events),
     items  |-> ItemsOf(DOMAIN ItemStatus, events),
     effort |-> EffortOf(0, events)]

(* total_effort of the last point of the history of a run.                  *)
HistoryEffort(events) == EffortOf(0, events)

=============================================================================
