------------------------------- MODULE Intake -------------------------------
(***************************************************************************)
(* From a request to the events of a run, the part of it that is pure      *)
(* computation: start_run plans and dispatches the objective, workers      *)
(* execute items with whatever executor each of them is configured for.    *)
(* RunSystem takes the items, the outcomes and the efforts of all this as  *)
(* constants; what it assumes of them is shown here.                       *)
(***************************************************************************)
EXTENDS Harness, FiniteSets, SequencesExt

CONSTANTS
    Words,          \* lengths of an objective
    Counts,         \* what a request may ask for, u16
    Settings,       \* WORKER_EFFORT_PER_ITEM
    Numbers,        \* integers an endpoint may answer with, i64
    MaxExecutions   \* bound: executions in a behaviour

ASSUME InputsAssumption ==
    /\ Words \subseteq Nat /\ Counts \subseteq Nat /\ Numbers \subseteq Int
    /\ Settings \subseteq Ints /\ MaxAgents \in Ints
    /\ MaxExecutions \in Nat

VARIABLES
    request,    \* the objective and the counts asked for
    items,      \* the plan, after assign_items
    events      \* the events of the run, <<type, number>>, and the item executed

vars == <<request, items, events>>

-----------------------------------------------------------------------------
Fields(S) == S \cup {NotGiven}

(* A text gives its effort as digits, which have to be an i32.              *)
Answers ==
    [kind : {"unreachable", "refused", "garbled"}]
    \cup [kind : {"json"}, success : Fields(BOOLEAN), effort : Fields(Numbers),
          tokens : Fields(Numbers)]
    \cup [kind : {"text"}, effort : Fields(Numbers \cap 0..IntMax), tokens : Fields(Numbers)]

Init ==
    /\ request \in [words : Words, items : Fields(Counts), agents : Fields(Counts)]
    /\ items = <<>>
    /\ events = <<>>

(* create_run and start_run.                                                *)
TargetItems == ResolveItemCount(Count(request.items))
AgentCount  == ResolveAgentCount(Count(request.agents))

StartRun ==
    /\ events = <<>>
    /\ items' = AssignItems(Decompose(request.words, TargetItems), AgentCount)
    /\ events' = << <<"RunStarted", 0>> >>
                 \o [k \in DOMAIN items' |-> <<"WorkItemAssigned", items'[k].agent>>]
    /\ UNCHANGED request

(* A worker executes an item; the loop around it is in RunSystem.           *)
Executed == Cardinality({k \in DOMAIN events : events[k][1] \in {"WorkItemCompleted", "WorkItemFailed"}})

ExecuteItem(result) ==
    /\ items # <<>>
    /\ Executed < Least(MaxExecutions, Len(items))
    /\ events' = events \o EventsForExecution(result)
    /\ UNCHANGED <<request, items>>

(* Every result an executor can come to.                                    *)
Results ==
    {Simulated(setting) : setting \in Fields(Settings)}
    \cup {OpenRouter(hasKey, a) : hasKey \in BOOLEAN, a \in Answers}
    \cup {LocalLlm(a) : a \in Answers}

Next == StartRun \/ \E result \in Results : ExecuteItem(result)

Spec == Init /\ [][Next]_vars

-----------------------------------------------------------------------------
EventNames == {"RunStarted", "WorkItemAssigned", "WorkItemStarted", "WorkItemCompleted",
               "WorkItemFailed", "ProgressChunkEmitted"}

(* The variables have their types, and every number an event carries is an  *)
(* i32.                                                                     *)
TypeOK ==
    /\ request \in [words : Words, items : Fields(Counts), agents : Fields(Counts)]
    /\ items \in Seq([first : Nat, last : Nat, agent : Nat])
    /\ events \in Seq(EventNames \X Ints)

(* decompose_objective_with_target loses no word of the objective, repeats  *)
(* none and keeps their order, although it takes no more than so many       *)
(* chunks; and no item is empty.                                            *)
Text(k) == [i \in 1..(items[k].last - items[k].first + 1) |-> items[k].first + i - 1]
EveryWordOnce ==
    items # <<>> /\ request.words > 0 =>
        /\ FlattenSeq([k \in DOMAIN items |-> Text(k)]) = [i \in 1..request.words |-> i]
        /\ \A k \in DOMAIN items : Text(k) # <<>>

(* A run has an item at least (a run without one never completes), at most  *)
(* as many as were asked for and the planner allows, and no item is longer  *)
(* than the number of items makes necessary.                                *)
PlanFits ==
    items # <<>> \/ events # <<>> =>
        /\ Len(items) \in 1..Least(TargetItems, MaxItems)
        /\ request.items \in 1..MaxItems => Len(items) <= request.items
        /\ \A k \in DOMAIN items : (Len(Text(k)) - 1) * TargetItems < request.words

(* assign_items gives every agent of the run its share: the loads differ by *)
(* one at most, and no agent idles while another has two items.             *)
Load(agent) == Cardinality({k \in DOMAIN items : items[k].agent = agent})
LoadsBalanced ==
    /\ \A k \in DOMAIN items : items[k].agent \in 1..AgentCount
    /\ \A a, b \in 1..AgentCount : Load(a) - Load(b) <= 1

(* Whatever an endpoint answers, an execution leaves one of three lists of  *)
(* events - started, completed and a chunk; started and failed; failed -    *)
(* its effort is positive, and the chunk is positive and no more than the   *)
(* effort: what RunSystem assumes of Outcomes, Effort and Chunk.            *)
ExecutionsAccounted ==
    \A k \in DOMAIN events :
        /\ events[k][1] = "WorkItemStarted" =>
             /\ k < Len(events)
             /\ events[k + 1][1] \in {"WorkItemCompleted", "WorkItemFailed"}
        /\ events[k][1] = "WorkItemCompleted" =>
             /\ events[k][2] \in 1..IntMax
             /\ events[k - 1][1] = "WorkItemStarted"
             /\ k < Len(events) /\ events[k + 1][1] = "ProgressChunkEmitted"
             /\ events[k + 1][2] \in 1..events[k][2]
        /\ events[k][1] = "ProgressChunkEmitted" => events[k - 1][1] = "WorkItemCompleted"

=============================================================================
