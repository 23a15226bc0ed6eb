------------------------------- MODULE Planner -------------------------------
(***************************************************************************)
(* The planner and the dispatcher (application/src/planner.rs,             *)
(* dispatcher.rs): how many items and agents a request gets, how an        *)
(* objective is cut into items and who they are assigned to.               *)
(*                                                                         *)
(* An objective is its number of words; an item has the words from first   *)
(* to last, none when it is one of the canned steps of an empty objective. *)
(* Agents are numbered in the order of default_agents.                     *)
(***************************************************************************)
EXTENDS Integers, Sequences

CONSTANTS
    DefaultItems,   \* default_target_item_count
    MaxItems,       \* max_target_items
    MaxAgents,      \* max_agents
    CannedSteps,    \* length of the fallback list
    NotGiven        \* None: the request leaves the field out

ASSUME PlannerAssumption ==
    /\ DefaultItems \in Nat \ {0} /\ MaxItems \in Nat \ {0} /\ MaxAgents \in Nat \ {0}
    /\ CannedSteps \in Nat /\ CannedSteps >= DefaultItems
    /\ NotGiven \notin Int

Least(m, n)    == IF m <= n THEN m ELSE n
Greatest(m, n) == IF m >= n THEN m ELSE n

(* create_run: a count of zero is as good as none.                          *)
Count(field) == IF field = 0 THEN NotGiven ELSE field

ResolveItemCount(requested) ==
    Least(Greatest(IF requested = NotGiven THEN DefaultItems ELSE requested, 1), MaxItems)

ResolveAgentCount(requested) ==
    Least(Greatest(IF requested = NotGiven THEN 1 ELSE requested, 1), MaxAgents)

-----------------------------------------------------------------------------
(* Mutants of ChunkWidth: rounded down; and of one item more than needed.   *)
WidthRoundedDown(n, target) == Greatest(n \div target, 1)
WidthOneMore(n, target)     == Greatest(n \div target + 1, 1)

(* Words per item, rounded up.                                              *)
ChunkWidth(n, target) == Greatest((n + target - 1) \div target, 1)

(* slice::chunks(width): all of that width but the last.                    *)
ChunkCount(n, width) == (n + width - 1) \div width
Chunk(n, width, k)   == [first |-> (k - 1) * width + 1, last |-> Least(k * width, n)]

Chunks(n, target) ==
    LET width == ChunkWidth(n, target)
    IN  [k \in 1..Least(ChunkCount(n, width), target) |-> Chunk(n, width, k)]

CannedPlan(target) ==
    [k \in 1..Least(Least(DefaultItems, target), CannedSteps) |-> [first |-> 1, last |-> 0]]

(* decompose_objective_with_target                                          *)
Decompose(n, requested) ==
    LET target == Least(Greatest(requested, 1), MaxItems)
    IN  IF n > 0 THEN Chunks(n, target) ELSE CannedPlan(target)

(* Mutant of AgentOf: blocks of items instead of one by one.                *)
AgentByBlock(k, agents) == Least(((k - 1) \div agents) + 1, agents)

(* assign_items: round robin.                                               *)
AgentOf(k, agents) == ((k - 1) % agents) + 1

AssignItems(items, agents) ==
    [k \in DOMAIN items |->
        [first |-> items[k].first, last |-> items[k].last, agent |-> AgentOf(k, agents)]]

=============================================================================
