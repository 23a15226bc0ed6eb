--------------------------- MODULE AppendOnlyLog ---------------------------
(***************************************************************************)
(* What the event store promises to the orchestrator and to the workers:   *)
(* one journal per aggregate, and a batch of events that is either absent  *)
(* or appended once, whole and in order, at the end of that journal.       *)
(* It knows no transaction, lock, revision, attempt or lost connection:    *)
(* EventStore has those, and implements this.                              *)
(***************************************************************************)
EXTENDS Integers, Sequences

CONSTANTS
    Aggregates,     \* the runs: one journal each
    MaxCalls,       \* bound on the number of append calls
    MaxBatch        \* bound on the number of events of a call

VARIABLES
    requests,       \* requests[b]: the aggregate and the size of the b-th call
    journal,        \* journal[a]: the events of a, oldest first
    confirmed       \* the calls that were told their events are stored

vars == <<requests, journal, confirmed>>

-----------------------------------------------------------------------------
(* The events of the b-th call, in the order the caller gave them.          *)
Batch(b) == [i \in 1..requests[b].size |-> <<b, i>>]

(* Event e is in the journal of a.                                          *)
StoredIn(a, e) == \E p \in 1..Len(journal[a]) : journal[a][p] = e

Init ==
    /\ requests = <<>>
    /\ journal = [a \in Aggregates |-> <<>>]
    /\ confirmed = {}

(* A caller hands over a batch.                                             *)
Submit(a, n) ==
    /\ Len(requests) < MaxCalls
    /\ requests' = Append(requests, [agg |-> a, size |-> n])
    /\ UNCHANGED <<journal, confirmed>>

(* The whole batch goes to the end of the journal, if none of it is stored. *)
AppendBatch(b) ==
    LET a == requests[b].agg IN
    /\ \A i \in 1..requests[b].size : ~ StoredIn(a, <<b, i>>)
    /\ journal' = [journal EXCEPT ![a] = @ \o Batch(b)]
    /\ UNCHANGED <<requests, confirmed>>

(* The caller is told that its events are stored: only when all of them are. *)
Confirm(b) ==
    /\ \A i \in 1..requests[b].size : StoredIn(requests[b].agg, <<b, i>>)
    /\ confirmed' = confirmed \cup {b}
    /\ UNCHANGED <<requests, journal>>

Next ==
    \/ \E a \in Aggregates, n \in 0..MaxBatch : Submit(a, n)
    \/ \E b \in 1..Len(requests) : AppendBatch(b) \/ Confirm(b)

Spec == Init /\ [][Next]_vars

=============================================================================
