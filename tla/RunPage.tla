------------------------------- MODULE RunPage -------------------------------
(***************************************************************************)
(* GET /api/runs/{id} (run_status in api/src/routes.rs) beside the running *)
(* system: five queries outside of any transaction - the row of the run,   *)
(* the number of its events, the latest of them, the rows of its items,    *)
(* the timeline - while workers, handlers and a rebuild write in between.  *)
(***************************************************************************)
EXTENDS RunSystem

VARIABLE page   \* the locals of run_status

pvars == <<vars, page>>

IdlePage == [pc |-> "idle", row |-> NoRunRow, count |-> 0, revision |-> 0,
             latest |-> "", items |-> NoItems]

PageInit == Init /\ page = IdlePage

(* A new request; 404 when the run has no row.                              *)
PageRow ==
    /\ page.pc = "idle"
    /\ page' = IF runRow.status = "absent" THEN IdlePage
               ELSE [IdlePage EXCEPT !.pc = "count", !.row = runRow]
    /\ UNCHANGED vars

PageCount ==
    /\ page.pc = "count"
    /\ page' = [page EXCEPT !.pc = "latest", !.count = Len(log)]
    /\ UNCHANGED vars

(* Mutant of PageLatest: ORDER BY occurred_at.                              *)
PageLatestByTime ==
    LET p == CHOOSE p \in DOMAIN log : \A q \in DOMAIN log : log[q].at <= log[p].at IN
    /\ page.pc = "latest"
    /\ page' = [page EXCEPT !.pc = "items", !.revision = p, !.latest = log[p].type]
    /\ UNCHANGED vars

(* ORDER BY revision DESC LIMIT 1                                           *)
PageLatest ==
    /\ page.pc = "latest"
    /\ page' = [page EXCEPT !.pc = "items", !.revision = Len(log), !.latest = Last(log).type]
    /\ UNCHANGED vars

PageItems ==
    /\ page.pc = "items"
    /\ page' = [page EXCEPT !.pc = "timeline", !.items = itemRow]
    /\ UNCHANGED vars

(* Mutant of Timeline: cut at the revision shown.                           *)
TimelineCut == SubSeq(log, 1, page.revision)

(* The last query: ORDER BY revision, whenever it comes.                    *)
Timeline == log

(* build_cost_effort_history: the total after each event that has an effort.*)
History ==
    LET paid == {p \in DOMAIN Timeline : Timeline[p].effort > 0}
    IN  [p \in paid |-> HistoryEffort(SubSeq(Timeline, 1, p))]

(* The answer: what page holds, with the timeline and its history.          *)
PageAnswer ==
    /\ page.pc = "timeline"
    /\ page' = IdlePage
    /\ UNCHANGED vars

(* A query fails, or the client is gone.                                    *)
PageFails ==
    /\ page.pc \in {"count", "latest", "items", "timeline"}
    /\ page' = IdlePage
    /\ UNCHANGED vars

PageNext ==
    \/ Next /\ UNCHANGED page
    \/ PageRow \/ PageCount \/ PageLatest \/ PageItems \/ PageAnswer \/ PageFails

PageSpec == PageInit /\ [][PageNext]_pvars

-----------------------------------------------------------------------------
Answers == page.pc = "timeline"
Told(types) == \E p \in DOMAIN Timeline : Timeline[p].type \in types
ToldOf(type, i) ==
    \E p \in DOMAIN Timeline : Timeline[p].type = type /\ Timeline[p].item = i

(* Whatever was written between the five queries, the page explains itself  *)
(* when it is answered: the status, the effort and the items it shows are   *)
(* those of events in its timeline, because the rows are behind the log and *)
(* the timeline is read last.                                               *)
PageExplained ==
    Answers =>
        /\ page.row.status = "completed" => Told({"RunCompleted"})
        /\ page.row.status = "blocked"   => Told({"WorkItemFailed"})
        /\ page.row.status \in {"paused", "cancelled"} =>
             \E p \in DOMAIN Timeline : Timeline[p].status = page.row.status
        /\ page.row.effort > 0 => \E p \in DOMAIN History : page.row.effort <= History[p]
        /\ \A i \in Items :
             /\ page.items[i] = "completed" => ToldOf("WorkItemCompleted", i)
             /\ page.items[i] = "failed"    => ToldOf("WorkItemFailed", i)

(* stream_event_count, stream_revision, latest_event_type and the timeline  *)
(* are of one log: each is as new as the one before, and the latest event   *)
(* is where the timeline has it.                                            *)
PageCountsAgree ==
    Answers =>
        /\ page.count <= page.revision /\ page.revision <= Len(Timeline)
        /\ page.latest = Timeline[page.revision].type

=============================================================================
