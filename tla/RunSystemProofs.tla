-------------------------- MODULE RunSystemProofs ---------------------------
(***************************************************************************)
(* No step of RunSystem leaves the types, and no event is stored twice,    *)
(* for any items, workers, handlers, requests, outcomes and bounds.  Both  *)
(* rest on the stamps: an event that is made has an occurred_at that no    *)
(* event had before, so the log, the batch in flight and the batches that  *)
(* wait in the memory of a process are told apart by their stamps.         *)
(***************************************************************************)
EXTENDS RunSystem, FoldProofs, SequenceTheorems

-----------------------------------------------------------------------------
(* Each element of a finite set is in its sequence, once.                   *)
LEMMA SetToSeqIs ==
    ASSUME NEW S, IsFiniteSet(S)
    PROVE  /\ Cardinality(S) \in Nat
           /\ SetToSeq(S) \in Seq(S) /\ Len(SetToSeq(S)) = Cardinality(S)
           /\ \A x \in S : \E k \in 1..Len(SetToSeq(S)) : SetToSeq(S)[k] = x
<1> DEFINE n == Cardinality(S)
           s == SetToSeq(S)
<1>1. n \in Nat /\ ExistsBijection(1..n, S)
  BY FS_CardinalityType
<1>2. \E f \in [1..n -> S] : IsInjective(f)
  <2>1. PICK f : f \in Bijection(1..n, S)
    BY <1>1 DEF ExistsBijection
  <2>2. f \in [1..n -> S] /\ \A a, b \in 1..n : f[a] = f[b] => a = b
    BY <2>1 DEF Bijection, Injection, IsInjective
  <2> QED BY <2>2 DEF IsInjective
<1>3. s \in [1..n -> S] /\ IsInjective(s)
  BY <1>2 DEF SetToSeq
<1> HIDE DEF n, s
<1>4. s \in Seq(S) /\ Len(s) = n
  BY <1>1, <1>3
<1>5. s \in Surjection(1..n, S)
  <2>1. s \in Injection(1..n, S)
    BY <1>3 DEF Injection
  <2>2. IsFiniteSet(1..n) /\ Cardinality(1..n) = n
    BY <1>1, FS_Interval
  <2>3. Cardinality(1..n) = Cardinality(S)
    BY <2>2 DEF n
  <2> QED BY <2>1, <2>3, FS_Injection
<1> QED BY <1>1, <1>4, <1>5 DEF n, s, Surjection

(* What each type of event makes of its item.                               *)
LEMMA ItemStatusIs ==
    /\ DOMAIN ItemStatus = {"WorkItemAssigned", "WorkItemStarted", "WorkItemCompleted",
                            "WorkItemFailed", "BlockerEncountered"}
    /\ ItemStatus["WorkItemAssigned"] = "assigned"
    /\ ItemStatus["WorkItemStarted"] = "running"
    /\ ItemStatus["WorkItemCompleted"] = "completed"
    /\ ItemStatus["WorkItemFailed"] = "failed"
    /\ ItemStatus["BlockerEncountered"] = "blocked"
  BY DEF ItemStatus

(* What a request makes of the run.                                         *)
LEMMA TargetIs == \A kind \in Requests : Target[kind] \in {"paused", "running", "cancelled"}
<1>1. \A kind \in {"pause", "resume", "cancel", "retry"} :
        Target[kind] \in {"paused", "running", "cancelled"}
  BY DEF Target
<1> QED BY <1>1, RequestsAssumption

(* The events the code makes are events.                                    *)
LEMMA RunEventsMade ==
    ASSUME NEW by \in Workers \cup {"api"}, NEW t \in Nat
    PROVE  /\ \A type \in {"RunStarted", "RunCompleted"} : RunEvent(type, by, t) \in Events
           /\ \A status \in {"running", "paused", "cancelled"} :
                StatusChanged(status, by, t) \in Events
<1>1. ASSUME NEW type \in {"RunStarted", "RunCompleted"} PROVE RunEvent(type, by, t) \in Events
  BY <1>1, ItemStatusIs DEF RunEvent, Event, Events, EventTypes, EffortTypes
<1>2. ASSUME NEW status \in {"running", "paused", "cancelled"}
      PROVE  StatusChanged(status, by, t) \in Events
  BY <1>2, ItemStatusIs DEF StatusChanged, Event, Events, EventTypes, EffortTypes
<1> QED BY <1>1, <1>2

(* So do those about an item.                                              *)
LEMMA ItemEventsMade ==
    ASSUME NEW by \in Workers \cup {"api"}, NEW t \in Nat, NEW i \in Items
    PROVE  /\ \A type \in {"WorkItemAssigned", "WorkItemStarted", "WorkItemFailed"} :
                ItemEvent(type, i, by, t) \in Events
           /\ \A type \in EffortTypes, n \in Nat \ {0} :
                EffortEvent(type, i, n, by, t) \in Events
<1>1. i # NoItem
  BY ItemsAssumption
<1>2. ASSUME NEW type \in {"WorkItemAssigned", "WorkItemStarted", "WorkItemFailed"}
      PROVE  ItemEvent(type, i, by, t) \in Events
  BY <1>1, ItemStatusIs DEF ItemEvent, Event, Events, EventTypes, EffortTypes
<1>3. ASSUME NEW type \in EffortTypes, NEW n \in Nat \ {0}
      PROVE  EffortEvent(type, i, n, by, t) \in Events
  BY <1>1, ItemStatusIs DEF EffortEvent, Event, Events, EventTypes, EffortTypes
<1> QED BY <1>2, <1>3

(* The assignments of one batch: one for each item, stamped in a row.       *)
Assigns(a, items, by, t) ==
    /\ a \in Seq(Events) /\ Cardinality(items) \in Nat /\ Len(a) = Cardinality(items)
    /\ \A k \in 1..Len(a) :
         a[k].at = t + k - 1 /\ a[k].by = by /\ a[k].type = "WorkItemAssigned"
    /\ \A i \in items : \E k \in 1..Len(a) : a[k].item = i

(* AssignAll makes such a batch.                                           *)
LEMMA AssignAllIs ==
    ASSUME NEW items \in SUBSET Items, NEW by \in Workers \cup {"api"}, NEW t \in Nat
    PROVE  Assigns(AssignAll(items, by, t), items, by, t)
<1> DEFINE s == SetToSeq(items)
           a == AssignAll(items, by, t)
           n == Cardinality(items)
<1>1. IsFiniteSet(items)
  BY ItemsAssumption, FS_Subset
<1>2. /\ n \in Nat /\ s \in Seq(items) /\ Len(s) = n
      /\ \A i \in items : \E k \in 1..n : s[k] = i
  <2>1. Len(s) = n
    BY <1>1, SetToSeqIs
  <2> QED BY <1>1, <2>1, SetToSeqIs
<1>3. a = [k \in 1..n |-> ItemEvent("WorkItemAssigned", s[k], by, t + k - 1)]
  BY <1>2 DEF AssignAll
<1> HIDE DEF s, a, n
<1>4. ASSUME NEW k \in 1..n
      PROVE  /\ ItemEvent("WorkItemAssigned", s[k], by, t + k - 1) \in Events
             /\ a[k].at = t + k - 1 /\ a[k].by = by /\ a[k].type = "WorkItemAssigned"
             /\ a[k].item = s[k]
  <2>1. s[k] \in Items /\ t + k - 1 \in Nat
    BY <1>2
  <2>2. ItemEvent("WorkItemAssigned", s[k], by, t + k - 1) \in Events
    BY <2>1, ItemEventsMade
  <2> DEFINE e == ItemEvent("WorkItemAssigned", s[k], by, t + k - 1)
  <2>3. a[k] = e
    BY <1>3
  <2>4. e.at = t + k - 1 /\ e.by = by /\ e.type = "WorkItemAssigned" /\ e.item = s[k]
    BY DEF ItemEvent, Event
  <2> HIDE DEF e
  <2>5. /\ a[k].at = t + k - 1 /\ a[k].by = by /\ a[k].type = "WorkItemAssigned"
        /\ a[k].item = s[k]
    BY <2>3, <2>4
  <2> QED BY <2>2, <2>5
<1>5. a \in [1..n -> Events] /\ Len(a) = n
  <2> DEFINE made(k) == ItemEvent("WorkItemAssigned", s[k], by, t + k - 1)
  <2>1. a = [k \in 1..n |-> made(k)] /\ \A k \in 1..n : made(k) \in Events
    BY <1>3, <1>4
  <2> HIDE DEF made
  <2> QED BY <1>2, <2>1
<1>6. a \in Seq(Events)
  BY <1>2, <1>5
<1>7. ASSUME NEW i \in items PROVE \E k \in 1..n : a[k].item = i
  <2>1. PICK k \in 1..n : s[k] = i
    BY <1>2
  <2>2. a[k].item = s[k]
    BY <1>4
  <2> QED BY <2>1, <2>2
<1>8. Assigns(a, items, by, t)
  BY <1>2, <1>4, <1>5, <1>6, <1>7 DEF Assigns, n
<1> QED BY <1>8 DEF a

(* What the events b of one execution are: of its worker and item, stamped  *)
(* in a row; one completes or fails the item, and none of them ends the run. *)
Executed(b, w, i, outcome) ==
    /\ b \in Seq(Events) /\ Len(b) \in 1..3
    /\ \A k \in 1..Len(b) :
         /\ b[k].at = clock + k - 1 /\ b[k].by = w /\ b[k].item = i
         /\ b[k].type \in {"WorkItemStarted", "WorkItemCompleted",
                           "WorkItemFailed", "ProgressChunkEmitted"}
         /\ b[k].type = "WorkItemCompleted" => b[k].effort = Effort
    /\ outcome = "success" => \E k \in 1..Len(b) : b[k].type = "WorkItemCompleted"
    /\ outcome # "success" => \E k \in 1..Len(b) : b[k].type = "WorkItemFailed"

(* And the events ExecutionEvents makes are such.                           *)
LEMMA ExecutionEventsAre ==
    ASSUME NEW w \in Workers, NEW i \in Items, NEW outcome \in Outcomes, clock \in Nat
    PROVE  Executed(ExecutionEvents(w, i, outcome), w, i, outcome)
<1> DEFINE started   == ItemEvent("WorkItemStarted", i, w, clock)
           completed == EffortEvent("WorkItemCompleted", i, Effort, w, clock + 1)
           chunk     == EffortEvent("ProgressChunkEmitted", i, Chunk, w, clock + 2)
           failed(t) == ItemEvent("WorkItemFailed", i, w, t)
           events    == ExecutionEvents(w, i, outcome)
<1>1. Effort \in Nat \ {0} /\ Chunk \in Nat \ {0}
  BY NumbersAssumption DEF Chunk
<1>2. /\ started \in Events /\ completed \in Events /\ chunk \in Events
      /\ failed(clock) \in Events /\ failed(clock + 1) \in Events
  <2>1. {"WorkItemCompleted", "ProgressChunkEmitted"} = EffortTypes
    BY DEF EffortTypes
  <2>2. clock + 1 \in Nat /\ clock + 2 \in Nat
    OBVIOUS
  <2> QED BY <1>1, <2>1, <2>2, ItemEventsMade
<1>3. /\ started.at = clock /\ started.by = w /\ started.item = i
      /\ started.type = "WorkItemStarted"
      /\ completed.at = clock + 1 /\ completed.by = w /\ completed.item = i
      /\ completed.type = "WorkItemCompleted" /\ completed.effort = Effort
      /\ chunk.at = clock + 2 /\ chunk.by = w /\ chunk.item = i
      /\ chunk.type = "ProgressChunkEmitted"
      /\ \A t : /\ failed(t).at = t /\ failed(t).by = w /\ failed(t).item = i
                /\ failed(t).type = "WorkItemFailed"
  BY DEF ItemEvent, EffortEvent, Event
<1>4. \/ outcome = "success" /\ events = <<started, completed, chunk>>
      \/ outcome = "failure" /\ events = <<started, failed(clock + 1)>>
      \/ outcome = "error" /\ events = <<failed(clock)>>
  BY OutcomesAssumption DEF ExecutionEvents
<1> SUFFICES Executed(events, w, i, outcome)
  OBVIOUS
<1> HIDE DEF started, completed, chunk, failed, events
<1>5. CASE outcome = "success" /\ events = <<started, completed, chunk>>
  <2>1. events \in Seq(Events) /\ Len(events) = 3
    BY <1>2, <1>5
  <2>2. events[1] = started /\ events[2] = completed /\ events[3] = chunk
    BY <1>5
  <2>3. ASSUME NEW k \in 1..3
        PROVE  /\ events[k].at = clock + k - 1 /\ events[k].by = w /\ events[k].item = i
               /\ events[k].type \in {"WorkItemStarted", "WorkItemCompleted",
                                      "WorkItemFailed", "ProgressChunkEmitted"}
               /\ events[k].type = "WorkItemCompleted" => events[k].effort = Effort
    <3>1. k = 1 \/ k = 2 \/ k = 3
      OBVIOUS
    <3> QED BY <1>3, <2>2, <3>1
  <2> QED BY <1>3, <1>5, <2>1, <2>2, <2>3 DEF Executed
<1>6. CASE outcome = "failure" /\ events = <<started, failed(clock + 1)>>
  <2>1. events \in Seq(Events) /\ Len(events) = 2
    BY <1>2, <1>6
  <2>2. events[1] = started /\ events[2] = failed(clock + 1)
    BY <1>6
  <2>3. ASSUME NEW k \in 1..2
        PROVE  /\ events[k].at = clock + k - 1 /\ events[k].by = w /\ events[k].item = i
               /\ events[k].type \in {"WorkItemStarted", "WorkItemCompleted",
                                      "WorkItemFailed", "ProgressChunkEmitted"}
               /\ events[k].type = "WorkItemCompleted" => events[k].effort = Effort
    <3>1. k = 1 \/ k = 2
      OBVIOUS
    <3> QED BY <1>3, <2>2, <3>1
  <2> QED BY <1>3, <1>6, <2>1, <2>2, <2>3 DEF Executed
<1>7. CASE outcome = "error" /\ events = <<failed(clock)>>
  <2>1. events \in Seq(Events) /\ Len(events) = 1 /\ events[1] = failed(clock)
    BY <1>2, <1>7
  <2>2. ASSUME NEW k \in 1..1
        PROVE  /\ events[k].at = clock + k - 1 /\ events[k].by = w /\ events[k].item = i
               /\ events[k].type \in {"WorkItemStarted", "WorkItemCompleted",
                                      "WorkItemFailed", "ProgressChunkEmitted"}
               /\ events[k].type = "WorkItemCompleted" => events[k].effort = Effort
    BY <1>3, <2>1
  <2>3. events[1].type = "WorkItemFailed" /\ 1 \in 1..Len(events) /\ outcome # "success"
    BY <1>3, <1>7, <2>1
  <2> QED BY <2>1, <2>2, <2>3 DEF Executed
<1> QED BY <1>4, <1>5, <1>6, <1>7

-----------------------------------------------------------------------------
(* What a fold makes of the events of the log is of its type.               *)
LEMMA FoldsTyped ==
    ASSUME NEW events \in Seq(Events)
    PROVE  /\ \A types \in SUBSET DOMAIN ItemStatus :
                ItemsOf(types, events) \in [Items -> ItemStatuses]
           /\ StatusOf(RebuildStatus, "absent", events) \in RunStatuses
           /\ EffortOf(0, events) \in Nat
<1> DEFINE n == Len(events)
<1>1. n \in Nat /\ \A k \in 1..n : events[k] \in Events
  OBVIOUS
<1>2. \A e \in Events : e.type \in EventTypes /\ e.effort \in Nat
  BY DEF Events
<1>3. ASSUME NEW types \in SUBSET DOMAIN ItemStatus
      PROVE  ItemsOf(types, events) \in [Items -> ItemStatuses]
  <2> DEFINE items == ItemsOf(types, events)
  <2>1. items = [i \in Items |-> items[i]]
    BY <1>1, ItemIsLast
  <2>2. ASSUME NEW i \in Items PROVE items[i] \in ItemStatuses
    <3>1. CASE items[i] = "absent"
      BY <3>1 DEF ItemStatuses
    <3>2. CASE \E k \in 1..n : /\ Touches(types, events[k], i)
                               /\ items[i] = ItemStatus[events[k].type]
      <4>1. PICK k \in 1..n : /\ Touches(types, events[k], i)
                              /\ items[i] = ItemStatus[events[k].type]
        BY <3>2
      <4>2. events[k].type \in DOMAIN ItemStatus /\ events[k].type \in EventTypes
        BY <1>1, <1>2, <4>1 DEF Touches
      <4> HIDE DEF items
      <4> QED BY <4>1, <4>2, ItemStatusIs DEF ItemStatuses, EventTypes
    <3> QED BY <1>1, <3>1, <3>2, ItemIsLast
  <2> HIDE DEF items
  <2>3. items \in [Items -> ItemStatuses]
    BY <2>1, <2>2
  <2> QED BY <2>3 DEF items
<1>4. StatusOf(RebuildStatus, "absent", events) \in RunStatuses
  <2> DEFINE status == StatusOf(RebuildStatus, "absent", events)
  <2>1. CASE status = "absent"
    BY <2>1 DEF RunStatuses
  <2>2. CASE \E k \in 1..n : /\ Sets(RebuildStatus, events[k])
                             /\ status = Given(RebuildStatus, events[k])
    <3>1. PICK k \in 1..n : /\ Sets(RebuildStatus, events[k])
                            /\ status = Given(RebuildStatus, events[k])
      BY <2>2
    <3>2. events[k] \in Events
      BY <1>1
    <3>3. Given(RebuildStatus, events[k]) \in RunStatuses
      <4>1. CASE events[k].type = "RunStatusChanged"
        <5>1. events[k].status \in {"running", "paused", "cancelled"}
          BY <3>2, <4>1 DEF Events
        <5> QED BY <4>1, <5>1 DEF Given, RunStatuses
      <4>2. CASE events[k].type # "RunStatusChanged"
        <5>1. events[k].type \in DOMAIN RebuildStatus
          BY <3>1, <4>2 DEF Sets
        <5>2. \A type \in DOMAIN RebuildStatus : RebuildStatus[type] \in RunStatuses
          BY DEF RebuildStatus, RunStatuses
        <5> QED BY <4>2, <5>1, <5>2 DEF Given
      <4> QED BY <4>1, <4>2
    <3> QED BY <3>1, <3>3
  <2> QED BY <1>1, <2>1, <2>2, StatusIsLast
<1>5. EffortOf(0, events) \in Nat
  <2>1. \A k \in 1..n : Worth(events[k]) \in Nat
    BY <1>1, <1>2 DEF Worth
  <2>2. PICK f : Totals(f, 0, events) /\ EffortOf(0, events) = f[n]
    BY <1>1, <2>1, EffortIsTotal
  <2> QED BY <1>1, <2>2 DEF Totals
<1> QED BY <1>3, <1>4, <1>5

(* load_all reads the log, all of it, in the order of occurred_at.          *)
LEMMA ByTimeIs ==
    ASSUME log \in Seq(Events), EventsOnce
    PROVE  /\ ByTime \in Seq(Events) /\ Len(ByTime) = Len(log)
           /\ \A k \in 1..Len(log) : \E p \in 1..Len(log) : ByTime[k] = log[p]
           /\ \A p \in 1..Len(log) : \E k \in 1..Len(log) : ByTime[k] = log[p]
           /\ \A j, k \in 1..Len(log) : j < k => ByTime[j].at < ByTime[k].at
<1>1. \A k \in 1..Len(log) : log[k].at \in Nat
  <2>1. \A k \in 1..Len(log) : log[k] \in Events
    OBVIOUS
  <2>2. \A e \in Events : e.at \in Nat
    BY DEF Events
  <2> QED BY <2>1, <2>2
<1>2. \A j, k \in 1..Len(log) : log[j].at = log[k].at => j = k
  BY DEF EventsOnce
<1> QED BY <1>1, <1>2, TimeOrderSorts DEF ByTime

-----------------------------------------------------------------------------
(* The locals of a process, as they are where it stands: a request that is  *)
(* served has a kind; a worker that holds a run has seen it running or has  *)
(* changed that, has made no attempt before it finished its turn, has one   *)
(* left before it loads the revision, and upserts items; events are held    *)
(* only while they wait to be appended.                                     *)
LiveControls ==
    {c \in ControlStates :
        /\ c.pc # "idle" => c.kind \in Requests
        /\ c.pc # "append" => c.events = <<>>}
LiveWorkers ==
    {v \in WorkerStates :
        /\ v.pc # "idle" => v.status \in {"running", "blocked", "completed"}
        /\ v.pc = "work" => v.attempt = 0
        /\ v.pc = "load" => v.attempt < MaxAttempts
        /\ v.pc \in {"idle", "items"} => v.events = <<>>
        /\ v.pc \in {"load", "append"} => v.events # <<>>
        /\ v.todo \in Seq({e \in Events : e.type \in DOMAIN ItemStatus})}
LiveRebuilds == {r \in RebuildStates : r.pc # "idle" => r.status \in RunStatuses}

(* The types, with what the locals need to keep them.                       *)
TypeInv ==
    /\ log \in Seq(Events) /\ inflight \in Seq(Events) /\ clock \in Nat
    /\ runRow \in [status : RunStatuses, effort : Nat]
    /\ itemRow \in [Items -> ItemStatuses]
    /\ creation \in {"new", "appended", "done"}
    /\ ctl \in [Handlers -> LiveControls]
    /\ wrk \in [Workers -> LiveWorkers]
    /\ rebuild \in LiveRebuilds
    /\ controls \in 0..MaxControls /\ rebuilds \in 0..MaxRebuilds /\ faults \in 0..MaxFaults

(* The invariant implies the types.                                        *)
LEMMA TypeInvImpliesTypeOK == TypeInv => TypeOK
  BY DEF TypeInv, TypeOK, LiveControls, LiveWorkers, LiveRebuilds

(* Where a process is when it does nothing.                                 *)
LEMMA IdleIsTyped ==
    /\ NoItems \in [Items -> ItemStatuses] /\ NoRunRow \in [status : RunStatuses, effort : Nat]
    /\ IdleControl \in LiveControls /\ IdleControl.pc = "idle" /\ IdleControl.events = <<>>
    /\ IdleWorker \in LiveWorkers /\ IdleWorker.pc = "idle" /\ IdleWorker.events = <<>>
    /\ IdleRebuild \in LiveRebuilds /\ IdleRebuild.pc = "idle"
<1>1. NoItems \in [Items -> ItemStatuses] /\ NoRunRow \in [status : RunStatuses, effort : Nat]
  BY DEF NoItems, ItemStatuses, NoRunRow, RunStatuses
<1>2. IdleControl \in LiveControls /\ IdleControl.pc = "idle" /\ IdleControl.events = <<>>
  <2>1. IdleControl \in ControlStates
    BY DEF IdleControl, ControlStates
  <2>2. IdleControl.pc = "idle"
    BY DEF IdleControl
  <2>3. IdleControl.events = <<>>
    BY DEF IdleControl
  <2> QED BY <2>1, <2>2, <2>3 DEF LiveControls
<1>3. IdleWorker \in LiveWorkers /\ IdleWorker.pc = "idle" /\ IdleWorker.events = <<>>
  <2>1. IdleWorker \in WorkerStates
    BY <1>1, NumbersAssumption DEF IdleWorker, WorkerStates
  <2>2. IdleWorker.pc = "idle"
    BY DEF IdleWorker
  <2>3. IdleWorker.events = <<>>
    BY DEF IdleWorker
  <2>4. IdleWorker.todo \in Seq({e \in Events : e.type \in DOMAIN ItemStatus})
    BY DEF IdleWorker
  <2> QED BY <2>1, <2>2, <2>3, <2>4 DEF LiveWorkers
<1>4. IdleRebuild \in LiveRebuilds /\ IdleRebuild.pc = "idle"
  BY <1>1 DEF IdleRebuild, LiveRebuilds, RebuildStates
<1> QED BY <1>1, <1>2, <1>3, <1>4

(* The types hold at the start.                                            *)
LEMMA TypeInit == Init => TypeInv
  BY IdleIsTyped, NumbersAssumption DEF Init, TypeInv

(* A fault keeps their number in its bound.                                 *)
LEMMA FaultTyped == TypeInv /\ Fault => faults' \in 0..MaxFaults
  BY NumbersAssumption DEF TypeInv, Fault

(* The worker that did not get its batch stored tries again or drops it.    *)
LEMMA NextAttemptTyped ==
    ASSUME TypeInv, NEW w \in Workers, wrk[w].pc = "append", NextAttempt(w)
    PROVE  wrk' \in [Workers -> LiveWorkers]
<1>1. wrk[w] \in LiveWorkers
  BY DEF TypeInv
<1>2. CASE wrk[w].attempt < MaxAttempts
  <2> DEFINE r == [wrk[w] EXCEPT !.pc = "load", !.base = 0]
  <2>1. r \in LiveWorkers
    BY <1>1, <1>2 DEF LiveWorkers, WorkerStates
  <2>2. wrk' = [wrk EXCEPT ![w] = r]
    BY <1>2 DEF NextAttempt, SetWrk
  <2> HIDE DEF r
  <2> QED BY <2>1, <2>2 DEF TypeInv
<1>3. CASE ~ (wrk[w].attempt < MaxAttempts)
  <2>1. wrk' = [wrk EXCEPT ![w] = IdleWorker]
    BY <1>3 DEF NextAttempt, SetWrk
  <2> QED BY <2>1, IdleIsTyped DEF TypeInv
<1> QED BY <1>2, <1>3

(* The moves of a request from place to place.                              *)
LEMMA ControlMoves ==
    ASSUME NEW c \in LiveControls, NEW events \in Seq(Events), NEW n \in Nat,
           NEW kind \in Requests, NEW items \in SUBSET Items
    PROVE  /\ [IdleControl EXCEPT !.pc = "revision", !.kind = kind, !.reassign = items]
                \in LiveControls
           /\ c.pc # "idle" =>
                [c EXCEPT !.pc = "append", !.base = n, !.events = events] \in LiveControls
           /\ c.pc # "idle" =>
                [c EXCEPT !.pc = "sync", !.events = <<>>, !.base = 0] \in LiveControls
<1>1. [IdleControl EXCEPT !.pc = "revision", !.kind = kind, !.reassign = items] \in LiveControls
  <2>1. IdleControl \in LiveControls /\ IdleControl.events = <<>>
    BY IdleIsTyped
  <2> QED BY <2>1 DEF LiveControls, ControlStates
<1>2. ASSUME c.pc # "idle"
      PROVE  [c EXCEPT !.pc = "append", !.base = n, !.events = events] \in LiveControls
  BY <1>2 DEF LiveControls, ControlStates
<1>3. ASSUME c.pc # "idle"
      PROVE  [c EXCEPT !.pc = "sync", !.events = <<>>, !.base = 0] \in LiveControls
  <2>1. <<>> \in Seq(Events) /\ 0 \in Nat
    OBVIOUS
  <2> QED BY <1>3, <2>1 DEF LiveControls, ControlStates
<1> QED BY <1>1, <1>2, <1>3

(* No step of a request leaves the types.                                   *)
LEMMA TypeControl ==
    ASSUME TypeInv, NEW h \in Handlers,
           (\E kind \in Requests : Decide(h, kind)) \/ ControlStep(h) \/ ControlFails(h)
    PROVE  TypeInv'
<1>1. ctl[h] \in LiveControls
  BY DEF TypeInv
<1>2. ASSUME NEW kind \in Requests, Decide(h, kind) PROVE TypeInv'
  <2> DEFINE open == {i \in Items : OrchestratorFold(log).items[i] \notin {"absent", "completed"}}
             r == [IdleControl EXCEPT !.pc = "revision", !.kind = kind,
                      !.reassign = IF kind = "retry" THEN open ELSE {}]
  <2>1. open \in SUBSET Items
    OBVIOUS
  <2> HIDE DEF open
  <2>2. r \in LiveControls
    <3>1. (IF kind = "retry" THEN open ELSE {}) \in SUBSET Items
      BY <2>1
    <3>2. IdleControl \in LiveControls /\ <<>> \in Seq(Events) /\ 0 \in Nat
      BY IdleIsTyped
    <3> QED BY <3>1, <3>2, ControlMoves
  <2>3. ctl' = ctl \/ ctl' = [ctl EXCEPT ![h] = r]
    BY <1>2 DEF Decide, SetCtl, open
  <2> HIDE DEF r
  <2>4. controls' \in 0..MaxControls
    <3>1. controls < MaxControls /\ controls' = controls + 1 /\ controls \in 0..MaxControls
      BY <1>2 DEF Decide, TypeInv
    <3> QED BY <3>1, NumbersAssumption
  <2> QED BY <1>2, <2>2, <2>3, <2>4 DEF Decide, TypeInv
<1>3. ASSUME NextRevision(h) PROVE TypeInv'
  <2> DEFINE first == StatusChanged(Target[ctl[h].kind], "api", clock)
             rest  == AssignAll(ctl[h].reassign, "api", clock + 1)
             r == [ctl[h] EXCEPT !.pc = "append", !.base = Len(log), !.events = <<first>> \o rest]
  <2>1. ctl[h].kind \in Requests /\ ctl[h].reassign \in SUBSET Items /\ clock \in Nat
        /\ ctl[h] \in ControlStates /\ log \in Seq(Events)
    BY <1>1, <1>3 DEF NextRevision, TypeInv, LiveControls, ControlStates
  <2>2. Target[ctl[h].kind] \in {"paused", "running", "cancelled"}
    BY <2>1, TargetIs
  <2>3. first \in Events
    <3>1. "api" \in Workers \cup {"api"}
      OBVIOUS
    <3> QED BY <2>1, <2>2, <3>1, RunEventsMade
  <2>4. rest \in Seq(Events) /\ Cardinality(ctl[h].reassign) \in Nat
    <3>1. "api" \in Workers \cup {"api"} /\ clock + 1 \in Nat
      BY <2>1
    <3> QED BY <2>1, <3>1, AssignAllIs DEF Assigns
  <2>5. <<first>> \o rest \in Seq(Events)
    <3> HIDE DEF first, rest
    <3> QED BY <2>3, <2>4
  <2> HIDE DEF first, rest
  <2>6. r \in LiveControls
    <3>1. Len(log) \in Nat /\ ctl[h].pc # "idle"
      BY <1>3, <2>1 DEF NextRevision
    <3> QED BY <1>1, <2>1, <2>5, <3>1, ControlMoves
  <2>7. ctl' = [ctl EXCEPT ![h] = r]
    BY <1>3 DEF NextRevision, SetCtl, first, rest
  <2> HIDE DEF r
  <2>8. clock' \in Nat
    BY <1>3, <2>1, <2>4 DEF NextRevision
  <2> QED BY <1>3, <2>6, <2>7, <2>8 DEF NextRevision, TypeInv
<1>4. ASSUME AppendControl(h) PROVE TypeInv'
  <2> DEFINE r == [ctl[h] EXCEPT !.pc = "sync", !.events = <<>>, !.base = 0]
  <2>1. r \in LiveControls /\ ctl[h].events \in Seq(Events)
    <3>1. ctl[h].pc # "idle" /\ ctl[h].kind \in Requests /\ ctl[h].events \in Seq(Events)
      BY <1>1, <1>4 DEF AppendControl, LiveControls, ControlStates
    <3>2. 0 \in Nat /\ {} \in SUBSET Items
      OBVIOUS
    <3> QED BY <1>1, <3>1, <3>2, ControlMoves
  <2>2. ctl' = [ctl EXCEPT ![h] = r] \/ ctl' = [ctl EXCEPT ![h] = IdleControl]
    BY <1>4 DEF AppendControl, SetCtl
  <2> HIDE DEF r
  <2>3. ctl' \in [Handlers -> LiveControls]
    BY <2>1, <2>2, IdleIsTyped DEF TypeInv
  <2>4. log' \in Seq(Events) /\ inflight' \in Seq(Events)
    <3> DEFINE events == ctl[h].events
    <3>1. log' = log \/ log' = log \o events
      BY <1>4 DEF AppendControl
    <3>2. inflight' = inflight \/ inflight' = events
      BY <1>4 DEF AppendControl
    <3>3. events \in Seq(Events) /\ log \in Seq(Events) /\ inflight \in Seq(Events)
      BY <2>1 DEF TypeInv
    <3> HIDE DEF events
    <3>4. log \o events \in Seq(Events)
      BY <3>3
    <3> QED BY <3>1, <3>2, <3>3, <3>4
  <2>5. faults' \in 0..MaxFaults
    BY <1>4, FaultTyped DEF AppendControl, TypeInv
  <2> QED BY <1>4, <2>3, <2>4, <2>5 DEF AppendControl, TypeInv
<1>5. ASSUME SyncStatus(h) PROVE TypeInv'
  <2>1. ctl[h].kind \in Requests
    BY <1>1, <1>5 DEF SyncStatus, LiveControls
  <2>2. Target[ctl[h].kind] \in RunStatuses
    BY <2>1, TargetIs DEF RunStatuses
  <2>3. runRow' \in [status : RunStatuses, effort : Nat]
    BY <1>5, <2>2 DEF SyncStatus, TypeInv
  <2> QED BY <1>5, <2>3, IdleIsTyped DEF SyncStatus, SetCtl, TypeInv
<1>6. ASSUME ControlFails(h) PROVE TypeInv'
  BY <1>6, FaultTyped, IdleIsTyped DEF ControlFails, SetCtl, TypeInv
<1> QED BY <1>2, <1>3, <1>4, <1>5, <1>6 DEF ControlStep

(* The moves of a worker from place to place.                               *)
LEMMA WorkerMoves ==
    ASSUME NEW v \in LiveWorkers
    PROVE  /\ \A status \in {"running"}, items \in [Items -> ItemStatuses], effort \in Nat :
                [IdleWorker EXCEPT !.pc = "work", !.status = status, !.items = items,
                    !.effort = effort] \in LiveWorkers
           /\ \A events \in Seq(Events), i \in Items, o \in Outcomes :
                v.pc = "work" /\ v.count < ItemsPerLoop =>
                  [v EXCEPT
                      !.count = @ + 1,
                      !.events = @ \o events,
                      !.items[i] = IF o = "success" THEN "completed" ELSE "failed",
                      !.status = IF o = "success" THEN @ ELSE "blocked",
                      !.effort = IF o = "success" THEN @ + Effort ELSE @] \in LiveWorkers
           /\ \A events \in Seq(Events), ends \in BOOLEAN :
                v.pc = "work" /\ events # <<>> =>
                  [v EXCEPT !.pc = "load", !.events = events, !.count = 0,
                      !.status = IF ends THEN "completed" ELSE @] \in LiveWorkers
           /\ \A n \in Nat :
                v.pc = "load" =>
                  [v EXCEPT !.pc = "append", !.base = n, !.attempt = @ + 1] \in LiveWorkers
           /\ \A todo \in Seq({e \in Events : e.type \in DOMAIN ItemStatus}) :
                v.pc # "idle" =>
                  /\ [v EXCEPT !.pc = "items", !.events = <<>>, !.base = 0, !.attempt = 0,
                         !.todo = todo] \in LiveWorkers
                  /\ [v EXCEPT !.todo = todo] \in LiveWorkers
<1> DEFINE Places   == {"idle", "work", "load", "append", "items"}
           Statuses == RunStatuses \cup {""}
           Counts   == 0..ItemsPerLoop
           Attempts == 0..MaxAttempts
           Batches  == Seq(Events)
           Rows     == Seq({e \in Events : e.type \in DOMAIN ItemStatus})
           Alive    == {"running", "blocked", "completed"}
           Known    == [Items -> ItemStatuses]
<1>1. /\ "work" \in Places /\ "load" \in Places /\ "append" \in Places /\ "items" \in Places
      /\ Alive \subseteq Statuses /\ "running" \in Alive /\ "blocked" \in Alive
      /\ "completed" \in Alive
  BY DEF RunStatuses
<1>2. 0 \in Counts /\ 0 \in Attempts /\ Effort \in Nat /\ 0 \in Nat
  BY NumbersAssumption
<1>3. Rows \subseteq Batches /\ <<>> \in Batches
  OBVIOUS
<1>4. \A b, c \in Batches : b \o c \in Batches
  OBVIOUS
<1>5. \A n \in Counts : n < ItemsPerLoop => n + 1 \in Counts
  BY NumbersAssumption
<1>6. \A n \in Attempts : n < MaxAttempts => n + 1 \in Attempts
  BY NumbersAssumption
<1>7. \A items \in Known, i \in Items, s \in {"completed", "failed"} :
        [items EXCEPT ![i] = s] \in Known
  BY DEF ItemStatuses
<1>8. WorkerStates = [pc : Places, status : Statuses, items : Known, effort : Nat,
                      count : Counts, events : Batches, attempt : Attempts, base : Nat,
                      todo : Batches]
  BY DEF WorkerStates
<1>9. \A u : u \in LiveWorkers <=>
        /\ u \in WorkerStates
        /\ u.pc # "idle" => u.status \in Alive
        /\ u.pc = "work" => u.attempt = 0
        /\ u.pc = "load" => u.attempt < MaxAttempts
        /\ u.pc \in {"idle", "items"} => u.events = <<>>
        /\ u.pc \in {"load", "append"} => u.events # <<>>
        /\ u.todo \in Rows
  BY DEF LiveWorkers
<1>10. 0 < MaxAttempts
  BY NumbersAssumption
<1> HIDE DEF Places, Statuses, Counts, Attempts, Batches, Rows, Alive, Known
<1>11. ASSUME NEW items \in Known, NEW effort \in Nat
       PROVE  [IdleWorker EXCEPT !.pc = "work", !.status = "running", !.items = items,
                 !.effort = effort] \in LiveWorkers
  <2> DEFINE r == [IdleWorker EXCEPT !.pc = "work", !.status = "running", !.items = items,
                      !.effort = effort]
  <2>1. IdleWorker \in LiveWorkers /\ IdleWorker.attempt = 0 /\ IdleWorker \in WorkerStates
    BY <1>9, IdleIsTyped DEF IdleWorker
  <2>2. r \in WorkerStates
    BY <1>1, <1>8, <2>1
  <2>3. r.pc = "work" /\ r.status = "running" /\ r.attempt = 0 /\ r.todo = IdleWorker.todo
    BY <1>8, <2>1
  <2> HIDE DEF r
  <2>4. r \in LiveWorkers
    BY <1>1, <1>9, <2>1, <2>2, <2>3
  <2> QED BY <2>4 DEF r
<1>12. ASSUME NEW events \in Batches, NEW i \in Items, NEW o \in Outcomes,
              v.pc = "work", v.count < ItemsPerLoop
       PROVE  [v EXCEPT
                 !.count = @ + 1,
                 !.events = @ \o events,
                 !.items[i] = IF o = "success" THEN "completed" ELSE "failed",
                 !.status = IF o = "success" THEN @ ELSE "blocked",
                 !.effort = IF o = "success" THEN @ + Effort ELSE @] \in LiveWorkers
  <2> DEFINE to == IF o = "success" THEN "completed" ELSE "failed"
             count == v.count + 1
             all == v.events \o events
             items == [v.items EXCEPT ![i] = to]
             status == IF o = "success" THEN v.status ELSE "blocked"
             effort == IF o = "success" THEN v.effort + Effort ELSE v.effort
             r == [v EXCEPT !.count = count, !.events = all, !.items = items,
                      !.status = status, !.effort = effort]
  <2>0. /\ v \in WorkerStates /\ v.count \in Counts /\ v.events \in Batches /\ v.items \in Known
        /\ v.effort \in Nat /\ v.status \in Alive /\ v.attempt = 0 /\ v.todo \in Rows
    BY <1>8, <1>9, <1>12
  <2>1. count \in Counts
    BY <1>5, <1>12, <2>0
  <2>2. all \in Batches
    BY <1>4, <2>0
  <2>3. items \in Known
    BY <1>7, <2>0
  <2>4. status \in Alive /\ status \in Statuses
    BY <1>1, <2>0
  <2>5. effort \in Nat
    BY <1>2, <2>0
  <2>6. r = [v EXCEPT
                !.count = @ + 1,
                !.events = @ \o events,
                !.items[i] = IF o = "success" THEN "completed" ELSE "failed",
                !.status = IF o = "success" THEN @ ELSE "blocked",
                !.effort = IF o = "success" THEN @ + Effort ELSE @]
    BY <1>8, <2>0
  <2> HIDE DEF count, all, items, status, effort
  <2>7. r \in WorkerStates
    BY <1>8, <2>0, <2>1, <2>2, <2>3, <2>4, <2>5
  <2>8. r.pc = "work" /\ r.status = status /\ r.attempt = 0 /\ r.todo = v.todo
    BY <1>8, <1>12, <2>0
  <2>9. r \in LiveWorkers
    <3> HIDE DEF r
    <3> QED BY <1>9, <2>0, <2>4, <2>7, <2>8
  <2> QED BY <2>6, <2>9
<1>13. ASSUME NEW events \in Batches, NEW ends \in BOOLEAN, v.pc = "work", events # <<>>
       PROVE  [v EXCEPT !.pc = "load", !.events = events, !.count = 0,
                 !.status = IF ends THEN "completed" ELSE @] \in LiveWorkers
  <2> DEFINE status == IF ends THEN "completed" ELSE v.status
             r == [v EXCEPT !.pc = "load", !.events = events, !.count = 0, !.status = status]
  <2>0. v \in WorkerStates /\ v.status \in Alive /\ v.attempt = 0 /\ v.todo \in Rows
    BY <1>9, <1>13
  <2>1. status \in Alive /\ status \in Statuses
    BY <1>1, <2>0
  <2>2. r = [v EXCEPT !.pc = "load", !.events = events, !.count = 0,
                !.status = IF ends THEN "completed" ELSE @]
    BY <1>8, <2>0
  <2> HIDE DEF status
  <2>3. r \in WorkerStates
    BY <1>1, <1>2, <1>8, <2>0, <2>1
  <2>4. r.pc = "load" /\ r.status = status /\ r.attempt = 0 /\ r.todo = v.todo /\ r.events = events
    BY <1>8, <2>0
  <2>5. r \in LiveWorkers
    <3> HIDE DEF r
    <3> QED BY <1>9, <1>10, <1>13, <2>0, <2>1, <2>3, <2>4
  <2> QED BY <2>2, <2>5
<1>14. ASSUME NEW n \in Nat, v.pc = "load"
       PROVE  [v EXCEPT !.pc = "append", !.base = n, !.attempt = @ + 1] \in LiveWorkers
  <2> DEFINE attempt == v.attempt + 1
             r == [v EXCEPT !.pc = "append", !.base = n, !.attempt = attempt]
  <2>0. v \in WorkerStates /\ v.status \in Alive /\ v.attempt < MaxAttempts /\ v.todo \in Rows
        /\ v.attempt \in Attempts /\ v.events # <<>>
    BY <1>8, <1>9, <1>14
  <2>1. attempt \in Attempts
    BY <1>6, <2>0
  <2>2. r = [v EXCEPT !.pc = "append", !.base = n, !.attempt = @ + 1]
    BY <1>8, <2>0
  <2> HIDE DEF attempt
  <2>3. r \in WorkerStates
    BY <1>1, <1>8, <2>0, <2>1
  <2>4. r.pc = "append" /\ r.status = v.status /\ r.todo = v.todo /\ r.events = v.events
    BY <1>8, <2>0
  <2>5. r \in LiveWorkers
    <3> HIDE DEF r
    <3> QED BY <1>9, <2>0, <2>3, <2>4
  <2> QED BY <2>2, <2>5
<1>15. ASSUME NEW todo \in Rows, v.pc # "idle"
       PROVE  [v EXCEPT !.pc = "items", !.events = <<>>, !.base = 0, !.attempt = 0,
                 !.todo = todo] \in LiveWorkers
  <2> DEFINE r == [v EXCEPT !.pc = "items", !.events = <<>>, !.base = 0, !.attempt = 0,
                      !.todo = todo]
  <2>0. v \in WorkerStates /\ v.status \in Alive /\ todo \in Batches
    BY <1>3, <1>9, <1>15
  <2>1. r \in WorkerStates
    BY <1>1, <1>2, <1>3, <1>8, <2>0
  <2>2. r.pc = "items" /\ r.status = v.status /\ r.todo = todo /\ r.events = <<>>
    BY <1>8, <2>0
  <2> HIDE DEF r
  <2>3. r \in LiveWorkers
    BY <1>9, <2>0, <2>1, <2>2
  <2> QED BY <2>3 DEF r
<1>16. ASSUME NEW todo \in Rows, v.pc # "idle"
       PROVE  [v EXCEPT !.todo = todo] \in LiveWorkers
  <2> DEFINE r == [v EXCEPT !.todo = todo]
  <2>0. v \in WorkerStates /\ todo \in Batches
    BY <1>3, <1>9
  <2>1. r \in WorkerStates
    BY <1>8, <2>0
  <2>2. r.pc = v.pc /\ r.status = v.status /\ r.attempt = v.attempt /\ r.todo = todo
        /\ r.events = v.events
    BY <1>8, <2>0
  <2> HIDE DEF r
  <2>3. r \in LiveWorkers
    BY <1>9, <2>1, <2>2
  <2> QED BY <2>3 DEF r
<1> QED BY <1>11, <1>12, <1>13, <1>14, <1>15, <1>16 DEF Batches, Rows, Known

(* A batch gives the tables nothing but events of items.                    *)
LEMMA UpsertsTyped ==
    ASSUME NEW events \in Seq(Events)
    PROVE  ItemUpserts(events) \in Seq({e \in Events : e.type \in DOMAIN ItemStatus})
<1> DEFINE E == {events[k] : k \in 1..Len(events)}
           S == {e \in E : e.type \in DOMAIN ItemStatus}
           T == {e \in Events : e.type \in DOMAIN ItemStatus}
<1>1. ItemUpserts(events) \in Seq(S)
  BY TouchingKeeps DEF ItemUpserts
<1>2. S \subseteq T
  OBVIOUS
<1> HIDE DEF S, T
<1>3. ItemUpserts(events) \in Seq(T)
  BY <1>1, <1>2, SeqMonotonic
<1> QED BY <1>3 DEF T

(* No step of a worker leaves the types.                                    *)
LEMMA TypeWorker ==
    ASSUME TypeInv, EventsOnce, NEW w \in Workers, WorkerStep(w) \/ AppendFails(w) \/ WorkerDies(w)
    PROVE  TypeInv'
<1> DEFINE v == wrk[w]
<1>1. /\ v \in LiveWorkers /\ v \in WorkerStates /\ clock \in Nat /\ log \in Seq(Events)
      /\ v.events \in Seq(Events)
  BY DEF TypeInv, LiveWorkers, WorkerStates
<1>2. ASSUME NEW r \in LiveWorkers, SetWrk(w, r) PROVE wrk' \in [Workers -> LiveWorkers]
  BY <1>2 DEF SetWrk, TypeInv
<1>3. ASSUME LoadRun(w) PROVE TypeInv'
  <2> DEFINE types == DOMAIN ItemStatus \ {"BlockerEncountered"}
             seen == WorkerFold(ByTime)
             r == [IdleWorker EXCEPT !.pc = "work", !.status = seen.status,
                      !.items = seen.items, !.effort = seen.effort]
  <2>1. SetWrk(w, r) /\ seen.status = "running"
    BY <1>3 DEF LoadRun
  <2>2. ByTime \in Seq(Events)
    BY <1>1, ByTimeIs
  <2>3. seen.items = ItemsOf(types, ByTime) /\ seen.effort = EffortOf(0, ByTime)
    BY DEF WorkerFold
  <2>4. types \in SUBSET DOMAIN ItemStatus
    OBVIOUS
  <2> HIDE DEF types, seen
  <2>5. seen.items \in [Items -> ItemStatuses] /\ seen.effort \in Nat
    BY <2>2, <2>3, <2>4, FoldsTyped
  <2>6. r \in LiveWorkers
    BY <1>1, <2>1, <2>5, WorkerMoves
  <2> HIDE DEF r
  <2> QED BY <1>2, <1>3, <2>1, <2>6 DEF LoadRun, TypeInv
<1>4. ASSUME NEW i \in Items, NEW o \in Outcomes, ExecuteItem(w, i, o) PROVE TypeInv'
  <2> DEFINE events == ExecutionEvents(w, i, o)
             to == IF o = "success" THEN "completed" ELSE "failed"
             r == [v EXCEPT
                      !.count = @ + 1,
                      !.events = @ \o events,
                      !.items[i] = IF o = "success" THEN "completed" ELSE "failed",
                      !.status = IF o = "success" THEN @ ELSE "blocked",
                      !.effort = IF o = "success" THEN @ + Effort ELSE @]
  <2>1. events \in Seq(Events) /\ Len(events) \in 1..3
    BY <1>1, ExecutionEventsAre DEF Executed
  <2>2. v.pc = "work" /\ v.count < ItemsPerLoop /\ SetWrk(w, r) /\ clock' = clock + Len(events)
    BY <1>4 DEF ExecuteItem
  <2> HIDE DEF events
  <2>3. r \in LiveWorkers
    BY <1>1, <2>1, <2>2, WorkerMoves
  <2>4. clock' \in Nat
    BY <1>1, <2>1, <2>2
  <2> HIDE DEF r
  <2> QED BY <1>2, <1>4, <2>2, <2>3, <2>4 DEF ExecuteItem, TypeInv
<1>5. ASSUME FinishTurn(w) PROVE TypeInv'
  <2> DEFINE events == IF Completes(w)
                         THEN Append(v.events, RunEvent("RunCompleted", w, clock))
                         ELSE v.events
             r == [v EXCEPT !.pc = "load", !.events = events, !.count = 0,
                      !.status = IF Completes(w) THEN "completed" ELSE @]
  <2>1. RunEvent("RunCompleted", w, clock) \in Events
    <3>1. w \in Workers \cup {"api"}
      OBVIOUS
    <3> QED BY <1>1, <3>1, RunEventsMade
  <2>2. events \in Seq(Events)
    BY <1>1, <2>1
  <2>3. /\ v.pc = "work" /\ clock' \in {clock, clock + 1}
        /\ IF events = <<>> THEN SetWrk(w, IdleWorker) ELSE SetWrk(w, r)
    BY <1>5 DEF FinishTurn
  <2> HIDE DEF events
  <2>4. ASSUME events # <<>> PROVE r \in LiveWorkers
    BY <1>1, <2>2, <2>3, <2>4, WorkerMoves
  <2> HIDE DEF r
  <2>5. wrk' \in [Workers -> LiveWorkers]
    BY <1>2, <2>3, <2>4, IdleIsTyped
  <2>6. clock' \in Nat
    BY <1>1, <2>3
  <2> QED BY <1>5, <2>5, <2>6 DEF FinishTurn, TypeInv
<1>6. ASSUME RebaseBatch(w) PROVE TypeInv'
  <2> DEFINE r == [v EXCEPT !.pc = "append", !.base = Len(log), !.attempt = @ + 1]
  <2>1. v.pc = "load" /\ SetWrk(w, r) /\ Len(log) \in Nat
    BY <1>1, <1>6 DEF RebaseBatch
  <2>2. r \in LiveWorkers
    BY <1>1, <2>1, WorkerMoves
  <2> HIDE DEF r
  <2> QED BY <1>2, <1>6, <2>1, <2>2 DEF RebaseBatch, TypeInv
<1>7. ASSUME AppendBatch(w) PROVE TypeInv'
  <2> DEFINE events == v.events
             todo == ItemUpserts(events)
             r == [v EXCEPT !.pc = "items", !.events = <<>>, !.base = 0,
                      !.attempt = 0, !.todo = ItemUpserts(v.events)]
  <2>1. v.pc = "append"
    BY <1>7 DEF AppendBatch
  <2>2. todo \in Seq({e \in Events : e.type \in DOMAIN ItemStatus})
    BY <1>1, UpsertsTyped
  <2> HIDE DEF todo
  <2>3. r \in LiveWorkers
    BY <1>1, <2>1, <2>2, WorkerMoves DEF todo
  <2>4. wrk' \in [Workers -> LiveWorkers]
    <3>1. SetWrk(w, r) \/ NextAttempt(w)
      BY <1>7 DEF AppendBatch
    <3> HIDE DEF r
    <3> QED BY <1>2, <2>1, <2>3, <3>1, NextAttemptTyped
  <2>5. log' \in Seq(Events) /\ inflight' \in Seq(Events)
    <3>1. (log' = log \/ log' = log \o events) /\ (inflight' = inflight \/ inflight' = events)
      BY <1>7 DEF AppendBatch
    <3>2. events \in Seq(Events) /\ log \in Seq(Events) /\ inflight \in Seq(Events)
      BY <1>1 DEF TypeInv
    <3> HIDE DEF events
    <3>3. log \o events \in Seq(Events)
      BY <3>2
    <3> QED BY <3>1, <3>2, <3>3
  <2>6. faults' \in 0..MaxFaults
    BY <1>7, FaultTyped DEF AppendBatch, TypeInv
  <2> QED BY <1>7, <2>4, <2>5, <2>6 DEF AppendBatch, TypeInv
<1>8. ASSUME UpsertItem(w) PROVE TypeInv'
  <2> DEFINE T == {e \in Events : e.type \in DOMAIN ItemStatus}
             e == Head(v.todo)
             r == [v EXCEPT !.todo = Tail(@)]
  <2>1. v.pc = "items" /\ v.todo # <<>> /\ SetWrk(w, r) /\ v.todo \in Seq(T)
        /\ itemRow' = [itemRow EXCEPT ![e.item] = ItemStatus[e.type]]
    BY <1>1, <1>8 DEF UpsertItem, LiveWorkers
  <2>2. e \in T /\ Tail(v.todo) \in Seq(T)
    <3> HIDE DEF T
    <3> QED BY <2>1, HeadTailProperties
  <2>3. ItemStatus[e.type] \in ItemStatuses
    <3>1. e.type \in DOMAIN ItemStatus /\ e.type \in EventTypes
      BY <2>2 DEF Events
    <3> HIDE DEF e
    <3> QED BY <3>1, ItemStatusIs DEF ItemStatuses, EventTypes
  <2>4. r \in LiveWorkers
    BY <1>1, <2>1, <2>2, WorkerMoves
  <2> HIDE DEF r, e
  <2>5. itemRow' \in [Items -> ItemStatuses]
    BY <2>1, <2>3 DEF TypeInv
  <2> QED BY <1>2, <1>8, <2>1, <2>4, <2>5 DEF UpsertItem, TypeInv
<1>9. ASSUME UpsertRun(w) PROVE TypeInv'
  <2>1. v.status \in RunStatuses /\ v.effort \in Nat
    BY <1>1, <1>9 DEF UpsertRun, LiveWorkers, WorkerStates, RunStatuses
  <2>2. runRow' \in [status : RunStatuses, effort : Nat]
    BY <1>9, <2>1 DEF UpsertRun
  <2>3. wrk' \in [Workers -> LiveWorkers]
    BY <1>2, <1>9, IdleIsTyped DEF UpsertRun
  <2> QED BY <1>9, <2>2, <2>3 DEF UpsertRun, TypeInv
<1>10. ASSUME AppendFails(w) PROVE TypeInv'
  BY <1>10, NextAttemptTyped, FaultTyped DEF AppendFails, TypeInv
<1>11. ASSUME WorkerDies(w) PROVE TypeInv'
  <2>1. wrk' \in [Workers -> LiveWorkers]
    BY <1>2, <1>11, IdleIsTyped DEF WorkerDies
  <2>2. inflight' \in Seq(Events)
    BY <1>1, <1>11 DEF WorkerDies, TypeInv
  <2>3. faults' \in 0..MaxFaults
    BY <1>11, FaultTyped DEF WorkerDies
  <2> QED BY <1>11, <2>1, <2>2, <2>3 DEF WorkerDies, TypeInv
<1> QED BY <1>3, <1>4, <1>5, <1>6, <1>7, <1>8, <1>9, <1>10, <1>11 DEF WorkerStep

(* No step of a rebuild leaves the types.                                   *)
LEMMA TypeRebuild ==
    ASSUME TypeInv, EventsOnce, RebuildLoad \/ RebuildStep \/ RebuildFails
    PROVE  TypeInv'
<1>1. rebuild \in LiveRebuilds /\ rebuild \in RebuildStates /\ log \in Seq(Events)
  BY DEF TypeInv, LiveRebuilds
<1>2. ASSUME RebuildLoad PROVE TypeInv'
  <2> DEFINE seen == RebuildFold(ByTime)
             status == seen.status
             items == seen.items
             effort == seen.effort
             todo == {i \in Items : items[i] # "absent"}
             r == [pc |-> "clear_items", status |-> status, items |-> items,
                   effort |-> effort, todo |-> todo]
  <2>1. rebuild' = r
    BY <1>2 DEF RebuildLoad, SetRebuild
  <2>2. ByTime \in Seq(Events)
    BY <1>1, ByTimeIs
  <2>3. /\ status = StatusOf(RebuildStatus, "absent", ByTime)
        /\ items = ItemsOf(DOMAIN ItemStatus, ByTime) /\ effort = EffortOf(0, ByTime)
    BY DEF RebuildFold
  <2>4. todo \in SUBSET Items
    OBVIOUS
  <2> HIDE DEF status, items, effort, todo
  <2>5. status \in RunStatuses /\ items \in [Items -> ItemStatuses] /\ effort \in Nat
    BY <2>2, <2>3, FoldsTyped
  <2>6. r \in LiveRebuilds
    BY <2>4, <2>5 DEF LiveRebuilds, RebuildStates
  <2> HIDE DEF r
  <2>7. rebuilds' \in 0..MaxRebuilds
    <3>1. rebuilds < MaxRebuilds /\ rebuilds' = rebuilds + 1 /\ rebuilds \in 0..MaxRebuilds
      BY <1>2 DEF RebuildLoad, TypeInv
    <3> QED BY <3>1, NumbersAssumption
  <2> QED BY <1>2, <2>1, <2>6, <2>7 DEF RebuildLoad, TypeInv
<1>3. ASSUME ClearItems PROVE TypeInv'
  <2>1. rebuild' \in LiveRebuilds
    BY <1>1, <1>3 DEF ClearItems, SetRebuild, LiveRebuilds, RebuildStates
  <2> QED BY <1>3, <2>1, IdleIsTyped DEF ClearItems, TypeInv
<1>4. ASSUME ClearRuns PROVE TypeInv'
  <2>1. rebuild' \in LiveRebuilds
    BY <1>1, <1>4 DEF ClearRuns, SetRebuild, LiveRebuilds, RebuildStates
  <2> QED BY <1>4, <2>1, IdleIsTyped DEF ClearRuns, TypeInv
<1>5. ASSUME RebuildRun PROVE TypeInv'
  <2>1. rebuild' \in LiveRebuilds
    BY <1>1, <1>5 DEF RebuildRun, SetRebuild, LiveRebuilds, RebuildStates
  <2>2. rebuild.status \in RunStatuses /\ rebuild.effort \in Nat
    BY <1>1, <1>5 DEF RebuildRun, LiveRebuilds, RebuildStates
  <2>3. runRow' \in [status : RunStatuses, effort : Nat]
    BY <1>5, <2>2 DEF RebuildRun, TypeInv
  <2> QED BY <1>5, <2>1, <2>3 DEF RebuildRun, TypeInv
<1>6. ASSUME NEW i \in Items, RebuildItem(i) PROVE TypeInv'
  <2>1. rebuild' \in LiveRebuilds
    BY <1>1, <1>6 DEF RebuildItem, SetRebuild, LiveRebuilds, RebuildStates
  <2>2. rebuild.items[i] \in ItemStatuses
    BY <1>1 DEF RebuildStates
  <2>3. itemRow' \in [Items -> ItemStatuses]
    BY <1>6, <2>2 DEF RebuildItem, TypeInv
  <2> QED BY <1>6, <2>1, <2>3 DEF RebuildItem, TypeInv
<1>7. ASSUME RebuildEnds PROVE TypeInv'
  BY <1>7, IdleIsTyped DEF RebuildEnds, SetRebuild, TypeInv
<1>8. ASSUME RebuildFails PROVE TypeInv'
  BY <1>8, IdleIsTyped, FaultTyped DEF RebuildFails, SetRebuild, TypeInv
<1> QED BY <1>2, <1>3, <1>4, <1>5, <1>6, <1>7, <1>8 DEF RebuildStep

(* Nor does create_run or the end of a transaction.                         *)
LEMMA TypeCreate ==
    ASSUME TypeInv, StartRun \/ UpsertCreated \/ CreateRunDies \/ EndInflight
    PROVE  TypeInv'
<1>1. ASSUME StartRun PROVE TypeInv'
  <2> DEFINE first == RunEvent("RunStarted", "api", clock)
             rest  == AssignAll(Items, "api", clock + 1)
  <2>1. clock \in Nat /\ clock + 1 \in Nat /\ "api" \in Workers \cup {"api"}
        /\ Items \in SUBSET Items
    BY DEF TypeInv
  <2>2. first \in Events
    BY <2>1, RunEventsMade
  <2>3. rest \in Seq(Events) /\ Cardinality(Items) \in Nat
    BY <2>1, AssignAllIs DEF Assigns
  <2>4. log' = <<first>> \o rest /\ clock' = clock + 1 + Cardinality(Items)
    BY <1>1 DEF StartRun
  <2> HIDE DEF first, rest
  <2>5. log' \in Seq(Events) /\ clock' \in Nat
    BY <2>1, <2>2, <2>3, <2>4
  <2>6. faults' \in 0..MaxFaults
    BY <1>1, FaultTyped DEF StartRun, TypeInv
  <2> QED BY <1>1, <2>5, <2>6 DEF StartRun, TypeInv
<1>2. ASSUME UpsertCreated PROVE TypeInv'
  BY <1>2 DEF UpsertCreated, TypeInv, RunStatuses
<1>3. ASSUME CreateRunDies PROVE TypeInv'
  BY <1>3, FaultTyped DEF CreateRunDies, TypeInv
<1>4. ASSUME EndInflight PROVE TypeInv'
  <2>1. log' = log \/ log' = log \o inflight
    BY <1>4 DEF EndInflight
  <2>2. log \in Seq(Events) /\ inflight \in Seq(Events)
    BY DEF TypeInv
  <2>3. log \o inflight \in Seq(Events)
    BY <2>2
  <2>4. log' \in Seq(Events) /\ inflight' \in Seq(Events)
    <3>1. inflight' = <<>> /\ <<>> \in Seq(Events)
      BY <1>4 DEF EndInflight
    <3>2. log' \in Seq(Events)
      BY <2>1, <2>2, <2>3
    <3> QED BY <3>1, <3>2
  <2> QED BY <1>4, <2>4 DEF EndInflight, TypeInv
<1> QED BY <1>1, <1>2, <1>3, <1>4

(* No step leaves the types, as long as no event is in the log twice: the   *)
(* order of load_all needs that.                                            *)
LEMMA TypeStep == TypeInv /\ EventsOnce /\ [Next]_vars => TypeInv'
<1> SUFFICES ASSUME TypeInv, EventsOnce, [Next]_vars PROVE TypeInv'
  OBVIOUS
<1>1. CASE UNCHANGED vars
  BY <1>1 DEF vars, TypeInv
<1>2. CASE Next
  BY <1>2, TypeControl, TypeWorker, TypeRebuild, TypeCreate DEF Next
<1> QED BY <1>1, <1>2

-----------------------------------------------------------------------------
(* The stamps of a batch.                                                   *)
Ats(s)      == {s[k].at : k \in 1..Len(s)}
Apart(s, t) == Ats(s) \cap Ats(t) = {}
Before(s, t) == \A x \in Ats(s) : x < t
Rising(s)   == \A j, k \in 1..Len(s) : j < k => s[j].at < s[k].at
Once(s)     == \A j, k \in 1..Len(s) : s[j].at = s[k].at => j = k
(* The first of the batch is stored.                                        *)
Stored(s, L) == s # <<>> /\ s[1].at \in Ats(L)

(* Stamps are numbers, and no events have none.                            *)
LEMMA AtsTyped ==
    ASSUME NEW s \in Seq(Events)
    PROVE  /\ Ats(s) \in SUBSET Nat /\ Ats(<<>>) = {} /\ Rising(<<>>) /\ Once(<<>>)
           /\ s # <<>> => Len(s) >= 1 /\ s[1].at \in Ats(s)
<1>1. \A k \in 1..Len(s) : s[k] \in Events
  OBVIOUS
<1>2. \A e \in Events : e.at \in Nat
  BY DEF Events
<1>3. Ats(s) \in SUBSET Nat
  BY <1>1, <1>2 DEF Ats
<1>4. Ats(<<>>) = {} /\ Rising(<<>>) /\ Once(<<>>)
  BY DEF Ats, Rising, Once
<1>5. s # <<>> => Len(s) >= 1
  OBVIOUS
<1>6. s # <<>> => s[1].at \in Ats(s)
  BY <1>5 DEF Ats
<1> QED BY <1>3, <1>4, <1>5, <1>6

(* A batch that is put behind another.                                      *)
LEMMA JoinIs ==
    ASSUME NEW s \in Seq(Events), NEW b \in Seq(Events)
    PROVE  /\ s \o b \in Seq(Events) /\ Len(s \o b) = Len(s) + Len(b)
           /\ \A k \in 1..Len(s) : k \in 1..Len(s \o b) /\ (s \o b)[k] = s[k]
           /\ \A k \in 1..Len(b) :
                Len(s) + k \in 1..Len(s \o b) /\ (s \o b)[Len(s) + k] = b[k]
           /\ \A k \in 1..Len(s \o b) :
                \/ k \in 1..Len(s) /\ (s \o b)[k] = s[k]
                \/ k - Len(s) \in 1..Len(b) /\ (s \o b)[k] = b[k - Len(s)]
<1>1. /\ s \o b \in Seq(Events) /\ Len(s \o b) = Len(s) + Len(b)
      /\ \A k \in 1..(Len(s) + Len(b)) :
           (s \o b)[k] = IF k <= Len(s) THEN s[k] ELSE b[k - Len(s)]
  BY ConcatProperties
<1>2. Len(s) \in Nat /\ Len(b) \in Nat
  OBVIOUS
<1> QED BY <1>1, <1>2

(* Two sequences, one behind the other, have the stamps of both;           *)
LEMMA JoinAts ==
    ASSUME NEW s \in Seq(Events), NEW b \in Seq(Events)
    PROVE  Ats(s \o b) = Ats(s) \cup Ats(b)
<1> DEFINE t == s \o b
<1>1. /\ \A k \in 1..Len(s) : k \in 1..Len(t) /\ t[k] = s[k]
      /\ \A k \in 1..Len(b) : Len(s) + k \in 1..Len(t) /\ t[Len(s) + k] = b[k]
      /\ \A k \in 1..Len(t) : \/ k \in 1..Len(s) /\ t[k] = s[k]
                              \/ k - Len(s) \in 1..Len(b) /\ t[k] = b[k - Len(s)]
  BY JoinIs
<1> HIDE DEF t
<1>2. ASSUME NEW x \in Ats(t) PROVE x \in Ats(s) \cup Ats(b)
  BY <1>1, <1>2 DEF Ats
<1>3. ASSUME NEW x \in Ats(s) PROVE x \in Ats(t)
  BY <1>1, <1>3 DEF Ats
<1>4. ASSUME NEW x \in Ats(b) PROVE x \in Ats(t)
  BY <1>1, <1>4 DEF Ats
<1>5. Ats(t) = Ats(s) \cup Ats(b)
  BY <1>2, <1>3, <1>4
<1> QED BY <1>5 DEF t

(* they rise when the second begins after the first,                       *)
LEMMA JoinRising ==
    ASSUME NEW s \in Seq(Events), NEW b \in Seq(Events), NEW t \in Nat,
           Rising(s), Rising(b), Before(s, t), \A x \in Ats(b) : t <= x
    PROVE  Rising(s \o b)
<1>1. /\ Len(s) \in Nat /\ Len(b) \in Nat /\ Ats(s) \in SUBSET Nat /\ Ats(b) \in SUBSET Nat
      /\ Len(s \o b) = Len(s) + Len(b)
  BY JoinIs, AtsTyped
<1>2. SUFFICES ASSUME NEW j \in 1..Len(s \o b), NEW k \in 1..Len(s \o b), j < k
               PROVE  (s \o b)[j].at < (s \o b)[k].at
  BY DEF Rising
<1>3. CASE k \in 1..Len(s) /\ (s \o b)[k] = s[k]
  <2>1. j \in 1..Len(s)
    BY <1>1, <1>2, <1>3
  <2>2. (s \o b)[j] = s[j]
    BY <2>1, JoinIs
  <2> QED BY <1>2, <1>3, <2>1, <2>2 DEF Rising
<1>4. CASE k - Len(s) \in 1..Len(b) /\ (s \o b)[k] = b[k - Len(s)]
  <2>1. CASE j \in 1..Len(s) /\ (s \o b)[j] = s[j]
    <3>1. s[j].at \in Ats(s) /\ b[k - Len(s)].at \in Ats(b)
      BY <1>4, <2>1 DEF Ats
    <3>2. s[j].at < t /\ t <= b[k - Len(s)].at
      BY <3>1 DEF Before
    <3>3. s[j].at \in Nat /\ b[k - Len(s)].at \in Nat
      BY <1>1, <3>1
    <3>4. s[j].at < b[k - Len(s)].at
      BY <3>2, <3>3
    <3> QED BY <1>4, <2>1, <3>4
  <2>2. CASE j - Len(s) \in 1..Len(b) /\ (s \o b)[j] = b[j - Len(s)]
    <3>1. j - Len(s) < k - Len(s)
      BY <1>1, <1>2
    <3> QED BY <1>4, <2>2, <3>1 DEF Rising
  <2> QED BY <2>1, <2>2, JoinIs
<1> QED BY <1>3, <1>4, JoinIs

(* and repeat no stamp when they share none.                               *)
LEMMA JoinOnce ==
    ASSUME NEW s \in Seq(Events), NEW b \in Seq(Events), Once(s), Rising(b), Apart(s, b)
    PROVE  Once(s \o b)
<1>1. /\ Len(s) \in Nat /\ Len(b) \in Nat /\ Ats(b) \in SUBSET Nat
      /\ Len(s \o b) = Len(s) + Len(b)
  BY JoinIs, AtsTyped
<1>2. SUFFICES ASSUME NEW j \in 1..Len(s \o b), NEW k \in 1..Len(s \o b),
                      (s \o b)[j].at = (s \o b)[k].at
               PROVE  j = k
  BY DEF Once
<1>3. ASSUME NEW p \in 1..Len(s), NEW q \in 1..Len(b) PROVE s[p].at # b[q].at
  BY DEF Apart, Ats
<1>4. ASSUME NEW p \in 1..Len(b), NEW q \in 1..Len(b), p # q PROVE b[p].at # b[q].at
  <2>1. b[p].at \in Nat /\ b[q].at \in Nat
    BY <1>1 DEF Ats
  <2>2. b[p].at < b[q].at \/ b[q].at < b[p].at
    BY <1>4 DEF Rising
  <2> QED BY <2>1, <2>2
<1>5. CASE j \in 1..Len(s) /\ (s \o b)[j] = s[j]
  <2>1. CASE k \in 1..Len(s) /\ (s \o b)[k] = s[k]
    BY <1>2, <1>5, <2>1 DEF Once
  <2>2. CASE k - Len(s) \in 1..Len(b) /\ (s \o b)[k] = b[k - Len(s)]
    BY <1>2, <1>3, <1>5, <2>2
  <2> QED BY <2>1, <2>2, JoinIs
<1>6. CASE j - Len(s) \in 1..Len(b) /\ (s \o b)[j] = b[j - Len(s)]
  <2>1. CASE k \in 1..Len(s) /\ (s \o b)[k] = s[k]
    BY <1>2, <1>3, <1>6, <2>1
  <2>2. CASE k - Len(s) \in 1..Len(b) /\ (s \o b)[k] = b[k - Len(s)]
    <3>1. j - Len(s) = k - Len(s)
      BY <1>2, <1>4, <1>6, <2>2
    <3> QED BY <1>1, <3>1
  <2> QED BY <2>1, <2>2, JoinIs
<1> QED BY <1>5, <1>6, JoinIs

-----------------------------------------------------------------------------
(* L is the log, F the batch in flight, t the clock, C and W the batches in *)
(* the memory of the handlers and of the workers, N the workers that still  *)
(* add to theirs.  No event is in two of them, except that a worker keeps   *)
(* the batch that it sent: then all of it is in flight, or its first event  *)
(* is in the log - which append looks for.                                  *)
BatchesTyped(L, F, t, C, W) ==
    /\ L \in Seq(Events) /\ F \in Seq(Events) /\ t \in Nat
    /\ C \in [Handlers -> Seq(Events)] /\ W \in [Workers -> Seq(Events)]

Stamped(L, F, t, C, W, N) ==
    /\ Before(L, t) /\ Once(L)
    /\ Before(F, t) /\ Rising(F) /\ Apart(F, L)
    /\ \A h \in Handlers :
         /\ Before(C[h], t) /\ Rising(C[h])
         /\ Apart(C[h], L) /\ Apart(C[h], F)
         /\ \A g \in Handlers \ {h} : Apart(C[h], C[g])
         /\ \A w \in Workers : Apart(C[h], W[w])
    /\ \A w \in Workers :
         /\ Before(W[w], t) /\ Rising(W[w])
         /\ \A v \in Workers \ {w} : Apart(W[w], W[v])
         /\ Apart(W[w], L) \/ (Stored(W[w], L) /\ w \notin N)
         /\ Apart(W[w], F) \/ (W[w] = F /\ w \notin N)

(* Batches are dropped.                                                     *)
LEMMA StampDrop ==
    ASSUME NEW L, NEW F, NEW t, NEW C, NEW W, NEW N,
           BatchesTyped(L, F, t, C, W), Stamped(L, F, t, C, W, N),
           NEW C2, \A h \in Handlers : C2[h] \in {C[h], <<>>},
           NEW W2, \A w \in Workers : W2[w] \in {W[w], <<>>},
           NEW N2, \A w \in N2 : w \in N \/ W2[w] = <<>>
    PROVE  Stamped(L, F, t, C2, W2, N2)
<1>1. Ats(<<>>) = {} /\ Rising(<<>>)
  BY AtsTyped DEF BatchesTyped
<1>2. ASSUME NEW h \in Handlers
      PROVE  /\ Ats(C2[h]) \subseteq Ats(C[h]) /\ Rising(C2[h])
  BY <1>1 DEF Stamped
<1>3. ASSUME NEW w \in Workers
      PROVE  Ats(W2[w]) \subseteq Ats(W[w]) /\ Rising(W2[w])
  BY <1>1 DEF Stamped
<1>4. Before(L, t) /\ Once(L) /\ Before(F, t) /\ Rising(F) /\ Apart(F, L)
  BY DEF Stamped
<1>5. ASSUME NEW h \in Handlers
      PROVE  /\ Before(C2[h], t) /\ Rising(C2[h])
             /\ Apart(C2[h], L) /\ Apart(C2[h], F)
             /\ \A g \in Handlers \ {h} : Apart(C2[h], C2[g])
             /\ \A w \in Workers : Apart(C2[h], W2[w])
  BY <1>2, <1>3 DEF Stamped, Before, Apart
<1>6. ASSUME NEW w \in Workers
      PROVE  /\ Before(W2[w], t) /\ Rising(W2[w])
             /\ \A v \in Workers \ {w} : Apart(W2[w], W2[v])
             /\ Apart(W2[w], L) \/ (Stored(W2[w], L) /\ w \notin N2)
             /\ Apart(W2[w], F) \/ (W2[w] = F /\ w \notin N2)
  <2>1. Before(W2[w], t) /\ Rising(W2[w]) /\ \A v \in Workers \ {w} : Apart(W2[w], W2[v])
    BY <1>3 DEF Stamped, Before, Apart
  <2>2. CASE W2[w] = <<>>
    BY <1>1, <2>1, <2>2 DEF Apart
  <2>3. CASE W2[w] # <<>>
    <3>1. W2[w] = W[w] /\ (w \in N2 => w \in N)
      BY <2>3
    <3> QED BY <2>1, <3>1 DEF Stamped
  <2> QED BY <2>2, <2>3
<1> QED BY <1>4, <1>5, <1>6 DEF Stamped

(* Events are made: s is what a process holds, b what it adds.              *)
Fresh(b, t, t2) == Rising(b) /\ \A x \in Ats(b) : t <= x /\ x < t2

(* What is stamped now is later than, and apart from, all that was made before. *)
LEMMA FreshIs ==
    ASSUME NEW s \in Seq(Events), NEW b \in Seq(Events), NEW t \in Nat, NEW t2 \in Nat, t <= t2,
           Before(s, t), Rising(s), Fresh(b, t, t2)
    PROVE  /\ Before(s \o b, t2) /\ Rising(s \o b) /\ Ats(s \o b) = Ats(s) \cup Ats(b)
           /\ \A r \in Seq(Events) :
                Before(r, t) => /\ Before(r, t2) /\ Apart(b, r) /\ Apart(r, b)
                                /\ Apart(s, r) => Apart(s \o b, r)
                                /\ Apart(r, s) => Apart(r, s \o b)
<1>1. Ats(s \o b) = Ats(s) \cup Ats(b) /\ Ats(s) \in SUBSET Nat /\ Ats(b) \in SUBSET Nat
  BY JoinAts, AtsTyped
<1>2. Rising(s \o b)
  BY JoinRising DEF Fresh
<1>3. Before(s \o b, t2)
  BY <1>1 DEF Before, Fresh
<1>4. ASSUME NEW r \in Seq(Events), Before(r, t)
      PROVE  Before(r, t2) /\ Apart(b, r) /\ Apart(r, b)
  <2>1. Ats(r) \in SUBSET Nat
    BY AtsTyped
  <2>2. ASSUME NEW x \in Ats(r) PROVE x < t /\ x < t2 /\ x \notin Ats(b)
    BY <1>1, <1>4, <2>1 DEF Before, Fresh
  <2> QED BY <2>2 DEF Before, Apart
<1> QED BY <1>1, <1>2, <1>3, <1>4 DEF Apart

(* A batch that is stamped in a row.                                        *)
LEMMA RunsOn ==
    ASSUME NEW b \in Seq(Events), NEW t \in Nat, NEW t2 \in Nat, t + Len(b) <= t2,
           \A k \in 1..Len(b) : b[k].at = t + k - 1
    PROVE  Fresh(b, t, t2)
<1>1. Len(b) \in Nat
  OBVIOUS
<1>2. ASSUME NEW j \in 1..Len(b), NEW k \in 1..Len(b), j < k PROVE b[j].at < b[k].at
  BY <1>1, <1>2
<1>3. ASSUME NEW k \in 1..Len(b) PROVE t <= b[k].at /\ b[k].at < t2
  BY <1>1
<1> QED BY <1>2, <1>3 DEF Fresh, Rising, Ats

(* What the API writes: an event about the run, then assignments.           *)
Leads(b, first, rest, t, t2) ==
    /\ b \in Seq(Events) /\ Len(b) = 1 + Len(rest)
    /\ b[1] = first /\ \A k \in 2..Len(b) : k - 1 \in 1..Len(rest) /\ b[k] = rest[k - 1]
    /\ \A k \in 1..Len(rest) : k + 1 \in 2..Len(b) /\ b[k + 1] = rest[k]
    /\ Fresh(b, t, t2)

(* One event followed by assignments, as start_run and the controls make it. *)
LEMMA LedIs ==
    ASSUME NEW first \in Events, NEW items, NEW by, NEW t \in Nat, first.at = t,
           NEW rest, Assigns(rest, items, by, t + 1)
    PROVE  /\ Leads(<<first>> \o rest, first, rest, t, t + 1 + Cardinality(items))
           /\ t + 1 + Cardinality(items) \in Nat /\ t <= t + 1 + Cardinality(items)
<1> DEFINE b == <<first>> \o rest
           n == Cardinality(items)
<1>1. /\ rest \in Seq(Events) /\ n \in Nat /\ Len(rest) = n
      /\ \A k \in 1..n : rest[k].at = t + 1 + k - 1
  BY DEF Assigns
<1> HIDE DEF n
<1>2. <<first>> \in Seq(Events) /\ b \in Seq(Events) /\ Len(b) = 1 + n
      /\ b[1] = first /\ \A k \in 2..(1 + n) : b[k] = rest[k - 1]
  BY <1>1
<1> HIDE DEF b
<1>3. \A k \in 1..Len(b) : b[k].at = t + k - 1
  <2>1. ASSUME NEW k \in 1..Len(b) PROVE b[k].at = t + k - 1
    <3>1. CASE k = 1
      BY <1>2, <3>1
    <3>2. CASE k \in 2..(1 + n)
      <4>1. b[k] = rest[k - 1] /\ k - 1 \in 1..n
        BY <1>1, <1>2, <3>2
      <4>2. rest[k - 1].at = t + 1 + (k - 1) - 1
        BY <1>1, <4>1
      <4> QED BY <3>2, <4>1, <4>2
    <3> QED BY <1>1, <1>2, <3>1, <3>2
  <2> QED BY <2>1
<1>4. t + 1 + n \in Nat /\ t + Len(b) <= t + 1 + n /\ t <= t + 1 + n
  BY <1>1, <1>2
<1>5. Fresh(b, t, t + 1 + n)
  BY <1>2, <1>3, <1>4, RunsOn
<1>6. Leads(b, first, rest, t, t + 1 + n)
  <2>1. \A k \in 2..Len(b) : k - 1 \in 1..Len(rest) /\ b[k] = rest[k - 1]
    BY <1>1, <1>2
  <2>2. \A k \in 1..Len(rest) : k + 1 \in 2..Len(b) /\ b[k + 1] = rest[k]
    BY <1>1, <1>2
  <2> QED BY <1>1, <1>2, <1>5, <2>1, <2>2 DEF Leads
<1> QED BY <1>4, <1>6 DEF b, n

(* Such a batch is fresh.                                                  *)
LEMMA LedBatch ==
    ASSUME NEW first \in Events, NEW items, NEW by, NEW t \in Nat, first.at = t,
           NEW rest, Assigns(rest, items, by, t + 1)
    PROVE  LET b == <<first>> \o rest IN
           /\ b \in Seq(Events)
           /\ t + 1 + Cardinality(items) \in Nat /\ t <= t + 1 + Cardinality(items)
           /\ Fresh(b, t, t + 1 + Cardinality(items))
  BY LedIs DEF Leads

(* A handler that makes a batch keeps the stamps in order;                 *)
LEMMA StampControl ==
    ASSUME NEW L, NEW F, NEW t, NEW C, NEW W, NEW N,
           BatchesTyped(L, F, t, C, W), Stamped(L, F, t, C, W, N),
           NEW h \in Handlers, C[h] = <<>>,
           NEW b \in Seq(Events), NEW t2 \in Nat, t <= t2, Fresh(b, t, t2),
           NEW C2, C2 = [C EXCEPT ![h] = b]
    PROVE  Stamped(L, F, t2, C2, W, N)
<1>1. /\ L \in Seq(Events) /\ F \in Seq(Events) /\ t \in Nat /\ \A g \in Handlers : C[g] \in Seq(Events)
      /\ \A w \in Workers : W[w] \in Seq(Events)
      /\ C2[h] = b /\ \A g \in Handlers \ {h} : C2[g] = C[g]
  BY DEF BatchesTyped
<1>2. Ats(<<>>) = {} /\ Rising(<<>>) /\ Ats(b) \in SUBSET Nat
  BY AtsTyped
<1>3. Before(b, t2) /\ Rising(b)
  BY DEF Fresh, Before
<1>4. ASSUME NEW r \in Seq(Events), Before(r, t) PROVE Before(r, t2) /\ Apart(b, r) /\ Apart(r, b)
  <2>1. Before(<<>>, t) /\ Rising(<<>>) /\ <<>> \in Seq(Events)
    BY <1>2 DEF Before
  <2> QED BY <1>1, <1>4, <2>1, FreshIs
<1>5. /\ Before(L, t) /\ Once(L) /\ Before(F, t) /\ Rising(F) /\ Apart(F, L)
      /\ \A g \in Handlers : Before(C[g], t)
      /\ \A w \in Workers : Before(W[w], t)
  BY DEF Stamped
<1>6. /\ Before(L, t2) /\ Before(F, t2) /\ Apart(b, L) /\ Apart(b, F)
      /\ \A g \in Handlers : Before(C[g], t2) /\ Apart(b, C[g]) /\ Apart(C[g], b)
      /\ \A w \in Workers : Before(W[w], t2) /\ Apart(b, W[w])
  BY <1>1, <1>4, <1>5
<1>7. ASSUME NEW g \in Handlers
      PROVE  /\ Before(C2[g], t2) /\ Rising(C2[g])
             /\ Apart(C2[g], L) /\ Apart(C2[g], F)
             /\ \A f \in Handlers \ {g} : Apart(C2[g], C2[f])
             /\ \A w \in Workers : Apart(C2[g], W[w])
  <2>1. CASE g = h
    BY <1>1, <1>3, <1>6, <2>1
  <2>2. CASE g # h
    <3>1. C2[g] = C[g] /\ Before(C[g], t2) /\ Rising(C[g]) /\ Apart(C[g], L) /\ Apart(C[g], F)
          /\ \A w \in Workers : Apart(C[g], W[w])
      BY <1>1, <1>6, <2>2 DEF Stamped
    <3>2. ASSUME NEW f \in Handlers \ {g} PROVE Apart(C[g], C2[f])
      BY <1>1, <1>6, <2>2 DEF Stamped
    <3> QED BY <3>1, <3>2
  <2> QED BY <2>1, <2>2
<1> QED BY <1>5, <1>6, <1>7 DEF Stamped

(* so does a worker that adds to its own.                                  *)
LEMMA StampWork ==
    ASSUME NEW L, NEW F, NEW t, NEW C, NEW W, NEW N, NEW N2,
           BatchesTyped(L, F, t, C, W), Stamped(L, F, t, C, W, N),
           NEW w \in Workers, w \in N, N2 \subseteq N,
           NEW b \in Seq(Events), NEW t2 \in Nat, t <= t2, Fresh(b, t, t2),
           NEW W2, W2 = [W EXCEPT ![w] = W[w] \o b]
    PROVE  Stamped(L, F, t2, C, W2, N2)
<1> DEFINE s == W[w] \o b
<1>1. /\ L \in Seq(Events) /\ F \in Seq(Events) /\ t \in Nat /\ \A g \in Handlers : C[g] \in Seq(Events)
      /\ \A v \in Workers : W[v] \in Seq(Events)
      /\ W2[w] = s /\ \A v \in Workers \ {w} : W2[v] = W[v]
  BY DEF BatchesTyped
<1>2. /\ Before(L, t) /\ Once(L) /\ Before(F, t) /\ Rising(F) /\ Apart(F, L)
      /\ \A g \in Handlers : Before(C[g], t)
      /\ \A v \in Workers : Before(W[v], t) /\ Rising(W[v])
  BY DEF Stamped
<1>3. /\ Before(s, t2) /\ Rising(s)
      /\ \A r \in Seq(Events) :
                Before(r, t) => /\ Before(r, t2)
                                /\ Apart(W[w], r) => Apart(s, r)
                                /\ Apart(r, W[w]) => Apart(r, s)
  BY <1>1, <1>2, FreshIs
<1> HIDE DEF s
<1>4. Apart(W[w], L) /\ Apart(W[w], F)
  BY DEF Stamped
<1>5. /\ Before(L, t2) /\ Before(F, t2)
      /\ \A g \in Handlers : Before(C[g], t2)
      /\ \A v \in Workers : Before(W[v], t2)
  BY <1>1, <1>2, <1>3
<1>6. ASSUME NEW g \in Handlers
      PROVE  /\ Before(C[g], t2) /\ Rising(C[g])
             /\ Apart(C[g], L) /\ Apart(C[g], F)
             /\ \A f \in Handlers \ {g} : Apart(C[g], C[f])
             /\ \A v \in Workers : Apart(C[g], W2[v])
  <2>1. \A v \in Workers : Apart(C[g], W[v])
    BY DEF Stamped
  <2>2. \A v \in Workers : Apart(C[g], W2[v])
    BY <1>1, <1>2, <1>3, <2>1
  <2> QED BY <1>5, <2>2 DEF Stamped
<1>7. ASSUME NEW v \in Workers
      PROVE  /\ Before(W2[v], t2) /\ Rising(W2[v])
             /\ \A u \in Workers \ {v} : Apart(W2[v], W2[u])
             /\ Apart(W2[v], L) \/ (Stored(W2[v], L) /\ v \notin N2)
             /\ Apart(W2[v], F) \/ (W2[v] = F /\ v \notin N2)
  <2>1. CASE v = w
    <3>1. \A u \in Workers \ {w} : Apart(s, W[u])
      BY <1>1, <1>2, <1>3 DEF Stamped
    <3>2. Apart(s, L) /\ Apart(s, F)
      BY <1>1, <1>2, <1>3, <1>4
    <3> QED BY <1>1, <1>3, <2>1, <3>1, <3>2
  <2>2. CASE v # w
    <3>1. /\ W2[v] = W[v] /\ Rising(W[v]) /\ Before(W[v], t2)
          /\ Apart(W[v], L) \/ (Stored(W[v], L) /\ v \notin N)
          /\ Apart(W[v], F) \/ (W[v] = F /\ v \notin N)
      BY <1>1, <1>5, <2>2 DEF Stamped
    <3>2. Apart(W[v], s)
      BY <1>1, <1>2, <1>3, <2>2 DEF Stamped
    <3>3. ASSUME NEW u \in Workers \ {v} PROVE Apart(W[v], W2[u])
      BY <1>1, <3>2 DEF Stamped
    <3> QED BY <3>1, <3>3
  <2> QED BY <2>1, <2>2
<1> QED BY <1>2, <1>5, <1>6, <1>7 DEF Stamped

(* A batch b that is not in the log is stored and leaves the memory of the  *)
(* process that held it.                                                    *)
LEMMA StampStore ==
    ASSUME NEW L, NEW F, NEW t, NEW C, NEW W, NEW N,
           BatchesTyped(L, F, t, C, W), Stamped(L, F, t, C, W, N), F = <<>>,
           NEW b \in Seq(Events), Rising(b), Before(b, t), Apart(b, L),
           NEW C2, \A h \in Handlers : C2[h] = <<>> \/ (C2[h] = C[h] /\ Apart(C[h], b)),
           NEW W2, \A w \in Workers : W2[w] = <<>> \/ (W2[w] = W[w] /\ Apart(W[w], b)),
           NEW N2, N2 \subseteq N
    PROVE  Stamped(L \o b, F, t, C2, W2, N2)
<1> DEFINE M == L \o b
<1>1. /\ L \in Seq(Events) /\ F \in Seq(Events) /\ t \in Nat /\ Ats(<<>>) = {} /\ Rising(<<>>)
      /\ \A h \in Handlers : C[h] \in Seq(Events)
      /\ \A w \in Workers : W[w] \in Seq(Events)
  BY AtsTyped DEF BatchesTyped
<1>2. Ats(M) = Ats(L) \cup Ats(b)
  BY <1>1, JoinAts
<1>3. Once(M)
  BY <1>1, JoinOnce DEF Stamped, Apart
<1> HIDE DEF M
<1>4. Before(M, t)
  BY <1>2 DEF Stamped, Before
<1>5. Before(F, t) /\ Rising(F) /\ Apart(F, M)
  BY <1>1 DEF Before, Apart
<1>6. ASSUME NEW h \in Handlers
      PROVE  /\ Before(C2[h], t) /\ Rising(C2[h])
             /\ Apart(C2[h], M) /\ Apart(C2[h], F)
             /\ \A g \in Handlers \ {h} : Apart(C2[h], C2[g])
             /\ \A w \in Workers : Apart(C2[h], W2[w])
  <2>1. Before(C[h], t) /\ Rising(C[h]) /\ Apart(C[h], L)
    BY DEF Stamped
  <2>2. Before(C2[h], t) /\ Rising(C2[h]) /\ Apart(C2[h], F)
    BY <1>1, <2>1 DEF Before, Apart
  <2>3. Apart(C2[h], M)
    BY <1>1, <1>2, <2>1 DEF Apart
  <2>4. \A g \in Handlers \ {h} : Apart(C2[h], C2[g])
    BY <1>1 DEF Apart, Stamped
  <2>5. \A w \in Workers : Apart(C2[h], W2[w])
    BY <1>1 DEF Apart, Stamped
  <2> QED BY <2>2, <2>3, <2>4, <2>5
<1>7. ASSUME NEW w \in Workers
      PROVE  /\ Before(W2[w], t) /\ Rising(W2[w])
             /\ \A v \in Workers \ {w} : Apart(W2[w], W2[v])
             /\ Apart(W2[w], M) \/ (Stored(W2[w], M) /\ w \notin N2)
             /\ Apart(W2[w], F) \/ (W2[w] = F /\ w \notin N2)
  <2>1. Before(W[w], t) /\ Rising(W[w]) /\ (Apart(W[w], L) \/ (Stored(W[w], L) /\ w \notin N))
    BY DEF Stamped
  <2>2. Before(W2[w], t) /\ Rising(W2[w]) /\ Apart(W2[w], F)
    BY <1>1, <2>1 DEF Before, Apart
  <2>3. Apart(W2[w], M) \/ (Stored(W2[w], M) /\ w \notin N2)
    <3>1. CASE W2[w] = <<>>
      BY <1>1, <3>1 DEF Apart
    <3>2. CASE W2[w] = W[w] /\ Apart(W[w], b)
      <4>1. CASE Apart(W[w], L)
        BY <1>2, <3>2, <4>1 DEF Apart
      <4>2. CASE Stored(W[w], L) /\ w \notin N
        BY <1>2, <3>2, <4>2 DEF Stored
      <4> QED BY <2>1, <4>1, <4>2
    <3> QED BY <3>1, <3>2
  <2>4. \A v \in Workers \ {w} : Apart(W2[w], W2[v])
    BY <1>1 DEF Apart, Stamped
  <2> QED BY <2>2, <2>3, <2>4
<1>8. Stamped(M, F, t, C2, W2, N2)
  BY <1>3, <1>4, <1>5, <1>6, <1>7 DEF Stamped
<1> QED BY <1>8 DEF M

(* A batch b that is not in the log is sent, and its writer does not hear   *)
(* of it: a handler drops it, a worker may keep it.                         *)
LEMMA StampFly ==
    ASSUME NEW L, NEW F, NEW t, NEW C, NEW W, NEW N,
           BatchesTyped(L, F, t, C, W), Stamped(L, F, t, C, W, N),
           NEW b \in Seq(Events), Rising(b), Before(b, t), Apart(b, L),
           NEW C2, \A h \in Handlers : C2[h] = <<>> \/ (C2[h] = C[h] /\ Apart(C[h], b)),
           NEW N2, N2 \subseteq N,
           NEW W2, \A w \in Workers : \/ W2[w] = <<>>
                                      \/ W2[w] = W[w] /\ (Apart(W[w], b) \/ (W[w] = b /\ w \notin N2))
    PROVE  Stamped(L, b, t, C2, W2, N2)
<1>1. /\ L \in Seq(Events) /\ t \in Nat /\ Ats(<<>>) = {} /\ Rising(<<>>)
  BY AtsTyped DEF BatchesTyped
<1>2. Before(L, t) /\ Once(L)
  BY DEF Stamped
<1>3. ASSUME NEW h \in Handlers
      PROVE  /\ Before(C2[h], t) /\ Rising(C2[h])
             /\ Apart(C2[h], L) /\ Apart(C2[h], b)
             /\ \A g \in Handlers \ {h} : Apart(C2[h], C2[g])
             /\ \A w \in Workers : Apart(C2[h], W2[w])
  <2>1. Before(C[h], t) /\ Rising(C[h]) /\ Apart(C[h], L)
    BY DEF Stamped
  <2>2. Before(C2[h], t) /\ Rising(C2[h]) /\ Apart(C2[h], L) /\ Apart(C2[h], b)
    BY <1>1, <2>1 DEF Before, Apart
  <2>3. \A g \in Handlers \ {h} : Apart(C2[h], C2[g])
    BY <1>1 DEF Apart, Stamped
  <2>4. \A w \in Workers : Apart(C2[h], W2[w])
    BY <1>1 DEF Apart, Stamped
  <2> QED BY <2>2, <2>3, <2>4
<1>4. ASSUME NEW w \in Workers
      PROVE  /\ Before(W2[w], t) /\ Rising(W2[w])
             /\ \A v \in Workers \ {w} : Apart(W2[w], W2[v])
             /\ Apart(W2[w], L) \/ (Stored(W2[w], L) /\ w \notin N2)
             /\ Apart(W2[w], b) \/ (W2[w] = b /\ w \notin N2)
  <2>1. Before(W[w], t) /\ Rising(W[w]) /\ (Apart(W[w], L) \/ (Stored(W[w], L) /\ w \notin N))
    BY DEF Stamped
  <2>2. Before(W2[w], t) /\ Rising(W2[w])
    BY <1>1, <2>1 DEF Before
  <2>3. Apart(W2[w], L) \/ (Stored(W2[w], L) /\ w \notin N2)
    BY <1>1, <2>1 DEF Apart
  <2>4. \A v \in Workers \ {w} : Apart(W2[w], W2[v])
    BY <1>1 DEF Apart, Stamped
  <2>5. Apart(W2[w], b) \/ (W2[w] = b /\ w \notin N2)
    BY <1>1 DEF Apart
  <2> QED BY <2>2, <2>3, <2>4, <2>5
<1> QED BY <1>2, <1>3, <1>4 DEF Stamped

(* The server ends the transaction of the batch in flight.                  *)
LEMMA StampEnd ==
    ASSUME NEW L, NEW F, NEW t, NEW C, NEW W, NEW N,
           BatchesTyped(L, F, t, C, W), Stamped(L, F, t, C, W, N), F # <<>>,
           NEW M, M = L \/ M = L \o F
    PROVE  Stamped(M, <<>>, t, C, W, N)
<1>1. /\ L \in Seq(Events) /\ F \in Seq(Events) /\ t \in Nat /\ Ats(<<>>) = {} /\ Rising(<<>>)
      /\ F[1].at \in Ats(F)
  BY AtsTyped DEF BatchesTyped
<1>2. Before(L, t) /\ Once(L) /\ Before(F, t) /\ Rising(F) /\ Apart(F, L)
  BY DEF Stamped
<1>3. Ats(L) \subseteq Ats(M) /\ Ats(M) \subseteq Ats(L) \cup Ats(F)
  BY <1>1, JoinAts
<1>4. Once(M)
  <2>1. Apart(L, F)
    BY <1>2 DEF Apart
  <2>2. Once(L \o F)
    BY <1>1, <1>2, <2>1, JoinOnce
  <2> QED BY <1>2, <2>2
<1>5. Before(M, t) /\ Before(<<>>, t) /\ Rising(<<>>) /\ Apart(<<>>, M)
  BY <1>1, <1>2, <1>3 DEF Before, Apart
<1>6. ASSUME NEW h \in Handlers
      PROVE  Apart(C[h], M) /\ Apart(C[h], <<>>)
  BY <1>1, <1>3 DEF Apart, Stamped
<1>7. ASSUME NEW w \in Workers
      PROVE  /\ Apart(W[w], M) \/ (Stored(W[w], M) /\ w \notin N)
             /\ Apart(W[w], <<>>)
  <2>1. /\ Apart(W[w], L) \/ (Stored(W[w], L) /\ w \notin N)
        /\ Apart(W[w], F) \/ (W[w] = F /\ w \notin N)
    BY DEF Stamped
  <2>2. CASE Stored(W[w], L) /\ w \notin N
    BY <1>1, <1>3, <2>2 DEF Stored, Apart
  <2>3. CASE Apart(W[w], L) /\ Apart(W[w], F)
    BY <1>1, <1>3, <2>3 DEF Apart
  <2>4. CASE Apart(W[w], L) /\ W[w] = F /\ w \notin N
    <3>1. CASE M = L
      BY <1>1, <2>4, <3>1 DEF Apart
    <3>2. CASE M = L \o F
      <4>1. F[1].at \in Ats(M)
        BY <1>1, <3>2, JoinAts
      <4> QED BY <1>1, <2>4, <4>1 DEF Stored, Apart
    <3> QED BY <3>1, <3>2
  <2> QED BY <2>1, <2>2, <2>3, <2>4
<1> QED BY <1>4, <1>5, <1>6, <1>7 DEF Stamped

-----------------------------------------------------------------------------
(* The same of the variables.                                               *)
CtlBatches == [h \in Handlers |-> ctl[h].events]
WrkBatches == [w \in Workers |-> wrk[w].events]
AtWork     == {w \in Workers : wrk[w].pc = "work"}

(* Nothing happens to a run that was not started.                           *)
NotStarted ==
    creation = "new" =>
        /\ log = <<>> /\ inflight = <<>>
        /\ \A h \in Handlers : ctl[h].pc = "idle"
        /\ \A w \in Workers : wrk[w].pc = "idle"

StampInv ==
    /\ Stamped(log, inflight, clock, CtlBatches, WrkBatches, AtWork)
    /\ NotStarted

(* The invariant implies EventsOnce.                                       *)
LEMMA StampInvOnce == StampInv /\ log \in Seq(Events) => EventsOnce
  BY DEF StampInv, Stamped, Once, EventsOnce

(* The batches of handlers and workers are sequences of events.            *)
LEMMA BatchesAre ==
    ASSUME TypeInv
    PROVE  BatchesTyped(log, inflight, clock, CtlBatches, WrkBatches)
<1>1. \A h \in Handlers : ctl[h].events \in Seq(Events)
  BY DEF TypeInv, LiveControls, ControlStates
<1>2. \A w \in Workers : wrk[w].events \in Seq(Events)
  BY DEF TypeInv, LiveWorkers, WorkerStates
<1>3. CtlBatches \in [Handlers -> Seq(Events)] /\ WrkBatches \in [Workers -> Seq(Events)]
  BY <1>1, <1>2 DEF CtlBatches, WrkBatches
<1> QED BY <1>3 DEF TypeInv, BatchesTyped

(* What a step does to the batches in memory.                               *)
LEMMA CtlBatchesStep ==
    ASSUME TypeInv
    PROVE  /\ UNCHANGED ctl => UNCHANGED CtlBatches
           /\ \A h \in Handlers : CtlBatches[h] = ctl[h].events
           /\ \A h \in Handlers : \A r : SetCtl(h, r) => CtlBatches' = [CtlBatches EXCEPT ![h] = r.events]
<1>1. ASSUME NEW h \in Handlers, NEW r, SetCtl(h, r)
      PROVE  CtlBatches' = [CtlBatches EXCEPT ![h] = r.events]
  <2>1. ctl' = [ctl EXCEPT ![h] = r] /\ DOMAIN ctl = Handlers
    BY <1>1 DEF SetCtl, TypeInv
  <2>2. \A g \in Handlers : ctl'[g].events = IF g = h THEN r.events ELSE ctl[g].events
    BY <2>1
  <2> QED BY <2>2 DEF CtlBatches
<1> QED BY <1>1 DEF CtlBatches

(* What a step of a worker does to the batches.                            *)
LEMMA WrkBatchesStep ==
    ASSUME TypeInv
    PROVE  /\ UNCHANGED wrk => UNCHANGED WrkBatches /\ UNCHANGED AtWork
           /\ \A w \in Workers : WrkBatches[w] = wrk[w].events
           /\ \A w \in Workers : \A r :
                SetWrk(w, r) =>
                  /\ WrkBatches' = [WrkBatches EXCEPT ![w] = r.events]
                  /\ AtWork' = IF r.pc = "work" THEN AtWork \cup {w} ELSE AtWork \ {w}
<1>1. ASSUME NEW w \in Workers, NEW r, SetWrk(w, r)
      PROVE  /\ WrkBatches' = [WrkBatches EXCEPT ![w] = r.events]
             /\ AtWork' = IF r.pc = "work" THEN AtWork \cup {w} ELSE AtWork \ {w}
  <2>1. wrk' = [wrk EXCEPT ![w] = r] /\ DOMAIN wrk = Workers
    BY <1>1 DEF SetWrk, TypeInv
  <2>2. \A v \in Workers : wrk'[v].events = IF v = w THEN r.events ELSE wrk[v].events
    BY <2>1
  <2>3. \A v \in Workers : wrk'[v].pc = IF v = w THEN r.pc ELSE wrk[v].pc
    BY <2>1
  <2>4. WrkBatches' = [WrkBatches EXCEPT ![w] = r.events]
    BY <2>2 DEF WrkBatches
  <2>5. AtWork' = IF r.pc = "work" THEN AtWork \cup {w} ELSE AtWork \ {w}
    BY <2>3 DEF AtWork
  <2> QED BY <2>4, <2>5
<1> QED BY <1>1 DEF WrkBatches, AtWork

(* Steps that make, store and send nothing.                                 *)
LEMMA StampQuiet ==
    ASSUME TypeInv, StampInv, UNCHANGED <<log, inflight, clock>>,
           \/ UNCHANGED CtlBatches
           \/ \E h \in Handlers : CtlBatches' = [CtlBatches EXCEPT ![h] = <<>>],
           \/ UNCHANGED <<WrkBatches, AtWork>>
           \/ \E w \in Workers : \/ /\ WrkBatches' = [WrkBatches EXCEPT ![w] = <<>>]
                                    /\ AtWork' \subseteq AtWork \cup {w}
                                 \/ UNCHANGED WrkBatches /\ AtWork' \subseteq AtWork
    PROVE  Stamped(log, inflight, clock, CtlBatches, WrkBatches, AtWork)'
<1>1. BatchesTyped(log, inflight, clock, CtlBatches, WrkBatches)
  BY BatchesAre
<1>2. \A h \in Handlers : CtlBatches'[h] \in {CtlBatches[h], <<>>}
  BY <1>1 DEF BatchesTyped
<1>3. \A w \in Workers : WrkBatches'[w] \in {WrkBatches[w], <<>>}
  BY <1>1 DEF BatchesTyped
<1>4. \A w \in AtWork' : w \in AtWork \/ WrkBatches'[w] = <<>>
  BY <1>1 DEF BatchesTyped
<1>5. Stamped(log, inflight, clock, CtlBatches, WrkBatches, AtWork)
  BY DEF StampInv
<1>6. Stamped(log, inflight, clock, CtlBatches', WrkBatches', AtWork')
  BY <1>1, <1>2, <1>3, <1>4, <1>5, StampDrop
<1>7. log' = log /\ inflight' = inflight /\ clock' = clock
  OBVIOUS
<1> QED BY <1>6, <1>7

(* A batch that waits in the memory of one process is nobody else's; a      *)
(* worker's batch whose first event is not stored is not stored.            *)
LEMMA WaitingBatch ==
    ASSUME TypeInv, StampInv
    PROVE  /\ \A h \in Handlers :
                LET b == ctl[h].events IN
                /\ b \in Seq(Events) /\ Rising(b) /\ Before(b, clock) /\ Apart(b, log)
                /\ \A g \in Handlers \ {h} : Apart(CtlBatches[g], b)
                /\ \A w \in Workers : Apart(WrkBatches[w], b)
           /\ \A w \in Workers :
                LET b == wrk[w].events IN
                /\ b \in Seq(Events) /\ Rising(b) /\ Before(b, clock)
                /\ Apart(b, log) \/ AlreadyStored(b)
                /\ \A h \in Handlers : Apart(CtlBatches[h], b)
                /\ \A v \in Workers \ {w} : Apart(WrkBatches[v], b)
<1>1. Stamped(log, inflight, clock, CtlBatches, WrkBatches, AtWork)
  BY DEF StampInv
<1>2. ASSUME NEW h \in Handlers
      PROVE  LET b == ctl[h].events IN
             /\ b \in Seq(Events) /\ Rising(b) /\ Before(b, clock) /\ Apart(b, log)
             /\ \A g \in Handlers \ {h} : Apart(CtlBatches[g], b)
             /\ \A w \in Workers : Apart(WrkBatches[w], b)
  <2> DEFINE b == ctl[h].events
  <2>1. b = CtlBatches[h] /\ b \in Seq(Events)
    BY BatchesAre DEF BatchesTyped, CtlBatches
  <2> HIDE DEF b
  <2>2. Rising(b) /\ Before(b, clock) /\ Apart(b, log)
    BY <1>1, <2>1 DEF Stamped
  <2>3. \A g \in Handlers \ {h} : Apart(CtlBatches[g], b)
    BY <1>1, <2>1 DEF Stamped
  <2>4. \A w \in Workers : Apart(WrkBatches[w], b)
    BY <1>1, <2>1 DEF Stamped, Apart
  <2> QED BY <2>1, <2>2, <2>3, <2>4 DEF b
<1>3. ASSUME NEW w \in Workers
      PROVE  LET b == wrk[w].events IN
             /\ b \in Seq(Events) /\ Rising(b) /\ Before(b, clock)
             /\ Apart(b, log) \/ AlreadyStored(b)
             /\ \A h \in Handlers : Apart(CtlBatches[h], b)
             /\ \A v \in Workers \ {w} : Apart(WrkBatches[v], b)
  <2> DEFINE b == wrk[w].events
  <2>1. b = WrkBatches[w] /\ b \in Seq(Events) /\ log \in Seq(Events)
    BY BatchesAre DEF BatchesTyped, WrkBatches
  <2> HIDE DEF b
  <2>2. Rising(b) /\ Before(b, clock) /\ (Apart(b, log) \/ Stored(b, log))
    BY <1>1, <2>1 DEF Stamped
  <2>3. Stored(b, log) => AlreadyStored(b)
    BY <2>1 DEF Stored, Ats, AlreadyStored
  <2>4. \A h \in Handlers : Apart(CtlBatches[h], b)
    BY <1>1, <2>1 DEF Stamped
  <2>5. \A v \in Workers \ {w} : Apart(WrkBatches[v], b)
    BY <1>1, <2>1 DEF Stamped
  <2> QED BY <2>1, <2>2, <2>3, <2>4, <2>5 DEF b
<1> QED BY <1>2, <1>3

(* Requests keep the stamps apart.                                          *)
LEMMA StampRequest ==
    ASSUME TypeInv, StampInv, NEW h \in Handlers,
           (\E kind \in Requests : Decide(h, kind)) \/ ControlStep(h) \/ ControlFails(h)
    PROVE  Stamped(log, inflight, clock, CtlBatches, WrkBatches, AtWork)'
<1>1. /\ BatchesTyped(log, inflight, clock, CtlBatches, WrkBatches)
      /\ Stamped(log, inflight, clock, CtlBatches, WrkBatches, AtWork)
      /\ ctl[h] \in LiveControls /\ CtlBatches[h] = ctl[h].events
      /\ \A r : SetCtl(h, r) => CtlBatches' = [CtlBatches EXCEPT ![h] = r.events]
      /\ UNCHANGED wrk => UNCHANGED <<WrkBatches, AtWork>>
      /\ UNCHANGED ctl => UNCHANGED CtlBatches
  BY BatchesAre, CtlBatchesStep, WrkBatchesStep DEF StampInv, TypeInv
<1>2. ASSUME NEW kind \in Requests, Decide(h, kind)
      PROVE  Stamped(log, inflight, clock, CtlBatches, WrkBatches, AtWork)'
  <2> DEFINE open == {i \in Items : OrchestratorFold(log).items[i] \notin {"absent", "completed"}}
             r == [IdleControl EXCEPT !.pc = "revision", !.kind = kind,
                      !.reassign = IF kind = "retry" THEN open ELSE {}]
  <2>1. UNCHANGED ctl \/ SetCtl(h, r)
    BY <1>2 DEF Decide
  <2>2. r.events = <<>>
    BY DEF IdleControl
  <2> HIDE DEF r
  <2>3. UNCHANGED CtlBatches \/ CtlBatches' = [CtlBatches EXCEPT ![h] = <<>>]
    BY <1>1, <2>1, <2>2
  <2>4. UNCHANGED <<log, inflight, clock, WrkBatches, AtWork>>
    BY <1>1, <1>2 DEF Decide
  <2> QED BY <2>3, <2>4, StampQuiet
<1>3. ASSUME NextRevision(h)
      PROVE  Stamped(log, inflight, clock, CtlBatches, WrkBatches, AtWork)'
  <2> DEFINE first == StatusChanged(Target[ctl[h].kind], "api", clock)
             items == ctl[h].reassign
             n     == Cardinality(items)
             rest  == AssignAll(items, "api", clock + 1)
             b     == <<first>> \o rest
             r     == [ctl[h] EXCEPT !.pc = "append", !.base = Len(log), !.events = b]
  <2>1. /\ ctl[h].kind \in Requests /\ items \in SUBSET Items /\ clock \in Nat
        /\ clock + 1 \in Nat /\ ctl[h].events = <<>> /\ ctl[h] \in ControlStates
    <3>1. ctl[h].pc = "revision" /\ ctl[h] \in ControlStates /\ ctl[h].events = <<>>
          /\ ctl[h].kind \in Requests
      BY <1>1, <1>3 DEF NextRevision, LiveControls
    <3>2. items \in SUBSET Items
      BY <3>1 DEF ControlStates
    <3>3. clock \in Nat
      BY DEF TypeInv
    <3> QED BY <3>1, <3>2, <3>3
  <2>2. SetCtl(h, r) /\ clock' = clock + 1 + n /\ UNCHANGED <<log, inflight, wrk>>
    BY <1>3 DEF NextRevision
  <2>3. r.events = b
    BY <2>1 DEF ControlStates
  <2> HIDE DEF r
  <2>4. first \in Events /\ first.at = clock
    BY <2>1, TargetIs, RunEventsMade DEF StatusChanged, Event
  <2>5. Assigns(rest, items, "api", clock + 1)
    <3>1. "api" \in Workers \cup {"api"}
      OBVIOUS
    <3> QED BY <2>1, <3>1, AssignAllIs
  <2> HIDE DEF first, rest, items
  <2>6. /\ b \in Seq(Events) /\ clock + 1 + n \in Nat /\ clock <= clock + 1 + n
        /\ Fresh(b, clock, clock + 1 + n)
    BY <2>1, <2>4, <2>5, LedBatch
  <2> HIDE DEF b, n
  <2>10. CtlBatches' = [CtlBatches EXCEPT ![h] = b] /\ CtlBatches[h] = <<>>
    BY <1>1, <2>1, <2>2, <2>3
  <2>11. Stamped(log, inflight, clock', CtlBatches', WrkBatches, AtWork)
    BY <1>1, <2>2, <2>6, <2>10, StampControl
  <2> QED BY <1>1, <2>2, <2>11
<1>4. ASSUME AppendControl(h)
      PROVE  Stamped(log, inflight, clock, CtlBatches, WrkBatches, AtWork)'
  <2> DEFINE b == ctl[h].events
             r == [ctl[h] EXCEPT !.pc = "sync", !.events = <<>>, !.base = 0]
  <2>1. /\ b \in Seq(Events) /\ Rising(b) /\ Before(b, clock) /\ Apart(b, log)
        /\ \A g \in Handlers \ {h} : Apart(CtlBatches[g], b)
        /\ \A w \in Workers : Apart(WrkBatches[w], b)
    BY WaitingBatch
  <2>2. /\ inflight = <<>> /\ UNCHANGED <<clock, wrk>>
        /\ \/ SetCtl(h, IdleControl) /\ UNCHANGED <<log, inflight>>
           \/ log' = log \o b /\ SetCtl(h, r) /\ UNCHANGED inflight
           \/ inflight' = b /\ SetCtl(h, IdleControl) /\ UNCHANGED log
    BY <1>4 DEF AppendControl, LockFree
  <2>3. r.events = <<>> /\ IdleControl.events = <<>>
    BY <1>1, IdleIsTyped DEF LiveControls, ControlStates
  <2> HIDE DEF b, r
  <2>4. CtlBatches' = [CtlBatches EXCEPT ![h] = <<>>]
    BY <1>1, <2>2, <2>3
  <2>5. /\ \A g \in Handlers : CtlBatches'[g] = <<>>
                               \/ (CtlBatches'[g] = CtlBatches[g] /\ Apart(CtlBatches[g], b))
    BY <1>1, <2>1, <2>4 DEF BatchesTyped
  <2>6. UNCHANGED <<WrkBatches, AtWork>>
    BY <1>1, <2>2
  <2>7. CASE SetCtl(h, IdleControl) /\ UNCHANGED <<log, inflight>>
    BY <2>2, <2>4, <2>6, <2>7, StampQuiet
  <2>8. CASE log' = log \o b /\ UNCHANGED inflight
    <3>1. Stamped(log \o b, inflight, clock, CtlBatches', WrkBatches, AtWork)
      BY <1>1, <2>1, <2>2, <2>5, StampStore
    <3> QED BY <2>2, <2>6, <2>8, <3>1
  <2>9. CASE inflight' = b /\ UNCHANGED log
    <3>1. Stamped(log, b, clock, CtlBatches', WrkBatches, AtWork)
      BY <1>1, <2>1, <2>2, <2>5, StampFly
    <3> QED BY <2>2, <2>6, <2>9, <3>1
  <2> QED BY <2>2, <2>7, <2>8, <2>9
<1>5. ASSUME SyncStatus(h) \/ ControlFails(h)
      PROVE  Stamped(log, inflight, clock, CtlBatches, WrkBatches, AtWork)'
  <2>1. SetCtl(h, IdleControl) /\ UNCHANGED <<log, inflight, clock, wrk>>
    BY <1>5 DEF SyncStatus, ControlFails
  <2>2. CtlBatches' = [CtlBatches EXCEPT ![h] = <<>>] /\ UNCHANGED <<WrkBatches, AtWork>>
    BY <1>1, <2>1, IdleIsTyped
  <2> QED BY <2>1, <2>2, StampQuiet
<1> QED BY <1>2, <1>3, <1>4, <1>5 DEF ControlStep

(* Workers keep the stamps apart.                                           *)
LEMMA StampWorker ==
    ASSUME TypeInv, StampInv, NEW w \in Workers,
           WorkerStep(w) \/ AppendFails(w) \/ WorkerDies(w)
    PROVE  Stamped(log, inflight, clock, CtlBatches, WrkBatches, AtWork)'
<1> DEFINE v == wrk[w]
<1>1. /\ BatchesTyped(log, inflight, clock, CtlBatches, WrkBatches)
      /\ Stamped(log, inflight, clock, CtlBatches, WrkBatches, AtWork)
      /\ v \in LiveWorkers /\ v \in WorkerStates /\ WrkBatches[w] = v.events /\ v.events \in Seq(Events)
      /\ clock \in Nat
  BY BatchesAre, WrkBatchesStep DEF StampInv, TypeInv, LiveWorkers, WorkerStates
<1>2. /\ \A r : SetWrk(w, r) => /\ WrkBatches' = [WrkBatches EXCEPT ![w] = r.events]
                                /\ AtWork' = IF r.pc = "work" THEN AtWork \cup {w} ELSE AtWork \ {w}
      /\ UNCHANGED ctl => UNCHANGED CtlBatches
      /\ v.pc = "work" => w \in AtWork
  BY CtlBatchesStep, WrkBatchesStep DEF AtWork
<1>3. IdleWorker.events = <<>> /\ IdleWorker.pc = "idle"
  BY IdleIsTyped
<1>4. ASSUME LoadRun(w)
      PROVE  Stamped(log, inflight, clock, CtlBatches, WrkBatches, AtWork)'
  <2> DEFINE seen == WorkerFold(ByTime)
             r == [IdleWorker EXCEPT !.pc = "work", !.status = seen.status,
                      !.items = seen.items, !.effort = seen.effort]
  <2>1. SetWrk(w, r) /\ UNCHANGED <<log, inflight, clock, ctl>>
    BY <1>4 DEF LoadRun
  <2> HIDE DEF seen
  <2>2. r.events = <<>> /\ r.pc = "work"
    BY DEF IdleWorker
  <2> HIDE DEF r
  <2>3. WrkBatches' = [WrkBatches EXCEPT ![w] = <<>>] /\ AtWork' \subseteq AtWork \cup {w}
    BY <1>2, <2>1, <2>2
  <2> QED BY <1>2, <2>1, <2>3, StampQuiet
<1>5. ASSUME NEW i \in Items, NEW o \in Outcomes, ExecuteItem(w, i, o)
      PROVE  Stamped(log, inflight, clock, CtlBatches, WrkBatches, AtWork)'
  <2> DEFINE b == ExecutionEvents(w, i, o)
             r == [v EXCEPT
                      !.count = @ + 1,
                      !.events = @ \o b,
                      !.items[i] = IF o = "success" THEN "completed" ELSE "failed",
                      !.status = IF o = "success" THEN @ ELSE "blocked",
                      !.effort = IF o = "success" THEN @ + Effort ELSE @]
  <2>1. b \in Seq(Events) /\ Len(b) \in 1..3 /\ \A k \in 1..Len(b) : b[k].at = clock + k - 1
    BY <1>1, ExecutionEventsAre DEF Executed
  <2>2. v.pc = "work" /\ SetWrk(w, r) /\ clock' = clock + Len(b) /\ UNCHANGED <<log, inflight, ctl>>
    BY <1>5 DEF ExecuteItem
  <2> HIDE DEF b
  <2>3. r.events = v.events \o b /\ r.pc = "work"
    BY <1>1, <2>2 DEF WorkerStates
  <2> HIDE DEF r
  <2>4. clock + Len(b) \in Nat /\ clock <= clock + Len(b)
    BY <1>1, <2>1
  <2>5. Fresh(b, clock, clock + Len(b))
    BY <1>1, <2>1, <2>4, RunsOn
  <2>6. WrkBatches' = [WrkBatches EXCEPT ![w] = WrkBatches[w] \o b] /\ AtWork' \subseteq AtWork
    BY <1>1, <1>2, <2>2, <2>3
  <2>7. Stamped(log, inflight, clock', CtlBatches, WrkBatches', AtWork')
    BY <1>1, <1>2, <2>1, <2>2, <2>4, <2>5, <2>6, StampWork
  <2> QED BY <1>2, <2>2, <2>7
<1>6. ASSUME FinishTurn(w)
      PROVE  Stamped(log, inflight, clock, CtlBatches, WrkBatches, AtWork)'
  <2> DEFINE e == RunEvent("RunCompleted", w, clock)
             events == IF Completes(w) THEN Append(v.events, e) ELSE v.events
             r == [v EXCEPT !.pc = "load", !.events = events, !.count = 0,
                      !.status = IF Completes(w) THEN "completed" ELSE @]
  <2>1. /\ v.pc = "work" /\ UNCHANGED <<log, inflight, ctl>>
        /\ clock' = IF Completes(w) THEN clock + 1 ELSE clock
        /\ IF events = <<>> THEN SetWrk(w, IdleWorker) ELSE SetWrk(w, r)
    BY <1>6 DEF FinishTurn
  <2>2. e \in Events /\ e.at = clock
    <3>1. w \in Workers \cup {"api"}
      OBVIOUS
    <3> QED BY <1>1, <3>1, RunEventsMade DEF RunEvent, Event
  <2> HIDE DEF e
  <2>3. r.events = events /\ r.pc = "load"
    BY <1>1 DEF WorkerStates
  <2> HIDE DEF r
  <2>4. CASE Completes(w)
    <3>1. <<e>> \in Seq(Events) /\ Len(<<e>>) = 1 /\ \A k \in 1..Len(<<e>>) : <<e>>[k].at = clock + k - 1
      BY <1>1, <2>2
    <3>2. events = v.events \o <<e>> /\ events # <<>>
      BY <1>1, <2>2, <2>4, AppendIsConcat, AppendProperties
    <3>3. clock + 1 \in Nat /\ clock <= clock + 1
      BY <1>1
    <3>4. Fresh(<<e>>, clock, clock + 1)
      <4>1. clock + Len(<<e>>) <= clock + 1
        BY <1>1, <3>1
      <4> QED BY <1>1, <3>1, <3>3, <4>1, RunsOn
    <3>5. WrkBatches' = [WrkBatches EXCEPT ![w] = WrkBatches[w] \o <<e>>] /\ AtWork' \subseteq AtWork
      BY <1>1, <1>2, <2>1, <2>3, <3>2
    <3>6. Stamped(log, inflight, clock + 1, CtlBatches, WrkBatches', AtWork')
      BY <1>1, <1>2, <2>1, <3>1, <3>3, <3>4, <3>5, StampWork
    <3> QED BY <1>2, <2>1, <2>4, <3>6
  <2>5. CASE ~ Completes(w)
    <3>1. events = v.events /\ UNCHANGED clock
      BY <2>1, <2>5
    <3>2. UNCHANGED WrkBatches /\ AtWork' \subseteq AtWork
      <4>1. \E r2 : SetWrk(w, r2) /\ r2.events = WrkBatches[w] /\ r2.pc # "work"
        BY <1>1, <1>3, <2>1, <2>3, <3>1
      <4>2. WrkBatches' = [WrkBatches EXCEPT ![w] = WrkBatches[w]] /\ AtWork' \subseteq AtWork
        BY <1>2, <4>1
      <4> QED BY <1>1, <4>2 DEF BatchesTyped
    <3> QED BY <1>2, <2>1, <3>1, <3>2, StampQuiet
  <2> QED BY <2>4, <2>5
<1>7. ASSUME RebaseBatch(w)
      PROVE  Stamped(log, inflight, clock, CtlBatches, WrkBatches, AtWork)'
  <2> DEFINE r == [v EXCEPT !.pc = "append", !.base = Len(log), !.attempt = @ + 1]
  <2>1. SetWrk(w, r) /\ UNCHANGED <<log, inflight, clock, ctl>>
    BY <1>7 DEF RebaseBatch
  <2>2. r.events = WrkBatches[w] /\ r.pc = "append"
    BY <1>1 DEF WorkerStates
  <2> HIDE DEF r
  <2>3. WrkBatches' = [WrkBatches EXCEPT ![w] = WrkBatches[w]] /\ AtWork' \subseteq AtWork
    BY <1>2, <2>1, <2>2
  <2>4. UNCHANGED WrkBatches
    BY <1>1, <2>3 DEF BatchesTyped
  <2> QED BY <1>2, <2>1, <2>3, <2>4, StampQuiet
<1>8. ASSUME v.pc = "append", NextAttempt(w)
      PROVE  /\ UNCHANGED WrkBatches \/ WrkBatches' = [WrkBatches EXCEPT ![w] = <<>>]
             /\ AtWork' \subseteq AtWork /\ w \notin AtWork'
  <2> DEFINE r == [v EXCEPT !.pc = "load", !.base = 0]
  <2>1. SetWrk(w, r) \/ SetWrk(w, IdleWorker)
    BY <1>8 DEF NextAttempt
  <2>2. r.events = WrkBatches[w] /\ r.pc = "load"
    BY <1>1 DEF WorkerStates
  <2> HIDE DEF r
  <2>3. CASE SetWrk(w, r)
    <3>1. WrkBatches' = [WrkBatches EXCEPT ![w] = WrkBatches[w]] /\ AtWork' = AtWork \ {w}
      BY <1>2, <2>2, <2>3
    <3> QED BY <1>1, <3>1 DEF BatchesTyped
  <2>4. CASE SetWrk(w, IdleWorker)
    BY <1>2, <1>3, <2>4
  <2> QED BY <2>1, <2>3, <2>4
<1>9. LET b == v.events IN
      /\ Rising(b) /\ Before(b, clock)
      /\ ~ AlreadyStored(b) => Apart(b, log)
      /\ \A h \in Handlers : Apart(CtlBatches[h], b)
      /\ \A u \in Workers \ {w} : Apart(WrkBatches[u], b)
  BY WaitingBatch
<1>10. ASSUME AppendBatch(w)
       PROVE  Stamped(log, inflight, clock, CtlBatches, WrkBatches, AtWork)'
  <2> DEFINE b == v.events
             r == [v EXCEPT !.pc = "items", !.events = <<>>, !.base = 0,
                      !.attempt = 0, !.todo = ItemUpserts(v.events)]
  <2>1. /\ v.pc = "append" /\ inflight = <<>> /\ UNCHANGED <<clock, ctl>>
        /\ \/ NextAttempt(w) /\ UNCHANGED <<log, inflight>>
           \/ ~ AlreadyStored(b) /\ log' = log \o b /\ SetWrk(w, r) /\ UNCHANGED inflight
           \/ ~ AlreadyStored(b) /\ inflight' = b /\ NextAttempt(w) /\ UNCHANGED log
    BY <1>10 DEF AppendBatch, LockFree, Fits
  <2>2. r.events = <<>> /\ r.pc = "items"
    BY <1>1 DEF WorkerStates
  <2> HIDE DEF r
  <2>3. /\ b \in Seq(Events) /\ b = WrkBatches[w] /\ Rising(b) /\ Before(b, clock)
        /\ ~ AlreadyStored(b) => Apart(b, log)
        /\ \A h \in Handlers : Apart(CtlBatches[h], b)
        /\ \A u \in Workers \ {w} : Apart(WrkBatches[u], b)
    BY <1>1, <1>9
  <2> HIDE DEF b, v
  <2>4. CASE NextAttempt(w) /\ UNCHANGED <<log, inflight>>
    BY <1>2, <1>8, <2>1, <2>4, StampQuiet
  <2>5. CASE ~ AlreadyStored(b) /\ log' = log \o b /\ SetWrk(w, r) /\ UNCHANGED inflight
    <3>1. WrkBatches' = [WrkBatches EXCEPT ![w] = <<>>] /\ AtWork' \subseteq AtWork
      BY <1>2, <2>2, <2>5
    <3>2. \A u \in Workers : WrkBatches'[u] = <<>>
                             \/ (WrkBatches'[u] = WrkBatches[u] /\ Apart(WrkBatches[u], b))
      BY <1>1, <2>3, <3>1 DEF BatchesTyped
    <3>3. Stamped(log \o b, inflight, clock, CtlBatches, WrkBatches', AtWork')
      BY <1>1, <2>1, <2>3, <2>5, <3>1, <3>2, StampStore
    <3> QED BY <1>2, <2>1, <2>5, <3>3
  <2>6. CASE ~ AlreadyStored(b) /\ inflight' = b /\ NextAttempt(w) /\ UNCHANGED log
    <3>1. /\ UNCHANGED WrkBatches \/ WrkBatches' = [WrkBatches EXCEPT ![w] = <<>>]
          /\ AtWork' \subseteq AtWork /\ w \notin AtWork'
      BY <1>8, <2>1, <2>6
    <3>2. \A u \in Workers :
            \/ WrkBatches'[u] = <<>>
            \/ WrkBatches'[u] = WrkBatches[u] /\ (Apart(WrkBatches[u], b)
                                                  \/ (WrkBatches[u] = b /\ u \notin AtWork'))
      BY <1>1, <2>3, <3>1 DEF BatchesTyped
    <3>3. Stamped(log, b, clock, CtlBatches, WrkBatches', AtWork')
      BY <1>1, <2>1, <2>3, <2>6, <3>1, <3>2, StampFly
    <3> QED BY <1>2, <2>1, <2>6, <3>3
  <2> QED BY <2>1, <2>4, <2>5, <2>6
<1>11. ASSUME UpsertItem(w)
       PROVE  Stamped(log, inflight, clock, CtlBatches, WrkBatches, AtWork)'
  <2> DEFINE r == [v EXCEPT !.todo = Tail(@)]
  <2>1. SetWrk(w, r) /\ UNCHANGED <<log, inflight, clock, ctl>> /\ v.pc = "items"
    BY <1>11 DEF UpsertItem
  <2>2. r.events = WrkBatches[w] /\ r.pc = "items"
    BY <1>1, <2>1 DEF WorkerStates
  <2> HIDE DEF r
  <2>3. WrkBatches' = [WrkBatches EXCEPT ![w] = WrkBatches[w]] /\ AtWork' \subseteq AtWork
    BY <1>2, <2>1, <2>2
  <2>4. UNCHANGED WrkBatches
    BY <1>1, <2>3 DEF BatchesTyped
  <2> QED BY <1>2, <2>1, <2>3, <2>4, StampQuiet
<1>12. ASSUME SetWrk(w, IdleWorker)
       PROVE  WrkBatches' = [WrkBatches EXCEPT ![w] = <<>>] /\ AtWork' \subseteq AtWork
  BY <1>2, <1>3, <1>12
<1>13. ASSUME UpsertRun(w)
       PROVE  Stamped(log, inflight, clock, CtlBatches, WrkBatches, AtWork)'
  <2>1. SetWrk(w, IdleWorker) /\ UNCHANGED <<log, inflight, clock, ctl>>
    BY <1>13 DEF UpsertRun
  <2> QED BY <1>2, <1>12, <2>1, StampQuiet
<1>14. ASSUME AppendFails(w)
       PROVE  Stamped(log, inflight, clock, CtlBatches, WrkBatches, AtWork)'
  <2>1. v.pc = "append" /\ NextAttempt(w) /\ UNCHANGED <<log, inflight, clock, ctl>>
    BY <1>14 DEF AppendFails
  <2> QED BY <1>2, <1>8, <2>1, StampQuiet
<1>15. ASSUME WorkerDies(w)
       PROVE  Stamped(log, inflight, clock, CtlBatches, WrkBatches, AtWork)'
  <2> DEFINE b == v.events
  <2>1. /\ SetWrk(w, IdleWorker) /\ UNCHANGED <<log, clock, ctl>>
        /\ \/ UNCHANGED inflight
           \/ ~ AlreadyStored(b) /\ inflight' = b
    BY <1>15 DEF WorkerDies, Fits
  <2>2. WrkBatches' = [WrkBatches EXCEPT ![w] = <<>>] /\ AtWork' \subseteq AtWork
    BY <1>12, <2>1
  <2>3. CASE UNCHANGED inflight
    BY <1>2, <2>1, <2>2, <2>3, StampQuiet
  <2>4. CASE ~ AlreadyStored(b) /\ inflight' = b
    <3>1. /\ b \in Seq(Events) /\ Rising(b) /\ Before(b, clock) /\ Apart(b, log)
          /\ \A h \in Handlers : Apart(CtlBatches[h], b)
          /\ \A u \in Workers \ {w} : Apart(WrkBatches[u], b)
      BY <1>1, <1>9, <2>4
    <3> HIDE DEF b
    <3>2. \A u \in Workers :
            \/ WrkBatches'[u] = <<>>
            \/ WrkBatches'[u] = WrkBatches[u]
               /\ (Apart(WrkBatches[u], b) \/ (WrkBatches[u] = b /\ u \notin AtWork'))
      BY <1>1, <2>2, <3>1 DEF BatchesTyped
    <3>3. \A h \in Handlers : CtlBatches[h] = <<>>
                              \/ (CtlBatches[h] = CtlBatches[h] /\ Apart(CtlBatches[h], b))
      BY <3>1
    <3>4. Stamped(log, b, clock, CtlBatches, WrkBatches', AtWork')
      BY <1>1, <2>2, <3>1, <3>2, <3>3, StampFly
    <3> QED BY <1>2, <2>1, <2>4, <3>4
  <2> QED BY <2>1, <2>3, <2>4
<1> QED BY <1>4, <1>5, <1>6, <1>7, <1>10, <1>11, <1>13, <1>14, <1>15 DEF WorkerStep

(* The first batch of a run that nobody else knows.                         *)
LEMMA StampFirst ==
    ASSUME NEW C, NEW W, NEW N, NEW t \in Nat, NEW t2 \in Nat,
           \A h \in Handlers : C[h] = <<>>, \A w \in Workers : W[w] = <<>>,
           NEW b \in Seq(Events), Fresh(b, t, t2)
    PROVE  Stamped(b, <<>>, t2, C, W, N)
<1>1. Ats(<<>>) = {} /\ Rising(<<>>) /\ Ats(b) \in SUBSET Nat
  BY AtsTyped
<1>2. Before(b, t2) /\ Before(<<>>, t2) /\ Apart(<<>>, <<>>) /\ Apart(<<>>, b)
  BY <1>1 DEF Fresh, Before, Apart
<1>3. Once(b)
  <2>1. Rising(b) /\ \A k \in 1..Len(b) : b[k].at \in Nat
    BY <1>1 DEF Fresh, Ats
  <2> QED BY <2>1 DEF Rising, Once
<1>4. ASSUME NEW h \in Handlers
      PROVE  /\ Before(C[h], t2) /\ Rising(C[h])
             /\ Apart(C[h], b) /\ Apart(C[h], <<>>)
             /\ \A g \in Handlers \ {h} : Apart(C[h], C[g])
             /\ \A w \in Workers : Apart(C[h], W[w])
  BY <1>1, <1>2
<1>5. ASSUME NEW w \in Workers
      PROVE  /\ Before(W[w], t2) /\ Rising(W[w])
             /\ \A v \in Workers \ {w} : Apart(W[w], W[v])
             /\ Apart(W[w], b) /\ Apart(W[w], <<>>)
  BY <1>1, <1>2
<1> QED BY <1>1, <1>2, <1>3, <1>4, <1>5 DEF Stamped

(* The creation of the run and the end of a transaction.                    *)
LEMMA StampCreate ==
    ASSUME TypeInv, StampInv, StartRun \/ UpsertCreated \/ CreateRunDies \/ EndInflight
    PROVE  Stamped(log, inflight, clock, CtlBatches, WrkBatches, AtWork)'
<1>1. /\ UNCHANGED ctl => UNCHANGED CtlBatches
      /\ UNCHANGED wrk => UNCHANGED <<WrkBatches, AtWork>>
      /\ Stamped(log, inflight, clock, CtlBatches, WrkBatches, AtWork)
      /\ BatchesTyped(log, inflight, clock, CtlBatches, WrkBatches)
  BY CtlBatchesStep, WrkBatchesStep, BatchesAre DEF StampInv
<1>2. ASSUME StartRun
      PROVE  Stamped(log, inflight, clock, CtlBatches, WrkBatches, AtWork)'
  <2> DEFINE first == RunEvent("RunStarted", "api", clock)
             rest  == AssignAll(Items, "api", clock + 1)
             n     == Cardinality(Items)
             b     == <<first>> \o rest
  <2>1. /\ clock \in Nat /\ clock + 1 \in Nat /\ "api" \in Workers \cup {"api"}
        /\ Items \in SUBSET Items
    BY DEF TypeInv
  <2>2. first \in Events /\ first.at = clock
    BY <2>1, RunEventsMade DEF RunEvent, Event
  <2>3. Assigns(rest, Items, "api", clock + 1)
    BY <2>1, AssignAllIs
  <2>4. creation = "new" /\ log' = b /\ clock' = clock + 1 + n /\ UNCHANGED <<inflight, ctl, wrk>>
    BY <1>2 DEF StartRun
  <2> HIDE DEF first, rest
  <2>5. /\ b \in Seq(Events) /\ clock + 1 + n \in Nat /\ Fresh(b, clock, clock + 1 + n)
    BY <2>1, <2>2, <2>3, LedBatch
  <2> HIDE DEF b, n
  <2>6. /\ inflight = <<>>
        /\ \A h \in Handlers : CtlBatches[h] = <<>>
        /\ \A w \in Workers : WrkBatches[w] = <<>>
    <3>1. /\ inflight = <<>> /\ \A h \in Handlers : ctl[h].pc = "idle"
          /\ \A w \in Workers : wrk[w].pc = "idle"
      BY <2>4 DEF StampInv, NotStarted
    <3>2. \A h \in Handlers : ctl[h].events = <<>>
      BY <3>1 DEF TypeInv, LiveControls
    <3>3. \A w \in Workers : wrk[w].events = <<>>
      BY <3>1 DEF TypeInv, LiveWorkers
    <3> QED BY <3>1, <3>2, <3>3 DEF CtlBatches, WrkBatches
  <2>7. Stamped(b, <<>>, clock + 1 + n, CtlBatches, WrkBatches, AtWork)
    BY <2>1, <2>5, <2>6, StampFirst
  <2> QED BY <1>1, <2>4, <2>6, <2>7
<1>3. ASSUME UpsertCreated \/ CreateRunDies
      PROVE  Stamped(log, inflight, clock, CtlBatches, WrkBatches, AtWork)'
  <2>1. UNCHANGED <<log, inflight, clock, ctl, wrk>>
    BY <1>3 DEF UpsertCreated, CreateRunDies
  <2> QED BY <1>1, <2>1, StampQuiet
<1>4. ASSUME EndInflight
      PROVE  Stamped(log, inflight, clock, CtlBatches, WrkBatches, AtWork)'
  <2>1. /\ inflight # <<>> /\ inflight' = <<>>
        /\ log' = log \/ log' = log \o inflight
        /\ UNCHANGED <<clock, ctl, wrk>>
    BY <1>4 DEF EndInflight
  <2>2. Stamped(log', <<>>, clock, CtlBatches, WrkBatches, AtWork)
    BY <1>1, <2>1, StampEnd
  <2> QED BY <1>1, <2>1, <2>2
<1> QED BY <1>2, <1>3, <1>4

(* Before the run is started only a rebuild moves.                          *)
LEMMA NotStartedStep ==
    ASSUME TypeInv, StampInv, [Next]_vars
    PROVE  NotStarted'
<1>1. SUFFICES ASSUME creation' = "new"
               PROVE  /\ log' = <<>> /\ inflight' = <<>>
                      /\ \A h \in Handlers : ctl'[h].pc = "idle"
                      /\ \A w \in Workers : wrk'[w].pc = "idle"
  BY DEF NotStarted
<1>2. ASSUME creation = "new"
      PROVE  /\ log = <<>> /\ inflight = <<>>
             /\ \A h \in Handlers : ctl[h].pc = "idle"
             /\ \A w \in Workers : wrk[w].pc = "idle"
  BY <1>2 DEF StampInv, NotStarted
<1>3. CASE UNCHANGED vars
  BY <1>1, <1>2, <1>3 DEF vars
<1>4. ASSUME StartRun \/ UpsertCreated \/ CreateRunDies PROVE FALSE
  BY <1>1, <1>4 DEF StartRun, UpsertCreated, CreateRunDies
<1>5. ASSUME EndInflight PROVE FALSE
  BY <1>1, <1>2, <1>5 DEF EndInflight
<1>6. ASSUME NEW h \in Handlers,
             (\E kind \in Requests : Decide(h, kind)) \/ ControlStep(h) \/ ControlFails(h)
      PROVE  FALSE
  <2>1. UNCHANGED creation
    BY <1>6 DEF Decide, ControlStep, NextRevision, AppendControl, SyncStatus, ControlFails
  <2>2. log = <<>> /\ ctl[h].pc = "idle"
    BY <1>1, <1>2, <2>1
  <2> QED BY <1>6, <2>2 DEF Decide, ControlStep, NextRevision, AppendControl, SyncStatus,
                             ControlFails
<1>7. ASSUME NEW w \in Workers, WorkerStep(w) \/ AppendFails(w) \/ WorkerDies(w)
      PROVE  FALSE
  <2>1. UNCHANGED creation
    BY <1>7 DEF WorkerStep, LoadRun, ExecuteItem, FinishTurn, RebaseBatch, AppendBatch,
                UpsertItem, UpsertRun, AppendFails, WorkerDies
  <2>2. log = <<>> /\ wrk[w].pc = "idle"
    BY <1>1, <1>2, <2>1
  <2>3. LoadRun(w)
    BY <1>7, <2>2 DEF WorkerStep, ExecuteItem, FinishTurn, RebaseBatch, AppendBatch,
                      UpsertItem, UpsertRun, AppendFails, WorkerDies
  <2>4. \E k \in DOMAIN ByTime : ByTime[k].type = "RunStarted"
    BY <2>3 DEF LoadRun, WorkerFold
  <2>5. DOMAIN ByTime = {}
    BY <2>2 DEF ByTime, InTimeOrder
  <2> QED BY <2>4, <2>5
<1>8. ASSUME RebuildLoad \/ RebuildStep \/ RebuildFails
      PROVE  UNCHANGED <<creation, log, inflight, ctl, wrk>>
  BY <1>8 DEF RebuildLoad, RebuildStep, RebuildFails, ClearItems, ClearRuns, RebuildRun,
              RebuildItem, RebuildEnds
<1> QED BY <1>1, <1>2, <1>3, <1>4, <1>5, <1>6, <1>7, <1>8 DEF Next

(* The stamps are in order at the start.                                   *)
LEMMA StampInit == TypeInv /\ Init => StampInv
<1> SUFFICES ASSUME TypeInv, Init PROVE StampInv
  OBVIOUS
<1>1. /\ log = <<>> /\ inflight = <<>> /\ clock = 0
      /\ \A h \in Handlers : ctl[h] = IdleControl
      /\ \A w \in Workers : wrk[w] = IdleWorker
  BY DEF Init
<1>2. /\ \A h \in Handlers : CtlBatches[h] = <<>> /\ ctl[h].pc = "idle"
      /\ \A w \in Workers : WrkBatches[w] = <<>> /\ wrk[w].pc = "idle"
  BY <1>1, IdleIsTyped DEF CtlBatches, WrkBatches
<1>3. <<>> \in Seq(Events) /\ 0 \in Nat /\ Fresh(<<>>, 0, 0)
  BY DEF Fresh, Rising, Ats
<1>4. Stamped(<<>>, <<>>, 0, CtlBatches, WrkBatches, AtWork)
  BY <1>2, <1>3, StampFirst
<1> QED BY <1>1, <1>2, <1>4 DEF StampInv, NotStarted

(* Every step keeps them so.                                               *)
LEMMA StampStep == TypeInv /\ StampInv /\ [Next]_vars => StampInv'
<1> SUFFICES ASSUME TypeInv, StampInv, [Next]_vars PROVE StampInv'
  OBVIOUS
<1>1. /\ UNCHANGED ctl => UNCHANGED CtlBatches
      /\ UNCHANGED wrk => UNCHANGED <<WrkBatches, AtWork>>
  BY CtlBatchesStep, WrkBatchesStep
<1>2. ASSUME UNCHANGED vars \/ RebuildLoad \/ RebuildStep \/ RebuildFails
      PROVE  Stamped(log, inflight, clock, CtlBatches, WrkBatches, AtWork)'
  <2>1. UNCHANGED <<log, inflight, clock, ctl, wrk>>
    BY <1>2 DEF vars, RebuildLoad, RebuildStep, RebuildFails, ClearItems, ClearRuns,
                RebuildRun, RebuildItem, RebuildEnds
  <2> QED BY <1>1, <2>1, StampQuiet
<1>3. Stamped(log, inflight, clock, CtlBatches, WrkBatches, AtWork)'
  BY <1>2, StampCreate, StampRequest, StampWorker DEF Next
<1> QED BY <1>3, NotStartedStep DEF StampInv

-----------------------------------------------------------------------------
(* Every variable keeps its type, for any items, workers, handlers and      *)
(* bounds.  That no stamp is used twice is needed for it: load_all brings   *)
(* the log into an order only then.                                         *)
THEOREM TypesHold == Spec => []TypeOK
<1>1. Init => TypeInv /\ StampInv
  BY TypeInit, StampInit
<1>2. TypeInv /\ StampInv /\ [Next]_vars => (TypeInv /\ StampInv)'
  BY TypeStep, StampStep, StampInvOnce DEF TypeInv
<1>3. TypeInv /\ StampInv => TypeOK
  BY TypeInvImpliesTypeOK
<1> QED BY <1>1, <1>2, <1>3, PTL DEF Spec

(* No event is in the log twice (append_events_with_retry sends the same    *)
(* ids again): a batch that waits in memory has no event of the log, unless *)
(* its first one is there - and for that one append looks.                  *)
THEOREM EventsAreOnce == Spec => []EventsOnce
<1>1. Init => TypeInv /\ StampInv
  BY TypeInit, StampInit
<1>2. TypeInv /\ StampInv /\ [Next]_vars => (TypeInv /\ StampInv)'
  BY TypeStep, StampStep, StampInvOnce DEF TypeInv
<1>3. TypeInv /\ StampInv => EventsOnce
  BY StampInvOnce DEF TypeInv
<1> QED BY <1>1, <1>2, <1>3, PTL DEF Spec

=============================================================================
