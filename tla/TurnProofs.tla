------------------------------ MODULE TurnProofs ------------------------------
(***************************************************************************)
(* How often work is done, for any items, workers, handlers, requests,     *)
(* outcomes and bounds: a worker goes on with a stopped run for no more    *)
(* than the turn it is in, and an item is not executed more often than it  *)
(* was assigned and an execution was lost.                                 *)
(***************************************************************************)
EXTENDS RunHistoryProofs

-----------------------------------------------------------------------------
(* Turns.  What a worker has executed is counted by its stamps, in the log, *)
(* in flight and in its memory together: a batch that is sent again, or is  *)
(* in two of these places, counts once.                                     *)

(* The stamps of the events from place p on that are of one of the types,   *)
(* about one of the items and made by one of the processes.                 *)
Chosen(s, p, types, items, by) ==
    {k \in p..Len(s) : s[k].type \in types /\ s[k].item \in items /\ s[k].by \in by}
Stamps(s, p, types, items, by) == {s[k].at : k \in Chosen(s, p, types, items, by)}

(* What has been executed by w since place p, the completions of an item by *)
(* w, and the assignments of the item.                                      *)
Turns(s, p, w) == Stamps(s, p, {"WorkItemCompleted", "WorkItemFailed"}, Items, {w})
Wins(s, i, w)  == Stamps(s, 1, {"WorkItemCompleted"}, {i}, {w})
Deals(s, i)    == Stamps(s, 1, {"WorkItemAssigned"}, {i}, Workers \cup {"api"})

(* Who makes which events: RunStarted is the first event and no other, a    *)
(* control request executes nothing, and a worker asks for nothing.         *)
Asks(b)  == \A k \in 1..Len(b) : /\ b[k].by = "api"
                                 /\ b[k].type \in {"RunStatusChanged", "WorkItemAssigned"}
Works(w, b) == \A k \in 1..Len(b) :
    /\ b[k].by = w
    /\ b[k].type \notin {"RunStarted", "RunStatusChanged", "WorkItemAssigned"}
Asked(s) == \A k \in 1..Len(s) :
    s[k].type \in {"RunStarted", "RunStatusChanged", "WorkItemAssigned"} => s[k].by = "api"
(* A batch has one origin.                                                  *)
Pure(b)  == Asks(b) \/ \E w \in Workers : Works(w, b)
OriginInv ==
    /\ Asked(log)
    /\ \A k \in 1..Len(log) : log[k].type = "RunStarted" => k = 1
    /\ Pure(inflight)
    /\ \A h \in Handlers : Asks(ctl[h].events)
    /\ \A w \in Workers : Works(w, wrk[w].events)

(* After place p the run is stopped for good, as far as the log L goes.     *)
Stopped(L, p) ==
    /\ p \in 1..Len(L)
    /\ L[p].type = "RunStatusChanged" /\ L[p].status \in {"paused", "cancelled"}
    /\ \A q \in 1..Len(L) :
        L[q].type = "RunStatusChanged" /\ L[q].status = "running" => q < p

(* A worker that is in its turn when the run is stopped has nothing stored  *)
(* or in flight since, and what it has executed since is one turn's.        *)
AllTurns(L, F, v, p, w) == Turns(L, p, w) \cup Turns(F, 1, w) \cup Turns(v.events, 1, w)
Heeds(L, F, w, v) ==
    /\ v.pc = "work" => Cardinality(Turns(v.events, 1, w)) <= v.count
    /\ Cardinality(Turns(v.events, 1, w)) <= ItemsPerLoop
    /\ \A p \in 1..Len(L) : Stopped(L, p) =>
        /\ v.pc = "work" => Turns(L, p, w) = {} /\ Turns(F, 1, w) = {}
        /\ Cardinality(AllTurns(L, F, v, p, w)) <= ItemsPerLoop

(* Each completion has an assignment before it, or a fault; one more is     *)
(* left over while the batch in flight may still be executed again, and     *)
(* while the worker has the item to execute.                                *)
AllWins(L, F, v, i, w) == Wins(L, i, w) \cup Wins(F, i, w) \cup Wins(v.events, i, w)
Upto(S, t)  == {x \in S : x <= t}
Below(S, t) == {x \in S : x < t}
Owes(W, D, n)   == \A t \in Nat : Cardinality(Upto(W, t)) <= Cardinality(Below(D, t)) + n
Spares(W, D, n) == \A t \in Nat : Cardinality(Upto(W, t)) + 1 <= Cardinality(Below(D, t)) + n
Pays(L, F, w, v, n, i) ==
    /\ Owes(AllWins(L, F, v, i, w), Deals(L, i), n)
    /\ Wins(F, i, w) # {} /\ Wins(v.events, i, w) \subseteq Wins(F, i, w) =>
        Spares(AllWins(L, F, v, i, w), Deals(L, i), n)
    /\ v.pc = "work" /\ v.items[i] = "assigned" =>
        Cardinality(AllWins(L, F, v, i, w)) + 1 <= Cardinality(Deals(L, i)) + n

TurnInv ==
    /\ OriginInv
    /\ \A w \in Workers : Heeds(log, inflight, w, wrk[w])
    /\ \A w \in Workers, i \in Items : Pays(log, inflight, w, wrk[w], faults, i)

(* Stamps are numbers, there are finitely many, and no batch has none.      *)
LEMMA StampsTyped ==
    ASSUME NEW s \in Seq(Events), NEW p \in Nat \ {0}, NEW types, NEW items, NEW by
    PROVE  /\ Stamps(s, p, types, items, by) \in SUBSET Ats(s)
           /\ Stamps(s, p, types, items, by) \in SUBSET Nat
           /\ IsFiniteSet(Stamps(s, p, types, items, by))
           /\ IsFiniteSet(Chosen(s, p, types, items, by))
           /\ Cardinality(Stamps(s, p, types, items, by)) \in Nat
           /\ Once(s) => Cardinality(Stamps(s, p, types, items, by))
                           = Cardinality(Chosen(s, p, types, items, by))
<1> DEFINE C == Chosen(s, p, types, items, by)
           S == Stamps(s, p, types, items, by)
           f == [k \in C |-> s[k].at]
<1>1. Len(s) \in Nat /\ C \in SUBSET (1..Len(s)) /\ S = {s[k].at : k \in C}
  BY EffortsTyped DEF Chosen, Stamps
<1>2. IsFiniteSet(C)
  <2>1. IsFiniteSet(1..Len(s))
    BY <1>1, FS_Interval
  <2> QED BY <1>1, <2>1, FS_Subset
<1>3. S \in SUBSET Ats(s) /\ S \in SUBSET Nat
  BY <1>1, AtsTyped DEF Ats
<1> HIDE DEF C, S
<1>4. f \in Surjection(C, S)
  BY <1>1 DEF Surjection
<1>5. IsFiniteSet(S) /\ Cardinality(S) \in Nat
  BY <1>2, <1>4, FS_Surjection, FS_CardinalityType
<1>6. ASSUME Once(s) PROVE Cardinality(S) = Cardinality(C)
  <2>1. \A j, k \in C : s[j].at = s[k].at => j = k
    BY <1>1, <1>6 DEF Once
  <2>2. f \in Injection(C, S)
    BY <1>4, <2>1 DEF Injection, IsInjective, Surjection
  <2> QED BY <1>2, <1>4, <2>2, FS_Surjection
<1> QED BY <1>2, <1>3, <1>5, <1>6 DEF C, S

(* Stamps of a batch behind the log.                                        *)
LEMMA StampsJoin ==
    ASSUME NEW s \in Seq(Events), NEW b \in Seq(Events), NEW types, NEW items, NEW by
    PROVE  /\ \A p \in 1..(Len(s) + 1) :
                Stamps(s \o b, p, types, items, by)
                  = Stamps(s, p, types, items, by) \cup Stamps(b, 1, types, items, by)
           /\ \A p \in 1..Len(s \o b) : p > Len(s) =>
                Stamps(s \o b, p, types, items, by) \subseteq Stamps(b, 1, types, items, by)
<1> DEFINE t == s \o b
           m == Len(s)
           n == Len(b)
           Fits3(e) == e.type \in types /\ e.item \in items /\ e.by \in by
<1>1. /\ m \in Nat /\ n \in Nat /\ Len(t) = m + n
      /\ \A k \in 1..m : k \in 1..Len(t) /\ t[k] = s[k]
      /\ \A k \in 1..n : m + k \in 1..Len(t) /\ t[m + k] = b[k]
      /\ \A k \in 1..Len(t) : \/ k \in 1..m /\ t[k] = s[k]
                              \/ k - m \in 1..n /\ t[k] = b[k - m]
  BY EffortsTyped, JoinIs
<1>2. \A q, x :
        /\ x \in Stamps(s, q, types, items, by) <=> \E k \in q..m : Fits3(s[k]) /\ s[k].at = x
        /\ x \in Stamps(b, q, types, items, by) <=> \E k \in q..n : Fits3(b[k]) /\ b[k].at = x
        /\ x \in Stamps(t, q, types, items, by) <=>
             \E k \in q..Len(t) : Fits3(t[k]) /\ t[k].at = x
  BY DEF Stamps, Chosen
<1> HIDE DEF t, m, n, Fits3
<1>3. ASSUME NEW p \in 1..Len(t), NEW x \in Stamps(t, p, types, items, by)
      PROVE  \/ x \in Stamps(s, p, types, items, by) /\ p <= m
             \/ x \in Stamps(b, 1, types, items, by)
  <2>1. PICK k \in p..Len(t) : Fits3(t[k]) /\ t[k].at = x
    BY <1>2
  <2>2. k \in 1..Len(t)
    BY <1>1
  <2>3. CASE k \in 1..m /\ t[k] = s[k]
    <3>1. k \in p..m /\ p <= m
      BY <1>1, <2>3
    <3> QED BY <1>2, <2>1, <2>3, <3>1
  <2>4. CASE k - m \in 1..n /\ t[k] = b[k - m]
    BY <1>2, <2>1, <2>4
  <2> QED BY <1>1, <2>2, <2>3, <2>4
<1>4. ASSUME NEW p \in 1..(m + 1), NEW x \in Stamps(b, 1, types, items, by)
      PROVE  x \in Stamps(t, p, types, items, by)
  <2>1. PICK k \in 1..n : Fits3(b[k]) /\ b[k].at = x
    BY <1>2
  <2>2. m + k \in p..Len(t) /\ t[m + k] = b[k]
    <3>1. m + k \in 1..Len(t) /\ t[m + k] = b[k]
      BY <1>1
    <3>2. m \in Int /\ p \in Int /\ k \in Int /\ Len(t) \in Int /\ p <= m + 1 /\ 1 <= k
      BY <1>1
    <3>3. m + k \in Int /\ p <= m + k /\ m + k <= Len(t)
      BY <3>1, <3>2
    <3> QED BY <3>1, <3>2, <3>3
  <2> QED BY <1>2, <2>1, <2>2
<1>5. ASSUME NEW p \in 1..(m + 1), NEW x \in Stamps(s, p, types, items, by)
      PROVE  x \in Stamps(t, p, types, items, by)
  <2>1. PICK k \in p..m : Fits3(s[k]) /\ s[k].at = x
    BY <1>2
  <2>2. k \in p..Len(t) /\ t[k] = s[k]
    BY <1>1
  <2> QED BY <1>2, <2>1, <2>2
<1>6. ASSUME NEW p \in 1..(m + 1)
      PROVE  Stamps(t, p, types, items, by)
               = Stamps(s, p, types, items, by) \cup Stamps(b, 1, types, items, by)
  <2>1. CASE p \in 1..Len(t)
    BY <1>3, <1>4, <1>5, <1>6, <2>1
  <2>2. CASE p > Len(t)
    <3>1. Stamps(t, p, types, items, by) = {}
      BY <1>1, <1>2, <2>2
    <3> QED BY <1>4, <1>5, <1>6, <3>1
  <2> QED BY <1>1, <2>1, <2>2
<1>7. ASSUME NEW p \in 1..Len(t), p > m
      PROVE  Stamps(t, p, types, items, by) \subseteq Stamps(b, 1, types, items, by)
  BY <1>1, <1>3, <1>7
<1> QED BY <1>6, <1>7 DEF t, m

-----------------------------------------------------------------------------
(* What a step is to one worker.                                            *)
Foreign(b, w) == \A k \in 1..Len(b) : b[k].by # w
Same(w)  == wrk'[w] = wrk[w]
Rests(w) == log' = log /\ inflight' = inflight /\ Same(w)
Lands(w) == /\ log' = log \/ log' = log \o inflight
            /\ inflight' = <<>> /\ Same(w)
Other(w) ==
    /\ inflight = <<>> /\ Same(w)
    /\ \E b \in Seq(Events) :
        /\ Foreign(b, w)
        /\ \/ log' = log \o b /\ inflight' = <<>>
           \/ log' = log /\ inflight' = b
Stores(w) ==
    /\ inflight = <<>> /\ inflight' = <<>> /\ log' = log \o wrk[w].events
    /\ wrk'[w].pc = "items" /\ wrk'[w].events = <<>>
Flies(w) ==
    /\ inflight = <<>> /\ inflight' = wrk[w].events /\ log' = log /\ faults' = faults + 1
    /\ wrk'[w].pc # "work" /\ wrk'[w].events \in {wrk[w].events, <<>>}
Keeps(w) ==
    /\ log' = log /\ inflight' = inflight /\ wrk'[w].pc # "work"
    /\ \/ wrk'[w].events = wrk[w].events
       \/ \E e \in Events : /\ e.type = "RunCompleted" /\ e.by = w
                            /\ wrk'[w].events = wrk[w].events \o <<e>>
Drops(w) ==
    /\ log' = log /\ inflight' = inflight /\ wrk'[w].pc # "work" /\ wrk'[w].events = <<>>
    /\ wrk[w].events = <<>> \/ inflight = <<>> \/ faults' = faults + 1
Moves(w) ==
    \/ Rests(w) \/ Lands(w) \/ Other(w) \/ Stores(w) \/ Flies(w) \/ Keeps(w) \/ Drops(w)
    \/ LoadRun(w)
    \/ \E i \in Items, o \in Outcomes : ExecuteItem(w, i, o)

(* One step of a worker, to that worker.                                    *)
LEMMA OwnMoves ==
    ASSUME TypeInv, NEW w \in Workers, WorkerStep(w) \/ AppendFails(w) \/ WorkerDies(w)
    PROVE  Moves(w)
<1> DEFINE v == wrk[w]
<1>1. /\ v \in LiveWorkers /\ v \in WorkerStates /\ v.events \in Seq(Events)
      /\ clock \in Nat
  <2>1. v \in LiveWorkers /\ clock \in Nat
    BY DEF TypeInv
  <2>2. v \in WorkerStates
    BY <2>1 DEF LiveWorkers
  <2> QED BY <2>1, <2>2 DEF WorkerStates
<1>2. ASSUME NEW r, SetWrk(w, r) PROVE wrk'[w] = r
  BY <1>2 DEF SetWrk, TypeInv
<1>3. IdleWorker.pc = "idle" /\ IdleWorker.events = <<>>
  BY DEF IdleWorker
<1>4. ASSUME NextAttempt(w)
      PROVE  \/ wrk'[w].pc = "load" /\ wrk'[w].events = v.events
             \/ wrk'[w].pc = "idle" /\ wrk'[w].events = <<>>
  <2> DEFINE r == [v EXCEPT !.pc = "load", !.base = 0]
  <2>1. SetWrk(w, r) \/ SetWrk(w, IdleWorker)
    BY <1>4 DEF NextAttempt
  <2>2. r.pc = "load" /\ r.events = v.events
    BY <1>1 DEF WorkerStates
  <2> HIDE DEF r
  <2> QED BY <1>2, <1>3, <2>1, <2>2
<1>5. ASSUME FinishTurn(w) PROVE Keeps(w) \/ Drops(w)
  <2> DEFINE e == RunEvent("RunCompleted", w, clock)
             events == IF Completes(w) THEN Append(v.events, e) ELSE v.events
             r == [v EXCEPT !.pc = "load", !.events = events, !.count = 0,
                       !.status = IF Completes(w) THEN "completed" ELSE @]
  <2>1. /\ log' = log /\ inflight' = inflight
        /\ \/ events = <<>> /\ SetWrk(w, IdleWorker)
           \/ SetWrk(w, r)
    BY <1>5 DEF FinishTurn
  <2>2. r.pc = "load" /\ r.events = events
    BY <1>1 DEF WorkerStates
  <2>3. e \in Events /\ e.type = "RunCompleted" /\ e.by = w
    <3>1. w \in Workers \cup {"api"}
      OBVIOUS
    <3> QED BY <1>1, <3>1, RunEventsMade DEF RunEvent, Event
  <2> HIDE DEF e, r
  <2>4. \/ events = v.events
        \/ events = v.events \o <<e>> /\ events # <<>>
    <3>1. Append(v.events, e) = v.events \o <<e>> /\ Append(v.events, e) # <<>>
      BY <1>1, <2>3, AppendIsConcat, AppendProperties
    <3> QED BY <3>1
  <2> HIDE DEF events
  <2>5. CASE events = <<>> /\ SetWrk(w, IdleWorker)
    BY <1>2, <1>3, <2>1, <2>4, <2>5 DEF Drops
  <2>6. CASE SetWrk(w, r)
    <3>1. wrk'[w] = r
      BY <1>2, <2>6
    <3>2. wrk'[w].pc # "work" /\ wrk'[w].events = events
      BY <2>2, <3>1
    <3> QED BY <2>1, <2>3, <2>4, <3>2 DEF Keeps
  <2> QED BY <2>1, <2>5, <2>6
<1>6. ASSUME RebaseBatch(w) PROVE Keeps(w)
  <2> DEFINE r == [v EXCEPT !.pc = "append", !.base = Len(log), !.attempt = @ + 1]
  <2>1. r.pc = "append" /\ r.events = v.events
    BY <1>1 DEF WorkerStates
  <2>2. SetWrk(w, r) /\ log' = log /\ inflight' = inflight
    BY <1>6 DEF RebaseBatch
  <2> HIDE DEF r
  <2> QED BY <1>2, <2>1, <2>2 DEF Keeps
<1>7. ASSUME UpsertItem(w) PROVE Keeps(w)
  <2> DEFINE r == [v EXCEPT !.todo = Tail(@)]
  <2>1. r.pc = v.pc /\ r.events = v.events
    BY <1>1 DEF WorkerStates
  <2>2. SetWrk(w, r) /\ log' = log /\ inflight' = inflight /\ v.pc = "items"
    BY <1>7 DEF UpsertItem
  <2> HIDE DEF r
  <2> QED BY <1>2, <2>1, <2>2 DEF Keeps
<1>8. ASSUME UpsertRun(w) PROVE Drops(w)
  <2>1. v.events = <<>> /\ SetWrk(w, IdleWorker) /\ log' = log /\ inflight' = inflight
    BY <1>1, <1>8 DEF UpsertRun, LiveWorkers
  <2> QED BY <1>2, <1>3, <2>1 DEF Drops
<1>9. ASSUME AppendFails(w) PROVE Keeps(w) \/ Drops(w)
  <2>1. NextAttempt(w) /\ log' = log /\ inflight' = inflight /\ faults' = faults + 1
    BY <1>9 DEF AppendFails, Fault
  <2> QED BY <1>4, <2>1 DEF Keeps, Drops
<1>10. ASSUME WorkerDies(w) PROVE Flies(w) \/ Drops(w)
  <2>1. /\ SetWrk(w, IdleWorker) /\ log' = log /\ faults' = faults + 1
        /\ inflight' = inflight \/ (inflight = <<>> /\ inflight' = v.events)
    BY <1>10 DEF WorkerDies, Fault, LockFree
  <2> QED BY <1>2, <1>3, <2>1 DEF Flies, Drops
<1>11. ASSUME AppendBatch(w) PROVE Stores(w) \/ Flies(w) \/ Keeps(w) \/ Drops(w)
  <2> DEFINE r == [v EXCEPT !.pc = "items", !.events = <<>>, !.base = 0,
                      !.attempt = 0, !.todo = ItemUpserts(v.events)]
  <2>1. r.pc = "items" /\ r.events = <<>>
    BY <1>1 DEF WorkerStates
  <2> HIDE DEF r
  <2>2. /\ inflight = <<>>
        /\ \/ NextAttempt(w) /\ log' = log /\ inflight' = inflight
           \/ log' = log \o v.events /\ SetWrk(w, r) /\ inflight' = inflight
           \/ inflight' = v.events /\ NextAttempt(w) /\ faults' = faults + 1 /\ log' = log
    BY <1>11 DEF AppendBatch, LockFree, Fault, r
  <2>3. CASE NextAttempt(w) /\ log' = log /\ inflight' = inflight
    BY <1>4, <2>2, <2>3 DEF Keeps, Drops
  <2>4. CASE log' = log \o v.events /\ SetWrk(w, r) /\ inflight' = inflight
    BY <1>2, <2>1, <2>2, <2>4 DEF Stores
  <2>5. CASE inflight' = v.events /\ NextAttempt(w) /\ faults' = faults + 1 /\ log' = log
    BY <1>4, <2>2, <2>5 DEF Flies
  <2> QED BY <2>2, <2>3, <2>4, <2>5
<1> QED BY <1>5, <1>6, <1>7, <1>8, <1>9, <1>10, <1>11 DEF WorkerStep, Moves

(* Batches that are put one behind the other.                               *)
Late(b) == \A k \in 1..Len(b) : b[k].type # "RunStarted"
LEMMA OriginsJoin ==
    ASSUME NEW s \in Seq(Events), NEW b \in Seq(Events)
    PROVE  /\ Asks(s) /\ Asks(b) => Asks(s \o b)
           /\ \A w : Works(w, s) /\ Works(w, b) => Works(w, s \o b)
           /\ Late(b) /\ (\A k \in 1..Len(s) : s[k].type = "RunStarted" => k = 1)
                => \A k \in 1..Len(s \o b) : (s \o b)[k].type = "RunStarted" => k = 1
           /\ Pure(b) => Late(b) /\ Asked(b)
           /\ Asked(s) /\ Asked(b) => Asked(s \o b)
           /\ \A w \in Workers : Asks(b) => Foreign(b, w)
           /\ \A w, u : Works(u, b) /\ u # w => Foreign(b, w)
<1> DEFINE t == s \o b
<1>1. /\ \A k \in 1..Len(t) : \/ k \in 1..Len(s) /\ t[k] = s[k]
                              \/ k - Len(s) \in 1..Len(b) /\ t[k] = b[k - Len(s)]
  BY JoinIs
<1> HIDE DEF t
<1>2. Asks(s) /\ Asks(b) => Asks(t)
  BY <1>1 DEF Asks
<1>3. \A w : Works(w, s) /\ Works(w, b) => Works(w, t)
  BY <1>1 DEF Works
<1>4. Late(b) /\ (\A k \in 1..Len(s) : s[k].type = "RunStarted" => k = 1)
        => \A k \in 1..Len(t) : t[k].type = "RunStarted" => k = 1
  BY <1>1 DEF Late
<1>5. Asks(b) => Late(b) /\ Asked(b)
  BY DEF Asks, Late, Asked
<1>6. \A w : Works(w, b) => Late(b) /\ Asked(b)
  BY DEF Works, Late, Asked
<1>10. Pure(b) => Late(b) /\ Asked(b)
  BY <1>5, <1>6 DEF Pure
<1>9. Asked(s) /\ Asked(b) => Asked(t)
  BY <1>1 DEF Asked
<1>7. \A w \in Workers : Asks(b) => Foreign(b, w)
  BY WorkersAssumption DEF Asks, Foreign
<1>8. \A w, u : Works(u, b) /\ u # w => Foreign(b, w)
  BY DEF Works, Foreign
<1> QED BY <1>2, <1>3, <1>4, <1>5, <1>6, <1>7, <1>8, <1>9, <1>10 DEF t

(* What a control request makes is what it asks for.                        *)
LEMMA AsksMade ==
    ASSUME TypeInv, NEW kind \in Requests, NEW items \in SUBSET Items
    PROVE  LET b == <<StatusChanged(Target[kind], "api", clock)>>
                    \o AssignAll(items, "api", clock + 1)
           IN  Asks(b) /\ b \in Seq(Events)
<1> DEFINE first == StatusChanged(Target[kind], "api", clock)
           rest == AssignAll(items, "api", clock + 1)
<1>1. clock \in Nat /\ clock + 1 \in Nat /\ "api" \in Workers \cup {"api"}
  BY DEF TypeInv
<1>2. first \in Events /\ first.by = "api" /\ first.type = "RunStatusChanged"
  BY <1>1, TargetIs, RunEventsMade DEF StatusChanged, Event
<1>3. Assigns(rest, items, "api", clock + 1)
  BY <1>1, AssignAllIs
<1> HIDE DEF first, rest
<1>4. rest \in Seq(Events) /\ Asks(rest)
  BY <1>3 DEF Assigns, Asks
<1>5. <<first>> \in Seq(Events) /\ Asks(<<first>>)
  BY <1>2 DEF Asks
<1>6. Asks(<<first>> \o rest) /\ <<first>> \o rest \in Seq(Events)
  BY <1>4, <1>5, OriginsJoin, JoinIs
<1> QED BY <1>6 DEF first, rest

(* What an execution and the end of a turn make is the worker's own work.   *)
LEMMA WorksMade ==
    ASSUME NEW w \in Workers, clock \in Nat
    PROVE  /\ \A i \in Items, o \in Outcomes :
                /\ Works(w, ExecutionEvents(w, i, o))
                /\ ExecutionEvents(w, i, o) \in Seq(Events)
           /\ \A e \in Events : e.type = "RunCompleted" /\ e.by = w => Works(w, <<e>>)
           /\ Works(w, <<>>) /\ Asks(<<>>)
<1>1. ASSUME NEW i \in Items, NEW o \in Outcomes
      PROVE  /\ Works(w, ExecutionEvents(w, i, o))
             /\ ExecutionEvents(w, i, o) \in Seq(Events)
  <2> DEFINE b == ExecutionEvents(w, i, o)
  <2>1. /\ b \in Seq(Events)
        /\ \A k \in 1..Len(b) :
             /\ b[k].by = w
             /\ b[k].type \in {"WorkItemStarted", "WorkItemCompleted",
                               "WorkItemFailed", "ProgressChunkEmitted"}
    BY ExecutionEventsAre DEF Executed
  <2> HIDE DEF b
  <2>2. Works(w, b)
    BY <2>1 DEF Works
  <2> QED BY <2>1, <2>2 DEF b
<1>2. ASSUME NEW e \in Events, e.type = "RunCompleted", e.by = w PROVE Works(w, <<e>>)
  BY <1>2 DEF Works
<1>3. Works(w, <<>>) /\ Asks(<<>>)
  BY DEF Works, Asks
<1> QED BY <1>1, <1>2, <1>3

(* A handler holds nothing but what it asks for, in every step of its own.  *)
LEMMA ControlAsks ==
    ASSUME TypeInv, OriginInv, NEW h \in Handlers,
           (\E kind \in Requests : Decide(h, kind)) \/ ControlStep(h) \/ ControlFails(h)
    PROVE  /\ \A g \in Handlers : Asks(ctl'[g].events)
           /\ UNCHANGED wrk
           /\ \/ log' = log /\ inflight' = inflight
              \/ /\ inflight = <<>>
                 /\ \/ log' = log \o ctl[h].events /\ inflight' = <<>>
                    \/ log' = log /\ inflight' = ctl[h].events
<1> DEFINE c == ctl[h]
<1>1. c \in LiveControls /\ c \in ControlStates /\ ctl \in [Handlers -> LiveControls]
  BY DEF TypeInv, LiveControls
<1>2. Asks(c.events) /\ \A g \in Handlers : Asks(ctl[g].events)
  BY DEF OriginInv
<1>3. ASSUME NEW r, SetCtl(h, r), Asks(r.events) PROVE \A g \in Handlers : Asks(ctl'[g].events)
  <2>1. \A g \in Handlers : ctl'[g] = IF g = h THEN r ELSE ctl[g]
    BY <1>1, <1>3 DEF SetCtl
  <2> QED BY <1>2, <1>3, <2>1
<1>4. Asks(<<>>) /\ IdleControl.events = <<>>
  BY DEF Asks, IdleControl
<1>5. ASSUME NEW kind \in Requests, Decide(h, kind)
      PROVE  /\ \A g \in Handlers : Asks(ctl'[g].events)
             /\ UNCHANGED <<wrk, log, inflight>>
  <2>1. PICK S : \/ UNCHANGED ctl
                 \/ SetCtl(h, [IdleControl EXCEPT !.pc = "revision", !.kind = kind, !.reassign = S])
    BY <1>5 DEF Decide
  <2> DEFINE r == [IdleControl EXCEPT !.pc = "revision", !.kind = kind, !.reassign = S]
  <2>2. r.events = <<>>
    BY DEF IdleControl
  <2>3. UNCHANGED <<wrk, log, inflight>>
    BY <1>5 DEF Decide
  <2> HIDE DEF r
  <2>4. CASE UNCHANGED ctl
    BY <1>2, <2>3, <2>4
  <2>5. CASE SetCtl(h, r)
    BY <1>3, <1>4, <2>2, <2>3, <2>5
  <2> QED BY <2>1, <2>4, <2>5 DEF r
<1>6. ASSUME NextRevision(h)
      PROVE  /\ \A g \in Handlers : Asks(ctl'[g].events)
             /\ UNCHANGED <<wrk, log, inflight>>
  <2> DEFINE b == <<StatusChanged(Target[c.kind], "api", clock)>>
                  \o AssignAll(c.reassign, "api", clock + 1)
             r == [c EXCEPT !.pc = "append", !.base = Len(log), !.events = b]
  <2>1. SetCtl(h, r) /\ c.pc = "revision" /\ UNCHANGED <<wrk, log, inflight>>
    BY <1>6 DEF NextRevision
  <2>2. c.kind \in Requests /\ c.reassign \in SUBSET Items
    BY <1>1, <2>1 DEF LiveControls, ControlStates
  <2>3. Asks(b)
    BY <2>2, AsksMade
  <2> HIDE DEF b
  <2>4. r.events = b
    BY <1>1 DEF ControlStates
  <2> HIDE DEF r
  <2> QED BY <1>3, <2>1, <2>3, <2>4
<1>7. ASSUME AppendControl(h)
      PROVE  /\ \A g \in Handlers : Asks(ctl'[g].events)
             /\ UNCHANGED wrk
             /\ \/ log' = log /\ inflight' = inflight
                \/ /\ inflight = <<>>
                   /\ \/ log' = log \o c.events /\ inflight' = <<>>
                      \/ log' = log /\ inflight' = c.events
  <2> DEFINE r == [c EXCEPT !.pc = "sync", !.events = <<>>, !.base = 0]
  <2>1. /\ UNCHANGED wrk /\ inflight = <<>>
        /\ \/ SetCtl(h, IdleControl) /\ UNCHANGED <<log, inflight>>
           \/ SetCtl(h, r) /\ log' = log \o c.events /\ UNCHANGED inflight
           \/ SetCtl(h, IdleControl) /\ inflight' = c.events /\ UNCHANGED log
    BY <1>7 DEF AppendControl, LockFree
  <2>2. r.events = <<>>
    BY <1>1 DEF ControlStates
  <2> HIDE DEF r
  <2>3. \A g \in Handlers : Asks(ctl'[g].events)
    BY <1>3, <1>4, <2>1, <2>2
  <2> QED BY <2>1, <2>3
<1>8. ASSUME SyncStatus(h) \/ ControlFails(h)
      PROVE  /\ \A g \in Handlers : Asks(ctl'[g].events)
             /\ UNCHANGED <<wrk, log, inflight>>
  <2>1. SetCtl(h, IdleControl) /\ UNCHANGED <<wrk, log, inflight>>
    BY <1>8 DEF SyncStatus, ControlFails
  <2> QED BY <1>3, <1>4, <2>1
<1> QED BY <1>5, <1>6, <1>7, <1>8 DEF ControlStep

(* A worker holds nothing but its own work.                                 *)
LEMMA WorkerWorks ==
    ASSUME TypeInv, OriginInv, NEW w \in Workers, WorkerStep(w) \/ AppendFails(w) \/ WorkerDies(w)
    PROVE  /\ \A u \in Workers : Works(u, wrk'[u].events)
           /\ \A u \in Workers \ {w} : wrk'[u] = wrk[u]
           /\ UNCHANGED ctl
           /\ \/ log' = log /\ inflight' = inflight
              \/ /\ inflight = <<>>
                 /\ \/ log' = log \o wrk[w].events /\ inflight' = <<>>
                    \/ log' = log /\ inflight' = wrk[w].events
<1> DEFINE v == wrk[w]
<1>1. /\ v \in WorkerStates /\ v.events \in Seq(Events)
      /\ wrk \in [Workers -> LiveWorkers] /\ clock \in Nat
  <2>1. v \in LiveWorkers /\ clock \in Nat /\ wrk \in [Workers -> LiveWorkers]
    BY DEF TypeInv
  <2>2. v \in WorkerStates
    BY <2>1 DEF LiveWorkers
  <2> QED BY <2>1, <2>2 DEF WorkerStates
<1>2. Works(w, v.events) /\ \A u \in Workers : Works(u, wrk[u].events)
  BY DEF OriginInv
<1>3. \E r : SetWrk(w, r)
  BY DEF WorkerStep, LoadRun, ExecuteItem, FinishTurn, RebaseBatch, AppendBatch,
         UpsertItem, UpsertRun, AppendFails, WorkerDies, NextAttempt
<1>4. \A u \in Workers \ {w} : wrk'[u] = wrk[u]
  BY <1>1, <1>3 DEF SetWrk
<1>5. Moves(w)
  BY OwnMoves
<1>6. ASSUME LoadRun(w) PROVE Works(w, wrk'[w].events) /\ UNCHANGED <<log, inflight>>
  <2>1. PICK seen : SetWrk(w, [IdleWorker EXCEPT !.pc = "work", !.status = seen.status,
                                  !.items = seen.items, !.effort = seen.effort])
    BY <1>6 DEF LoadRun
  <2>2. wrk'[w].events = <<>>
    BY <1>1, <2>1 DEF SetWrk, IdleWorker
  <2>3. UNCHANGED <<log, inflight>>
    BY <1>6 DEF LoadRun
  <2> QED BY <1>1, <2>2, <2>3, WorksMade
<1>7. ASSUME NEW i \in Items, NEW o \in Outcomes, ExecuteItem(w, i, o)
      PROVE  Works(w, wrk'[w].events) /\ UNCHANGED <<log, inflight>>
  <2> DEFINE b == ExecutionEvents(w, i, o)
             t == v.events \o b
             r == [v EXCEPT
                      !.count = @ + 1,
                      !.events = @ \o b,
                      !.items[i] = IF o = "success" THEN "completed" ELSE "failed",
                      !.status = IF o = "success" THEN @ ELSE "blocked",
                      !.effort = IF o = "success" THEN @ + Effort ELSE @]
  <2>1. SetWrk(w, r) /\ UNCHANGED <<log, inflight>>
    BY <1>7 DEF ExecuteItem
  <2>2. r.events = t
    BY <1>1 DEF WorkerStates
  <2>3. Works(w, b) /\ b \in Seq(Events)
    BY <1>1, WorksMade
  <2>4. wrk'[w] = r
    BY <1>1, <2>1 DEF SetWrk
  <2> HIDE DEF r, b
  <2>5. Works(w, t)
    BY <1>1, <1>2, <2>3, OriginsJoin
  <2> QED BY <2>1, <2>2, <2>4, <2>5
<1>8. Works(w, wrk'[w].events)
  <2>1. Works(w, <<>>)
    BY <1>1, WorksMade
  <2>2. ASSUME NEW e \in Events, e.type = "RunCompleted", e.by = w
        PROVE  Works(w, v.events \o <<e>>)
    <3>1. <<e>> \in Seq(Events) /\ Works(w, <<e>>)
      BY <1>1, <2>2, WorksMade
    <3> QED BY <1>1, <1>2, <3>1, OriginsJoin
  <2> QED BY <1>2, <1>5, <1>6, <1>7, <2>1, <2>2
        DEF Moves, Rests, Lands, Other, Stores, Flies, Keeps, Drops, Same
<1>9. \/ log' = log /\ inflight' = inflight
      \/ /\ inflight = <<>>
         /\ \/ log' = log \o v.events /\ inflight' = <<>>
            \/ log' = log /\ inflight' = v.events
  BY DEF WorkerStep, LoadRun, ExecuteItem, FinishTurn, RebaseBatch, AppendBatch,
         UpsertItem, UpsertRun, AppendFails, WorkerDies, LockFree
<1>10. UNCHANGED ctl
  BY DEF WorkerStep, LoadRun, ExecuteItem, FinishTurn, RebaseBatch, AppendBatch,
         UpsertItem, UpsertRun, AppendFails, WorkerDies
<1>11. \A u \in Workers : Works(u, wrk'[u].events)
  BY <1>2, <1>4, <1>8
<1> QED BY <1>4, <1>9, <1>10, <1>11


-----------------------------------------------------------------------------
(* The steps, by what they do to the batches.                               *)
LEMMA StepsAre ==
    ASSUME [Next]_vars
    PROVE  \/ UNCHANGED <<log, inflight, ctl, wrk, faults>>
           \/ UNCHANGED <<log, inflight, ctl, wrk>> /\ Fault
           \/ EndInflight
           \/ StartRun
           \/ \E h \in Handlers :
                (\E kind \in Requests : Decide(h, kind)) \/ ControlStep(h) \/ ControlFails(h)
           \/ \E w \in Workers : WorkerStep(w) \/ AppendFails(w) \/ WorkerDies(w)
<1>1. CASE UNCHANGED vars
  BY <1>1 DEF vars
<1>2. ASSUME UpsertCreated \/ CreateRunDies
      PROVE  \/ UNCHANGED <<log, inflight, ctl, wrk, faults>>
             \/ UNCHANGED <<log, inflight, ctl, wrk>> /\ Fault
  BY <1>2 DEF UpsertCreated, CreateRunDies
<1>3. ASSUME RebuildLoad \/ RebuildStep \/ RebuildFails
      PROVE  \/ UNCHANGED <<log, inflight, ctl, wrk, faults>>
             \/ UNCHANGED <<log, inflight, ctl, wrk>> /\ Fault
  BY <1>3 DEF RebuildLoad, RebuildStep, RebuildFails, ClearItems, ClearRuns, RebuildRun,
              RebuildItem, RebuildEnds
<1> QED BY <1>1, <1>2, <1>3 DEF Next

(* The first batch: RunStarted and the assignments, all of them by the API. *)
LEMMA FirstBatchOrigin ==
    ASSUME TypeInv, StampInv, StartRun
    PROVE  /\ log = <<>> /\ inflight = <<>> /\ inflight' = <<>> /\ UNCHANGED <<ctl, wrk>>
           /\ log' \in Seq(Events) /\ Asked(log')
           /\ \A k \in 1..Len(log') : /\ log'[k].type = "RunStarted" => k = 1
                                      /\ log'[k].by = "api"
                                      /\ log'[k].type \in {"RunStarted", "WorkItemAssigned"}
<1> DEFINE first == RunEvent("RunStarted", "api", clock)
           rest == AssignAll(Items, "api", clock + 1)
           b == <<first>> \o rest
<1>1. /\ log' = b /\ log = <<>> /\ inflight = <<>> /\ inflight' = <<>>
      /\ UNCHANGED <<ctl, wrk>>
  BY DEF StartRun, StampInv, NotStarted
<1>2. clock \in Nat /\ clock + 1 \in Nat /\ "api" \in Workers \cup {"api"}
  BY DEF TypeInv
<1>3. first \in Events /\ first.by = "api" /\ first.type = "RunStarted" /\ first.at = clock
  BY <1>2, RunEventsMade DEF RunEvent, Event
<1>4. Assigns(rest, Items, "api", clock + 1)
  BY <1>2, AssignAllIs
<1> HIDE DEF first, rest
<1>5. Leads(b, first, rest, clock, clock + 1 + Cardinality(Items))
  BY <1>2, <1>3, <1>4, LedIs
<1> HIDE DEF b
<1>6. b \in Seq(Events) /\ Len(b) \in Nat
  BY <1>5 DEF Leads
<1>7. ASSUME NEW k \in 1..Len(b)
      PROVE  /\ b[k].type = "RunStarted" => k = 1
             /\ b[k].by = "api" /\ b[k].type \in {"RunStarted", "WorkItemAssigned"}
  <2>1. CASE k = 1
    BY <1>3, <1>5, <2>1 DEF Leads
  <2>2. CASE k \in 2..Len(b)
    <3>1. k - 1 \in 1..Len(rest) /\ b[k] = rest[k - 1]
      BY <1>5, <2>2 DEF Leads
    <3>2. b[k].by = "api" /\ b[k].type = "WorkItemAssigned"
      BY <1>4, <3>1 DEF Assigns
    <3> QED BY <3>2
  <2> QED BY <1>6, <2>1, <2>2
<1>8. Asked(b)
  BY <1>7 DEF Asked
<1> QED BY <1>1, <1>6, <1>7, <1>8

(* A batch whose maker may make it keeps the origins of log and flight.     *)
LEMMA OriginStep ==
    ASSUME TypeInv, StampInv, OriginInv, [Next]_vars
    PROVE  OriginInv'
<1> DEFINE Logs == /\ Asked(log') /\ Pure(inflight')
                   /\ \A k \in 1..Len(log') : log'[k].type = "RunStarted" => k = 1
           Locals == /\ \A h \in Handlers : Asks(ctl'[h].events)
                     /\ \A w \in Workers : Works(w, wrk'[w].events)
<1>1. /\ log \in Seq(Events) /\ inflight \in Seq(Events)
      /\ \A h \in Handlers : ctl[h].events \in Seq(Events)
      /\ \A w \in Workers : wrk[w].events \in Seq(Events)
  <2>1. \A h \in Handlers : ctl[h] \in ControlStates
    BY DEF TypeInv, LiveControls
  <2>2. \A w \in Workers : wrk[w] \in WorkerStates
    BY DEF TypeInv, LiveWorkers
  <2> QED BY <2>1, <2>2 DEF TypeInv, ControlStates, WorkerStates
<1>2. /\ Asked(log) /\ Pure(inflight)
      /\ \A k \in 1..Len(log) : log[k].type = "RunStarted" => k = 1
      /\ \A h \in Handlers : Asks(ctl[h].events)
      /\ \A w \in Workers : Works(w, wrk[w].events)
  BY DEF OriginInv
<1>3. Pure(<<>>)
  BY DEF Pure, Asks
<1>4. ASSUME NEW b \in Seq(Events), Pure(b),
             \/ log' = log /\ inflight' = inflight
             \/ log' = log /\ inflight' = b
             \/ log' = log \o b /\ inflight' = <<>>
      PROVE  Logs
  <2>1. Asked(log \o b) /\ \A k \in 1..Len(log \o b) : (log \o b)[k].type = "RunStarted" => k = 1
    BY <1>1, <1>2, <1>4, OriginsJoin
  <2>2. CASE log' = log /\ inflight' = inflight
    BY <1>2, <2>2
  <2>3. CASE log' = log /\ inflight' = b
    BY <1>2, <1>4, <2>3
  <2>4. CASE log' = log \o b /\ inflight' = <<>>
    <3>1. Asked(log') /\ \A k \in 1..Len(log') : log'[k].type = "RunStarted" => k = 1
      BY <2>1, <2>4
    <3> QED BY <1>3, <2>4, <3>1
  <2> QED BY <1>4, <2>2, <2>3, <2>4
<1>5. /\ \A b : Asks(b) => Pure(b)
      /\ \A b, w : w \in Workers /\ Works(w, b) => Pure(b)
  BY DEF Pure
<1> HIDE DEF Logs, Locals
<1>6. CASE UNCHANGED <<log, inflight, ctl, wrk>>
  <2>1. Logs
    BY <1>1, <1>2, <1>4, <1>6
  <2>2. Locals
    BY <1>2, <1>6 DEF Locals
  <2> QED BY <2>1, <2>2 DEF Logs, Locals, OriginInv
<1>7. CASE EndInflight
  <2>1. \/ log' = log \o inflight /\ inflight' = <<>>
        \/ log' = log /\ inflight' = <<>>
    BY <1>7 DEF EndInflight
  <2>2. Logs
    <3>1. CASE log' = log \o inflight /\ inflight' = <<>>
      BY <1>1, <1>2, <1>4, <3>1
    <3>2. CASE log' = log /\ inflight' = <<>>
      <4>1. <<>> \in Seq(Events)
        OBVIOUS
      <4> QED BY <1>3, <1>4, <3>2, <4>1
    <3> QED BY <2>1, <3>1, <3>2
  <2>3. Locals
    BY <1>2, <1>7 DEF Locals, EndInflight
  <2> QED BY <2>2, <2>3 DEF Logs, Locals, OriginInv
<1>8. CASE StartRun
  <2>1. Logs
    BY <1>3, <1>8, FirstBatchOrigin DEF Logs
  <2>2. Locals
    BY <1>2, <1>8, FirstBatchOrigin DEF Locals
  <2> QED BY <2>1, <2>2 DEF Logs, Locals, OriginInv
<1>9. ASSUME NEW h \in Handlers,
             (\E kind \in Requests : Decide(h, kind)) \/ ControlStep(h) \/ ControlFails(h)
      PROVE  OriginInv'
  <2>1. /\ \A g \in Handlers : Asks(ctl'[g].events)
        /\ UNCHANGED wrk
        /\ \/ log' = log /\ inflight' = inflight
           \/ log' = log \o ctl[h].events /\ inflight' = <<>>
           \/ log' = log /\ inflight' = ctl[h].events
    BY <1>9, ControlAsks
  <2>2. ctl[h].events \in Seq(Events) /\ Pure(ctl[h].events)
    BY <1>1, <1>2, <1>5
  <2>3. Logs
    BY <1>4, <2>1, <2>2
  <2>4. Locals
    BY <1>2, <2>1 DEF Locals
  <2> QED BY <2>3, <2>4 DEF Logs, Locals, OriginInv
<1>10. ASSUME NEW w \in Workers, WorkerStep(w) \/ AppendFails(w) \/ WorkerDies(w)
       PROVE  OriginInv'
  <2>1. /\ \A u \in Workers : Works(u, wrk'[u].events)
        /\ UNCHANGED ctl
        /\ \/ log' = log /\ inflight' = inflight
           \/ log' = log \o wrk[w].events /\ inflight' = <<>>
           \/ log' = log /\ inflight' = wrk[w].events
    BY <1>10, WorkerWorks
  <2>2. wrk[w].events \in Seq(Events) /\ Pure(wrk[w].events)
    BY <1>1, <1>2, <1>5
  <2>3. Logs
    BY <1>4, <2>1, <2>2
  <2>4. Locals
    BY <1>2, <2>1 DEF Locals
  <2> QED BY <2>3, <2>4 DEF Logs, Locals, OriginInv
<1> QED BY <1>6, <1>7, <1>8, <1>9, <1>10, StepsAre


(* Every step, to one worker.                                               *)
LEMMA AllMove ==
    ASSUME TypeInv, StampInv, OriginInv, [Next]_vars, NEW w \in Workers
    PROVE  Moves(w)
<1>1. /\ \A h \in Handlers : ctl[h].events \in Seq(Events)
      /\ \A u \in Workers : wrk[u].events \in Seq(Events)
  <2>1. \A h \in Handlers : ctl[h] \in ControlStates
    BY DEF TypeInv, LiveControls
  <2>2. \A u \in Workers : wrk[u] \in WorkerStates
    BY DEF TypeInv, LiveWorkers
  <2> QED BY <2>1, <2>2 DEF TypeInv, ControlStates, WorkerStates
<1>2. CASE UNCHANGED <<log, inflight, ctl, wrk>>
  BY <1>2 DEF Moves, Rests, Same
<1>3. CASE EndInflight
  BY <1>3 DEF Moves, Lands, Same, EndInflight
<1>4. CASE StartRun
  <2>1. /\ log = <<>> /\ inflight = <<>> /\ inflight' = <<>> /\ UNCHANGED wrk
        /\ log' \in Seq(Events) /\ \A k \in 1..Len(log') : log'[k].by = "api"
    BY <1>4, FirstBatchOrigin
  <2>2. Foreign(log', w)
    BY <2>1, WorkersAssumption DEF Foreign
  <2>3. log' = log \o log'
    BY <2>1
  <2>4. \E b \in Seq(Events) : Foreign(b, w) /\ log' = log \o b
    BY <2>1, <2>2, <2>3
  <2>5. Other(w)
    BY <2>1, <2>4 DEF Other, Same
  <2> QED BY <2>5 DEF Moves
<1>5. ASSUME NEW b \in Seq(Events), Foreign(b, w), wrk'[w] = wrk[w],
             \/ log' = log /\ inflight' = inflight
             \/ /\ inflight = <<>>
                /\ \/ log' = log \o b /\ inflight' = <<>>
                   \/ log' = log /\ inflight' = b
      PROVE  Moves(w)
  <2>1. Rests(w) \/ Other(w)
    BY <1>5 DEF Rests, Other, Same
  <2> QED BY <2>1 DEF Moves
<1>6. ASSUME NEW h \in Handlers,
             (\E kind \in Requests : Decide(h, kind)) \/ ControlStep(h) \/ ControlFails(h)
      PROVE  Moves(w)
  <2>1. /\ UNCHANGED wrk
        /\ \/ log' = log /\ inflight' = inflight
           \/ /\ inflight = <<>>
              /\ \/ log' = log \o ctl[h].events /\ inflight' = <<>>
                 \/ log' = log /\ inflight' = ctl[h].events
    BY <1>6, ControlAsks
  <2>2. ctl[h].events \in Seq(Events) /\ Foreign(ctl[h].events, w)
    BY <1>1, OriginsJoin DEF OriginInv
  <2> QED BY <1>5, <2>1, <2>2
<1>7. ASSUME NEW u \in Workers \ {w}, WorkerStep(u) \/ AppendFails(u) \/ WorkerDies(u)
      PROVE  Moves(w)
  <2>1. /\ wrk'[w] = wrk[w]
        /\ \/ log' = log /\ inflight' = inflight
           \/ /\ inflight = <<>>
              /\ \/ log' = log \o wrk[u].events /\ inflight' = <<>>
                 \/ log' = log /\ inflight' = wrk[u].events
    BY <1>7, WorkerWorks
  <2>2. wrk[u].events \in Seq(Events) /\ Foreign(wrk[u].events, w)
    BY <1>1, OriginsJoin DEF OriginInv
  <2> QED BY <1>5, <2>1, <2>2
<1>8. ASSUME WorkerStep(w) \/ AppendFails(w) \/ WorkerDies(w)
      PROVE  Moves(w)
  BY <1>8, OwnMoves
<1> QED BY <1>2, <1>3, <1>4, <1>6, <1>7, <1>8, StepsAre

(* Faults are only added.                                                   *)
LEMMA FaultsAdd ==
    ASSUME TypeInv, [Next]_vars
    PROVE  faults \in Nat /\ faults' \in Nat /\ faults <= faults'
<1>1. faults \in Nat /\ MaxFaults \in Nat
  BY NumbersAssumption DEF TypeInv
<1>2. faults' = faults \/ faults' = faults + 1
  <2>1. ASSUME StartRun \/ EndInflight PROVE faults' = faults \/ faults' = faults + 1
    BY <2>1 DEF StartRun, EndInflight, Fault
  <2>2. ASSUME NEW h \in Handlers,
               (\E kind \in Requests : Decide(h, kind)) \/ ControlStep(h) \/ ControlFails(h)
        PROVE  faults' = faults \/ faults' = faults + 1
    BY <2>2 DEF Decide, ControlStep, NextRevision, AppendControl, SyncStatus, ControlFails, Fault
  <2>3. ASSUME NEW w \in Workers, WorkerStep(w) \/ AppendFails(w) \/ WorkerDies(w)
        PROVE  faults' = faults \/ faults' = faults + 1
    BY <2>3 DEF WorkerStep, LoadRun, ExecuteItem, FinishTurn, RebaseBatch, AppendBatch,
                UpsertItem, UpsertRun, AppendFails, WorkerDies, Fault
  <2> QED BY <2>1, <2>2, <2>3, StepsAre DEF Fault
<1> QED BY <1>1, <1>2


-----------------------------------------------------------------------------
(* Batches that execute nothing, for a worker.                              *)
LEMMA NothingExecuted ==
    ASSUME NEW b, NEW w,
           \/ Foreign(b, w) \/ Asks(b) \/ b = <<>>
           \/ \A k \in 1..Len(b) : b[k].type = "RunCompleted"
    PROVE  Turns(b, 1, w) = {} /\ \A i : Wins(b, i, w) = {}
<1>1. CASE Foreign(b, w)
  BY <1>1 DEF Foreign, Turns, Wins, Stamps, Chosen
<1>2. CASE Asks(b)
  BY <1>2 DEF Asks, Turns, Wins, Stamps, Chosen
<1>3. CASE b = <<>>
  BY <1>3 DEF Turns, Wins, Stamps, Chosen
<1>4. CASE \A k \in 1..Len(b) : b[k].type = "RunCompleted"
  BY <1>4 DEF Turns, Wins, Stamps, Chosen
<1> QED BY <1>1, <1>2, <1>3, <1>4

(* One execution counts once, with a stamp that nobody had before; it is a  *)
(* completion of its item or of none.                                       *)
Counts(b, w, i, o) ==
    /\ b \in Seq(Events)
    /\ \E x \in Nat :
        /\ clock <= x /\ Turns(b, 1, w) \subseteq {x}
        /\ \A j : Wins(b, j, w) \subseteq {x}
        /\ \A j : Wins(b, j, w) # {} => j = i /\ o = "success"
LEMMA ExecutionOnce ==
    ASSUME NEW w \in Workers, NEW i \in Items, NEW o \in Outcomes, clock \in Nat
    PROVE  Counts(ExecutionEvents(w, i, o), w, i, o)
<1> DEFINE b == ExecutionEvents(w, i, o)
<1>1. Executed(b, w, i, o)
  BY ExecutionEventsAre
<1>2. /\ o = "success" => Len(b) = 3 /\ b[1].type = "WorkItemStarted"
                          /\ b[3].type = "ProgressChunkEmitted"
      /\ o = "failure" => Len(b) = 2 /\ b[1].type = "WorkItemStarted"
                          /\ b[2].type = "WorkItemFailed"
      /\ o = "error"   => Len(b) = 1 /\ b[1].type = "WorkItemFailed"
      /\ o \in {"success", "failure", "error"}
  BY OutcomesAssumption DEF ExecutionEvents, ItemEvent, EffortEvent, Event
<1> HIDE DEF b
<1>3. PICK n \in 1..Len(b) : \A k \in 1..Len(b) :
         b[k].type \in {"WorkItemCompleted", "WorkItemFailed"} => k = n
  <2>1. CASE o = "success"
    <3>0. Len(b) = 3
      BY <1>2, <2>1
    <3>1. \A k \in 1..Len(b) : k = 1 \/ k = 2 \/ k = 3
      BY <3>0
    <3>2. 2 \in 1..Len(b)
      BY <3>0
    <3>3. \A k \in 1..Len(b) : b[k].type \in {"WorkItemCompleted", "WorkItemFailed"} => k = 2
      BY <1>2, <2>1, <3>1
    <3> QED BY <3>2, <3>3
  <2>2. CASE o = "failure"
    <3>0. Len(b) = 2
      BY <1>2, <2>2
    <3>1. \A k \in 1..Len(b) : k = 1 \/ k = 2
      BY <3>0
    <3>2. 2 \in 1..Len(b)
      BY <3>0
    <3>3. \A k \in 1..Len(b) : b[k].type \in {"WorkItemCompleted", "WorkItemFailed"} => k = 2
      BY <1>2, <2>2, <3>1
    <3> QED BY <3>2, <3>3
  <2>3. CASE o = "error"
    <3>0. Len(b) = 1
      BY <1>2, <2>3
    <3>1. 1 \in 1..Len(b) /\ \A k \in 1..Len(b) : k = 1
      BY <3>0
    <3> QED BY <3>1
  <2> QED BY <1>2, <2>1, <2>2, <2>3
<1>4. \A k \in 1..Len(b) : b[k].at = clock + k - 1 /\ b[k].item = i
  BY <1>1 DEF Executed
<1>5. b[n].at \in Nat /\ clock <= b[n].at
  BY <1>1, <1>3, <1>4 DEF Executed
<1>6. Turns(b, 1, w) \subseteq {b[n].at} /\ \A j : Wins(b, j, w) \subseteq {b[n].at}
  BY <1>3 DEF Turns, Wins, Stamps, Chosen
<1>7. ASSUME NEW j, Wins(b, j, w) # {} PROVE j = i /\ o = "success"
  <2>1. PICK k \in 1..Len(b) : b[k].type = "WorkItemCompleted" /\ b[k].item = j
    BY <1>7 DEF Wins, Stamps, Chosen
  <2>2. j = i
    BY <1>4, <2>1
  <2>3. o # "failure" /\ o # "error"
    <3>1. ASSUME o = "failure" PROVE FALSE
      <4>0. Len(b) = 2
        BY <1>2, <3>1
      <4>1. k = 1 \/ k = 2
        BY <4>0
      <4> QED BY <1>2, <2>1, <3>1, <4>1
    <3>2. ASSUME o = "error" PROVE FALSE
      <4>0. Len(b) = 1
        BY <1>2, <3>2
      <4>1. k = 1
        BY <4>0
      <4> QED BY <1>2, <2>1, <3>2, <4>1
    <3> QED BY <3>1, <3>2
  <2> QED BY <1>2, <2>2, <2>3
<1>8. b \in Seq(Events)
  BY <1>1 DEF Executed
<1> QED BY <1>5, <1>6, <1>7, <1>8 DEF Counts, b

(* A run that is stopped for good is not loaded: by time too, nothing that  *)
(* sets it running stands behind the stop, which the API wrote.             *)
LEMMA StoppedIsSkipped ==
    ASSUME TypeInv, EventsOnce, HistoryInv, OriginInv, NEW w \in Workers, LoadRun(w),
           NEW p, Stopped(log, p)
    PROVE  FALSE
<1> DEFINE R == ByTime
<1>1. /\ R \in Seq(Events) /\ Len(R) = Len(log) /\ Len(R) \in Nat
      /\ \A k \in 1..Len(R) : \E q \in 1..Len(log) : R[k] = log[q]
      /\ \A q \in 1..Len(log) : \E k \in 1..Len(R) : R[k] = log[q]
      /\ \A j, k \in 1..Len(R) : j < k => R[j].at < R[k].at
  <2>1. log \in Seq(Events)
    BY DEF TypeInv
  <2> QED BY <2>1, ByTimeIs, EffortsTyped
<1>2. StatusOf(WorkerStatus, "pending", R) = "running"
  BY DEF LoadRun, WorkerFold
<1> HIDE DEF R
<1>3. PICK k \in 1..Len(R) :
         /\ Sets(WorkerStatus, R[k]) /\ Given(WorkerStatus, R[k]) = "running"
         /\ \A j \in (k + 1)..Len(R) : ~ Sets(WorkerStatus, R[j])
  BY <1>1, <1>2, StatusIsLast
<1>4. PICK q \in 1..Len(log) : R[k] = log[q]
  BY <1>1
<1>5. PICK m \in 1..Len(R) : R[m] = log[p]
  BY <1>1 DEF Stopped
<1>6. \/ log[q].type = "RunStarted"
      \/ log[q].type = "RunStatusChanged" /\ log[q].status = "running"
  BY <1>3, <1>4 DEF Sets, Given, WorkerStatus
<1>7. p \in 1..Len(log) /\ log[p].type = "RunStatusChanged" /\ log[p].status # "running"
  BY DEF Stopped
<1>8. m < k
  <2>1. Sets(WorkerStatus, R[m])
    BY <1>5, <1>7 DEF Sets
  <2>2. ~ (m \in (k + 1)..Len(R))
    BY <1>3, <2>1
  <2>3. m # k
    BY <1>4, <1>5, <1>6, <1>7
  <2> QED BY <1>1, <2>2, <2>3
<1>9. log[p].at < log[q].at
  BY <1>1, <1>4, <1>5, <1>8
<1>10. q < p
  <2>1. CASE log[q].type = "RunStarted"
    <3>1. q = 1 /\ p # 1
      BY <1>7, <2>1 DEF OriginInv
    <3> QED BY <1>7, <3>1
  <2>2. CASE log[q].type = "RunStatusChanged" /\ log[q].status = "running"
    BY <2>2 DEF Stopped
  <2> QED BY <1>6, <2>1, <2>2
<1>11. log[p].by = "api"
  BY <1>7 DEF OriginInv, Asked
<1>12. log[q].at < log[p].at
  BY <1>7, <1>10, <1>11 DEF HistoryInv, GoodLog
<1>13. log[p].at \in Nat /\ log[q].at \in Nat
  <2>1. log[p] \in Events /\ log[q] \in Events
    BY <1>7, EffortsTyped DEF TypeInv
  <2> QED BY <2>1 DEF Events
<1> QED BY <1>9, <1>12, <1>13


(* Turns of a batch behind the log, and the stops there.                    *)
LEMMA TurnsJoin ==
    ASSUME NEW s \in Seq(Events), NEW b \in Seq(Events), NEW w
    PROVE  /\ Turns(s \o b, 1, w) = Turns(s, 1, w) \cup Turns(b, 1, w)
           /\ \A p \in 1..Len(s) : Turns(s \o b, p, w) = Turns(s, p, w) \cup Turns(b, 1, w)
           /\ \A p \in 1..Len(s \o b) : p > Len(s) => Turns(s \o b, p, w) \subseteq Turns(b, 1, w)
           /\ \A p \in 1..Len(s) : Stopped(s \o b, p) => Stopped(s, p)
<1>1. Len(s) \in Nat
  BY EffortsTyped
<1>2. 1 \in 1..(Len(s) + 1) /\ \A p \in 1..Len(s) : p \in 1..(Len(s) + 1)
  BY <1>1
<1>3. /\ Turns(s \o b, 1, w) = Turns(s, 1, w) \cup Turns(b, 1, w)
      /\ \A p \in 1..Len(s) : Turns(s \o b, p, w) = Turns(s, p, w) \cup Turns(b, 1, w)
  BY <1>2, StampsJoin DEF Turns
<1>4. \A p \in 1..Len(s \o b) : p > Len(s) => Turns(s \o b, p, w) \subseteq Turns(b, 1, w)
  BY StampsJoin DEF Turns
<1>7. ASSUME NEW p \in 1..Len(s), Stopped(s \o b, p) PROVE Stopped(s, p)
  <2>1. \A k \in 1..Len(s) : k \in 1..Len(s \o b) /\ (s \o b)[k] = s[k]
    BY JoinIs
  <2> QED BY <1>7, <2>1 DEF Stopped
<1> QED BY <1>3, <1>4, <1>7

(* Completions and assignments of a batch behind the log.                   *)
LEMMA DealsJoin ==
    ASSUME NEW s \in Seq(Events), NEW b \in Seq(Events), NEW i, NEW w
    PROVE  /\ Wins(s \o b, i, w) = Wins(s, i, w) \cup Wins(b, i, w)
           /\ Deals(s \o b, i) = Deals(s, i) \cup Deals(b, i)
<1>1. 1 \in 1..(Len(s) + 1)
  BY EffortsTyped
<1>2. Wins(s \o b, i, w) = Wins(s, i, w) \cup Wins(b, i, w)
  BY <1>1, StampsJoin DEF Wins
<1>3. Deals(s \o b, i) = Deals(s, i) \cup Deals(b, i)
  BY <1>1, StampsJoin DEF Deals
<1> QED BY <1>2, <1>3

(* They are finite.                                                         *)
LEMMA TurnsTyped ==
    ASSUME NEW s \in Seq(Events), NEW w
    PROVE  /\ \A p \in Nat \ {0} : IsFiniteSet(Turns(s, p, w))
           /\ \A i : IsFiniteSet(Wins(s, i, w)) /\ Wins(s, i, w) \subseteq Ats(s)
           /\ \A i : IsFiniteSet(Deals(s, i)) /\ Deals(s, i) \subseteq Ats(s)
<1>1. 1 \in Nat \ {0}
  OBVIOUS
<1>2. \A p \in Nat \ {0} : IsFiniteSet(Turns(s, p, w))
  BY StampsTyped DEF Turns
<1>3. \A i : IsFiniteSet(Wins(s, i, w)) /\ Wins(s, i, w) \subseteq Ats(s)
  BY <1>1, StampsTyped DEF Wins
<1>4. \A i : IsFiniteSet(Deals(s, i)) /\ Deals(s, i) \subseteq Ats(s)
  BY <1>1, StampsTyped DEF Deals
<1> QED BY <1>2, <1>3, <1>4

(* Fewer stamps count no more.                                              *)
LEMMA FewerCount ==
    ASSUME NEW R, IsFiniteSet(R), NEW S \in SUBSET R
    PROVE  /\ IsFiniteSet(S) /\ Cardinality(S) \in Nat /\ Cardinality(R) \in Nat
           /\ Cardinality(S) <= Cardinality(R)
  BY FS_Subset, FS_CardinalityType

(* One stamp more counts at most one more.                                  *)
LEMMA OneMore ==
    ASSUME NEW S, IsFiniteSet(S), NEW x
    PROVE  /\ IsFiniteSet(S \cup {x})
           /\ Cardinality(S \cup {x}) \in Nat /\ Cardinality(S) \in Nat
           /\ Cardinality(S \cup {x}) <= Cardinality(S) + 1
<1> DEFINE V == S \cup {x}
<1>1. IsFiniteSet(V) /\ Cardinality(V) = IF x \in S THEN Cardinality(S) ELSE Cardinality(S) + 1
  BY FS_AddElement
<1>2. Cardinality(S) \in Nat
  BY FS_CardinalityType
<1> HIDE DEF V
<1>3. IsFiniteSet(V) /\ Cardinality(V) \in Nat /\ Cardinality(V) <= Cardinality(S) + 1
  BY <1>1, <1>2
<1> QED BY <1>2, <1>3 DEF V

(* A stop that was there keeps its turns, and a new one has none but those  *)
(* the worker still holds.                                                  *)
LEMMA HeedsKept ==
    ASSUME NEW L \in Seq(Events), NEW F \in Seq(Events), NEW w, NEW v, v.events \in Seq(Events),
           Heeds(L, F, w, v), NEW L2, NEW F2, NEW v2,
           Turns(v2.events, 1, w) \subseteq Turns(v.events, 1, w),
           v.count \in Nat,
           v2.pc = "work" => v.pc = "work" /\ v2.count = v.count,
           \A p : Stopped(L2, p) =>
              \/ /\ Stopped(L, p)
                 /\ AllTurns(L2, F2, v2, p, w) \subseteq AllTurns(L, F, v, p, w)
                 /\ v2.pc = "work" /\ Turns(L, p, w) = {} /\ Turns(F, 1, w) = {} =>
                      Turns(L2, p, w) = {} /\ Turns(F2, 1, w) = {}
              \/ /\ AllTurns(L2, F2, v2, p, w) \subseteq Turns(v.events, 1, w)
                 /\ v2.pc = "work" => Turns(L2, p, w) = {} /\ Turns(F2, 1, w) = {}
    PROVE  Heeds(L2, F2, w, v2)
<1> DEFINE T == Turns(v.events, 1, w)
           T2 == Turns(v2.events, 1, w)
<1>0. ItemsPerLoop \in Nat
  BY NumbersAssumption
<1>1. 1 \in Nat \ {0} /\ \A p \in 1..Len(L) : p \in Nat \ {0}
  BY EffortsTyped
<1>2. IsFiniteSet(T)
  BY <1>1, TurnsTyped
<1>3. /\ v.pc = "work" => Cardinality(T) <= v.count
      /\ Cardinality(T) <= ItemsPerLoop
      /\ \A p \in 1..Len(L) : Stopped(L, p) =>
          /\ v.pc = "work" => Turns(L, p, w) = {} /\ Turns(F, 1, w) = {}
          /\ Cardinality(AllTurns(L, F, v, p, w)) <= ItemsPerLoop
  BY DEF Heeds
<1>4. T2 \in SUBSET T
  OBVIOUS
<1> HIDE DEF T, T2
<1>5. /\ Cardinality(T2) \in Nat /\ Cardinality(T) \in Nat
      /\ Cardinality(T2) <= Cardinality(T)
  BY <1>2, <1>4, FewerCount
<1>6. /\ v2.pc = "work" => Cardinality(T2) <= v2.count
      /\ Cardinality(T2) <= ItemsPerLoop
  BY <1>0, <1>3, <1>5
<1>7. ASSUME NEW p \in 1..Len(L2), Stopped(L2, p)
      PROVE  /\ v2.pc = "work" => Turns(L2, p, w) = {} /\ Turns(F2, 1, w) = {}
             /\ Cardinality(AllTurns(L2, F2, v2, p, w)) <= ItemsPerLoop
  <2>1. CASE /\ Stopped(L, p)
             /\ AllTurns(L2, F2, v2, p, w) \subseteq AllTurns(L, F, v, p, w)
             /\ v2.pc = "work" /\ Turns(L, p, w) = {} /\ Turns(F, 1, w) = {} =>
                  Turns(L2, p, w) = {} /\ Turns(F2, 1, w) = {}
    <3>1. p \in 1..Len(L)
      BY <2>1 DEF Stopped
    <3>2. IsFiniteSet(Turns(L, p, w)) /\ IsFiniteSet(Turns(F, 1, w))
      BY <1>1, <3>1, TurnsTyped
    <3>3. IsFiniteSet(AllTurns(L, F, v, p, w))
      BY <1>2, <3>2, FS_Union DEF AllTurns, T
    <3>4. /\ Cardinality(AllTurns(L2, F2, v2, p, w)) \in Nat
          /\ Cardinality(AllTurns(L, F, v, p, w)) \in Nat
          /\ Cardinality(AllTurns(L2, F2, v2, p, w)) <= Cardinality(AllTurns(L, F, v, p, w))
      BY <2>1, <3>3, FewerCount
    <3>5. Cardinality(AllTurns(L2, F2, v2, p, w)) <= ItemsPerLoop
      BY <1>0, <1>3, <2>1, <3>1, <3>4
    <3> QED BY <1>3, <2>1, <3>1, <3>5
  <2>2. CASE /\ AllTurns(L2, F2, v2, p, w) \subseteq T
             /\ v2.pc = "work" => Turns(L2, p, w) = {} /\ Turns(F2, 1, w) = {}
    <3>1. /\ Cardinality(AllTurns(L2, F2, v2, p, w)) \in Nat
          /\ Cardinality(AllTurns(L2, F2, v2, p, w)) <= Cardinality(T)
      BY <1>2, <2>2, FewerCount
    <3> QED BY <1>0, <1>3, <1>5, <2>2, <3>1
  <2> QED BY <1>7, <2>1, <2>2 DEF T
<1> QED BY <1>6, <1>7 DEF Heeds, T2


(* The batches, and what a worker holds, are of their types.                *)
LEMMA TurnTypes ==
    ASSUME TypeInv, NEW w \in Workers
    PROVE  /\ log \in Seq(Events) /\ inflight \in Seq(Events) /\ clock \in Nat
           /\ wrk[w] \in WorkerStates /\ wrk[w].events \in Seq(Events)
           /\ wrk[w].count \in 0..ItemsPerLoop
           /\ wrk[w].pc = "idle" => wrk[w].events = <<>>
           /\ wrk[w].items \in [Items -> ItemStatuses]
<1>1. wrk[w] \in LiveWorkers /\ log \in Seq(Events) /\ inflight \in Seq(Events) /\ clock \in Nat
  BY DEF TypeInv
<1>2. wrk[w] \in WorkerStates /\ (wrk[w].pc = "idle" => wrk[w].events = <<>>)
  BY <1>1 DEF LiveWorkers
<1> QED BY <1>1, <1>2 DEF WorkerStates

(* A load begins a turn with nothing executed, an execution adds one.       *)
LEMMA LoadedIs ==
    ASSUME TypeInv, NEW w \in Workers, LoadRun(w)
    PROVE  /\ log' = log /\ inflight' = inflight
           /\ wrk[w].events = <<>> /\ wrk'[w].events = <<>> /\ wrk'[w].pc = "work"
           /\ wrk'[w].count = 0
           /\ wrk'[w].items = WorkerFold(ByTime).items
<1>1. wrk[w].pc = "idle" /\ log' = log /\ inflight' = inflight
  BY DEF LoadRun
<1>2. wrk[w].events = <<>>
  BY <1>1, TurnTypes
<1> DEFINE seen == WorkerFold(ByTime)
           r == [IdleWorker EXCEPT !.pc = "work", !.status = seen.status,
                   !.items = seen.items, !.effort = seen.effort]
<1>3. SetWrk(w, r)
  BY DEF LoadRun
<1> HIDE DEF seen
<1>4. r.events = <<>> /\ r.pc = "work" /\ r.count = 0 /\ r.items = seen.items
  BY DEF IdleWorker
<1>5. wrk'[w] = r
  BY <1>3 DEF SetWrk, TypeInv
<1> HIDE DEF r
<1> QED BY <1>1, <1>2, <1>4, <1>5 DEF seen

(* What an execution does to its worker.                                    *)
LEMMA ExecutedIs ==
    ASSUME TypeInv, NEW w \in Workers, NEW i \in Items, NEW o \in Outcomes, ExecuteItem(w, i, o)
    PROVE  /\ log' = log /\ inflight' = inflight
           /\ wrk[w].pc = "work" /\ wrk'[w].pc = "work" /\ wrk[w].items[i] = "assigned"
           /\ wrk'[w].events = wrk[w].events \o ExecutionEvents(w, i, o)
           /\ wrk'[w].count = wrk[w].count + 1 /\ wrk[w].count < ItemsPerLoop
           /\ wrk'[w].items[i] # "assigned"
           /\ \A j \in Items \ {i} : wrk'[w].items[j] = wrk[w].items[j]
<1> DEFINE v == wrk[w]
           b == ExecutionEvents(w, i, o)
           s == IF o = "success" THEN "completed" ELSE "failed"
           r == [v EXCEPT
                      !.count = @ + 1,
                      !.events = @ \o b,
                      !.items[i] = IF o = "success" THEN "completed" ELSE "failed",
                      !.status = IF o = "success" THEN @ ELSE "blocked",
                      !.effort = IF o = "success" THEN @ + Effort ELSE @]
<1>1. /\ SetWrk(w, r) /\ log' = log /\ inflight' = inflight
      /\ v.pc = "work" /\ v.items[i] = "assigned" /\ v.count < ItemsPerLoop
  BY DEF ExecuteItem
<1>2. v \in WorkerStates /\ v.items \in [Items -> ItemStatuses]
  BY TurnTypes
<1> HIDE DEF b
<1>3. /\ r.events = v.events \o b /\ r.pc = v.pc /\ r.count = v.count + 1
  BY <1>2 DEF WorkerStates
<1>4. r.items = [v.items EXCEPT ![i] = s]
  BY <1>2 DEF WorkerStates
<1>5. s # "assigned"
  OBVIOUS
<1> HIDE DEF s, r
<1>6. r.items[i] # "assigned" /\ \A j \in Items \ {i} : r.items[j] = v.items[j]
  BY <1>2, <1>4, <1>5
<1>7. wrk'[w] = r
  BY <1>1 DEF SetWrk, TypeInv
<1> QED BY <1>1, <1>3, <1>6, <1>7 DEF b

(* Every step keeps a worker heeding.                                       *)
LEMMA HeedsStep ==
    ASSUME TypeInv, StampInv, HistoryInv, OriginInv, NEW w \in Workers,
           Heeds(log, inflight, w, wrk[w]), Moves(w)
    PROVE  Heeds(log', inflight', w, wrk'[w])
<1> DEFINE L == log
           F == inflight
           v == wrk[w]
           E == wrk[w].events
           L2 == log'
           F2 == inflight'
           v2 == wrk'[w]
           E2 == wrk'[w].events
           Goal == Heeds(L2, F2, w, v2)
<1> SUFFICES Goal
  OBVIOUS
<1>1. /\ L \in Seq(Events) /\ F \in Seq(Events) /\ E \in Seq(Events)
      /\ v.count \in Nat /\ Len(L) \in Nat /\ clock \in Nat
  <2>1. v.count \in 0..ItemsPerLoop /\ ItemsPerLoop \in Nat
    BY TurnTypes, NumbersAssumption
  <2> QED BY <2>1, TurnTypes, EffortsTyped
<1>2. /\ v.pc = "work" => Cardinality(Turns(E, 1, w)) <= v.count
      /\ \A p : Stopped(L, p) /\ v.pc = "work" => Turns(L, p, w) = {} /\ Turns(F, 1, w) = {}
  BY DEF Heeds, Stopped
<1>3. Turns(<<>>, 1, w) = {}
  BY NothingExecuted
<1>4. ASSUME Turns(E2, 1, w) \subseteq Turns(E, 1, w),
             v2.pc = "work" => v.pc = "work" /\ v2.count = v.count,
             \A p : Stopped(L2, p) =>
              \/ /\ Stopped(L, p)
                 /\ AllTurns(L2, F2, v2, p, w) \subseteq AllTurns(L, F, v, p, w)
                 /\ v2.pc = "work" /\ Turns(L, p, w) = {} /\ Turns(F, 1, w) = {} =>
                      Turns(L2, p, w) = {} /\ Turns(F2, 1, w) = {}
              \/ /\ AllTurns(L2, F2, v2, p, w) \subseteq Turns(E, 1, w)
                 /\ v2.pc = "work" => Turns(L2, p, w) = {} /\ Turns(F2, 1, w) = {}
      PROVE  Goal
  BY <1>1, <1>4, HeedsKept
<1>5. \A p : AllTurns(L, F, v, p, w)
               = Turns(L, p, w) \cup Turns(F, 1, w) \cup Turns(E, 1, w)
  BY DEF AllTurns
<1>6. \A p : AllTurns(L2, F2, v2, p, w)
               = Turns(L2, p, w) \cup Turns(F2, 1, w) \cup Turns(E2, 1, w)
  BY DEF AllTurns
<1>7. Heeds(L, F, w, v)
  OBVIOUS
<1>8. ASSUME NEW b \in Seq(Events), L2 = L \o b
      PROVE  /\ \A p \in 1..Len(L) : Turns(L2, p, w) = Turns(L, p, w) \cup Turns(b, 1, w)
             /\ \A p \in 1..Len(L2) : p > Len(L) => Turns(L2, p, w) \subseteq Turns(b, 1, w)
             /\ \A p \in 1..Len(L) : Stopped(L2, p) => Stopped(L, p)
  <2> DEFINE M == L \o b
  <2>1. /\ \A p \in 1..Len(L) : Turns(M, p, w) = Turns(L, p, w) \cup Turns(b, 1, w)
        /\ \A p \in 1..Len(M) : p > Len(L) => Turns(M, p, w) \subseteq Turns(b, 1, w)
        /\ \A p \in 1..Len(L) : Stopped(M, p) => Stopped(L, p)
    BY <1>1, TurnsJoin
  <2>2. L2 = M
    BY <1>8
  <2> HIDE DEF M
  <2> QED BY <2>1, <2>2
<1>9. \A p : Stopped(L2, p) => p \in 1..Len(L2)
  BY DEF Stopped
<1>10. CASE Rests(w)
  <2>1. L2 = L /\ F2 = F /\ v2 = v
    BY <1>10 DEF Rests, Same
  <2> QED BY <1>7, <2>1
<1>11. CASE Lands(w)
  <2>1. v2 = v /\ E2 = E /\ F2 = <<>> /\ (L2 = L \/ L2 = L \o F)
    BY <1>11 DEF Lands, Same
  <2>2. ASSUME NEW p, Stopped(L2, p)
        PROVE  \/ /\ Stopped(L, p)
                  /\ AllTurns(L2, F2, v2, p, w) \subseteq AllTurns(L, F, v, p, w)
                  /\ v2.pc = "work" /\ Turns(L, p, w) = {} /\ Turns(F, 1, w) = {} =>
                       Turns(L2, p, w) = {} /\ Turns(F2, 1, w) = {}
               \/ /\ AllTurns(L2, F2, v2, p, w) \subseteq Turns(E, 1, w)
                  /\ v2.pc = "work" => Turns(L2, p, w) = {} /\ Turns(F2, 1, w) = {}
    <3>0. Turns(F2, 1, w) = {}
      BY <1>3, <2>1
    <3>1. CASE L2 = L
      BY <1>5, <1>6, <2>1, <2>2, <3>0, <3>1
    <3>2. CASE L2 = L \o F /\ p \in 1..Len(L)
      <4>1. Stopped(L, p) /\ Turns(L2, p, w) = Turns(L, p, w) \cup Turns(F, 1, w)
        BY <1>1, <1>8, <2>2, <3>2
      <4> QED BY <1>5, <1>6, <2>1, <3>0, <4>1
    <3>3. CASE L2 = L \o F /\ p \notin 1..Len(L)
      <4>1. p \in 1..Len(L2)
        BY <1>9, <2>2
      <4>2. p > Len(L)
        BY <1>1, <3>3, <4>1
      <4>3. Turns(L2, p, w) \subseteq Turns(F, 1, w)
        BY <1>1, <1>8, <3>3, <4>1, <4>2
      <4>4. Asks(F)
        <5>1. PICK k \in 1..Len(F) : L2[p] = F[k]
          <6>1. p - Len(L) \in 1..Len(F) /\ L2[p] = F[p - Len(L)]
            BY <1>1, <3>3, <4>1, JoinIs
          <6> QED BY <6>1
        <5>2. F[k].type = "RunStatusChanged"
          BY <2>2, <5>1 DEF Stopped
        <5>3. Pure(F)
          BY DEF OriginInv
        <5> QED BY <5>2, <5>3 DEF Pure, Works
      <4>5. Turns(L2, p, w) = {}
        BY <4>3, <4>4, NothingExecuted
      <4> QED BY <1>6, <2>1, <3>0, <4>5
    <3> QED BY <2>1, <3>1, <3>2, <3>3
  <2>3. Turns(E2, 1, w) \subseteq Turns(E, 1, w) /\ (v2.pc = "work" => v.pc = "work" /\ v2.count = v.count)
    BY <2>1
  <2> HIDE DEF Goal
  <2> QED BY <1>4, <2>2, <2>3
<1>12. CASE Other(w)
  <2>1. PICK b \in Seq(Events) :
          /\ Foreign(b, w) /\ F = <<>> /\ v2 = v /\ E2 = E
          /\ \/ L2 = L \o b /\ F2 = <<>>
             \/ L2 = L /\ F2 = b
    BY <1>12 DEF Other, Same
  <2>2. Turns(b, 1, w) = {} /\ Turns(F, 1, w) = {} /\ Turns(F2, 1, w) = {}
    <3>1. Turns(b, 1, w) = {}
      BY <2>1, NothingExecuted
    <3> QED BY <1>3, <2>1, <3>1
  <2>3. ASSUME NEW p, Stopped(L2, p)
        PROVE  \/ /\ Stopped(L, p)
                  /\ AllTurns(L2, F2, v2, p, w) \subseteq AllTurns(L, F, v, p, w)
                  /\ v2.pc = "work" /\ Turns(L, p, w) = {} /\ Turns(F, 1, w) = {} =>
                       Turns(L2, p, w) = {} /\ Turns(F2, 1, w) = {}
               \/ /\ AllTurns(L2, F2, v2, p, w) \subseteq Turns(E, 1, w)
                  /\ v2.pc = "work" => Turns(L2, p, w) = {} /\ Turns(F2, 1, w) = {}
    <3>1. CASE L2 = L
      BY <1>5, <1>6, <2>1, <2>2, <2>3, <3>1
    <3>2. CASE L2 = L \o b /\ p \in 1..Len(L)
      <4>1. Stopped(L, p) /\ Turns(L2, p, w) = Turns(L, p, w) \cup Turns(b, 1, w)
        BY <1>8, <2>3, <3>2
      <4> QED BY <1>5, <1>6, <2>1, <2>2, <4>1
    <3>3. CASE L2 = L \o b /\ p \notin 1..Len(L)
      <4>1. p \in 1..Len(L2)
        BY <1>9, <2>3
      <4>2. p > Len(L)
        BY <1>1, <3>3, <4>1
      <4>3. Turns(L2, p, w) \subseteq Turns(b, 1, w)
        BY <1>8, <3>3, <4>1, <4>2
      <4> QED BY <1>6, <2>1, <2>2, <4>3
    <3> QED BY <2>1, <3>1, <3>2, <3>3
  <2>4. Turns(E2, 1, w) \subseteq Turns(E, 1, w) /\ (v2.pc = "work" => v.pc = "work" /\ v2.count = v.count)
    BY <2>1
  <2> HIDE DEF Goal
  <2> QED BY <1>4, <2>3, <2>4
<1>13. CASE Stores(w)
  <2>1. /\ L2 = L \o E /\ F = <<>> /\ F2 = <<>> /\ E2 = <<>> /\ v2.pc # "work"
    BY <1>13 DEF Stores
  <2>2. Turns(F, 1, w) = {} /\ Turns(F2, 1, w) = {} /\ Turns(E2, 1, w) = {}
    BY <1>3, <2>1
  <2>3. ASSUME NEW p, Stopped(L2, p)
        PROVE  \/ /\ Stopped(L, p)
                  /\ AllTurns(L2, F2, v2, p, w) \subseteq AllTurns(L, F, v, p, w)
               \/ /\ AllTurns(L2, F2, v2, p, w) \subseteq Turns(E, 1, w)
    <3>1. CASE p \in 1..Len(L)
      <4>1. Stopped(L, p) /\ Turns(L2, p, w) = Turns(L, p, w) \cup Turns(E, 1, w)
        BY <1>1, <1>8, <2>1, <2>3, <3>1
      <4> QED BY <1>5, <1>6, <2>2, <4>1
    <3>2. CASE p \notin 1..Len(L)
      <4>1. p \in 1..Len(L2)
        BY <1>9, <2>3
      <4>2. p > Len(L)
        BY <1>1, <3>2, <4>1
      <4>3. Turns(L2, p, w) \subseteq Turns(E, 1, w)
        BY <1>1, <1>8, <2>1, <4>1, <4>2
      <4> QED BY <1>6, <2>2, <4>3
    <3> QED BY <3>1, <3>2
  <2> HIDE DEF Goal
  <2> QED BY <1>4, <2>1, <2>2, <2>3
<1>14. ASSUME L2 = L, v2.pc # "work", Turns(E2, 1, w) \subseteq Turns(E, 1, w),
              Turns(F2, 1, w) \subseteq Turns(F, 1, w) \cup Turns(E, 1, w)
       PROVE  Goal
  <2>1. ASSUME NEW p, Stopped(L2, p)
        PROVE  /\ Stopped(L, p)
               /\ AllTurns(L2, F2, v2, p, w) \subseteq AllTurns(L, F, v, p, w)
    <3>1. Stopped(L, p) /\ Turns(L2, p, w) = Turns(L, p, w)
      BY <1>14, <2>1
    <3> QED BY <1>5, <1>6, <1>14, <3>1
  <2> HIDE DEF Goal
  <2> QED BY <1>4, <1>14, <2>1
<1>15. CASE Flies(w)
  <2>1. L2 = L /\ F2 = E /\ v2.pc # "work" /\ E2 \in {E, <<>>}
    BY <1>15 DEF Flies
  <2>2. Turns(E2, 1, w) \subseteq Turns(E, 1, w) /\ Turns(F2, 1, w) = Turns(E, 1, w)
    BY <1>3, <2>1
  <2> HIDE DEF Goal
  <2> QED BY <1>14, <2>1, <2>2
<1>16. CASE Keeps(w)
  <2>1. /\ L2 = L /\ F2 = F /\ v2.pc # "work"
        /\ \/ E2 = E
           \/ \E e \in Events : e.type = "RunCompleted" /\ E2 = E \o <<e>>
    BY <1>16 DEF Keeps
  <2>2. Turns(E2, 1, w) \subseteq Turns(E, 1, w)
    <3>1. ASSUME NEW e \in Events, e.type = "RunCompleted", E2 = E \o <<e>>
          PROVE  Turns(E2, 1, w) \subseteq Turns(E, 1, w)
      <4> DEFINE b == <<e>>
      <4>1. b \in Seq(Events) /\ \A k \in 1..Len(b) : b[k].type = "RunCompleted"
        BY <3>1
      <4> HIDE DEF b
      <4>2. Turns(b, 1, w) = {}
        BY <4>1, NothingExecuted
      <4>3. Turns(E \o b, 1, w) = Turns(E, 1, w) \cup Turns(b, 1, w)
        BY <1>1, <4>1, TurnsJoin
      <4>4. E2 = E \o b
        BY <3>1 DEF b
      <4> QED BY <4>2, <4>3, <4>4
    <3> QED BY <2>1, <3>1
  <2> HIDE DEF Goal
  <2> QED BY <1>14, <2>1, <2>2
<1>17. CASE Drops(w)
  <2>1. L2 = L /\ F2 = F /\ v2.pc # "work" /\ E2 = <<>>
    BY <1>17 DEF Drops
  <2>2. Turns(E2, 1, w) = {}
    BY <1>3, <2>1
  <2> HIDE DEF Goal
  <2> QED BY <1>14, <2>1, <2>2
<1>18. CASE LoadRun(w)
  <2>1. L2 = L /\ E2 = <<>> /\ v2.count = 0
    BY <1>18, LoadedIs
  <2>2. EventsOnce
    BY <1>1, StampInvOnce
  <2>3. \A p : ~ Stopped(L2, p)
    BY <1>18, <2>1, <2>2, StoppedIsSkipped
  <2>4. Turns(E2, 1, w) = {}
    BY <1>3, <2>1
  <2>5. Cardinality(Turns(E2, 1, w)) = 0 /\ ItemsPerLoop \in Nat
    BY <2>4, FS_EmptySet, NumbersAssumption
  <2>6. \A p \in 1..Len(L2) : ~ Stopped(L2, p)
    BY <2>3
  <2> QED BY <2>1, <2>5, <2>6 DEF Heeds
<1>19. ASSUME NEW i \in Items, NEW o \in Outcomes, ExecuteItem(w, i, o)
       PROVE  Goal
  <2> DEFINE b == ExecutionEvents(w, i, o)
             T == Turns(E, 1, w)
             T2 == Turns(E2, 1, w)
  <2>1. /\ L2 = L /\ F2 = F /\ v.pc = "work" /\ v2.pc = "work" /\ E2 = E \o b
        /\ v2.count = v.count + 1 /\ v.count < ItemsPerLoop
    BY <1>19, ExecutedIs
  <2>2. PICK x \in Nat : b \in Seq(Events) /\ Turns(b, 1, w) \subseteq {x}
    BY <1>1, ExecutionOnce DEF Counts
  <2> HIDE DEF b
  <2>3. T2 = T \cup Turns(b, 1, w)
    BY <1>1, <2>1, <2>2, TurnsJoin
  <2>4. IsFiniteSet(T)
    BY <1>1, TurnsTyped
  <2>5. ItemsPerLoop \in Nat
    BY NumbersAssumption
  <2>6. Cardinality(T) <= v.count
    BY <1>2, <2>1
  <2> HIDE DEF T, T2
  <2>7. /\ Cardinality(T) \in Nat /\ Cardinality(T2) \in Nat
        /\ Cardinality(T2) <= Cardinality(T) + 1
    <3>1. /\ IsFiniteSet(T \cup {x})
          /\ Cardinality(T \cup {x}) \in Nat /\ Cardinality(T) \in Nat
          /\ Cardinality(T \cup {x}) <= Cardinality(T) + 1
      BY <2>4, OneMore
    <3>2. T2 \in SUBSET (T \cup {x})
      BY <2>2, <2>3
    <3>3. Cardinality(T2) \in Nat /\ Cardinality(T2) <= Cardinality(T \cup {x})
      BY <3>1, <3>2, FewerCount
    <3> QED BY <3>1, <3>3
  <2>8. Cardinality(T2) <= v2.count /\ Cardinality(T2) <= ItemsPerLoop
    BY <1>1, <2>1, <2>5, <2>6, <2>7
  <2>9. ASSUME NEW p, Stopped(L2, p)
        PROVE  /\ Turns(L2, p, w) = {} /\ Turns(F2, 1, w) = {}
               /\ Cardinality(AllTurns(L2, F2, v2, p, w)) <= ItemsPerLoop
    <3>1. Turns(L2, p, w) = {} /\ Turns(F2, 1, w) = {}
      BY <1>2, <2>1, <2>9
    <3>2. AllTurns(L2, F2, v2, p, w) = T2
      BY <1>6, <3>1 DEF T2
    <3> QED BY <2>8, <3>1, <3>2
  <2> QED BY <2>8, <2>9 DEF Heeds, T2
<1> HIDE DEF Goal
<1> QED BY <1>10, <1>11, <1>12, <1>13, <1>15, <1>16, <1>17, <1>18, <1>19 DEF Moves


-----------------------------------------------------------------------------
(* Debts.  W are completions, D assignments, n the faults.                  *)
LEMMA DebtsTyped ==
    ASSUME NEW S \in SUBSET Nat, IsFiniteSet(S), NEW t \in Nat
    PROVE  /\ IsFiniteSet(Upto(S, t)) /\ IsFiniteSet(Below(S, t))
           /\ Cardinality(Upto(S, t)) \in Nat /\ Cardinality(Below(S, t)) \in Nat
           /\ Cardinality(S) \in Nat
           /\ Cardinality(Upto(S, t)) <= Cardinality(S)
           /\ Cardinality(Below(S, t)) <= Cardinality(S)
<1>1. Upto(S, t) \in SUBSET S /\ Below(S, t) \in SUBSET S
  BY DEF Upto, Below
<1> QED BY <1>1, FewerCount

(* Fewer completions, more assignments and more faults keep what is owed,   *)
(* and one more fault spares one.                                           *)
LEMMA DebtsKept ==
    ASSUME NEW D2 \in SUBSET Nat, IsFiniteSet(D2), NEW D \in SUBSET D2,
           NEW W \in SUBSET Nat, IsFiniteSet(W), NEW W2 \in SUBSET W,
           NEW n \in Nat, NEW n2 \in Nat, n <= n2
    PROVE  /\ Owes(W, D, n) => Owes(W2, D2, n2)
           /\ Spares(W, D, n) => Spares(W2, D2, n2)
           /\ Owes(W, D, n) /\ n < n2 => Spares(W2, D2, n2)
           /\ Cardinality(W) + 1 <= Cardinality(D) + n
                => Cardinality(W2) + 1 <= Cardinality(D2) + n2
<1>1. /\ Cardinality(W) \in Nat /\ Cardinality(W2) \in Nat
      /\ Cardinality(W2) <= Cardinality(W)
  BY FewerCount
<1>2. /\ Cardinality(D) \in Nat /\ Cardinality(D2) \in Nat
      /\ Cardinality(D) <= Cardinality(D2)
  BY FewerCount
<1>3. ASSUME NEW t \in Nat
      PROVE  /\ Cardinality(Upto(W2, t)) \in Nat /\ Cardinality(Upto(W, t)) \in Nat
             /\ Cardinality(Upto(W2, t)) <= Cardinality(Upto(W, t))
             /\ Cardinality(Below(D, t)) \in Nat /\ Cardinality(Below(D2, t)) \in Nat
             /\ Cardinality(Below(D, t)) <= Cardinality(Below(D2, t))
  <2>1. IsFiniteSet(Upto(W, t)) /\ IsFiniteSet(Below(D2, t))
    BY DebtsTyped
  <2>2. Upto(W2, t) \in SUBSET Upto(W, t) /\ Below(D, t) \in SUBSET Below(D2, t)
    BY DEF Upto, Below
  <2> QED BY <2>1, <2>2, FewerCount
<1>4. ASSUME Owes(W, D, n) PROVE Owes(W2, D2, n2)
  <2>1. \A t \in Nat : Cardinality(Upto(W, t)) <= Cardinality(Below(D, t)) + n
    BY <1>4 DEF Owes
  <2>2. \A t \in Nat : Cardinality(Upto(W2, t)) <= Cardinality(Below(D2, t)) + n2
    BY <1>3, <2>1
  <2> QED BY <2>2 DEF Owes
<1>5. ASSUME Spares(W, D, n) PROVE Spares(W2, D2, n2)
  <2>1. \A t \in Nat : Cardinality(Upto(W, t)) + 1 <= Cardinality(Below(D, t)) + n
    BY <1>5 DEF Spares
  <2>2. \A t \in Nat : Cardinality(Upto(W2, t)) + 1 <= Cardinality(Below(D2, t)) + n2
    BY <1>3, <2>1
  <2> QED BY <2>2 DEF Spares
<1>6. ASSUME Owes(W, D, n), n < n2 PROVE Spares(W2, D2, n2)
  <2>1. \A t \in Nat : Cardinality(Upto(W, t)) <= Cardinality(Below(D, t)) + n
    BY <1>6 DEF Owes
  <2>2. \A t \in Nat : Cardinality(Upto(W2, t)) + 1 <= Cardinality(Below(D2, t)) + n2
    BY <1>3, <1>6, <2>1
  <2> QED BY <2>2 DEF Spares
<1>7. Cardinality(W) + 1 <= Cardinality(D) + n => Cardinality(W2) + 1 <= Cardinality(D2) + n2
  BY <1>1, <1>2
<1> QED BY <1>4, <1>5, <1>6, <1>7

(* One more completion, later than everything, when one was left over.      *)
LEMMA DebtIncurred ==
    ASSUME NEW D \in SUBSET Nat, IsFiniteSet(D), NEW W \in SUBSET Nat, IsFiniteSet(W),
           NEW n \in Nat, Owes(W, D, n), Cardinality(W) + 1 <= Cardinality(D) + n,
           NEW x \in Nat, \A y \in D : y < x, NEW W2 \in SUBSET (W \cup {x})
    PROVE  Owes(W2, D, n)
<1>1. ASSUME NEW t \in Nat
      PROVE  Cardinality(Upto(W2, t)) <= Cardinality(Below(D, t)) + n
  <2>1. /\ IsFiniteSet(Upto(W, t)) /\ Cardinality(Upto(W, t)) \in Nat
        /\ Cardinality(Below(D, t)) \in Nat
        /\ Cardinality(W) \in Nat /\ Cardinality(D) \in Nat
    BY DebtsTyped
  <2>2. CASE t < x
    <3>1. Upto(W2, t) \in SUBSET Upto(W, t)
      <4>1. \A y \in W2 : y \in Nat /\ (y \in W \/ y = x)
        OBVIOUS
      <4>2. \A y \in W2 : y <= t => y \in W
        BY <2>2, <4>1
      <4> QED BY <4>2 DEF Upto
    <3>2. Cardinality(Upto(W2, t)) \in Nat /\ Cardinality(Upto(W2, t)) <= Cardinality(Upto(W, t))
      BY <2>1, <3>1, FewerCount
    <3>3. Cardinality(Upto(W, t)) <= Cardinality(Below(D, t)) + n
      BY DEF Owes
    <3> QED BY <2>1, <3>2, <3>3
  <2>3. CASE x <= t
    <3>1. Below(D, t) = D
      <4>1. \A y \in D : y \in Nat /\ y < x
        OBVIOUS
      <4>2. \A y \in D : y < t
        BY <2>3, <4>1
      <4> QED BY <4>2 DEF Below
    <3>2. /\ IsFiniteSet(W \cup {x}) /\ Cardinality(W \cup {x}) \in Nat
          /\ Cardinality(W \cup {x}) <= Cardinality(W) + 1
      BY OneMore
    <3>3. Upto(W2, t) \in SUBSET (W \cup {x})
      BY DEF Upto
    <3>4. /\ Cardinality(Upto(W2, t)) \in Nat
          /\ Cardinality(Upto(W2, t)) <= Cardinality(W \cup {x})
      BY <3>2, <3>3, FewerCount
    <3> QED BY <2>1, <3>1, <3>2, <3>4
  <2> QED BY <2>2, <2>3
<1> QED BY <1>1 DEF Owes

(* An assignment no completion came after is left over.                     *)
LEMMA DebtOpen ==
    ASSUME NEW D \in SUBSET Nat, IsFiniteSet(D), NEW W \in SUBSET Nat, IsFiniteSet(W),
           NEW n \in Nat, Owes(W, D, n), NEW a \in D, \A x \in W : x <= a
    PROVE  Cardinality(W) + 1 <= Cardinality(D) + n
<1>1. Upto(W, a) = W
  BY DEF Upto
<1>2. Cardinality(W) <= Cardinality(Below(D, a)) + n
  BY <1>1 DEF Owes
<1>3. Below(D, a) \in SUBSET (D \ {a})
  BY DEF Below
<1>4. IsFiniteSet(D \ {a}) /\ Cardinality(D \ {a}) = Cardinality(D) - 1
  BY FS_RemoveElement
<1>5. /\ Cardinality(Below(D, a)) \in Nat /\ Cardinality(D) \in Nat /\ Cardinality(W) \in Nat
      /\ Cardinality(Below(D, a)) <= Cardinality(D \ {a})
  BY <1>3, <1>4, FewerCount, FS_CardinalityType
<1> QED BY <1>2, <1>4, <1>5


(* What every event has.                                                    *)
LEMMA EventHas ==
    ASSUME NEW e \in Events
    PROVE  /\ e.by \in Workers \cup {"api"} /\ e.at \in Nat
           /\ e.type \in {"WorkItemCompleted", "WorkItemFailed"} => e.item \in Items
<1>1. /\ e \in [type : EventTypes, item : Items \cup {NoItem},
                status : {"", "running", "paused", "cancelled"}, effort : Nat,
                by : Workers \cup {"api"}, at : Nat]
      /\ e.type \in DOMAIN ItemStatus => e.item # NoItem
  BY DEF Events
<1>2. e.by \in Workers \cup {"api"} /\ e.at \in Nat /\ e.item \in Items \cup {NoItem}
  BY <1>1
<1> QED BY <1>1, <1>2, ItemStatusIs

(* An item that is loaded as assigned has an assignment no completion came  *)
(* after.                                                                   *)
LEMMA AssignedIsOpen ==
    ASSUME TypeInv, EventsOnce, NEW w, NEW i \in Items, WorkerFold(ByTime).items[i] = "assigned"
    PROVE  \E a \in Deals(log, i) : \A x \in Wins(log, i, w) : x <= a
<1> DEFINE R == ByTime
           types == DOMAIN ItemStatus \ {"BlockerEncountered"}
<1>0. log \in Seq(Events)
  BY DEF TypeInv
<1>1. /\ R \in Seq(Events) /\ Len(R) = Len(log) /\ Len(R) \in Nat
      /\ \A k \in 1..Len(R) : \E q \in 1..Len(log) : R[k] = log[q]
      /\ \A q \in 1..Len(log) : \E k \in 1..Len(R) : R[k] = log[q]
      /\ \A j, k \in 1..Len(R) : j < k => R[j].at < R[k].at
  BY <1>0, ByTimeIs, EffortsTyped
<1>2. ItemsOf(types, R)[i] = "assigned"
  BY DEF WorkerFold
<1> HIDE DEF R, types
<1>3. PICK k \in 1..Len(R) :
         /\ Touches(types, R[k], i) /\ ItemStatus[R[k].type] = "assigned"
         /\ \A j \in (k + 1)..Len(R) : ~ Touches(types, R[j], i)
  <2>1. \/ ItemsOf(types, R)[i] = "absent"
        \/ \E k \in 1..Len(R) :
             /\ Touches(types, R[k], i) /\ ItemsOf(types, R)[i] = ItemStatus[R[k].type]
             /\ \A j \in (k + 1)..Len(R) : ~ Touches(types, R[j], i)
    BY <1>1, ItemIsLast
  <2> QED BY <1>2, <2>1
<1>4. PICK q \in 1..Len(log) : R[k] = log[q]
  BY <1>1
<1>5. log[q].type = "WorkItemAssigned" /\ log[q].item = i
  BY <1>3, <1>4, ItemStatusIs DEF Touches, types
<1>6. log[q] \in Events
  BY <1>0, EffortsTyped
<1>7. log[q].by \in Workers \cup {"api"} /\ log[q].at \in Nat
  BY <1>6, EventHas
<1>8. log[q].at \in Deals(log, i)
  BY <1>5, <1>7 DEF Deals, Stamps, Chosen
<1>9. ASSUME NEW x \in Wins(log, i, w) PROVE x <= log[q].at
  <2>1. PICK m \in 1..Len(log) :
          log[m].type = "WorkItemCompleted" /\ log[m].item = i /\ log[m].at = x
    BY DEF Wins, Stamps, Chosen
  <2>2. PICK j \in 1..Len(R) : R[j] = log[m]
    BY <1>1
  <2>3. Touches(types, R[j], i)
    BY <2>1, <2>2, ItemStatusIs DEF Touches, types
  <2>4. ~ (j \in (k + 1)..Len(R))
    BY <1>3, <2>3
  <2>5. j < k \/ j = k
    BY <1>1, <2>4
  <2>6. x \in Nat
    <3>1. log[m] \in Events
      BY <1>0, EffortsTyped
    <3> QED BY <2>1, <3>1, EventHas
  <2>7. CASE j < k
    <3>1. R[j].at < R[k].at
      BY <1>1, <2>7
    <3> QED BY <1>4, <1>7, <2>1, <2>2, <2>6, <3>1
  <2>8. CASE j = k
    BY <1>4, <1>7, <2>1, <2>2, <2>6, <2>8
  <2> QED BY <2>5, <2>7, <2>8
<1> QED BY <1>8, <1>9

(* Every step keeps what a worker owes.                                     *)
LEMMA PaysStep ==
    ASSUME TypeInv, StampInv, TypeInv', NEW w \in Workers, NEW i \in Items,
           Pays(log, inflight, w, wrk[w], faults, i), Moves(w),
           faults \in Nat, faults' \in Nat, faults <= faults'
    PROVE  Pays(log', inflight', w, wrk'[w], faults', i)
<1> DEFINE v  == wrk[w]
           E  == wrk[w].events
           v2 == wrk'[w]
           E2 == wrk'[w].events
           WF == Wins(inflight, i, w)
           WE == Wins(E, i, w)
           W  == AllWins(log, inflight, v, i, w)
           D  == Deals(log, i)
           WF2 == Wins(inflight', i, w)
           WE2 == Wins(E2, i, w)
           W2  == AllWins(log', inflight', v2, i, w)
           D2  == Deals(log', i)
           Goal == Pays(log', inflight', w, v2, faults', i)
<1> SUFFICES Goal
  OBVIOUS
<1>1. /\ log \in Seq(Events) /\ inflight \in Seq(Events) /\ E \in Seq(Events)
      /\ clock \in Nat
  BY TurnTypes
<1>2. log' \in Seq(Events)
  BY DEF TypeInv
<1>3. /\ W \in SUBSET Nat /\ IsFiniteSet(W) /\ \A x \in W : x < clock
  <2>1. Before(log, clock) /\ Before(inflight, clock) /\ Before(E, clock)
    BY WaitingBatch DEF StampInv, Stamped
  <2>2. /\ Wins(log, i, w) \subseteq Ats(log) /\ IsFiniteSet(Wins(log, i, w))
        /\ WF \subseteq Ats(inflight) /\ IsFiniteSet(WF)
        /\ WE \subseteq Ats(E) /\ IsFiniteSet(WE)
    BY <1>1, TurnsTyped
  <2>3. Ats(log) \in SUBSET Nat /\ Ats(inflight) \in SUBSET Nat /\ Ats(E) \in SUBSET Nat
    BY <1>1, AtsTyped
  <2>4. W = Wins(log, i, w) \cup WF \cup WE
    BY DEF AllWins
  <2> HIDE DEF W, WF, WE, E
  <2>5. IsFiniteSet(W)
    BY <2>2, <2>4, FS_Union
  <2> QED BY <2>1, <2>2, <2>3, <2>4, <2>5 DEF Before
<1>4. /\ D \in SUBSET Nat /\ IsFiniteSet(D) /\ \A y \in D : y < clock
  <2>1. Before(log, clock)
    BY DEF StampInv, Stamped
  <2>2. D \subseteq Ats(log) /\ IsFiniteSet(D) /\ Ats(log) \in SUBSET Nat
    BY <1>1, TurnsTyped, AtsTyped
  <2> QED BY <2>1, <2>2 DEF Before
<1>5. D2 \in SUBSET Nat /\ IsFiniteSet(D2)
  <2>1. D2 \subseteq Ats(log') /\ IsFiniteSet(D2) /\ Ats(log') \in SUBSET Nat
    BY <1>2, TurnsTyped, AtsTyped
  <2> QED BY <2>1
<1>6. /\ Owes(W, D, faults)
      /\ WF # {} /\ WE \subseteq WF => Spares(W, D, faults)
      /\ v.pc = "work" /\ v.items[i] = "assigned" =>
           Cardinality(W) + 1 <= Cardinality(D) + faults
  BY DEF Pays
<1>7. /\ W = Wins(log, i, w) \cup WF \cup WE
      /\ W2 = Wins(log', i, w) \cup WF2 \cup WE2
  BY DEF AllWins
<1>8. ASSUME Owes(W2, D2, faults'),
             WF2 # {} /\ WE2 \subseteq WF2 => Spares(W2, D2, faults'),
             v2.pc = "work" /\ v2.items[i] = "assigned" =>
               Cardinality(W2) + 1 <= Cardinality(D2) + faults'
      PROVE  Goal
  BY <1>8 DEF Pays
<1>9. ASSUME NEW s \in Seq(Events), NEW b \in Seq(Events)
      PROVE  /\ Wins(s \o b, i, w) = Wins(s, i, w) \cup Wins(b, i, w)
             /\ Deals(s \o b, i) = Deals(s, i) \cup Deals(b, i)
  BY DealsJoin
<1>10. Wins(<<>>, i, w) = {}
  BY NothingExecuted
<1>11. ASSUME W2 \subseteq W, D \subseteq D2,
              WF2 # {} /\ WE2 \subseteq WF2 =>
                (WF # {} /\ WE \subseteq WF) \/ faults < faults',
              v2.pc = "work" /\ v2.items[i] = "assigned" =>
                v.pc = "work" /\ v.items[i] = "assigned"
       PROVE  Goal
  <2> HIDE DEF W, D, W2, D2, WF, WE, WF2, WE2, Goal, v, v2
  <2>1. /\ Owes(W, D, faults) => Owes(W2, D2, faults')
        /\ Spares(W, D, faults) => Spares(W2, D2, faults')
        /\ Owes(W, D, faults) /\ faults < faults' => Spares(W2, D2, faults')
        /\ Cardinality(W) + 1 <= Cardinality(D) + faults
             => Cardinality(W2) + 1 <= Cardinality(D2) + faults'
    BY <1>3, <1>5, <1>11, DebtsKept
  <2> QED BY <1>6, <1>8, <1>11, <2>1
<1>12. CASE Rests(w)
  <2>1. log' = log /\ inflight' = inflight /\ v2 = v
    BY <1>12 DEF Rests, Same
  <2>2. /\ W2 \subseteq W /\ D \subseteq D2 /\ WF2 = WF /\ WE2 = WE
        /\ v2.pc = v.pc /\ v2.items = v.items
    BY <2>1
  <2> HIDE DEF W, D, W2, D2, WF, WE, WF2, WE2, Goal, v, v2
  <2> QED BY <1>11, <2>2
<1>13. CASE Lands(w)
  <2>1. /\ v2 = v /\ E2 = E /\ inflight' = <<>>
        /\ log' = log \/ log' = log \o inflight
    BY <1>13 DEF Lands, Same
  <2>2. Wins(log', i, w) \subseteq Wins(log, i, w) \cup WF /\ D \subseteq D2
    <3>1. CASE log' = log
      BY <3>1
    <3>2. CASE log' = log \o inflight
      BY <1>1, <1>9, <3>2
    <3> QED BY <2>1, <3>1, <3>2
  <2>3. WF2 = {} /\ WE2 = WE /\ v2.pc = v.pc /\ v2.items = v.items
    BY <1>10, <2>1
  <2> HIDE DEF W, D, W2, D2, WF, WE, WF2, WE2, Goal, v, v2
  <2> QED BY <1>7, <1>11, <2>2, <2>3
<1>14. CASE Other(w)
  <2>1. PICK b \in Seq(Events) :
          /\ Foreign(b, w) /\ v2 = v /\ E2 = E
          /\ \/ log' = log \o b /\ inflight' = <<>>
             \/ log' = log /\ inflight' = b
    BY <1>14 DEF Other, Same
  <2>2. Wins(b, i, w) = {}
    BY <2>1, NothingExecuted
  <2>3. Wins(log', i, w) = Wins(log, i, w) /\ D \subseteq D2 /\ WF2 = {}
    <3>1. CASE log' = log \o b /\ inflight' = <<>>
      <4>1. /\ Wins(log \o b, i, w) = Wins(log, i, w) \cup Wins(b, i, w)
            /\ Deals(log \o b, i) = Deals(log, i) \cup Deals(b, i)
        BY <1>1, <1>9
      <4>2. WF2 = {}
        BY <1>10, <3>1
      <4> QED BY <2>2, <3>1, <4>1, <4>2
    <3>2. CASE log' = log /\ inflight' = b
      BY <2>2, <3>2
    <3> QED BY <2>1, <3>1, <3>2
  <2>4. WE2 = WE /\ v2.pc = v.pc /\ v2.items = v.items
    BY <2>1
  <2> HIDE DEF W, D, W2, D2, WF, WE, WF2, WE2, Goal, v, v2
  <2> QED BY <1>7, <1>11, <2>3, <2>4
<1>15. CASE Stores(w)
  <2>1. log' = log \o E /\ inflight' = <<>> /\ E2 = <<>> /\ v2.pc # "work"
    BY <1>15 DEF Stores
  <2>2. Wins(log', i, w) = Wins(log, i, w) \cup WE /\ D \subseteq D2
    BY <1>1, <1>9, <2>1
  <2>3. WF2 = {} /\ WE2 = {}
    BY <1>10, <2>1
  <2> HIDE DEF W, D, W2, D2, WF, WE, WF2, WE2, Goal, v, v2
  <2> QED BY <1>7, <1>11, <2>1, <2>2, <2>3
<1>16. CASE Flies(w)
  <2>1. /\ inflight' = E /\ log' = log /\ faults' = faults + 1 /\ v2.pc # "work"
        /\ E2 = E \/ E2 = <<>>
    BY <1>16 DEF Flies
  <2>2. Wins(log', i, w) = Wins(log, i, w) /\ D2 = D /\ WF2 = WE /\ faults < faults'
    BY <2>1
  <2>3. WE2 = WE \/ WE2 = {}
    BY <1>10, <2>1
  <2>4. v2.pc # "work"
    BY <2>1
  <2> HIDE DEF W, D, W2, D2, WF, WE, WF2, WE2, Goal, v, v2
  <2> QED BY <1>7, <1>11, <2>2, <2>3, <2>4
<1>17. CASE Keeps(w)
  <2>1. /\ log' = log /\ inflight' = inflight /\ v2.pc # "work"
        /\ \/ E2 = E
           \/ \E e \in Events : e.type = "RunCompleted" /\ E2 = E \o <<e>>
    BY <1>17 DEF Keeps
  <2>2. WE2 = WE
    <3>1. ASSUME NEW e \in Events, e.type = "RunCompleted", E2 = E \o <<e>>
          PROVE  WE2 = WE
      <4> DEFINE b == <<e>>
      <4>1. b \in Seq(Events) /\ \A k \in 1..Len(b) : b[k].type = "RunCompleted"
        BY <3>1
      <4>2. E2 = E \o b
        BY <3>1
      <4> HIDE DEF b
      <4>3. Wins(b, i, w) = {}
        BY <4>1, NothingExecuted
      <4>4. Wins(E \o b, i, w) = Wins(E, i, w) \cup Wins(b, i, w)
        BY <1>1, <1>9, <4>1
      <4> QED BY <4>2, <4>3, <4>4
    <3>2. CASE E2 = E
      BY <3>2
    <3> QED BY <2>1, <3>1, <3>2
  <2>3. Wins(log', i, w) = Wins(log, i, w) /\ D2 = D /\ WF2 = WF /\ v2.pc # "work"
    BY <2>1
  <2> HIDE DEF W, D, W2, D2, WF, WE, WF2, WE2, Goal, v, v2
  <2> QED BY <1>7, <1>11, <2>2, <2>3
<1>18. CASE Drops(w)
  <2>1. /\ log' = log /\ inflight' = inflight /\ v2.pc # "work" /\ E2 = <<>>
        /\ E = <<>> \/ inflight = <<>> \/ faults' = faults + 1
    BY <1>18 DEF Drops
  <2>2. /\ Wins(log', i, w) = Wins(log, i, w) /\ D2 = D /\ WF2 = WF /\ WE2 = {}
        /\ WE = {} \/ WF = {} \/ faults < faults'
        /\ v2.pc # "work"
    BY <1>10, <2>1
  <2> HIDE DEF W, D, W2, D2, WF, WE, WF2, WE2, Goal, v, v2
  <2> QED BY <1>7, <1>11, <2>2
<1>19. CASE LoadRun(w)
  <2>1. /\ log' = log /\ inflight' = inflight /\ E = <<>> /\ E2 = <<>>
        /\ v2.items = WorkerFold(ByTime).items
    BY <1>19, LoadedIs
  <2>2. /\ Wins(log', i, w) = Wins(log, i, w) /\ D2 = D /\ WF2 = WF /\ WE2 = {} /\ WE = {}
    BY <1>10, <2>1
  <2>3. W2 = W
    BY <1>7, <2>2
  <2>4. ASSUME v2.items[i] = "assigned"
        PROVE  Cardinality(W) + 1 <= Cardinality(D) + faults
    <3>1. CASE WF # {}
      <4> HIDE DEF W, D, WF, WE
      <4>1. Spares(W, D, faults)
        BY <1>6, <2>2, <3>1
      <4>2. Upto(W, clock) = W
        <5>1. \A x \in W : x \in Nat /\ x < clock
          BY <1>3
        <5>2. \A x \in W : x <= clock
          BY <1>1, <5>1
        <5> QED BY <5>2 DEF Upto
      <4>3. Cardinality(W) + 1 <= Cardinality(Below(D, clock)) + faults
        BY <1>1, <4>1, <4>2 DEF Spares
      <4>4. /\ Cardinality(Below(D, clock)) \in Nat /\ Cardinality(D) \in Nat
            /\ Cardinality(Below(D, clock)) <= Cardinality(D) /\ Cardinality(W) \in Nat
        BY <1>1, <1>3, <1>4, DebtsTyped
      <4> QED BY <4>3, <4>4
    <3>2. CASE WF = {}
      <4>1. EventsOnce
        BY <1>1, StampInvOnce
      <4>2. PICK a \in D : \A x \in Wins(log, i, w) : x <= a
        BY <2>1, <2>4, <4>1, AssignedIsOpen
      <4>3. W = Wins(log, i, w)
        BY <1>7, <2>2, <3>2
      <4> HIDE DEF W, D, WF, WE
      <4> QED BY <1>3, <1>4, <1>6, <4>2, <4>3, DebtOpen
    <3> QED BY <3>1, <3>2
  <2> HIDE DEF W, D, W2, D2, WF, WE, WF2, WE2, Goal, v, v2
  <2>5. /\ Owes(W2, D2, faults')
        /\ Spares(W, D, faults) => Spares(W2, D2, faults')
        /\ Cardinality(W) + 1 <= Cardinality(D) + faults
             => Cardinality(W2) + 1 <= Cardinality(D2) + faults'
    <3>1. W2 \in SUBSET W /\ D \in SUBSET D2
      BY <2>2, <2>3
    <3> QED BY <1>3, <1>5, <1>6, <3>1, DebtsKept
  <2> QED BY <1>6, <1>8, <2>2, <2>4, <2>5
<1>20. ASSUME NEW j \in Items, NEW o \in Outcomes, ExecuteItem(w, j, o)
       PROVE  Goal
  <2> DEFINE b == ExecutionEvents(w, j, o)
  <2>1. /\ log' = log /\ inflight' = inflight /\ v.pc = "work" /\ v.items[j] = "assigned"
        /\ E2 = E \o b /\ v2.items[j] # "assigned"
        /\ \A k \in Items \ {j} : v2.items[k] = v.items[k]
    BY <1>20, ExecutedIs
  <2>2. PICK x \in Nat : /\ b \in Seq(Events) /\ clock <= x /\ Wins(b, i, w) \subseteq {x}
                         /\ Wins(b, i, w) # {} => i = j
    BY <1>1, ExecutionOnce DEF Counts
  <2> HIDE DEF b
  <2>3. /\ Wins(log', i, w) = Wins(log, i, w) /\ D2 = D /\ WF2 = WF
        /\ WE2 = WE \cup Wins(b, i, w)
    <3>1. Wins(E \o b, i, w) = WE \cup Wins(b, i, w)
      BY <1>1, <1>9, <2>2
    <3> QED BY <2>1, <3>1
  <2>4. CASE Wins(b, i, w) = {}
    <3>1. v2.items[i] = "assigned" => v.items[i] = "assigned"
      BY <2>1
    <3>2. v.pc = "work"
      BY <2>1
    <3> HIDE DEF W, D, W2, D2, WF, WE, WF2, WE2, Goal, v, v2
    <3> QED BY <1>7, <1>11, <2>3, <2>4, <3>1, <3>2
  <2>5. CASE Wins(b, i, w) # {}
    <3>1. i = j /\ Wins(b, i, w) = {x}
      BY <2>2, <2>5
    <3>2. v.pc = "work" /\ v.items[i] = "assigned" /\ v2.items[i] # "assigned"
      BY <2>1, <3>1
    <3> HIDE DEF W, D, W2, D2, WF, WE, WF2, WE2, Goal, v, v2
    <3>3. W2 \in SUBSET (W \cup {x})
      BY <1>7, <2>3, <3>1
    <3>4. \A y \in D : y < x
      <4>1. \A y \in D : y \in Nat /\ y < clock
        BY <1>4
      <4> QED BY <1>1, <2>2, <4>1
    <3>5. Owes(W2, D, faults)
      BY <1>3, <1>4, <1>6, <3>2, <3>3, <3>4, DebtIncurred
    <3>6. x \notin WF
      <4>1. \A y \in WF : y \in Nat /\ y < clock
        BY <1>3, <1>7
      <4> QED BY <1>1, <2>2, <4>1
    <3>7. ~ (WE2 \subseteq WF2)
      BY <2>3, <3>1, <3>6
    <3>8. Owes(W2, D2, faults')
      <4>1. W2 \in SUBSET Nat /\ IsFiniteSet(W2)
        <5>1. IsFiniteSet(W \cup {x}) /\ W \cup {x} \in SUBSET Nat
          BY <1>3, FS_AddElement
        <5> QED BY <3>3, <5>1, FS_Subset
      <4>2. W2 \in SUBSET W2 /\ D \in SUBSET D2
        BY <2>3
      <4> QED BY <1>5, <3>5, <4>1, <4>2, DebtsKept
    <3> QED BY <1>8, <3>2, <3>7, <3>8
  <2> QED BY <2>4, <2>5
<1> HIDE DEF Goal
<1> QED BY <1>12, <1>13, <1>14, <1>15, <1>16, <1>17, <1>18, <1>19, <1>20 DEF Moves


-----------------------------------------------------------------------------
(* At first nothing is executed and nothing is owed.                        *)
LEMMA TurnInit == Init => TurnInv
<1> SUFFICES ASSUME Init PROVE TurnInv
  OBVIOUS
<1>1. /\ log = <<>> /\ inflight = <<>> /\ faults = 0
      /\ \A h \in Handlers : ctl[h].events = <<>>
      /\ \A w \in Workers : wrk[w].events = <<>> /\ wrk[w].pc # "work"
  BY DEF Init, IdleControl, IdleWorker
<1>2. /\ \A w : Turns(<<>>, 1, w) = {}
      /\ \A i, w : Wins(<<>>, i, w) = {}
      /\ \A i : Deals(<<>>, i) = {}
  <2>1. \A w : Turns(<<>>, 1, w) = {} /\ \A i : Wins(<<>>, i, w) = {}
    BY NothingExecuted
  <2>2. \A i : Deals(<<>>, i) = {}
    BY DEF Deals, Stamps, Chosen
  <2> QED BY <2>1, <2>2
<1>3. Cardinality({}) = 0 /\ ItemsPerLoop \in Nat
  BY FS_EmptySet, NumbersAssumption
<1>4. OriginInv
  BY <1>1 DEF OriginInv, Asked, Pure, Asks, Works
<1>5. ASSUME NEW w \in Workers PROVE Heeds(log, inflight, w, wrk[w])
  <2>1. ~ \E p \in 1..Len(log) : TRUE
    BY <1>1
  <2>2. wrk[w].pc # "work" /\ Cardinality(Turns(wrk[w].events, 1, w)) <= ItemsPerLoop
    <3>1. wrk[w].pc # "work" /\ wrk[w].events = <<>>
      BY <1>1
    <3>2. Turns(wrk[w].events, 1, w) = {}
      BY <1>2, <3>1
    <3>3. Cardinality(Turns(wrk[w].events, 1, w)) = 0
      BY <1>3, <3>2
    <3>4. 0 <= ItemsPerLoop
      BY <1>3
    <3> QED BY <3>1, <3>3, <3>4
  <2> QED BY <2>1, <2>2 DEF Heeds
<1>6. ASSUME NEW w \in Workers, NEW i \in Items PROVE Pays(log, inflight, w, wrk[w], faults, i)
  <2>1. AllWins(log, inflight, wrk[w], i, w) = {} /\ Deals(log, i) = {} /\ Wins(inflight, i, w) = {}
    BY <1>1, <1>2 DEF AllWins
  <2>2. \A t \in Nat : Upto({}, t) = {} /\ Below({}, t) = {}
    BY DEF Upto, Below
  <2>3. Owes({}, {}, faults)
    <3>1. \A t \in Nat : Cardinality(Upto({}, t)) = 0 /\ Cardinality(Below({}, t)) = 0
      BY <1>3, <2>2
    <3>2. \A t \in Nat : Cardinality(Upto({}, t)) <= Cardinality(Below({}, t)) + faults
      BY <1>1, <3>1
    <3> QED BY <3>2 DEF Owes
  <2>4. wrk[w].pc # "work"
    BY <1>1
  <2> QED BY <2>1, <2>3, <2>4 DEF Pays
<1> QED BY <1>4, <1>5, <1>6 DEF TurnInv

(* And every step keeps the invariant.                                      *)
LEMMA TurnStep ==
    ASSUME TypeInv, StampInv, HistoryInv, TurnInv, [Next]_vars
    PROVE  TurnInv'
<1>1. /\ OriginInv
      /\ \A w \in Workers : Heeds(log, inflight, w, wrk[w])
      /\ \A w \in Workers, i \in Items : Pays(log, inflight, w, wrk[w], faults, i)
  BY DEF TurnInv
<1>2. OriginInv'
  BY <1>1, OriginStep
<1>3. TypeInv'
  <2>1. EventsOnce
    BY StampInvOnce DEF TypeInv
  <2> QED BY <2>1, TypeStep
<1>4. \A w \in Workers : Moves(w)
  BY <1>1, AllMove
<1>5. faults \in Nat /\ faults' \in Nat /\ faults <= faults'
  BY FaultsAdd
<1>6. ASSUME NEW w \in Workers PROVE Heeds(log', inflight', w, wrk'[w])
  BY <1>1, <1>4, HeedsStep
<1>7. ASSUME NEW w \in Workers, NEW i \in Items
      PROVE  Pays(log', inflight', w, wrk'[w], faults', i)
  BY <1>1, <1>3, <1>4, <1>5, PaysStep
<1> QED BY <1>2, <1>6, <1>7 DEF TurnInv

(* What the invariant says of the log alone.                                *)
LEMMA TurnSays ==
    ASSUME TypeInv, StampInv, TurnInv
    PROVE  StopIsHeeded /\ ExecutionsPaid
<1>1. log \in Seq(Events) /\ inflight \in Seq(Events) /\ clock \in Nat /\ Len(log) \in Nat
  BY EffortsTyped DEF TypeInv
<1>2. Once(log)
  BY <1>1, StampInvOnce, OnceIs
<1>3. \A k \in 1..Len(log) : log[k] \in Events
  BY <1>1, EffortsTyped
<1>4. DOMAIN log = 1..Len(log)
  BY <1>1, LogIndices
<1>5. ItemsPerLoop \in Nat /\ 1 \in Nat \ {0}
  BY NumbersAssumption
<1>6. ASSUME NEW p \in StatusSet({"paused", "cancelled"}),
             \A q \in StatusSet({"running"}) : q < p, NEW w \in Workers
      PROVE  Executions(w, p) <= ItemsPerLoop
  <2> DEFINE v == wrk[w]
             A == AllTurns(log, inflight, v, p, w)
             T == Turns(log, p, w)
             X == {k \in p..Len(log) : log[k].by = w
                                       /\ log[k].type \in {"WorkItemCompleted", "WorkItemFailed"}}
  <2>1. p \in 1..Len(log) /\ Stopped(log, p)
    BY <1>4, <1>6 DEF StatusSet, Positions, Stopped
  <2>2. Heeds(log, inflight, w, v)
    BY DEF TurnInv
  <2>3. Cardinality(A) <= ItemsPerLoop
    BY <2>1, <2>2 DEF Heeds
  <2>4. p \in Nat \ {0}
    BY <1>1, <2>1
  <2>5. IsFiniteSet(A) /\ T \in SUBSET A
    <3>1. v.events \in Seq(Events)
      BY TurnTypes
    <3>2. IsFiniteSet(T) /\ IsFiniteSet(Turns(inflight, 1, w)) /\ IsFiniteSet(Turns(v.events, 1, w))
      BY <1>1, <1>5, <2>4, <3>1, TurnsTyped
    <3>3. A = T \cup Turns(inflight, 1, w) \cup Turns(v.events, 1, w)
      BY DEF AllTurns
    <3> HIDE DEF A, T
    <3> QED BY <3>2, <3>3, FS_Union
  <2>6. Cardinality(T) = Cardinality(Chosen(log, p, {"WorkItemCompleted", "WorkItemFailed"}, Items, {w}))
    BY <1>1, <1>2, <2>4, StampsTyped DEF Turns
  <2>7. X = Chosen(log, p, {"WorkItemCompleted", "WorkItemFailed"}, Items, {w})
    <3>1. \A k \in p..Len(log) : k \in 1..Len(log)
      BY <1>1, <2>1
    <3>2. \A k \in p..Len(log) :
            log[k].type \in {"WorkItemCompleted", "WorkItemFailed"} => log[k].item \in Items
      BY <1>3, <3>1, EventHas
    <3> QED BY <3>2 DEF Chosen
  <2>8. Executions(w, p) = Cardinality(X)
    BY DEF Executions
  <2> HIDE DEF A, T, X
  <2>9. /\ Cardinality(T) \in Nat /\ Cardinality(A) \in Nat
        /\ Cardinality(T) <= Cardinality(A)
    BY <2>5, FewerCount
  <2> QED BY <1>5, <2>3, <2>6, <2>7, <2>8, <2>9
<1>7. ASSUME NEW w \in Workers, NEW i \in Items
      PROVE  Cardinality({p \in Positions("WorkItemCompleted") :
                            log[p].item = i /\ log[p].by = w})
               <= Cardinality({p \in Positions("WorkItemAssigned") : log[p].item = i}) + faults
  <2> DEFINE v == wrk[w]
             W == AllWins(log, inflight, v, i, w)
             D == Deals(log, i)
             V == Wins(log, i, w)
             X == {p \in Positions("WorkItemCompleted") : log[p].item = i /\ log[p].by = w}
             Y == {p \in Positions("WorkItemAssigned") : log[p].item = i}
  <2>1. Owes(W, D, faults)
    BY DEF TurnInv, Pays
  <2>2. Cardinality(Upto(W, clock)) <= Cardinality(Below(D, clock)) + faults
    BY <1>1, <2>1 DEF Owes
  <2>3. v.events \in Seq(Events)
    BY TurnTypes
  <2>4. /\ V \subseteq Ats(log) /\ IsFiniteSet(V) /\ D \subseteq Ats(log) /\ IsFiniteSet(D)
        /\ IsFiniteSet(Wins(inflight, i, w)) /\ IsFiniteSet(Wins(v.events, i, w))
    BY <1>1, <2>3, TurnsTyped
  <2>5. IsFiniteSet(W) /\ V \subseteq W
    <3>1. W = V \cup Wins(inflight, i, w) \cup Wins(v.events, i, w)
      BY DEF AllWins
    <3> HIDE DEF W, V
    <3> QED BY <2>4, <3>1, FS_Union
  <2>6. \A x \in Ats(log) : x \in Nat /\ x < clock
    BY <1>1, AtsTyped DEF StampInv, Stamped, Before
  <2>7. Cardinality(V) = Cardinality(X)
    <3>1. X = Chosen(log, 1, {"WorkItemCompleted"}, {i}, {w})
      BY <1>4 DEF Positions, Chosen
    <3>2. V = Stamps(log, 1, {"WorkItemCompleted"}, {i}, {w})
      BY DEF Wins
    <3> HIDE DEF V, X
    <3> QED BY <1>1, <1>2, <1>5, <3>1, <3>2, StampsTyped
  <2>8. Cardinality(D) = Cardinality(Y)
    <3>1. \A k \in 1..Len(log) : log[k].by \in Workers \cup {"api"}
      BY <1>3, EventHas
    <3>2. Y = Chosen(log, 1, {"WorkItemAssigned"}, {i}, Workers \cup {"api"})
      BY <1>4, <3>1 DEF Positions, Chosen
    <3>3. D = Stamps(log, 1, {"WorkItemAssigned"}, {i}, Workers \cup {"api"})
      BY DEF Deals
    <3> HIDE DEF D, Y
    <3> QED BY <1>1, <1>2, <1>5, <3>2, <3>3, StampsTyped
  <2> HIDE DEF W, D, V, X, Y
  <2>9. V \in SUBSET Upto(W, clock) /\ Upto(W, clock) \in SUBSET W /\ Below(D, clock) \in SUBSET D
    <3>1. \A x \in V : x \in W /\ x <= clock
      BY <1>1, <2>4, <2>5, <2>6
    <3> QED BY <3>1 DEF Upto, Below
  <2>10. /\ IsFiniteSet(Upto(W, clock)) /\ Cardinality(Upto(W, clock)) \in Nat
         /\ Cardinality(Below(D, clock)) \in Nat /\ Cardinality(D) \in Nat
         /\ Cardinality(Below(D, clock)) <= Cardinality(D)
    BY <2>4, <2>5, <2>9, FewerCount
  <2>11. Cardinality(V) \in Nat /\ Cardinality(V) <= Cardinality(Upto(W, clock))
    BY <2>9, <2>10, FewerCount
  <2>12. faults \in Nat
    BY NumbersAssumption DEF TypeInv
  <2>13. Cardinality(V) <= Cardinality(D) + faults
    BY <2>2, <2>10, <2>11, <2>12
  <2> QED BY <2>7, <2>8, <2>13 DEF X, Y
<1>8. StopIsHeeded
  BY <1>6 DEF StopIsHeeded
<1>9. ExecutionsPaid
  BY <1>7 DEF ExecutionsPaid
<1> QED BY <1>8, <1>9

(* Both, in every state.                                                    *)
LEMMA TurnsHold == Spec => [](StopIsHeeded /\ ExecutionsPaid)
<1>1. Init => TypeInv /\ StampInv /\ HistoryInv /\ TurnInv
  BY TypeInit, StampInit, HistoryInit, TurnInit
<1>2. TypeInv /\ StampInv /\ HistoryInv /\ TurnInv /\ [Next]_vars
        => (TypeInv /\ StampInv /\ HistoryInv /\ TurnInv)'
  <2>1. TypeInv /\ StampInv /\ HistoryInv /\ [Next]_vars => (TypeInv /\ StampInv /\ HistoryInv)'
    BY TypeStep, StampStep, HistoryStep, StampInvOnce DEF TypeInv
  <2> QED BY <2>1, TurnStep
<1>3. TypeInv /\ StampInv /\ HistoryInv /\ TurnInv => StopIsHeeded /\ ExecutionsPaid
  BY TurnSays
<1> QED BY <1>1, <1>2, <1>3, PTL DEF Spec

(* A pause or a cancel is heeded by any number of workers: after it, and    *)
(* until somebody sets the run running again, each stores at most the turn  *)
(* it was in, in whatever places its batches were when the stop was stored. *)
THEOREM StopsAreHeeded == Spec => []StopIsHeeded
  BY TurnsHold, PTL

(* A worker completes an item at most once per assignment, but for faults:  *)
(* each completion of its own has an assignment before it, by time, or a    *)
(* COMMIT whose answer was lost.                                            *)
THEOREM ExecutionsArePaid == Spec => []ExecutionsPaid
  BY TurnsHold, PTL

=============================================================================
