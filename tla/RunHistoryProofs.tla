-------------------------- MODULE RunHistoryProofs --------------------------
(***************************************************************************)
(* What the log of a run promises and what the rows may show of it, for    *)
(* any items, workers, handlers, requests, outcomes and bounds: a run is   *)
(* completed when every item is, what the API writes is the latest, and no *)
(* row shows more than the log says.  Each process is followed from the    *)
(* load that began its work: what it holds in its memory was true of a log *)
(* that has only grown since.  So is what the page of a run has read, and  *)
(* the last part proves that its timeline explains it.                     *)
(***************************************************************************)
EXTENDS RunPage, RunSystemProofs

-----------------------------------------------------------------------------
(* What the log says of the run, and what each process knows of it.         *)

(* What a sequence of events has: a completion or a failure of an item, an  *)
(* event of a type, a change to a status.                                   *)
Done(s, i)      == \E k \in 1..Len(s) : s[k].type = "WorkItemCompleted" /\ s[k].item = i
Broken(s, i)    == \E k \in 1..Len(s) : s[k].type = "WorkItemFailed" /\ s[k].item = i
Holds(s, type)  == \E k \in 1..Len(s) : s[k].type = type
Says(s, status) == \E k \in 1..Len(s) : s[k].type = "RunStatusChanged" /\ s[k].status = status

(* What a batch must be before it is put behind the log L: where it ends    *)
(* the run every item is completed, in L or before that in the batch; a     *)
(* completion carries the effort; what the API made is later than L.        *)
Earned(b, L) ==
    \A k \in 1..Len(b) : b[k].type = "RunCompleted" =>
        \A i \in Items :
            \/ Done(L, i)
            \/ \E j \in 1..(k - 1) : b[j].type = "WorkItemCompleted" /\ b[j].item = i
Priced(b)   == \A k \in 1..Len(b) : b[k].type = "WorkItemCompleted" => b[k].effort = Effort
Later(b, L) == \A k \in 1..Len(b) : b[k].by = "api" => Before(L, b[k].at)

GoodBatch(b, L) == Earned(b, L) /\ Priced(b) /\ Later(b, L)

GoodLog(L) ==
    /\ \A p, q \in 1..Len(L) : q < p /\ L[p].by = "api" => L[q].at < L[p].at
    /\ Earned(L, <<>>) /\ Priced(L)
    /\ L # <<>> => \A i \in Items : \E p \in 1..Len(L) :
                        L[p].type = "WorkItemAssigned" /\ L[p].item = i

(* What a row, or what will be written to one, may show when the log is L.  *)
GoodRow(status, effort, L) ==
    /\ status # "absent" => L # <<>>
    /\ status = "completed" =>
        Holds(L, "RunCompleted") /\ Effort * Cardinality(Items) <= effort
    /\ status = "blocked" => Holds(L, "WorkItemFailed")
    /\ status \in {"paused", "cancelled"} => Says(L, status)
    /\ effort <= EffortOf(0, L)
GoodItems(items, L) ==
    \A i \in Items : /\ items[i] = "completed" => Done(L, i)
                     /\ items[i] = "failed"    => Broken(L, i)

(* The locals of a handler, of a worker and of the rebuild.                 *)
GoodControl(c, L) ==
    /\ c.pc = "append" =>
        /\ c.base <= Len(L)
        /\ \A q \in 1..c.base, k \in 1..Len(c.events) : L[q].at < c.events[k].at
        /\ ~ Holds(c.events, "RunCompleted") /\ ~ Holds(c.events, "WorkItemCompleted")
        /\ Says(c.events, Target[c.kind])
    /\ c.pc = "sync" => Says(L, Target[c.kind])

GoodWorker(w, v, L) ==
    /\ v.pc \in {"work", "load", "append"} =>
        /\ \A k \in 1..Len(v.events) : v.events[k].by = w
        /\ Priced(v.events)
        /\ v.effort <= EffortOf(0, L) + EffortOf(0, v.events)
        /\ v.status = "blocked" => Holds(v.events, "WorkItemFailed")
    /\ v.pc = "work" =>
        /\ ~ Holds(v.events, "RunCompleted") /\ v.status # "completed"
        /\ \A i \in Items : /\ v.items[i] # "absent"
                            /\ v.items[i] = "completed" => Done(L, i) \/ Done(v.events, i)
        /\ Effort * Cardinality({i \in Items : v.items[i] = "completed"}) <= v.effort
    /\ v.pc \in {"load", "append"} =>
        /\ Earned(v.events, L)
        /\ v.status = "completed" =>
            Holds(v.events, "RunCompleted") /\ Effort * Cardinality(Items) <= v.effort
    /\ v.pc = "items" =>
        /\ GoodRow(v.status, v.effort, L)
        /\ \A k \in 1..Len(v.todo) :
            /\ v.todo[k].type = "WorkItemCompleted" => Done(L, v.todo[k].item)
            /\ v.todo[k].type = "WorkItemFailed"    => Broken(L, v.todo[k].item)

GoodRebuild(r, L) == r.pc # "idle" => GoodRow(r.status, r.effort, L) /\ GoodItems(r.items, L)

HistoryInv ==
    /\ creation # "new" => log # <<>>
    /\ GoodLog(log) /\ GoodBatch(inflight, log)
    /\ GoodRow(runRow.status, runRow.effort, log) /\ GoodItems(itemRow, log)
    /\ \A h \in Handlers : GoodControl(ctl[h], log)
    /\ \A w \in Workers : GoodWorker(w, wrk[w], log)
    /\ GoodRebuild(rebuild, log)
(* The log M is the log L, or has been appended to.                         *)
Grows(L, M) ==
    /\ L \in Seq(Events) /\ M \in Seq(Events) /\ Len(L) <= Len(M)
    /\ \A q \in 1..Len(L) : M[q] = L[q]
    /\ EffortOf(0, L) <= EffortOf(0, M)

(* The events of a log and what each is worth.                             *)
LEMMA EffortsTyped ==
    ASSUME NEW s \in Seq(Events)
    PROVE  /\ Len(s) \in Nat /\ \A k \in 1..Len(s) : s[k] \in Events
           /\ \A k \in 1..Len(s) : Worth(s[k]) \in Nat
           /\ EffortOf(0, s) \in Nat
<1>1. Len(s) \in Nat /\ \A k \in 1..Len(s) : s[k] \in Events
  OBVIOUS
<1>2. \A e \in Events : Worth(e) \in Nat
  BY DEF Events, Worth
<1> QED BY <1>1, <1>2, FoldsTyped

(* The efforts of two logs, one behind the other, add up.                  *)
LEMMA JoinEffort ==
    ASSUME NEW s \in Seq(Events), NEW b \in Seq(Events)
    PROVE  /\ EffortOf(0, s \o b) = EffortOf(0, s) + EffortOf(0, b)
           /\ EffortOf(0, s) \in Nat /\ EffortOf(0, b) \in Nat
<1> DEFINE t == s \o b
<1>1. /\ Len(s) \in Nat /\ Len(b) \in Nat
      /\ \A k \in 1..Len(s) : Worth(s[k]) \in Nat
      /\ \A k \in 1..Len(b) : Worth(b[k]) \in Nat
  BY EffortsTyped
<1>2. /\ Len(t) = Len(s) + Len(b)
      /\ \A k \in 1..Len(s) : t[k] = s[k]
      /\ \A k \in 1..Len(b) : t[Len(s) + k] = b[k]
  BY JoinIs
<1> HIDE DEF t
<1>3. /\ EffortOf(0, t) = EffortOf(0, s) + EffortOf(0, b)
      /\ EffortOf(0, s) \in Nat /\ EffortOf(0, b) \in Nat
  BY <1>1, <1>2, EffortAdds
<1> QED BY <1>3 DEF t

(* A log with a batch behind it has grown.                                 *)
LEMMA GrowsJoin ==
    ASSUME NEW s \in Seq(Events), NEW b \in Seq(Events)
    PROVE  Grows(s, s \o b) /\ Grows(s, s)
<1>1. /\ s \o b \in Seq(Events) /\ Len(s \o b) = Len(s) + Len(b)
      /\ \A k \in 1..Len(s) : (s \o b)[k] = s[k]
      /\ EffortOf(0, s \o b) = EffortOf(0, s) + EffortOf(0, b)
      /\ EffortOf(0, s) \in Nat /\ EffortOf(0, b) \in Nat
      /\ Len(s) \in Nat /\ Len(b) \in Nat
  BY JoinIs, JoinEffort, EffortsTyped
<1> QED BY <1>1 DEF Grows

(* What a log says is said for good.                                        *)
LEMMA SaidForGood ==
    ASSUME NEW L, NEW M, Grows(L, M)
    PROVE  /\ \A i \in Items : /\ Done(L, i) => Done(M, i)
                               /\ Broken(L, i) => Broken(M, i)
           /\ \A type : Holds(L, type) => Holds(M, type)
           /\ \A status : Says(L, status) => Says(M, status)
           /\ \A b : Earned(b, L) => Earned(b, M)
<1>1. \A q \in 1..Len(L) : q \in 1..Len(M) /\ M[q] = L[q]
  BY EffortsTyped DEF Grows
<1>2. ASSUME NEW i \in Items PROVE /\ Done(L, i) => Done(M, i)
                                   /\ Broken(L, i) => Broken(M, i)
  BY <1>1 DEF Done, Broken
<1>3. \A type : Holds(L, type) => Holds(M, type)
  BY <1>1 DEF Holds
<1>4. \A status : Says(L, status) => Says(M, status)
  BY <1>1 DEF Says
<1>5. ASSUME NEW b, Earned(b, L) PROVE Earned(b, M)
  BY <1>2, <1>5 DEF Earned
<1> QED BY <1>2, <1>3, <1>4, <1>5

(* What a row may show of a log it may show of the longer log;             *)
LEMMA RowKeeps ==
    ASSUME NEW L, NEW M, Grows(L, M), NEW status, NEW effort \in Nat, GoodRow(status, effort, L)
    PROVE  GoodRow(status, effort, M)
<1>1. EffortOf(0, L) \in Nat /\ EffortOf(0, M) \in Nat /\ EffortOf(0, L) <= EffortOf(0, M)
  BY EffortsTyped DEF Grows
<1>2. effort <= EffortOf(0, L)
  BY DEF GoodRow
<1>3. effort <= EffortOf(0, M)
  BY <1>1, <1>2
<1>4. L # <<>> => M # <<>>
  <2>1. Len(L) \in Nat /\ Len(L) <= Len(M) /\ L \in Seq(Events)
    BY EffortsTyped DEF Grows
  <2> QED BY <2>1
<1> QED BY <1>3, <1>4, SaidForGood DEF GoodRow

(* so may the rows of items,                                               *)
LEMMA ItemsKeep ==
    ASSUME NEW L, NEW M, Grows(L, M), NEW items, GoodItems(items, L)
    PROVE  GoodItems(items, M)
  BY SaidForGood DEF GoodItems

(* what a handler holds,                                                   *)
LEMMA ControlKeeps ==
    ASSUME NEW L, NEW M, Grows(L, M), NEW c \in ControlStates, GoodControl(c, L)
    PROVE  GoodControl(c, M)
<1>1. /\ Len(L) \in Nat /\ Len(M) \in Nat /\ Len(L) <= Len(M) /\ c.base \in Nat
      /\ \A q \in 1..Len(L) : M[q] = L[q]
  BY EffortsTyped DEF Grows, ControlStates
<1>2. CASE c.pc = "append"
  <2>1. /\ c.base <= Len(L)
        /\ \A q \in 1..c.base, k \in 1..Len(c.events) : L[q].at < c.events[k].at
    BY <1>2 DEF GoodControl
  <2>2. /\ c.base <= Len(M)
        /\ \A q \in 1..c.base : q \in 1..Len(L) /\ M[q] = L[q]
    BY <1>1, <2>1
  <2>3. \A q \in 1..c.base, k \in 1..Len(c.events) : M[q].at < c.events[k].at
    BY <2>1, <2>2
  <2> QED BY <1>2, <2>2, <2>3 DEF GoodControl
<1>3. CASE c.pc # "append"
  BY <1>3, SaidForGood DEF GoodControl
<1> QED BY <1>2, <1>3

(* what a worker holds,                                                    *)
LEMMA WorkerKeeps ==
    ASSUME NEW L, NEW M, Grows(L, M), NEW w, NEW v \in WorkerStates, GoodWorker(w, v, L)
    PROVE  GoodWorker(w, v, M)
<1>1. /\ EffortOf(0, L) \in Nat /\ EffortOf(0, M) \in Nat /\ EffortOf(0, L) <= EffortOf(0, M)
      /\ v.effort \in Nat /\ EffortOf(0, v.events) \in Nat
  BY EffortsTyped DEF Grows, WorkerStates
<1>2. ASSUME v.pc \in {"work", "load", "append"}
      PROVE  /\ \A k \in 1..Len(v.events) : v.events[k].by = w
             /\ Priced(v.events)
             /\ v.effort <= EffortOf(0, M) + EffortOf(0, v.events)
             /\ v.status = "blocked" => Holds(v.events, "WorkItemFailed")
  <2>1. v.effort <= EffortOf(0, L) + EffortOf(0, v.events)
    BY <1>2 DEF GoodWorker
  <2>2. v.effort <= EffortOf(0, M) + EffortOf(0, v.events)
    BY <1>1, <2>1
  <2> QED BY <1>2, <2>2 DEF GoodWorker
<1>3. ASSUME v.pc = "work"
      PROVE  /\ ~ Holds(v.events, "RunCompleted") /\ v.status # "completed"
             /\ \A i \in Items : /\ v.items[i] # "absent"
                                 /\ v.items[i] = "completed" => Done(M, i) \/ Done(v.events, i)
             /\ Effort * Cardinality({i \in Items : v.items[i] = "completed"}) <= v.effort
  BY <1>3, SaidForGood DEF GoodWorker
<1>4. ASSUME v.pc \in {"load", "append"}
      PROVE  /\ Earned(v.events, M)
             /\ v.status = "completed" =>
                  Holds(v.events, "RunCompleted") /\ Effort * Cardinality(Items) <= v.effort
  BY <1>4, SaidForGood DEF GoodWorker
<1>5. ASSUME v.pc = "items"
      PROVE  /\ GoodRow(v.status, v.effort, M)
             /\ \A k \in 1..Len(v.todo) :
                  /\ v.todo[k].type = "WorkItemCompleted" => Done(M, v.todo[k].item)
                  /\ v.todo[k].type = "WorkItemFailed"    => Broken(M, v.todo[k].item)
  <2>1. GoodRow(v.status, v.effort, L)
    BY <1>5 DEF GoodWorker
  <2>2. GoodRow(v.status, v.effort, M)
    BY <1>1, <2>1, RowKeeps
  <2>3. ASSUME NEW k \in 1..Len(v.todo)
        PROVE  /\ v.todo[k].type = "WorkItemCompleted" => Done(M, v.todo[k].item)
               /\ v.todo[k].type = "WorkItemFailed"    => Broken(M, v.todo[k].item)
    <3>1. /\ v.todo[k].type = "WorkItemCompleted" => Done(L, v.todo[k].item)
          /\ v.todo[k].type = "WorkItemFailed"    => Broken(L, v.todo[k].item)
      BY <1>5 DEF GoodWorker
    <3>2. \A q \in 1..Len(L) : q \in 1..Len(M) /\ M[q] = L[q]
      BY EffortsTyped DEF Grows
    <3> QED BY <3>1, <3>2 DEF Done, Broken
  <2> QED BY <2>2, <2>3
<1> QED BY <1>2, <1>3, <1>4, <1>5 DEF GoodWorker

(* and what the rebuild holds.                                             *)
LEMMA RebuildKeeps ==
    ASSUME NEW L, NEW M, Grows(L, M), NEW r \in RebuildStates, GoodRebuild(r, L)
    PROVE  GoodRebuild(r, M)
<1>1. r.effort \in Nat
  BY DEF RebuildStates
<1> QED BY <1>1, RowKeeps, ItemsKeep DEF GoodRebuild

(* A batch is put behind the log.                                           *)
LEMMA LogJoin ==
    ASSUME NEW L \in Seq(Events), NEW b \in Seq(Events), L # <<>>,
           GoodLog(L), GoodBatch(b, L), Rising(b)
    PROVE  GoodLog(L \o b)
<1> DEFINE t == L \o b
           m == Len(L)
           n == Len(b)
<1>1. /\ m \in Nat /\ n \in Nat
      /\ \A k \in 1..m : L[k] \in Events /\ L[k].at \in Nat
      /\ \A k \in 1..n : b[k] \in Events /\ b[k].at \in Nat
  BY EffortsTyped DEF Events
<1>2. /\ Len(t) = m + n /\ t # <<>>
      /\ \A k \in 1..m : k \in 1..Len(t) /\ t[k] = L[k]
      /\ \A k \in 1..n : m + k \in 1..Len(t) /\ t[m + k] = b[k]
      /\ \A k \in 1..Len(t) : \/ k \in 1..m /\ t[k] = L[k]
                              \/ k - m \in 1..n /\ t[k] = b[k - m]
  BY JoinIs
<1> HIDE DEF t, m, n
<1>3. ASSUME NEW p \in 1..Len(t), NEW q \in 1..Len(t), q < p, t[p].by = "api"
      PROVE  t[q].at < t[p].at
  <2>1. CASE p \in 1..m /\ t[p] = L[p]
    <3>1. q \in 1..m
      BY <1>1, <1>2, <1>3, <2>1
    <3>2. t[q] = L[q]
      BY <1>2, <3>1
    <3> QED BY <1>3, <2>1, <3>1, <3>2 DEF GoodLog, m
  <2>2. CASE p - m \in 1..n /\ t[p] = b[p - m]
    <3>1. CASE q \in 1..m /\ t[q] = L[q]
      <4>1. Before(L, b[p - m].at)
        BY <1>3, <2>2 DEF GoodBatch, Later, n
      <4> QED BY <2>2, <3>1, <4>1 DEF Before, Ats, m
    <3>2. CASE q - m \in 1..n /\ t[q] = b[q - m]
      <4>1. q - m < p - m
        BY <1>1, <1>2, <1>3
      <4> QED BY <2>2, <3>2, <4>1 DEF Rising, n
    <3> QED BY <1>2, <3>1, <3>2
  <2> QED BY <1>2, <2>1, <2>2
<1>4. Earned(t, <<>>)
  <2>1. SUFFICES ASSUME NEW k \in 1..Len(t), t[k].type = "RunCompleted", NEW i \in Items
                 PROVE  \E j \in 1..(k - 1) : t[j].type = "WorkItemCompleted" /\ t[j].item = i
    BY DEF Earned
  <2>2. CASE k \in 1..m /\ t[k] = L[k]
    <3>1. ~ Done(<<>>, i)
      BY DEF Done
    <3>2. PICK j \in 1..(k - 1) : L[j].type = "WorkItemCompleted" /\ L[j].item = i
      BY <2>1, <2>2, <3>1 DEF GoodLog, Earned, m
    <3>3. t[j] = L[j]
      BY <1>1, <1>2, <2>2
    <3> QED BY <3>2, <3>3
  <2>3. CASE k - m \in 1..n /\ t[k] = b[k - m]
    <3>1. \/ Done(L, i)
          \/ \E j \in 1..(k - m - 1) : b[j].type = "WorkItemCompleted" /\ b[j].item = i
      BY <2>1, <2>3 DEF GoodBatch, Earned, n
    <3>2. CASE Done(L, i)
      <4>1. PICK j \in 1..m : L[j].type = "WorkItemCompleted" /\ L[j].item = i
        BY <3>2 DEF Done, m
      <4>2. j \in 1..(k - 1) /\ t[j] = L[j]
        BY <1>1, <1>2, <2>3
      <4> QED BY <4>1, <4>2
    <3>3. ASSUME NEW j \in 1..(k - m - 1), b[j].type = "WorkItemCompleted", b[j].item = i
          PROVE  \E l \in 1..(k - 1) : t[l].type = "WorkItemCompleted" /\ t[l].item = i
      <4>1. m + j \in 1..(k - 1) /\ j \in 1..n
        BY <1>1, <2>3
      <4>2. t[m + j] = b[j]
        BY <1>2, <4>1
      <4> QED BY <3>3, <4>1, <4>2
    <3> QED BY <3>1, <3>2, <3>3
  <2> QED BY <1>2, <2>2, <2>3
<1>5. Priced(t)
  <2>1. Priced(L) /\ Priced(b)
    BY DEF GoodLog, GoodBatch
  <2> QED BY <1>2, <2>1 DEF Priced, m, n
<1>6. \A i \in Items : \E p \in 1..Len(t) : t[p].type = "WorkItemAssigned" /\ t[p].item = i
  <2>1. \A i \in Items : \E p \in 1..m : L[p].type = "WorkItemAssigned" /\ L[p].item = i
    BY DEF GoodLog, m
  <2> QED BY <1>2, <2>1
<1>7. GoodLog(t)
  BY <1>3, <1>4, <1>5, <1>6 DEF GoodLog
<1> QED BY <1>7 DEF t

(* The batch that starts the run, and the batch that is none.               *)
LEMMA LogStarts ==
    ASSUME NEW b \in Seq(Events), Rising(b),
           ~ Holds(b, "RunCompleted"), ~ Holds(b, "WorkItemCompleted"),
           \A i \in Items : \E p \in 1..Len(b) :
                b[p].type = "WorkItemAssigned" /\ b[p].item = i
    PROVE  GoodLog(b)
  BY DEF GoodLog, Rising, Holds, Earned, Priced

(* No batch is a good batch for any log.                                   *)
LEMMA NoBatch == \A L : GoodBatch(<<>>, L)
  BY DEF GoodBatch, Earned, Priced, Later

(* Events with different stamps are different.                             *)
LEMMA OnceIsDistinct ==
    ASSUME NEW s, Once(s) \/ (s \in Seq(Events) /\ Rising(s))
    PROVE  \A j, k \in 1..Len(s) : s[j] = s[k] => j = k
<1>1. CASE Once(s)
  BY <1>1 DEF Once
<1>2. CASE s \in Seq(Events) /\ Rising(s)
  <2>1. ASSUME NEW j \in 1..Len(s), NEW k \in 1..Len(s), s[j] = s[k], j # k PROVE FALSE
    <3>1. j < k \/ k < j
      BY <2>1
    <3>2. s[j].at \in Nat /\ s[k].at \in Nat
      <4>1. s[j] \in Events /\ s[k] \in Events
        BY <1>2, EffortsTyped
      <4> QED BY <4>1 DEF Events
    <3>3. s[j].at < s[k].at \/ s[k].at < s[j].at
      BY <1>2, <3>1 DEF Rising
    <3> QED BY <2>1, <3>2, <3>3
  <2> QED BY <2>1
<1> QED BY <1>1, <1>2

(* Items that are completed in a log have been paid for in it.              *)
LEMMA DoneIsPaid ==
    ASSUME NEW L \in Seq(Events), Once(L), Priced(L),
           NEW S \in SUBSET Items, \A i \in S : Done(L, i)
    PROVE  Effort * Cardinality(S) <= EffortOf(0, L)
<1>1. IsFiniteSet(S) /\ Effort \in Nat
  BY ItemsAssumption, NumbersAssumption, FS_Subset
<1>2. /\ Len(L) \in Nat /\ \A k \in 1..Len(L) : Worth(L[k]) \in Nat
      /\ \A j, k \in 1..Len(L) : L[j] = L[k] => j = k
  BY EffortsTyped, OnceIsDistinct
<1>3. ASSUME NEW i \in S
      PROVE  \E k \in 1..Len(L) : L[k].item = i /\ Effort <= Worth(L[k])
  <2>1. PICK k \in 1..Len(L) : L[k].type = "WorkItemCompleted" /\ L[k].item = i
    BY DEF Done
  <2>2. Worth(L[k]) = Effort
    BY <2>1 DEF Priced, Worth, EffortTypes
  <2> QED BY <1>1, <2>1, <2>2
<1> QED BY <1>1, <1>2, <1>3, EffortAtLeast

(* A run that is ended has every item completed, and the effort of each.   *)
LEMMA EndedIsDone ==
    ASSUME NEW L \in Seq(Events), GoodLog(L), Holds(L, "RunCompleted")
    PROVE  /\ \A i \in Items : Done(L, i)
           /\ Once(L) => Effort * Cardinality(Items) <= EffortOf(0, L)
<1>1. ASSUME NEW i \in Items PROVE Done(L, i)
  <2>1. PICK k \in 1..Len(L) : L[k].type = "RunCompleted"
    BY DEF Holds
  <2>2. ~ Done(<<>>, i)
    BY DEF Done
  <2>3. PICK j \in 1..(k - 1) : L[j].type = "WorkItemCompleted" /\ L[j].item = i
    BY <2>1, <2>2 DEF GoodLog, Earned
  <2>4. j \in 1..Len(L)
    BY EffortsTyped
  <2> QED BY <2>3, <2>4 DEF Done
<1> QED BY <1>1, DoneIsPaid DEF GoodLog

(* EventsOnce, for the log as a sequence.                                  *)
LEMMA OnceIs == log \in Seq(Events) /\ EventsOnce => Once(log)
<1> SUFFICES ASSUME log \in Seq(Events), EventsOnce PROVE Once(log)
  OBVIOUS
<1>1. DOMAIN log = 1..Len(log)
  OBVIOUS
<1> QED BY <1>1 DEF EventsOnce, Once

(* load_all reads what the log says, and the same effort.                   *)
LEMMA ByTimeSays ==
    ASSUME log \in Seq(Events), EventsOnce
    PROVE  /\ EffortOf(0, ByTime) = EffortOf(0, log)
           /\ \A k \in 1..Len(ByTime) : \E p \in 1..Len(log) : ByTime[k] = log[p]
           /\ \A p \in 1..Len(log) : \E k \in 1..Len(ByTime) : ByTime[k] = log[p]
           /\ ByTime \in Seq(Events) /\ Len(ByTime) \in Nat
<1> DEFINE t == ByTime
<1>1. /\ t \in Seq(Events) /\ Len(t) = Len(log) /\ Len(log) \in Nat
      /\ \A k \in 1..Len(log) : \E p \in 1..Len(log) : t[k] = log[p]
      /\ \A p \in 1..Len(log) : \E k \in 1..Len(log) : t[k] = log[p]
      /\ \A j, k \in 1..Len(log) : j < k => t[j].at < t[k].at
  BY ByTimeIs
<1> HIDE DEF t
<1>2. Rising(t) /\ Once(log)
  BY <1>1, OnceIs DEF Rising
<1>3. /\ \A j, k \in 1..Len(t) : t[j] = t[k] => j = k
      /\ \A j, k \in 1..Len(log) : log[j] = log[k] => j = k
      /\ \A k \in 1..Len(log) : Worth(log[k]) \in Nat
  BY <1>1, <1>2, OnceIsDistinct, EffortsTyped
<1>4. EffortOf(0, t) = EffortOf(0, log)
  BY <1>1, <1>3, EffortInAnyOrder
<1> QED BY <1>1, <1>4 DEF t

(* What the folds make of the items: every item of a run that was started   *)
(* is assigned, and one that is completed or failed is so in the log.       *)
LEMMA ItemsRead ==
    ASSUME log \in Seq(Events), EventsOnce, NEW types \in SUBSET DOMAIN ItemStatus,
           "WorkItemAssigned" \in types, GoodLog(log)
    PROVE  /\ GoodItems(ItemsOf(types, ByTime), log)
           /\ log # <<>> => \A i \in Items : ItemsOf(types, ByTime)[i] # "absent"
<1> DEFINE items == ItemsOf(types, ByTime)
<1>1. Len(ByTime) \in Nat /\ \A k \in 1..Len(ByTime) : ByTime[k] \in Events
  BY ByTimeSays, EffortsTyped
<1>2. ASSUME NEW i \in Items
      PROVE  /\ items[i] = "completed" => Done(log, i)
             /\ items[i] = "failed"    => Broken(log, i)
             /\ log # <<>> => items[i] # "absent"
  <2>1. CASE /\ items[i] = "absent"
             /\ \A k \in 1..Len(ByTime) : ~ Touches(types, ByTime[k], i)
    <3>1. ASSUME log # <<>> PROVE FALSE
      <4>1. PICK p \in 1..Len(log) : log[p].type = "WorkItemAssigned" /\ log[p].item = i
        BY <3>1 DEF GoodLog
      <4>2. PICK k \in 1..Len(ByTime) : ByTime[k] = log[p]
        BY ByTimeSays
      <4> QED BY <2>1, <4>1, <4>2 DEF Touches
    <3> QED BY <2>1, <3>1
  <2>2. ASSUME NEW k \in 1..Len(ByTime), Touches(types, ByTime[k], i),
               items[i] = ItemStatus[ByTime[k].type]
        PROVE  /\ items[i] = "completed" => Done(log, i)
               /\ items[i] = "failed"    => Broken(log, i)
               /\ log # <<>> => items[i] # "absent"
    <3>1. PICK p \in 1..Len(log) : ByTime[k] = log[p]
      BY ByTimeSays
    <3>2. log[p].type \in DOMAIN ItemStatus /\ log[p].item = i
          /\ items[i] = ItemStatus[log[p].type]
      BY <2>2, <3>1 DEF Touches
    <3> HIDE DEF items
    <3>3. items[i] # "absent"
      BY <3>2, ItemStatusIs
    <3>4. items[i] = "completed" => log[p].type = "WorkItemCompleted"
      BY <3>2, ItemStatusIs
    <3>5. items[i] = "failed" => log[p].type = "WorkItemFailed"
      BY <3>2, ItemStatusIs
    <3> QED BY <3>2, <3>3, <3>4, <3>5 DEF Done, Broken
  <2> HIDE DEF items
  <2>3. \/ /\ items[i] = "absent"
           /\ \A k \in 1..Len(ByTime) : ~ Touches(types, ByTime[k], i)
        \/ \E k \in 1..Len(ByTime) :
             Touches(types, ByTime[k], i) /\ items[i] = ItemStatus[ByTime[k].type]
    BY <1>1, ItemIsLast DEF items
  <2> QED BY <2>1, <2>2, <2>3
<1> HIDE DEF items
<1> QED BY <1>2 DEF GoodItems, items

(* A rebuild reads a row that the log bears out.                            *)
LEMMA RebuildReads ==
    ASSUME log \in Seq(Events), EventsOnce, GoodLog(log)
    PROVE  /\ GoodRow(RebuildFold(ByTime).status, RebuildFold(ByTime).effort, log)
           /\ GoodItems(RebuildFold(ByTime).items, log)
<1> DEFINE status == StatusOf(RebuildStatus, "absent", ByTime)
<1>1. /\ RebuildFold(ByTime).status = status
      /\ RebuildFold(ByTime).effort = EffortOf(0, ByTime)
      /\ RebuildFold(ByTime).items = ItemsOf(DOMAIN ItemStatus, ByTime)
  BY DEF RebuildFold
<1>2. GoodItems(ItemsOf(DOMAIN ItemStatus, ByTime), log)
  BY ItemsRead, ItemStatusIs
<1>3. Len(ByTime) \in Nat /\ \A k \in 1..Len(ByTime) : ByTime[k] \in Events
  BY ByTimeSays, EffortsTyped
<1>4. /\ status # "absent" => log # <<>>
      /\ status = "completed" => Holds(log, "RunCompleted")
      /\ status = "blocked" => Holds(log, "WorkItemFailed")
      /\ status \in {"paused", "cancelled"} => Says(log, status)
  <2>1. CASE status = "absent"
    BY <2>1
  <2>2. ASSUME NEW k \in 1..Len(ByTime), Sets(RebuildStatus, ByTime[k]),
               status = Given(RebuildStatus, ByTime[k])
        PROVE  /\ status # "absent" => log # <<>>
               /\ status = "completed" => Holds(log, "RunCompleted")
               /\ status = "blocked" => Holds(log, "WorkItemFailed")
               /\ status \in {"paused", "cancelled"} => Says(log, status)
    <3> HIDE DEF status
    <3>1. PICK p \in 1..Len(log) : ByTime[k] = log[p]
      BY ByTimeSays
    <3>2. log[p] \in Events /\ log # <<>>
      BY <1>3, <3>1
    <3>3. CASE log[p].type = "RunStatusChanged"
      <4>1. status = log[p].status /\ log[p].status \in {"running", "paused", "cancelled"}
        <5>1. log[p].status \in {"running", "paused", "cancelled"}
          BY <3>2, <3>3 DEF Events
        <5> QED BY <2>2, <3>1, <3>3, <5>1 DEF Given
      <4>2. Says(log, status)
        BY <3>3, <4>1 DEF Says
      <4> QED BY <3>2, <4>1, <4>2
    <3>4. CASE log[p].type # "RunStatusChanged"
      <4>1. log[p].type \in DOMAIN RebuildStatus /\ status = RebuildStatus[log[p].type]
        BY <2>2, <3>1, <3>4 DEF Sets, Given
      <4>2. log[p].type \in EventTypes
        BY <3>2 DEF Events
      <4>3. /\ status = "completed" => log[p].type = "RunCompleted"
            /\ status = "blocked" => log[p].type = "WorkItemFailed"
            /\ status \notin {"paused", "cancelled"}
        BY <4>1, <4>2 DEF RebuildStatus, EventTypes
      <4> QED BY <3>2, <4>3 DEF Holds
    <3> QED BY <3>3, <3>4
  <2>3. \/ status = "absent"
        \/ \E k \in 1..Len(ByTime) : /\ Sets(RebuildStatus, ByTime[k])
                                     /\ status = Given(RebuildStatus, ByTime[k])
    BY <1>3, StatusIsLast
  <2> HIDE DEF status
  <2> QED BY <2>1, <2>2, <2>3
<1> HIDE DEF status
<1>5. EffortOf(0, ByTime) = EffortOf(0, log) /\ EffortOf(0, log) \in Nat /\ Once(log)
  BY ByTimeSays, EffortsTyped, OnceIs
<1>6. GoodRow(status, EffortOf(0, ByTime), log)
  BY <1>4, <1>5, EndedIsDone DEF GoodRow
<1> QED BY <1>1, <1>2, <1>6

(* What a worker knows of a run it has loaded.                              *)
LEMMA WorkerReads ==
    ASSUME log \in Seq(Events), EventsOnce, GoodLog(log), WorkerFold(ByTime).known
    PROVE  LET seen == WorkerFold(ByTime) IN
           /\ seen.effort = EffortOf(0, log)
           /\ \A i \in Items : /\ seen.items[i] # "absent"
                               /\ seen.items[i] = "completed" => Done(log, i)
           /\ Effort * Cardinality({i \in Items : seen.items[i] = "completed"}) <= seen.effort
<1> DEFINE items == ItemsOf(DOMAIN ItemStatus \ {"BlockerEncountered"}, ByTime)
           done  == {i \in Items : items[i] = "completed"}
<1>1. /\ WorkerFold(ByTime).items = items
      /\ WorkerFold(ByTime).effort = EffortOf(0, ByTime)
  BY DEF WorkerFold
<1>2. log # <<>>
  <2>1. \E k \in DOMAIN ByTime : TRUE
    BY DEF WorkerFold
  <2>2. \E p \in 1..Len(log) : TRUE
    BY <2>1, ByTimeSays
  <2> QED BY <2>2
<1>3. GoodItems(items, log) /\ \A i \in Items : items[i] # "absent"
  <2>1. /\ DOMAIN ItemStatus \ {"BlockerEncountered"} \in SUBSET DOMAIN ItemStatus
        /\ "WorkItemAssigned" \in DOMAIN ItemStatus \ {"BlockerEncountered"}
    BY ItemStatusIs
  <2> QED BY <1>2, <2>1, ItemsRead
<1>4. EffortOf(0, ByTime) = EffortOf(0, log) /\ Once(log) /\ Priced(log)
  BY ByTimeSays, OnceIs DEF GoodLog
<1> HIDE DEF items
<1>5. done \in SUBSET Items /\ \A i \in done : Done(log, i)
  BY <1>3 DEF GoodItems
<1> HIDE DEF done
<1>6. Effort * Cardinality(done) <= EffortOf(0, log)
  BY <1>4, <1>5, DoneIsPaid
<1> QED BY <1>1, <1>3, <1>4, <1>6 DEF done, GoodItems

-----------------------------------------------------------------------------
(* Steps.                                                                   *)

(* What a handler and a worker append is a good batch: the log is the one   *)
(* the handler has read, and a worker is not the API.                       *)
LEMMA ControlBatch ==
    ASSUME NEW L, NEW c, GoodControl(c, L), c.pc = "append", c.base = Len(L)
    PROVE  GoodBatch(c.events, L)
<1>1. \A q \in 1..Len(L), k \in 1..Len(c.events) : L[q].at < c.events[k].at
  BY DEF GoodControl
<1>2. Later(c.events, L)
  BY <1>1 DEF Later, Before, Ats
<1>3. Earned(c.events, L) /\ Priced(c.events)
  BY DEF GoodControl, Holds, Earned, Priced
<1> QED BY <1>2, <1>3 DEF GoodBatch

(* What a worker is about to append may stand behind the log.              *)
LEMMA WorkerBatch ==
    ASSUME NEW L, NEW w \in Workers, NEW v, GoodWorker(w, v, L), v.pc \in {"load", "append"}
    PROVE  GoodBatch(v.events, L)
<1>1. Earned(v.events, L) /\ Priced(v.events) /\ \A k \in 1..Len(v.events) : v.events[k].by = w
  BY DEF GoodWorker
<1>2. Later(v.events, L)
  BY <1>1, WorkersAssumption DEF Later
<1> QED BY <1>1, <1>2 DEF GoodBatch

(* The batch that starts the run.                                           *)
LEMMA FirstBatchIs ==
    ASSUME TypeInv, StampInv, StartRun
    PROVE  /\ log = <<>> /\ inflight' = <<>> /\ log' \in Seq(Events) /\ log' # <<>>
           /\ GoodLog(log')
<1> DEFINE first == RunEvent("RunStarted", "api", clock)
           rest  == AssignAll(Items, "api", clock + 1)
           n     == Cardinality(Items)
           b     == <<first>> \o rest
<1>1. /\ clock \in Nat /\ clock + 1 \in Nat /\ "api" \in Workers \cup {"api"}
      /\ Items \in SUBSET Items
  BY DEF TypeInv
<1>2. first \in Events /\ first.at = clock /\ first.type = "RunStarted"
  BY <1>1, RunEventsMade DEF RunEvent, Event
<1>3. Assigns(rest, Items, "api", clock + 1)
  BY <1>1, AssignAllIs
<1>4. log' = b /\ log = <<>> /\ inflight' = <<>>
  BY DEF StartRun, StampInv, NotStarted
<1> HIDE DEF first, rest
<1>0. Leads(b, first, rest, clock, clock + 1 + n)
  BY <1>1, <1>2, <1>3, LedIs
<1> HIDE DEF b, n
<1>5. /\ b \in Seq(Events) /\ Len(b) = 1 + Len(rest)
      /\ b[1] = first /\ \A k \in 2..Len(b) : k - 1 \in 1..Len(rest) /\ b[k] = rest[k - 1]
      /\ \A k \in 1..Len(rest) : k + 1 \in 2..Len(b) /\ b[k + 1] = rest[k]
      /\ Fresh(b, clock, clock + 1 + n)
  BY <1>0 DEF Leads
<1>6. /\ Len(rest) \in Nat
      /\ \A k \in 1..Len(rest) : rest[k].type = "WorkItemAssigned"
      /\ \A i \in Items : \E k \in 1..Len(rest) : rest[k].item = i
  BY <1>3, EffortsTyped DEF Assigns
<1>7. \A k \in 1..Len(b) : b[k].type \in {"RunStarted", "WorkItemAssigned"}
  <2>1. ASSUME NEW k \in 1..Len(b) PROVE b[k].type \in {"RunStarted", "WorkItemAssigned"}
    <3>1. CASE k = 1
      BY <1>2, <1>5, <3>1
    <3>2. CASE k \in 2..Len(b)
      BY <1>5, <1>6, <3>2
    <3>3. k = 1 \/ k \in 2..Len(b)
      BY <1>5, <1>6
    <3> QED BY <3>1, <3>2, <3>3
  <2> QED BY <2>1
<1>8. ~ Holds(b, "RunCompleted") /\ ~ Holds(b, "WorkItemCompleted")
  BY <1>7 DEF Holds
<1>9. ASSUME NEW i \in Items
      PROVE  \E p \in 1..Len(b) : b[p].type = "WorkItemAssigned" /\ b[p].item = i
  <2>1. PICK k \in 1..Len(rest) : rest[k].item = i
    BY <1>6
  <2>2. k + 1 \in 1..Len(b) /\ b[k + 1] = rest[k]
    BY <1>5, <1>6
  <2> QED BY <1>6, <2>1, <2>2
<1>10. Rising(b)
  BY <1>5 DEF Fresh
<1>11. GoodLog(b)
  BY <1>5, <1>8, <1>9, <1>10, LogStarts
<1>12. b # <<>>
  BY <1>5, <1>6
<1> QED BY <1>4, <1>5, <1>11, <1>12

(* The log and the batch in flight.                                         *)
LEMMA LogMoves ==
    ASSUME TypeInv, StampInv, HistoryInv, [Next]_vars
    PROVE  \/ UNCHANGED <<log, inflight>>
           \/ UNCHANGED log /\ inflight' = <<>>
           \/ StartRun
           \/ \E b \in Seq(Events) :
                /\ GoodBatch(b, log) /\ Rising(b)
                /\ \/ log' = log \o b /\ inflight' = <<>>
                   \/ log' = log /\ inflight' = b
<1> DEFINE Moves == \/ UNCHANGED <<log, inflight>>
                    \/ UNCHANGED log /\ inflight' = <<>>
                    \/ StartRun
                    \/ \E b \in Seq(Events) :
                        /\ GoodBatch(b, log) /\ Rising(b)
                        /\ \/ log' = log \o b /\ inflight' = <<>>
                           \/ log' = log /\ inflight' = b
<1>1. ASSUME UNCHANGED vars \/ UpsertCreated \/ CreateRunDies
                \/ RebuildLoad \/ RebuildStep \/ RebuildFails
      PROVE  UNCHANGED <<log, inflight>>
  BY <1>1 DEF vars, UpsertCreated, CreateRunDies, RebuildLoad, RebuildStep, RebuildFails,
              ClearItems, ClearRuns, RebuildRun, RebuildItem, RebuildEnds
<1>2. ASSUME EndInflight PROVE Moves
  <2>1. inflight \in Seq(Events) /\ Rising(inflight) /\ GoodBatch(inflight, log)
    BY DEF TypeInv, StampInv, Stamped, HistoryInv
  <2>2. inflight' = <<>> /\ (log' = log \o inflight \/ log' = log)
    BY <1>2 DEF EndInflight
  <2> QED BY <2>1, <2>2
<1>3. ASSUME NEW h \in Handlers,
             (\E kind \in Requests : Decide(h, kind)) \/ ControlStep(h) \/ ControlFails(h)
      PROVE  Moves
  <2>1. CASE (\E kind \in Requests : Decide(h, kind)) \/ NextRevision(h) \/ SyncStatus(h)
             \/ ControlFails(h)
    <3>1. UNCHANGED <<log, inflight>>
      BY <2>1 DEF Decide, NextRevision, SyncStatus, ControlFails
    <3> QED BY <3>1
  <2>2. CASE AppendControl(h)
    <3> DEFINE b == ctl[h].events
    <3>1. b \in Seq(Events) /\ Rising(b)
      BY WaitingBatch
    <3>2. inflight = <<>> /\ ctl[h].pc = "append"
      BY <2>2 DEF AppendControl, LockFree
    <3>3. \/ UNCHANGED <<log, inflight>>
          \/ /\ ctl[h].base = Len(log)
             /\ \/ log' = log \o b /\ inflight' = inflight
                \/ log' = log /\ inflight' = b
      BY <2>2 DEF AppendControl, Fits
    <3>4. ctl[h].base = Len(log) => GoodBatch(b, log)
      BY <3>2, ControlBatch DEF HistoryInv
    <3> HIDE DEF b
    <3> QED BY <3>1, <3>2, <3>3, <3>4
  <2> QED BY <1>3, <2>1, <2>2 DEF ControlStep
<1>4. ASSUME NEW w \in Workers, WorkerStep(w) \/ AppendFails(w) \/ WorkerDies(w)
      PROVE  Moves
  <2> DEFINE b == wrk[w].events
  <2>1. b \in Seq(Events) /\ Rising(b)
    BY WaitingBatch
  <2>2. wrk[w].pc = "append" => GoodBatch(b, log)
    BY WorkerBatch DEF HistoryInv
  <2>3. CASE LoadRun(w) \/ (\E i \in Items, o \in Outcomes : ExecuteItem(w, i, o))
             \/ FinishTurn(w) \/ RebaseBatch(w) \/ UpsertItem(w) \/ UpsertRun(w) \/ AppendFails(w)
    <3>1. UNCHANGED <<log, inflight>>
      BY <2>3 DEF LoadRun, ExecuteItem, FinishTurn, RebaseBatch, UpsertItem, UpsertRun, AppendFails
    <3> QED BY <3>1
  <2>4. CASE AppendBatch(w)
    <3>1. /\ inflight = <<>> /\ wrk[w].pc = "append"
          /\ \/ UNCHANGED <<log, inflight>>
             \/ log' = log \o b /\ inflight' = inflight
             \/ log' = log /\ inflight' = b
      BY <2>4 DEF AppendBatch, LockFree
    <3> HIDE DEF b
    <3> QED BY <2>1, <2>2, <3>1
  <2>5. CASE WorkerDies(w)
    <3>1. /\ UNCHANGED log
          /\ UNCHANGED inflight \/ (wrk[w].pc = "append" /\ inflight' = b)
      BY <2>5 DEF WorkerDies
    <3> HIDE DEF b
    <3> QED BY <2>1, <2>2, <3>1
  <2> QED BY <1>4, <2>3, <2>4, <2>5 DEF WorkerStep
<1> HIDE DEF Moves
<1>5. Moves
  <2>1. StartRun => Moves
    BY DEF Moves
  <2>2. UNCHANGED <<log, inflight>> => Moves
    BY DEF Moves
  <2> QED BY <1>1, <1>2, <1>3, <1>4, <2>1, <2>2 DEF Next
<1> QED BY <1>5 DEF Moves

(* Every step keeps the log good and only appends to it.                   *)
LEMMA LogStep ==
    ASSUME TypeInv, StampInv, HistoryInv, [Next]_vars
    PROVE  /\ Grows(log, log') /\ GoodLog(log') /\ GoodBatch(inflight', log')
           /\ creation' # "new" => log' # <<>>
<1>1. /\ log \in Seq(Events) /\ GoodLog(log) /\ GoodBatch(inflight, log)
      /\ creation # "new" => log # <<>>
  BY DEF TypeInv, HistoryInv
<1>2. Grows(log, log) /\ GoodBatch(<<>>, log')
  BY <1>1, GrowsJoin, NoBatch
<1>3. ASSUME UNCHANGED <<log, inflight>> \/ (UNCHANGED log /\ inflight' = <<>>)
      PROVE  Grows(log, log') /\ GoodLog(log') /\ GoodBatch(inflight', log')
  BY <1>1, <1>2, <1>3
<1>4. ASSUME StartRun
      PROVE  Grows(log, log') /\ GoodLog(log') /\ GoodBatch(inflight', log')
  <2>1. /\ log = <<>> /\ inflight' = <<>> /\ log' \in Seq(Events) /\ GoodLog(log')
    BY <1>4, FirstBatchIs
  <2>2. Grows(log, log \o log')
    BY <1>1, <2>1, GrowsJoin
  <2>3. log \o log' = log'
    BY <2>1
  <2> QED BY <1>2, <2>1, <2>2, <2>3
<1>5. ASSUME NEW b \in Seq(Events), GoodBatch(b, log), Rising(b), log # <<>>,
             \/ log' = log \o b /\ inflight' = <<>>
             \/ log' = log /\ inflight' = b
      PROVE  Grows(log, log') /\ GoodLog(log') /\ GoodBatch(inflight', log')
  <2>1. CASE log' = log \o b /\ inflight' = <<>>
    <3>1. GoodLog(log \o b) /\ Grows(log, log \o b)
      BY <1>1, <1>5, LogJoin, GrowsJoin
    <3> QED BY <1>2, <2>1, <3>1
  <2>2. CASE log' = log /\ inflight' = b
    BY <1>1, <1>2, <1>5, <2>2
  <2> QED BY <1>5, <2>1, <2>2
<1>6. log = <<>> => \/ UNCHANGED <<log, inflight>>
                    \/ UNCHANGED log /\ inflight' = <<>>
                    \/ StartRun
  <2>1. ASSUME log = <<>>
        PROVE  /\ creation = "new" /\ inflight = <<>>
               /\ \A h \in Handlers : ctl[h].pc = "idle"
               /\ \A w \in Workers : wrk[w].pc = "idle"
    BY <1>1, <2>1 DEF StampInv, NotStarted
  <2>2. ASSUME log = <<>> PROVE UNCHANGED <<log, inflight>> \/ StartRun
    <3>1. CASE StartRun
      BY <3>1
    <3>2. CASE UNCHANGED vars \/ UpsertCreated \/ CreateRunDies
                \/ RebuildLoad \/ RebuildStep \/ RebuildFails
      BY <3>2 DEF vars, UpsertCreated, CreateRunDies, RebuildLoad, RebuildStep, RebuildFails,
                  ClearItems, ClearRuns, RebuildRun, RebuildItem, RebuildEnds
    <3>3. CASE EndInflight
      BY <2>1, <2>2, <3>3 DEF EndInflight
    <3>4. ASSUME NEW h \in Handlers,
                 (\E kind \in Requests : Decide(h, kind)) \/ ControlStep(h) \/ ControlFails(h)
          PROVE  FALSE
      BY <2>1, <2>2, <3>4 DEF Decide, ControlStep, NextRevision, AppendControl, SyncStatus,
                              ControlFails
    <3>5. ASSUME NEW w \in Workers, WorkerStep(w) \/ AppendFails(w) \/ WorkerDies(w)
          PROVE  UNCHANGED <<log, inflight>>
      BY <2>1, <2>2, <3>5 DEF WorkerStep, LoadRun, ExecuteItem, FinishTurn, RebaseBatch,
                              AppendBatch, UpsertItem, UpsertRun, AppendFails, WorkerDies
    <3> QED BY <3>1, <3>2, <3>3, <3>4, <3>5 DEF Next
  <2> QED BY <2>2
<1>7. Grows(log, log') /\ GoodLog(log') /\ GoodBatch(inflight', log')
  <2>1. CASE log = <<>>
    BY <1>3, <1>4, <1>6, <2>1
  <2>2. CASE log # <<>>
    BY <1>3, <1>4, <1>5, <2>2, LogMoves
  <2> QED BY <2>1, <2>2
<1>8. creation' # "new" => log' # <<>>
  <2>1. CASE log # <<>>
    <3>1. Len(log) >= 1 /\ Len(log) <= Len(log') /\ Len(log') \in Nat /\ log' \in Seq(Events)
      BY <1>1, <1>7, <2>1, EffortsTyped DEF Grows
    <3> QED BY <3>1
  <2>2. CASE StartRun
    BY <2>2, FirstBatchIs
  <2>3. CASE log = <<>> /\ ~ StartRun
    <3>1. creation = "new"
      BY <1>1, <2>3
    <3>2. UNCHANGED creation
      BY <2>3, <3>1 DEF Next, vars, UpsertCreated, CreateRunDies, EndInflight,
            Decide, ControlStep, NextRevision, AppendControl, SyncStatus, ControlFails,
            WorkerStep, LoadRun, ExecuteItem, FinishTurn, RebaseBatch, AppendBatch,
            UpsertItem, UpsertRun, AppendFails, WorkerDies,
            RebuildLoad, RebuildStep, RebuildFails,
            ClearItems, ClearRuns, RebuildRun, RebuildItem, RebuildEnds
    <3> QED BY <3>1, <3>2
  <2> QED BY <2>1, <2>2, <2>3
<1> QED BY <1>7, <1>8

(* A process that does nothing knows nothing.                               *)
LEMMA IdleIsGood ==
    ASSUME NEW L
    PROVE  /\ GoodControl(IdleControl, L) /\ GoodRebuild(IdleRebuild, L)
           /\ \A w : GoodWorker(w, IdleWorker, L)
  BY IdleIsTyped DEF GoodControl, GoodRebuild, GoodWorker

(* The events of a request, when it has read the latest revision.           *)
LEMMA RevisionIsGood ==
    ASSUME TypeInv, StampInv, NEW h \in Handlers, NextRevision(h), NEW M, Grows(log, M)
    PROVE  \E r : SetCtl(h, r) /\ GoodControl(r, M)
<1> DEFINE kind  == ctl[h].kind
           first == StatusChanged(Target[kind], "api", clock)
           items == ctl[h].reassign
           n     == Cardinality(items)
           rest  == AssignAll(items, "api", clock + 1)
           b     == <<first>> \o rest
           r     == [ctl[h] EXCEPT !.pc = "append", !.base = Len(log), !.events = b]
<1>1. /\ ctl[h].pc = "revision" /\ ctl[h] \in LiveControls
      /\ ctl[h] \in ControlStates /\ clock \in Nat /\ clock + 1 \in Nat
      /\ "api" \in Workers \cup {"api"}
  <2>1. ctl[h].pc = "revision" /\ ctl[h] \in LiveControls /\ clock \in Nat
    BY DEF NextRevision, TypeInv
  <2> QED BY <2>1 DEF LiveControls
<1>2. kind \in Requests /\ items \in SUBSET Items
  BY <1>1 DEF LiveControls, ControlStates
<1>3. SetCtl(h, r)
  BY DEF NextRevision
<1>4. r.events = b /\ r.base = Len(log) /\ r.kind = kind /\ r.pc = "append"
  BY <1>1 DEF ControlStates
<1> HIDE DEF r
<1>5. /\ first \in Events /\ first.at = clock /\ first.type = "RunStatusChanged"
      /\ first.status = Target[kind]
  BY <1>1, <1>2, TargetIs, RunEventsMade DEF StatusChanged, Event
<1>6. Assigns(rest, items, "api", clock + 1)
  BY <1>1, <1>2, AssignAllIs
<1> HIDE DEF first, rest, items, kind
<1>7. Leads(b, first, rest, clock, clock + 1 + n)
  BY <1>1, <1>5, <1>6, LedIs
<1> HIDE DEF b, n
<1>8. /\ b \in Seq(Events) /\ Len(b) = 1 + Len(rest)
      /\ b[1] = first /\ \A k \in 2..Len(b) : k - 1 \in 1..Len(rest) /\ b[k] = rest[k - 1]
      /\ \A x \in Ats(b) : clock <= x
  BY <1>7 DEF Leads, Fresh
<1>9. /\ Len(rest) \in Nat
      /\ \A k \in 1..Len(rest) : rest[k].type = "WorkItemAssigned"
  BY <1>6, EffortsTyped DEF Assigns
<1>10. Says(b, Target[kind])
  <2>1. 1 \in 1..Len(b)
    BY <1>8, <1>9
  <2> QED BY <1>5, <1>8, <2>1 DEF Says
<1>11. ASSUME NEW k \in 1..Len(b)
       PROVE  b[k].type \notin {"RunCompleted", "WorkItemCompleted"}
  <2>1. CASE k = 1
    BY <1>5, <1>8, <2>1
  <2>2. CASE k \in 2..Len(b)
    <3>1. k - 1 \in 1..Len(rest) /\ b[k] = rest[k - 1]
      BY <1>8, <2>2
    <3> QED BY <1>9, <3>1
  <2>3. k = 1 \/ k \in 2..Len(b)
    BY <1>8, <1>9
  <2> QED BY <2>1, <2>2, <2>3
<1>12. ASSUME NEW q \in 1..Len(log), NEW k \in 1..Len(b) PROVE log[q].at < b[k].at
  <2>1. log[q].at < clock /\ clock <= b[k].at
    BY <1>8 DEF StampInv, Stamped, Before, Ats
  <2>2. log[q].at \in Nat /\ b[k].at \in Nat
    <3>1. log \in Seq(Events)
      BY DEF TypeInv
    <3>2. log[q] \in Events /\ b[k] \in Events
      BY <1>8, <3>1, EffortsTyped
    <3> QED BY <3>2 DEF Events
  <2> QED BY <1>1, <2>1, <2>2
<1>13. GoodControl(r, M)
  <2>1. Len(log) <= Len(M) /\ \A q \in 1..Len(log) : M[q] = log[q]
    BY DEF Grows
  <2> QED BY <1>4, <1>10, <1>11, <1>12, <2>1 DEF GoodControl, Holds
<1> QED BY <1>3, <1>13

(* Every step of a handler keeps what the handlers hold.                   *)
LEMMA HistControl ==
    ASSUME TypeInv, StampInv, HistoryInv, Grows(log, log'), NEW h \in Handlers,
           (\E kind \in Requests : Decide(h, kind)) \/ ControlStep(h) \/ ControlFails(h)
    PROVE  \A g \in Handlers : GoodControl(ctl'[g], log')
<1>1. \A g \in Handlers : ctl[g] \in ControlStates /\ GoodControl(ctl[g], log)
  BY DEF TypeInv, LiveControls, HistoryInv
<1>2. \A g \in Handlers : GoodControl(ctl[g], log')
  BY <1>1, ControlKeeps
<1>3. GoodControl(IdleControl, log')
  BY IdleIsGood
<1>4. UNCHANGED ctl \/ \E r : SetCtl(h, r) /\ GoodControl(r, log')
  <2>1. ASSUME NEW kind \in Requests, Decide(h, kind)
        PROVE  UNCHANGED ctl \/ \E r : SetCtl(h, r) /\ GoodControl(r, log')
    <3> DEFINE open == {i \in Items : OrchestratorFold(log).items[i] \notin {"absent", "completed"}}
               r == [IdleControl EXCEPT !.pc = "revision", !.kind = kind,
                        !.reassign = IF kind = "retry" THEN open ELSE {}]
    <3>1. UNCHANGED ctl \/ SetCtl(h, r)
      BY <2>1 DEF Decide
    <3>2. r.pc = "revision"
      BY DEF IdleControl
    <3> HIDE DEF r
    <3>3. GoodControl(r, log')
      BY <3>2 DEF GoodControl
    <3> QED BY <3>1, <3>3
  <2>2. ASSUME NextRevision(h) PROVE \E r : SetCtl(h, r) /\ GoodControl(r, log')
    BY <2>2, RevisionIsGood
  <2>3. ASSUME AppendControl(h) PROVE \E r : SetCtl(h, r) /\ GoodControl(r, log')
    <3> DEFINE b == ctl[h].events
               r == [ctl[h] EXCEPT !.pc = "sync", !.events = <<>>, !.base = 0]
    <3>1. /\ ctl[h].pc = "append"
          /\ SetCtl(h, IdleControl) \/ (SetCtl(h, r) /\ log' = log \o b)
      BY <2>3 DEF AppendControl
    <3>2. r.pc = "sync" /\ r.kind = ctl[h].kind
      BY <1>1 DEF ControlStates
    <3> HIDE DEF r
    <3>3. b \in Seq(Events) /\ log \in Seq(Events) /\ Says(b, Target[ctl[h].kind])
      BY <1>1, <3>1 DEF GoodControl, ControlStates, TypeInv
    <3> HIDE DEF b
    <3>4. ASSUME log' = log \o b PROVE Says(log', Target[ctl[h].kind])
      <4>1. \A k \in 1..Len(b) :
              Len(log) + k \in 1..Len(log \o b) /\ (log \o b)[Len(log) + k] = b[k]
        BY <3>3, JoinIs
      <4> QED BY <3>3, <3>4, <4>1 DEF Says
    <3>5. log' = log \o b => GoodControl(r, log')
      BY <3>2, <3>4 DEF GoodControl
    <3> QED BY <1>3, <3>1, <3>5
  <2>4. ASSUME SyncStatus(h) \/ ControlFails(h) PROVE SetCtl(h, IdleControl)
    BY <2>4 DEF SyncStatus, ControlFails
  <2> QED BY <1>3, <2>1, <2>2, <2>3, <2>4 DEF ControlStep
<1>5. ctl \in [Handlers -> LiveControls]
  BY DEF TypeInv
<1>6. CASE UNCHANGED ctl
  BY <1>2, <1>6
<1>7. ASSUME NEW r, SetCtl(h, r), GoodControl(r, log')
      PROVE  \A g \in Handlers : GoodControl(ctl'[g], log')
  <2>1. ctl' = [ctl EXCEPT ![h] = r]
    BY <1>7 DEF SetCtl
  <2>2. \A g \in Handlers : ctl'[g] = IF g = h THEN r ELSE ctl[g]
    BY <1>5, <2>1
  <2> QED BY <1>2, <1>7, <2>2
<1> QED BY <1>4, <1>6, <1>7

(* What one execution adds.                                                 *)
LEMMA ExecutionPays ==
    ASSUME NEW w \in Workers, NEW i \in Items, NEW o \in Outcomes, clock \in Nat,
           NEW b, b = ExecutionEvents(w, i, o)
    PROVE  /\ b \in Seq(Events) /\ Priced(b) /\ ~ Holds(b, "RunCompleted")
           /\ \A k \in 1..Len(b) : b[k].by = w
           /\ EffortOf(0, b) \in Nat
           /\ o = "success" => Done(b, i) /\ Effort <= EffortOf(0, b)
           /\ o # "success" => Holds(b, "WorkItemFailed")
<1>0. Executed(b, w, i, o)
  BY ExecutionEventsAre
<1>1. /\ b \in Seq(Events)
      /\ \A k \in 1..Len(b) :
           /\ b[k].at = clock + k - 1 /\ b[k].by = w /\ b[k].item = i
           /\ b[k].type \in {"WorkItemStarted", "WorkItemCompleted",
                             "WorkItemFailed", "ProgressChunkEmitted"}
           /\ b[k].type = "WorkItemCompleted" => b[k].effort = Effort
      /\ o = "success" => \E k \in 1..Len(b) : b[k].type = "WorkItemCompleted"
      /\ o # "success" => \E k \in 1..Len(b) : b[k].type = "WorkItemFailed"
  BY <1>0 DEF Executed
<1>2. Priced(b) /\ ~ Holds(b, "RunCompleted")
  BY <1>1 DEF Priced, Holds
<1>3. o = "success" => Done(b, i)
  BY <1>1 DEF Done
<1>4. Once(b)
  <2>1. Len(b) \in Nat
    BY <1>1
  <2>2. \A j, k \in 1..Len(b) : clock + j - 1 = clock + k - 1 => j = k
    BY <2>1
  <2> QED BY <1>1, <2>2 DEF Once
<1>5. ASSUME o = "success" PROVE Effort <= EffortOf(0, b)
  <2>1. {i} \in SUBSET Items /\ \A j \in {i} : Done(b, j)
    BY <1>3, <1>5
  <2>2. Effort * Cardinality({i}) <= EffortOf(0, b)
    BY <1>1, <1>2, <1>4, <2>1, DoneIsPaid
  <2>3. Cardinality({i}) = 1 /\ Effort \in Nat
    BY FS_Singleton, NumbersAssumption
  <2> QED BY <2>2, <2>3
<1>6. EffortOf(0, b) \in Nat
  BY <1>1, EffortsTyped
<1> QED BY <1>1, <1>2, <1>3, <1>5, <1>6 DEF Holds

(* A batch in memory that grows: what it had it still has.                  *)
LEMMA JoinSays ==
    ASSUME NEW s \in Seq(Events), NEW b \in Seq(Events)
    PROVE  /\ \A i \in Items : Done(s \o b, i) <=> Done(s, i) \/ Done(b, i)
           /\ \A i \in Items : Broken(s \o b, i) <=> Broken(s, i) \/ Broken(b, i)
           /\ \A type : Holds(s \o b, type) <=> Holds(s, type) \/ Holds(b, type)
           /\ Priced(s) /\ Priced(b) => Priced(s \o b)
           /\ \A w : (\A k \in 1..Len(s) : s[k].by = w) /\ (\A k \in 1..Len(b) : b[k].by = w)
                        => \A k \in 1..Len(s \o b) : (s \o b)[k].by = w
<1> DEFINE t == s \o b
<1>1. /\ \A k \in 1..Len(s) : k \in 1..Len(t) /\ t[k] = s[k]
      /\ \A k \in 1..Len(b) : Len(s) + k \in 1..Len(t) /\ t[Len(s) + k] = b[k]
      /\ \A k \in 1..Len(t) : \/ k \in 1..Len(s) /\ t[k] = s[k]
                              \/ k - Len(s) \in 1..Len(b) /\ t[k] = b[k - Len(s)]
  BY JoinIs
<1> HIDE DEF t
<1> DEFINE S == {s[k] : k \in 1..Len(s)}
           B == {b[k] : k \in 1..Len(b)}
           T == {t[k] : k \in 1..Len(t)}
<1>2. T = S \cup B
  <2>1. ASSUME NEW k \in 1..Len(t) PROVE t[k] \in S \cup B
    BY <1>1
  <2>2. ASSUME NEW k \in 1..Len(s) PROVE s[k] \in T
    <3>1. k \in 1..Len(t) /\ s[k] = t[k]
      BY <1>1
    <3> QED BY <3>1
  <2>3. ASSUME NEW k \in 1..Len(b) PROVE b[k] \in T
    <3>1. Len(s) + k \in 1..Len(t) /\ b[k] = t[Len(s) + k]
      BY <1>1
    <3> QED BY <3>1
  <2> QED BY <2>1, <2>2, <2>3
<1>3. /\ \A i : Done(t, i) <=> \E e \in T : e.type = "WorkItemCompleted" /\ e.item = i
      /\ \A i : Done(s, i) <=> \E e \in S : e.type = "WorkItemCompleted" /\ e.item = i
      /\ \A i : Done(b, i) <=> \E e \in B : e.type = "WorkItemCompleted" /\ e.item = i
  BY DEF Done
<1>4. /\ \A i : Broken(t, i) <=> \E e \in T : e.type = "WorkItemFailed" /\ e.item = i
      /\ \A i : Broken(s, i) <=> \E e \in S : e.type = "WorkItemFailed" /\ e.item = i
      /\ \A i : Broken(b, i) <=> \E e \in B : e.type = "WorkItemFailed" /\ e.item = i
  BY DEF Broken
<1>5. /\ \A type : Holds(t, type) <=> \E e \in T : e.type = type
      /\ \A type : Holds(s, type) <=> \E e \in S : e.type = type
      /\ \A type : Holds(b, type) <=> \E e \in B : e.type = type
  BY DEF Holds
<1>6. /\ Priced(t) <=> \A e \in T : e.type = "WorkItemCompleted" => e.effort = Effort
      /\ Priced(s) <=> \A e \in S : e.type = "WorkItemCompleted" => e.effort = Effort
      /\ Priced(b) <=> \A e \in B : e.type = "WorkItemCompleted" => e.effort = Effort
  BY DEF Priced
<1>7. \A w : /\ (\A k \in 1..Len(t) : t[k].by = w) <=> \A e \in T : e.by = w
             /\ (\A k \in 1..Len(s) : s[k].by = w) <=> \A e \in S : e.by = w
             /\ (\A k \in 1..Len(b) : b[k].by = w) <=> \A e \in B : e.by = w
  OBVIOUS
<1> HIDE DEF S, B, T
<1>8. /\ \A i \in Items : Done(t, i) <=> Done(s, i) \/ Done(b, i)
      /\ \A i \in Items : Broken(t, i) <=> Broken(s, i) \/ Broken(b, i)
      /\ \A type : Holds(t, type) <=> Holds(s, type) \/ Holds(b, type)
      /\ Priced(s) /\ Priced(b) => Priced(t)
  BY <1>2, <1>3, <1>4, <1>5, <1>6
<1>9. ASSUME NEW w, \A k \in 1..Len(s) : s[k].by = w, \A k \in 1..Len(b) : b[k].by = w
      PROVE  \A k \in 1..Len(t) : t[k].by = w
  BY <1>2, <1>7, <1>9
<1> QED BY <1>8, <1>9 DEF t

(* What a worker loads the log says.                                       *)
LEMMA LoadIsGood ==
    ASSUME TypeInv, EventsOnce, HistoryInv, NEW w \in Workers, LoadRun(w)
    PROVE  \E r : SetWrk(w, r) /\ GoodWorker(w, r, log)
<1> DEFINE seen == WorkerFold(ByTime)
           r == [IdleWorker EXCEPT !.pc = "work", !.status = seen.status,
                    !.items = seen.items, !.effort = seen.effort]
<1>1. SetWrk(w, r) /\ seen.known /\ seen.status = "running"
  BY DEF LoadRun
<1>2. /\ seen.effort = EffortOf(0, log)
      /\ \A i \in Items : /\ seen.items[i] # "absent"
                          /\ seen.items[i] = "completed" => Done(log, i)
      /\ Effort * Cardinality({i \in Items : seen.items[i] = "completed"}) <= seen.effort
  BY <1>1, WorkerReads DEF TypeInv, HistoryInv
<1> HIDE DEF seen
<1>3. /\ r.pc = "work" /\ r.events = <<>> /\ r.status = seen.status /\ r.items = seen.items
      /\ r.effort = seen.effort
  BY DEF IdleWorker
<1> HIDE DEF r
<1>4. EffortOf(0, log) \in Nat /\ EffortOf(0, <<>>) \in Nat
  <2>1. log \in Seq(Events) /\ <<>> \in Seq(Events)
    BY DEF TypeInv
  <2> QED BY <2>1, EffortsTyped
<1>5. r.effort <= EffortOf(0, log) + EffortOf(0, r.events)
  BY <1>2, <1>3, <1>4
<1>6. Priced(r.events) /\ ~ Holds(r.events, "RunCompleted") /\ \A k \in 1..Len(r.events) : FALSE
  BY <1>3 DEF Priced, Holds
<1>7. GoodWorker(w, r, log)
  BY <1>1, <1>2, <1>3, <1>5, <1>6 DEF GoodWorker
<1> QED BY <1>1, <1>7

(* An execution keeps what the worker holds true of the log and its events. *)
LEMMA ExecuteIsGood ==
    ASSUME TypeInv, HistoryInv, NEW w \in Workers, NEW i \in Items, NEW o \in Outcomes,
           ExecuteItem(w, i, o)
    PROVE  \E r : SetWrk(w, r) /\ GoodWorker(w, r, log)
<1> DEFINE v == wrk[w]
           b == ExecutionEvents(w, i, o)
           t == v.events \o b
           r == [v EXCEPT
                    !.count = @ + 1,
                    !.events = @ \o b,
                    !.items[i] = IF o = "success" THEN "completed" ELSE "failed",
                    !.status = IF o = "success" THEN @ ELSE "blocked",
                    !.effort = IF o = "success" THEN @ + Effort ELSE @]
           done == {j \in Items : v.items[j] = "completed"}
           then == {j \in Items : r.items[j] = "completed"}
<1>1. v.pc = "work" /\ v.items[i] = "assigned" /\ SetWrk(w, r)
  BY DEF ExecuteItem
<1>2. v \in WorkerStates /\ clock \in Nat /\ log \in Seq(Events) /\ GoodWorker(w, v, log)
  BY DEF TypeInv, LiveWorkers, HistoryInv
<1>3. /\ v.events \in Seq(Events) /\ v.effort \in Nat /\ Effort \in Nat
      /\ v.items \in [Items -> ItemStatuses]
  BY <1>2, NumbersAssumption DEF WorkerStates
<1>4. /\ r.pc = "work" /\ r.events = t
      /\ r.status = IF o = "success" THEN v.status ELSE "blocked"
      /\ r.effort = IF o = "success" THEN v.effort + Effort ELSE v.effort
      /\ r.items = [v.items EXCEPT ![i] = IF o = "success" THEN "completed" ELSE "failed"]
  BY <1>1, <1>2 DEF WorkerStates
<1>5. /\ r.items[i] = IF o = "success" THEN "completed" ELSE "failed"
      /\ \A j \in Items \ {i} : r.items[j] = v.items[j]
  BY <1>3, <1>4
<1>6. /\ b \in Seq(Events) /\ Priced(b) /\ ~ Holds(b, "RunCompleted")
      /\ \A k \in 1..Len(b) : b[k].by = w
      /\ EffortOf(0, b) \in Nat
      /\ o = "success" => Done(b, i) /\ Effort <= EffortOf(0, b)
      /\ o # "success" => Holds(b, "WorkItemFailed")
  BY <1>2, ExecutionPays
<1>7. /\ \A k \in 1..Len(v.events) : v.events[k].by = w
      /\ Priced(v.events)
      /\ v.effort <= EffortOf(0, log) + EffortOf(0, v.events)
      /\ v.status = "blocked" => Holds(v.events, "WorkItemFailed")
      /\ ~ Holds(v.events, "RunCompleted") /\ v.status # "completed"
      /\ \A j \in Items : /\ v.items[j] # "absent"
                          /\ v.items[j] = "completed" => Done(log, j) \/ Done(v.events, j)
      /\ Effort * Cardinality(done) <= v.effort
  BY <1>1, <1>2 DEF GoodWorker
<1> HIDE DEF r, b, v
<1>8. /\ EffortOf(0, t) = EffortOf(0, v.events) + EffortOf(0, b)
      /\ EffortOf(0, v.events) \in Nat /\ EffortOf(0, log) \in Nat
  BY <1>2, <1>3, <1>6, JoinEffort
<1>9. /\ \A j \in Items : Done(t, j) <=> Done(v.events, j) \/ Done(b, j)
      /\ \A type : Holds(t, type) <=> Holds(v.events, type) \/ Holds(b, type)
      /\ Priced(t)
      /\ \A k \in 1..Len(t) : t[k].by = w
  BY <1>3, <1>6, <1>7, JoinSays
<1> HIDE DEF t
<1>10. r.effort <= EffortOf(0, log) + EffortOf(0, t)
  BY <1>3, <1>4, <1>6, <1>7, <1>8
<1>11. r.status = "blocked" => Holds(t, "WorkItemFailed")
  BY <1>4, <1>6, <1>7, <1>9
<1>12. ~ Holds(t, "RunCompleted") /\ r.status # "completed"
  BY <1>4, <1>6, <1>7, <1>9
<1>13. ASSUME NEW j \in Items
       PROVE  /\ r.items[j] # "absent"
              /\ r.items[j] = "completed" => Done(log, j) \/ Done(t, j)
  <2>1. CASE j = i
    BY <1>5, <1>6, <1>9, <2>1
  <2>2. CASE j # i
    BY <1>5, <1>7, <1>9, <2>2
  <2> QED BY <2>1, <2>2
<1>14. Effort * Cardinality(then) <= r.effort
  <2>1. IsFiniteSet(done) /\ Cardinality(done) \in Nat
    <3>1. done \in SUBSET Items
      OBVIOUS
    <3> QED BY <3>1, ItemsAssumption, FS_Subset, FS_CardinalityType
  <2>2. CASE o = "success"
    <3>1. then = done \cup {i} /\ i \notin done
      BY <1>1, <1>5, <2>2 DEF v
    <3>2. Cardinality(then) = Cardinality(done) + 1
      BY <2>1, <3>1, FS_AddElement
    <3>3. Effort * (Cardinality(done) + 1) = Effort * Cardinality(done) + Effort
      BY <1>3, <2>1
    <3>4. Effort * Cardinality(done) \in Nat
      BY <1>3, <2>1
    <3> HIDE DEF done, then
    <3> QED BY <1>3, <1>4, <1>7, <2>2, <3>2, <3>3, <3>4
  <2>3. CASE o # "success"
    <3>1. then = done
      BY <1>1, <1>5, <2>3 DEF v
    <3> QED BY <1>4, <1>7, <2>3, <3>1
  <2> QED BY <2>2, <2>3
<1>15. GoodWorker(w, r, log)
  BY <1>4, <1>9, <1>10, <1>11, <1>12, <1>13, <1>14 DEF GoodWorker
<1> QED BY <1>1, <1>15

(* The end of a turn: only when every item is completed, in the log that    *)
(* was read or by this turn, the batch ends the run.                        *)
LEMMA FinishIsGood ==
    ASSUME TypeInv, HistoryInv, NEW w \in Workers, FinishTurn(w)
    PROVE  \E r : SetWrk(w, r) /\ GoodWorker(w, r, log)
<1> DEFINE v == wrk[w]
           e == RunEvent("RunCompleted", w, clock)
           events == IF Completes(w) THEN Append(v.events, e) ELSE v.events
           status == IF Completes(w) THEN "completed" ELSE v.status
           t == v.events \o <<e>>
           r == [v EXCEPT !.pc = "load", !.events = events, !.count = 0, !.status = status]
           done == {j \in Items : v.items[j] = "completed"}
<1>1. (v.pc = "work" /\ SetWrk(w, IdleWorker)) \/ SetWrk(w, r)
  BY DEF FinishTurn
<1>2. v \in WorkerStates /\ clock \in Nat /\ log \in Seq(Events) /\ GoodWorker(w, v, log)
      /\ v.pc = "work"
  BY DEF TypeInv, LiveWorkers, HistoryInv, FinishTurn
<1>3. v.events \in Seq(Events) /\ v.effort \in Nat /\ v.items \in [Items -> ItemStatuses]
  BY <1>2 DEF WorkerStates
<1>4. e \in Events /\ e.type = "RunCompleted" /\ e.by = w
  <2>1. w \in Workers \cup {"api"}
    OBVIOUS
  <2> QED BY <1>2, <2>1, RunEventsMade DEF RunEvent, Event
<1>5. /\ r.pc = "load" /\ r.events = events /\ r.status = status
      /\ r.effort = v.effort
  BY <1>2 DEF WorkerStates
<1> HIDE DEF e
<1>6. Append(v.events, e) = t
  BY <1>3, <1>4, AppendIsConcat
<1>7. /\ \A k \in 1..Len(v.events) : v.events[k].by = w
      /\ Priced(v.events)
      /\ v.effort <= EffortOf(0, log) + EffortOf(0, v.events)
      /\ v.status = "blocked" => Holds(v.events, "WorkItemFailed")
      /\ ~ Holds(v.events, "RunCompleted") /\ v.status # "completed"
      /\ \A j \in Items : /\ v.items[j] # "absent"
                          /\ v.items[j] = "completed" => Done(log, j) \/ Done(v.events, j)
      /\ Effort * Cardinality(done) <= v.effort
  BY <1>2 DEF GoodWorker
<1> HIDE DEF r
<1>8. CASE Completes(w)
  <2>1. \A i \in Items : v.items[i] = "completed"
    BY <1>7, <1>8 DEF Completes, AllCompleted
  <2>2. done = Items
    BY <2>1
  <2>3. events = t /\ status = "completed"
    BY <1>6, <1>8
  <2> HIDE DEF events, status
  <2>4. Effort * Cardinality(Items) <= r.effort
    BY <1>5, <1>7, <2>2
  <2>5. /\ <<e>> \in Seq(Events) /\ Len(<<e>>) = 1 /\ <<e>>[1] = e
    BY <1>4
  <2>6. /\ Priced(<<e>>) /\ Holds(<<e>>, "RunCompleted") /\ \A k \in 1..Len(<<e>>) : <<e>>[k].by = w
    BY <1>4, <2>5 DEF Priced, Holds
  <2> DEFINE b == <<e>>
  <2>7. /\ EffortOf(0, v.events \o b) = EffortOf(0, v.events) + EffortOf(0, b)
        /\ EffortOf(0, v.events) \in Nat /\ EffortOf(0, b) \in Nat /\ EffortOf(0, log) \in Nat
    BY <1>2, <1>3, <2>5, JoinEffort
  <2> HIDE DEF b, v
  <2>8. /\ Priced(v.events \o b) /\ Holds(v.events \o b, "RunCompleted")
        /\ \A k \in 1..Len(v.events \o b) : (v.events \o b)[k].by = w
    BY <1>3, <1>7, <2>5, <2>6, JoinSays DEF b
  <2>9. /\ Len(v.events \o b) = Len(v.events) + 1 /\ Len(v.events) \in Nat
        /\ \A k \in 1..Len(v.events) : (v.events \o b)[k] = v.events[k]
    BY <1>3, <2>5, JoinIs, EffortsTyped DEF b
  <2>10. t = v.events \o b
    BY DEF b
  <2> HIDE DEF t
  <2>11. ASSUME NEW k \in 1..Len(t), t[k].type = "RunCompleted", NEW i \in Items
         PROVE  \/ Done(log, i)
                \/ \E j \in 1..(k - 1) : t[j].type = "WorkItemCompleted" /\ t[j].item = i
    <3>1. k \notin 1..Len(v.events)
      BY <1>7, <2>9, <2>10, <2>11 DEF Holds
    <3>2. k - 1 = Len(v.events)
      BY <2>9, <2>10, <3>1
    <3>3. Done(log, i) \/ Done(v.events, i)
      BY <1>7, <2>1
    <3> QED BY <2>9, <2>10, <3>2, <3>3 DEF Done
  <2>12. Earned(t, log)
    BY <2>11 DEF Earned
  <2>13. r.effort <= EffortOf(0, log) + EffortOf(0, t)
    BY <1>3, <1>5, <1>7, <2>7, <2>10 DEF v
  <2>14. GoodWorker(w, r, log)
    BY <1>5, <2>3, <2>4, <2>8, <2>10, <2>12, <2>13 DEF GoodWorker
  <2> QED BY <1>1, <2>14, IdleIsGood
<1>9. CASE ~ Completes(w)
  <2>1. events = v.events /\ status = v.status
    BY <1>9
  <2> HIDE DEF events, status
  <2>2. Earned(v.events, log)
    BY <1>7 DEF Holds, Earned
  <2>3. GoodWorker(w, r, log)
    BY <1>5, <1>7, <2>1, <2>2 DEF GoodWorker
  <2> QED BY <1>1, <2>3, IdleIsGood
<1> QED BY <1>8, <1>9

(* A batch that is read again from memory is as good as it was.             *)
LEMMA RetryIsGood ==
    ASSUME NEW v \in WorkerStates, NEW w, NEW L, GoodWorker(w, v, L),
           v.pc \in {"load", "append"}, NEW pc \in {"load", "append"}, NEW r,
           r.pc = pc, r.events = v.events, r.status = v.status, r.effort = v.effort
    PROVE  GoodWorker(w, r, L)
  BY DEF GoodWorker

(* So does a failed attempt: the batch is kept or dropped.                 *)
LEMMA NextAttemptIsGood ==
    ASSUME TypeInv, NEW w \in Workers, wrk[w].pc = "append", NextAttempt(w),
           NEW M, GoodWorker(w, wrk[w], M)
    PROVE  \E r : SetWrk(w, r) /\ GoodWorker(w, r, M)
<1> DEFINE v == wrk[w]
           r == [v EXCEPT !.pc = "load", !.base = 0]
<1>1. SetWrk(w, r) \/ SetWrk(w, IdleWorker)
  BY DEF NextAttempt
<1>2. v \in WorkerStates
  BY DEF TypeInv, LiveWorkers
<1>3. r.pc = "load" /\ r.events = v.events /\ r.status = v.status /\ r.effort = v.effort
  BY <1>2 DEF WorkerStates
<1> HIDE DEF r
<1>4. GoodWorker(w, r, M)
  BY <1>2, <1>3, RetryIsGood
<1> QED BY <1>1, <1>4, IdleIsGood

(* A batch that was stored: the log bears out what the worker will write.   *)
LEMMA StoredIsGood ==
    ASSUME NEW L \in Seq(Events), NEW w, NEW v \in LiveWorkers, v.pc = "append",
           GoodWorker(w, v, L), NEW r, r.pc = "items", r.status = v.status,
           r.effort = v.effort, r.todo = ItemUpserts(v.events)
    PROVE  GoodWorker(w, r, L \o v.events)
<1> DEFINE b == v.events
           M == L \o b
<1>1. /\ b \in Seq(Events) /\ v.effort \in Nat /\ b # <<>>
      /\ v.status \in {"running", "blocked", "completed"}
  BY DEF LiveWorkers, WorkerStates
<1>2. /\ v.effort <= EffortOf(0, L) + EffortOf(0, b)
      /\ v.status = "blocked" => Holds(b, "WorkItemFailed")
      /\ v.status = "completed" =>
           Holds(b, "RunCompleted") /\ Effort * Cardinality(Items) <= v.effort
  BY DEF GoodWorker
<1> HIDE DEF b
<1>3. EffortOf(0, M) = EffortOf(0, L) + EffortOf(0, b)
  BY <1>1, JoinEffort
<1>4. /\ \A i \in Items : Done(M, i) <=> Done(L, i) \/ Done(b, i)
      /\ \A i \in Items : Broken(M, i) <=> Broken(L, i) \/ Broken(b, i)
      /\ \A type : Holds(M, type) <=> Holds(L, type) \/ Holds(b, type)
  BY <1>1, JoinSays
<1>0. M # <<>>
  BY <1>1
<1> HIDE DEF M
<1>5. GoodRow(v.status, v.effort, M)
  BY <1>0, <1>1, <1>2, <1>3, <1>4 DEF GoodRow
<1>6. ASSUME NEW k \in 1..Len(r.todo)
      PROVE  /\ r.todo[k].type = "WorkItemCompleted" => Done(M, r.todo[k].item)
             /\ r.todo[k].type = "WorkItemFailed"    => Broken(M, r.todo[k].item)
  <2> DEFINE E == {e \in {b[n] : n \in 1..Len(b)} : e.type \in DOMAIN ItemStatus}
  <2>1. Len(b) \in Nat /\ \A n \in 1..Len(b) : b[n] \in Events
    BY <1>1, EffortsTyped
  <2>2. ItemUpserts(b) \in Seq(E)
    BY <2>1, TouchingKeeps DEF ItemUpserts
  <2>3. r.todo \in Seq(E)
    BY <2>2 DEF b
  <2>4. r.todo[k] \in E
    <3> HIDE DEF E
    <3> QED BY <2>3
  <2>5. PICK n \in 1..Len(b) : r.todo[k] = b[n]
    BY <2>4
  <2>6. b[n].type \in {"WorkItemCompleted", "WorkItemFailed"} => b[n].item \in Items
    <3>1. b[n] \in Events
      BY <2>1
    <3>2. b[n].type \in {"WorkItemCompleted", "WorkItemFailed"} => b[n].type \in DOMAIN ItemStatus
      BY ItemStatusIs
    <3> QED BY <3>1, <3>2 DEF Events
  <2>7. /\ b[n].type = "WorkItemCompleted" => Done(b, b[n].item)
        /\ b[n].type = "WorkItemFailed"    => Broken(b, b[n].item)
    BY DEF Done, Broken
  <2> QED BY <1>4, <2>5, <2>6, <2>7
<1>7. GoodWorker(w, r, M)
  BY <1>5, <1>6 DEF GoodWorker
<1> QED BY <1>7 DEF M, b

(* Every step of a worker keeps what the workers hold.                     *)
LEMMA HistWorker ==
    ASSUME TypeInv, StampInv, HistoryInv, Grows(log, log'), NEW w \in Workers,
           WorkerStep(w) \/ AppendFails(w) \/ WorkerDies(w)
    PROVE  \A u \in Workers : GoodWorker(u, wrk'[u], log')
<1> DEFINE v == wrk[w]
           Moved == \E r : SetWrk(w, r) /\ GoodWorker(w, r, log')
<1>1. \A u \in Workers : wrk[u] \in WorkerStates /\ GoodWorker(u, wrk[u], log)
  BY DEF TypeInv, LiveWorkers, HistoryInv
<1>2. \A u \in Workers : GoodWorker(u, wrk[u], log')
  BY <1>1, WorkerKeeps
<1>3. \A u : GoodWorker(u, IdleWorker, log')
  BY IdleIsGood
<1>4. v \in LiveWorkers /\ v \in WorkerStates /\ log \in Seq(Events) /\ EventsOnce
  BY StampInvOnce DEF TypeInv, LiveWorkers
<1>5. ASSUME LoadRun(w) PROVE Moved
  <2>1. log' = log
    BY <1>5 DEF LoadRun
  <2> QED BY <1>4, <1>5, <2>1, LoadIsGood
<1>6. ASSUME NEW i \in Items, NEW o \in Outcomes, ExecuteItem(w, i, o) PROVE Moved
  <2>1. log' = log
    BY <1>6 DEF ExecuteItem
  <2> QED BY <1>6, <2>1, ExecuteIsGood
<1>7. ASSUME FinishTurn(w) PROVE Moved
  <2>1. log' = log
    BY <1>7 DEF FinishTurn
  <2> QED BY <1>7, <2>1, FinishIsGood
<1>8. ASSUME RebaseBatch(w) PROVE Moved
  <2> DEFINE r == [v EXCEPT !.pc = "append", !.base = Len(log), !.attempt = @ + 1]
  <2>1. SetWrk(w, r) /\ v.pc = "load"
    BY <1>8 DEF RebaseBatch
  <2>2. r.pc = "append" /\ r.events = v.events /\ r.status = v.status /\ r.effort = v.effort
    BY <1>4 DEF WorkerStates
  <2> HIDE DEF r
  <2>3. GoodWorker(w, r, log')
    BY <1>2, <1>4, <2>1, <2>2, RetryIsGood
  <2> QED BY <2>1, <2>3
<1>9. ASSUME AppendBatch(w) PROVE Moved
  <2> DEFINE r == [v EXCEPT !.pc = "items", !.events = <<>>, !.base = 0,
                      !.attempt = 0, !.todo = ItemUpserts(v.events)]
  <2>1. v.pc = "append" /\ (NextAttempt(w) \/ (SetWrk(w, r) /\ log' = log \o v.events))
    BY <1>9 DEF AppendBatch
  <2>2. /\ r.pc = "items" /\ r.status = v.status /\ r.effort = v.effort
        /\ r.todo = ItemUpserts(v.events)
    BY <1>4 DEF WorkerStates
  <2> HIDE DEF r
  <2>3. ASSUME log' = log \o v.events PROVE GoodWorker(w, r, log')
    <3>1. GoodWorker(w, r, log \o v.events)
      BY <1>1, <1>4, <2>1, <2>2, StoredIsGood
    <3> QED BY <2>3, <3>1
  <2>4. NextAttempt(w) => Moved
    BY <1>2, <2>1, NextAttemptIsGood
  <2> QED BY <2>1, <2>3, <2>4
<1>10. ASSUME UpsertItem(w) PROVE Moved
  <2> DEFINE r == [v EXCEPT !.todo = Tail(@)]
  <2>1. SetWrk(w, r) /\ v.pc = "items" /\ v.todo # <<>>
    BY <1>10 DEF UpsertItem
  <2>2. /\ r.pc = "items" /\ r.status = v.status /\ r.effort = v.effort
        /\ r.todo = Tail(v.todo) /\ v.todo \in Seq(Events)
    BY <1>4, <2>1 DEF WorkerStates
  <2> HIDE DEF r
  <2>3. /\ GoodRow(v.status, v.effort, log')
        /\ \A k \in 1..Len(v.todo) :
            /\ v.todo[k].type = "WorkItemCompleted" => Done(log', v.todo[k].item)
            /\ v.todo[k].type = "WorkItemFailed"    => Broken(log', v.todo[k].item)
    BY <1>2, <2>1 DEF GoodWorker
  <2>4. \A k \in 1..Len(r.todo) : k + 1 \in 1..Len(v.todo) /\ r.todo[k] = v.todo[k + 1]
    BY <2>1, <2>2
  <2>5. GoodWorker(w, r, log')
    BY <2>2, <2>3, <2>4 DEF GoodWorker
  <2> QED BY <2>1, <2>5
<1>11. ASSUME UpsertRun(w) \/ WorkerDies(w) PROVE Moved
  <2>1. SetWrk(w, IdleWorker)
    BY <1>11 DEF UpsertRun, WorkerDies
  <2> QED BY <1>3, <2>1
<1>12. ASSUME AppendFails(w) PROVE Moved
  <2>1. v.pc = "append" /\ NextAttempt(w)
    BY <1>12 DEF AppendFails
  <2> QED BY <1>2, <2>1, NextAttemptIsGood
<1>13. Moved
  <2> HIDE DEF Moved
  <2> QED BY <1>5, <1>6, <1>7, <1>8, <1>9, <1>10, <1>11, <1>12 DEF WorkerStep
<1>14. PICK r : SetWrk(w, r) /\ GoodWorker(w, r, log')
  BY <1>13
<1>15. wrk \in [Workers -> LiveWorkers] /\ wrk' = [wrk EXCEPT ![w] = r]
  BY <1>14 DEF TypeInv, SetWrk
<1>16. \A u \in Workers : wrk'[u] = IF u = w THEN r ELSE wrk[u]
  BY <1>15
<1> QED BY <1>2, <1>14, <1>16

-----------------------------------------------------------------------------
(* The tables and the rebuild.                                              *)

(* Who writes what.                                                         *)
LEMMA WhoWrites ==
    ASSUME [Next]_vars
    PROVE  /\ \/ UNCHANGED runRow \/ UpsertCreated \/ ClearRuns \/ RebuildRun
              \/ \E h \in Handlers : SyncStatus(h)
              \/ \E w \in Workers : UpsertRun(w)
           /\ \/ UNCHANGED itemRow \/ ClearItems
              \/ \E i \in Items : RebuildItem(i)
              \/ \E w \in Workers : UpsertItem(w)
           /\ UNCHANGED rebuild \/ RebuildLoad \/ RebuildStep \/ RebuildFails
<1> DEFINE Writes ==
              /\ \/ UNCHANGED runRow \/ UpsertCreated \/ ClearRuns \/ RebuildRun
                 \/ \E h \in Handlers : SyncStatus(h)
                 \/ \E w \in Workers : UpsertRun(w)
              /\ \/ UNCHANGED itemRow \/ ClearItems
                 \/ \E i \in Items : RebuildItem(i)
                 \/ \E w \in Workers : UpsertItem(w)
              /\ UNCHANGED rebuild \/ RebuildLoad \/ RebuildStep \/ RebuildFails
<1>1. UNCHANGED vars => Writes
  BY DEF vars
<1>2. StartRun \/ UpsertCreated \/ CreateRunDies \/ EndInflight => Writes
  BY DEF StartRun, UpsertCreated, CreateRunDies, EndInflight
<1>3. ASSUME NEW h \in Handlers,
             (\E kind \in Requests : Decide(h, kind)) \/ ControlStep(h) \/ ControlFails(h)
      PROVE  Writes
  <2>1. UNCHANGED <<itemRow, rebuild>> /\ (UNCHANGED runRow \/ SyncStatus(h))
    BY <1>3 DEF Decide, ControlStep, NextRevision, AppendControl, SyncStatus, ControlFails
  <2> QED BY <2>1
<1>4. ASSUME NEW w \in Workers, WorkerStep(w) \/ AppendFails(w) \/ WorkerDies(w)
      PROVE  Writes
  <2>1. /\ UNCHANGED rebuild
        /\ UNCHANGED runRow \/ UpsertRun(w)
        /\ UNCHANGED itemRow \/ UpsertItem(w)
    BY <1>4 DEF WorkerStep, LoadRun, ExecuteItem, FinishTurn, RebaseBatch,
                AppendBatch, UpsertItem, UpsertRun, AppendFails, WorkerDies
  <2> QED BY <2>1
<1>5. RebuildLoad \/ RebuildFails => Writes
  BY DEF RebuildLoad, RebuildFails
<1>6. RebuildStep => Writes
  BY DEF RebuildStep, ClearItems, ClearRuns, RebuildRun, RebuildItem, RebuildEnds
<1> HIDE DEF Writes
<1>7. Writes
  BY <1>1, <1>2, <1>3, <1>4, <1>5, <1>6 DEF Next
<1> QED BY <1>7 DEF Writes

(* No step lets the row of the run show more than the log says,            *)
LEMMA HistRow ==
    ASSUME TypeInv, HistoryInv, Grows(log, log'), [Next]_vars
    PROVE  GoodRow(runRow'.status, runRow'.effort, log')
<1>1. /\ runRow.status \in RunStatuses /\ runRow.effort \in Nat
      /\ GoodRow(runRow.status, runRow.effort, log)
      /\ runRow \in [status : RunStatuses, effort : Nat]
  BY DEF TypeInv, HistoryInv
<1>2. GoodRow(runRow.status, runRow.effort, log')
  BY <1>1, RowKeeps
<1>3. EffortOf(0, log') \in Nat
  BY EffortsTyped DEF Grows
<1>4. ASSUME NEW status \in {"running", "absent"}, status # "absent" => log' # <<>>
      PROVE  GoodRow(status, 0, log')
  BY <1>3, <1>4 DEF GoodRow
<1>5. CASE UNCHANGED runRow
  BY <1>2, <1>5
<1>6. CASE UpsertCreated
  <2>1. runRow'.status = "running" /\ runRow'.effort = 0 /\ log' # <<>>
    BY <1>6 DEF UpsertCreated, HistoryInv
  <2> QED BY <1>4, <2>1
<1>7. CASE ClearRuns
  <2>1. runRow'.status = "absent" /\ runRow'.effort = 0
    BY <1>7 DEF ClearRuns, NoRunRow
  <2> QED BY <1>4, <2>1
<1>8. CASE RebuildRun
  <2>1. /\ rebuild \in RebuildStates /\ GoodRow(rebuild.status, rebuild.effort, log)
    BY <1>8 DEF RebuildRun, HistoryInv, GoodRebuild, TypeInv, LiveRebuilds
  <2>2. GoodRow(rebuild.status, rebuild.effort, log')
    BY <2>1, RowKeeps DEF RebuildStates
  <2>3. \/ runRow' = runRow
        \/ runRow' = [status |-> rebuild.status, effort |-> rebuild.effort]
    BY <1>8 DEF RebuildRun
  <2> QED BY <1>2, <2>2, <2>3
<1>9. ASSUME NEW h \in Handlers, SyncStatus(h)
      PROVE  GoodRow(runRow'.status, runRow'.effort, log')
  <2> DEFINE status == Target[ctl[h].kind]
  <2>1. ctl[h].kind \in Requests /\ Says(log, status)
    BY <1>9 DEF SyncStatus, HistoryInv, GoodControl, TypeInv, LiveControls
  <2>2. status \in {"running", "paused", "cancelled"}
    BY <2>1, TargetIs
  <2>3. runRow' = runRow \/ runRow' = [runRow EXCEPT !.status = status]
    BY <1>9 DEF SyncStatus
  <2> HIDE DEF status
  <2>4. Says(log', status) /\ log' # <<>>
    <3>1. Says(log', status)
      BY <2>1, SaidForGood
    <3> QED BY <3>1 DEF Says
  <2>5. GoodRow(status, runRow.effort, log')
    BY <1>2, <2>2, <2>4 DEF GoodRow
  <2>6. runRow' = runRow \/ (runRow'.status = status /\ runRow'.effort = runRow.effort)
    BY <1>1, <2>3
  <2> QED BY <1>2, <2>5, <2>6
<1>10. ASSUME NEW w \in Workers, UpsertRun(w)
       PROVE  GoodRow(runRow'.status, runRow'.effort, log')
  <2>1. /\ wrk[w] \in WorkerStates /\ wrk[w].pc = "items" /\ GoodWorker(w, wrk[w], log)
        /\ runRow' = [status |-> wrk[w].status, effort |-> wrk[w].effort]
    BY <1>10 DEF UpsertRun, HistoryInv, TypeInv, LiveWorkers
  <2>2. GoodRow(wrk[w].status, wrk[w].effort, log) /\ wrk[w].effort \in Nat
    BY <2>1 DEF GoodWorker, WorkerStates
  <2>3. GoodRow(wrk[w].status, wrk[w].effort, log')
    BY <2>2, RowKeeps
  <2> QED BY <2>1, <2>3
<1> QED BY <1>5, <1>6, <1>7, <1>8, <1>9, <1>10, WhoWrites

(* nor the rows of the items,                                              *)
LEMMA HistItems ==
    ASSUME TypeInv, HistoryInv, Grows(log, log'), [Next]_vars
    PROVE  GoodItems(itemRow', log')
<1>1. itemRow \in [Items -> ItemStatuses] /\ GoodItems(itemRow, log')
  BY ItemsKeep DEF TypeInv, HistoryInv
<1>2. CASE UNCHANGED itemRow
  BY <1>1, <1>2
<1>3. CASE ClearItems
  <2>1. \A i \in Items : itemRow'[i] = "absent"
    BY <1>3 DEF ClearItems, NoItems
  <2> QED BY <2>1 DEF GoodItems
<1>4. ASSUME NEW i \in Items, RebuildItem(i) PROVE GoodItems(itemRow', log')
  <2>1. GoodItems(rebuild.items, log) /\ itemRow' = [itemRow EXCEPT ![i] = rebuild.items[i]]
    BY <1>4 DEF RebuildItem, HistoryInv, GoodRebuild
  <2>2. GoodItems(rebuild.items, log')
    BY <2>1, ItemsKeep
  <2>3. \A j \in Items : itemRow'[j] = IF j = i THEN rebuild.items[i] ELSE itemRow[j]
    BY <1>1, <2>1
  <2> QED BY <1>1, <2>2, <2>3 DEF GoodItems
<1>5. ASSUME NEW w \in Workers, UpsertItem(w) PROVE GoodItems(itemRow', log')
  <2> DEFINE v == wrk[w]
             e == Head(v.todo)
             T == {x \in Events : x.type \in DOMAIN ItemStatus}
  <2>1. /\ v.pc = "items" /\ v.todo # <<>>
        /\ itemRow' = [itemRow EXCEPT ![e.item] = ItemStatus[e.type]]
        /\ GoodWorker(w, v, log) /\ v.todo \in Seq(T)
    BY <1>5 DEF UpsertItem, HistoryInv, TypeInv, LiveWorkers
  <2>2. 1 \in 1..Len(v.todo) /\ e = v.todo[1] /\ e \in T
    BY <2>1
  <2>3. /\ e.type = "WorkItemCompleted" => Done(log, e.item)
        /\ e.type = "WorkItemFailed"    => Broken(log, e.item)
    BY <2>1, <2>2 DEF GoodWorker
  <2>4. e.item \in Items /\ e.type \in DOMAIN ItemStatus
    BY <2>2 DEF Events
  <2> HIDE DEF e
  <2>5. /\ e.type = "WorkItemCompleted" => Done(log', e.item)
        /\ e.type = "WorkItemFailed"    => Broken(log', e.item)
    BY <2>3, <2>4, SaidForGood
  <2>6. /\ ItemStatus[e.type] = "completed" => e.type = "WorkItemCompleted"
        /\ ItemStatus[e.type] = "failed" => e.type = "WorkItemFailed"
    BY <2>4, ItemStatusIs
  <2>7. \A j \in Items : itemRow'[j] = IF j = e.item THEN ItemStatus[e.type] ELSE itemRow[j]
    BY <1>1, <2>1, <2>4
  <2> QED BY <1>1, <2>5, <2>6, <2>7 DEF GoodItems
<1> QED BY <1>2, <1>3, <1>4, <1>5, WhoWrites

(* and the rebuild holds nothing else.                                     *)
LEMMA HistRebuild ==
    ASSUME TypeInv, EventsOnce, HistoryInv, Grows(log, log'), [Next]_vars
    PROVE  GoodRebuild(rebuild', log')
<1>1. /\ rebuild \in RebuildStates /\ GoodRebuild(rebuild, log)
      /\ log \in Seq(Events) /\ GoodLog(log)
  BY DEF TypeInv, LiveRebuilds, HistoryInv
<1>2. GoodRebuild(rebuild, log')
  BY <1>1, RebuildKeeps
<1>3. CASE UNCHANGED rebuild
  BY <1>2, <1>3
<1>4. CASE RebuildLoad
  <2> DEFINE seen == RebuildFold(ByTime)
  <2>1. /\ rebuild'.status = seen.status /\ rebuild'.effort = seen.effort
        /\ rebuild'.items = seen.items /\ log' = log
    BY <1>4 DEF RebuildLoad, SetRebuild
  <2>2. GoodRow(seen.status, seen.effort, log) /\ GoodItems(seen.items, log)
    BY <1>1, RebuildReads
  <2> HIDE DEF seen
  <2> QED BY <2>1, <2>2 DEF GoodRebuild
<1>5. CASE RebuildStep
  <2>1. rebuild.pc # "idle"
    BY <1>5 DEF RebuildStep, ClearItems, ClearRuns, RebuildRun, RebuildItem, RebuildEnds
  <2>2. \/ rebuild' = IdleRebuild
        \/ /\ rebuild'.status = rebuild.status /\ rebuild'.effort = rebuild.effort
           /\ rebuild'.items = rebuild.items
    BY <1>1, <1>5 DEF RebuildStates, SetRebuild, RebuildStep, ClearItems, ClearRuns,
                      RebuildRun, RebuildItem, RebuildEnds
  <2> QED BY <1>2, <2>1, <2>2, IdleIsGood DEF GoodRebuild
<1>6. CASE RebuildFails
  <2>1. rebuild' = IdleRebuild
    BY <1>6 DEF RebuildFails, SetRebuild
  <2> QED BY <2>1, IdleIsGood
<1> QED BY <1>3, <1>4, <1>5, <1>6, WhoWrites

-----------------------------------------------------------------------------
(* HistoryInv holds at the start and is kept.                               *)
LEMMA HistoryInit == TypeInv /\ Init => HistoryInv
<1> SUFFICES ASSUME TypeInv, Init PROVE HistoryInv
  OBVIOUS
<1>1. /\ log = <<>> /\ inflight = <<>> /\ creation = "new"
      /\ runRow = NoRunRow /\ itemRow = NoItems /\ rebuild = IdleRebuild
      /\ \A h \in Handlers : ctl[h] = IdleControl
      /\ \A w \in Workers : wrk[w] = IdleWorker
  BY DEF Init
<1>2. GoodLog(log) /\ GoodBatch(inflight, log)
  BY <1>1, NoBatch DEF GoodLog, Earned, Priced
<1>3. GoodRow(runRow.status, runRow.effort, log)
  <2>1. EffortOf(0, log) \in Nat
    BY EffortsTyped DEF TypeInv
  <2> QED BY <1>1, <2>1 DEF GoodRow, NoRunRow
<1>4. GoodItems(itemRow, log)
  BY <1>1 DEF GoodItems, NoItems
<1> QED BY <1>1, <1>2, <1>3, <1>4, IdleIsGood DEF HistoryInv

(* Every step keeps the invariant.                                         *)
LEMMA HistoryStep == TypeInv /\ StampInv /\ HistoryInv /\ [Next]_vars => HistoryInv'
<1> SUFFICES ASSUME TypeInv, StampInv, HistoryInv, [Next]_vars PROVE HistoryInv'
  OBVIOUS
<1>1. /\ Grows(log, log') /\ GoodLog(log') /\ GoodBatch(inflight', log')
      /\ creation' # "new" => log' # <<>>
  BY LogStep
<1>2. EventsOnce
  BY StampInvOnce DEF TypeInv
<1>3. /\ GoodRow(runRow'.status, runRow'.effort, log') /\ GoodItems(itemRow', log')
      /\ GoodRebuild(rebuild', log')
  BY <1>1, <1>2, HistRow, HistItems, HistRebuild
<1>4. ASSUME UNCHANGED ctl PROVE \A h \in Handlers : GoodControl(ctl'[h], log')
  <2>1. \A h \in Handlers : ctl[h] \in ControlStates /\ GoodControl(ctl[h], log)
    BY DEF TypeInv, LiveControls, HistoryInv
  <2> QED BY <1>1, <1>4, <2>1, ControlKeeps
<1>5. ASSUME UNCHANGED wrk PROVE \A w \in Workers : GoodWorker(w, wrk'[w], log')
  <2>1. \A w \in Workers : wrk[w] \in WorkerStates /\ GoodWorker(w, wrk[w], log)
    BY DEF TypeInv, LiveWorkers, HistoryInv
  <2> QED BY <1>1, <1>5, <2>1, WorkerKeeps
<1>6. ASSUME NEW h \in Handlers,
             (\E kind \in Requests : Decide(h, kind)) \/ ControlStep(h) \/ ControlFails(h)
      PROVE  /\ \A g \in Handlers : GoodControl(ctl'[g], log')
             /\ \A w \in Workers : GoodWorker(w, wrk'[w], log')
  <2>1. UNCHANGED wrk
    BY <1>6 DEF Decide, ControlStep, NextRevision, AppendControl, SyncStatus, ControlFails
  <2> QED BY <1>1, <1>5, <1>6, <2>1, HistControl
<1>7. ASSUME NEW w \in Workers, WorkerStep(w) \/ AppendFails(w) \/ WorkerDies(w)
      PROVE  /\ \A g \in Handlers : GoodControl(ctl'[g], log')
             /\ \A u \in Workers : GoodWorker(u, wrk'[u], log')
  <2>1. UNCHANGED ctl
    BY <1>7 DEF WorkerStep, LoadRun, ExecuteItem, FinishTurn, RebaseBatch,
                AppendBatch, UpsertItem, UpsertRun, AppendFails, WorkerDies
  <2> QED BY <1>1, <1>4, <1>7, <2>1, HistWorker
<1>8. ASSUME UNCHANGED vars \/ StartRun \/ UpsertCreated \/ CreateRunDies \/ EndInflight
                \/ RebuildLoad \/ RebuildStep \/ RebuildFails
      PROVE  UNCHANGED <<ctl, wrk>>
  BY <1>8 DEF vars, StartRun, UpsertCreated, CreateRunDies, EndInflight,
              RebuildLoad, RebuildStep, RebuildFails,
              ClearItems, ClearRuns, RebuildRun, RebuildItem, RebuildEnds
<1>9. /\ \A h \in Handlers : GoodControl(ctl'[h], log')
      /\ \A w \in Workers : GoodWorker(w, wrk'[w], log')
  BY <1>4, <1>5, <1>6, <1>7, <1>8 DEF Next
<1> QED BY <1>1, <1>3, <1>9 DEF HistoryInv

(* The revisions of the log.                                               *)
LEMMA LogIndices == log \in Seq(Events) => DOMAIN log = 1..Len(log)
  OBVIOUS

(* The invariant implies the four properties.                              *)
LEMMA HistorySays ==
    ASSUME TypeInv, StampInv, HistoryInv
    PROVE  ControlIsLatest /\ CompletedIsEarned /\ ProjectionBehindLog /\ CompletedShowsEffort
<1>1. DOMAIN log = 1..Len(log) /\ GoodLog(log)
  BY LogIndices DEF TypeInv, HistoryInv
<1>2. ControlIsLatest
  BY <1>1 DEF ControlIsLatest, GoodLog
<1>3. CompletedIsEarned
  <2>1. ASSUME NEW p \in Positions("RunCompleted"), NEW i \in Items
        PROVE  \E q \in 1..(p - 1) : log[q].type = "WorkItemCompleted" /\ log[q].item = i
    <3>1. p \in 1..Len(log) /\ log[p].type = "RunCompleted"
      BY <1>1 DEF Positions
    <3>2. ~ Done(<<>>, i)
      BY DEF Done
    <3> QED BY <1>1, <3>1, <3>2 DEF GoodLog, Earned
  <2> QED BY <2>1 DEF CompletedIsEarned
<1>4. /\ GoodRow(runRow.status, runRow.effort, log) /\ GoodItems(itemRow, log)
  BY DEF HistoryInv
<1>5. ProjectionBehindLog
  <2>1. \A type \in {"RunCompleted", "WorkItemFailed"} : Holds(log, type) => Positions(type) # {}
    BY <1>1 DEF Holds, Positions
  <2>2. \A status : Says(log, status) => StatusSet({status}) # {}
    BY <1>1 DEF Says, StatusSet, Positions
  <2>3. \A i \in Items : /\ Done(log, i) => Logged({"WorkItemCompleted"}, i)
                         /\ Broken(log, i) => Logged({"WorkItemFailed"}, i)
    BY <1>1 DEF Done, Broken, Logged
  <2> QED BY <1>4, <2>1, <2>2, <2>3 DEF ProjectionBehindLog, GoodRow, GoodItems, HistoryEffort
<1>6. CompletedShowsEffort
  <2>1. runRow.effort \in Nat /\ Effort * Cardinality(Items) \in Nat
    BY NumbersAssumption, ItemsAssumption, FS_CardinalityType DEF TypeInv
  <2> QED BY <1>4, <2>1 DEF GoodRow, CompletedShowsEffort
<1> QED BY <1>2, <1>3, <1>5, <1>6

(* The four properties hold in every reachable state.                      *)
LEMMA HistoryHolds ==
    Spec => [](ControlIsLatest /\ CompletedIsEarned /\ ProjectionBehindLog /\ CompletedShowsEffort)
<1>1. Init => TypeInv /\ StampInv /\ HistoryInv
  BY TypeInit, StampInit, HistoryInit
<1>2. TypeInv /\ StampInv /\ HistoryInv /\ [Next]_vars => (TypeInv /\ StampInv /\ HistoryInv)'
  BY TypeStep, StampStep, HistoryStep, StampInvOnce DEF TypeInv
<1>3. TypeInv /\ StampInv /\ HistoryInv
        => ControlIsLatest /\ CompletedIsEarned /\ ProjectionBehindLog /\ CompletedShowsEffort
  BY HistorySays
<1> QED BY <1>1, <1>2, <1>3, PTL DEF Spec

(* What the API writes is later than all that stands before it, by revision *)
(* and by occurred_at alike, for any number of requests and workers: a      *)
(* handler stamps after it has read the revision, and its batch is refused  *)
(* when the log is no longer the one it read.                               *)
THEOREM ControlIsTheLatest == Spec => []ControlIsLatest
  BY HistoryHolds, PTL

(* A RunCompleted stands behind a completion of every item, however the     *)
(* batches of workers, retries, lost answers and crashes interleave: what a *)
(* worker counts as completed it has read in the log, which only grows, or  *)
(* has executed itself, and then it stands before it in the same batch.     *)
THEOREM CompletionIsEarned == Spec => []CompletedIsEarned
  BY HistoryHolds, PTL

(* The tables never run ahead of the log: each row, and what a worker, a    *)
(* handler or a rebuild will still write to one, shows what some earlier    *)
(* log said, and the log has only grown since.                              *)
THEOREM ProjectionIsBehindLog == Spec => []ProjectionBehindLog
  BY HistoryHolds, PTL

(* A row that shows the run completed shows the effort of every item, from  *)
(* whatever worker or rebuild wrote it: the total of a worker counts each   *)
(* item it takes for completed, and no event is in the log twice.           *)
THEOREM CompletionShowsEffort == Spec => []CompletedShowsEffort
  BY HistoryHolds, PTL

-----------------------------------------------------------------------------
(* The page.  What GET /api/runs/{id} shows is explained by the timeline it *)
(* shows, whatever is written between its queries: each query read what     *)
(* some earlier log bore out, and the timeline is read last.                *)

(* What the handler has read so far.                                        *)
PageStates ==
    [pc : {"idle", "count", "latest", "items", "timeline"},
     row : [status : RunStatuses, effort : Nat], count : Nat, revision : Nat,
     latest : EventTypes \cup {""}, items : [Items -> ItemStatuses]]

PageInv ==
    /\ page \in PageStates
    /\ page.pc # "idle" =>
        /\ log # <<>>
        /\ GoodRow(page.row.status, page.row.effort, log)
    /\ page.pc \in {"latest", "items", "timeline"} => page.count <= Len(log)
    /\ page.pc \in {"items", "timeline"} =>
        /\ page.count <= page.revision
        /\ page.revision \in 1..Len(log) /\ page.latest = log[page.revision].type
    /\ page.pc = "timeline" => GoodItems(page.items, log)

(* While the system runs on, what was read stays true.                      *)
LEMMA PageKeeps ==
    ASSUME TypeInv, StampInv, HistoryInv, PageInv, [Next]_vars, UNCHANGED page
    PROVE  PageInv'
<1>1. Grows(log, log')
  BY LogStep
<1>2. /\ Len(log) \in Nat /\ Len(log') \in Nat /\ Len(log) <= Len(log')
      /\ log \in Seq(Events) /\ log' \in Seq(Events)
      /\ \A q \in 1..Len(log) : q \in 1..Len(log') /\ log'[q] = log[q]
  BY <1>1, EffortsTyped DEF Grows
<1>3. log # <<>> => log' # <<>>
  BY <1>2
<1>4. /\ page.row.effort \in Nat /\ page.count \in Nat /\ page.revision \in Nat
      /\ page \in PageStates
  <2>1. page \in PageStates
    BY DEF PageInv
  <2> QED BY <2>1 DEF PageStates
<1>5. page.pc # "idle" => GoodRow(page.row.status, page.row.effort, log')
  BY <1>1, <1>4, RowKeeps DEF PageInv
<1>6. GoodItems(page.items, log) => GoodItems(page.items, log')
  BY <1>1, ItemsKeep
<1>7. page.count <= Len(log) => page.count <= Len(log')
  BY <1>2, <1>4
<1>8. page.revision \in 1..Len(log) =>
        page.revision \in 1..Len(log') /\ log'[page.revision] = log[page.revision]
  BY <1>2
<1> QED BY <1>3, <1>4, <1>5, <1>6, <1>7, <1>8 DEF PageInv

(* Each query of the handler.                                               *)
LEMMA PageReads ==
    ASSUME TypeInv, HistoryInv, PageInv, UNCHANGED vars,
           PageRow \/ PageCount \/ PageLatest \/ PageItems \/ PageAnswer \/ PageFails
    PROVE  PageInv'
<1>1. /\ log \in Seq(Events) /\ Len(log) \in Nat /\ log' = log
      /\ \A k \in 1..Len(log) : log[k].type \in EventTypes
  <2>1. log \in Seq(Events) /\ log' = log
    BY DEF TypeInv, vars
  <2>2. \A e \in Events : e.type \in EventTypes
    BY DEF Events
  <2> QED BY <2>1, <2>2, EffortsTyped
<1>2. /\ runRow \in [status : RunStatuses, effort : Nat]
      /\ itemRow \in [Items -> ItemStatuses]
      /\ GoodRow(runRow.status, runRow.effort, log) /\ GoodItems(itemRow, log)
  BY DEF TypeInv, HistoryInv
<1>3. page \in PageStates
  BY DEF PageInv
<1>4. IdlePage \in PageStates /\ IdlePage.pc = "idle"
  <2>1. NoRunRow \in [status : RunStatuses, effort : Nat] /\ NoItems \in [Items -> ItemStatuses]
    BY IdleIsTyped
  <2> DEFINE R == [status : RunStatuses, effort : Nat]
             I == [Items -> ItemStatuses]
             E == EventTypes \cup {""}
  <2>2. NoRunRow \in R /\ NoItems \in I /\ "" \in E
    BY <2>1
  <2> HIDE DEF R, I, E
  <2>3. IdlePage \in [pc : {"idle", "count", "latest", "items", "timeline"},
                      row : R, count : Nat, revision : Nat, latest : E, items : I]
    BY <2>2 DEF IdlePage
  <2> QED BY <2>3 DEF IdlePage, PageStates, R, I, E
<1>5. CASE page' = IdlePage
  BY <1>4, <1>5 DEF PageInv
<1>6. ASSUME PageRow, page' # IdlePage PROVE PageInv'
  <2> DEFINE r == [IdlePage EXCEPT !.pc = "count", !.row = runRow]
  <2>1. page' = r /\ runRow.status # "absent"
    BY <1>6 DEF PageRow
  <2>2. r \in PageStates /\ r.pc = "count" /\ r.row = runRow
    BY <1>2, <1>4 DEF PageStates
  <2>3. log # <<>>
    BY <1>2, <2>1 DEF GoodRow
  <2> HIDE DEF r
  <2> QED BY <1>1, <1>2, <2>1, <2>2, <2>3 DEF PageInv
<1>7. ASSUME PageCount PROVE PageInv'
  <2> DEFINE r == [page EXCEPT !.pc = "latest", !.count = Len(log)]
  <2>1. page' = r /\ page.pc = "count"
    BY <1>7 DEF PageCount
  <2>2. r \in PageStates /\ r.pc = "latest" /\ r.row = page.row /\ r.count = Len(log)
    BY <1>1, <1>3 DEF PageStates
  <2> HIDE DEF r
  <2>3. log # <<>> /\ GoodRow(page.row.status, page.row.effort, log)
    BY <2>1 DEF PageInv
  <2> QED BY <1>1, <2>1, <2>2, <2>3 DEF PageInv
<1>8. ASSUME PageLatest PROVE PageInv'
  <2> DEFINE r == [page EXCEPT !.pc = "items", !.revision = Len(log), !.latest = Last(log).type]
  <2>1. page' = r /\ page.pc = "latest"
    BY <1>8 DEF PageLatest
  <2>2. /\ log # <<>> /\ GoodRow(page.row.status, page.row.effort, log)
        /\ page.count <= Len(log)
    BY <2>1 DEF PageInv
  <2>3. Len(log) \in 1..Len(log) /\ Last(log) = log[Len(log)]
    BY <1>1, <2>2 DEF Last
  <2>4. Last(log).type \in EventTypes \cup {""}
    BY <1>1, <2>3
  <2>5. /\ r \in PageStates /\ r.pc = "items" /\ r.row = page.row /\ r.count = page.count
        /\ r.revision = Len(log) /\ r.latest = Last(log).type
    BY <1>1, <1>3, <2>4 DEF PageStates
  <2> HIDE DEF r
  <2> QED BY <1>1, <2>1, <2>2, <2>3, <2>5 DEF PageInv
<1>9. ASSUME PageItems PROVE PageInv'
  <2> DEFINE r == [page EXCEPT !.pc = "timeline", !.items = itemRow]
  <2>1. page' = r /\ page.pc = "items"
    BY <1>9 DEF PageItems
  <2>2. /\ r \in PageStates /\ r.pc = "timeline" /\ r.row = page.row /\ r.count = page.count
        /\ r.revision = page.revision /\ r.latest = page.latest /\ r.items = itemRow
    BY <1>2, <1>3 DEF PageStates
  <2> HIDE DEF r
  <2>3. /\ log # <<>> /\ GoodRow(page.row.status, page.row.effort, log)
        /\ page.count <= Len(log) /\ page.count <= page.revision
        /\ page.revision \in 1..Len(log) /\ page.latest = log[page.revision].type
    BY <2>1 DEF PageInv
  <2> QED BY <1>1, <1>2, <2>1, <2>2, <2>3 DEF PageInv
<1> QED BY <1>5, <1>6, <1>7, <1>8, <1>9 DEF PageAnswer, PageFails

(* The invariant holds at the start.                                       *)
LEMMA PageInitInv == PageInit => PageInv
<1> SUFFICES ASSUME PageInit PROVE PageInv
  OBVIOUS
<1>1. NoRunRow \in [status : RunStatuses, effort : Nat] /\ NoItems \in [Items -> ItemStatuses]
  BY IdleIsTyped
<1> DEFINE R == [status : RunStatuses, effort : Nat]
           I == [Items -> ItemStatuses]
           E == EventTypes \cup {""}
<1>2. NoRunRow \in R /\ NoItems \in I /\ "" \in E
  BY <1>1
<1> HIDE DEF R, I, E
<1>3. IdlePage \in [pc : {"idle", "count", "latest", "items", "timeline"},
                    row : R, count : Nat, revision : Nat, latest : E, items : I]
      /\ IdlePage.pc = "idle"
  BY <1>2 DEF IdlePage
<1>4. IdlePage \in PageStates /\ IdlePage.pc = "idle"
  BY <1>3 DEF PageStates, R, I, E
<1> QED BY <1>4 DEF PageInit, PageInv

(* Every step, of the page or of the rest, keeps all four invariants.      *)
LEMMA PageStep ==
    TypeInv /\ StampInv /\ HistoryInv /\ PageInv /\ [PageNext]_pvars
        => (TypeInv /\ StampInv /\ HistoryInv /\ PageInv)'
<1> SUFFICES ASSUME TypeInv, StampInv, HistoryInv, PageInv, [PageNext]_pvars
             PROVE  (TypeInv /\ StampInv /\ HistoryInv /\ PageInv)'
  OBVIOUS
<1>1. \/ [Next]_vars /\ UNCHANGED page
      \/ /\ UNCHANGED vars
         /\ PageRow \/ PageCount \/ PageLatest \/ PageItems \/ PageAnswer \/ PageFails
  BY DEF PageNext, pvars, PageRow, PageCount, PageLatest, PageItems, PageAnswer, PageFails
<1>2. [Next]_vars
  BY <1>1
<1>3. (TypeInv /\ StampInv /\ HistoryInv)'
  BY <1>2, TypeStep, StampStep, HistoryStep, StampInvOnce DEF TypeInv
<1> QED BY <1>1, <1>3, PageKeeps, PageReads

(* A set of positions that is not empty has a last one.                     *)
LEMMA LastOf ==
    ASSUME NEW n \in Nat, NEW S \in SUBSET (1..n), S # {}
    PROVE  \E p \in S : \A k \in S : k <= p
<1> DEFINE T == {m \in 0..n : \/ \A k \in S : k > m
                             \/ \E p \in S : \A k \in S : k <= m => k <= p}
<1>1. 0 \in T
  OBVIOUS
<1>2. ASSUME NEW m \in 1..n, m - 1 \in T PROVE m \in T
  <2>1. CASE m \in S
    <3>1. \A k \in S : k <= m => k <= m
      OBVIOUS
    <3> QED BY <2>1, <3>1
  <2>2. CASE m \notin S
    <3>1. \A k \in S : /\ k > m - 1 => k > m
                       /\ k <= m => k <= m - 1
      BY <2>2
    <3> QED BY <1>2, <3>1
  <2> QED BY <2>1, <2>2
<1> HIDE DEF T
<1>3. n \in T
  BY <1>1, <1>2, BoundedInduction
<1> USE DEF T
<1>4. \A k \in S : k <= n /\ ~ (k > n)
  OBVIOUS
<1> QED BY <1>3, <1>4

(* The effort of a log is that of its two parts.                            *)
LEMMA PartsEffort ==
    ASSUME NEW s \in Seq(Events), NEW a \in Seq(Events), NEW b \in Seq(Events),
           Len(s) = Len(a) + Len(b),
           \A k \in 1..Len(a) : s[k] = a[k],
           \A k \in 1..Len(b) : s[Len(a) + k] = b[k]
    PROVE  /\ EffortOf(0, s) = EffortOf(0, a) + EffortOf(0, b)
           /\ EffortOf(0, a) \in Nat /\ EffortOf(0, b) \in Nat
<1>1. s = a \o b
  <2>1. /\ a \o b \in Seq(Events) /\ Len(a \o b) = Len(a) + Len(b)
        /\ \A k \in 1..Len(a) : (a \o b)[k] = a[k]
        /\ \A k \in 1..Len(b) : (a \o b)[Len(a) + k] = b[k]
    BY JoinIs
  <2> DEFINE t == a \o b
  <2> HIDE DEF t
  <2>2. ASSUME NEW k \in 1..Len(s) PROVE s[k] = t[k]
    <3>1. Len(a) \in Nat /\ Len(b) \in Nat /\ k \in Int
      BY EffortsTyped
    <3>2. CASE k \in 1..Len(a)
      BY <2>1, <3>2 DEF t
    <3>3. CASE k - Len(a) \in 1..Len(b)
      <4> DEFINE j == k - Len(a)
      <4>1. k = Len(a) + j /\ j \in 1..Len(b)
        BY <3>1, <3>3
      <4> HIDE DEF j
      <4>2. s[Len(a) + j] = b[j] /\ t[Len(a) + j] = b[j]
        BY <2>1, <4>1 DEF t
      <4> QED BY <4>1, <4>2
    <3> QED BY <3>1, <3>2, <3>3
  <2>3. t \in Seq(Events) /\ Len(t) = Len(s)
    BY <2>1 DEF t
  <2>4. s = t
    BY <2>2, <2>3, SeqEqual
  <2> QED BY <2>4 DEF t
<1> QED BY <1>1, JoinEffort

(* The last event that has an effort: its total is that of the whole log.   *)
LEMMA LastPaid ==
    ASSUME NEW s \in Seq(Events), Once(s), 0 < EffortOf(0, s)
    PROVE  \E p \in 1..Len(s) :
              s[p].effort > 0 /\ EffortOf(0, SubSeq(s, 1, p)) = EffortOf(0, s)
<1> DEFINE paid == {k \in 1..Len(s) : s[k].effort > 0}
<1>1. /\ Len(s) \in Nat
      /\ \A k \in 1..Len(s) : /\ s[k] \in Events /\ s[k].effort \in Nat
                               /\ Worth(s[k]) = s[k].effort
  <2>1. Len(s) \in Nat /\ \A k \in 1..Len(s) : s[k] \in Events
    BY EffortsTyped
  <2>2. \A e \in Events : e.effort \in Nat /\ Worth(e) = e.effort
    BY DEF Events, Worth
  <2> QED BY <2>1, <2>2
(* A part of s that no event pays for is worth nothing.                     *)
<1>2. ASSUME NEW t \in Seq(Events), \A k \in 1..Len(t) : Worth(t[k]) = 0,
             \A j, k \in 1..Len(t) : t[j] = t[k] => j = k
      PROVE  EffortOf(0, t) = 0
  <2>1. Units(t) = {}
    BY <1>2 DEF Units, Paid
  <2>2. EffortOf(0, t) = Cardinality(Units(t))
    BY <1>2, EffortIsCount, EffortsTyped
  <2> QED BY <2>1, <2>2, FS_EmptySet
<1>3. \A j, k \in 1..Len(s) : s[j] = s[k] => j = k
  BY DEF Once
<1>4. paid # {}
  <2>1. ASSUME paid = {} PROVE FALSE
    <3>1. \A k \in 1..Len(s) : Worth(s[k]) = 0
      BY <1>1, <2>1
    <3>2. EffortOf(0, s) = 0
      BY <1>2, <1>3, <3>1
    <3> QED BY <3>2
  <2> QED BY <2>1
<1>5. PICK p \in paid : \A k \in paid : k <= p
  BY <1>1, <1>4, LastOf
<1> DEFINE a == SubSeq(s, 1, p)
           b == SubSeq(s, p + 1, Len(s))
<1>6. /\ a \in Seq(Events) /\ b \in Seq(Events) /\ Len(a) = p /\ Len(b) = Len(s) - p
      /\ \A k \in 1..p : a[k] = s[k]
      /\ \A k \in 1..(Len(s) - p) : b[k] = s[p + k]
  BY <1>1, <1>5
<1> HIDE DEF a, b
<1>7. EffortOf(0, b) = 0
  <2>1. ASSUME NEW k \in 1..Len(b) PROVE Worth(b[k]) = 0
    <3>1. b[k] = s[p + k] /\ p + k \in 1..Len(s) /\ ~ (p + k <= p)
      BY <1>1, <1>5, <1>6
    <3>2. p + k \notin paid
      BY <1>5, <3>1
    <3>3. ~ (s[p + k].effort > 0)
      BY <3>1, <3>2
    <3> QED BY <1>1, <3>1, <3>3
  <2>2. ASSUME NEW j \in 1..Len(b), NEW k \in 1..Len(b), b[j] = b[k] PROVE j = k
    <3>1. p + j \in 1..Len(s) /\ p + k \in 1..Len(s) /\ s[p + j] = s[p + k]
      BY <1>1, <1>5, <1>6, <2>2
    <3>2. p + j = p + k
      BY <1>3, <3>1
    <3> QED BY <1>1, <1>5, <3>2
  <2> QED BY <1>2, <1>6, <2>1, <2>2
<1>8. EffortOf(0, s) = EffortOf(0, a) + EffortOf(0, b) /\ EffortOf(0, a) \in Nat
  <2>1. Len(s) = Len(a) + Len(b)
    BY <1>1, <1>5, <1>6
  <2>2. ASSUME NEW k \in 1..Len(a) PROVE s[k] = a[k]
    BY <1>6
  <2>3. ASSUME NEW k \in 1..Len(b) PROVE s[Len(a) + k] = b[k]
    BY <1>6
  <2> QED BY <1>6, <2>1, <2>2, <2>3, PartsEffort
<1>9. EffortOf(0, a) = EffortOf(0, s)
  BY <1>7, <1>8
<1> QED BY <1>5, <1>9 DEF a

(* The invariants imply the two properties.                                *)
LEMMA PageSays == TypeInv /\ StampInv /\ HistoryInv /\ PageInv => PageExplained /\ PageCountsAgree
<1> SUFFICES ASSUME TypeInv, StampInv, HistoryInv, PageInv PROVE PageExplained /\ PageCountsAgree
  OBVIOUS
<1>1. log \in Seq(Events) /\ DOMAIN log = 1..Len(log) /\ Once(log) /\ Len(log) \in Nat
  BY LogIndices, StampInvOnce, OnceIs, EffortsTyped DEF TypeInv
<1>2. PageCountsAgree
  BY <1>1 DEF PageCountsAgree, PageInv, Answers, Timeline
<1>3. ASSUME Answers
      PROVE  /\ page.row \in [status : RunStatuses, effort : Nat]
             /\ GoodRow(page.row.status, page.row.effort, log) /\ GoodItems(page.items, log)
  BY <1>3 DEF Answers, PageInv, PageStates
<1>4. \A type : Holds(log, type) => Told({type})
  BY <1>1 DEF Holds, Told, Timeline
<1>8. \A status : Says(log, status) => \E p \in DOMAIN Timeline : Timeline[p].status = status
  BY <1>1 DEF Says, Timeline
<1>9. ASSUME NEW i
      PROVE  /\ Done(log, i)   => ToldOf("WorkItemCompleted", i)
             /\ Broken(log, i) => ToldOf("WorkItemFailed", i)
  BY <1>1 DEF Done, Broken, ToldOf, Timeline
<1>5. ASSUME Answers, page.row.effort > 0
      PROVE  \E p \in DOMAIN History : page.row.effort <= History[p]
  <2>1. page.row.effort \in Nat /\ page.row.effort <= EffortOf(0, log) /\ EffortOf(0, log) \in Nat
    BY <1>1, <1>3, <1>5, EffortsTyped DEF GoodRow
  <2>2. 0 < EffortOf(0, log)
    BY <1>5, <2>1
  <2>3. PICK p \in 1..Len(log) :
          log[p].effort > 0 /\ EffortOf(0, SubSeq(log, 1, p)) = EffortOf(0, log)
    BY <1>1, <2>2, LastPaid
  <2>4. p \in DOMAIN History /\ History[p] = EffortOf(0, log)
    BY <1>1, <2>3 DEF History, Timeline, HistoryEffort
  <2> QED BY <2>1, <2>4
<1>6. PageExplained
  <2>1. ASSUME Answers
        PROVE  /\ page.row.status = "completed" => Told({"RunCompleted"})
               /\ page.row.status = "blocked"   => Told({"WorkItemFailed"})
               /\ page.row.status \in {"paused", "cancelled"} =>
                    \E p \in DOMAIN Timeline : Timeline[p].status = page.row.status
    BY <1>3, <1>4, <1>8, <2>1 DEF GoodRow
  <2>2. ASSUME Answers, NEW i \in Items
        PROVE  /\ page.items[i] = "completed" => ToldOf("WorkItemCompleted", i)
               /\ page.items[i] = "failed"    => ToldOf("WorkItemFailed", i)
    <3>1. GoodItems(page.items, log)
      BY <1>3, <2>2
    <3>2. /\ page.items[i] = "completed" => Done(log, i)
          /\ page.items[i] = "failed"    => Broken(log, i)
      BY <3>1 DEF GoodItems
    <3> QED BY <1>9, <3>2
  <2> QED BY <1>5, <2>1, <2>2 DEF PageExplained
<1> QED BY <1>2, <1>6

(* The two properties hold in every reachable state.                       *)
LEMMA PageHolds == PageSpec => [](PageExplained /\ PageCountsAgree)
<1>1. PageInit => TypeInv /\ StampInv /\ HistoryInv /\ PageInv
  BY TypeInit, StampInit, HistoryInit, PageInitInv DEF PageInit
<1> QED BY <1>1, PageStep, PageSays, PTL DEF PageSpec

(* Whatever was written between the queries, the status, the effort and the *)
(* items on the page are those of events in its timeline: each row was      *)
(* behind the log when it was read, and the timeline is read last.          *)
THEOREM PageIsExplained == PageSpec => []PageExplained
  BY PageHolds, PTL

(* The number of events, the latest revision and the timeline are of logs   *)
(* that only grew from query to query, and the latest event is where the    *)
(* timeline has it; a run that has a row has events.                        *)
THEOREM PageCountsDoAgree == PageSpec => []PageCountsAgree
  BY PageHolds, PTL
=============================================================================
