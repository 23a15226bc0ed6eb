-------------------------- MODULE EventStoreProofs --------------------------
(***************************************************************************)
(* Proofs about EventStore, for any runs, writers, lock keys, hashtext     *)
(* function, numbers of attempts, calls and events.                        *)
(***************************************************************************)
EXTENDS EventStore, TLAPS

(* COALESCE(MAX(revision), 0) of the revisions 1..n is n.                   *)
LEMMA MaxOfInterval ==
    ASSUME NEW n \in Nat
    PROVE  MaxOrZero(1..n) = n
<1>1. n \in (1..n) \cup {0}
  OBVIOUS
<1>2. \A r \in 1..n : r <= n
  OBVIOUS
<1>3. ASSUME NEW m \in (1..n) \cup {0}, \A r \in 1..n : r <= m
      PROVE  m = n
  BY <1>3
<1> QED
  BY <1>1, <1>2, <1>3 DEF MaxOrZero

(* An element of a sequence is in its range set.                            *)
LEMMA SeqElement ==
    ASSUME NEW S, NEW s \in Seq(S), NEW i \in 1..Len(s)
    PROVE  s[i] \in S
  OBVIOUS

(* While the table does not change, nor what the queries return.            *)
LEMMA LogUnchanged ==
    ASSUME UNCHANGED event_log
    PROVE  /\ \A a : Revisions(a)' = Revisions(a)
           /\ \A a : LatestRevision(a)' = LatestRevision(a)
           /\ \A id : Stored(id)' <=> Stored(id)
  BY DEF Revisions, RowsOf, LatestRevision, Stored

-----------------------------------------------------------------------------
(* A last revision is a number: with RevisionsDense this says that the      *)
(* CHOOSE of LatestRevision has a value.                                    *)
LastIsNat == \A a \in Aggregates : LatestRevision(a) \in Nat

(* append returns before it begins a transaction when there is no event.    *)
TxNotEmpty ==
    \A w \in Writers : pc[w] \in {"lock", "select", "insert", "commit"} => Size(w) > 0

(* The inductive invariant.  RevisionsDense needs TransactionOwnsTail,      *)
(* which needs LockExclusive to survive the commit of another transaction.  *)
IInv ==
    /\ TypeOK
    /\ LastIsNat
    /\ TxNotEmpty
    /\ LockExclusive
    /\ TransactionOwnsTail
    /\ RevisionsDense

(* The empty table satisfies the inductive invariant.                       *)
LEMMA InitIInv == Init => IInv
<1> SUFFICES ASSUME Init PROVE IInv
  OBVIOUS
<1> USE DEF Init
<1>1. TypeOK
  BY AttemptsAssumption, BoundsAssumption DEF TypeOK, Pcs, wvars
<1>2. \A a : Revisions(a) = 1..0
  BY DEF Revisions, RowsOf
<1>3. \A a : LatestRevision(a) = 0
  BY <1>2, MaxOfInterval DEF LatestRevision
<1>4. LastIsNat /\ RevisionsDense
  <2>1. LastIsNat
    BY <1>3 DEF LastIsNat
  <2>2. \A a \in Aggregates : Revisions(a) = 1..LatestRevision(a)
    BY <1>2, <1>3
  <2>3. \A q, r \in event_log : q = r
    OBVIOUS
  <2> QED BY <2>1, <2>2, <2>3 DEF RevisionsDense
<1>5. LockExclusive
  BY DEF LockExclusive, HoldsLock
<1>6. TransactionOwnsTail
  BY DEF TransactionOwnsTail, LiveTail, OrphanTail
<1>7. TxNotEmpty
  BY DEF TxNotEmpty
<1> QED
  BY <1>1, <1>4, <1>5, <1>6, <1>7 DEF IInv

(* The step the whole invariant turns on: a batch whose first revision      *)
(* follows the last one of its run, and whose events are new, keeps the     *)
(* revisions of the run dense, and leaves the other runs alone.             *)
LEMMA CommitExtendsTail ==
    ASSUME TypeOK, LastIsNat, RevisionsDense,
           NEW b \in Nat, NEW A \in Aggregates, NEW n \in Nat, NEW from \in Nat,
           A = calls[b].agg, n = calls[b].size, from = LatestRevision(A),
           event_log' = event_log \cup BatchRows(b, from)
    PROVE  /\ event_log' \in SUBSET Rows
           /\ LatestRevision(A)' = from + n
           /\ \A a \in Aggregates : a # A =>
                /\ Revisions(a)' = Revisions(a)
                /\ LatestRevision(a)' = LatestRevision(a)
           /\ RevisionsDense' /\ LastIsNat'
           /\ \A id : Stored(id)' => Stored(id) \/ \E i \in 1..n : id = <<b, i>>
           /\ \A i \in 1..n : Stored(<<b, i>>)'
<1> DEFINE new == BatchRows(b, from)
<1>2. \A row : row \in new <=>
        \E i \in 1..n : row = [agg |-> A, rev |-> from + i, id |-> <<b, i>>]
  BY DEF BatchRows
<1> HIDE DEF new
<1>3. new \subseteq Rows
  BY <1>2 DEF Rows
<1>4. event_log' \in SUBSET Rows
  BY <1>3 DEF TypeOK, new
<1>5. Revisions(A) = 1..from
  BY DEF RevisionsDense
<1>6. \A r : r \in Revisions(A)' <=> r \in Revisions(A) \/ \E i \in 1..n : r = from + i
  <2>1. \A row : row \in event_log' <=> row \in event_log \/ row \in new
    BY DEF new
  <2>2. ASSUME NEW row \in new
        PROVE  row.agg = A /\ \E i \in 1..n : row.rev = from + i
    BY <2>2, <1>2
  <2>3. ASSUME NEW i \in 1..n
        PROVE  \E row \in new : row.agg = A /\ row.rev = from + i
    <3>1. [agg |-> A, rev |-> from + i, id |-> <<b, i>>] \in new
      BY <1>2
    <3> QED BY <3>1
  <2>4. \A r : r \in Revisions(A)' <=> \E row \in event_log' : row.agg = A /\ row.rev = r
    BY DEF Revisions, RowsOf
  <2>5. \A r : r \in Revisions(A) <=> \E row \in event_log : row.agg = A /\ row.rev = r
    BY DEF Revisions, RowsOf
  <2> QED BY <2>1, <2>2, <2>3, <2>4, <2>5
<1>7. Revisions(A)' = 1..(from + n)
  <2>1. ASSUME NEW r \in 1..(from + n) PROVE r \in 1..from \/ \E i \in 1..n : r = from + i
    <3>1. CASE r <= from
      BY <3>1
    <3>2. CASE r > from
      <4>1. r - from \in 1..n /\ r = from + (r - from)
        BY <3>2
      <4> QED BY <4>1
    <3> QED BY <3>1, <3>2
  <2>2. \A i \in 1..n : from + i \in 1..(from + n)
    OBVIOUS
  <2>3. \A r \in 1..from : r \in 1..(from + n)
    OBVIOUS
  <2>4. \A r : r \in Revisions(A)' <=> r \in 1..(from + n)
    BY <1>5, <1>6, <2>1, <2>2, <2>3
  <2> QED BY <2>4
<1>8. LatestRevision(A)' = from + n
  <2>1. from + n \in Nat
    OBVIOUS
  <2> QED BY <1>7, <2>1, MaxOfInterval DEF LatestRevision
<1>9. ASSUME NEW a \in Aggregates, a # A
      PROVE  Revisions(a)' = Revisions(a) /\ LatestRevision(a)' = LatestRevision(a)
  <2>1. RowsOf(a)' = RowsOf(a)
    BY <1>2, <1>9 DEF RowsOf, new
  <2> QED BY <2>1 DEF Revisions, LatestRevision
<1>10. LastIsNat'
  <2>1. ASSUME NEW a \in Aggregates PROVE LatestRevision(a)' \in Nat
    <3>1. CASE a = A
      BY <3>1, <1>8
    <3>2. CASE a # A
      BY <3>2, <1>9 DEF LastIsNat
    <3> QED BY <3>1, <3>2
  <2> QED BY <2>1 DEF LastIsNat
<1>11. ASSUME NEW a \in Aggregates PROVE Revisions(a)' = 1..LatestRevision(a)'
  <2>1. CASE a = A
    BY <2>1, <1>7, <1>8
  <2>2. CASE a # A
    BY <2>2, <1>9 DEF RevisionsDense
  <2> QED BY <2>1, <2>2
<1>12. ASSUME NEW q \in event_log', NEW r \in event_log', q.agg = r.agg, q.rev = r.rev
       PROVE  q = r
  <2>1. ASSUME NEW s \in event_log, s.agg = A PROVE s.rev \in 1..from
    BY <2>1, <1>5 DEF Revisions, RowsOf
  <2>2. ASSUME NEW s \in new PROVE s.agg = A /\ s.rev > from
    BY <2>2, <1>2
  <2>3. CASE q \in event_log /\ r \in event_log
    BY <2>3, <1>12 DEF RevisionsDense
  <2>4. CASE q \in new /\ r \in new
    <3>1. PICK i \in 1..n : q = [agg |-> A, rev |-> from + i, id |-> <<b, i>>]
      BY <2>4, <1>2
    <3>2. PICK j \in 1..n : r = [agg |-> A, rev |-> from + j, id |-> <<b, j>>]
      BY <2>4, <1>2
    <3>3. i = j
      BY <3>1, <3>2, <1>12
    <3> QED BY <3>1, <3>2, <3>3
  <2>5. CASE q \in event_log /\ r \in new
    <3>1. q.rev \in 1..from /\ r.rev > from
      BY <2>1, <2>2, <2>5, <1>12
    <3> QED BY <3>1, <1>12
  <2>6. CASE q \in new /\ r \in event_log
    <3>1. r.rev \in 1..from /\ q.rev > from
      BY <2>1, <2>2, <2>6, <1>12
    <3> QED BY <3>1, <1>12
  <2> QED BY <2>3, <2>4, <2>5, <2>6 DEF new
<1>13. RevisionsDense'
  BY <1>11, <1>12 DEF RevisionsDense
<1>14. \A id : Stored(id)' => Stored(id) \/ \E i \in 1..n : id = <<b, i>>
  BY <1>2 DEF Stored, new
<1>15. \A i \in 1..n : Stored(<<b, i>>)'
  <2> SUFFICES ASSUME NEW i \in 1..n PROVE Stored(<<b, i>>)'
    OBVIOUS
  <2> DEFINE row == [agg |-> A, rev |-> from + i, id |-> <<b, i>>]
  <2>1. row \in event_log' /\ row.id = <<b, i>>
    BY <1>2 DEF new
  <2> QED BY <2>1 DEF Stored
<1> QED
  BY <1>4, <1>8, <1>9, <1>10, <1>13, <1>14, <1>15

-----------------------------------------------------------------------------
(* Type correctness, one step per action.                                   *)

(* The call a writer is at work on, and the call of an orphan, exist.       *)
LEMMA CallFields ==
    ASSUME TypeOK, NEW b \in 1..Len(calls)
    PROVE  /\ b \in Nat \ {0} /\ b \in 1..MaxCalls
           /\ calls[b].agg \in Aggregates
           /\ calls[b].size \in Nat
<1>1. calls \in Seq([agg : Aggregates, size : 0..MaxBatch])
  BY DEF TypeOK
<1>2. calls[b] \in [agg : Aggregates, size : 0..MaxBatch]
  BY <1>1, SeqElement, Zenon
<1>3. calls[b].agg \in Aggregates /\ calls[b].size \in 0..MaxBatch
  BY <1>2
<1>4. Len(calls) \in Nat /\ Len(calls) <= MaxCalls
  BY <1>1 DEF TypeOK
<1> QED
  BY <1>3, <1>4, BoundsAssumption

(* The call of a writer at work: its aggregate and its size have their types.*)
LEMMA CurrentCall ==
    ASSUME TypeOK, NEW w \in Writers, pc[w] # "idle"
    PROVE  /\ cur[w] \in 1..Len(calls)
           /\ Agg(w) \in Aggregates
           /\ Size(w) \in Nat
<1>1. cur[w] \in 1..Len(calls)
  BY DEF TypeOK
<1> QED
  BY <1>1, CallFields DEF Agg, Size

(* The rows of a batch are rows of the table.                               *)
LEMMA BatchRowsType ==
    ASSUME TypeOK, NEW b \in 1..Len(calls), NEW from \in Nat
    PROVE  BatchRows(b, from) \in SUBSET Rows
<1>1. calls[b].agg \in Aggregates /\ calls[b].size \in Nat /\ b \in Nat
  BY CallFields
<1>2. ASSUME NEW i \in 1..calls[b].size
      PROVE  [agg |-> calls[b].agg, rev |-> from + i, id |-> <<b, i>>] \in Rows
  <2>1. from + i \in Nat /\ <<b, i>> \in Nat \X Nat
    BY <1>1
  <2> QED BY <1>1, <2>1 DEF Rows
<1> QED
  BY <1>2 DEF BatchRows

(* Every step keeps the types, by the shape of its assignments.             *)
LEMMA TypeStep ==
    ASSUME TypeOK, LastIsNat, [Next]_vars
    PROVE  TypeOK'
<1> USE DEF Goto, Return, Pcs
<1>1. ASSUME NEW w \in Writers, NEW a \in Aggregates, NEW n \in 0..MaxBatch,
             StartCall(w, a, n)
      PROVE  TypeOK'
  <2>1. [agg |-> a, size |-> n] \in [agg : Aggregates, size : 0..MaxBatch]
    OBVIOUS
  <2>2. /\ calls' \in Seq([agg : Aggregates, size : 0..MaxBatch])
        /\ Len(calls') = Len(calls) + 1
        /\ Len(calls) \in Nat
    BY <1>1, <2>1 DEF TypeOK, StartCall
  <2>3. Len(calls') <= MaxCalls
    BY <1>1, <2>2, BoundsAssumption DEF StartCall
  <2>4. cur' \in [Writers -> 0..Len(calls')]
    BY <1>1, <2>2 DEF TypeOK, StartCall
  <2>5. /\ pc' \in [Writers -> Pcs]
        /\ attempt' \in [Writers -> Nat]
        /\ \A v \in Writers : pc'[v] # "idle" => cur'[v] # 0
    BY <1>1, <2>2 DEF TypeOK, StartCall
  <2>6. \A o \in orphans' : o.call \in 1..Len(calls')
    BY <1>1, <2>2 DEF TypeOK, StartCall
  <2> QED
    BY <1>1, <2>2, <2>3, <2>4, <2>5, <2>6 DEF TypeOK, StartCall
<1>2. ASSUME NEW w \in Writers, ReadRevision(w)
      PROVE  TypeOK'
  <2>1. LatestRevision(Agg(w)) \in Nat
    BY <1>2, CurrentCall DEF ReadRevision, LastIsNat
  <2> QED
    BY <1>2, <2>1 DEF TypeOK, ReadRevision
<1>3. ASSUME NEW w \in Writers, pc[w] # "idle",
             outcome' \in {outcome} \cup
                {[outcome EXCEPT ![cur[w]] = x] : x \in {"ok", "err", "lost"}}
      PROVE  outcome' \in [1..MaxCalls -> {"open", "ok", "err", "lost"}]
  BY <1>3 DEF TypeOK
<1>4. ASSUME NEW w \in Writers, ReadFails(w)
      PROVE  TypeOK'
  <2>1. outcome' \in [1..MaxCalls -> {"open", "ok", "err", "lost"}]
    BY <1>4, <1>3 DEF ReadFails
  <2>2. attempt' \in [Writers -> Nat]
    <3>1. attempt' = [attempt EXCEPT ![w] = @ + 1]
      BY <1>4 DEF ReadFails
    <3> QED BY <3>1 DEF TypeOK
  <2>4. pc' \in [Writers -> Pcs]
    <3>1. pc' = pc \/ pc' = [pc EXCEPT ![w] = "idle"]
      BY <1>4, Zenon DEF ReadFails
    <3> QED BY <3>1 DEF TypeOK
  <2>3. \A v \in Writers : pc'[v] # "idle" => cur'[v] # 0
    BY <1>4 DEF TypeOK, ReadFails
  <2> QED
    BY <1>4, <2>1, <2>2, <2>3, <2>4 DEF TypeOK, ReadFails
<1>5. ASSUME NEW w \in Writers, AppendNothing(w)
      PROVE  TypeOK'
  BY <1>5, <1>3 DEF TypeOK, AppendNothing
<1>6. ASSUME NEW w \in Writers, BeginTx(w)
      PROVE  TypeOK'
  BY <1>6 DEF TypeOK, BeginTx
<1>7. ASSUME NEW w \in Writers, TakeLock(w)
      PROVE  TypeOK'
  BY <1>7 DEF TypeOK, TakeLock
<1>8. ASSUME NEW w \in Writers, SelectLatest(w)
      PROVE  TypeOK'
  <2>1. LatestRevision(Agg(w)) \in Nat
    BY <1>8, CurrentCall DEF SelectLatest, LastIsNat
  <2> QED
    BY <1>8, <2>1 DEF TypeOK, SelectLatest
<1>9. ASSUME NEW w \in Writers, InsertRow(w)
      PROVE  TypeOK'
  BY <1>9 DEF TypeOK, InsertRow
<1>10. ASSUME NEW w \in Writers, SendCommit(w)
       PROVE  TypeOK'
  BY <1>10 DEF TypeOK, SendCommit
<1>11. ASSUME NEW w \in Writers, ServerCommits(w)
       PROVE  TypeOK'
  <2>1. cur[w] \in 1..Len(calls) /\ base[w] \in Nat
    BY <1>11, CurrentCall DEF ServerCommits, TypeOK
  <2>2. BatchRows(cur[w], base[w]) \in SUBSET Rows
    BY <2>1, BatchRowsType
  <2> QED
    BY <1>11, <2>2 DEF TypeOK, ServerCommits
<1>12. ASSUME NEW w \in Writers, CommitAcknowledged(w)
       PROVE  TypeOK'
  BY <1>12, <1>3 DEF TypeOK, CommitAcknowledged
<1>13. ASSUME NEW w \in Writers, pc[w] # "idle", LeaveTransaction(w)
       PROVE  /\ orphans' \in SUBSET Orphan
              /\ \A o \in orphans' : o.call \in 1..Len(calls)
  <2>1. cur[w] \in 1..Len(calls) /\ base[w] \in Nat /\ cur[w] \in Nat \ {0}
    BY <1>13, CurrentCall, CallFields DEF TypeOK
  <2>2. [call |-> cur[w], from |-> base[w], commit |-> pc[w] = "commit"] \in Orphan
    BY <2>1 DEF Orphan
  <2> QED
    BY <1>13, <2>1, <2>2 DEF TypeOK, LeaveTransaction
<1>14. ASSUME NEW w \in Writers, pc[w] # "idle", AppendFails(w)
       PROVE  TypeOK'
  BY <1>14, <1>3, <1>13 DEF TypeOK, AppendFails
<1>15. ASSUME NEW w \in Writers, RevisionConflict(w) \/ DuplicateId(w) \/ ConnectionLost(w)
       PROVE  TypeOK'
  BY <1>14, <1>15 DEF RevisionConflict, DuplicateId, ConnectionLost
<1>16. ASSUME NEW w \in Writers, Crash(w)
       PROVE  TypeOK'
  BY <1>16, <1>3, <1>13 DEF TypeOK, Crash
<1>17. ASSUME NEW o \in orphans, EndOrphan(o)
       PROVE  TypeOK'
  <2>1. o.call \in 1..Len(calls) /\ o.from \in Nat
    BY DEF TypeOK, Orphan
  <2>2. BatchRows(o.call, o.from) \in SUBSET Rows
    BY <2>1, BatchRowsType
  <2> QED
    BY <1>17, <2>2 DEF TypeOK, EndOrphan, wvars
<1>18. CASE UNCHANGED vars
  BY <1>18 DEF TypeOK, vars, wvars
<1>19. ASSUME NEW w \in Writers, Work(w)
       PROVE  TypeOK'
  BY <1>2, <1>5, <1>6, <1>7, <1>8, <1>9, <1>10, <1>11, <1>12, <1>15, <1>19, Zenon
  DEF Work
<1>20. ASSUME NEW w \in Writers, Trouble(w)
       PROVE  TypeOK'
  BY <1>4, <1>15, <1>16, <1>20, Zenon DEF Trouble
<1> QED
  BY <1>1, <1>17, <1>18, <1>19, <1>20, Zenon DEF Next

(* A writer at work on the same call, with the calls as they were, has the  *)
(* same run and the same batch.                                             *)
LEMMA TxNotEmptyStep ==
    ASSUME TypeOK, TxNotEmpty, [Next]_vars
    PROVE  TxNotEmpty'
<1> USE DEF Goto, Return, TxNotEmpty
<1>1. ASSUME NEW w \in Writers, UNCHANGED <<calls, cur>>,
             \A v \in Writers : v # w => pc'[v] = pc[v],
             pc'[w] \in {"lock", "select", "insert", "commit"} => Size(w) > 0
      PROVE  TxNotEmpty'
  BY <1>1 DEF Size
<1>2. ASSUME NEW w \in Writers, NEW a \in Aggregates, NEW n \in 0..MaxBatch,
             StartCall(w, a, n)
      PROVE  TxNotEmpty'
  <2>1. /\ \A b \in 1..Len(calls) : calls'[b] = calls[b]
        /\ pc'[w] = "load"
        /\ \A v \in Writers : v # w => cur'[v] = cur[v] /\ pc'[v] = pc[v]
    BY <1>2 DEF TypeOK, StartCall
  <2>2. ASSUME NEW v \in Writers, pc'[v] \in {"lock", "select", "insert", "commit"}
        PROVE  Size(v)' > 0
    <3>1. v # w /\ pc[v] # "idle"
      BY <2>1, <2>2
    <3>2. cur[v] \in 1..Len(calls)
      BY <3>1, CurrentCall
    <3> QED BY <2>1, <2>2, <3>1, <3>2 DEF Size
  <2> QED BY <2>2
<1>3. ASSUME NEW w \in Writers, Work(w)
      PROVE  TxNotEmpty'
  <2>1. /\ UNCHANGED <<calls, cur>>
        /\ \A v \in Writers : v # w => pc'[v] = pc[v]
    BY <1>3
    DEF TypeOK, Work, ReadRevision, AppendNothing, BeginTx, TakeLock, SelectLatest,
        InsertRow, SendCommit, ServerCommits, CommitAcknowledged, RevisionConflict,
        DuplicateId, AppendFails
  <2>2. pc'[w] \in {"lock", "select", "insert", "commit"} => Size(w) > 0
    BY <1>3
    DEF TypeOK, Work, ReadRevision, AppendNothing, BeginTx, TakeLock, SelectLatest,
        InsertRow, SendCommit, ServerCommits, CommitAcknowledged, RevisionConflict,
        DuplicateId, AppendFails
  <2> QED BY <1>1, <2>1, <2>2
<1>4. ASSUME NEW w \in Writers, Trouble(w)
      PROVE  TxNotEmpty'
  <2>1. /\ UNCHANGED <<calls, cur>>
        /\ \A v \in Writers : v # w => pc'[v] = pc[v]
        /\ pc'[w] \in {"load", "idle"}
    BY <1>4 DEF TypeOK, Trouble, ReadFails, ConnectionLost, Crash, AppendFails
  <2> QED BY <1>1, <2>1
<1>5. ASSUME NEW o \in orphans, EndOrphan(o)
      PROVE  TxNotEmpty'
  BY <1>5 DEF EndOrphan, wvars, Size
<1>6. CASE UNCHANGED vars
  BY <1>6 DEF vars, wvars, Size
<1> QED
  BY <1>2, <1>3, <1>4, <1>5, <1>6 DEF Next

-----------------------------------------------------------------------------
(* A step of one writer that touches neither the table nor the orphans: the *)
(* invariant is kept if the writer knows the tail it claims to know, and    *)
(* takes a lock only when its key is free.                                  *)
LEMMA LocalStep ==
    ASSUME IInv, TypeOK', TxNotEmpty', NEW w \in Writers,
           UNCHANGED <<event_log, orphans, calls, cur>>,
           \A v \in Writers : v # w =>
                /\ pc'[v] = pc[v] /\ base'[v] = base[v]
                /\ latest'[v] = latest[v] /\ done'[v] = done[v],
           HoldsLock(w)' => HoldsLock(w) \/ KeyFree(KeyOf(w)),
           LiveTail(w)'
    PROVE  IInv'
<1>1. /\ \A a : Revisions(a)' = Revisions(a)
      /\ \A a : LatestRevision(a)' = LatestRevision(a)
      /\ \A id : Stored(id)' <=> Stored(id)
  BY LogUnchanged
<1>2. LastIsNat' /\ RevisionsDense'
  BY <1>1 DEF IInv, LastIsNat, RevisionsDense
<1>3. /\ \A v \in Writers : KeyOf(v)' = KeyOf(v)
      /\ \A o : OrphanKey(o)' = OrphanKey(o)
      /\ \A v \in Writers : v # w => (HoldsLock(v)' <=> HoldsLock(v))
  BY DEF KeyOf, OrphanKey, Agg, HoldsLock
<1>4. LockExclusive'
  BY <1>3 DEF IInv, LockExclusive, KeyFree
<1>5. ASSUME NEW v \in Writers PROVE LiveTail(v)'
  <2>1. CASE v = w
    BY <2>1
  <2>2. CASE v # w
    BY <1>1, <2>2 DEF IInv, TransactionOwnsTail, LiveTail, Agg, Size
  <2> QED BY <2>1, <2>2
<1>6. ASSUME NEW o \in orphans' PROVE OrphanTail(o)'
  BY <1>1 DEF IInv, TransactionOwnsTail, OrphanTail
<1> QED
  BY <1>2, <1>4, <1>5, <1>6 DEF IInv, TransactionOwnsTail

(* A writer that gives up a transaction: what it claimed to know passes to  *)
(* the orphan, and so does the lock.                                        *)
LEMMA LeaveStep ==
    ASSUME IInv, TypeOK', TxNotEmpty', NEW w \in Writers, pc[w] # "idle",
           UNCHANGED <<event_log, calls, cur, base, latest, done>>,
           LeaveTransaction(w),
           \A v \in Writers : v # w => pc'[v] = pc[v],
           pc'[w] \in {"idle", "load"}
    PROVE  IInv'
<1> DEFINE left == [call |-> cur[w], from |-> base[w], commit |-> pc[w] = "commit"]
<1>1. /\ \A a : Revisions(a)' = Revisions(a)
      /\ \A a : LatestRevision(a)' = LatestRevision(a)
      /\ \A id : Stored(id)' <=> Stored(id)
  BY LogUnchanged
<1>2. LastIsNat' /\ RevisionsDense'
  BY <1>1 DEF IInv, LastIsNat, RevisionsDense
<1>3. /\ \A v \in Writers : KeyOf(v)' = KeyOf(v)
      /\ \A o : OrphanKey(o)' = OrphanKey(o)
      /\ \A v \in Writers : HoldsLock(v)' <=> HoldsLock(v) /\ v # w
  BY DEF KeyOf, OrphanKey, Agg, HoldsLock
<1>4. \A o \in orphans' : o \in orphans \/ (HoldsLock(w) /\ o = left)
  BY DEF LeaveTransaction
<1>5. OrphanKey(left) = KeyOf(w)
  BY DEF OrphanKey, KeyOf, Agg
<1>6. LockExclusive'
  BY <1>3, <1>4, <1>5 DEF IInv, LockExclusive
<1>7. ASSUME NEW v \in Writers PROVE LiveTail(v)'
  BY <1>1 DEF IInv, TransactionOwnsTail, LiveTail, Agg, Size
<1>8. ASSUME NEW o \in orphans' PROVE OrphanTail(o)'
  <2>1. CASE o \in orphans
    BY <1>1, <2>1 DEF IInv, TransactionOwnsTail, OrphanTail
  <2>2. CASE o = left /\ pc[w] = "commit"
    <3>1. LiveTail(w)
      BY DEF IInv, TransactionOwnsTail
    <3>2. o.call = cur[w] /\ o.from = base[w]
      BY <2>2
    <3> QED BY <1>1, <2>2, <3>1, <3>2 DEF LiveTail, OrphanTail, Agg, Size
  <2>3. CASE o = left /\ pc[w] # "commit"
    BY <2>3 DEF OrphanTail
  <2> QED BY <1>4, <2>1, <2>2, <2>3
<1> QED
  BY <1>2, <1>6, <1>7, <1>8 DEF IInv, TransactionOwnsTail

(* The commit of call b while nobody else holds its key: no other           *)
(* transaction is at the tail of its run, so none is overtaken.             *)
LEMMA CommitStep ==
    ASSUME IInv, TypeOK', TxNotEmpty', NEW b \in 1..Len(calls), NEW from \in Nat,
           NEW A \in Aggregates, NEW n \in Nat,
           A = calls[b].agg, n = calls[b].size, from = LatestRevision(A),
           UNCHANGED <<calls, cur, base, latest, done>>,
           event_log' = event_log \cup BatchRows(b, from),
           orphans' \subseteq orphans,
           \A v \in Writers : HoldsLock(v)' => pc'[v] = pc[v] /\ KeyOf(v) # HashText[A],
           \A o \in orphans' : OrphanKey(o) # HashText[A]
    PROVE  IInv'
<1>1. b \in Nat
  BY CallFields DEF IInv
<1>2. /\ \A a \in Aggregates : a # A => LatestRevision(a)' = LatestRevision(a)
      /\ RevisionsDense' /\ LastIsNat'
      /\ \A id : Stored(id)' => Stored(id) \/ \E i \in 1..n : id = <<b, i>>
  BY <1>1, CommitExtendsTail DEF IInv
<1>3. ASSUME NEW c \in 1..Len(calls), HashText[calls[c].agg] # HashText[A]
      PROVE  /\ LatestRevision(calls[c].agg)' = LatestRevision(calls[c].agg)
             /\ \A i : Stored(<<c, i>>)' => Stored(<<c, i>>)
  <2>1. calls[c].agg \in Aggregates /\ calls[c].agg # A /\ c # b
    BY <1>3, CallFields DEF IInv
  <2>2. PICK a \in Aggregates : a = calls[c].agg
    BY <2>1
  <2>3. LatestRevision(a)' = LatestRevision(a)
    BY <1>2, <2>1, <2>2
  <2>4. calls'[c].agg = a
    BY <2>2
  <2>5. LatestRevision(calls[c].agg)' = LatestRevision(a)'
    BY <2>4
  <2> QED BY <1>2, <2>1, <2>2, <2>3, <2>5
<1>4. LockExclusive'
  BY DEF IInv, LockExclusive, KeyOf, Agg, OrphanKey, HoldsLock
<1>5. ASSUME NEW v \in Writers PROVE LiveTail(v)'
  <2>1. CASE HoldsLock(v)'
    <3>1. pc[v] # "idle" /\ pc'[v] = pc[v]
      BY <2>1 DEF HoldsLock
    <3>2. cur[v] \in 1..Len(calls) /\ HashText[calls[cur[v]].agg] # HashText[A]
      BY <2>1, <3>1, CurrentCall DEF IInv, KeyOf, Agg
    <3>3. LiveTail(v)
      BY DEF IInv, TransactionOwnsTail
    <3>4. /\ LatestRevision(Agg(v))' = LatestRevision(Agg(v))
          /\ \A i : Stored(<<cur[v], i>>)' => Stored(<<cur[v], i>>)
      BY <1>3, <3>2 DEF Agg
    <3> QED BY <3>1, <3>3, <3>4 DEF LiveTail, Size
  <2>2. CASE ~ HoldsLock(v)'
    BY <2>2 DEF HoldsLock, LiveTail
  <2> QED BY <2>1, <2>2
<1>6. ASSUME NEW o \in orphans' PROVE OrphanTail(o)'
  <2>1. o \in orphans /\ OrphanTail(o)
    BY DEF IInv, TransactionOwnsTail
  <2>2. o.call \in 1..Len(calls) /\ HashText[calls[o.call].agg] # HashText[A]
    BY <2>1 DEF IInv, TypeOK, OrphanKey
  <2> QED BY <1>3, <2>1, <2>2 DEF OrphanTail
<1> QED
  BY <1>2, <1>4, <1>5, <1>6 DEF IInv, TransactionOwnsTail

-----------------------------------------------------------------------------
(* The invariant is inductive: one step per action of Next.                 *)
LEMMA NextIInv ==
    ASSUME IInv, [Next]_vars
    PROVE  IInv'
<1> USE DEF Goto, Return
<1>1. TypeOK /\ LastIsNat /\ TypeOK' /\ TxNotEmpty'
  BY TypeStep, TxNotEmptyStep DEF IInv
<1>2. ASSUME NEW w \in Writers, NEW a \in Aggregates, NEW n \in 0..MaxBatch,
             StartCall(w, a, n)
      PROVE  IInv'
  <2>1. /\ Len(calls) \in Nat
        /\ \A b \in 1..Len(calls) : calls'[b] = calls[b]
    BY <1>1, <1>2 DEF TypeOK, StartCall
  <2>2. /\ \A c : Revisions(c)' = Revisions(c)
        /\ \A c : LatestRevision(c)' = LatestRevision(c)
        /\ \A id : Stored(id)' <=> Stored(id)
    BY <1>2, LogUnchanged DEF StartCall
  <2>3. LastIsNat' /\ RevisionsDense'
    BY <1>2, <2>2 DEF IInv, LastIsNat, RevisionsDense, StartCall
  <2>4. /\ ~ HoldsLock(w)'
        /\ \A v \in Writers : v # w => cur'[v] = cur[v] /\ pc'[v] = pc[v]
    BY <1>1, <1>2 DEF TypeOK, StartCall, HoldsLock
  <2>5. ASSUME NEW v \in Writers, HoldsLock(v)'
        PROVE  /\ v # w /\ HoldsLock(v)
               /\ cur'[v] = cur[v] /\ pc'[v] = pc[v]
               /\ calls'[cur[v]] = calls[cur[v]]
    <3>1. v # w /\ HoldsLock(v) /\ pc[v] # "idle"
      BY <2>4, <2>5 DEF HoldsLock
    <3>2. cur[v] \in 1..Len(calls)
      BY <1>1, <3>1, CurrentCall
    <3> QED BY <2>1, <2>4, <3>1, <3>2
  <2>6. \A o \in orphans' : o \in orphans /\ calls'[o.call] = calls[o.call]
    BY <1>1, <1>2, <2>1 DEF TypeOK, StartCall
  <2>7. LockExclusive'
    BY <2>5, <2>6 DEF IInv, LockExclusive, KeyOf, OrphanKey, Agg
  <2>8. ASSUME NEW v \in Writers PROVE LiveTail(v)'
    <3>1. CASE HoldsLock(v)'
      <4>1. LiveTail(v) /\ Agg(v)' = Agg(v) /\ Size(v)' = Size(v)
        BY <2>5, <3>1 DEF IInv, TransactionOwnsTail, Agg, Size
      <4>2. /\ pc'[v] = pc[v] /\ cur'[v] = cur[v]
            /\ UNCHANGED <<base, latest, done>>
        BY <1>2, <2>5, <3>1 DEF StartCall
      <4> QED BY <2>2, <4>1, <4>2 DEF LiveTail
    <3>2. CASE ~ HoldsLock(v)'
      BY <3>2 DEF HoldsLock, LiveTail
    <3> QED BY <3>1, <3>2
  <2>9. ASSUME NEW o \in orphans' PROVE OrphanTail(o)'
    BY <2>2, <2>6 DEF IInv, TransactionOwnsTail, OrphanTail
  <2> QED BY <1>1, <2>3, <2>7, <2>8, <2>9 DEF IInv, TransactionOwnsTail
<1>3. ASSUME NEW w \in Writers,
             ReadRevision(w) \/ ReadFails(w) \/ AppendNothing(w) \/ BeginTx(w)
               \/ CommitAcknowledged(w)
      PROVE  IInv'
  <2>1. pc'[w] \in {"idle", "load", "begin", "lock"}
    BY <1>1, <1>3
    DEF TypeOK, ReadRevision, ReadFails, AppendNothing, BeginTx, CommitAcknowledged
  <2>2. /\ UNCHANGED <<event_log, orphans, calls, cur, latest, done>>
        /\ \A v \in Writers : v # w => pc'[v] = pc[v] /\ base'[v] = base[v]
    BY <1>1, <1>3
    DEF TypeOK, ReadRevision, ReadFails, AppendNothing, BeginTx, CommitAcknowledged
  <2>3. LiveTail(w)' /\ ~ HoldsLock(w)'
    BY <2>1 DEF LiveTail, HoldsLock
  <2> QED BY <1>1, <2>2, <2>3, LocalStep
<1>4. ASSUME NEW w \in Writers, TakeLock(w)
      PROVE  IInv'
  <2>1. /\ UNCHANGED <<event_log, orphans, calls, cur, base, latest, done>>
        /\ \A v \in Writers : v # w => pc'[v] = pc[v]
        /\ pc'[w] = "select" /\ KeyFree(KeyOf(w))
    BY <1>1, <1>4 DEF TypeOK, TakeLock
  <2>2. LiveTail(w)'
    BY <2>1 DEF LiveTail
  <2> QED BY <1>1, <2>1, <2>2, LocalStep
<1>5. ASSUME NEW w \in Writers, SelectLatest(w)
      PROVE  IInv'
  <2>1. /\ UNCHANGED <<event_log, orphans, calls, cur, base>>
        /\ \A v \in Writers : v # w =>
             pc'[v] = pc[v] /\ latest'[v] = latest[v] /\ done'[v] = done[v]
        /\ pc[w] = "select" /\ pc'[w] = "insert"
        /\ latest'[w] = LatestRevision(Agg(w)) /\ done'[w] = 0
    BY <1>1, <1>5 DEF TypeOK, SelectLatest
  <2>2. Agg(w)' = Agg(w) /\ Size(w)' = Size(w) /\ Size(w) \in Nat
    BY <1>1, <2>1, CurrentCall DEF Agg, Size
  <2>3. LatestRevision(Agg(w))' = LatestRevision(Agg(w))
    BY <2>1, <2>2, LogUnchanged
  <2>4. LiveTail(w)'
    BY <2>1, <2>2, <2>3 DEF LiveTail
  <2>5. HoldsLock(w)
    BY <2>1 DEF HoldsLock
  <2> QED BY <1>1, <2>1, <2>4, <2>5, LocalStep
<1>6. ASSUME NEW w \in Writers, InsertRow(w)
      PROVE  IInv'
  <2>1. /\ UNCHANGED <<event_log, orphans, calls, pc, cur, base, latest>>
        /\ \A v \in Writers : v # w => done'[v] = done[v]
        /\ done[w] \in Nat /\ done'[w] = done[w] + 1
        /\ pc[w] = "insert" /\ done[w] < Size(w)
        /\ RevisionFits(w) /\ IdIsNew(w)
    BY <1>1, <1>6 DEF TypeOK, InsertRow
  <2>2. /\ Agg(w)' = Agg(w) /\ Size(w)' = Size(w) /\ Size(w) \in Nat
        /\ base[w] \in Nat /\ latest[w] \in Nat
    BY <1>1, <2>1, CurrentCall DEF Agg, Size, TypeOK
  <2>3. LatestRevision(Agg(w))' = LatestRevision(Agg(w))
    BY <2>1, <2>2, LogUnchanged
  <2>4. LiveTail(w)
    BY DEF IInv, TransactionOwnsTail
  <2>5. base[w] = latest[w]
    BY <2>1, <2>2 DEF RevisionFits, EventRevision, Expected
  <2>6. \A i \in 1..(done[w] + 1) : ~ Stored(<<cur[w], i>>)
    <3>1. \A i \in 1..(done[w] + 1) : i \in 1..done[w] \/ i = done[w] + 1
      BY <2>1
    <3> QED BY <2>1, <2>4, <3>1 DEF LiveTail, IdIsNew
  <2>7. \A i \in 1..done'[w] : ~ Stored(<<cur[w], i>>)'
    BY <2>1, <2>6, LogUnchanged
  <2>8. LiveTail(w)'
    BY <2>1, <2>2, <2>3, <2>4, <2>5, <2>7 DEF LiveTail
  <2>9. HoldsLock(w)
    BY <2>1 DEF HoldsLock
  <2> QED BY <1>1, <2>1, <2>8, <2>9, LocalStep
<1>7. ASSUME NEW w \in Writers, SendCommit(w)
      PROVE  IInv'
  <2>1. /\ UNCHANGED <<event_log, orphans, calls, cur, base, latest, done>>
        /\ \A v \in Writers : v # w => pc'[v] = pc[v]
        /\ pc[w] = "insert" /\ pc'[w] = "commit" /\ done[w] = Size(w)
    BY <1>1, <1>7 DEF TypeOK, SendCommit
  <2>2. Size(w) > 0 /\ Agg(w)' = Agg(w) /\ Size(w)' = Size(w)
    BY <2>1 DEF IInv, TxNotEmpty, Agg, Size
  <2>3. /\ LatestRevision(Agg(w))' = LatestRevision(Agg(w))
        /\ \A i : Stored(<<cur[w], i>>)' <=> Stored(<<cur[w], i>>)
    BY <2>1, <2>2, LogUnchanged
  <2>4. LiveTail(w) /\ HoldsLock(w)
    BY <2>1 DEF IInv, TransactionOwnsTail, HoldsLock
  <2>5. LiveTail(w)'
    BY <2>1, <2>2, <2>3, <2>4 DEF LiveTail
  <2> QED BY <1>1, <2>1, <2>4, <2>5, LocalStep
<1>8. ASSUME NEW w \in Writers, ServerCommits(w)
      PROVE  IInv'
  <2>1. /\ UNCHANGED <<orphans, calls, cur, base, latest, done>>
        /\ event_log' = event_log \cup BatchRows(cur[w], base[w])
        /\ \A v \in Writers : v # w => pc'[v] = pc[v]
        /\ pc[w] = "commit" /\ pc'[w] = "committed"
    BY <1>1, <1>8 DEF TypeOK, ServerCommits
  <2>2. /\ cur[w] \in 1..Len(calls) /\ base[w] \in Nat
        /\ Agg(w) \in Aggregates /\ Size(w) \in Nat
    BY <1>1, <2>1, CurrentCall DEF TypeOK
  <2>3. PICK A \in Aggregates, n \in Nat : A = Agg(w) /\ n = Size(w)
    BY <2>2
  <2>4. LiveTail(w) /\ HoldsLock(w)
    BY <2>1 DEF IInv, TransactionOwnsTail, HoldsLock
  <2>5. base[w] = LatestRevision(A)
    BY <2>1, <2>3, <2>4 DEF LiveTail
  <2>6. \A v \in Writers : HoldsLock(v)' => pc'[v] = pc[v] /\ KeyOf(v) # HashText[A]
    <3>1. \A v \in Writers : HoldsLock(v)' => v # w /\ pc'[v] = pc[v] /\ HoldsLock(v)
      BY <2>1 DEF HoldsLock
    <3> QED BY <2>3, <2>4, <3>1 DEF IInv, LockExclusive, KeyOf
  <2>7. \A o \in orphans' : OrphanKey(o) # HashText[A]
    BY <2>1, <2>3, <2>4 DEF IInv, LockExclusive, KeyOf
  <2> QED BY <1>1, <2>1, <2>2, <2>3, <2>5, <2>6, <2>7, CommitStep DEF Agg, Size
<1>9. ASSUME NEW w \in Writers,
             RevisionConflict(w) \/ DuplicateId(w) \/ ConnectionLost(w) \/ Crash(w)
      PROVE  IInv'
  <2>1. /\ UNCHANGED <<event_log, calls, cur, base, latest, done>>
        /\ LeaveTransaction(w) /\ pc[w] # "idle"
        /\ \A v \in Writers : v # w => pc'[v] = pc[v]
        /\ pc'[w] \in {"idle", "load"}
    BY <1>1, <1>9
    DEF TypeOK, RevisionConflict, DuplicateId, ConnectionLost, AppendFails, Crash
  <2> QED BY <1>1, <2>1, LeaveStep
<1>10. ASSUME NEW o \in orphans, EndOrphan(o)
       PROVE  IInv'
  <2>1. UNCHANGED <<calls, outcome, pc, cur, attempt, base, latest, done>>
    BY <1>10 DEF EndOrphan, wvars
  <2>2. o.call \in 1..Len(calls) /\ o.from \in Nat
    BY <1>1 DEF TypeOK, Orphan
  <2>3. calls[o.call].agg \in Aggregates /\ calls[o.call].size \in Nat
    BY <1>1, <2>2, CallFields
  <2>4. PICK A \in Aggregates, n \in Nat : A = calls[o.call].agg /\ n = calls[o.call].size
    BY <2>3
  <2>5. orphans' = orphans \ {o}
    BY <1>10 DEF EndOrphan
  <2>6. CASE UNCHANGED event_log
    <3>1. /\ \A a : Revisions(a)' = Revisions(a)
          /\ \A a : LatestRevision(a)' = LatestRevision(a)
          /\ \A id : Stored(id)' <=> Stored(id)
      BY <2>6, LogUnchanged
    <3>2. LastIsNat' /\ RevisionsDense'
      BY <2>6, <3>1 DEF IInv, LastIsNat, RevisionsDense
    <3>3. LockExclusive'
      BY <2>1, <2>5 DEF IInv, LockExclusive, KeyOf, OrphanKey, HoldsLock, Agg
    <3>4. TransactionOwnsTail'
      BY <2>1, <2>5, <3>1
      DEF IInv, TransactionOwnsTail, LiveTail, OrphanTail, Agg, Size
    <3> QED BY <1>1, <3>2, <3>3, <3>4 DEF IInv
  <2>7. CASE o.commit /\ event_log' = event_log \cup BatchRows(o.call, o.from)
    <3>1. o.from = LatestRevision(A)
      BY <2>4, <2>7 DEF IInv, TransactionOwnsTail, OrphanTail
    <3>2. \A v \in Writers : HoldsLock(v)' => pc'[v] = pc[v] /\ KeyOf(v) # HashText[A]
      BY <2>1, <2>4 DEF IInv, LockExclusive, HoldsLock, OrphanKey
    <3>3. \A p \in orphans' : OrphanKey(p) # HashText[A]
      BY <2>4, <2>5 DEF IInv, LockExclusive, OrphanKey
    <3> QED BY <1>1, <2>1, <2>2, <2>4, <2>5, <2>7, <3>1, <3>2, <3>3, CommitStep
  <2> QED BY <1>10, <2>6, <2>7 DEF EndOrphan
<1>11. CASE UNCHANGED vars
  <2>1. UNCHANGED <<event_log, orphans, calls, pc, cur, base, latest, done>>
    BY <1>11 DEF vars, wvars
  <2>2. /\ \A a : Revisions(a)' = Revisions(a)
        /\ \A a : LatestRevision(a)' = LatestRevision(a)
        /\ \A id : Stored(id)' <=> Stored(id)
    BY <2>1, LogUnchanged
  <2>3. LastIsNat' /\ RevisionsDense'
    BY <2>1, <2>2 DEF IInv, LastIsNat, RevisionsDense
  <2>4. LockExclusive'
    BY <2>1 DEF IInv, LockExclusive, KeyOf, OrphanKey, HoldsLock, Agg
  <2>5. TransactionOwnsTail'
    BY <2>1, <2>2 DEF IInv, TransactionOwnsTail, LiveTail, OrphanTail, Agg, Size
  <2> QED BY <1>1, <2>3, <2>4, <2>5 DEF IInv
<1>12. ASSUME NEW w \in Writers, Work(w)
       PROVE  IInv'
  BY <1>3, <1>4, <1>5, <1>6, <1>7, <1>8, <1>9, <1>12, Zenon DEF Work
<1>13. ASSUME NEW w \in Writers, Trouble(w)
       PROVE  IInv'
  BY <1>3, <1>9, <1>13, Zenon DEF Trouble
<1> QED
  BY <1>2, <1>10, <1>11, <1>12, <1>13, Zenon DEF Next

(* In every behaviour of the store the whole inductive invariant holds.     *)
THEOREM Invariance == Spec => []IInv
<1>1. Init => IInv
  BY InitIInv
<1>2. IInv /\ [Next]_vars => IInv'
  BY NextIInv
<1> QED
  BY <1>1, <1>2, PTL DEF Spec

-----------------------------------------------------------------------------
(* The variables keep their types.                                          *)
THEOREM TypeCorrect == Spec => []TypeOK
<1>1. IInv => TypeOK
  BY DEF IInv
<1> QED
  BY <1>1, Invariance, PTL

(* hashtext may map two runs to one key: exclusion still holds, since it is *)
(* stated, and enforced, by key.                                            *)
THEOREM LockSafety == Spec => []LockExclusive
<1>1. IInv => LockExclusive
  BY DEF IInv
<1> QED
  BY <1>1, Invariance, PTL

(* What a transaction read as the last revision of its run stays the last   *)
(* until it ends, whatever other writers and dead clients do.               *)
THEOREM TailSafety == Spec => []TransactionOwnsTail
<1>1. IInv => TransactionOwnsTail
  BY DEF IInv
<1> QED
  BY <1>1, Invariance, PTL

(* The revisions of every run are always 1..n, with one event each.         *)
THEOREM DenseRevisions == Spec => []RevisionsDense
<1>1. IInv => RevisionsDense
  BY DEF IInv
<1> QED
  BY <1>1, Invariance, PTL

-----------------------------------------------------------------------------
(* All a step can do to the table: leave it alone, or add one whole batch   *)
(* of events that are not stored, right after the last revision.            *)
LEMMA LogStep ==
    ASSUME IInv, [Next]_vars
    PROVE  \/ UNCHANGED event_log
           \/ \E b \in 1..Len(calls) :
                /\ event_log' = event_log \cup BatchRows(b, LatestRevision(calls[b].agg))
                /\ \A i \in 1..calls[b].size : ~ Stored(<<b, i>>)
                /\ UNCHANGED <<calls, outcome>>
<1> USE DEF Goto, Return
<1>1. TypeOK
  BY DEF IInv
<1>2. ASSUME NEW w \in Writers, ServerCommits(w)
      PROVE  \E b \in 1..Len(calls) :
                /\ event_log' = event_log \cup BatchRows(b, LatestRevision(calls[b].agg))
                /\ \A i \in 1..calls[b].size : ~ Stored(<<b, i>>)
                /\ UNCHANGED <<calls, outcome>>
  <2>1. cur[w] \in 1..Len(calls)
    BY <1>1, <1>2, CurrentCall DEF ServerCommits
  <2>2. LiveTail(w)
    BY DEF IInv, TransactionOwnsTail
  <2> QED BY <1>2, <2>1, <2>2 DEF ServerCommits, LiveTail, Agg, Size
<1>3. ASSUME NEW o \in orphans, EndOrphan(o), ~ UNCHANGED event_log
      PROVE  \E b \in 1..Len(calls) :
                /\ event_log' = event_log \cup BatchRows(b, LatestRevision(calls[b].agg))
                /\ \A i \in 1..calls[b].size : ~ Stored(<<b, i>>)
                /\ UNCHANGED <<calls, outcome>>
  <2>1. o.call \in 1..Len(calls)
    BY <1>1 DEF TypeOK
  <2>2. OrphanTail(o)
    BY DEF IInv, TransactionOwnsTail
  <2> QED BY <1>3, <2>1, <2>2 DEF EndOrphan, OrphanTail
<1>4. ASSUME NEW w \in Writers, Work(w), ~ ServerCommits(w)
      PROVE  UNCHANGED event_log
  BY <1>4
  DEF Work, ReadRevision, AppendNothing, BeginTx, TakeLock, SelectLatest, InsertRow,
      SendCommit, CommitAcknowledged, RevisionConflict, DuplicateId, AppendFails
<1>5. ASSUME NEW w \in Writers, Trouble(w)
      PROVE  UNCHANGED event_log
  BY <1>5 DEF Trouble, ReadFails, ConnectionLost, Crash, AppendFails
<1>6. ASSUME NEW w \in Writers, NEW a \in Aggregates, NEW n \in 0..MaxBatch,
             StartCall(w, a, n)
      PROVE  UNCHANGED event_log
  BY <1>6 DEF StartCall
<1>7. CASE UNCHANGED vars
  BY <1>7 DEF vars
<1> QED
  BY <1>2, <1>3, <1>4, <1>5, <1>6, <1>7, Zenon DEF Next

(* Published events are never rewritten or removed, and new ones come after *)
(* all the events of their run.                                             *)
THEOREM TailGrowth == Spec => GrowsAtTail
<1> DEFINE Grow == /\ event_log \subseteq event_log'
                   /\ \A row \in event_log' \ event_log : row.rev > LatestRevision(row.agg)
<1>1. ASSUME IInv, [Next]_vars
      PROVE  Grow
  <2>1. CASE UNCHANGED event_log
    BY <2>1
  <2>2. ASSUME NEW b \in 1..Len(calls),
               event_log' = event_log \cup BatchRows(b, LatestRevision(calls[b].agg))
        PROVE  Grow
    <3>1. calls[b].agg \in Aggregates /\ LatestRevision(calls[b].agg) \in Nat
      BY <1>1, CallFields DEF IInv, LastIsNat
    <3>2. ASSUME NEW row \in event_log' \ event_log
          PROVE  row.rev > LatestRevision(row.agg)
      <4>1. row \in BatchRows(b, LatestRevision(calls[b].agg))
        BY <2>2, <3>2
      <4>2. PICK i \in 1..calls[b].size :
              row = [agg |-> calls[b].agg,
                     rev |-> LatestRevision(calls[b].agg) + i, id |-> <<b, i>>]
        BY <4>1 DEF BatchRows
      <4> QED BY <3>1, <4>2
    <3> QED BY <2>2, <3>2
  <2> QED BY <1>1, <2>1, <2>2, LogStep
<1>2. IInv /\ [Next]_vars => [Grow]_vars
  BY <1>1
<1> QED
  BY <1>2, Invariance, PTL DEF Spec, GrowsAtTail

-----------------------------------------------------------------------------
(* The second invariant: every stored event is an event of a call, batches  *)
(* are whole, and only what is stored is reported as stored.                *)
Mine(b) == {row \in event_log : row.id[1] = b}
Whole(b) ==
    \/ Mine(b) = {}
    \/ \E from \in 0..LatestRevision(calls[b].agg) : Mine(b) = BatchRows(b, from)
AllStored(b) == \A i \in 1..calls[b].size : Stored(<<b, i>>)

BatchIInv ==
    /\ IInv
    /\ \A row \in event_log : row.id[1] \in 1..Len(calls)
    /\ \A b \in 1..Len(calls) : Whole(b)
    /\ \A b \in 1..MaxCalls : b > Len(calls) => outcome[b] = "open"
    /\ \A b \in 1..Len(calls) : outcome[b] = "ok" => AllStored(b)
    /\ \A w \in Writers : pc[w] = "committed" => AllStored(cur[w])

(* Nothing is stored at the beginning, so every batch is whole or absent.   *)
LEMMA InitBatchIInv == Init => BatchIInv
<1> SUFFICES ASSUME Init PROVE BatchIInv
  OBVIOUS
<1>1. IInv
  BY InitIInv
<1>2. Len(calls) = 0 /\ event_log = {}
  BY DEF Init
<1>3. \A b \in 1..MaxCalls : outcome[b] = "open"
  BY DEF Init
<1>4. \A w \in Writers : pc[w] # "committed"
  BY DEF Init
<1> QED
  BY <1>1, <1>2, <1>3, <1>4 DEF BatchIInv

(* A commit makes one batch whole and leaves the others as they are.        *)
LEMMA CommitMakesWhole ==
    ASSUME BatchIInv, IInv', NEW b \in 1..Len(calls),
           event_log' = event_log \cup BatchRows(b, LatestRevision(calls[b].agg)),
           \A i \in 1..calls[b].size : ~ Stored(<<b, i>>),
           UNCHANGED calls
    PROVE  /\ \A row \in event_log' : row.id[1] \in 1..Len(calls')
           /\ \A c \in 1..Len(calls') : Whole(c)'
           /\ AllStored(b)'
           /\ \A c : AllStored(c) => AllStored(c)'
<1>1. TypeOK /\ LastIsNat /\ RevisionsDense
  BY DEF BatchIInv, IInv
<1>2. /\ b \in Nat
      /\ calls[b].agg \in Aggregates /\ calls[b].size \in Nat
  BY <1>1, CallFields
<1>3. PICK A \in Aggregates, n \in Nat : A = calls[b].agg /\ n = calls[b].size
  BY <1>2
<1>4. PICK from \in Nat : from = LatestRevision(A)
  BY <1>1 DEF LastIsNat
<1>5. event_log' = event_log \cup BatchRows(b, from)
  BY <1>3, <1>4
<1>6. /\ LatestRevision(A)' = from + n
      /\ \A a \in Aggregates : a # A => LatestRevision(a)' = LatestRevision(a)
      /\ \A i \in 1..n : Stored(<<b, i>>)'
  BY <1>1, <1>2, <1>3, <1>4, <1>5, CommitExtendsTail
<1>7. \A row : row \in BatchRows(b, from) <=>
        \E i \in 1..n : row = [agg |-> A, rev |-> from + i, id |-> <<b, i>>]
  BY <1>3 DEF BatchRows
<1>8. \A row \in BatchRows(b, from) :
        row.id[1] = b /\ \E i \in 1..n : row.id = <<b, i>>
  BY <1>7
<1>9. \A row \in event_log' : row.id[1] \in 1..Len(calls')
  BY <1>5, <1>8 DEF BatchIInv
<1>10. AllStored(b)'
  BY <1>3, <1>6 DEF AllStored
<1>11. \A c : AllStored(c) => AllStored(c)'
  BY <1>5 DEF AllStored, Stored
<1>12. \A c, f : BatchRows(c, f)' = BatchRows(c, f)
  BY DEF BatchRows
<1>13. Mine(b) = {}
  <2>1. SUFFICES ASSUME Mine(b) # {} PROVE FALSE
    OBVIOUS
  <2>2. PICK f : Mine(b) = BatchRows(b, f)
    BY <2>1 DEF BatchIInv, Whole
  <2>3. PICK row \in BatchRows(b, f) : row \in event_log
    BY <2>1, <2>2 DEF Mine
  <2>4. \E i \in 1..calls[b].size : row.id = <<b, i>>
    BY <2>3 DEF BatchRows
  <2> QED BY <2>3, <2>4 DEF Stored
<1>14. Mine(b)' = BatchRows(b, from)
  BY <1>5, <1>8, <1>13 DEF Mine
<1>15. Whole(b)'
  <2>1. from \in 0..LatestRevision(A)'
    BY <1>4, <1>6
  <2>2. LatestRevision(A)' = LatestRevision(calls[b].agg)'
    BY <1>3
  <2> QED BY <1>12, <1>14, <2>1, <2>2 DEF Whole
<1>16. ASSUME NEW c \in 1..Len(calls), c # b PROVE Whole(c)'
  <2>1. Mine(c)' = Mine(c)
    BY <1>5, <1>8, <1>16 DEF Mine
  <2>2. PICK a \in Aggregates : a = calls[c].agg
    BY <1>1, CallFields
  <2>3. LatestRevision(a)' = LatestRevision(calls[c].agg)'
    BY <2>2
  <2>4. LatestRevision(a) \in Nat /\ LatestRevision(a)' \in Nat
        /\ LatestRevision(a)' >= LatestRevision(a)
    BY <1>1, <1>4, <1>6 DEF LastIsNat
  <2>5. 0..LatestRevision(a) \subseteq 0..LatestRevision(a)'
    BY <2>4
  <2>6. Whole(c)
    BY DEF BatchIInv
  <2>7. CASE Mine(c) = {}
    BY <2>1, <2>7 DEF Whole
  <2>8. CASE \E f \in 0..LatestRevision(a) : Mine(c) = BatchRows(c, f)
    <3>1. PICK f \in 0..LatestRevision(a) : Mine(c) = BatchRows(c, f)
      BY <2>8
    <3>2. f \in 0..LatestRevision(calls[c].agg)'
      BY <2>3, <2>5
    <3>3. Mine(c)' = BatchRows(c, f)'
      BY <1>12, <2>1, <3>1
    <3> QED BY <3>2, <3>3 DEF Whole
  <2> QED BY <2>2, <2>6, <2>7, <2>8 DEF Whole
<1> QED
  BY <1>9, <1>10, <1>11, <1>15, <1>16

(* Every step keeps the second invariant; only commits touch the rows.      *)
LEMMA NextBatchIInv ==
    ASSUME BatchIInv, [Next]_vars
    PROVE  BatchIInv'
<1> USE DEF Goto, Return
<1>1. TypeOK /\ IInv /\ IInv' /\ TypeOK'
  BY NextIInv DEF BatchIInv, IInv
<1>2. ASSUME NEW w \in Writers, NEW a \in Aggregates, NEW n \in 0..MaxBatch,
             StartCall(w, a, n)
      PROVE  BatchIInv'
  <2>1. /\ Len(calls) \in Nat /\ Len(calls') = Len(calls) + 1
        /\ Len(calls') \in 1..MaxCalls
        /\ \A b \in 1..Len(calls) : calls'[b] = calls[b]
    BY <1>1, <1>2, BoundsAssumption DEF TypeOK, StartCall
  <2>2. UNCHANGED <<event_log, outcome>>
    BY <1>2 DEF StartCall
  <2>3. /\ \A c : LatestRevision(c)' = LatestRevision(c)
        /\ \A id : Stored(id)' <=> Stored(id)
    BY <2>2, LogUnchanged
  <2>4. ASSUME NEW b \in 1..Len(calls)
        PROVE  Whole(b)' /\ (AllStored(b) => AllStored(b)')
    <3>1. \A f : BatchRows(b, f)' = BatchRows(b, f)
      BY <2>1 DEF BatchRows
    <3>2. Mine(b)' = Mine(b)
      BY <2>2 DEF Mine
    <3>3. LatestRevision(calls[b].agg)' = LatestRevision(calls[b].agg)
      BY <2>1, <2>3
    <3>4. Whole(b)
      BY DEF BatchIInv
    <3>5. AllStored(b) => AllStored(b)'
      BY <2>1, <2>3 DEF AllStored
    <3> QED BY <3>1, <3>2, <3>3, <3>4, <3>5 DEF Whole
  <2>6. outcome'[Len(calls')] = "open"
    BY <2>1, <2>2 DEF BatchIInv
  <2>7. \A b \in 1..Len(calls') : b \in 1..Len(calls) \/ b = Len(calls) + 1
    BY <2>1
  <2>8. \A row \in event_log' : row.id[1] \in 1..Len(calls')
    BY <2>1, <2>2 DEF BatchIInv
  <2>9. ASSUME NEW b \in 1..Len(calls') PROVE Whole(b)'
    <3>1. CASE b \in 1..Len(calls)
      BY <2>4, <3>1
    <3>2. CASE b = Len(calls) + 1
      <4>1. \A row \in event_log : row.id[1] # b
        BY <2>1, <3>2 DEF BatchIInv
      <4> QED BY <2>2, <4>1 DEF Whole, Mine
    <3> QED BY <2>7, <3>1, <3>2
  <2>10. \A b \in 1..MaxCalls : b > Len(calls') => outcome'[b] = "open"
    BY <2>1, <2>2 DEF BatchIInv
  <2>11. \A b \in 1..Len(calls') : outcome'[b] = "ok" => AllStored(b)'
    BY <2>1, <2>2, <2>4, <2>6, <2>7 DEF BatchIInv
  <2>12. ASSUME NEW v \in Writers, pc'[v] = "committed" PROVE AllStored(cur[v])'
    <3>1. v # w /\ pc[v] = "committed" /\ cur'[v] = cur[v]
      BY <1>1, <1>2, <2>12 DEF TypeOK, StartCall
    <3>2. PICK b \in 1..Len(calls) : b = cur[v]
      BY <1>1, <3>1, CurrentCall
    <3>3. AllStored(b)'
      BY <2>4, <3>1, <3>2 DEF BatchIInv
    <3> QED BY <3>1, <3>2, <3>3 DEF AllStored
  <2> QED
    BY <1>1, <2>8, <2>9, <2>10, <2>11, <2>12 DEF BatchIInv
<1>3. ASSUME NEW w \in Writers, UNCHANGED <<event_log, calls, cur>>, pc[w] # "idle",
             \/ UNCHANGED outcome
             \/ \E x \in {"ok", "err", "lost"} :
                  /\ outcome' = [outcome EXCEPT ![cur[w]] = x]
                  /\ x = "ok" => AllStored(cur[w]),
             \A v \in Writers : pc'[v] = "committed" => pc[v] = "committed"
      PROVE  BatchIInv'
  <2>1. \A b : AllStored(b)' <=> AllStored(b)
    BY <1>3 DEF AllStored, Stored
  <2>2. \A c : LatestRevision(c)' = LatestRevision(c)
    BY <1>3, LogUnchanged
  <2>3. \A b \in 1..Len(calls) : Whole(b)'
    BY <1>3, <2>2 DEF BatchIInv, Whole, Mine, BatchRows
  <2>4. cur[w] \in 1..Len(calls)
    BY <1>1, <1>3, CurrentCall
  <2>5. ASSUME NEW b \in 1..Len(calls), outcome'[b] = "ok" PROVE AllStored(b)
    <3>1. b \in DOMAIN outcome
      BY <1>1, CallFields DEF TypeOK
    <3>2. CASE outcome[b] = "ok"
      BY <3>2 DEF BatchIInv
    <3>3. CASE outcome[b] # "ok"
      BY <1>3, <2>5, <3>1, <3>3
    <3> QED BY <3>2, <3>3
  <2>6. \A b \in 1..MaxCalls : b > Len(calls) => outcome'[b] = "open"
    <3>1. SUFFICES ASSUME NEW b \in 1..MaxCalls, b > Len(calls)
                   PROVE  outcome'[b] = outcome[b]
      BY DEF BatchIInv
    <3>2. Len(calls) \in Nat /\ b # cur[w]
      BY <1>1, <2>4, <3>1, BoundsAssumption DEF TypeOK
    <3> QED BY <1>1, <1>3, <3>2 DEF TypeOK
  <2>7. \A v \in Writers : pc'[v] = "committed" => AllStored(cur[v])
    BY <1>3 DEF BatchIInv
  <2>8. \A v \in Writers : pc'[v] = "committed" => AllStored(cur[v])'
    BY <1>3, <2>7 DEF AllStored, Stored
  <2> QED
    BY <1>1, <1>3, <2>1, <2>3, <2>5, <2>6, <2>8 DEF BatchIInv
<1>unchanged. ASSUME UNCHANGED <<event_log, calls, outcome, pc, cur>>
       PROVE  BatchIInv'
  <2>1. \A b : AllStored(b)' <=> AllStored(b)
    BY <1>unchanged DEF AllStored, Stored
  <2>2. \A c : LatestRevision(c)' = LatestRevision(c)
    BY <1>unchanged, LogUnchanged
  <2>3. \A b \in 1..Len(calls) : Whole(b)'
    BY <1>unchanged, <2>2 DEF BatchIInv, Whole, Mine, BatchRows
  <2>4. \A v \in Writers : pc'[v] = "committed" => AllStored(cur[v])'
    BY <1>unchanged DEF BatchIInv, AllStored, Stored
  <2> QED
    BY <1>1, <1>unchanged, <2>1, <2>3, <2>4 DEF BatchIInv
<1>4. ASSUME NEW b \in 1..Len(calls), UNCHANGED <<calls, outcome, cur>>,
             event_log' = event_log \cup BatchRows(b, LatestRevision(calls[b].agg)),
             \A i \in 1..calls[b].size : ~ Stored(<<b, i>>),
             \A v \in Writers : pc'[v] = "committed" => pc[v] = "committed" \/ cur[v] = b
      PROVE  BatchIInv'
  <2>1. /\ \A row \in event_log' : row.id[1] \in 1..Len(calls')
        /\ \A c \in 1..Len(calls') : Whole(c)'
        /\ AllStored(b)'
        /\ \A c : AllStored(c) => AllStored(c)'
    BY <1>1, <1>4, CommitMakesWhole
  <2>2. ASSUME NEW v \in Writers, pc'[v] = "committed" PROVE AllStored(cur[v])'
    <3>1. CASE pc[v] = "committed"
      <4>1. AllStored(cur[v])
        BY <3>1 DEF BatchIInv
      <4> QED BY <1>4, <4>1 DEF AllStored, Stored
    <3>2. CASE cur[v] = b
      BY <1>4, <2>1, <3>2 DEF AllStored
    <3> QED BY <1>4, <2>2, <3>1, <3>2
  <2> QED
    BY <1>1, <1>4, <2>1, <2>2 DEF BatchIInv
<1>5. ASSUME NEW w \in Writers, ServerCommits(w)
      PROVE  BatchIInv'
  <2>1. PICK b \in 1..Len(calls) : b = cur[w]
    BY <1>1, <1>5, CurrentCall DEF ServerCommits
  <2>2. LiveTail(w)
    BY <1>1 DEF IInv, TransactionOwnsTail
  <2>3. \A v \in Writers : pc'[v] = "committed" => pc[v] = "committed" \/ v = w
    BY <1>1, <1>5 DEF ServerCommits, TypeOK
  <2> QED
    BY <1>4, <1>5, <2>1, <2>2, <2>3 DEF ServerCommits, LiveTail, Agg, Size
<1>6. ASSUME NEW o \in orphans, EndOrphan(o)
      PROVE  BatchIInv'
  <2>1. o.call \in 1..Len(calls)
    BY <1>1 DEF TypeOK
  <2>2. OrphanTail(o)
    BY <1>1 DEF IInv, TransactionOwnsTail
  <2>3. UNCHANGED <<calls, outcome, pc, cur>>
    BY <1>6 DEF EndOrphan, wvars
  <2>4. CASE UNCHANGED event_log
    BY <1>unchanged, <2>3, <2>4
  <2>5. CASE o.commit /\ event_log' = event_log \cup BatchRows(o.call, o.from)
    BY <1>4, <2>1, <2>2, <2>3, <2>5 DEF OrphanTail
  <2> QED BY <1>6, <2>4, <2>5 DEF EndOrphan
<1>7. ASSUME NEW w \in Writers, CommitAcknowledged(w) \/ AppendNothing(w)
      PROVE  BatchIInv'
  <2>1. pc[w] # "idle" /\ AllStored(cur[w])
    BY <1>7 DEF CommitAcknowledged, AppendNothing, BatchIInv, AllStored, Size
  <2>2. /\ UNCHANGED <<event_log, calls, cur>>
        /\ outcome' = [outcome EXCEPT ![cur[w]] = "ok"]
        /\ \A v \in Writers : pc'[v] = "committed" => pc[v] = "committed"
    BY <1>1, <1>7 DEF CommitAcknowledged, AppendNothing, TypeOK
  <2> QED BY <1>3, <2>1, <2>2
<1>8. ASSUME NEW w \in Writers,
             ReadRevision(w) \/ BeginTx(w) \/ TakeLock(w) \/ SelectLatest(w)
               \/ InsertRow(w) \/ SendCommit(w)
      PROVE  BatchIInv'
  <2>1. /\ pc[w] # "idle" /\ UNCHANGED <<event_log, calls, cur, outcome>>
        /\ \A v \in Writers : pc'[v] = "committed" => pc[v] = "committed"
    BY <1>1, <1>8
    DEF ReadRevision, BeginTx, TakeLock, SelectLatest, InsertRow, SendCommit, TypeOK
  <2> QED BY <1>3, <2>1
<1>9. ASSUME NEW w \in Writers,
             ReadFails(w) \/ RevisionConflict(w) \/ DuplicateId(w)
               \/ ConnectionLost(w) \/ Crash(w)
      PROVE  BatchIInv'
  <2>1. /\ pc[w] # "idle" /\ UNCHANGED <<event_log, calls, cur>>
        /\ \A v \in Writers : pc'[v] = "committed" => pc[v] = "committed"
    BY <1>1, <1>9
    DEF ReadFails, RevisionConflict, DuplicateId, ConnectionLost, Crash, AppendFails, TypeOK
  <2>2. \/ UNCHANGED outcome
        \/ \E x \in {"err", "lost"} : outcome' = [outcome EXCEPT ![cur[w]] = x]
    BY <1>9
    DEF ReadFails, RevisionConflict, DuplicateId, ConnectionLost, Crash, AppendFails
  <2> QED BY <1>3, <2>1, <2>2
<1>10. CASE UNCHANGED vars
  BY <1>10, <1>unchanged DEF vars, wvars
<1>11. ASSUME NEW w \in Writers, Work(w) \/ Trouble(w)
       PROVE  BatchIInv'
  BY <1>5, <1>7, <1>8, <1>9, <1>11, Zenon DEF Work, Trouble
<1> QED
  BY <1>2, <1>6, <1>10, <1>11, Zenon DEF Next

(* In every behaviour batches are whole or absent and Ok means stored.      *)
LEMMA BatchInvariance == Spec => []BatchIInv
<1>1. Init => BatchIInv
  BY InitBatchIInv
<1>2. BatchIInv /\ [Next]_vars => BatchIInv'
  BY NextBatchIInv
<1> QED
  BY <1>1, <1>2, PTL DEF Spec

(* However often a batch is retried, and whoever appends in between, it is  *)
(* in the log not at all, or once, whole, at consecutive revisions.         *)
THEOREM ExactlyOnce == Spec => []BatchAtomic
<1>1. BatchIInv => BatchAtomic
  BY DEF BatchIInv, Whole, Mine, BatchAtomic
<1> QED
  BY <1>1, BatchInvariance, PTL

(* Ok from append means that the events are, and stay, in the log.          *)
THEOREM Durability == Spec => []OkIsDurable
<1>1. BatchIInv => OkIsDurable
  BY DEF BatchIInv, AllStored, OkIsDurable
<1> QED
  BY <1>1, BatchInvariance, PTL

-----------------------------------------------------------------------------
(* Refinement: EventStore implements AppendOnlyLog.                         *)

(* The journal of a run lists exactly its rows, one per revision.           *)
LEMMA JournalListsRows ==
    ASSUME TypeOK, LastIsNat, RevisionsDense, NEW a \in Aggregates
    PROVE  /\ Journal(a) \in Seq(Nat \X Nat)
           /\ Len(Journal(a)) = LatestRevision(a)
           /\ \A row \in RowsOf(a) :
                row.rev \in 1..LatestRevision(a) /\ Journal(a)[row.rev] = row.id
           /\ \A r \in 1..LatestRevision(a) :
                \E row \in RowsOf(a) : row.rev = r /\ Journal(a)[r] = row.id
<1>1. LatestRevision(a) \in Nat /\ Revisions(a) = 1..LatestRevision(a)
  BY DEF LastIsNat, RevisionsDense
<1>2. ASSUME NEW row \in event_log, row.agg = a
      PROVE  EventAt(a, row.rev) = row.id
  <2>1. \A q \in event_log : q.agg = a /\ q.rev = row.rev => q = row
    BY <1>2 DEF RevisionsDense
  <2> QED BY <1>2, <2>1 DEF EventAt
<1>3. ASSUME NEW r \in 1..LatestRevision(a)
      PROVE  \E row \in RowsOf(a) : row.rev = r /\ EventAt(a, r) = row.id
  <2>1. PICK row \in RowsOf(a) : row.rev = r
    BY <1>1, <1>3 DEF Revisions
  <2> QED BY <1>2, <2>1 DEF RowsOf
<1>4. \A row \in RowsOf(a) : row.id \in Nat \X Nat
  BY DEF TypeOK, RowsOf, Rows
<1>5. \A r \in 1..LatestRevision(a) : EventAt(a, r) \in Nat \X Nat
  BY <1>3, <1>4
<1>6. Journal(a) \in [1..LatestRevision(a) -> Nat \X Nat]
  BY <1>5 DEF Journal
<1>7. Journal(a) \in Seq(Nat \X Nat) /\ Len(Journal(a)) = LatestRevision(a)
  BY <1>1, <1>6
<1>8. \A row \in RowsOf(a) : row.rev \in 1..LatestRevision(a)
  BY <1>1 DEF Revisions
<1>9. \A r \in 1..LatestRevision(a) : Journal(a)[r] = EventAt(a, r)
  BY DEF Journal
<1>10. \A row \in RowsOf(a) : Journal(a)[row.rev] = row.id
  BY <1>2, <1>8, <1>9 DEF RowsOf
<1> QED
  BY <1>3, <1>7, <1>8, <1>9, <1>10

(* While the table does not change, nor do the journals.                    *)
LEMMA JournalsUnchanged ==
    ASSUME UNCHANGED event_log
    PROVE  \A a : Journal(a)' = Journal(a)
  BY LogUnchanged DEF Journal, EventAt

(* A commit appends the batch to the journal of its run only.               *)
LEMMA CommitAppends ==
    ASSUME BatchIInv, IInv', NEW b \in 1..Len(calls), NEW A \in Aggregates, NEW n \in Nat,
           A = calls[b].agg, n = calls[b].size,
           event_log' = event_log \cup BatchRows(b, LatestRevision(A)),
           UNCHANGED calls
    PROVE  /\ Journal(A)' = Journal(A) \o [i \in 1..n |-> <<b, i>>]
           /\ \A a \in Aggregates : a # A => Journal(a)' = Journal(a)
<1>1. TypeOK /\ LastIsNat /\ RevisionsDense /\ TypeOK' /\ LastIsNat' /\ RevisionsDense'
  BY DEF BatchIInv, IInv
<1>2. b \in Nat
  BY <1>1, CallFields
<1>3. PICK from \in Nat : from = LatestRevision(A)
  BY <1>1 DEF LastIsNat
<1>4. event_log' = event_log \cup BatchRows(b, from)
  BY <1>3
<1>5. /\ LatestRevision(A)' = from + n
      /\ \A a \in Aggregates : a # A => LatestRevision(a)' = LatestRevision(a)
  BY <1>1, <1>2, <1>3, <1>4, CommitExtendsTail
<1>6. ASSUME NEW row \in event_log'
      PROVE  EventAt(row.agg, row.rev)' = row.id
  <2>1. \A q \in event_log' : q.agg = row.agg /\ q.rev = row.rev => q = row
    BY <1>1, <1>6 DEF RevisionsDense
  <2> QED BY <1>6, <2>1 DEF EventAt
<1>7. ASSUME NEW row \in event_log
      PROVE  EventAt(row.agg, row.rev)' = EventAt(row.agg, row.rev)
  <2>1. \A q \in event_log : q.agg = row.agg /\ q.rev = row.rev => q = row
    BY <1>1, <1>7 DEF RevisionsDense
  <2>2. EventAt(row.agg, row.rev) = row.id
    BY <1>7, <2>1 DEF EventAt
  <2>3. EventAt(row.agg, row.rev)' = row.id
    BY <1>4, <1>6, <1>7
  <2> QED BY <2>2, <2>3
<1>8. ASSUME NEW a \in Aggregates, NEW r \in 1..LatestRevision(a)
      PROVE  EventAt(a, r)' = EventAt(a, r)
  <2>1. r \in Revisions(a)
    BY <1>1, <1>8 DEF RevisionsDense
  <2>2. PICK row \in event_log : row.agg = a /\ row.rev = r
    BY <2>1 DEF Revisions, RowsOf
  <2> QED BY <1>7, <2>2
<1>9. ASSUME NEW a \in Aggregates, a # A PROVE Journal(a)' = Journal(a)
  <2>1. LatestRevision(a)' = LatestRevision(a)
    BY <1>5, <1>9
  <2> QED BY <1>8, <2>1 DEF Journal
<1>10. ASSUME NEW i \in 1..n PROVE EventAt(A, from + i)' = <<b, i>>
  <2> DEFINE row == [agg |-> A, rev |-> from + i, id |-> <<b, i>>]
  <2>1. row \in event_log'
    BY <1>4, <1>10 DEF BatchRows
  <2>2. row.agg = A /\ row.rev = from + i /\ row.id = <<b, i>>
    OBVIOUS
  <2> HIDE DEF row
  <2>3. EventAt(row.agg, row.rev)' = row.id
    BY <1>6, <2>1
  <2> QED BY <2>2, <2>3
<1> DEFINE old == Journal(A)
           batch == [i \in 1..n |-> <<b, i>>]
<1>11. /\ old = [r \in 1..from |-> EventAt(A, r)]
       /\ old \in Seq(Nat \X Nat) /\ Len(old) = from
  BY <1>1, <1>3, JournalListsRows DEF Journal
<1>12. batch \in Seq(Nat \X Nat) /\ Len(batch) = n
  BY <1>2
<1>13. old \o batch = [r \in 1..(from + n) |-> IF r <= from THEN old[r] ELSE batch[r - from]]
  BY <1>11, <1>12
<1>14. Journal(A)' = [r \in 1..(from + n) |-> EventAt(A, r)']
  BY <1>5 DEF Journal
<1>15. ASSUME NEW r \in 1..(from + n)
       PROVE  EventAt(A, r)' = IF r <= from THEN old[r] ELSE batch[r - from]
  <2>1. CASE r <= from
    <3>1. r \in 1..from /\ r \in 1..LatestRevision(A)
      BY <1>3, <1>15, <2>1
    <3>2. EventAt(A, r)' = EventAt(A, r)
      BY <1>8, <3>1
    <3> QED BY <1>11, <2>1, <3>1, <3>2
  <2>2. CASE r > from
    <3>1. r - from \in 1..n /\ r = from + (r - from)
      BY <1>15, <2>2
    <3>2. EventAt(A, from + (r - from))' = <<b, r - from>>
      BY <1>10, <3>1
    <3> QED BY <2>2, <3>1, <3>2
  <2> QED BY <1>15, <2>1, <2>2
<1> HIDE DEF old, batch
<1>16. Journal(A)' = old \o batch
  BY <1>13, <1>14, <1>15
<1> QED
  BY <1>9, <1>16 DEF old, batch

(* A whole batch is stored exactly when its events are in the journal.      *)
LEMMA StoredMeansListed ==
    ASSUME BatchIInv, NEW b \in 1..Len(calls), NEW i \in 1..calls[b].size
    PROVE  Stored(<<b, i>>) <=>
             \E p \in 1..Len(Journal(calls[b].agg)) : Journal(calls[b].agg)[p] = <<b, i>>
<1>1. TypeOK /\ LastIsNat /\ RevisionsDense
  BY DEF BatchIInv, IInv
<1>2. PICK a \in Aggregates : a = calls[b].agg
  BY <1>1, CallFields
<1>3. ASSUME Stored(<<b, i>>)
      PROVE  \E p \in 1..Len(Journal(a)) : Journal(a)[p] = <<b, i>>
  <2>1. PICK row \in event_log : row.id = <<b, i>>
    BY <1>3 DEF Stored
  <2>2. row \in Mine(b)
    BY <2>1 DEF Mine
  <2>3. PICK f : Mine(b) = BatchRows(b, f)
    BY <2>2 DEF BatchIInv, Whole
  <2>4. row.agg = a
    BY <1>2, <2>2, <2>3 DEF BatchRows
  <2>5. row \in RowsOf(a)
    BY <2>1, <2>4 DEF RowsOf
  <2> QED BY <1>1, <2>1, <2>5, JournalListsRows
<1>4. ASSUME NEW p \in 1..Len(Journal(a)), Journal(a)[p] = <<b, i>>
      PROVE  Stored(<<b, i>>)
  <2>1. PICK row \in RowsOf(a) : Journal(a)[p] = row.id
    BY <1>1, JournalListsRows
  <2> QED BY <1>4, <2>1 DEF RowsOf, Stored
<1> QED
  BY <1>2, <1>3, <1>4

(* A writer at work is alone on its call, and the call has no answer yet:   *)
(* no answer is ever given twice or taken back.                             *)
OpenCalls ==
    /\ \A w \in Writers : pc[w] # "idle" => outcome[cur[w]] = "open"
    /\ \A v, w \in Writers :
         pc[v] # "idle" /\ pc[w] # "idle" /\ cur[v] = cur[w] => v = w

(* Every step keeps that: calls are numbered as they are made, and a writer *)
(* that returns from one is idle.                                           *)
LEMMA OpenCallsStep ==
    ASSUME BatchIInv, OpenCalls, [Next]_vars
    PROVE  OpenCalls'
<1> USE DEF Goto, Return
<1>1. TypeOK
  BY DEF BatchIInv, IInv
<1>2. ASSUME NEW w \in Writers, NEW a \in Aggregates, NEW n \in 0..MaxBatch,
             StartCall(w, a, n)
      PROVE  OpenCalls'
  <2>1. /\ Len(calls) \in Nat /\ Len(calls) + 1 \in 1..MaxCalls
        /\ UNCHANGED outcome
        /\ cur'[w] = Len(calls) + 1
        /\ \A v \in Writers : v # w => cur'[v] = cur[v] /\ pc'[v] = pc[v]
    BY <1>1, <1>2, BoundsAssumption DEF TypeOK, StartCall
  <2>2. outcome[Len(calls) + 1] = "open"
    BY <2>1 DEF BatchIInv
  <2>3. \A v \in Writers : v # w /\ pc'[v] # "idle" => cur'[v] # cur'[w]
    <3>1. \A v \in Writers : pc[v] # "idle" => cur[v] \in 1..Len(calls)
      BY <1>1, CurrentCall
    <3> QED BY <2>1, <3>1
  <2> QED BY <2>1, <2>2, <2>3 DEF OpenCalls
<1>3. ASSUME NEW w \in Writers, UNCHANGED cur, pc[w] # "idle",
             \A v \in Writers : v # w => pc'[v] = pc[v],
             \/ UNCHANGED outcome
             \/ /\ pc'[w] = "idle"
                /\ \E x : outcome' = [outcome EXCEPT ![cur[w]] = x]
      PROVE  OpenCalls'
  <2>1. ASSUME NEW v \in Writers, pc'[v] # "idle" PROVE outcome'[cur[v]] = "open"
    <3>1. CASE UNCHANGED outcome
      BY <1>3, <2>1, <3>1 DEF OpenCalls
    <3>2. CASE pc'[w] = "idle" /\ \E x : outcome' = [outcome EXCEPT ![cur[w]] = x]
      <4>1. v # w /\ pc[v] # "idle"
        BY <1>3, <2>1, <3>2
      <4>2. cur[v] # cur[w] /\ outcome[cur[v]] = "open"
        BY <1>3, <4>1 DEF OpenCalls
      <4>3. cur[v] \in DOMAIN outcome
        <5>1. cur[v] \in 1..MaxCalls
          BY <1>1, <4>1, CurrentCall, CallFields
        <5> QED BY <1>1, <5>1 DEF TypeOK
      <4> QED BY <3>2, <4>2, <4>3
    <3> QED BY <1>3, <3>1, <3>2
  <2> QED BY <1>3, <2>1 DEF OpenCalls
<1>4. ASSUME NEW w \in Writers, Work(w) \/ Trouble(w)
      PROVE  OpenCalls'
  <2>1. /\ UNCHANGED cur /\ pc[w] # "idle"
        /\ \A v \in Writers : v # w => pc'[v] = pc[v]
    BY <1>1, <1>4
    DEF TypeOK, Work, ReadRevision, AppendNothing, BeginTx, TakeLock, SelectLatest,
        InsertRow, SendCommit, ServerCommits, CommitAcknowledged, RevisionConflict,
        DuplicateId, AppendFails, Trouble, ReadFails, ConnectionLost, Crash
  <2>2. \/ UNCHANGED outcome
        \/ /\ pc'[w] = "idle"
           /\ \E x : outcome' = [outcome EXCEPT ![cur[w]] = x]
    BY <1>1, <1>4
    DEF TypeOK, Work, ReadRevision, AppendNothing, BeginTx, TakeLock, SelectLatest,
        InsertRow, SendCommit, ServerCommits, CommitAcknowledged, RevisionConflict,
        DuplicateId, AppendFails, Trouble, ReadFails, ConnectionLost, Crash
  <2> QED BY <1>3, <2>1, <2>2
<1>5. ASSUME NEW o \in orphans, EndOrphan(o)
      PROVE  OpenCalls'
  BY <1>5 DEF EndOrphan, wvars, OpenCalls
<1>6. CASE UNCHANGED vars
  BY <1>6 DEF vars, wvars, OpenCalls
<1> QED
  BY <1>2, <1>4, <1>5, <1>6, Zenon DEF Next

(* append with its locks, conflicts, attempts and lost answers behaves like *)
(* an atomic append of the whole batch, followed by a truthful answer.      *)
THEOREM Refinement == Spec => ImplementsLog
<1> DEFINE journal == [a \in Aggregates |-> Journal(a)]
           confirmed == {b \in 1..Len(calls) : outcome[b] = "ok"}
<1>1. Init => Log!Init
  <2> SUFFICES ASSUME Init PROVE Log!Init
    OBVIOUS
  <2>1. calls = <<>> /\ event_log = {}
    BY DEF Init
  <2>2. ASSUME NEW a \in Aggregates PROVE Journal(a) = <<>>
    <3>1. Revisions(a) = 1..0
      BY <2>1 DEF Revisions, RowsOf
    <3>2. LatestRevision(a) = 0
      BY <3>1, MaxOfInterval DEF LatestRevision
    <3> QED BY <3>2 DEF Journal
  <2>3. confirmed = {}
    BY <2>1
  <2> QED BY <2>1, <2>2, <2>3 DEF Log!Init
<1>2. ASSUME BatchIInv, OpenCalls, [Next]_vars
      PROVE  [Log!Next]_Log!vars
  <2> USE DEF Goto, Return
  <2>1. TypeOK /\ IInv /\ IInv' /\ BatchIInv'
    BY <1>2, NextBatchIInv, NextIInv DEF BatchIInv, IInv
  <2>2. ASSUME UNCHANGED <<event_log, calls, outcome>>
        PROVE  UNCHANGED Log!vars
    BY <2>2, JournalsUnchanged DEF Log!vars
  <2>3. ASSUME NEW w \in Writers, NEW a \in Aggregates, NEW n \in 0..MaxBatch,
               StartCall(w, a, n)
        PROVE  Log!Next
    <3>1. journal' = journal
      BY <2>3, JournalsUnchanged DEF StartCall
    <3>2. /\ Len(calls) \in Nat /\ Len(calls') = Len(calls) + 1
          /\ Len(calls') \in 1..MaxCalls /\ UNCHANGED outcome
      BY <2>1, <2>3, BoundsAssumption DEF TypeOK, StartCall
    <3>3. outcome[Len(calls')] = "open"
      BY <1>2, <3>2 DEF BatchIInv
    <3>4. confirmed' = confirmed
      BY <3>2, <3>3
    <3>5. Log!Submit(a, n)
      BY <2>3, <3>1, <3>4 DEF StartCall, Log!Submit
    <3> QED BY <3>5 DEF Log!Next
  <2>4. ASSUME NEW b \in 1..Len(calls),
               event_log' = event_log \cup BatchRows(b, LatestRevision(calls[b].agg)),
               \A i \in 1..calls[b].size : ~ Stored(<<b, i>>),
               UNCHANGED <<calls, outcome>>
        PROVE  Log!Next
    <3>1. PICK A \in Aggregates, n \in Nat : A = calls[b].agg /\ n = calls[b].size
      BY <2>1, CallFields
    <3>2. /\ Journal(A)' = Journal(A) \o [i \in 1..n |-> <<b, i>>]
          /\ \A a \in Aggregates : a # A => Journal(a)' = Journal(a)
      BY <1>2, <2>1, <2>4, <3>1, CommitAppends
    <3>3. journal' = [journal EXCEPT ![A] = @ \o [i \in 1..n |-> <<b, i>>]]
      BY <3>2
    <3>4. \A i \in 1..n : ~ \E p \in 1..Len(Journal(A)) : Journal(A)[p] = <<b, i>>
      BY <1>2, <2>4, <3>1, StoredMeansListed
    <3>5. \A i \in 1..n : ~ \E p \in 1..Len(journal[A]) : journal[A][p] = <<b, i>>
      BY <3>4
    <3>6. confirmed' = confirmed
      BY <2>4
    <3> HIDE DEF journal, confirmed
    <3>7. Log!AppendBatch(b)
      BY <2>4, <3>1, <3>3, <3>5, <3>6
      DEF Log!AppendBatch, Log!StoredIn, Log!Batch, journal, confirmed
    <3> QED BY <3>7 DEF Log!Next
  <2>5. ASSUME NEW w \in Writers, CommitAcknowledged(w) \/ AppendNothing(w)
        PROVE  Log!Next
    <3>1. PICK b \in 1..Len(calls) : b = cur[w]
      BY <2>1, <2>5, CurrentCall DEF CommitAcknowledged, AppendNothing
    <3>2. \A i \in 1..calls[b].size : Stored(<<b, i>>)
      BY <1>2, <2>5, <3>1
      DEF CommitAcknowledged, AppendNothing, BatchIInv, AllStored, Size
    <3>3. PICK A \in Aggregates : A = calls[b].agg
      BY <2>1, CallFields
    <3>4. \A i \in 1..calls[b].size :
            \E p \in 1..Len(journal[A]) : journal[A][p] = <<b, i>>
      BY <1>2, <3>2, <3>3, StoredMeansListed
    <3>5. UNCHANGED <<event_log, calls>> /\ outcome' = [outcome EXCEPT ![b] = "ok"]
      BY <2>5, <3>1 DEF CommitAcknowledged, AppendNothing
    <3>6. journal' = journal
      BY <3>5, JournalsUnchanged
    <3>7. confirmed' = confirmed \cup {b}
      <4>1. b \in DOMAIN outcome
        BY <2>1, CallFields DEF TypeOK
      <4> QED BY <3>5, <4>1
    <3> HIDE DEF journal, confirmed
    <3>8. Log!Confirm(b)
      BY <3>3, <3>4, <3>5, <3>6, <3>7 DEF Log!Confirm, Log!StoredIn, journal, confirmed
    <3> QED BY <3>8 DEF Log!Next
  <2>6. ASSUME NEW w \in Writers, pc[w] # "idle", UNCHANGED <<event_log, calls>>,
               \E x \in {"err", "lost"} : outcome' = [outcome EXCEPT ![cur[w]] = x]
        PROVE  UNCHANGED Log!vars
    <3>1. journal' = journal
      BY <2>6, JournalsUnchanged
    <3>2. outcome[cur[w]] = "open"
      BY <1>2, <2>6 DEF OpenCalls
    <3>3. ASSUME NEW b \in 1..Len(calls) PROVE outcome'[b] = "ok" <=> outcome[b] = "ok"
      <4>1. b \in DOMAIN outcome
        BY <2>1, CallFields DEF TypeOK
      <4> QED BY <2>6, <3>2, <4>1
    <3>4. confirmed' = confirmed
      BY <2>6, <3>3
    <3> QED BY <2>6, <3>1, <3>4 DEF Log!vars
  <2>7. ASSUME NEW w \in Writers,
               ReadRevision(w) \/ BeginTx(w) \/ TakeLock(w) \/ SelectLatest(w)
                 \/ InsertRow(w) \/ SendCommit(w)
        PROVE  UNCHANGED Log!vars
    <3>1. UNCHANGED <<event_log, calls, outcome>>
      BY <2>7
      DEF ReadRevision, BeginTx, TakeLock, SelectLatest, InsertRow, SendCommit
    <3> QED BY <2>2, <3>1
  <2>8. ASSUME NEW w \in Writers,
               ReadFails(w) \/ RevisionConflict(w) \/ DuplicateId(w)
                 \/ ConnectionLost(w) \/ Crash(w)
        PROVE  UNCHANGED Log!vars
    <3>1. /\ pc[w] # "idle" /\ UNCHANGED <<event_log, calls>>
          /\ \/ UNCHANGED outcome
             \/ \E x \in {"err", "lost"} : outcome' = [outcome EXCEPT ![cur[w]] = x]
      BY <2>8
      DEF ReadFails, RevisionConflict, DuplicateId, ConnectionLost, Crash, AppendFails
    <3> QED BY <2>2, <2>6, <3>1
  <2>9. CASE UNCHANGED event_log
    <3>1. ASSUME NEW w \in Writers, ServerCommits(w) PROVE UNCHANGED <<calls, outcome>>
      BY <3>1 DEF ServerCommits
    <3>2. ASSUME NEW o \in orphans, EndOrphan(o) PROVE UNCHANGED <<calls, outcome>>
      BY <3>2 DEF EndOrphan
    <3>3. ASSUME NEW w \in Writers, Work(w) \/ Trouble(w) PROVE [Log!Next]_Log!vars
      BY <2>2, <2>5, <2>7, <2>8, <2>9, <3>1, <3>3, Zenon DEF Work, Trouble
    <3>4. ASSUME UNCHANGED vars PROVE UNCHANGED Log!vars
      BY <2>2, <3>4 DEF vars
    <3> QED BY <1>2, <2>2, <2>3, <2>9, <3>2, <3>3, <3>4, Zenon DEF Next
  <2>10. CASE ~ UNCHANGED event_log
    BY <1>2, <2>1, <2>4, <2>10, LogStep
  <2> QED BY <2>9, <2>10
<1>3. Init => OpenCalls
  BY DEF Init, OpenCalls
<1>4. BatchIInv /\ OpenCalls /\ [Next]_vars => OpenCalls'
  BY OpenCallsStep
<1> QED
  BY <1>1, <1>2, <1>3, <1>4, BatchInvariance, PTL DEF Spec, ImplementsLog, Log!Spec

=============================================================================
