----------------------------- MODULE EventStore -----------------------------
(***************************************************************************)
(* The event_log table and everything that appends to it:                  *)
(* PostgresEventStore::append (crates/infra/src/persistence.rs), its two   *)
(* kinds of callers - the orchestrator, which reads next_revision and      *)
(* appends once, and the worker, which wraps the same two steps in         *)
(* append_events_with_retry - and what Postgres does with the transaction  *)
(* of a caller that failed, lost its connection or crashed.                *)
(*                                                                         *)
(* One step is one statement sent to the database, or one thing the        *)
(* database or the process does by itself.  Rows are                       *)
(* [agg, rev, id]: resource_id, revision and primary key; the b-th call's  *)
(* i-th event has the identity <<b, i>>, which all its attempts reuse.     *)
(***************************************************************************)
EXTENDS Integers, Sequences, FiniteSets

CONSTANTS
    Aggregates,     \* the runs (resource_id)
    LockKeys,       \* the values of hashtext: advisory locks are taken on these
    HashText,       \* hashtext, as a function; two runs may share a key
    Writers,        \* API request handlers and worker processes
    MaxAttempts,    \* append attempts of a writer: 1 for the orchestrator
    Processes,      \* the API and the worker processes, a pool each
    ProcessOf,      \* the process a writer runs in, as a function
    PoolSize,       \* connections of a process's pool
    MaxCalls,       \* bound: append calls in a behaviour
    MaxBatch        \* bound: events in a call

ASSUME HashTextAssumption == HashText \in [Aggregates -> LockKeys]
ASSUME AttemptsAssumption == MaxAttempts \in [Writers -> Nat \ {0}]
ASSUME PoolAssumption ==
    ProcessOf \in [Writers -> Processes] /\ PoolSize \in [Processes -> Nat \ {0}]
ASSUME BoundsAssumption == MaxCalls \in Nat /\ MaxBatch \in Nat

VARIABLES
    event_log,  \* the committed rows
    orphans,    \* transactions the server still has to end, their client gone
    calls,      \* calls[b]: the b-th append call, its aggregate and batch size
    outcome,    \* outcome[b]: what the caller of b was told
    pc,         \* pc[w]: the statement the writer is at
    cur,        \* cur[w]: the call it is working on
    attempt,    \* attempt[w]: attempts started for that call
    base,       \* base[w]: the latest revision read before the transaction
    latest,     \* latest[w]: COALESCE(MAX(revision), 0) inside the transaction
    done        \* done[w]: rows inserted so far in the transaction

wvars == <<pc, cur, attempt, base, latest, done>>
vars  == <<event_log, orphans, calls, outcome, wvars>>

-----------------------------------------------------------------------------
(* The table as the queries see it.                                         *)
RowsOf(a)    == {row \in event_log : row.agg = a}
Revisions(a) == {row.rev : row \in RowsOf(a)}
Stored(id)   == \E row \in event_log : row.id = id

(* SELECT COALESCE(MAX(revision), 0); also events.last() of a load          *)
MaxOrZero(R)      == CHOOSE m \in R \cup {0} : \A r \in R : r <= m
LatestRevision(a) == MaxOrZero(Revisions(a))

(* The rows of call b when its first event has revision from + 1            *)
BatchRows(b, from) ==
    {[agg |-> calls[b].agg, rev |-> from + i, id |-> <<b, i>>] :
        i \in 1..calls[b].size}

Agg(w)  == calls[cur[w]].agg
Size(w) == calls[cur[w]].size

-----------------------------------------------------------------------------
(* pg_advisory_xact_lock: the lock belongs to the transaction and goes with *)
(* it, so whoever has an unfinished transaction past the lock statement     *)
(* holds the key - a live writer, or a transaction its client left behind.  *)
HoldsLock(w) == pc[w] \in {"select", "insert", "commit"}
KeyOf(w)     == HashText[Agg(w)]
OrphanKey(o) == HashText[calls[o.call].agg]

KeyFree(k) ==
    /\ \A w \in Writers : HoldsLock(w) => KeyOf(w) # k
    /\ \A o \in orphans : OrphanKey(o) # k

(* The pool: a transaction keeps the connection it began on until append    *)
(* returns, and any statement outside of one needs a connection, too.       *)
HasConnection(w)  == pc[w] \in {"lock", "select", "insert", "commit", "committed"}
InUse(p)          == {w \in Writers : HasConnection(w) /\ ProcessOf[w] = p}
ConnectionFree(w) == Cardinality(InUse(ProcessOf[w])) < PoolSize[ProcessOf[w]]

-----------------------------------------------------------------------------
Init ==
    /\ event_log = {}
    /\ orphans = {}
    /\ calls = <<>>
    /\ outcome = [b \in 1..MaxCalls |-> "open"]
    /\ pc = [w \in Writers |-> "idle"]
    /\ cur = [w \in Writers |-> 0]
    /\ attempt = [w \in Writers |-> 0]
    /\ base = [w \in Writers |-> 0]
    /\ latest = [w \in Writers |-> 0]
    /\ done = [w \in Writers |-> 0]

Goto(w, l) == pc' = [pc EXCEPT ![w] = l]

(* The call returns to its caller.                                          *)
Return(w, result) ==
    /\ outcome' = [outcome EXCEPT ![cur[w]] = result]
    /\ Goto(w, "idle")

(* A writer has a batch of n events for run a.                              *)
StartCall(w, a, n) ==
    /\ pc[w] = "idle"
    /\ Len(calls) < MaxCalls
    /\ calls' = Append(calls, [agg |-> a, size |-> n])
    /\ cur' = [cur EXCEPT ![w] = Len(calls) + 1]
    /\ attempt' = [attempt EXCEPT ![w] = 0]
    /\ Goto(w, "load")
    /\ UNCHANGED <<event_log, orphans, outcome, base, latest, done>>

(* Mutant of ReadRevision: the revision before the last.                    *)
ReadOneShort(w) ==
    /\ pc[w] = "load"
    /\ ConnectionFree(w)
    /\ attempt' = [attempt EXCEPT ![w] = @ + 1]
    /\ base' = [base EXCEPT ![w] = LatestRevision(Agg(w)) - 1]
    /\ Goto(w, "begin")
    /\ UNCHANGED <<event_log, orphans, calls, outcome, cur, latest, done>>

(* next_revision, or the load at the top of the retry loop: the revisions   *)
(* of the batch are rebased on what is committed now, with no lock held.    *)
ReadRevision(w) ==
    /\ pc[w] = "load"
    /\ ConnectionFree(w)
    /\ attempt' = [attempt EXCEPT ![w] = @ + 1]
    /\ base' = [base EXCEPT ![w] = LatestRevision(Agg(w))]
    /\ Goto(w, "begin")
    /\ UNCHANGED <<event_log, orphans, calls, outcome, cur, latest, done>>

(* That load fails: the attempt counts, the last one is an error.           *)
ReadFails(w) ==
    /\ pc[w] = "load"
    /\ attempt' = [attempt EXCEPT ![w] = @ + 1]
    /\ IF attempt'[w] >= MaxAttempts[w]
         THEN Return(w, "err")
         ELSE UNCHANGED <<pc, outcome>>
    /\ UNCHANGED <<event_log, orphans, calls, cur, base, latest, done>>

(* append of no event at all: Ok before any statement.                      *)
AppendNothing(w) ==
    /\ pc[w] = "begin"
    /\ Size(w) = 0
    /\ Return(w, "ok")
    /\ UNCHANGED <<event_log, orphans, calls, cur, attempt, base, latest, done>>

BeginTx(w) ==
    /\ pc[w] = "begin"
    /\ Size(w) > 0
    /\ ConnectionFree(w)
    /\ Goto(w, "lock")
    /\ UNCHANGED <<event_log, orphans, calls, outcome, cur, attempt, base, latest, done>>

(* Mutant of TakeLock: pg_try_advisory_xact_lock, its answer not looked at. *)
TryLock(w) ==
    /\ pc[w] = "lock"
    /\ Goto(w, "select")
    /\ UNCHANGED <<event_log, orphans, calls, outcome, cur, attempt, base, latest, done>>

(* The lock statement returns once no other transaction has the key.        *)
TakeLock(w) ==
    /\ pc[w] = "lock"
    /\ KeyFree(KeyOf(w))
    /\ Goto(w, "select")
    /\ UNCHANGED <<event_log, orphans, calls, outcome, cur, attempt, base, latest, done>>

(* Mutant of SelectLatest: the revision read before the lock is used.       *)
SelectNothing(w) ==
    /\ pc[w] = "select"
    /\ latest' = [latest EXCEPT ![w] = base[w]]
    /\ done' = [done EXCEPT ![w] = 0]
    /\ Goto(w, "insert")
    /\ UNCHANGED <<event_log, orphans, calls, outcome, cur, attempt, base>>

(* And: it is sent on another connection of the pool.                       *)
SelectOutside(w) ==
    /\ pc[w] = "select"
    /\ ConnectionFree(w)
    /\ latest' = [latest EXCEPT ![w] = LatestRevision(Agg(w))]
    /\ done' = [done EXCEPT ![w] = 0]
    /\ Goto(w, "insert")
    /\ UNCHANGED <<event_log, orphans, calls, outcome, cur, attempt, base>>

(* SELECT MAX: a statement of its own, so it sees every commit before it.   *)
SelectLatest(w) ==
    /\ pc[w] = "select"
    /\ latest' = [latest EXCEPT ![w] = LatestRevision(Agg(w))]
    /\ done' = [done EXCEPT ![w] = 0]
    /\ Goto(w, "insert")
    /\ UNCHANGED <<event_log, orphans, calls, outcome, cur, attempt, base>>

(* The next event has the expected revision, and its identity is new.       *)
EventRevision(w) == base[w] + done[w] + 1
Expected(w)      == latest[w] + done[w] + 1
(* Mutants: no check of the revision; no primary key; rows inserted outside *)
(* of the transaction.                                                      *)
RevisionIgnored(w) == TRUE
IdIgnored(w)       == TRUE

RevisionFits(w)  == EventRevision(w) = Expected(w)
IdIsNew(w)       == ~ Stored(<<cur[w], done[w] + 1>>)

InsertAutocommitted(w) ==
    /\ pc[w] = "insert"
    /\ done[w] < Size(w)
    /\ RevisionFits(w)
    /\ IdIsNew(w)
    /\ event_log' = event_log \cup
         {[agg |-> Agg(w), rev |-> EventRevision(w), id |-> <<cur[w], done[w] + 1>>]}
    /\ done' = [done EXCEPT ![w] = @ + 1]
    /\ UNCHANGED <<orphans, calls, outcome, pc, cur, attempt, base, latest>>

InsertRow(w) ==
    /\ pc[w] = "insert"
    /\ done[w] < Size(w)
    /\ RevisionFits(w)
    /\ IdIsNew(w)
    /\ done' = [done EXCEPT ![w] = @ + 1]
    /\ UNCHANGED <<event_log, orphans, calls, outcome, pc, cur, attempt, base, latest>>

SendCommit(w) ==
    /\ pc[w] = "insert"
    /\ done[w] = Size(w)
    /\ Goto(w, "commit")
    /\ UNCHANGED <<event_log, orphans, calls, outcome, cur, attempt, base, latest, done>>

(* The client is gone from its transaction: the server ends it later, and   *)
(* may still commit it if COMMIT was on its way.                            *)
LeaveTransaction(w) ==
    orphans' = IF HoldsLock(w)
                 THEN orphans \cup {[call   |-> cur[w],
                                     from   |-> base[w],
                                     commit |-> pc[w] = "commit"]}
                 ELSE orphans

(* The server commits: the rows appear together and the lock goes.          *)
ServerCommits(w) ==
    /\ pc[w] = "commit"
    /\ event_log' = event_log \cup BatchRows(cur[w], base[w])
    /\ Goto(w, "committed")
    /\ UNCHANGED <<orphans, calls, outcome, cur, attempt, base, latest, done>>

(* Mutant of CommitAcknowledged: Ok before the server has committed.        *)
AcknowledgedEarly(w) ==
    /\ pc[w] \in {"commit", "committed"}
    /\ LeaveTransaction(w)
    /\ Return(w, "ok")
    /\ UNCHANGED <<event_log, calls, cur, attempt, base, latest, done>>

CommitAcknowledged(w) ==
    /\ pc[w] = "committed"
    /\ Return(w, "ok")
    /\ UNCHANGED <<event_log, orphans, calls, cur, attempt, base, latest, done>>

(* append returns an error: the worker tries again with the same events,    *)
(* up to its number of attempts; the orchestrator gives the error back.     *)
AppendFails(w) ==
    /\ LeaveTransaction(w)
    /\ IF attempt[w] >= MaxAttempts[w]
         THEN Return(w, "err")
         ELSE Goto(w, "load") /\ UNCHANGED outcome
    /\ UNCHANGED <<event_log, calls, cur, attempt, base, latest, done>>

(* "invalid event revision for aggregate": somebody appended in between.    *)
RevisionConflict(w) ==
    /\ pc[w] = "insert"
    /\ done[w] < Size(w)
    /\ ~ RevisionFits(w)
    /\ AppendFails(w)

(* The primary key refuses an event an earlier attempt did commit.          *)
DuplicateId(w) ==
    /\ pc[w] = "insert"
    /\ done[w] < Size(w)
    /\ RevisionFits(w)
    /\ ~ IdIsNew(w)
    /\ AppendFails(w)

(* Any statement fails, the answer to COMMIT included.                      *)
ConnectionLost(w) ==
    /\ pc[w] \in {"begin", "lock", "select", "insert", "commit", "committed"}
    /\ pc[w] = "begin" => Size(w) > 0
    /\ AppendFails(w)

(* The process dies and restarts; nobody learns what became of the call.    *)
Crash(w) ==
    /\ pc[w] # "idle"
    /\ LeaveTransaction(w)
    /\ Return(w, "lost")
    /\ UNCHANGED <<event_log, calls, cur, attempt, base, latest, done>>

(* The server ends a transaction its client left behind.                    *)
EndOrphan(o) ==
    /\ orphans' = orphans \ {o}
    /\ \/ UNCHANGED event_log
       \/ /\ o.commit
          /\ event_log' = event_log \cup BatchRows(o.call, o.from)
    /\ UNCHANGED <<calls, outcome, wvars>>

Work(w) ==
    \/ ReadRevision(w)
    \/ AppendNothing(w)
    \/ BeginTx(w)
    \/ TakeLock(w)
    \/ SelectLatest(w)
    \/ InsertRow(w)
    \/ SendCommit(w)
    \/ ServerCommits(w)
    \/ CommitAcknowledged(w)
    \/ RevisionConflict(w)
    \/ DuplicateId(w)

Trouble(w) == ReadFails(w) \/ ConnectionLost(w) \/ Crash(w)

Next ==
    \/ \E w \in Writers, a \in Aggregates, n \in 0..MaxBatch : StartCall(w, a, n)
    \/ \E w \in Writers : Work(w) \/ Trouble(w)
    \/ \E o \in orphans : EndOrphan(o)

Spec == Init /\ [][Next]_vars

(* A live process keeps issuing statements and Postgres keeps answering     *)
(* and ending transactions; the queues for a lock and for a connection are  *)
(* first come, first served, so a waiter whose key or pool is freed again   *)
(* and again gets it.  New calls and failures are nobody's obligation.      *)
FairSpec ==
    /\ Spec
    /\ \A w \in Writers : SF_vars(Work(w))
    /\ WF_vars(\E o \in orphans : EndOrphan(o))

-----------------------------------------------------------------------------
Pcs == {"idle", "load", "begin", "lock", "select", "insert", "commit", "committed"}
Rows == [agg : Aggregates, rev : Nat, id : Nat \X Nat]
Orphan == [call : Nat \ {0}, from : Nat, commit : BOOLEAN]

(* The variables have their types, and a writer that is at work is at work  *)
(* on a call that exists.                                                   *)
TypeOK ==
    /\ event_log \in SUBSET Rows
    /\ orphans \in SUBSET Orphan
    /\ calls \in Seq([agg : Aggregates, size : 0..MaxBatch])
    /\ Len(calls) <= MaxCalls
    /\ outcome \in [1..MaxCalls -> {"open", "ok", "err", "lost"}]
    /\ pc \in [Writers -> Pcs]
    /\ cur \in [Writers -> 0..Len(calls)]
    /\ attempt \in [Writers -> Nat]
    /\ base \in [Writers -> Nat]
    /\ latest \in [Writers -> Nat]
    /\ done \in [Writers -> Nat]
    /\ \A w \in Writers : pc[w] # "idle" => cur[w] # 0
    /\ \A o \in orphans : o.call \in 1..Len(calls)

-----------------------------------------------------------------------------
(* pg_advisory_xact_lock (persistence.rs, append): two transactions that    *)
(* got past the lock statement, live or left behind by a dead client, never *)
(* have the same key.                                                       *)
LockExclusive ==
    /\ \A v, w \in Writers :
         HoldsLock(v) /\ HoldsLock(w) /\ KeyOf(v) = KeyOf(w) => v = w
    /\ \A w \in Writers, o \in orphans : HoldsLock(w) => KeyOf(w) # OrphanKey(o)
    /\ \A o, p \in orphans : OrphanKey(o) = OrphanKey(p) => o = p

(* The revision append compares with, read once after the lock, stays the   *)
(* last of the run until the transaction ends; a transaction on its way to  *)
(* commit, even one whose client is gone, starts right after that revision  *)
(* and brings only events that are not stored.                              *)
LiveTail(w) ==
    /\ pc[w] \in {"insert", "commit"} =>
         /\ latest[w] = LatestRevision(Agg(w))
         /\ done[w] <= Size(w)
         /\ done[w] > 0 => base[w] = latest[w]
         /\ \A i \in 1..done[w] : ~ Stored(<<cur[w], i>>)
    /\ pc[w] = "commit" => done[w] = Size(w) /\ done[w] > 0
OrphanTail(o) ==
    o.commit =>
        /\ o.from = LatestRevision(calls[o.call].agg)
        /\ \A i \in 1..calls[o.call].size : ~ Stored(<<o.call, i>>)
TransactionOwnsTail ==
    /\ \A w \in Writers : LiveTail(w)
    /\ \A o \in orphans : OrphanTail(o)

(* The revisions of a run are 1, 2, ... without a gap and without two       *)
(* events at one revision, though no unique index of 001_event_log.sql says *)
(* so: only the lock and the check of append make it true.                  *)
RevisionsDense ==
    /\ \A a \in Aggregates : Revisions(a) = 1..LatestRevision(a)
    /\ \A q, r \in event_log : q.agg = r.agg /\ q.rev = r.rev => q = r

(* A call's events are in the log all together, at consecutive revisions of *)
(* its run and once each, or not at all: whatever was retried after an      *)
(* answer that got lost, and whoever appended in between.                   *)
BatchAtomic ==
    \A b \in 1..Len(calls) :
        LET mine == {row \in event_log : row.id[1] = b} IN
        \/ mine = {}
        \/ \E from \in 0..LatestRevision(calls[b].agg) : mine = BatchRows(b, from)

(* A caller that was told Ok finds its events in the log for ever.          *)
OkIsDurable ==
    \A b \in 1..Len(calls) :
        outcome[b] = "ok" => \A i \in 1..calls[b].size : Stored(<<b, i>>)

(* The log only grows, and only after the last revision of a run: a reader  *)
(* that folded a prefix never has to fold it again.                         *)
GrowsAtTail ==
    [][/\ event_log \subseteq event_log'
       /\ \A row \in event_log' \ event_log : row.rev > LatestRevision(row.agg)]_vars

(* Every call of append or append_events_with_retry returns: the lock is    *)
(* always released in the end, nobody who holds it or a connection waits    *)
(* for another connection of a pool that may be empty, and the number of    *)
(* attempts is bounded.                                                     *)
CallsReturn == \A w \in Writers : pc[w] # "idle" ~> pc[w] = "idle"

(* The abstract log: the journal of a run lists the identities of its rows  *)
(* by revision.                                                             *)
EventAt(a, r) == (CHOOSE row \in event_log : row.agg = a /\ row.rev = r).id
Journal(a)    == [r \in 1..LatestRevision(a) |-> EventAt(a, r)]

Log == INSTANCE AppendOnlyLog WITH
    requests  <- calls,
    journal   <- [a \in Aggregates |-> Journal(a)],
    confirmed <- {b \in 1..Len(calls) : outcome[b] = "ok"}

(* append with its retries implements an atomic batch append.               *)
ImplementsLog == Log!Spec

=============================================================================
