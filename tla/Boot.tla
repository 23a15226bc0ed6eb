-------------------------------- MODULE Boot ---------------------------------
(***************************************************************************)
(* How the processes come up: Postgres starts and stops when it likes, the *)
(* API and the workers connect and wait for the event_log table in two     *)
(* nested loops of bounded attempts, the API then runs the migrations, and *)
(* the rebuild binary connects once and runs them without looking.  A      *)
(* worker goes through the same loops again whenever its loop cannot load  *)
(* the events.  The growing delays between attempts are steps; their       *)
(* lengths are left out.                                                   *)
(***************************************************************************)
EXTENDS Naturals

CONSTANTS
    Waiting,        \* the API and the workers: connect_with_retry
    Migrating,      \* the API and the rebuild binary: run_migrations
    ConnectAttempts, SchemaAttempts,    \* API_DB_..., WORKER_DB_...
    InitDb,         \* a fresh volume with migrations in docker-entrypoint-initdb.d
    MaxLaunches,    \* bound: how often a process is launched
    MaxStops        \* bound: how often Postgres stops

ASSUME BootAssumption ==
    /\ ConnectAttempts \in Nat /\ SchemaAttempts \in Nat /\ InitDb \in BOOLEAN
    /\ MaxLaunches \in Nat /\ MaxStops \in Nat

VARIABLES up, schema, stops, launches, proc

vars == <<up, schema, stops, launches, proc>>

Processes == Waiting \cup Migrating

(* The locals of a process: where it is, the attempts of the outer loop and *)
(* those of the inner one, and whether it has reached its main loop.        *)
Off == [pc |-> "off", attempts |-> 0, tries |-> 0, loop |-> FALSE]

Workers == Waiting \ Migrating

Init ==
    /\ up = FALSE /\ schema = FALSE /\ stops = 0
    /\ launches = [p \in Processes |-> 0]
    /\ proc = [p \in Processes |-> Off]

-----------------------------------------------------------------------------
StartPostgres ==
    /\ ~ up
    /\ up' = TRUE
    /\ schema' = (schema \/ InitDb)
    /\ UNCHANGED <<stops, launches, proc>>

StopPostgres ==
    /\ up /\ stops < MaxStops
    /\ up' = FALSE
    /\ stops' = stops + 1
    /\ UNCHANGED <<schema, launches, proc>>

(* A process is launched, or launched again after it gave up.               *)
Launch(p) ==
    /\ proc[p].pc \in {"off", "failed"}
    /\ launches[p] < MaxLaunches
    /\ launches' = [launches EXCEPT ![p] = @ + 1]
    /\ proc' = [proc EXCEPT ![p] = [Off EXCEPT !.pc = "connect"]]
    /\ UNCHANGED <<up, schema, stops>>

-----------------------------------------------------------------------------
(* Mutant of GivenUp: the error leaves the main loop as well.               *)
GivenUpForGood(p) == "failed"
(* connect_with_retry has failed: the process ends, unless it is a worker   *)
(* in its main loop, which goes on with the store it had.                   *)
GivenUp(p) == IF proc[p].loop THEN "load" ELSE "failed"

(* Where a process goes whose n-th attempt did not give it a store.         *)
AfterFailure(p, n) ==
    IF p \in Waiting /\ n < ConnectAttempts THEN "sleep" ELSE GivenUp(p)

(* One attempt of the outer loop; the rebuild binary has only this one.     *)
Connect(p) ==
    /\ proc[p].pc = "connect"
    /\ proc' = [proc EXCEPT ![p] =
            [pc |-> CASE ~ up -> AfterFailure(p, @.attempts + 1)
                      [] up /\ p \in Waiting -> "check"
                      [] up /\ p \notin Waiting -> "migrate",
             attempts |-> @.attempts + 1, tries |-> 0, loop |-> @.loop]]
    /\ UNCHANGED <<up, schema, stops, launches>>

(* Where the boot goes on with a store that is ready.                       *)
Ready(p) == IF p \in Migrating THEN "migrate" ELSE "load"

(* Mutant of SchemaLoads: any answer of the server counts.                  *)
ServerAnswers == up
(* event_store.load(Uuid::nil()), or load_all, succeeds.                    *)
SchemaLoads == up /\ schema

(* Mutant of Check: the attempt that found no schema is given back.         *)
CheckUncounted(p) ==
    LET b == proc[p] IN
    /\ b.pc = "check"
    /\ proc' = [proc EXCEPT ![p] =
            IF SchemaLoads
              THEN [b EXCEPT !.pc = Ready(p), !.loop = p \in Workers]
              ELSE IF b.tries + 1 < SchemaAttempts
                     THEN [b EXCEPT !.pc = "nap", !.tries = b.tries + 1]
                     ELSE [b EXCEPT !.pc = AfterFailure(p, b.attempts), !.tries = 0,
                                    !.attempts = @ - 1]]
    /\ UNCHANGED <<up, schema, stops, launches>>

(* wait_for_store_ready: a load; when it was the last of the inner loop the *)
(* attempt of the outer loop has failed as well.                            *)
Check(p) ==
    LET b == proc[p] IN
    /\ b.pc = "check"
    /\ proc' = [proc EXCEPT ![p] =
            IF SchemaLoads
              THEN [b EXCEPT !.pc = Ready(p), !.loop = p \in Workers]
              ELSE IF b.tries + 1 < SchemaAttempts
                     THEN [b EXCEPT !.pc = "nap", !.tries = b.tries + 1]
                     ELSE [b EXCEPT !.pc = AfterFailure(p, b.attempts), !.tries = 0]]
    /\ UNCHANGED <<up, schema, stops, launches>>

(* The main loop of a worker: load_all, a turn on what it loaded, and again.*)
(* When it fails the worker rests for a poll interval and connects anew.    *)
Load(p) ==
    /\ proc[p].pc = "load"
    /\ proc' = [proc EXCEPT ![p].pc = IF SchemaLoads THEN "running" ELSE "rest"]
    /\ UNCHANGED <<up, schema, stops, launches>>

Turn(p) ==
    /\ proc[p].pc = "running" /\ p \in Workers
    /\ proc' = [proc EXCEPT ![p].pc = "load"]
    /\ UNCHANGED <<up, schema, stops, launches>>

Reconnect(p) ==
    /\ proc[p].pc = "rest"
    /\ proc' = [proc EXCEPT ![p] = [Off EXCEPT !.pc = "connect", !.loop = TRUE]]
    /\ UNCHANGED <<up, schema, stops, launches>>

(* The two sleeps.                                                          *)
Wake(p) ==
    /\ proc[p].pc \in {"nap", "sleep"}
    /\ proc' = [proc EXCEPT ![p].pc = IF @ = "nap" THEN "check" ELSE "connect"]
    /\ UNCHANGED <<up, schema, stops, launches>>

(* Mutant of MigrationApplies: CREATE TABLE without IF NOT EXISTS.          *)
MigrationAppliesOnce == up /\ ~ schema
(* The migrations create what is not there, whoever made it.                *)
MigrationApplies == up

Migrate(p) ==
    /\ proc[p].pc = "migrate"
    /\ IF MigrationApplies
         THEN schema' = TRUE /\ proc' = [proc EXCEPT ![p].pc = "running"]
         ELSE schema' = schema /\ proc' = [proc EXCEPT ![p].pc = "failed"]
    /\ UNCHANGED <<up, stops, launches>>

-----------------------------------------------------------------------------
Step(p) ==
    \/ Connect(p) \/ Check(p) \/ Wake(p) \/ Migrate(p)
    \/ Load(p) \/ Turn(p) \/ Reconnect(p)

Next ==
    \/ StartPostgres \/ StopPostgres
    \/ \E p \in Processes : Launch(p) \/ Step(p)

(* A process that was launched goes on; nobody has to launch one, and       *)
(* Postgres may be up or down for as long as it likes.                      *)
Spec == Init /\ [][Next]_vars /\ \A p \in Processes : WF_vars(Step(p))

-----------------------------------------------------------------------------
Booting(p) == proc[p].pc \in {"connect", "check", "nap", "sleep", "migrate"}

(* Nobody works on a database without tables: the worker, which migrates    *)
(* nothing, starts its loop and the API serves only with event_log there,   *)
(* however Postgres comes and goes between the check and the migration, and *)
(* also when the worker goes on after connections it did not get.           *)
RunsOnSchema ==
    \A p \in Processes : proc[p].pc \in {"load", "running"} => schema

(* A boot ends: the process works or has given up, in the inner loop too,   *)
(* and also when Postgres never starts or the tables never come; so does a  *)
(* worker's reconnecting.                                                   *)
BootEnds == \A p \in Processes : Booting(p) ~> ~ Booting(p)

(* A process that is still waiting when the database is ready comes up,     *)
(* unless Postgres goes down again: the migrations bear with the tables     *)
(* that initdb.d or another process made.                                   *)
ReadyRuns ==
    \A p \in Processes :
        (Booting(p) /\ up /\ schema) ~> (proc[p].pc = "running" \/ ~ up)

(* A worker that once worked is not lost with the database: however long    *)
(* Postgres was away, and however many reconnects were given up, it works   *)
(* again when Postgres is back, unless it goes down again (worker.rs, the   *)
(* Err branch of load_all).                                                 *)
WorkerRecovers ==
    \A p \in Workers :
        (proc[p].loop /\ up) ~> (proc[p].pc = "running" \/ ~ up)

-----------------------------------------------------------------------------
(* README.md: the API auto-runs migrations on boot.  It does so only after  *)
(* connect_with_retry has found event_log, which on a database that initdb  *)
(* did not prepare nobody but the API would create: it gives up instead.    *)
ApiBringsSchema ==
    \A p \in Waiting \cap Migrating : (Booting(p) /\ up) ~> (schema \/ ~ up)

=============================================================================
