----------------------------- MODULE BootProofs ------------------------------
(***************************************************************************)
(* For any set of processes, any numbers of attempts and any coming and    *)
(* going of Postgres: nobody works on a database without tables.           *)
(***************************************************************************)
EXTENDS Boot, TLAPS

(* A process has its locals; the first part is what lets a step change one  *)
(* process and no other.                                                    *)
Places == {"off", "connect", "check", "nap", "sleep", "migrate", "load", "rest",
           "running", "failed"}
Rec == [pc : Places, attempts : Nat, tries : Nat, loop : BOOLEAN]
Locals == proc \in [Processes -> Rec]

(* Who works, rests from it or reconnects in the main loop has seen the     *)
(* tables: a worker that gives up a reconnect goes back to work without     *)
(* another look, and this is why it may.                                    *)
SawTables(r) == r.loop \/ r.pc \in {"load", "running", "rest"}
TablesSeen == \A p \in Processes : SawTables(proc[p]) => schema

BootInv == Locals /\ TablesSeen

(* A failed attempt leads to work only a process that worked before.        *)
LEMMA FailureIsNoNews ==
    ASSUME Locals, NEW p \in Processes, NEW n
    PROVE  /\ AfterFailure(p, n) \in Places
           /\ AfterFailure(p, n) \in {"load", "running", "rest"} => proc[p].loop
<1>1. CASE p \in Waiting /\ n < ConnectAttempts
  BY <1>1 DEF AfterFailure, Places
<1>2. CASE ~ (p \in Waiting /\ n < ConnectAttempts)
  <2>1. AfterFailure(p, n) = GivenUp(p)
    BY <1>2 DEF AfterFailure
  <2>2. CASE proc[p].loop
    BY <2>1, <2>2 DEF GivenUp, Places
  <2>3. CASE ~ proc[p].loop
    BY <2>1, <2>3 DEF GivenUp, Places
  <2> QED BY <2>2, <2>3
<1> QED BY <1>1, <1>2

(* A step of one process keeps the invariant when the tables stay and what  *)
(* the process is afterwards is true to them.                               *)
LEMMA MoveOne ==
    ASSUME BootInv, NEW p \in Processes, NEW r \in Rec,
           proc' = [proc EXCEPT ![p] = r], schema => schema', SawTables(r) => schema'
    PROVE  BootInv'
<1>1. Locals'
  BY DEF BootInv, Locals
<1>2. ASSUME NEW q \in Processes, SawTables(proc'[q]) PROVE schema'
  <2>1. CASE q = p
    BY <1>2, <2>1 DEF BootInv, Locals
  <2>2. CASE q # p
    BY <1>2, <2>2 DEF BootInv, Locals, TablesSeen
  <2> QED BY <2>1, <2>2
<1> QED BY <1>1, <1>2 DEF BootInv, TablesSeen

(* The places of one attempt of the outer loop.                             *)
LEMMA ConnectStep ==
    ASSUME BootInv, NEW p \in Processes, Connect(p)
    PROVE  BootInv'
<1> DEFINE pc == CASE ~ up -> AfterFailure(p, proc[p].attempts + 1)
                   [] up /\ p \in Waiting -> "check"
                   [] up /\ p \notin Waiting -> "migrate"
           r  == [pc |-> pc, attempts |-> proc[p].attempts + 1, tries |-> 0,
                  loop |-> proc[p].loop]
<1>1. proc' = [proc EXCEPT ![p] = r] /\ schema' = schema
  BY DEF Connect
<1>2. Locals /\ proc[p] \in Rec /\ (SawTables(proc[p]) => schema)
  BY DEF BootInv, Locals, TablesSeen
<1>3. pc \in Places /\ (pc \in {"load", "running", "rest"} => proc[p].loop)
  <2>1. CASE ~ up
    BY <1>2, <2>1, FailureIsNoNews
  <2>2. CASE up
    BY <2>2 DEF Places
  <2> QED BY <2>1, <2>2
<1>4. proc[p].attempts + 1 \in Nat /\ proc[p].loop \in BOOLEAN
  BY <1>2 DEF Rec
<1> HIDE DEF pc
<1>5. r \in Rec
  BY <1>3, <1>4 DEF Rec
<1>6. SawTables(r) => SawTables(proc[p])
  BY <1>3 DEF SawTables
<1> QED BY <1>1, <1>2, <1>5, <1>6, MoveOne

(* A check that loaded the table knows that it is there.                    *)
LEMMA CheckStep ==
    ASSUME BootInv, NEW p \in Processes, Check(p)
    PROVE  BootInv'
<1>1. schema' = schema /\ proc[p].pc = "check"
  BY DEF Check
<1>2. Locals /\ proc[p] \in Rec /\ (SawTables(proc[p]) => schema)
  BY DEF BootInv, Locals, TablesSeen
<1>3. CASE SchemaLoads
  <2> DEFINE r == [proc[p] EXCEPT !.pc = Ready(p), !.loop = p \in Workers]
  <2>1. proc' = [proc EXCEPT ![p] = r] /\ schema
    BY <1>3 DEF Check, SchemaLoads
  <2>2. Ready(p) \in Places /\ (p \in Workers) \in BOOLEAN
    BY DEF Ready, Places
  <2>3. r \in Rec
    BY <1>2, <2>2 DEF Rec
  <2> QED BY <1>1, <2>1, <2>3, MoveOne
<1>4. CASE ~ SchemaLoads /\ proc[p].tries + 1 < SchemaAttempts
  <2> DEFINE n == proc[p].tries + 1
             r == [proc[p] EXCEPT !.pc = "nap", !.tries = n]
  <2>1. proc' = [proc EXCEPT ![p] = r]
    BY <1>4 DEF Check
  <2>2. n \in Nat
    BY <1>2 DEF Rec
  <2>3. "nap" \in Places
    BY DEF Places
  <2> HIDE DEF n
  <2>4. r \in Rec
    BY <1>2, <2>2, <2>3 DEF Rec
  <2>5. SawTables(r) => SawTables(proc[p])
    BY <1>2 DEF SawTables, Rec
  <2> QED BY <1>1, <1>2, <2>1, <2>4, <2>5, MoveOne
<1>5. CASE ~ SchemaLoads /\ ~ (proc[p].tries + 1 < SchemaAttempts)
  <2> DEFINE pc == AfterFailure(p, proc[p].attempts)
             r  == [proc[p] EXCEPT !.pc = pc, !.tries = 0]
  <2>1. proc' = [proc EXCEPT ![p] = r]
    BY <1>5 DEF Check
  <2>2. pc \in Places /\ (pc \in {"load", "running", "rest"} => proc[p].loop)
    BY <1>2, FailureIsNoNews
  <2> HIDE DEF pc
  <2>3. r \in Rec
    BY <1>2, <2>2 DEF Rec
  <2>4. SawTables(r) => SawTables(proc[p])
    BY <1>2, <2>2 DEF SawTables, Rec
  <2> QED BY <1>1, <1>2, <2>1, <2>3, <2>4, MoveOne
<1> QED BY <1>3, <1>4, <1>5

(* The main loop of a worker.                                               *)
LEMMA LoopStep ==
    ASSUME BootInv, NEW p \in Processes, Load(p) \/ Turn(p) \/ Reconnect(p)
    PROVE  BootInv'
<1>1. schema' = schema
  BY DEF Load, Turn, Reconnect
<1>2. Locals /\ proc[p] \in Rec /\ (SawTables(proc[p]) => schema)
  BY DEF BootInv, Locals, TablesSeen
<1>3. proc[p].pc \in {"load", "running", "rest"}
  BY DEF Load, Turn, Reconnect
<1>4. schema
  BY <1>2, <1>3 DEF SawTables
<1>5. CASE Load(p)
  <2> DEFINE pc == IF SchemaLoads THEN "running" ELSE "rest"
             r  == [proc[p] EXCEPT !.pc = pc]
  <2>1. proc' = [proc EXCEPT ![p] = r]
    BY <1>5 DEF Load
  <2>2. r \in Rec
    BY <1>2 DEF Rec, Places
  <2> QED BY <1>1, <1>4, <2>1, <2>2, MoveOne
<1>6. CASE Turn(p)
  <2> DEFINE r == [proc[p] EXCEPT !.pc = "load"]
  <2>1. proc' = [proc EXCEPT ![p] = r]
    BY <1>6 DEF Turn
  <2>2. r \in Rec
    BY <1>2 DEF Rec, Places
  <2> QED BY <1>1, <1>4, <2>1, <2>2, MoveOne
<1>7. CASE Reconnect(p)
  <2> DEFINE r == [Off EXCEPT !.pc = "connect", !.loop = TRUE]
  <2>1. proc' = [proc EXCEPT ![p] = r]
    BY <1>7 DEF Reconnect
  <2>2. Off \in Rec /\ "connect" \in Places
    BY DEF Off, Rec, Places
  <2>3. r \in Rec
    BY <2>2 DEF Rec
  <2> QED BY <1>1, <1>4, <2>1, <2>3, MoveOne
<1> QED BY <1>5, <1>6, <1>7

(* The rest of a boot: the launch, the sleeps and the migrations.           *)
LEMMA PlainStep ==
    ASSUME BootInv, NEW p \in Processes, Launch(p) \/ Wake(p) \/ Migrate(p)
    PROVE  BootInv'
<1>1. Locals /\ proc[p] \in Rec /\ (SawTables(proc[p]) => schema)
  BY DEF BootInv, Locals, TablesSeen
<1>2. CASE Launch(p)
  <2> DEFINE r == [Off EXCEPT !.pc = "connect"]
  <2>1. proc' = [proc EXCEPT ![p] = r] /\ schema' = schema
    BY <1>2 DEF Launch
  <2>2. Off \in Rec /\ ~ Off.loop /\ "connect" \in Places
    BY DEF Off, Rec, Places
  <2>3. r \in Rec /\ ~ SawTables(r)
    BY <2>2 DEF Rec, SawTables
  <2> QED BY <2>1, <2>3, MoveOne
<1>3. CASE Wake(p)
  <2> DEFINE pc == IF proc[p].pc = "nap" THEN "check" ELSE "connect"
             r  == [proc[p] EXCEPT !.pc = pc]
  <2>1. proc' = [proc EXCEPT ![p] = r] /\ schema' = schema
    BY <1>3 DEF Wake
  <2>2. r \in Rec
    BY <1>1 DEF Rec, Places
  <2>3. SawTables(r) => SawTables(proc[p])
    BY <1>1 DEF SawTables, Rec
  <2> QED BY <1>1, <2>1, <2>2, <2>3, MoveOne
<1>4. CASE Migrate(p) /\ MigrationApplies
  <2> DEFINE r == [proc[p] EXCEPT !.pc = "running"]
  <2>1. proc' = [proc EXCEPT ![p] = r] /\ schema'
    BY <1>4 DEF Migrate
  <2>2. r \in Rec
    BY <1>1 DEF Rec, Places
  <2> QED BY <2>1, <2>2, MoveOne
<1>5. CASE Migrate(p) /\ ~ MigrationApplies
  <2> DEFINE r == [proc[p] EXCEPT !.pc = "failed"]
  <2>1. proc' = [proc EXCEPT ![p] = r] /\ schema' = schema
    BY <1>5 DEF Migrate
  <2>2. r \in Rec
    BY <1>1 DEF Rec, Places
  <2>3. SawTables(r) => SawTables(proc[p])
    BY <1>1 DEF SawTables, Rec
  <2> QED BY <1>1, <2>1, <2>2, <2>3, MoveOne
<1> QED BY <1>2, <1>3, <1>4, <1>5

(* Every step keeps the invariant.                                          *)
LEMMA BootStep ==
    ASSUME BootInv, [Next]_vars
    PROVE  BootInv'
<1>1. CASE UNCHANGED vars
  BY <1>1 DEF vars, BootInv, Locals, TablesSeen
<1>2. CASE StartPostgres \/ StopPostgres
  <2>1. proc' = proc
    BY <1>2 DEF StartPostgres, StopPostgres
  <2>2. ASSUME schema PROVE schema'
    <3>1. CASE StartPostgres
      BY <2>2, <3>1, Zenon DEF StartPostgres
    <3>2. CASE StopPostgres
      BY <2>2, <3>2 DEF StopPostgres
    <3> QED BY <1>2, <3>1, <3>2
  <2> QED BY <2>1, <2>2 DEF BootInv, Locals, TablesSeen
<1>3. ASSUME NEW p \in Processes, Launch(p) \/ Step(p) PROVE BootInv'
  BY <1>3, ConnectStep, CheckStep, LoopStep, PlainStep DEF Step
<1> QED BY <1>1, <1>2, <1>3 DEF Next

(* Nobody works on a database without tables (main.rs and worker.rs: the    *)
(* loop and the server begin after connect_with_retry or the migrations,    *)
(* and the loop goes on after a reconnect that was given up).               *)
THEOREM SchemaBeforeWork == Spec => []RunsOnSchema
<1>1. Init => BootInv
  BY DEF Init, Off, BootInv, Locals, Rec, Places, TablesSeen, SawTables
<1>2. BootInv /\ [Next]_vars => BootInv'
  BY BootStep
<1>3. BootInv => RunsOnSchema
  BY DEF BootInv, TablesSeen, SawTables, RunsOnSchema
<1> QED BY <1>1, <1>2, <1>3, PTL DEF Spec

=============================================================================
