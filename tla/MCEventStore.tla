---------------------------- MODULE MCEventStore ----------------------------
(***************************************************************************)
(* EventStore for TLC: a worker that tries twice and two handlers of the   *)
(* API that try once each, on two runs whose lock keys collide; the pool of *)
(* the API has a single connection, so its handlers wait for each other.   *)
(***************************************************************************)
EXTENDS EventStore, TLC

CONSTANTS run1, run2, worker, handler1, handler2, workerProcess, api, key1

MCRuns      == {run1, run2}
MCKeys      == {key1}
MCSameKey   == run1 :> key1 @@ run2 :> key1
MCWriters   == {worker, handler1, handler2}
MCAttempts  == worker :> 2 @@ handler1 :> 1 @@ handler2 :> 1
MCProcesses == {workerProcess, api}
MCProcessOf == worker :> workerProcess @@ handler1 :> api @@ handler2 :> api
MCPoolSize  == workerProcess :> 5 @@ api :> 1

=============================================================================
