------------------------------ MODULE MCRunPage ------------------------------
(***************************************************************************)
(* RunPage for TLC: a run of one item and one worker.                      *)
(***************************************************************************)
EXTENDS RunPage

CONSTANTS item1, worker1, handler1

MCOneItem == {item1}
MCWorker  == {worker1}
MCHandler == {handler1}

=============================================================================
