---------------------------- MODULE MCRunSystem ----------------------------
(***************************************************************************)
(* RunSystem for TLC: a run of one or two items.  Handlers are alike, and  *)
(* so are workers; items are not, for an assignment lists them in an order.*)
(***************************************************************************)
EXTENDS RunSystem

CONSTANTS item1, item2, worker1, worker2, handler1, handler2

MCItems      == {item1, item2}
MCOneItem    == {item1}
MCWorker     == {worker1}
MCWorkers    == {worker1, worker2}
MCHandler    == {handler1}
MCHandlers   == {handler1, handler2}
MCAlike == Permutations(MCHandlers) \cup Permutations(MCWorkers)

=============================================================================
