------------------------------- MODULE Harness -------------------------------
(***************************************************************************)
(* The executors of a worker and the events they lead to                   *)
(* (application/src/harness.rs).                                           *)
(*                                                                         *)
(* What an endpoint answers is external.  An answer is a record: kind is   *)
(* "unreachable" (no connection or a timeout), "refused" (an HTTP error),  *)
(* "garbled" (a body that is not JSON), "json" or "text" (the content the  *)
(* model wrote); success and effort are the fields of that JSON, or effort *)
(* the number after "EFFORT:" in a text that also has a cost; tokens is    *)
(* usage.completion_tokens.  A field that is missing is NotGiven.  Costs   *)
(* and summaries are left out.                                             *)
(***************************************************************************)
EXTENDS Planner

CONSTANT IntHalf    \* half of the values of an i32: 2^31

(* The efforts that are written in the code are i32.                        *)
ASSUME WidthAssumption == IntHalf \in Nat /\ IntHalf > 10

IntMax == IntHalf - 1
Ints   == (- IntHalf)..IntMax

(* Mutant of AsInt: the number is taken as it is.                           *)
AsWide(n) == n

(* n as i32, which keeps the low bits; and /, which rounds towards zero.    *)
AsInt(n)       == ((n + IntHalf) % (2 * IntHalf)) - IntHalf
Quotient(n, d) == IF n >= 0 THEN n \div d ELSE - ((- n) \div d)

Or(field, default) == IF field = NotGiven THEN default ELSE field

-----------------------------------------------------------------------------
(* ExecutionResult, or the error of execute.                                *)
Result(success, effort) ==
    [outcome |-> IF success THEN "success" ELSE "failure", effort |-> effort]
ExecutorError == [outcome |-> "error", effort |-> 0]

(* WORKER_EFFORT_PER_ITEM, if it is a positive number.                      *)
BaseEffort(setting) == IF setting = NotGiven THEN 5 ELSE IF setting > 0 THEN setting ELSE 5

Simulated(setting) == Result(TRUE, BaseEffort(setting))

AtLeastThree(effort) == Greatest(effort, 3)

OpenRouter(hasKey, a) ==
    CASE ~ hasKey                                -> Result(TRUE, 8)
      [] hasKey /\ a.kind = "refused"            -> Result(FALSE, 1)
      [] hasKey /\ a.kind \in {"unreachable", "garbled"} -> ExecutorError
      [] hasKey /\ a.kind = "json" ->
            Result(Or(a.success, TRUE), AtLeastThree(AsInt(Or(a.effort, 8))))
      [] hasKey /\ a.kind = "text" ->
            Result(TRUE, AtLeastThree(Or(a.effort, Quotient(AsInt(Or(a.tokens, 50)), 5) + 5)))

(* A server that does not answer well is a success, too.                    *)
LocalLlm(a) ==
    IF a.kind \in {"json", "text"}
      THEN Result(TRUE, Greatest(Quotient(AsInt(Or(a.tokens, 40)), 4), 5))
      ELSE Result(TRUE, 10)

-----------------------------------------------------------------------------
(* Mutant of ChunkEffort: half of one is none.                              *)
HalfEffort(effort)  == Quotient(effort, 2)

ChunkEffort(effort) == Greatest(Quotient(effort, 2), 1)

(* events_for_execution, and the event of the worker when there is no       *)
(* result: <<type, effort>>.                                                *)
EventsForExecution(result) ==
    CASE result.outcome = "success" ->
            << <<"WorkItemStarted", 0>>, <<"WorkItemCompleted", result.effort>>,
               <<"ProgressChunkEmitted", ChunkEffort(result.effort)>> >>
      [] result.outcome = "failure" ->
            << <<"WorkItemStarted", 0>>, <<"WorkItemFailed", 0>> >>
      [] result.outcome = "error" -> << <<"WorkItemFailed", 0>> >>

=============================================================================
