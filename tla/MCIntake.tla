------------------------------ MODULE MCIntake ------------------------------
(***************************************************************************)
(* Intake for TLC: the counts of planner.rs, objectives of up to three     *)
(* times the largest plan, and an i32 of eight bits, so that the numbers   *)
(* around its ends are small.                                              *)
(***************************************************************************)
EXTENDS Intake

MCWords    == 0..37
MCCounts   == {0, 1, 2, 3, 5, 7, 12, 13, 16, 17}
MCSettings == {-1, 0, 1, 2, 127}
MCNumbers  == {-129, -128, -7, 0, 1, 4, 20, 127, 128, 255, 259}

=============================================================================
