----------------------------- MODULE MCDecisions -----------------------------
(***************************************************************************)
(* Two records, two values and two bulk changes, one of them above the     *)
(* threshold.                                                              *)
(***************************************************************************)
EXTENDS Decisions, TLC

Symmetry == Permutations(Values)
=============================================================================
