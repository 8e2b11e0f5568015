------------------------- MODULE MCScheduledExports -------------------------
(***************************************************************************)
(* A schedule with two runners and a person.  No symmetry: CatchesUp is a  *)
(* liveness property.                                                      *)
(***************************************************************************)
EXTENDS ScheduledExports
=============================================================================
