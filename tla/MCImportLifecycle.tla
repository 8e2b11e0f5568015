------------------------- MODULE MCImportLifecycle -------------------------
(***************************************************************************)
(* One import of an increment or of a full checkpoint, with others of the  *)
(* same origin finalized beside it.  No symmetry: Resumes is a liveness    *)
(* property.                                                               *)
(***************************************************************************)
EXTENDS ImportLifecycle

MCBase == [e \in Exports |-> IF e = "inc1" THEN "full0" ELSE "none"]
=============================================================================
