-------------------------- MODULE MCDocumentControl --------------------------
(***************************************************************************)
(* A document with two revisions, two people and tokens.                   *)
(***************************************************************************)
EXTENDS DocumentControl, TLC

Symmetry == Permutations(People)
=============================================================================
