------------------------------ MODULE MCUploads ------------------------------
(***************************************************************************)
(* Files of up to three pieces, three pieces on their way at once, two     *)
(* attempts that start over and two faults.  No symmetry: Arrives is a     *)
(* liveness property.                                                      *)
(***************************************************************************)
EXTENDS Uploads
=============================================================================
