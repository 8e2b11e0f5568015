--------------------------- MODULE MCIdempotency ----------------------------
(***************************************************************************)
(* A queued command sent twice and another command sent by mistake under   *)
(* its key, overlapping in every order.                                    *)
(***************************************************************************)
EXTENDS Idempotency, TLC

CONSTANTS first, second, other, key

MCRequests == {first, second, other}
MCKeyOf == [r \in MCRequests |-> key]
MCDigestOf == [r \in MCRequests |-> IF r = other THEN "another body" ELSE "the command"]

\* The attempts of the one command are alike.
Attempts == Permutations({first, second})
=============================================================================
