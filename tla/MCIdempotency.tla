--------------------------- MODULE MCIdempotency ---------------------------
(* One key and two calls of Do for it with the same fingerprint, so that   *)
(* the second is a retry of the first.                                     *)
EXTENDS Idempotency

CONSTANT f1

MCFp == [c \in Client |-> f1]
=============================================================================
