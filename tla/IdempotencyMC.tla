--------------------------- MODULE IdempotencyMC ---------------------------
(* Instances of Idempotency for TLC.                                       *)
EXTENDS Idempotency, TLC

Symmetric == Permutations(Requests)
=============================================================================
