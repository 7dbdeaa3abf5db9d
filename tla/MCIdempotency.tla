---------------------------- MODULE MCIdempotency ----------------------------
(* TLC instances of Idempotency.                                           *)
EXTENDS Idempotency, TLC

Symmetry == Permutations(Requests) \cup Permutations(Hashes)
=============================================================================
