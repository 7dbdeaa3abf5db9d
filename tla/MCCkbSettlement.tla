--------------------------- MODULE MCCkbSettlement ---------------------------
(* TLC instances of CkbSettlement.                                         *)
EXTENDS CkbSettlement, TLC

Symmetry == Permutations(Requests) \cup Permutations(Workers)
=============================================================================
