------------------------ MODULE MCIdempotentPayment ------------------------
(* Small instances of IdempotentPayment for TLC. *)
EXTENDS IdempotentPayment, TLC

CONSTANTS r1, r2, r3, r4, k1, k2

Symmetry == Permutations({r1, r2, r3, r4}) \cup Permutations({k1, k2})
=============================================================================
