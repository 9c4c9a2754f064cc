----------------------------- MODULE MCRefunds -----------------------------
(* Small instances of Refunds for TLC. *)
EXTENDS Refunds, TLC

CONSTANT RestOfIt   \* the empty body

MCAsks == {1, RestOfIt}

Symmetry ==
    Permutations(Requests) \cup Permutations(Headers) \cup Permutations(Payments)
=============================================================================
