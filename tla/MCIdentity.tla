----------------------------- MODULE MCIdentity -----------------------------
(***************************************************************************)
(* Identity for TLC: two requests at a time.                                 *)
(***************************************************************************)
EXTENDS Identity, TLC

Symmetry ==
    Permutations(Handlers) \cup Permutations(Sessions) \cup Permutations(Tokens)
=============================================================================
