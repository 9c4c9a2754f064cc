------------------------------- MODULE MCMfa -------------------------------
(***************************************************************************)
(* Mfa for TLC: requests and challenges are alike.                           *)
(***************************************************************************)
EXTENDS Mfa, TLC

Alike == Permutations(Handlers) \cup Permutations(Challenges)
=============================================================================
