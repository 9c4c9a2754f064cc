-------------------------- MODULE MCReconciliation --------------------------
(* Small instances of Reconciliation for TLC. *)
EXTENDS Reconciliation, TLC

Symmetry == Permutations(Runners)

MCNone   == {}
MCSecond == {2}
MCThird  == {3}
=============================================================================
