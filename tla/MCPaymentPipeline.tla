------------------------- MODULE MCPaymentPipeline -------------------------
(* Small instances of PaymentPipeline for TLC. *)
EXTENDS PaymentPipeline, TLC

CONSTANTS i1, o1, u1

\* i1 was created here by u1; o1 (when present) was not.
MCOwner == [i \in Intents |-> u1]

Symmetry == Permutations(Handlers) \cup Permutations(EventIds)
=============================================================================
