-------------------------- MODULE PaymentLifecycle --------------------------
(***************************************************************************)
(* What the payment pipeline promises a reader of the payments table and of *)
(* the journal.  A payment moves in two steps: a request decides on the new *)
(* status while the payment is live, and applies it later, in the step that *)
(* charges it if it is settled.  A payment can therefore move once more     *)
(* after it has finished, but only on a decision from before.  What was     *)
(* charged stays charged, and a deleted account's payments do not return.   *)
(***************************************************************************)
CONSTANT Payments

VARIABLES
    state,     \* what the table says of each payment
    charged,   \* the payments with a charge in the journal
    decided    \* the moves that requests have decided on and not yet made

vars == <<state, charged, decided>>

Live     == {"created", "processing"}
Statuses == {"processing", "succeeded", "failed", "canceled"}

Init ==
    /\ state = [p \in Payments |-> "none"]
    /\ charged = {}
    /\ decided = {}

Record(p) ==
    /\ state[p] = "none"
    /\ state' = [state EXCEPT ![p] = "created"]
    /\ UNCHANGED <<charged, decided>>

Decide(p, to) ==
    /\ state[p] \in Live
    /\ decided' = decided \cup {<<p, to>>}
    /\ UNCHANGED <<state, charged>>

\* The request fails, or its payment is gone.
Withdraw(p, to) ==
    /\ decided' = decided \ {<<p, to>>}
    /\ UNCHANGED <<state, charged>>

\* The decision goes with the request, unless another has made the same one.
Apply(p, to) ==
    /\ <<p, to>> \in decided
    /\ state[p] \notin {"none", "erased"}
    /\ state' = [state EXCEPT ![p] = to]
    /\ charged' = IF to = "succeeded" THEN charged \cup {p} ELSE charged
    /\ decided' \in {decided, decided \ {<<p, to>>}}

\* The payments of a deleted account go together.
Erase(gone) ==
    /\ state' = [p \in Payments |-> IF p \in gone THEN "erased" ELSE state[p]]
    /\ UNCHANGED <<charged, decided>>

Next ==
    \/ \E p \in Payments : Record(p)
    \/ \E p \in Payments, to \in Statuses : Decide(p, to) \/ Withdraw(p, to) \/ Apply(p, to)
    \/ \E gone \in SUBSET Payments : Erase(gone)

Spec == Init /\ [][Next]_vars
=============================================================================
