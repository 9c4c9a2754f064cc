------------------------------ MODULE MCRoles ------------------------------
(***************************************************************************)
(* Accounts and Roles for TLC: one identity, whose address is also            *)
(* registered and is the operator's.                                         *)
(***************************************************************************)
EXTENDS Roles, TLC

CONSTANTS e1, noreply

MCAddress == [i \in Identities |-> e1]
MCSynthetic == [i \in Identities |-> noreply]

Alike == Permutations(Users) \cup Permutations(Handlers) \cup Permutations(AdminRequests)
=============================================================================
