-------------------------- MODULE MCEmailDelivery --------------------------
EXTENDS EmailDelivery, TLC

CONSTANTS j1, j2, w1, w2, a1, n1

MCTo == [j \in Jobs |-> a1]
MCAbout == [n \in Notices |-> a1]

\* The jobs and the workers are alike.
Alike == Permutations({j1, j2}) \cup Permutations({w1, w2})
=============================================================================
