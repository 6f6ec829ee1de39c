---------------------------- MODULE MCAccounts ----------------------------
(* Instances of Accounts for TLC.                                          *)
EXTENDS Accounts, TLC

CONSTANTS u1, d1, d2, q1, q2, c1

\* The properties say nothing of a user whose row was overwritten with a copy
\* or whose seed was drawn again: what follows is not explored.
Telling == twice \cup undone = {}

Symmetry == Permutations(Devices) \cup Permutations(Requests)

=============================================================================
