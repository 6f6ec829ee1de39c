----------------------------- MODULE MCColumns -----------------------------
(* Instances of Columns for TLC.                                           *)
EXTENDS Columns, TLC

CONSTANTS b1, b2, l1, n1, q1, q2

Symmetry == Permutations(Bookmarks) \cup Permutations(Labels) \cup Permutations(Requests)

=============================================================================
