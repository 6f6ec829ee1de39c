------------------------------- MODULE MCImport -------------------------------
(* Instances of Import for TLC: an import of two links or of one twice,  *)
(* and another one that allows duplicates.                                 *)
EXTENDS Import

CONSTANTS u1, u2, i1, i2

MCSources == [i \in {i1, i2} |-> IF i = i1 THEN {<<u1, u2>>, <<u1, u1>>} ELSE {<<u1>>}]
=============================================================================
