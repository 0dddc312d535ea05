--------------------------- MODULE MCEventImport ---------------------------
(***************************************************************************)
(* Instances of EventImport for TLC, and the properties the runs check.    *)
(***************************************************************************)
EXTENDS EventImport

CONSTANTS a, b, k1, k2, k3, d1, w1, w2

\* Two jobs on one dataset, each with a row of its own and one in common.
OneDataset == [j \in Jobs |-> d1]
Overlap == [j \in Jobs |-> IF j = a THEN {k1, k2} ELSE {k2, k3}]
SameRows == [j \in Jobs |-> Keys]
=============================================================================
