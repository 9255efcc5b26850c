--------------------------- MODULE MCMaterialization ---------------------------
(* A small instance of Materialization for TLC.                              *)
EXTENDS Materialization

CONSTANTS r1, u1, u2

\* r1 is a batch of both locations, the others have one target.
BatchTargets == [r \in Requests |-> IF r = r1 THEN <<u1, u2>> ELSE <<u1>>]

\* The name of u2 starts with the name of u1, in another directory.
Sibling == [u \in Locations |-> IF u = u1 THEN {u1, u2} ELSE {u}]
Apart   == [u \in Locations |-> {u}]
=============================================================================
