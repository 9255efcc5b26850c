--------------------------- MODULE MCIncidentRecord ---------------------------
(* A small instance of IncidentRecord for TLC: the owner of the object is    *)
(* the only user.                                                            *)
EXTENDS IncidentRecord

CONSTANT owner

OwnerAlone == {owner}
=============================================================================
