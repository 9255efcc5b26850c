--------------------------- MODULE MCViolationStream ---------------------------
(* A small instance of ViolationStream for TLC: one run finds three          *)
(* violations, another one that lacks a required field.                      *)
EXTENDS ViolationStream

FoundByTwo == [r1 |-> <<"a", "b", "c">>, r2 |-> <<"d">>]
=============================================================================
