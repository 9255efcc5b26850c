------------------------------ MODULE MCJoinPair ------------------------------
(* Small instances of JoinPair for TLC.                                      *)
EXTENDS JoinPair, TLC

CONSTANTS j1, j2, s1

\* Two dispatches of one join_pair suite; the ETL worker refuses the contract
\* of the second.
KindPair  == j1 :> "suite" @@ j2 :> "suite"
PlanPair  == j1 :> NoPlan @@ j2 :> NoPlan
SuitePair == j1 :> s1 @@ j2 :> s1
Contracts == j1 :> "sound" @@ j2 :> "unsound"
=============================================================================
