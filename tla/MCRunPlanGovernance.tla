------------------------- MODULE MCRunPlanGovernance -------------------------
(* Small instances of RunPlanGovernance for TLC.                             *)
EXTENDS RunPlanGovernance, TLC

\* The ids carry no order: the plan's versions, approval rows and requests
\* may be renamed.
Symmetry == Permutations(Versions) \cup Permutations(Approvals) \cup Permutations(Ops)
=============================================================================
