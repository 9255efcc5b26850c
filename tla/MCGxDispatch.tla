----------------------------- MODULE MCGxDispatch -----------------------------
(* Small instances of GxDispatch for TLC.                                    *)
EXTENDS GxDispatch, TLC

CONSTANTS r1, r2, r3, p1, s1

\* Workers differ in nothing.
WorkerSymmetry == Permutations(Workers)

\* Two dispatches of one plan, a grouped one and a suite.
KindPair   == r1 :> "grouped" @@ r2 :> "suite"
PlanPair   == r1 :> p1 @@ r2 :> p1
SuitePair  == r1 :> NoSuite @@ r2 :> s1

\* A grouped dispatch without plan, which no conflict check sees, a dispatch
\* for an engine other than gx, and a run its caller executes.
KindMixed  == r1 :> "grouped" @@ r2 :> "engine" @@ r3 :> "handoff"
PlanMixed  == r1 :> NoPlan @@ r2 :> NoPlan @@ r3 :> NoPlan
SuiteMixed == r1 :> NoSuite @@ r2 :> s1 @@ r3 :> s1
=============================================================================
