----------------------------- MODULE PlanInForce -----------------------------
(***************************************************************************)
(* What a governed run plan promises its users: at most one version is in  *)
(* force at any time, a version put in force takes the place of the one    *)
(* that was, and a version that has left force never returns.              *)
(***************************************************************************)
CONSTANTS Versions, NoVersion

VARIABLES inForce,   \* the version in force, or NoVersion
          retired    \* the versions that have been in force and are not now

vars == <<inForce, retired>>

Init == inForce = NoVersion /\ retired = {}

Activate(v) ==
    /\ v # inForce /\ v \notin retired
    /\ inForce' = v
    /\ retired' = retired \cup ({inForce} \ {NoVersion})

Deactivate ==
    /\ inForce # NoVersion
    /\ inForce' = NoVersion
    /\ retired' = retired \cup {inForce}

Next == Deactivate \/ \E v \in Versions : Activate(v)

Spec == Init /\ [][Next]_vars
=============================================================================
