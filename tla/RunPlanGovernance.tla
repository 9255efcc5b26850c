-------------------------- MODULE RunPlanGovernance --------------------------
(***************************************************************************)
(* The governance of one validation run plan: its versions, the approvals  *)
(* that ask for a version to be activated or deactivated, and the handlers *)
(* that dispatch a run of a version (activation and replay).               *)
(*                                                                         *)
(* Every handler runs on the API's one event loop and reaches the database *)
(* synchronously, so a handler is one action up to its next await of       *)
(* Redis.  Activation and replay have two such awaits (the worker's        *)
(* heartbeat, the push of the message), which make three actions of them;  *)
(* the other handlers run between those.                                   *)
(***************************************************************************)
EXTENDS Naturals, FiniteSets

CONSTANTS Versions,     \* ids of the versions a plan may get
          Approvals,    \* ids of the approval rows that may exist at once
          Ops,          \* activation and replay requests; also their run's id
          NoVersion, NoOp,
          MaxFaults     \* bound on crashes and failed calls

ASSUME GovernanceAssumption ==
    /\ NoVersion \notin Versions
    /\ NoOp \notin Ops
    /\ MaxFaults \in Nat

VARIABLES plan,    \* the plan row: status, current version, last recorded run
          ver,     \* the version rows
          apr,     \* the approval rows, with what their audit rows say
          op,      \* the activation and replay requests in the API
          live,    \* the runs of the plan in an active status
          faults   \* the faults so far

vars == <<plan, ver, apr, op, live, faults>>

Pending     == {"draft", "pending_validation", "validation_failed",
                "pending_review", "approved_pending_activation",
                "activation-requested", "deactivation-requested"}
States      == Pending \cup {"active", "inactive", "deactivated",
                             "superseded", "cancelled", "absent"}
Validations == {"not_requested", "pending", "failed", "passed"}
Reviews     == {"none", "pending", "approved", "cancelled", "superseded"}
Types       == {"activation", "deactivation"}
Decisions   == {"approved", "rejected"}
Pcs         == {"idle", "dispatching", "created", "done",
                "unrecorded", "refused", "lost"}

NoRow == [state |-> "absent", validation |-> "not_requested", review |-> "none"]
NoApproval == [version |-> NoVersion, type |-> "activation",
               status |-> "absent", future |-> FALSE, audited |-> FALSE]

\* GxRunPlanTargetState: what a caller may ask a version to become.
Targets == {"pending_validation", "validation_failed", "pending_review",
            "approved_pending_activation", "activation-requested",
            "deactivation-requested", "cancelled"}

-----------------------------------------------------------------------------
(* The state machine of a version.                                         *)

\* RUN_PLAN_VERSION_ALLOWED_TRANSITIONS; a state without a row has none.
Allowed(s) ==
    CASE s = "draft"              -> {"pending_validation", "activation-requested"}
      [] s = "validation_failed"  -> {"pending_validation", "cancelled"}
      [] s = "pending_validation" -> {"validation_failed", "pending_review",
                                      "approved_pending_activation"}
      [] s = "pending_review"     -> {"approved_pending_activation", "cancelled"}
      [] s = "approved_pending_activation" -> {"cancelled"}
      [] s = "inactive"           -> {"activation-requested"}
      [] s = "active"             -> {"deactivation-requested"}
      [] s = "activation-requested"   -> {"approved_pending_activation", "inactive"}
      [] s = "deactivation-requested" -> {"deactivated", "active"}
      [] OTHER                    -> {}

\* transition_plan_version on the version row.
ValidationAfter(row, target) ==
    CASE target = "pending_validation" -> "pending"
      [] target = "validation_failed"  -> "failed"
      [] target \in {"pending_review", "approved_pending_activation"} -> "passed"
      [] OTHER -> row.validation

ReviewAfter(row, target) ==
    CASE target \in {"pending_validation", "validation_failed"} -> "none"
      [] target = "pending_review"              -> "pending"
      [] target = "approved_pending_activation" -> "approved"
      [] target = "cancelled"                   -> "cancelled"
      [] OTHER -> row.review

Moved(row, target) == [state      |-> target,
                       validation |-> ValidationAfter(row, target),
                       review     |-> ReviewAfter(row, target)]

\* Mutant of StatusAfter: the version in force is forgotten.
StatusAlwaysTarget(target) == target

\* ... and on the plan row: a plan with a version in force stays active.
StatusAfter(target) == IF plan.current # NoVersion THEN "active" ELSE target

\* Mutant of TransitionPlanVersion: a cancelled version may be submitted again.
TransitionReopens(v, target) ==
    /\ \/ target \in Allowed(ver[v].state)
       \/ target = "pending_validation" /\ ver[v].state = "cancelled"
    /\ ver' = [ver EXCEPT ![v] = Moved(@, target)]
    /\ plan' = [plan EXCEPT !.status = StatusAfter(target)]

TransitionPlanVersion(v, target) ==
    /\ target \in Allowed(ver[v].state)
    /\ ver' = [ver EXCEPT ![v] = Moved(@, target)]
    /\ plan' = [plan EXCEPT !.status = StatusAfter(target)]

\* Mutant of DeactivatePlan: the plan keeps its current version.
DeactivateKeepsCurrent(v) ==
    /\ ver[v].state = "deactivation-requested"
    /\ ver' = [ver EXCEPT ![v].state = "deactivated"]
    /\ plan' = [plan EXCEPT !.status = "deactivated"]

\* deactivate_plan
DeactivatePlan(v) ==
    /\ ver[v].state = "deactivation-requested"
    /\ ver' = [ver EXCEPT ![v].state = "deactivated"]
    /\ plan' = [plan EXCEPT !.status  = "deactivated",
                            !.current = IF @ = v THEN NoVersion ELSE @]

Fault == faults < MaxFaults /\ faults' = faults + 1

-----------------------------------------------------------------------------
(* Plans and versions.                                                     *)

NewVersion == [NoRow EXCEPT !.state = "draft"]

\* create_gx_run_plan: the plan and its first version, in one transaction.
CreatePlan(v) ==
    /\ plan.status = "absent"
    /\ plan' = [plan EXCEPT !.status = "draft"]
    /\ ver' = [ver EXCEPT ![v] = NewVersion]
    /\ UNCHANGED <<apr, op, live, faults>>

\* create_gx_run_plan_version
CreatePlanVersion(v) ==
    /\ plan.status # "absent"
    /\ ver[v].state = "absent"
    /\ ver' = [ver EXCEPT ![v] = NewVersion]
    /\ plan' = [plan EXCEPT !.status =
                    IF plan.current = NoVersion THEN "draft" ELSE @]
    /\ UNCHANGED <<apr, op, live, faults>>

\* validate_gx_run_plan_version: two transitions, the second to the outcome
\* of the checks on the version's snapshot.  A crash between the two leaves
\* what a governance transition to "pending_validation" leaves.
Validate(v, outcome) ==
    /\ ver[v].state \in {"draft", "validation_failed"}
    /\ ver' = [ver EXCEPT ![v] = Moved(Moved(@, "pending_validation"), outcome)]
    /\ plan' = [plan EXCEPT !.status = StatusAfter(outcome)]
    /\ UNCHANGED <<apr, op, live, faults>>

RequestType(target) ==
    IF target = "activation-requested" THEN "activation" ELSE "deactivation"

IsRequest(target) == target \in {"activation-requested", "deactivation-requested"}

\* _list_pending_gx_run_plan_approvals
PendingApprovals(v, type) ==
    {a \in Approvals : /\ apr[a].version = v
                       /\ apr[a].type = type
                       /\ apr[a].status = "pending"}

Approval(v, type, status, future) ==
    [version |-> v, type |-> type, status |-> status,
     future |-> future, audited |-> FALSE]

\* transition_gx_run_plan_version_governance_state, without and with request.
TransitionGovernanceState(v, target) ==
    /\ ~IsRequest(target)
    /\ TransitionPlanVersion(v, target)
    /\ UNCHANGED <<apr, op, live, faults>>

RequestApproval(v, target, a, future) ==
    /\ IsRequest(target)
    /\ PendingApprovals(v, RequestType(target)) = {}
    /\ TransitionPlanVersion(v, target)
    /\ apr[a].status = "absent"
    /\ apr' = [apr EXCEPT ![a] = Approval(v, RequestType(target), "pending", future)]
    /\ UNCHANGED <<op, live, faults>>

\* The version has moved and create_approval raises (its row written or not).
\* The handler moves the version back, which the table allows for a version
\* that was inactive or active and refuses for a draft; a crash moves nothing
\* back.
RequestApprovalFails(v, target, a, written, crash) ==
    /\ Fault
    /\ IsRequest(target)
    /\ target \in Allowed(ver[v].state)
    /\ PendingApprovals(v, RequestType(target)) = {}
    /\ apr[a].status = "absent"
    /\ apr' = IF written
              THEN [apr EXCEPT ![a] = Approval(v, RequestType(target), "pending", FALSE)]
              ELSE apr
    /\ LET requested == Moved(ver[v], target)
           back      == ~crash /\ ver[v].state \in Allowed(target)
           row       == IF back THEN Moved(requested, ver[v].state) ELSE requested
       IN  /\ ver' = [ver EXCEPT ![v] = row]
           /\ plan' = [plan EXCEPT !.status = StatusAfter(row.state)]
    /\ UNCHANGED <<op, live>>

-----------------------------------------------------------------------------
(* The approvals endpoints.                                                *)

\* POST /approvals for a plan version: the plan is not consulted, and the
\* caller may name any status.
CreateApproval(a, v, type, status, future) ==
    /\ apr[a].status = "absent"
    /\ apr' = [apr EXCEPT ![a] = Approval(v, type, status, future)]
    /\ UNCHANGED <<plan, ver, op, live, faults>>

\* PUT /approvals/{id} without a new status (a comment).  The audit row's id
\* is made of the approval's id alone, so it can be inserted once only.
EditApproval(a) ==
    /\ apr[a].status # "absent"
    /\ ~apr[a].audited
    /\ apr' = [apr EXCEPT ![a].audited = TRUE]
    /\ UNCHANGED <<plan, ver, op, live, faults>>

\* What a decision does to the plan, in a transaction of its own.
DecisionEffect(v, type, d) ==
    \/ /\ type = "activation" /\ d = "approved"
       /\ ver[v].state = "activation-requested"
       /\ TransitionPlanVersion(v, "approved_pending_activation")
    \/ /\ type = "activation" /\ d = "rejected"
       /\ ver[v].state = "activation-requested"
       /\ TransitionPlanVersion(v, "inactive")
    \/ type = "deactivation" /\ d = "approved" /\ DeactivatePlan(v)
    \/ /\ type = "deactivation" /\ d = "rejected"
       /\ ver[v].state = "deactivation-requested"
       /\ TransitionPlanVersion(v, "active")

\* update_approval is refused to the requester (403), for an approved
\* deactivation whose time has not come (503) and for a second audit row (500).
Recorded(a, d, self) ==
    /\ ~self
    /\ ~(d = "approved" /\ apr[a].type = "deactivation" /\ apr[a].future)
    /\ ~apr[a].audited

\* PUT /approvals/{id} with a decision: the effect on the plan comes first,
\* what may refuse the request comes after it.  A crash between the two
\* leaves what a refusal leaves.
DecideApproval(a, d, self) ==
    /\ apr[a].status \in {"pending", d}
    /\ apr[a].version # NoVersion
    /\ DecisionEffect(apr[a].version, apr[a].type, d)
    /\ apr' = IF Recorded(a, d, self)
              THEN [apr EXCEPT ![a].status = d, ![a].audited = TRUE]
              ELSE apr
    /\ UNCHANGED <<op, live, faults>>

\* DELETE /approvals/{id} by the requester, whatever the status; the version
\* keeps its state.  Ids are never reused, so the model's slot is free again.
DeleteApproval(a) ==
    /\ apr[a].status # "absent"
    /\ apr' = [apr EXCEPT ![a] = NoApproval]
    /\ UNCHANGED <<plan, ver, op, live, faults>>

\* The effective time of a request passes.
EffectiveTimeReached(a) ==
    /\ apr[a].future
    /\ apr' = [apr EXCEPT ![a].future = FALSE]
    /\ UNCHANGED <<plan, ver, op, live, faults>>

-----------------------------------------------------------------------------
(* Dispatch: activate_gx_run_plan_version and replay_run_plan.             *)

Start(o, kind, v) ==
    /\ op[o].pc = "idle"
    /\ op' = [op EXCEPT ![o] = [pc |-> "dispatching", kind |-> kind, version |-> v]]
    /\ UNCHANGED <<plan, ver, apr, live, faults>>

\* Up to the await of the worker's heartbeat.
StartActivation(o, v) ==
    /\ ver[v].state = "approved_pending_activation"
    /\ Start(o, "activation", v)

\* A replay takes the plan's current version, whatever state it is in.
StartReplay(o) ==
    /\ plan.current # NoVersion
    /\ Start(o, "replay", plan.current)

\* No live worker, an active run of the plan, or a failed insert.
DispatchRefused(o) ==
    /\ op[o].pc = "dispatching"
    /\ op' = [op EXCEPT ![o].pc = "refused"]
    /\ UNCHANGED <<plan, ver, apr, live, faults>>

\* From the heartbeat's answer to the await of the push: the check for an
\* active run of the plan and the insert of the run.
CreateRun(o) ==
    /\ op[o].pc = "dispatching"
    /\ live = {}
    /\ live' = {o}
    /\ op' = [op EXCEPT ![o].pc = "created"]
    /\ UNCHANGED <<plan, ver, apr, faults>>

\* The push fails for good: the run is marked failed, or that fails as well.
PushRaises(o, marked) ==
    /\ Fault
    /\ op[o].pc = "created"
    /\ op' = [op EXCEPT ![o].pc = "refused"]
    /\ live' = IF marked THEN live \ {o} ELSE live
    /\ UNCHANGED <<plan, ver, apr>>

CanActivate(v) == ver[v].state = "approved_pending_activation"

\* Mutant of VersionsActivated: the version in force before keeps its state.
ActivateOnly(v) == [ver EXCEPT ![v].state = "active"]

\* activate_plan: the version in force before, in whatever state, is
\* superseded in the same transaction.
VersionsActivated(v) ==
    [w \in Versions |->
        IF w = v THEN [ver[w] EXCEPT !.state = "active"]
        ELSE IF w = plan.current
             THEN [ver[w] EXCEPT !.state = "superseded", !.review = "superseded"]
             ELSE ver[w]]

Settle(o, recorded) ==
    op' = [op EXCEPT ![o].pc = IF recorded THEN "done" ELSE "unrecorded"]

\* After the push: activate_plan re-reads the state and raises if it has
\* changed; the run has been dispatched either way.
FinishActivation(o) ==
    /\ op[o].pc = "created" /\ op[o].kind = "activation"
    /\ LET v == op[o].version
       IN  /\ Settle(o, CanActivate(v))
           /\ IF CanActivate(v)
              THEN /\ ver' = VersionsActivated(v)
                   /\ plan' = [status |-> "active", current |-> v, last |-> o]
              ELSE UNCHANGED <<plan, ver>>
    /\ UNCHANGED <<apr, live, faults>>

\* Mutant of Recordable: the version is not compared with the plan's.
RecordsAnyVersion(v) == ver[v].state # "absent"

\* record_plan_dispatch
Recordable(v) == ver[v].state = "active" /\ plan.current = v

FinishReplay(o) ==
    /\ op[o].pc = "created" /\ op[o].kind = "replay"
    /\ LET v == op[o].version
       IN  /\ Settle(o, Recordable(v))
           /\ plan' = IF Recordable(v) THEN [plan EXCEPT !.last = o] ELSE plan
    /\ UNCHANGED <<ver, apr, live, faults>>

\* The run reaches a terminal status: a report, a timeout or a cancellation.
RunEnds(o) ==
    /\ o \in live
    /\ live' = live \ {o}
    /\ UNCHANGED <<plan, ver, apr, op, faults>>

InFlight(o) == op[o].pc \in {"dispatching", "created"}

\* The API process dies; rows and runs stay as they are.
ApiCrash ==
    /\ Fault
    /\ \E o \in Ops : InFlight(o)
    /\ op' = [o \in Ops |-> IF InFlight(o) THEN [op[o] EXCEPT !.pc = "lost"]
                                           ELSE op[o]]
    /\ UNCHANGED <<plan, ver, apr, live>>

-----------------------------------------------------------------------------
Init ==
    /\ plan = [status |-> "absent", current |-> NoVersion, last |-> NoOp]
    /\ ver = [v \in Versions |-> NoRow]
    /\ apr = [a \in Approvals |-> NoApproval]
    /\ op = [o \in Ops |-> [pc |-> "idle", kind |-> "replay", version |-> NoVersion]]
    /\ live = {}
    /\ faults = 0

NextVersion(v) ==
    \/ CreatePlan(v)
    \/ CreatePlanVersion(v)
    \/ \E outcome \in {"pending_review", "validation_failed"} : Validate(v, outcome)
    \/ \E target \in Targets : TransitionGovernanceState(v, target)
    \/ \E target \in Targets, a \in Approvals :
          \/ \E future \in BOOLEAN : RequestApproval(v, target, a, future)
          \/ \E written, crash \in BOOLEAN :
                RequestApprovalFails(v, target, a, written, crash)

NextApproval(a) ==
    \/ \E v \in Versions, type \in Types, future \in BOOLEAN,
          status \in Decisions \cup {"pending"} :
          CreateApproval(a, v, type, status, future)
    \/ EditApproval(a)
    \/ \E d \in Decisions, self \in BOOLEAN : DecideApproval(a, d, self)
    \/ DeleteApproval(a)
    \/ EffectiveTimeReached(a)

NextOp(o) ==
    \/ \E v \in Versions : StartActivation(o, v)
    \/ StartReplay(o)
    \/ DispatchRefused(o)
    \/ CreateRun(o)
    \/ \E marked \in BOOLEAN : PushRaises(o, marked)
    \/ FinishActivation(o)
    \/ FinishReplay(o)
    \/ RunEnds(o)

Next ==
    \/ \E v \in Versions : NextVersion(v)
    \/ \E a \in Approvals : NextApproval(a)
    \/ \E o \in Ops : NextOp(o)
    \/ ApiCrash

Spec == Init /\ [][Next]_vars

-----------------------------------------------------------------------------
(* Properties.                                                             *)

\* The rows have the values the code writes.
TypeOK ==
    /\ plan \in [status : States, current : Versions \cup {NoVersion},
                 last : Ops \cup {NoOp}]
    /\ ver \in [Versions -> [state : States, validation : Validations,
                             review : Reviews]]
    /\ apr \in [Approvals -> [version : Versions \cup {NoVersion}, type : Types,
                              status : Decisions \cup {"pending", "absent"},
                              future : BOOLEAN, audited : BOOLEAN]]
    /\ op \in [Ops -> [pc : Pcs, kind : {"activation", "replay"},
                       version : Versions \cup {NoVersion}]]
    /\ live \subseteq Ops
    /\ faults \in 0..MaxFaults

InForce(v) == ver[v].state \in {"active", "deactivation-requested"}

\* The plan's current_active_version_id is exactly the version whose state
\* says that it is in force, over racing activations, supersessions, refused
\* and repeated decisions and failed requests.
OneVersionInForce == \A v \in Versions : InForce(v) <=> plan.current = v

\* The plan row's status and its current version, written by different
\* handlers, agree.
PlanStatusMatchesVersion == plan.status = "active" <=> plan.current # NoVersion

\* While a version is in force, the plan's last_dispatched_run_id is a run of
\* that version: a replay that was overtaken by an activation of another
\* version does not record its run.
LastDispatchIsOfCurrent ==
    plan.current # NoVersion =>
        plan.last \in Ops /\ op[plan.last].version = plan.current

Retired == {v \in Versions : ver[v].state \in {"superseded", "deactivated"}}

WasInForce(v) == InForce(v) \/ v \in Retired

\* A version that no activation can take up again.
Decided(v) == WasInForce(v) \/ ver[v].state = "cancelled"

\* An activation and a replay send their run out before they look at the
\* version again.  A request that ends well is for a version that came into
\* force; one whose run went out unrecorded is for a version that meanwhile
\* was cancelled for good, or had come into force already.  No later handler
\* opens such a version for another activation.
DispatchedVersionIsDecided ==
    \A o \in Ops :
        /\ op[o].pc = "done" => WasInForce(op[o].version)
        /\ op[o].pc = "unrecorded" => Decided(op[o].version)

\* The versions, approvals and dispatches together keep the plan's promise.
Abstract == INSTANCE PlanInForce WITH inForce <- plan.current, retired <- Retired
KeepsPlanInForce == Abstract!Spec
=============================================================================
