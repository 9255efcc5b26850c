----------------------- MODULE RunPlanGovernanceProofs -----------------------
(***************************************************************************)
(* RunPlanGovernance keeps one version in force, for every number of       *)
(* versions, approvals, requests and faults, and implements PlanInForce.   *)
(*                                                                         *)
(* Most steps on a version are quiet: they neither put a version in force  *)
(* nor take one out.  One lemma deals with all of them, so that the proof  *)
(* of each handler is that its step is quiet.  Three steps are not:        *)
(* activate_plan, deactivate_plan and record_plan_dispatch.                *)
(***************************************************************************)
EXTENDS RunPlanGovernance, TLAPS

Rows == [state : States, validation : Validations, review : Reviews]

\* The plan row's last run was recorded by a request that is over, and a
\* request that has started knows its version.
RequestsSettled ==
    /\ plan.last \in Ops => op[plan.last].pc = "done"
    /\ \A o \in Ops : op[o].pc # "idle" => op[o].version \in Versions

\* Before the plan is created it has no versions.
NoPlanNoVersions ==
    plan.status = "absent" => \A v \in Versions : ver[v].state = "absent"

\* What a request in flight, or over, tells of its version.
Answered(o) ==
    LET v == op[o].version
    IN  /\ op[o].pc = "done" => WasInForce(v)
        /\ op[o].pc = "unrecorded" => Decided(v)
        /\ op[o].pc \in {"dispatching", "created"} =>
              \/ Decided(v)
              \/ op[o].kind = "activation" /\ ver[v].state = "approved_pending_activation"

Answers == \A o \in Ops : Answered(o)

IInv == /\ TypeOK
        /\ OneVersionInForce
        /\ PlanStatusMatchesVersion
        /\ LastDispatchIsOfCurrent
        /\ RequestsSettled
        /\ Answers
        /\ NoPlanNoVersions

InForceStates == {"active", "deactivation-requested"}

\* A step that rewrites one version row and leaves the set of versions in
\* force, and the set of retired ones, as they were.
Quiet(v, r) ==
    /\ r \in Rows
    /\ r.state \notin {"absent", "superseded", "deactivated"}
    /\ ver[v].state \notin {"superseded", "deactivated"}
    /\ r.state \in InForceStates <=> InForce(v)
    /\ ver[v].state # "cancelled"
    /\ ver[v].state = "approved_pending_activation" => r.state = "cancelled"
    /\ ver' = [ver EXCEPT ![v] = r]
    /\ plan' = [plan EXCEPT !.status = StatusAfter(r.state)]

ApprovalRows == [version : Versions \cup {NoVersion}, type : Types,
              status : Decisions \cup {"pending", "absent"},
              future : BOOLEAN, audited : BOOLEAN]

\* The parts of the type that a quiet step may change besides plan and ver.
OthersTyped == /\ apr' \in [Approvals -> ApprovalRows]
               /\ live' \subseteq Ops
               /\ faults' \in 0..MaxFaults

\* What no step takes back: that a version came into force, that it was
\* cancelled; and an approval ends in one of the two.
VersionsAdvance ==
    \A w \in Versions :
        /\ WasInForce(w) => WasInForce(w)'
        /\ Decided(w) => Decided(w)'
        /\ ver[w].state = "approved_pending_activation" =>
              ver'[w].state = "approved_pending_activation" \/ Decided(w)'

Kept == plan'.current = plan.current /\ Retired' = Retired

-----------------------------------------------------------------------------
\* What the transition table allows: nothing leaves a retired version, and
\* only a deactivation request and its rejection lead to a state in force.
LEMMA AllowedFacts ==
    ASSUME NEW s, NEW t \in Allowed(s)
    PROVE  /\ s \in States \ {"absent", "superseded", "deactivated", "cancelled"}
           /\ t \in States \ {"absent", "superseded", "draft"}
           /\ t = "active" => s = "deactivation-requested"
           /\ t = "deactivation-requested" => s = "active"
           /\ s = "active" => t = "deactivation-requested"
           /\ s = "deactivation-requested" => t \in {"active", "deactivated"}
           /\ t = "deactivated" => s = "deactivation-requested"
           /\ s = "approved_pending_activation" => t = "cancelled"
  BY DEF Allowed, States, Pending

\* A request that a step leaves alone keeps its answer.
LEMMA AnswerKept ==
    ASSUME IInv, VersionsAdvance, NEW o \in Ops, op'[o] = op[o]
    PROVE  Answered(o)'
<1>1. op[o].pc # "idle" => op[o].version \in Versions
  BY DEF IInv, RequestsSettled
<1>2. Answered(o)
  BY DEF IInv, Answers
<1> QED
  BY <1>1, <1>2 DEF Answered, VersionsAdvance

\* A quiet step keeps the invariant, the plan's current version and the
\* retired versions.
LEMMA QuietStep ==
    ASSUME IInv, NEW v \in Versions, NEW r, Quiet(v, r), UNCHANGED op, OthersTyped
    PROVE  IInv' /\ Kept
<1> USE GovernanceAssumption
<1>1. /\ plan \in [status : States, current : Versions \cup {NoVersion},
                   last : Ops \cup {NoOp}]
      /\ ver \in [Versions -> Rows]
  BY DEF IInv, TypeOK, Rows
<1>2. /\ plan'.current = plan.current /\ plan'.last = plan.last
      /\ plan'.status = StatusAfter(r.state)
  BY <1>1 DEF Quiet
<1>3. /\ ver'[v] = r
      /\ \A w \in Versions : w # v => ver'[w] = ver[w]
  BY <1>1 DEF Quiet
<1>4. TypeOK'
  BY <1>1 DEF IInv, TypeOK, Quiet, OthersTyped, Rows, ApprovalRows, StatusAfter, States
<1>5. \A w \in Versions : InForce(w)' <=> InForce(w)
  BY <1>3 DEF Quiet, InForce, InForceStates
<1>6. OneVersionInForce'
  BY <1>2, <1>5 DEF IInv, OneVersionInForce
<1>7. PlanStatusMatchesVersion'
  BY <1>2 DEF IInv, OneVersionInForce, PlanStatusMatchesVersion, Quiet, StatusAfter,
              InForceStates
<1>8. LastDispatchIsOfCurrent'
  BY <1>2 DEF IInv, LastDispatchIsOfCurrent
<1>9. RequestsSettled'
  BY <1>2 DEF IInv, RequestsSettled
<1>10. NoPlanNoVersions'
  BY <1>2 DEF NoPlanNoVersions, Quiet, StatusAfter
<1>11. Retired' = Retired
  BY <1>3 DEF Retired, Quiet
<1>12. VersionsAdvance
  <2> SUFFICES ASSUME NEW w \in Versions
               PROVE  /\ WasInForce(w) => WasInForce(w)'
                      /\ ver[w].state = "cancelled" => ver'[w].state = "cancelled"
                      /\ ver[w].state = "approved_pending_activation" =>
                            ver'[w].state \in {"approved_pending_activation", "cancelled"}
    BY DEF VersionsAdvance, Decided
  <2>1. WasInForce(w)' <=> WasInForce(w)
    BY <1>5, <1>11 DEF WasInForce
  <2>2. CASE w = v
    BY <1>3, <2>1, <2>2 DEF Quiet
  <2>3. CASE w # v
    BY <1>3, <2>1, <2>3
  <2> QED  BY <2>2, <2>3
<1>13. Answers'
  BY <1>12, AnswerKept DEF Answers
<1> QED
  BY <1>2, <1>4, <1>6, <1>7, <1>8, <1>9, <1>10, <1>11, <1>13 DEF IInv, Kept

\* transition_plan_version is quiet for every target but "deactivated", and
\* stays so when the table then allows the way back.
LEMMA MovedQuiet ==
    ASSUME IInv, NEW v \in Versions, NEW t \in Allowed(ver[v].state),
           t # "deactivated"
    PROVE  LET r == Moved(ver[v], t)
           IN  /\ r \in Rows
               /\ r.state = t
               /\ r.state \notin {"absent", "superseded", "deactivated"}
               /\ ver[v].state \notin {"superseded", "deactivated"}
               /\ r.state \in InForceStates <=> InForce(v)
               /\ ver[v].state # "cancelled"
               /\ ver[v].state = "approved_pending_activation" => r.state = "cancelled"
<1>1. ver[v] \in Rows
  BY DEF IInv, TypeOK, Rows
<1>2. Moved(ver[v], t) \in Rows /\ Moved(ver[v], t).state = t
  BY <1>1, AllowedFacts DEF Moved, ValidationAfter, ReviewAfter, Rows, Validations, Reviews
<1>3. t \in InForceStates <=> InForce(v)
  BY AllowedFacts DEF InForceStates, InForce
<1> QED
  BY <1>2, <1>3, AllowedFacts

LEMMA TransitionQuiet ==
    ASSUME IInv, NEW v \in Versions, NEW t, t # "deactivated",
           TransitionPlanVersion(v, t)
    PROVE  Quiet(v, Moved(ver[v], t))
  BY MovedQuiet DEF TransitionPlanVersion, Quiet

-----------------------------------------------------------------------------
\* Steps that touch neither the plan nor its versions, and requests only in
\* flight, keep everything.
LEMMA IdleStep ==
    ASSUME IInv, UNCHANGED <<plan, ver, op>>, OthersTyped
    PROVE  IInv' /\ Kept
<1>1. TypeOK'
  BY DEF IInv, TypeOK, OthersTyped, ApprovalRows
<1>2. Kept
  BY DEF Kept, Retired
<1>3. VersionsAdvance
  BY DEF VersionsAdvance, Decided, WasInForce, InForce, Retired
<1>4. Answers'
  BY <1>3, AnswerKept DEF Answers
<1> QED
  BY <1>1, <1>2, <1>4 DEF IInv, OneVersionInForce, InForce, PlanStatusMatchesVersion,
     LastDispatchIsOfCurrent, RequestsSettled, NoPlanNoVersions

LEMMA OthersUnchanged ==
    ASSUME IInv, UNCHANGED <<live, faults>>, apr' \in [Approvals -> ApprovalRows]
    PROVE  OthersTyped
  BY DEF IInv, TypeOK, OthersTyped

LEMMA ApprovalTyped ==
    ASSUME NEW v \in Versions, NEW type \in Types,
           NEW status \in Decisions \cup {"pending"}, NEW future \in BOOLEAN
    PROVE  Approval(v, type, status, future) \in ApprovalRows
  BY DEF Approval, ApprovalRows

LEMMA RequestTyped == \A t : RequestType(t) \in Types
  BY DEF RequestType, Types

-----------------------------------------------------------------------------
\* The handlers of plans and versions.
LEMMA VersionSteps ==
    ASSUME IInv, NEW v \in Versions, NextVersion(v)
    PROVE  IInv' /\ Kept
<1> USE GovernanceAssumption
<1>0. /\ apr \in [Approvals -> ApprovalRows]
      /\ ver[v] \in Rows
      /\ plan \in [status : States, current : Versions \cup {NoVersion},
                   last : Ops \cup {NoOp}]
      /\ live \subseteq Ops /\ faults \in 0..MaxFaults
  BY DEF IInv, TypeOK, Rows, ApprovalRows
<1>1. /\ NewVersion \in Rows /\ NewVersion.state = "draft"
  BY DEF NewVersion, NoRow, Rows, States, Pending, Validations, Reviews
<1>2. ASSUME CreatePlan(v) PROVE IInv' /\ Kept
  <2>1. plan.current = NoVersion /\ ver[v].state = "absent"
    BY <1>2 DEF CreatePlan, IInv, PlanStatusMatchesVersion, NoPlanNoVersions
  <2>2. Quiet(v, NewVersion)
    BY <1>1, <1>2, <2>1 DEF CreatePlan, Quiet, StatusAfter, InForce, InForceStates
  <2>3. UNCHANGED op /\ OthersTyped
    BY <1>0, <1>2, OthersUnchanged DEF CreatePlan
  <2> QED  BY <2>2, <2>3, QuietStep
<1>3. ASSUME CreatePlanVersion(v) PROVE IInv' /\ Kept
  <2>1. plan' = [plan EXCEPT !.status = StatusAfter("draft")]
    BY <1>0, <1>3 DEF CreatePlanVersion, StatusAfter, IInv, PlanStatusMatchesVersion
  <2>2. Quiet(v, NewVersion)
    BY <1>1, <1>3, <2>1 DEF CreatePlanVersion, Quiet, InForce, InForceStates
  <2>3. UNCHANGED op /\ OthersTyped
    BY <1>0, <1>3, OthersUnchanged DEF CreatePlanVersion
  <2> QED  BY <2>2, <2>3, QuietStep
<1>4. ASSUME NEW outcome \in {"pending_review", "validation_failed"},
             Validate(v, outcome)
      PROVE  IInv' /\ Kept
  <2> DEFINE r == Moved(Moved(ver[v], "pending_validation"), outcome)
  <2>1. r \in Rows /\ r.state = outcome
    BY <1>0 DEF Moved, ValidationAfter, ReviewAfter, Rows, Validations, Reviews,
                States, Pending
  <2>2. ver[v].state \in {"draft", "validation_failed"}
    BY <1>4 DEF Validate
  <2>3. /\ ver' = [ver EXCEPT ![v] = r]
        /\ plan' = [plan EXCEPT !.status = StatusAfter(r.state)]
    BY <1>4, <2>1 DEF Validate
  <2>4. Quiet(v, r)
    BY <2>1, <2>2, <2>3 DEF Quiet, InForce, InForceStates
  <2>5. UNCHANGED op /\ OthersTyped
    BY <1>0, <1>4, OthersUnchanged DEF Validate
  <2> QED  BY <2>4, <2>5, QuietStep
<1>5. ASSUME NEW t \in Targets, TransitionGovernanceState(v, t)
      PROVE  IInv' /\ Kept
  <2>1. Quiet(v, Moved(ver[v], t))
    BY <1>5, TransitionQuiet DEF TransitionGovernanceState, Targets
  <2>2. UNCHANGED op /\ OthersTyped
    BY <1>0, <1>5, OthersUnchanged DEF TransitionGovernanceState
  <2> QED  BY <2>1, <2>2, QuietStep
<1>6. ASSUME NEW t \in Targets, NEW a \in Approvals, NEW future \in BOOLEAN,
             RequestApproval(v, t, a, future)
      PROVE  IInv' /\ Kept
  <2>1. Quiet(v, Moved(ver[v], t))
    BY <1>6, TransitionQuiet DEF RequestApproval, Targets
  <2>2. apr' \in [Approvals -> ApprovalRows]
    BY <1>0, <1>6, ApprovalTyped, RequestTyped DEF RequestApproval
  <2>3. UNCHANGED op /\ OthersTyped
    BY <1>6, <2>2, OthersUnchanged DEF RequestApproval
  <2> QED  BY <2>1, <2>3, QuietStep
<1>7. ASSUME NEW t \in Targets, NEW a \in Approvals,
             NEW written \in BOOLEAN, NEW crash \in BOOLEAN,
             RequestApprovalFails(v, t, a, written, crash)
      PROVE  IInv' /\ Kept
  <2> DEFINE requested == Moved(ver[v], t)
             back == ~crash /\ ver[v].state \in Allowed(t)
             r == IF back THEN Moved(requested, ver[v].state) ELSE requested
  <2>1. /\ IsRequest(t) /\ t \in Allowed(ver[v].state)
        /\ ver' = [ver EXCEPT ![v] = r]
        /\ plan' = [plan EXCEPT !.status = StatusAfter(r.state)]
        /\ UNCHANGED <<op, live>>
    BY <1>7 DEF RequestApprovalFails
  <2>2. t # "deactivated"
    BY DEF Targets
  <2>5. Quiet(v, r)
    <3>1. CASE ~back
      BY <2>1, <2>2, <3>1, MovedQuiet DEF Quiet
    <3>2. CASE back
      <4>1. \/ t = "activation-requested" /\ ver[v].state = "inactive"
            \/ t = "deactivation-requested" /\ ver[v].state = "active"
        BY <2>1, <3>2, AllowedFacts DEF IsRequest, Allowed
      <4>2. r = ver[v]
        BY <1>0, <3>2, <4>1 DEF Moved, ValidationAfter, ReviewAfter, Rows
      <4> QED
        BY <1>0, <2>1, <4>1, <4>2 DEF Quiet, InForce, InForceStates
    <3> QED  BY <3>1, <3>2
  <2>6. OthersTyped
    <3>1. apr' \in [Approvals -> ApprovalRows]
      BY <1>0, <1>7, ApprovalTyped, RequestTyped DEF RequestApprovalFails
    <3>2. faults' \in 0..MaxFaults
      BY <1>0, <1>7 DEF RequestApprovalFails, Fault
    <3> QED  BY <1>0, <2>1, <3>1, <3>2 DEF OthersTyped
  <2> QED  BY <2>1, <2>5, <2>6, QuietStep
<1> QED
  BY <1>2, <1>3, <1>4, <1>5, <1>6, <1>7 DEF NextVersion

-----------------------------------------------------------------------------
\* deactivate_plan takes the version in force out of force for good.
LEMMA DeactivateStep ==
    ASSUME IInv, NEW v \in Versions, DeactivatePlan(v), UNCHANGED op, OthersTyped
    PROVE  IInv' /\ Abstract!Deactivate
<1> USE GovernanceAssumption
<1>1. /\ plan \in [status : States, current : Versions \cup {NoVersion},
                   last : Ops \cup {NoOp}]
      /\ ver \in [Versions -> Rows]
  BY DEF IInv, TypeOK, Rows
<1>2. plan.current = v
  BY DEF IInv, OneVersionInForce, InForce, DeactivatePlan
<1>3. /\ plan'.current = NoVersion /\ plan'.last = plan.last
      /\ plan'.status = "deactivated"
  BY <1>1, <1>2 DEF DeactivatePlan
<1>4. /\ ver'[v].state = "deactivated"
      /\ \A w \in Versions : w # v => ver'[w] = ver[w]
  BY <1>1 DEF DeactivatePlan, Rows
<1>5. TypeOK'
  <2>1. plan' \in [status : States, current : Versions \cup {NoVersion},
                   last : Ops \cup {NoOp}]
    BY <1>1 DEF DeactivatePlan, States
  <2>2. ver' \in [Versions -> Rows]
    BY <1>1 DEF DeactivatePlan, Rows, States
  <2> QED
    BY <2>1, <2>2 DEF IInv, TypeOK, OthersTyped, Rows, ApprovalRows
<1>6. OneVersionInForce'
  BY <1>2, <1>3, <1>4 DEF IInv, OneVersionInForce, InForce
<1>7. PlanStatusMatchesVersion' /\ LastDispatchIsOfCurrent' /\ NoPlanNoVersions'
  BY <1>3 DEF PlanStatusMatchesVersion, LastDispatchIsOfCurrent, NoPlanNoVersions
<1>8. VersionsAdvance
  BY <1>4 DEF VersionsAdvance, Decided, WasInForce, InForce, Retired, DeactivatePlan
<1>9. RequestsSettled' /\ Answers'
  BY <1>3, <1>8, AnswerKept DEF IInv, RequestsSettled, Answers
<1>10. Retired' = Retired \cup {v}
  BY <1>4 DEF Retired
<1> QED
  BY <1>2, <1>3, <1>5, <1>6, <1>7, <1>9, <1>10 DEF IInv, Abstract!Deactivate

\* The approvals endpoints.
LEMMA ApprovalSteps ==
    ASSUME IInv, NEW a \in Approvals, NextApproval(a)
    PROVE  IInv' /\ (Kept \/ Abstract!Deactivate)
<1> USE GovernanceAssumption
<1>0. apr \in [Approvals -> ApprovalRows]
  BY DEF IInv, TypeOK, ApprovalRows
<1>1. ASSUME NEW v \in Versions, NEW type \in Types, NEW future \in BOOLEAN,
             NEW status \in Decisions \cup {"pending"},
             CreateApproval(a, v, type, status, future)
      PROVE  IInv' /\ Kept
  BY <1>0, <1>1, ApprovalTyped, OthersUnchanged, IdleStep DEF CreateApproval
<1>2. ASSUME EditApproval(a) PROVE IInv' /\ Kept
  <2>1. apr' \in [Approvals -> ApprovalRows]
    BY <1>0, <1>2 DEF EditApproval, ApprovalRows
  <2> QED  BY <1>2, <2>1, OthersUnchanged, IdleStep DEF EditApproval
<1>3. ASSUME NEW d \in Decisions, NEW self \in BOOLEAN, DecideApproval(a, d, self)
      PROVE  IInv' /\ (Kept \/ Abstract!Deactivate)
  <2> DEFINE v == apr[a].version
  <2>1. v \in Versions
    BY <1>0, <1>3 DEF DecideApproval, ApprovalRows
  <2>2. apr' \in [Approvals -> ApprovalRows]
    BY <1>0, <1>3 DEF DecideApproval, ApprovalRows
  <2>3. UNCHANGED op /\ OthersTyped
    BY <1>3, <2>2, OthersUnchanged DEF DecideApproval
  <2>4. ASSUME NEW t \in {"approved_pending_activation", "inactive", "active"},
               TransitionPlanVersion(v, t)
        PROVE  IInv' /\ Kept
    <3>1. Quiet(v, Moved(ver[v], t))
      BY <2>1, <2>4, TransitionQuiet
    <3> QED  BY <2>1, <2>3, <3>1, QuietStep
  <2>5. ASSUME DeactivatePlan(v) PROVE IInv' /\ Abstract!Deactivate
    BY <2>1, <2>3, <2>5, DeactivateStep
  <2>6. \/ DeactivatePlan(v)
        \/ \E t \in {"approved_pending_activation", "inactive", "active"} :
              TransitionPlanVersion(v, t)
    BY <1>3 DEF DecideApproval, DecisionEffect
  <2> QED  BY <2>4, <2>5, <2>6
<1>4. ASSUME DeleteApproval(a) PROVE IInv' /\ Kept
  <2>1. apr' \in [Approvals -> ApprovalRows]
    BY <1>0, <1>4 DEF DeleteApproval, ApprovalRows, NoApproval, Types
  <2> QED  BY <1>4, <2>1, OthersUnchanged, IdleStep DEF DeleteApproval
<1>5. ASSUME EffectiveTimeReached(a) PROVE IInv' /\ Kept
  <2>1. apr' \in [Approvals -> ApprovalRows]
    BY <1>0, <1>5 DEF EffectiveTimeReached, ApprovalRows
  <2> QED  BY <1>5, <2>1, OthersUnchanged, IdleStep DEF EffectiveTimeReached
<1> QED
  BY <1>1, <1>2, <1>3, <1>4, <1>5 DEF NextApproval

-----------------------------------------------------------------------------
Requests == [Ops -> [pc : Pcs, kind : {"activation", "replay"},
                     version : Versions \cup {NoVersion}]]

\* What a step may do to the requests: those that are over stay as they are,
\* and those that have started know their version.
RequestsAdvance ==
    /\ op' \in Requests
    /\ \A p \in Ops : op[p].pc = "done" => op'[p] = op[p]
    /\ \A p \in Ops : op'[p].pc # "idle" => op'[p].version \in Versions

\* A request that advances without reaching the plan keeps everything.
LEMMA RequestStep ==
    ASSUME IInv, UNCHANGED <<plan, ver>>, RequestsAdvance, OthersTyped,
           \A p \in Ops : op'[p] = op[p] \/ Answered(p)'
    PROVE  IInv' /\ Kept
<1> USE GovernanceAssumption
<1>1. TypeOK'
  BY DEF IInv, TypeOK, OthersTyped, ApprovalRows, RequestsAdvance, Requests
<1>2. Kept
  BY DEF Kept, Retired
<1>3. LastDispatchIsOfCurrent' /\ RequestsSettled'
  BY DEF IInv, LastDispatchIsOfCurrent, RequestsSettled, RequestsAdvance
<1>4. VersionsAdvance
  BY DEF VersionsAdvance, Decided, WasInForce, InForce, Retired
<1>5. Answers'
  BY <1>4, AnswerKept DEF Answers
<1> QED
  BY <1>1, <1>2, <1>3, <1>5 DEF IInv, OneVersionInForce, InForce,
                                PlanStatusMatchesVersion, NoPlanNoVersions

\* activate_plan puts the version in force and retires the one that was.
LEMMA ActivateStep ==
    ASSUME IInv, NEW o \in Ops, NEW v \in Versions, CanActivate(v),
           RequestsAdvance, OthersTyped, op'[o].pc = "done", op'[o].version = v,
           \A p \in Ops \ {o} : op'[p] = op[p],
           ver' = VersionsActivated(v),
           plan' = [status |-> "active", current |-> v, last |-> o]
    PROVE  IInv' /\ Abstract!Activate(v)
<1> USE GovernanceAssumption
<1>1. /\ plan.current \in Versions \cup {NoVersion}
      /\ ver \in [Versions -> Rows]
  BY DEF IInv, TypeOK, Rows
<1>2. v # plan.current /\ v \notin Retired
  BY DEF IInv, OneVersionInForce, InForce, CanActivate, Retired
<1>3. /\ ver'[v] = [ver[v] EXCEPT !.state = "active"]
      /\ \A w \in Versions : w # v /\ w # plan.current => ver'[w] = ver[w]
      /\ plan.current \in Versions =>
            ver'[plan.current] = [ver[plan.current] EXCEPT !.state = "superseded",
                                                           !.review = "superseded"]
  BY <1>2 DEF VersionsActivated
<1>4. /\ ver'[v].state = "active"
      /\ plan.current \in Versions => ver'[plan.current].state = "superseded"
  <2>1. ver[v] \in Rows
    BY <1>1
  <2>2. ver'[v].state = "active"
    BY <1>3, <2>1 DEF Rows
  <2>3. ASSUME plan.current \in Versions
        PROVE  ver'[plan.current].state = "superseded"
    <3>1. ver[plan.current] \in Rows
      BY <1>1, <2>3
    <3> QED  BY <1>3, <2>3, <3>1 DEF Rows
  <2> QED  BY <2>2, <2>3
<1>5. TypeOK'
  <2>1. ver' \in [Versions -> Rows]
    BY <1>1, <1>2 DEF VersionsActivated, Rows, States, Reviews
  <2>2. plan' \in [status : States, current : Versions \cup {NoVersion},
                   last : Ops \cup {NoOp}]
    BY DEF States
  <2> QED
    BY <2>1, <2>2 DEF TypeOK, OthersTyped, Rows, ApprovalRows, RequestsAdvance, Requests
<1>6. OneVersionInForce'
  <2> SUFFICES ASSUME NEW w \in Versions PROVE InForce(w)' <=> w = v
    BY DEF OneVersionInForce
  <2>1. CASE w = v
    BY <1>4, <2>1 DEF InForce
  <2>2. CASE w # v /\ w = plan.current
    BY <1>4, <2>2 DEF InForce
  <2>3. CASE w # v /\ w # plan.current
    BY <1>3, <2>3 DEF InForce, IInv, OneVersionInForce
  <2> QED  BY <2>1, <2>2, <2>3
<1>7. PlanStatusMatchesVersion' /\ LastDispatchIsOfCurrent' /\ NoPlanNoVersions'
  BY DEF PlanStatusMatchesVersion, LastDispatchIsOfCurrent, NoPlanNoVersions
<1>8. Answers'
  <2> SUFFICES ASSUME NEW p \in Ops PROVE Answered(p)'
    BY DEF Answers
  <2>1. ASSUME NEW w \in Versions, w # v, w # plan.current
        PROVE  ver'[w] = ver[w]
    BY <1>3, <2>1
  <2>2. VersionsAdvance
    <3> SUFFICES ASSUME NEW w \in Versions
                 PROVE  /\ WasInForce(w) => WasInForce(w)'
                        /\ Decided(w) => Decided(w)'
                        /\ ver[w].state = "approved_pending_activation" =>
                              ver'[w].state = "approved_pending_activation" \/ Decided(w)'
      BY DEF VersionsAdvance
    <3>1. CASE w = v \/ w = plan.current
      BY <1>4, <3>1 DEF Decided, WasInForce, InForce, Retired
    <3>2. CASE w # v /\ w # plan.current
      BY <2>1, <3>2 DEF Decided, WasInForce, InForce, Retired
    <3> QED  BY <3>1, <3>2
  <2>3. CASE p = o
    BY <1>4, <2>3 DEF Answered, WasInForce, InForce
  <2>4. CASE p # o
    BY <2>2, <2>4, AnswerKept
  <2> QED  BY <2>3, <2>4
<1>9. RequestsSettled'
  BY DEF RequestsSettled, RequestsAdvance
<1>10. Retired' = Retired \cup ({plan.current} \ {NoVersion})
  <2>1. ASSUME NEW w \in Versions
        PROVE  ver'[w].state \in {"superseded", "deactivated"} <=>
                  w \in Retired \/ w = plan.current
    BY <1>2, <1>3, <1>4 DEF Retired
  <2> QED  BY <1>1, <2>1 DEF Retired
<1> QED
  BY <1>2, <1>5, <1>6, <1>7, <1>8, <1>9, <1>10 DEF IInv, Abstract!Activate

\* Activation and replay.
LEMMA OpSteps ==
    ASSUME IInv, NEW o \in Ops, NextOp(o)
    PROVE  IInv' /\ (Kept \/ \E v \in Versions : Abstract!Activate(v))
<1> USE GovernanceAssumption
<1>0. /\ op \in Requests /\ apr \in [Approvals -> ApprovalRows]
      /\ live \subseteq Ops /\ faults \in 0..MaxFaults
      /\ plan.current \in Versions \cup {NoVersion}
      /\ plan.last \in Ops \cup {NoOp}
      /\ \A p \in Ops : op[p].pc # "idle" => op[p].version \in Versions
  BY DEF IInv, TypeOK, Requests, ApprovalRows, RequestsSettled
<1>1. ASSUME NEW kind \in {"activation", "replay"}, NEW v \in Versions,
             Start(o, kind, v),
             \/ Decided(v)
             \/ kind = "activation" /\ ver[v].state = "approved_pending_activation"
      PROVE  IInv' /\ Kept
  <2>1. RequestsAdvance
    BY <1>0, <1>1 DEF Start, RequestsAdvance, Requests, Pcs
  <2>2. UNCHANGED <<plan, ver>> /\ OthersTyped
    BY <1>0, <1>1 DEF Start, OthersTyped
  <2>3. /\ op'[o] = [pc |-> "dispatching", kind |-> kind, version |-> v]
        /\ \A p \in Ops \ {o} : op'[p] = op[p]
    BY <1>0, <1>1 DEF Start, Requests
  <2>4. Answered(o)'
    BY <1>1, <2>2, <2>3 DEF Answered, Decided, WasInForce, InForce, Retired
  <2> QED  BY <2>1, <2>2, <2>3, <2>4, RequestStep
<1>2. ASSUME NEW v \in Versions, StartActivation(o, v) PROVE IInv' /\ Kept
  BY <1>1, <1>2 DEF StartActivation
<1>3. ASSUME StartReplay(o) PROVE IInv' /\ Kept
  <2>1. plan.current \in Versions /\ WasInForce(plan.current)
    BY <1>0, <1>3 DEF StartReplay, IInv, OneVersionInForce, WasInForce
  <2> QED  BY <1>1, <1>3, <2>1 DEF StartReplay, Decided
<1>4. ASSUME NEW pc \in Pcs \ {"idle"}, op[o].pc \in {"dispatching", "created"},
             op' = [op EXCEPT ![o].pc = pc]
      PROVE  /\ RequestsAdvance
             /\ op'[o].pc = pc /\ op'[o].version = op[o].version
             /\ op[o].version \in Versions /\ op'[o].kind = op[o].kind
             /\ \A p \in Ops \ {o} : op'[p] = op[p]
             /\ \/ Decided(op[o].version)
                \/ /\ op[o].kind = "activation"
                   /\ ver[op[o].version].state = "approved_pending_activation"
             /\ UNCHANGED ver /\ pc \in {"refused", "created"} => Answered(o)'
             /\ UNCHANGED ver /\ pc = "unrecorded" /\ Decided(op[o].version) => Answered(o)'
  <2>1. /\ RequestsAdvance
        /\ op'[o].pc = pc /\ op'[o].version = op[o].version
        /\ op[o].version \in Versions /\ op'[o].kind = op[o].kind
        /\ \A p \in Ops \ {o} : op'[p] = op[p]
    BY <1>0, <1>4 DEF RequestsAdvance, Requests
  <2>2. \/ Decided(op[o].version)
        \/ /\ op[o].kind = "activation"
           /\ ver[op[o].version].state = "approved_pending_activation"
    BY <1>4 DEF IInv, Answers, Answered
  <2>4. ASSUME UNCHANGED ver, pc \in {"refused", "created"} PROVE Answered(o)'
    BY <2>1, <2>2, <2>4 DEF Answered, Decided, WasInForce, InForce, Retired
  <2>5. ASSUME UNCHANGED ver, pc = "unrecorded", Decided(op[o].version) PROVE Answered(o)'
    BY <2>1, <2>5 DEF Answered, Decided, WasInForce, InForce, Retired
  <2> QED  BY <2>1, <2>2, <2>4, <2>5
<1>5. ASSUME DispatchRefused(o) PROVE IInv' /\ Kept
  <2>1. RequestsAdvance /\ Answered(o)' /\ \A p \in Ops \ {o} : op'[p] = op[p]
    BY <1>4, <1>5 DEF DispatchRefused, Pcs
  <2>2. UNCHANGED <<plan, ver>> /\ OthersTyped
    BY <1>0, <1>5 DEF DispatchRefused, OthersTyped
  <2> QED  BY <2>1, <2>2, RequestStep
<1>6. ASSUME CreateRun(o) PROVE IInv' /\ Kept
  <2>1. RequestsAdvance /\ Answered(o)' /\ \A p \in Ops \ {o} : op'[p] = op[p]
    BY <1>4, <1>6 DEF CreateRun, Pcs
  <2>2. UNCHANGED <<plan, ver>> /\ OthersTyped
    BY <1>0, <1>6 DEF CreateRun, OthersTyped
  <2> QED  BY <2>1, <2>2, RequestStep
<1>7. ASSUME NEW marked \in BOOLEAN, PushRaises(o, marked) PROVE IInv' /\ Kept
  <2>1. RequestsAdvance /\ Answered(o)' /\ \A p \in Ops \ {o} : op'[p] = op[p]
    BY <1>4, <1>7 DEF PushRaises, Pcs
  <2>2. UNCHANGED <<plan, ver>> /\ OthersTyped
    BY <1>0, <1>7 DEF PushRaises, Fault, OthersTyped
  <2> QED  BY <2>1, <2>2, RequestStep
<1>8. ASSUME FinishActivation(o)
      PROVE  IInv' /\ (Kept \/ \E v \in Versions : Abstract!Activate(v))
  <2> DEFINE v == op[o].version
  <2>1. OthersTyped
    BY <1>0, <1>8 DEF FinishActivation, OthersTyped
  <2>2. CASE CanActivate(v)
    <3>1. /\ op' = [op EXCEPT ![o].pc = "done"]
          /\ ver' = VersionsActivated(v)
          /\ plan' = [status |-> "active", current |-> v, last |-> o]
      BY <1>8, <2>2 DEF FinishActivation, Settle
    <3>2. /\ RequestsAdvance /\ v \in Versions
          /\ op'[o].pc = "done" /\ op'[o].version = v
          /\ \A p \in Ops \ {o} : op'[p] = op[p]
      BY <1>4, <1>8, <3>1 DEF FinishActivation, Pcs
    <3>3. IInv' /\ Abstract!Activate(v)
      BY <2>1, <2>2, <3>1, <3>2, ActivateStep
    <3> QED  BY <3>2, <3>3
  <2>3. CASE ~CanActivate(v)
    <3>1. op' = [op EXCEPT ![o].pc = "unrecorded"] /\ UNCHANGED <<plan, ver>>
      BY <1>8, <2>3 DEF FinishActivation, Settle
    <3>2. RequestsAdvance /\ Answered(o)' /\ \A p \in Ops \ {o} : op'[p] = op[p]
      BY <1>4, <1>8, <2>3, <3>1 DEF FinishActivation, CanActivate, Pcs
    <3> QED  BY <2>1, <3>1, <3>2, RequestStep
  <2> QED  BY <2>2, <2>3
<1>9. ASSUME FinishReplay(o) PROVE IInv' /\ Kept
  <2> DEFINE v == op[o].version
  <2>1. OthersTyped /\ UNCHANGED ver
    BY <1>0, <1>9 DEF FinishReplay, OthersTyped
  <2>2. CASE Recordable(v)
    <3>1. /\ op' = [op EXCEPT ![o].pc = "done"]
          /\ plan' = [plan EXCEPT !.last = o]
      BY <1>9, <2>2 DEF FinishReplay, Settle
    <3>2. /\ RequestsAdvance
          /\ op'[o].pc = "done" /\ op'[o].version = v
          /\ \A p \in Ops \ {o} : op'[p] = op[p]
      BY <1>4, <1>9, <3>1 DEF FinishReplay, Pcs
    <3>3. /\ plan'.status = plan.status /\ plan'.current = plan.current
          /\ plan'.last = o
          /\ plan' \in [status : States, current : Versions \cup {NoVersion},
                        last : Ops \cup {NoOp}]
      BY <3>1 DEF IInv, TypeOK
    <3>4. TypeOK'
      BY <2>1, <3>2, <3>3 DEF IInv, TypeOK, OthersTyped, ApprovalRows, RequestsAdvance,
                              Requests
    <3>5. LastDispatchIsOfCurrent'
      BY <2>2, <3>2, <3>3 DEF LastDispatchIsOfCurrent, Recordable
    <3>6. RequestsSettled'
      BY <3>2, <3>3 DEF RequestsSettled, RequestsAdvance
    <3>7. Kept
      BY <2>1, <3>3 DEF Kept, Retired
    <3>8. Answers'
      <4>1. VersionsAdvance
        BY <2>1 DEF VersionsAdvance, Decided, WasInForce, InForce, Retired
      <4>2. Answered(o)'
        BY <2>1, <2>2, <3>2 DEF Answered, WasInForce, InForce, Recordable
      <4> QED  BY <3>2, <4>1, <4>2, AnswerKept DEF Answers
    <3> QED
      BY <2>1, <3>3, <3>4, <3>5, <3>6, <3>7, <3>8 DEF IInv, OneVersionInForce, InForce,
            PlanStatusMatchesVersion, NoPlanNoVersions
  <2>3. CASE ~Recordable(v)
    <3>1. op' = [op EXCEPT ![o].pc = "unrecorded"] /\ UNCHANGED plan
      BY <1>9, <2>3 DEF FinishReplay, Settle
    <3>2. RequestsAdvance /\ Answered(o)' /\ \A p \in Ops \ {o} : op'[p] = op[p]
      BY <1>4, <1>9, <2>1, <3>1 DEF FinishReplay, Pcs
    <3> QED  BY <2>1, <3>1, <3>2, RequestStep
  <2> QED  BY <2>2, <2>3
<1>10. ASSUME RunEnds(o) PROVE IInv' /\ Kept
  <2>1. UNCHANGED <<plan, ver, op>> /\ OthersTyped
    BY <1>0, <1>10 DEF RunEnds, OthersTyped
  <2> QED  BY <2>1, IdleStep
<1> QED
  BY <1>2, <1>3, <1>5, <1>6, <1>7, <1>8, <1>9, <1>10 DEF NextOp

\* A crash of the API.
LEMMA CrashStep ==
    ASSUME IInv, ApiCrash
    PROVE  IInv' /\ Kept
<1> USE GovernanceAssumption
<1>1. RequestsAdvance
  BY DEF IInv, TypeOK, RequestsSettled, ApiCrash, InFlight, RequestsAdvance, Requests, Pcs
<1>2. UNCHANGED <<plan, ver>> /\ OthersTyped
  BY DEF IInv, TypeOK, ApiCrash, Fault, OthersTyped, ApprovalRows
<1>3. \A p \in Ops : op'[p].pc = "lost" \/ op'[p] = op[p]
  BY DEF IInv, TypeOK, ApiCrash
<1>4. \A p \in Ops : op'[p] = op[p] \/ Answered(p)'
  BY <1>3 DEF Answered
<1> QED
  BY <1>1, <1>2, <1>4, RequestStep

-----------------------------------------------------------------------------
\* Every step keeps the invariant and is a step of PlanInForce or a stutter.
LEMMA NextStep ==
    ASSUME IInv, [Next]_vars
    PROVE  IInv' /\ [Abstract!Next]_Abstract!vars
<1>1. ASSUME Kept PROVE [Abstract!Next]_Abstract!vars
  BY <1>1 DEF Kept, Abstract!vars
<1>2. ASSUME NEW v \in Versions, NextVersion(v)
      PROVE  IInv' /\ [Abstract!Next]_Abstract!vars
  BY <1>1, <1>2, VersionSteps
<1>3. ASSUME NEW a \in Approvals, NextApproval(a)
      PROVE  IInv' /\ [Abstract!Next]_Abstract!vars
  BY <1>1, <1>3, ApprovalSteps DEF Abstract!Next
<1>4. ASSUME NEW o \in Ops, NextOp(o)
      PROVE  IInv' /\ [Abstract!Next]_Abstract!vars
  BY <1>1, <1>4, OpSteps DEF Abstract!Next
<1>5. CASE ApiCrash
  BY <1>1, <1>5, CrashStep
<1>6. CASE UNCHANGED vars
  <2>1. UNCHANGED <<plan, ver, op>> /\ OthersTyped
    BY <1>6 DEF vars, IInv, TypeOK, OthersTyped, ApprovalRows
  <2> QED  BY <1>1, <2>1, IdleStep
<1> QED
  BY <1>2, <1>3, <1>4, <1>5, <1>6 DEF Next

LEMMA InitStep == Init => IInv /\ Abstract!Init
<1> USE GovernanceAssumption
<1> SUFFICES ASSUME Init PROVE IInv /\ Abstract!Init
  OBVIOUS
<1>1. \A v \in Versions : ver[v] = NoRow
  BY DEF Init
<1>2. TypeOK
  BY DEF Init, TypeOK, NoRow, NoApproval, States, Pending, Validations, Reviews, Types, Pcs
<1>3. \A v \in Versions : ver[v].state = "absent"
  BY <1>1 DEF NoRow
<1> QED
  BY <1>2, <1>3 DEF Init, IInv, OneVersionInForce, InForce, PlanStatusMatchesVersion,
     LastDispatchIsOfCurrent, RequestsSettled, Answers, Answered, NoPlanNoVersions,
     Retired, Abstract!Init

\* The invariant holds in every reachable state.
THEOREM Invariance == Spec => []IInv
<1>1. Init => IInv
  BY InitStep
<1>2. IInv /\ [Next]_vars => IInv'
  BY NextStep
<1> QED
  BY <1>1, <1>2, PTL DEF Spec

\* The rows have the values the code writes.
THEOREM GovernanceTyped == Spec => []TypeOK
<1>1. IInv => TypeOK
  BY DEF IInv
<1> QED
  BY <1>1, Invariance, PTL

\* current_active_version_id is exactly the version whose state says that it
\* is in force.
THEOREM OneVersionInForceHolds == Spec => []OneVersionInForce
<1>1. IInv => OneVersionInForce
  BY DEF IInv
<1> QED
  BY <1>1, Invariance, PTL

\* The plan row's status is "active" exactly while it has a current version.
THEOREM PlanStatusHolds == Spec => []PlanStatusMatchesVersion
<1>1. IInv => PlanStatusMatchesVersion
  BY DEF IInv
<1> QED
  BY <1>1, Invariance, PTL

\* The last recorded run is one of the version in force.
THEOREM LastDispatchHolds == Spec => []LastDispatchIsOfCurrent
<1>1. IInv => LastDispatchIsOfCurrent
  BY DEF IInv
<1> QED
  BY <1>1, Invariance, PTL

\* A run that went out and was not recorded is for a version that was
\* cancelled for good or had come into force already, and a recorded one for a
\* version that came into force (activate_plan, record_plan_dispatch).
THEOREM DispatchedVersionDecided == Spec => []DispatchedVersionIsDecided
<1>1. IInv => DispatchedVersionIsDecided
  BY DEF IInv, Answers, Answered, DispatchedVersionIsDecided
<1> QED
  BY <1>1, Invariance, PTL

\* The governance of a plan implements PlanInForce: one version in force at a
\* time, and none that returns.
THEOREM Refinement == Spec => KeepsPlanInForce
<1>1. Init => Abstract!Init
  BY InitStep
<1>2. IInv /\ [Next]_vars => [Abstract!Next]_Abstract!vars
  BY NextStep
<1> QED
  BY <1>1, <1>2, Invariance, PTL DEF Spec, KeepsPlanInForce, Abstract!Spec
=============================================================================
