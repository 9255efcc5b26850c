----------------------------- MODULE RuleLifecycle -----------------------------
(***************************************************************************)
(* Rules, their versions, the requests that govern them and the suites     *)
(* that execute them.  A rule has one row with its status and one row per  *)
(* version; a request asks for an activation, a deactivation or the repair *)
(* of the rule's suite; a suite has versions in the artifact registry.     *)
(*                                                                         *)
(* One API process serves the requests.  Its handlers block on the         *)
(* database, so a handler runs to its end before the next one starts; only *)
(* update_rule waits for another service between its check and its write.  *)
(* A handler commits several times, and an error between two commits ends  *)
(* it there.  All callers hold all scopes.                                 *)
(***************************************************************************)
EXTENDS Naturals, Sequences, FiniteSets, FiniteSetsExt

CONSTANTS
    Rules,           \* the rules the users work on; the suite a rule
                     \* publishes has its id
    Peers,           \* rules that stay in service, in suites of several rules
    Shared,          \* ids of suites compiled from several rules
    Users, NoUser,   \* who calls the API, and nobody
    RequestKinds,    \* the kinds of request the users make
    BirthStates,     \* the values of "active" sent with a new or edited rule
    Targets,         \* the lifecycle statuses the users set
    MaxVersions,     \* bound: versions of a rule
    MaxRequests,     \* bound: requests
    MaxRollbacks,    \* bound: rollbacks
    MaxSuites,       \* bound: versions of a suite
    MaxFaults        \* bound: errors between two commits

Suites == Rules \cup Shared

ASSUME LifecycleAssumption ==
    /\ (Rules \cup Peers) \cap Shared = {} /\ Rules \cap Peers = {}
    /\ NoUser \notin Users
    /\ RequestKinds \subseteq {"activation", "deactivation", "gx_suite_repair"}
    /\ BirthStates \subseteq BOOLEAN
    /\ Targets \subseteq {"active", "deprecated", "superseded", "retired"}
    /\ {MaxVersions, MaxRequests, MaxRollbacks, MaxSuites, MaxFaults} \subseteq Nat

VARIABLES
    row,         \* the row of a rule
    versions,    \* its versions: text and "active", in the order of their numbers
    requests,    \* the approvals, in the order of their creation
    edits,       \* update_rule calls past their check: rule and "active"
    artifacts,   \* the registry: status and rule ids of each suite's versions
    granted,     \* rules somebody approved since they last left service
    proved,      \* rules with the proof of a passed test
    rollbacks, faults

vars == <<row, versions, requests, edits, artifacts, granted,
          proved, rollbacks, faults>>

Cycles == {"active", "deprecated", "superseded", "retired"}

RuleStatusTransitions ==
    {<<"draft", "testing">>, <<"testing", "tested">>,
     <<"tested", "pending-approval">>, <<"draft", "pending-approval">>,
     <<"rejected", "pending-approval">>, <<"pending-approval", "approved">>,
     <<"pending-approval", "rejected">>, <<"approved", "activated">>,
     <<"activated", "deactivated">>, <<"deactivated", "draft">>,
     <<"deactivated", "removed">>, <<"removed", "recovered">>,
     <<"recovered", "pending-approval">>, <<"rejected", "draft">>}

LifecycleTransitions ==
    {<<"active", "deprecated">>, <<"active", "superseded">>, <<"active", "retired">>,
     <<"deprecated", "active">>, <<"deprecated", "superseded">>,
     <<"deprecated", "retired">>, <<"superseded", "retired">>}

MayMove(from, to) == from = to \/ <<from, to>> \in RuleStatusTransitions

Exists(r) == row[r].made /\ ~row[r].deleted

(* The status that the row itself shows.                                   *)
StatusOf(rw) ==
    CASE rw.deleted -> "removed"
      [] ~rw.deleted /\ rw.active -> "activated"
      [] OTHER -> IF rw.last = "none" THEN "draft" ELSE rw.last

Status(r) == StatusOf(row[r])

RequestsOf(r) == {i \in DOMAIN requests : requests[i].rule = r /\ requests[i].live}

(* A request's status read as a status of its rule.                        *)
AsRuleStatus(st) == IF st = "pending" THEN "pending-approval" ELSE st

(* The status of a rule that the review of its requests goes by.  The      *)
(* requests are listed without an order and the last one listed counts.    *)
ReviewStatuses(r) ==
    IF row[r].deleted \/ row[r].active \/ row[r].last \in {"deactivated", "removed", "recovered"}
    THEN {Status(r)}
    ELSE IF RequestsOf(r) # {}
    THEN {AsRuleStatus(requests[i].status) : i \in RequestsOf(r)}
    ELSE {Status(r)}

(***************************************************************************)
(* Writing rules.                                                          *)
(***************************************************************************)
CreateRule(r, active) ==
    /\ ~row[r].made
    /\ active \in BirthStates
    /\ row' = [row EXCEPT ![r] = [@ EXCEPT !.made = TRUE, !.active = active,
                                           !.text = 1, !.current = 1]]
    /\ versions' = [versions EXCEPT ![r] = <<[text |-> 1, active |-> active]>>]
    /\ UNCHANGED <<requests, edits, artifacts, granted, proved, rollbacks, faults>>

(* update_rule up to the wait for the contract service.                    *)
BeginEdit(r, active) ==
    /\ Exists(r)
    /\ active \in BirthStates
    /\ row[r].last # "approved" /\ ~row[r].active
    /\ Len(versions[r]) < MaxVersions
    /\ [rule |-> r, active |-> active] \notin edits
    /\ edits' = edits \cup {[rule |-> r, active |-> active]}
    /\ UNCHANGED <<row, versions, requests, artifacts, granted, proved, rollbacks, faults>>

(* The status an edit moves the rule to.                                   *)
Desired(rw, active) ==
    CASE active /\ ~rw.active -> "activated"
      [] ~active /\ rw.active -> "deactivated"
      [] OTHER -> IF StatusOf(rw) = "deactivated" THEN "draft" ELSE StatusOf(rw)

AddVersion(r, text, active) ==
    versions' = [versions EXCEPT ![r] = Append(@, [text |-> text, active |-> active])]

(* Mutant of Admitted: the write does not ask whether the move is defined. *)
AdmittedAnyMove(e) == Exists(e.rule)

(* Mutant of Admitted: the write finds a removed rule as well.             *)
AdmittedRemoved(e) ==
    row[e.rule].deleted \/ MayMove(Status(e.rule), Desired(row[e.rule], e.active))

(* The write of an edit looks at the row as it is then.                    *)
Admitted(e) ==
    Exists(e.rule) /\ MayMove(Status(e.rule), Desired(row[e.rule], e.active))

(* update_rule after the wait: the row and a version with the new text, or *)
(* a refusal.                                                              *)
FinishEdit(e) ==
    LET r == e.rule
        n == Len(versions[r]) + 1
    IN /\ e \in edits /\ n <= MaxVersions
       /\ edits' = edits \ {e}
       /\ \/ /\ Admitted(e)
             /\ row' = [row EXCEPT ![r] = [@ EXCEPT !.active = e.active,
                                                    !.text = n, !.current = n,
                          !.last = IF Status(r) = "deactivated" THEN "draft" ELSE row[r].last]]
             /\ AddVersion(r, n, e.active)
          \/ ~Admitted(e) /\ UNCHANGED <<row, versions>>
       /\ UNCHANGED <<requests, artifacts, granted, proved, rollbacks, faults>>

(* Mutant of Rollback: the pointer to the current version stays.           *)
RollbackKeepsPointer(r, v) ==
    /\ Exists(r) /\ rollbacks < MaxRollbacks /\ Len(versions[r]) < MaxVersions
    /\ v \in DOMAIN versions[r] /\ v # row[r].current
    /\ AddVersion(r, versions[r][v].text, versions[r][v].active)
    /\ row' = [row EXCEPT ![r] = [@ EXCEPT !.active = versions[r][v].active,
                                           !.text = versions[r][v].text]]
    /\ rollbacks' = rollbacks + 1
    /\ UNCHANGED <<requests, edits, artifacts, granted, proved, faults>>

(* execute_rule_rollback: a new version with the text of an old one.       *)
Rollback(r, v) ==
    /\ Exists(r) /\ rollbacks < MaxRollbacks /\ Len(versions[r]) < MaxVersions
    /\ v \in DOMAIN versions[r] /\ v # row[r].current
    /\ AddVersion(r, versions[r][v].text, versions[r][v].active)
    /\ row' = [row EXCEPT ![r] = [@ EXCEPT !.active = versions[r][v].active,
                                           !.text = versions[r][v].text,
                                           !.current = Len(versions[r]) + 1]]
    /\ rollbacks' = rollbacks + 1
    /\ UNCHANGED <<requests, edits, artifacts, granted, proved, faults>>

(* A passed test: the proof is stored, and the status recorded if its move *)
(* is defined.                                                             *)
StoreTestProof(r) ==
    /\ row[r].made /\ r \notin proved
    /\ proved' = proved \cup {r}
    /\ row' = IF MayMove(Status(r), "tested") THEN [row EXCEPT ![r].last = "tested"] ELSE row
    /\ UNCHANGED <<versions, requests, edits, artifacts, granted, rollbacks, faults>>

SetLifecycle(r, target) ==
    /\ Exists(r) /\ target \in Targets
    /\ <<row[r].cycle, target>> \in LifecycleTransitions
    /\ target = "retired" => Status(r) # "activated"
    /\ row' = [row EXCEPT ![r].cycle = target]
    /\ UNCHANGED <<versions, requests, edits, artifacts, granted, proved, rollbacks, faults>>

RemoveRule(r) ==
    /\ Exists(r) /\ Status(r) = "deactivated"
    /\ row' = [row EXCEPT ![r] = [@ EXCEPT !.deleted = TRUE, !.last = "removed"]]
    /\ UNCHANGED <<versions, requests, edits, artifacts, granted, proved, rollbacks, faults>>

RecoverRule(r) ==
    /\ row[r].deleted
    /\ row' = [row EXCEPT ![r] = [@ EXCEPT !.deleted = FALSE, !.active = FALSE,
                                           !.last = "recovered"]]
    /\ UNCHANGED <<versions, requests, edits, artifacts, granted, proved, rollbacks, faults>>

(***************************************************************************)
(* Suites.                                                                 *)
(***************************************************************************)
HasRoom(s) == Len(artifacts[s]) < MaxSuites

SaveArtifact(arts, s, status, rules) ==
    [arts EXCEPT ![s] = Append(@, [status |-> status, rules |-> rules])]

(* A client registers a suite compiled from several rules.                 *)
RegisterSuite(s, rules) ==
    /\ s \in Shared /\ artifacts[s] = <<>>
    /\ rules \subseteq Peers \cup {r \in Rules : row[r].made} /\ rules # {}
    /\ artifacts' = SaveArtifact(artifacts, s, "active", rules)
    /\ UNCHANGED <<row, versions, requests, edits, granted, proved, rollbacks, faults>>

ActiveVersions(arts, s, r) ==
    {v \in DOMAIN arts[s] : arts[s][v].status = "active" /\ r \in arts[s][v].rules}

(* The suites the deactivation of a rule rewrites, and the version of each. *)
SuitesOf(r) == {s \in Suites : ActiveVersions(artifacts, s, r) # {}}
Latest(s, r) == Max(ActiveVersions(artifacts, s, r))

(* Mutant of Remaining: the other rules of the suite go with the rule.     *)
RemainingDropped(s, r) == {}

Running(q) == q \in Peers \/ (Exists(q) /\ row[q].active)

Remaining(s, r) == {q \in artifacts[s][Latest(s, r)].rules : q # r /\ Running(q)}

Disabled(s, r) == [artifacts[s] EXCEPT ![Latest(s, r)].status = "disabled"]

(* A suite after the deactivation of one of its rules.                     *)
Reversion(s, r) ==
    IF Remaining(s, r) = {}
    THEN Append(Disabled(s, r), [status |-> "disabled", rules |-> {}])
    ELSE Append(artifacts[s], [status |-> "active", rules |-> Remaining(s, r)])

(* The registry when the loop over the suites rewrote those of done and    *)
(* disabled the version of those of cut without writing the next one.      *)
Reversions(r, done, cut) ==
    [s \in Suites |-> CASE s \in done -> Reversion(s, r)
                         [] s \in cut -> Disabled(s, r)
                         [] OTHER -> artifacts[s]]

(***************************************************************************)
(* Requests.                                                               *)
(***************************************************************************)
Fails == faults < MaxFaults /\ faults' = faults + 1

MayRequest(r, kind) ==
    \E st \in ReviewStatuses(r) :
       IF kind = "activation" THEN <<st, "pending-approval">> \in RuleStatusTransitions
       ELSE st = "activated"

(* create_approval: the request, then the status of the rule.  A second    *)
(* repair is refused while one is pending.                                 *)
CreateApproval(u, r, kind) ==
    /\ row[r].made /\ kind \in RequestKinds /\ Len(requests) < MaxRequests
    /\ kind = "gx_suite_repair" =>
          \A i \in RequestsOf(r) : ~(requests[i].kind = kind /\ requests[i].status = "pending")
    /\ MayRequest(r, kind)
    /\ requests' = Append(requests, [rule |-> r, kind |-> kind, status |-> "pending",
                                     by |-> u, acted |-> NoUser, live |-> TRUE])
    /\ \/ /\ row' = IF kind = "activation" THEN [row EXCEPT ![r].last = "pending-approval"] ELSE row
          /\ UNCHANGED faults
       \/ kind = "activation" /\ Fails /\ UNCHANGED row
    /\ UNCHANGED <<versions, edits, artifacts, granted, proved, rollbacks>>

(* delete_approval: the requester withdraws the request, decided or not.   *)
DeleteApproval(u, i) ==
    /\ i \in DOMAIN requests /\ requests[i].live /\ requests[i].by = u
    /\ requests' = [requests EXCEPT ![i].live = FALSE]
    /\ UNCHANGED <<row, versions, edits, artifacts, granted, proved, rollbacks, faults>>

(* The checks of update_approval.                                          *)
MayDecide(i, decision) ==
    LET q == requests[i] IN
    /\ i \in DOMAIN requests /\ q.live
    /\ q.status \in {"pending", decision}
    /\ \E st \in ReviewStatuses(q.rule) :
         CASE q.kind = "activation" -> st \in {decision, "pending-approval"}
           [] q.kind = "deactivation" -> decision = "approved" => st \in {"activated", "deactivated"}
           [] OTHER -> decision = "approved" => st = "activated"

(* An update is refused to the requester, and a second one fails: its      *)
(* audit row has the key of the first.                                     *)
Recordable(u, i) == requests[i].by # u /\ requests[i].acted = NoUser

Recorded(u, i, status) ==
    /\ Recordable(u, i)
    /\ requests' = [requests EXCEPT ![i].status = status, ![i].acted = u]

(* PUT /approvals/{id} without a status: a comment.                        *)
CommentRequest(u, i) ==
    /\ i \in DOMAIN requests /\ requests[i].live
    /\ Recorded(u, i, requests[i].status)
    /\ UNCHANGED <<row, versions, edits, artifacts, granted, proved, rollbacks, faults>>

(* update_approval of an activation: the decision, then the rule's status. *)
DecideActivation(u, i, decision) ==
    LET r == requests[i].rule IN
    /\ MayDecide(i, decision) /\ requests[i].kind = "activation"
    /\ Recorded(u, i, decision)
    /\ \/ /\ row' = [row EXCEPT ![r].last = decision]
          /\ granted' = IF decision = "approved" THEN granted \cup {r} ELSE granted
          /\ UNCHANGED faults
       \/ Fails /\ UNCHANGED <<row, granted>>
    /\ UNCHANGED <<versions, edits, artifacts, proved, rollbacks>>

(* A rejection of the other kinds: nothing but the decision.               *)
RejectRequest(u, i) ==
    /\ MayDecide(i, "rejected") /\ requests[i].kind # "activation"
    /\ Recorded(u, i, "rejected")
    /\ UNCHANGED <<row, versions, edits, artifacts, granted, proved, rollbacks, faults>>

(* The approval of a repair: the rule's suite is compiled and saved, then  *)
(* the decision is recorded, or refused.                                   *)
ApproveRepair(u, i) ==
    LET r == requests[i].rule IN
    /\ MayDecide(i, "approved") /\ requests[i].kind = "gx_suite_repair" /\ HasRoom(r)
    /\ artifacts' = SaveArtifact(artifacts, r, "active", {r})
    /\ Recorded(u, i, "approved") \/ (~Recordable(u, i) /\ UNCHANGED requests)
    /\ UNCHANGED <<row, versions, edits, granted, proved, rollbacks, faults>>

(* The approval of a deactivation: the decision, the row of the rule, then *)
(* its suites one by one.  An error ends it anywhere on the way.           *)
ApproveDeactivation(u, i) ==
    LET r == requests[i].rule IN
    /\ MayDecide(i, "approved") /\ requests[i].kind = "deactivation"
    /\ \A s \in SuitesOf(r) : HasRoom(s)
    /\ Recorded(u, i, "approved")
    /\ \/ Fails /\ UNCHANGED <<row, granted, artifacts>>
       \/ /\ row' = [row EXCEPT ![r] = [@ EXCEPT !.active = FALSE, !.last = "deactivated"]]
          /\ granted' = granted \ {r}
          /\ \/ artifacts' = Reversions(r, SuitesOf(r), {}) /\ UNCHANGED faults
             \/ /\ Fails
                /\ \E done \in SUBSET SuitesOf(r) : \E cut \in SUBSET (SuitesOf(r) \ done) :
                      /\ done # SuitesOf(r) /\ Cardinality(cut) <= 1
                      /\ \A s \in cut : Remaining(s, r) = {}
                      /\ artifacts' = Reversions(r, done, cut)
    /\ UNCHANGED <<versions, edits, proved, rollbacks>>

InService(rw) == [rw EXCEPT !.active = TRUE, !.last = "approved"]

(* activate_rule: the row, then on request the suite, first in the older   *)
(* GX suite table, which is not modelled, and then in the registry.        *)
ActivateRule(r) ==
    /\ Exists(r) /\ <<Status(r), "activated">> \in RuleStatusTransitions
    /\ row' = [row EXCEPT ![r] = InService(@)]
    /\ \/ UNCHANGED <<artifacts, faults>>
       \/ HasRoom(r) /\ artifacts' = SaveArtifact(artifacts, r, "active", {r}) /\ UNCHANGED faults
       \/ Fails /\ UNCHANGED artifacts
    /\ UNCHANGED <<versions, requests, edits, granted, proved, rollbacks>>

-----------------------------------------------------------------------------
Init ==
    /\ row = [r \in Rules |-> [made |-> FALSE, active |-> FALSE,
                               last |-> "none", deleted |-> FALSE, cycle |-> "active",
                               text |-> 0, current |-> 0]]
    /\ versions = [r \in Rules |-> <<>>]
    /\ requests = <<>> /\ edits = {}
    /\ artifacts = [s \in Suites |-> <<>>]
    /\ granted = {} /\ proved = {}
    /\ rollbacks = 0 /\ faults = 0

Next ==
    \/ \E r \in Rules :
          \/ \E active \in BOOLEAN :
                CreateRule(r, active) \/ BeginEdit(r, active)
          \/ \E v \in 1..MaxVersions : Rollback(r, v)
          \/ StoreTestProof(r)
          \/ \E target \in Cycles : SetLifecycle(r, target)
          \/ RemoveRule(r)
          \/ RecoverRule(r)
          \/ ActivateRule(r)
          \/ \E u \in Users, kind \in RequestKinds : CreateApproval(u, r, kind)
    \/ \E e \in edits : FinishEdit(e)
    \/ \E s \in Shared, rules \in SUBSET (Rules \cup Peers) : RegisterSuite(s, rules)
    \/ \E u \in Users, i \in 1..MaxRequests :
          \/ DeleteApproval(u, i)
          \/ CommentRequest(u, i)
          \/ \E decision \in {"approved", "rejected"} : DecideActivation(u, i, decision)
          \/ RejectRequest(u, i)
          \/ ApproveRepair(u, i)
          \/ ApproveDeactivation(u, i)

Spec == Init /\ [][Next]_vars

-----------------------------------------------------------------------------
(* A rule that was written inactive and never rolled back is approved or   *)
(* in service only if somebody approved it since it last left service,     *)
(* whatever races, errors, removals and requests led there: the checks of  *)
(* activate_rule, of the write of an edit and of update_approval together. *)
ActiveRuleWasGranted ==
    \A r \in Rules : row[r].made /\ ~versions[r][1].active /\ rollbacks = 0 =>
        (Status(r) \in {"approved", "activated"} => r \in granted)

(* The text that the row of a rule shows and compiles is the text of the   *)
(* version it points to, after edits that overtake each other and          *)
(* rollbacks: what was approved can be looked up (current_version_id).     *)
RowMatchesCurrentVersion ==
    \A r \in Rules : row[r].made =>
        /\ row[r].current = Len(versions[r])
        /\ versions[r][row[r].current].text = row[r].text

(* A removed rule is changed by its recovery only, also by an edit, a      *)
(* decision or a test that was under way when it was removed.              *)
RemovedOnlyRecovered ==
    [][\A r \in Rules : row[r].deleted /\ row'[r] # row[r] =>
          row'[r] = [row[r] EXCEPT !.deleted = FALSE, !.active = FALSE, !.last = "recovered"]]_vars

LatestActive(arts, s) ==
    LET vs == {v \in DOMAIN arts[s] : arts[s][v].status = "active"}
    IN IF vs = {} THEN {} ELSE arts[s][Max(vs)].rules

(* A rule that active versions of a suite check, but not the latest one: it *)
(* was out of service when that one was written.                            *)
Outdated(s, q) ==
    q \notin LatestActive(artifacts, s) /\ ActiveVersions(artifacts, s, q) # {}

(* The step that records the decision on a deactivation of q.               *)
Deactivates(q) ==
    \E i \in DOMAIN requests :
        /\ requests[i].rule = q /\ requests[i].kind = "deactivation"
        /\ requests'[i].acted # requests[i].acted

(* The deactivation of a rule takes no other rule out of execution: a rule *)
(* in service that the latest active version of a suite checks stays in    *)
(* the suite's next one, also when the handler stops among the suites.     *)
(* The suite may lose it only when the rule that is deactivated is listed  *)
(* by older versions alone: the handler starts from the latest of those.   *)
ActiveRulesStayCovered ==
    [][\A s \in Suites : \A r \in LatestActive(artifacts, s) :
          /\ r \in Peers \/ row'[r].active
          /\ \A q \in Rules : Outdated(s, q) => ~Deactivates(q)
          => r \in LatestActive(artifacts', s)]_vars

=============================================================================
