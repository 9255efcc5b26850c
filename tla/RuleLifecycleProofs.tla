-------------------------- MODULE RuleLifecycleProofs --------------------------
(***************************************************************************)
(* For every number of rules, users, requests, versions and suites: what a *)
(* row shows is its current version, a rule gets into service by way of an *)
(* approval, a removed rule only comes back by its recovery, and the       *)
(* deactivation of a rule leaves the others of its suites in execution.    *)
(***************************************************************************)
EXTENDS RuleLifecycle, Integers, SequenceTheorems, WellFoundedInduction, TLAPS

Lasts == {"none", "draft", "tested", "pending-approval", "approved", "rejected",
          "deactivated", "removed", "recovered"}
RowType == [made : BOOLEAN, active : BOOLEAN, last : Lasts, deleted : BOOLEAN,
            cycle : Cycles, text : Nat, current : Nat]
VersionType == [text : Nat, active : BOOLEAN]
RequestType == [rule : Rules, kind : {"activation", "deactivation", "gx_suite_repair"},
                status : {"pending", "approved", "rejected"},
                by : Users, acted : Users \cup {NoUser}, live : BOOLEAN]
ArtifactType == [status : {"active", "disabled"}, rules : SUBSET (Rules \cup Peers)]

TypeOK ==
    /\ row \in [Rules -> RowType]
    /\ versions \in [Rules -> Seq(VersionType)]
    /\ requests \in Seq(RequestType)
    /\ edits \subseteq [rule : Rules, active : BOOLEAN]
    /\ artifacts \in [Suites -> Seq(ArtifactType)]
    /\ granted \subseteq Rules /\ proved \subseteq Rules
    /\ rollbacks \in Nat /\ faults \in Nat

\* A rule in service is there, and was not removed.
Standing ==
    \A r \in Rules :
        /\ row[r].deleted => row[r].made /\ ~row[r].active
        /\ row[r].active => row[r].made

\* The row of a rule and its last version.
Written ==
    \A r \in Rules : row[r].made =>
        /\ Len(versions[r]) > 0 /\ row[r].current = Len(versions[r])
        /\ versions[r][Len(versions[r])].text = row[r].text

\* Also of a rule that is not in service and shows that it was approved.
Governed(r) == ~row[r].made \/ (~versions[r][1].active /\ rollbacks = 0)
GrantHeld ==
    \A r \in Rules : Governed(r) /\ (row[r].last = "approved" \/ row[r].active) => r \in granted

\* The suite that a rule publishes checks no other rule.
OwnSuite ==
    \A s \in Rules : \A v \in DOMAIN artifacts[s] : artifacts[s][v].rules \subseteq {s}

IInv == TypeOK /\ Standing /\ Written /\ GrantHeld /\ OwnSuite

-----------------------------------------------------------------------------
\* The largest of a set of positions in a list, as Max gives it.
LEMMA MaxIs ==
    ASSUME NEW S \in SUBSET Nat, NEW m \in S, \A y \in S : y =< m
    PROVE  Max(S) = m
<1>1. \A x \in S : (\A y \in S : x >= y) => x = m
  OBVIOUS
<1>2. m \in S /\ \A y \in S : m >= y
  OBVIOUS
<1>3. QED  BY <1>1, <1>2 DEF Max

LEMMA MaxFacts ==
    ASSUME NEW n \in Nat, NEW S \in SUBSET (1..n), S # {}
    PROVE  Max(S) \in S /\ \A y \in S : y =< Max(S)
<1> DEFINE T == {n - x : x \in S}
<1>1. T \subseteq Nat /\ T # {}
  OBVIOUS
<1>2. PICK t \in T : \A u \in T : ~(<<u, t>> \in OpToRel(<, Nat))
  BY <1>1, NatLessThanWellFounded, WFMin
<1>3. \A u \in T : ~(u < t)
  <2>1. ASSUME NEW u \in T, u < t PROVE FALSE
    <3>1. u \in Nat /\ t \in Nat
      BY <1>1
    <3>2. <<u, t>> \in OpToRel(<, Nat)
      BY <2>1, <3>1 DEF OpToRel
    <3>3. QED  BY <1>2, <3>2
  <2>2. QED  BY <2>1
<1>4. PICK m \in S : t = n - m
  BY <1>2
<1>5. \A y \in S : y =< m
  <2>1. ASSUME NEW y \in S PROVE y =< m
    <3>1. n - y \in T
      OBVIOUS
    <3>2. ~(n - y < n - m)
      BY <1>3, <1>4, <3>1
    <3>3. QED  BY <3>2
  <2>2. QED  BY <2>1
<1>6. S \in SUBSET Nat
  OBVIOUS
<1>7. Max(S) = m
  BY <1>5, <1>6, MaxIs
<1>8. QED  BY <1>5, <1>7

-----------------------------------------------------------------------------
\* The active versions of a suite, and what the latest of them checks.
Actives(a) == {v \in DOMAIN a : a[v].status = "active"}
LatestOf(a) == IF Actives(a) = {} THEN {} ELSE a[Max(Actives(a))].rules

LEMMA LatestIs == \A arts, s : LatestActive(arts, s) = LatestOf(arts[s])
  BY DEF LatestActive, LatestOf, Actives

LEMMA ActivesFacts ==
    ASSUME NEW a \in Seq(ArtifactType), Actives(a) # {}
    PROVE  /\ Max(Actives(a)) \in Actives(a)
           /\ \A y \in Actives(a) : y =< Max(Actives(a))
<1>1. Len(a) \in Nat /\ Actives(a) \in SUBSET (1..Len(a))
  BY DEF Actives
<1>2. QED  BY <1>1, MaxFacts

LEMMA LatestAppended ==
    ASSUME NEW a \in Seq(ArtifactType), NEW R \in SUBSET (Rules \cup Peers)
    PROVE  LatestOf(Append(a, [status |-> "active", rules |-> R])) = R
<1> DEFINE b == Append(a, [status |-> "active", rules |-> R])
<1>1. [status |-> "active", rules |-> R] \in ArtifactType
  BY DEF ArtifactType
<1>2. Len(a) \in Nat /\ DOMAIN b = 1..(Len(a) + 1)
      /\ b[Len(a) + 1] = [status |-> "active", rules |-> R]
  BY <1>1
<1>3. Actives(b) \in SUBSET Nat /\ Len(a) + 1 \in Actives(b) /\ \A y \in Actives(b) : y =< Len(a) + 1
  BY <1>2 DEF Actives
<1>4. Max(Actives(b)) = Len(a) + 1
  BY <1>3, MaxIs
<1>5. LatestOf(b) = b[Len(a) + 1].rules
  BY <1>3, <1>4 DEF LatestOf
<1>6. QED  BY <1>2, <1>5

-----------------------------------------------------------------------------
\* Versions that are appended.
LEMMA VersionAppended ==
    ASSUME IInv, NEW r \in Rules, NEW x \in Nat, NEW a \in BOOLEAN, AddVersion(r, x, a)
    PROVE  /\ versions' \in [Rules -> Seq(VersionType)]
           /\ \A q \in Rules : q # r => versions'[q] = versions[q]
           /\ Len(versions'[r]) = Len(versions[r]) + 1
           /\ versions'[r][Len(versions'[r])].text = x
           /\ Len(versions[r]) > 0 => versions'[r][1] = versions[r][1]
<1>1. [text |-> x, active |-> a] \in VersionType
  BY DEF VersionType
<1>2. versions[r] \in Seq(VersionType) /\ Len(versions[r]) \in Nat
  BY DEF IInv, TypeOK
<1>3. /\ versions' = [versions EXCEPT ![r] = Append(versions[r], [text |-> x, active |-> a])]
      /\ versions'[r] = Append(versions[r], [text |-> x, active |-> a])
  BY DEF AddVersion, IInv, TypeOK
<1>4. Append(versions[r], [text |-> x, active |-> a]) \in Seq(VersionType)
  BY <1>1, <1>2
<1>5. /\ versions' \in [Rules -> Seq(VersionType)]
      /\ \A q \in Rules : q # r => versions'[q] = versions[q]
  BY <1>3, <1>4 DEF IInv, TypeOK
<1>6. QED  BY <1>1, <1>2, <1>3, <1>5

\* The row of one rule that is written.
LEMMA RowWritten ==
    ASSUME IInv, NEW r \in Rules, NEW x \in RowType, row' = [row EXCEPT ![r] = x]
    PROVE  /\ row' \in [Rules -> RowType] /\ row'[r] = x
           /\ \A q \in Rules : q # r => row'[q] = row[q]
  BY DEF IInv, TypeOK

LEMMA CreateRuleStep ==
    ASSUME IInv, NEW r \in Rules, NEW a \in BOOLEAN, CreateRule(r, a)
    PROVE  IInv'
<1>1. /\ row' = [row EXCEPT ![r] = [row[r] EXCEPT !.made = TRUE, !.active = a,
                                                 !.text = 1, !.current = 1]]
      /\ versions' = [versions EXCEPT ![r] = <<[text |-> 1, active |-> a]>>]
      /\ ~row[r].made
      /\ UNCHANGED <<requests, edits, artifacts, granted, proved, rollbacks, faults>>
  BY DEF CreateRule
<1>2. [text |-> 1, active |-> a] \in VersionType
  BY DEF VersionType
<1> DEFINE x == [row[r] EXCEPT !.made = TRUE, !.active = a, !.text = 1, !.current = 1]
<1>3. /\ x \in RowType /\ x.made /\ x.active = a /\ x.text = 1 /\ x.current = 1
      /\ x.last = row[r].last /\ x.deleted = row[r].deleted
  BY DEF IInv, TypeOK, RowType
<1> HIDE DEF x
<1>4. /\ row' \in [Rules -> RowType] /\ row'[r] = x
      /\ \A q \in Rules : q # r => row'[q] = row[q]
  BY <1>1, <1>3, RowWritten DEF x
<1>5. /\ versions' \in [Rules -> Seq(VersionType)]
      /\ versions'[r] = <<[text |-> 1, active |-> a]>>
      /\ \A q \in Rules : q # r => versions'[q] = versions[q]
  BY <1>1, <1>2 DEF IInv, TypeOK
<1>6. TypeOK'
  BY <1>1, <1>4, <1>5 DEF IInv, TypeOK
<1>7. Standing'
  BY <1>1, <1>3, <1>4 DEF IInv, Standing
<1>8. Written'
  <2>1. Len(versions'[r]) = 1 /\ versions'[r][1].text = 1
    BY <1>5
  <2>2. /\ row'[r].current = Len(versions'[r]) /\ Len(versions'[r]) > 0
        /\ versions'[r][Len(versions'[r])].text = row'[r].text
    BY <1>3, <1>4, <2>1
  <2>3. QED  BY <1>4, <1>5, <2>2 DEF IInv, Written
<1>9. GrantHeld'
  BY <1>1, <1>3, <1>4, <1>5 DEF IInv, GrantHeld, Governed
<1>10. OwnSuite'
  BY <1>1 DEF IInv, OwnSuite
<1>11. QED  BY <1>6, <1>7, <1>8, <1>9, <1>10 DEF IInv

LEMMA BeginEditStep ==
    ASSUME IInv, NEW r \in Rules, NEW a \in BOOLEAN, BeginEdit(r, a)
    PROVE  IInv'
  BY DEF BeginEdit, IInv, TypeOK, Standing, Written, GrantHeld, Governed, OwnSuite

LEMMA FinishEditStep ==
    ASSUME IInv, NEW e \in edits, FinishEdit(e)
    PROVE  IInv'
<1> DEFINE r == e.rule
           n == Len(versions[r]) + 1
<1>1. /\ r \in Rules /\ e.active \in BOOLEAN /\ n \in Nat
      /\ edits' \subseteq edits
      /\ UNCHANGED <<requests, artifacts, granted, proved, rollbacks, faults>>
  BY DEF FinishEdit, IInv, TypeOK
<1>2. CASE ~Admitted(e)
  <2>1. UNCHANGED <<row, versions>>
    BY <1>2 DEF FinishEdit
  <2>2. QED
    BY <1>1, <2>1 DEF IInv, TypeOK, Standing, Written, GrantHeld, Governed, OwnSuite
<1>3. CASE Admitted(e)
  <2> DEFINE x == [row[r] EXCEPT !.active = e.active, !.text = n, !.current = n,
                     !.last = IF Status(r) = "deactivated" THEN "draft" ELSE row[r].last]
  <2>0. row' = [row EXCEPT ![r] = x] /\ AddVersion(r, n, e.active)
    BY <1>3 DEF FinishEdit
  <2>1. Exists(r) /\ MayMove(Status(r), Desired(row[r], e.active))
    BY <1>3 DEF Admitted
  <2>2. row[r] \in RowType
    BY <1>1 DEF IInv, TypeOK
  <2>3. e.active => row[r].active \/ row[r].last = "approved"
    BY <2>1, <2>2 DEF Exists, MayMove, Status, StatusOf, Desired, RuleStatusTransitions, RowType, Lasts
  <2>4. /\ versions' \in [Rules -> Seq(VersionType)]
        /\ \A q \in Rules : q # r => versions'[q] = versions[q]
        /\ Len(versions'[r]) = n
        /\ versions'[r][Len(versions'[r])].text = n
        /\ Len(versions[r]) > 0 => versions'[r][1] = versions[r][1]
    BY <1>1, <2>0, VersionAppended
  <2>5. /\ x \in RowType /\ x.made = row[r].made /\ x.deleted = row[r].deleted
        /\ x.active = e.active /\ x.text = n /\ x.current = n
        /\ x.last \in {"draft", row[r].last}
    BY <1>1, <2>2 DEF RowType, Lasts
  <2> HIDE DEF x
  <2>6. /\ row' \in [Rules -> RowType] /\ row'[r] = x
        /\ \A q \in Rules : q # r => row'[q] = row[q]
    BY <1>1, <2>0, <2>5, RowWritten
  <2>12. TypeOK'
    BY <1>1, <2>4, <2>6 DEF IInv, TypeOK
  <2>7. Standing'
    BY <1>1, <2>1, <2>5, <2>6 DEF IInv, Standing, Exists
  <2>8. Written'
    BY <1>1, <2>4, <2>5, <2>6 DEF IInv, Written
  <2>9. GrantHeld'
    <3>1. Len(versions[r]) > 0
      BY <1>1, <2>1 DEF IInv, Written, Exists
    <3>2. \A q \in Rules : Governed(q)' => Governed(q)
      BY <1>1, <2>1, <2>4, <2>5, <2>6, <3>1 DEF Governed, Exists
    <3>3. QED  BY <1>1, <2>3, <2>5, <2>6, <3>2 DEF IInv, GrantHeld
  <2>10. OwnSuite'
    BY <1>1 DEF IInv, OwnSuite
  <2>11. QED  BY <2>7, <2>8, <2>9, <2>10, <2>12 DEF IInv
<1>4. QED  BY <1>2, <1>3

LEMMA RollbackStep ==
    ASSUME IInv, NEW r \in Rules, NEW v \in 1..MaxVersions, Rollback(r, v)
    PROVE  IInv'
<1>1. /\ Exists(r) /\ v \in DOMAIN versions[r]
      /\ AddVersion(r, versions[r][v].text, versions[r][v].active)
      /\ row' = [row EXCEPT ![r] = [row[r] EXCEPT !.active = versions[r][v].active,
                                                 !.text = versions[r][v].text,
                                                 !.current = Len(versions[r]) + 1]]
      /\ rollbacks' = rollbacks + 1
      /\ UNCHANGED <<requests, edits, artifacts, granted, proved, faults>>
  BY DEF Rollback
<1>2. versions[r][v] \in VersionType /\ row[r] \in RowType
  BY <1>1 DEF IInv, TypeOK
<1>3. versions[r][v].text \in Nat /\ versions[r][v].active \in BOOLEAN
  BY <1>2 DEF VersionType
<1>4. /\ versions' \in [Rules -> Seq(VersionType)]
      /\ \A q \in Rules : q # r => versions'[q] = versions[q]
      /\ Len(versions'[r]) = Len(versions[r]) + 1
      /\ versions'[r][Len(versions'[r])].text = versions[r][v].text
  BY <1>1, <1>3, VersionAppended
<1>5. Len(versions[r]) \in Nat
  BY DEF IInv, TypeOK
<1> DEFINE ac == versions[r][v].active
           tx == versions[r][v].text
           cu == Len(versions[r]) + 1
           x == [row[r] EXCEPT !.active = ac, !.text = tx, !.current = cu]
<1>6. /\ x \in RowType /\ x.made = row[r].made /\ x.deleted = row[r].deleted
      /\ x.text = tx /\ x.current = cu
  <2>1. tx \in Nat /\ ac \in BOOLEAN /\ cu \in Nat
    BY <1>3, <1>5
  <2> HIDE DEF ac, tx, cu
  <2>2. QED  BY <1>2, <2>1 DEF RowType
<1> HIDE DEF x
<1>7. /\ row' \in [Rules -> RowType] /\ row'[r] = x
      /\ \A q \in Rules : q # r => row'[q] = row[q]
  BY <1>1, <1>6, RowWritten DEF x
<1>13. TypeOK'
  BY <1>1, <1>4, <1>7 DEF IInv, TypeOK
<1>8. Standing'
  BY <1>1, <1>6, <1>7 DEF IInv, Standing, Exists
<1>9. Written'
  BY <1>1, <1>4, <1>5, <1>6, <1>7 DEF IInv, Written
<1>10. GrantHeld'
  <2>1. rollbacks' # 0
    BY <1>1 DEF IInv, TypeOK
  <2>2. \A q \in Rules : Governed(q)' => q # r /\ Governed(q)
    BY <1>1, <1>4, <1>6, <1>7, <2>1 DEF Governed, Exists
  <2>3. QED  BY <1>1, <1>7, <2>2 DEF IInv, GrantHeld
<1>11. OwnSuite'
  BY <1>1 DEF IInv, OwnSuite
<1>12. QED  BY <1>8, <1>9, <1>10, <1>11, <1>13 DEF IInv

-----------------------------------------------------------------------------
\* A handler that writes the row of a rule and no version.
LEMMA RowStep ==
    ASSUME IInv, NEW r \in Rules, NEW x \in RowType, row' = [row EXCEPT ![r] = x],
           UNCHANGED <<versions, rollbacks>>,
           x.made = row[r].made, x.text = row[r].text, x.current = row[r].current,
           x.deleted => x.made /\ ~x.active,
           x.active => x.made,
           Governed(r) /\ (x.last = "approved" \/ x.active) => r \in granted',
           \A q \in granted : q # r => q \in granted'
    PROVE  row' \in [Rules -> RowType] /\ Standing' /\ Written' /\ GrantHeld'
<1>1. /\ row' \in [Rules -> RowType] /\ row'[r] = x
      /\ \A q \in Rules : q # r => row'[q] = row[q]
  BY RowWritten
<1>2. Standing'
  BY <1>1 DEF IInv, Standing
<1>3. Written'
  BY <1>1 DEF IInv, Written
<1>4. \A q \in Rules : Governed(q)' => Governed(q)
  BY <1>1 DEF Governed
<1>5. GrantHeld'
  BY <1>1, <1>4 DEF IInv, GrantHeld
<1>6. QED  BY <1>1, <1>2, <1>3, <1>5

\* A handler that writes no row.
LEMMA NoRowStep ==
    ASSUME IInv, UNCHANGED <<row, versions, granted, rollbacks>>
    PROVE  /\ row' \in [Rules -> RowType] /\ Standing' /\ Written' /\ GrantHeld'
  BY DEF IInv, TypeOK, Standing, Written, GrantHeld, Governed

LEMMA StoreTestProofStep ==
    ASSUME IInv, NEW r \in Rules, StoreTestProof(r)
    PROVE  IInv'
<1>1. /\ row[r].made /\ proved' = proved \cup {r}
      /\ UNCHANGED <<versions, requests, edits, artifacts, granted, rollbacks, faults>>
  BY DEF StoreTestProof
<1>2. row' \in [Rules -> RowType] /\ Standing' /\ Written' /\ GrantHeld'
  <2>1. CASE row' = row
    BY <1>1, <2>1, NoRowStep
  <2>2. CASE row' = [row EXCEPT ![r].last = "tested"]
    <3> DEFINE x == [row[r] EXCEPT !.last = "tested"]
    <3>1. /\ x \in RowType /\ x.made = row[r].made /\ x.text = row[r].text
          /\ x.current = row[r].current /\ x.deleted = row[r].deleted /\ x.active = row[r].active
          /\ x.last = "tested" /\ row' = [row EXCEPT ![r] = x]
      BY <2>2 DEF IInv, TypeOK, RowType, Lasts
    <3> HIDE DEF x
    <3>2. QED  BY <1>1, <3>1, RowStep DEF IInv, Standing, GrantHeld
  <2>3. QED  BY <2>1, <2>2 DEF StoreTestProof
<1>3. OwnSuite'
  BY <1>1 DEF IInv, OwnSuite
<1>4. QED  BY <1>1, <1>2, <1>3 DEF IInv, TypeOK

LEMMA SetLifecycleStep ==
    ASSUME IInv, NEW r \in Rules, NEW target \in Cycles, SetLifecycle(r, target)
    PROVE  IInv'
<1>1. UNCHANGED <<versions, requests, edits, artifacts, granted, proved, rollbacks, faults>>
  BY DEF SetLifecycle
<1> DEFINE x == [row[r] EXCEPT !.cycle = target]
<1>2. /\ x \in RowType /\ x.made = row[r].made /\ x.text = row[r].text
      /\ x.current = row[r].current /\ x.deleted = row[r].deleted /\ x.active = row[r].active
      /\ x.last = row[r].last /\ row' = [row EXCEPT ![r] = x]
  BY DEF IInv, TypeOK, RowType, SetLifecycle
<1> HIDE DEF x
<1>3. row' \in [Rules -> RowType] /\ Standing' /\ Written' /\ GrantHeld'
  BY <1>1, <1>2, RowStep DEF IInv, Standing, GrantHeld
<1>4. OwnSuite'
  BY <1>1 DEF IInv, OwnSuite
<1>5. QED  BY <1>1, <1>3, <1>4 DEF IInv, TypeOK

LEMMA RemoveRuleStep ==
    ASSUME IInv, NEW r \in Rules, RemoveRule(r)
    PROVE  IInv'
<1>1. /\ Exists(r) /\ Status(r) = "deactivated"
      /\ UNCHANGED <<versions, requests, edits, artifacts, granted, proved, rollbacks, faults>>
  BY DEF RemoveRule
<1>2. row[r].made /\ ~row[r].active
  BY <1>1 DEF Exists, Status, StatusOf
<1> DEFINE x == [row[r] EXCEPT !.deleted = TRUE, !.last = "removed"]
<1>3. /\ x \in RowType /\ x.made = row[r].made /\ x.text = row[r].text
      /\ x.current = row[r].current /\ x.active = row[r].active
      /\ x.last = "removed" /\ row' = [row EXCEPT ![r] = x]
  BY DEF IInv, TypeOK, RowType, Lasts, RemoveRule
<1> HIDE DEF x
<1>4. row' \in [Rules -> RowType] /\ Standing' /\ Written' /\ GrantHeld'
  BY <1>1, <1>2, <1>3, RowStep
<1>5. OwnSuite'
  BY <1>1 DEF IInv, OwnSuite
<1>6. QED  BY <1>1, <1>4, <1>5 DEF IInv, TypeOK

LEMMA RecoverRuleStep ==
    ASSUME IInv, NEW r \in Rules, RecoverRule(r)
    PROVE  IInv'
<1>1. UNCHANGED <<versions, requests, edits, artifacts, granted, proved, rollbacks, faults>>
  BY DEF RecoverRule
<1> DEFINE x == [row[r] EXCEPT !.deleted = FALSE, !.active = FALSE, !.last = "recovered"]
<1>2. /\ x \in RowType /\ x.made = row[r].made /\ x.text = row[r].text
      /\ x.current = row[r].current /\ ~x.deleted /\ ~x.active
      /\ x.last = "recovered" /\ row' = [row EXCEPT ![r] = x]
  BY DEF IInv, TypeOK, RowType, Lasts, RecoverRule
<1> HIDE DEF x
<1>3. row' \in [Rules -> RowType] /\ Standing' /\ Written' /\ GrantHeld'
  BY <1>1, <1>2, RowStep
<1>4. OwnSuite'
  BY <1>1 DEF IInv, OwnSuite
<1>5. QED  BY <1>1, <1>3, <1>4 DEF IInv, TypeOK

-----------------------------------------------------------------------------
\* A request that is decided, commented or withdrawn.
LEMMA RequestChanged ==
    ASSUME IInv, NEW i \in DOMAIN requests, NEW y \in RequestType,
           requests' = [requests EXCEPT ![i] = y]
    PROVE  requests' \in Seq(RequestType)
  BY DEF IInv, TypeOK

LEMMA RequestRecorded ==
    ASSUME IInv, NEW i \in DOMAIN requests, NEW u \in Users,
           NEW st \in {"pending", "approved", "rejected"}, Recorded(u, i, st)
    PROVE  /\ requests' \in Seq(RequestType)
           /\ requests[i] \in RequestType /\ requests[i].rule \in Rules
           /\ requests'[i].acted # requests[i].acted
<1>1. requests[i] \in RequestType
  BY DEF IInv, TypeOK
<1> DEFINE y == [requests[i] EXCEPT !.status = st, !.acted = u]
<1>2. y \in RequestType /\ y.acted = u
  BY <1>1 DEF RequestType
<1>3. requests' = [requests EXCEPT ![i] = y]
  BY DEF Recorded, IInv, TypeOK
<1> HIDE DEF y
<1>4. requests' \in Seq(RequestType)
  BY <1>2, <1>3, RequestChanged
<1>5. requests'[i] = y
  BY <1>3 DEF IInv, TypeOK
<1>6. requests[i].acted = NoUser /\ requests[i].rule \in Rules
  BY <1>1 DEF Recorded, Recordable, RequestType
<1>7. QED  BY <1>1, <1>2, <1>4, <1>5, <1>6, LifecycleAssumption

LEMMA DeleteApprovalStep ==
    ASSUME IInv, NEW u \in Users, NEW i, DeleteApproval(u, i)
    PROVE  IInv'
<1>1. /\ i \in DOMAIN requests /\ requests' = [requests EXCEPT ![i].live = FALSE]
      /\ UNCHANGED <<row, versions, edits, artifacts, granted, proved, rollbacks, faults>>
  BY DEF DeleteApproval
<1> DEFINE y == [requests[i] EXCEPT !.live = FALSE]
<1>2. y \in RequestType
  <2>1. requests[i] \in RequestType
    BY <1>1 DEF IInv, TypeOK
  <2>2. QED  BY <2>1 DEF RequestType
<1>3. requests' \in Seq(RequestType)
  BY <1>1, <1>2, RequestChanged
<1>4. QED
  BY <1>1, <1>3 DEF IInv, TypeOK, Standing, Written, GrantHeld, Governed, OwnSuite

LEMMA CommentRequestStep ==
    ASSUME IInv, NEW u \in Users, NEW i, CommentRequest(u, i)
    PROVE  IInv'
<1>1. /\ i \in DOMAIN requests /\ Recorded(u, i, requests[i].status)
      /\ UNCHANGED <<row, versions, edits, artifacts, granted, proved, rollbacks, faults>>
  BY DEF CommentRequest
<1>2. requests[i].status \in {"pending", "approved", "rejected"}
  <2>1. requests[i] \in RequestType
    BY <1>1 DEF IInv, TypeOK
  <2>2. QED  BY <2>1 DEF RequestType
<1>3. requests' \in Seq(RequestType)
  BY <1>1, <1>2, RequestRecorded
<1>4. QED
  BY <1>1, <1>3 DEF IInv, TypeOK, Standing, Written, GrantHeld, Governed, OwnSuite

LEMMA RejectRequestStep ==
    ASSUME IInv, NEW u \in Users, NEW i, RejectRequest(u, i)
    PROVE  IInv'
<1>1. /\ i \in DOMAIN requests /\ Recorded(u, i, "rejected")
      /\ UNCHANGED <<row, versions, edits, artifacts, granted, proved, rollbacks, faults>>
  BY DEF RejectRequest, MayDecide
<1>2. requests' \in Seq(RequestType)
  BY <1>1, RequestRecorded
<1>3. QED
  BY <1>1, <1>2 DEF IInv, TypeOK, Standing, Written, GrantHeld, Governed, OwnSuite

LEMMA CreateApprovalStep ==
    ASSUME IInv, NEW u \in Users, NEW r \in Rules, NEW kind \in RequestKinds,
           CreateApproval(u, r, kind)
    PROVE  IInv'
<1> DEFINE y == [rule |-> r, kind |-> kind, status |-> "pending",
                 by |-> u, acted |-> NoUser, live |-> TRUE]
<1>1. /\ row[r].made /\ requests' = Append(requests, y)
      /\ UNCHANGED <<versions, edits, artifacts, granted, proved, rollbacks>>
      /\ faults' \in {faults, faults + 1}
      /\ row' = row \/ row' = [row EXCEPT ![r].last = "pending-approval"]
  BY DEF CreateApproval, Fails
<1>2. y \in RequestType
  BY LifecycleAssumption DEF RequestType
<1>3. requests' \in Seq(RequestType)
  BY <1>1, <1>2 DEF IInv, TypeOK
<1>4. row' \in [Rules -> RowType] /\ Standing' /\ Written' /\ GrantHeld'
  <2>1. CASE row' = row
    BY <1>1, <2>1, NoRowStep
  <2>2. CASE row' = [row EXCEPT ![r].last = "pending-approval"]
    <3> DEFINE x == [row[r] EXCEPT !.last = "pending-approval"]
    <3>1. /\ x \in RowType /\ x.made = row[r].made /\ x.text = row[r].text
          /\ x.current = row[r].current /\ x.deleted = row[r].deleted /\ x.active = row[r].active
          /\ x.last = "pending-approval" /\ row' = [row EXCEPT ![r] = x]
      BY <2>2 DEF IInv, TypeOK, RowType, Lasts
    <3> HIDE DEF x
    <3>2. QED  BY <1>1, <3>1, RowStep DEF IInv, Standing, GrantHeld
  <2>3. QED  BY <1>1, <2>1, <2>2
<1>5. OwnSuite'
  BY <1>1 DEF IInv, OwnSuite
<1>6. QED  BY <1>1, <1>3, <1>4, <1>5 DEF IInv, TypeOK

LEMMA DecideActivationStep ==
    ASSUME IInv, NEW u \in Users, NEW i, NEW decision \in {"approved", "rejected"},
           DecideActivation(u, i, decision)
    PROVE  IInv'
<1> DEFINE r == requests[i].rule
<1>1. /\ i \in DOMAIN requests /\ Recorded(u, i, decision)
      /\ UNCHANGED <<versions, edits, artifacts, proved, rollbacks>>
      /\ faults' \in {faults, faults + 1}
      /\ \/ UNCHANGED <<row, granted>>
         \/ /\ row' = [row EXCEPT ![r].last = decision]
            /\ granted' = IF decision = "approved" THEN granted \cup {r} ELSE granted
  BY DEF DecideActivation, MayDecide, Fails
<1>2. requests' \in Seq(RequestType) /\ r \in Rules
  BY <1>1, RequestRecorded
<1> HIDE DEF r
<1>3. /\ row' \in [Rules -> RowType] /\ Standing' /\ Written' /\ GrantHeld'
      /\ granted' \subseteq Rules
  <2>1. CASE UNCHANGED <<row, granted>>
    BY <1>1, <2>1, NoRowStep DEF IInv, TypeOK
  <2>2. CASE /\ row' = [row EXCEPT ![r].last = decision]
             /\ granted' = IF decision = "approved" THEN granted \cup {r} ELSE granted
    <3> DEFINE x == [row[r] EXCEPT !.last = decision]
    <3>1. /\ x \in RowType /\ x.made = row[r].made /\ x.text = row[r].text
          /\ x.current = row[r].current /\ x.deleted = row[r].deleted /\ x.active = row[r].active
          /\ x.last = decision /\ row' = [row EXCEPT ![r] = x]
      BY <1>2, <2>2 DEF IInv, TypeOK, RowType, Lasts
    <3> HIDE DEF x
    <3>2. granted \subseteq granted' /\ (decision = "approved" => r \in granted')
      BY <2>2
    <3>3. row' \in [Rules -> RowType] /\ Standing' /\ Written' /\ GrantHeld'
      BY <1>1, <1>2, <3>1, <3>2, RowStep DEF IInv, Standing, GrantHeld
    <3>4. QED  BY <1>2, <2>2, <3>3 DEF IInv, TypeOK
  <2>3. QED  BY <1>1, <2>1, <2>2
<1>4. OwnSuite'
  BY <1>1 DEF IInv, OwnSuite
<1>5. QED  BY <1>1, <1>2, <1>3, <1>4 DEF IInv, TypeOK

-----------------------------------------------------------------------------
\* A suite that is saved.
LEMMA ArtifactSaved ==
    ASSUME IInv, NEW s \in Suites, NEW st \in {"active", "disabled"},
           NEW R \in SUBSET (Rules \cup Peers), s \in Rules => R \subseteq {s},
           artifacts' = SaveArtifact(artifacts, s, st, R)
    PROVE  /\ artifacts' \in [Suites -> Seq(ArtifactType)] /\ OwnSuite'
           /\ \A q \in Suites : q # s => artifacts'[q] = artifacts[q]
           /\ artifacts'[s] = Append(artifacts[s], [status |-> st, rules |-> R])
<1> DEFINE y == [status |-> st, rules |-> R]
<1>1. y \in ArtifactType /\ y.rules = R
  BY DEF ArtifactType
<1>2. artifacts' = [artifacts EXCEPT ![s] = Append(artifacts[s], y)]
  BY DEF SaveArtifact
<1> HIDE DEF y
<1>3. artifacts[s] \in Seq(ArtifactType) /\ Append(artifacts[s], y) \in Seq(ArtifactType)
  BY <1>1 DEF IInv, TypeOK
<1>4. /\ artifacts' \in [Suites -> Seq(ArtifactType)]
      /\ \A q \in Suites : q # s => artifacts'[q] = artifacts[q]
      /\ artifacts'[s] = Append(artifacts[s], y)
  BY <1>2, <1>3 DEF IInv, TypeOK
<1>5. \A v \in DOMAIN artifacts'[s] :
        \/ v \in DOMAIN artifacts[s] /\ artifacts'[s][v] = artifacts[s][v]
        \/ artifacts'[s][v] = y
  BY <1>1, <1>3, <1>4
<1>6. OwnSuite'
  BY <1>1, <1>4, <1>5 DEF IInv, OwnSuite, Suites
<1>7. QED  BY <1>4, <1>6 DEF y

LEMMA RegisterSuiteStep ==
    ASSUME IInv, NEW s \in Shared, NEW R \in SUBSET (Rules \cup Peers), RegisterSuite(s, R)
    PROVE  IInv'
<1>1. /\ artifacts' = SaveArtifact(artifacts, s, "active", R)
      /\ UNCHANGED <<row, versions, requests, edits, granted, proved, rollbacks, faults>>
  BY DEF RegisterSuite
<1>2. s \in Suites /\ s \notin Rules
  BY LifecycleAssumption DEF Suites
<1>3. artifacts' \in [Suites -> Seq(ArtifactType)] /\ OwnSuite'
  BY <1>1, <1>2, ArtifactSaved
<1>4. QED  BY <1>1, <1>3, NoRowStep DEF IInv, TypeOK

LEMMA ApproveRepairStep ==
    ASSUME IInv, NEW u \in Users, NEW i, ApproveRepair(u, i)
    PROVE  IInv'
<1> DEFINE r == requests[i].rule
<1>1. /\ i \in DOMAIN requests
      /\ artifacts' = SaveArtifact(artifacts, r, "active", {r})
      /\ Recorded(u, i, "approved") \/ UNCHANGED requests
      /\ UNCHANGED <<row, versions, edits, granted, proved, rollbacks, faults>>
  BY DEF ApproveRepair, MayDecide
<1>2. r \in Rules /\ r \in Suites
  <2>1. requests[i] \in RequestType
    BY <1>1 DEF IInv, TypeOK
  <2>2. QED  BY <2>1 DEF RequestType, Suites
<1>3. requests' \in Seq(RequestType)
  BY <1>1, RequestRecorded DEF IInv, TypeOK
<1>4. artifacts' \in [Suites -> Seq(ArtifactType)] /\ OwnSuite'
  BY <1>1, <1>2, ArtifactSaved
<1>5. QED  BY <1>1, <1>3, <1>4, NoRowStep DEF IInv, TypeOK

LEMMA ActivateRuleStep ==
    ASSUME IInv, NEW r \in Rules, ActivateRule(r)
    PROVE  IInv'
<1>1. /\ Exists(r) /\ <<Status(r), "activated">> \in RuleStatusTransitions
      /\ row' = [row EXCEPT ![r] = InService(row[r])]
      /\ faults' \in {faults, faults + 1}
      /\ \/ UNCHANGED artifacts
         \/ artifacts' = SaveArtifact(artifacts, r, "active", {r})
      /\ UNCHANGED <<versions, requests, edits, granted, proved, rollbacks>>
  BY DEF ActivateRule, Fails
<1>2. row[r].made /\ ~row[r].deleted /\ row[r].last = "approved"
  BY <1>1 DEF Exists, Status, StatusOf, RuleStatusTransitions
<1> DEFINE x == InService(row[r])
<1>3. /\ x \in RowType /\ x.made = row[r].made /\ x.text = row[r].text
      /\ x.current = row[r].current /\ x.deleted = row[r].deleted
  BY DEF IInv, TypeOK, RowType, Lasts, InService
<1> HIDE DEF x
<1>4. row' \in [Rules -> RowType] /\ Standing' /\ Written' /\ GrantHeld'
  BY <1>1, <1>2, <1>3, RowStep DEF IInv, GrantHeld, x
<1>5. artifacts' \in [Suites -> Seq(ArtifactType)] /\ OwnSuite'
  <2>1. CASE UNCHANGED artifacts
    BY <2>1 DEF IInv, TypeOK, OwnSuite
  <2>2. CASE artifacts' = SaveArtifact(artifacts, r, "active", {r})
    <3>1. r \in Suites
      BY DEF Suites
    <3>2. QED  BY <2>2, <3>1, ArtifactSaved
  <2>3. QED  BY <1>1, <2>1, <2>2
<1>6. QED  BY <1>1, <1>4, <1>5 DEF IInv, TypeOK

-----------------------------------------------------------------------------
\* The suites of a rule that is deactivated.
OwnVersions(s, a) ==
    a \in Seq(ArtifactType) /\ (s \in Rules => \A v \in DOMAIN a : a[v].rules \subseteq {s})

LEMMA LatestFacts ==
    ASSUME IInv, NEW r \in Rules, NEW s \in SuitesOf(r)
    PROVE  /\ s \in Suites /\ OwnVersions(s, artifacts[s])
           /\ Latest(s, r) \in DOMAIN artifacts[s]
           /\ artifacts[s][Latest(s, r)] \in ArtifactType
           /\ artifacts[s][Latest(s, r)].status = "active"
           /\ \A v \in ActiveVersions(artifacts, s, r) : v =< Latest(s, r)
<1>1. s \in Suites /\ ActiveVersions(artifacts, s, r) # {}
  BY DEF SuitesOf
<1>2. artifacts[s] \in Seq(ArtifactType)
  BY <1>1 DEF IInv, TypeOK
<1>3. Len(artifacts[s]) \in Nat /\ ActiveVersions(artifacts, s, r) \in SUBSET (1..Len(artifacts[s]))
  BY <1>2 DEF ActiveVersions
<1>4. /\ Latest(s, r) \in ActiveVersions(artifacts, s, r)
      /\ \A v \in ActiveVersions(artifacts, s, r) : v =< Latest(s, r)
  BY <1>1, <1>3, MaxFacts DEF Latest
<1>5. Latest(s, r) \in DOMAIN artifacts[s] /\ artifacts[s][Latest(s, r)].status = "active"
  BY <1>4 DEF ActiveVersions
<1>6. QED  BY <1>1, <1>2, <1>4, <1>5 DEF IInv, OwnSuite, OwnVersions

LEMMA DisabledFacts ==
    ASSUME IInv, NEW r \in Rules, NEW s \in SuitesOf(r)
    PROVE  OwnVersions(s, Disabled(s, r))
<1> DEFINE n == Latest(s, r)
           a == artifacts[s]
           y == [a[n] EXCEPT !.status = "disabled"]
<1>1. /\ OwnVersions(s, a) /\ n \in DOMAIN a /\ a[n] \in ArtifactType
  BY LatestFacts
<1>2. y \in ArtifactType /\ y.rules = a[n].rules
  BY <1>1 DEF ArtifactType
<1>3. Disabled(s, r) = [a EXCEPT ![n] = y]
  BY DEF Disabled
<1> HIDE DEF n, a, y
<1>4. [a EXCEPT ![n] = y] \in Seq(ArtifactType)
  BY <1>1, <1>2 DEF OwnVersions
<1>5. QED  BY <1>1, <1>2, <1>3, <1>4 DEF OwnVersions

LEMMA VersionSaved ==
    ASSUME NEW s, NEW a, OwnVersions(s, a), NEW R \in SUBSET (Rules \cup Peers),
           NEW st \in {"active", "disabled"}, s \in Rules => R \subseteq {s}
    PROVE  OwnVersions(s, Append(a, [status |-> st, rules |-> R]))
<1> DEFINE y == [status |-> st, rules |-> R]
<1>1. y \in ArtifactType /\ y.rules = R
  BY DEF ArtifactType
<1> HIDE DEF y
<1>2. /\ Append(a, y) \in Seq(ArtifactType)
      /\ \A v \in DOMAIN Append(a, y) : Append(a, y)[v] = y
            \/ (v \in DOMAIN a /\ Append(a, y)[v] = a[v])
  BY <1>1 DEF OwnVersions
<1>3. OwnVersions(s, Append(a, y))
  BY <1>1, <1>2 DEF OwnVersions
<1>4. QED  BY <1>3 DEF y

LEMMA RemainingFacts ==
    ASSUME IInv, NEW r \in Rules, NEW s \in SuitesOf(r)
    PROVE  /\ Remaining(s, r) \in SUBSET (Rules \cup Peers)
           /\ s \in Rules => Remaining(s, r) \subseteq {s}
<1>1. /\ OwnVersions(s, artifacts[s]) /\ Latest(s, r) \in DOMAIN artifacts[s]
      /\ artifacts[s][Latest(s, r)] \in ArtifactType
  BY LatestFacts
<1>2. artifacts[s][Latest(s, r)].rules \subseteq Rules \cup Peers
  BY <1>1 DEF ArtifactType
<1>3. QED  BY <1>1, <1>2 DEF Remaining, OwnVersions

LEMMA ReversionFacts ==
    ASSUME IInv, NEW r \in Rules, NEW s \in SuitesOf(r)
    PROVE  OwnVersions(s, Reversion(s, r))
<1>1. CASE Remaining(s, r) = {}
  <2>1. OwnVersions(s, Append(Disabled(s, r), [status |-> "disabled", rules |-> {}]))
    BY DisabledFacts, VersionSaved
  <2>2. QED  BY <1>1, <2>1 DEF Reversion
<1>2. CASE Remaining(s, r) # {}
  <2>1. OwnVersions(s, Append(artifacts[s], [status |-> "active", rules |-> Remaining(s, r)]))
    BY LatestFacts, RemainingFacts, VersionSaved
  <2>2. QED  BY <1>2, <2>1 DEF Reversion
<1>3. QED  BY <1>1, <1>2

LEMMA ReversionsFacts ==
    ASSUME IInv, NEW r \in Rules, NEW done \in SUBSET SuitesOf(r), NEW cut \in SUBSET SuitesOf(r),
           cut \cap done = {}, artifacts' = Reversions(r, done, cut)
    PROVE  artifacts' \in [Suites -> Seq(ArtifactType)] /\ OwnSuite'
<1>1. \A s \in Suites : OwnVersions(s, artifacts'[s])
  <2>1. ASSUME NEW s \in Suites PROVE OwnVersions(s, artifacts'[s])
    <3>1. CASE s \in done
      <4>1. artifacts'[s] = Reversion(s, r)
        BY <3>1 DEF Reversions
      <4>2. QED  BY <3>1, <4>1, ReversionFacts
    <3>2. CASE s \notin done /\ s \in cut
      <4>1. artifacts'[s] = Disabled(s, r)
        BY <3>2 DEF Reversions
      <4>2. QED  BY <3>2, <4>1, DisabledFacts
    <3>3. CASE s \notin done /\ s \notin cut
      <4>1. artifacts'[s] = artifacts[s]
        BY <3>3 DEF Reversions
      <4>2. QED  BY <4>1 DEF IInv, TypeOK, OwnSuite, OwnVersions
    <3>4. QED  BY <3>1, <3>2, <3>3
  <2>2. QED  BY <2>1
<1>2. artifacts' = [s \in Suites |-> artifacts'[s]]
  BY DEF Reversions
<1>3. QED  BY <1>1, <1>2 DEF OwnVersions, OwnSuite, Suites

\* What the approval of a deactivation does, its errors included.
LEMMA ApproveDeactivationDoes ==
    ASSUME IInv, NEW u \in Users, NEW i, ApproveDeactivation(u, i)
    PROVE  LET r == requests[i].rule IN
           /\ i \in DOMAIN requests /\ MayDecide(i, "approved") /\ Recorded(u, i, "approved")
           /\ r \in Rules /\ requests[i].kind = "deactivation"
           /\ requests' \in Seq(RequestType) /\ requests'[i].acted # requests[i].acted
           /\ faults' \in {faults, faults + 1}
           /\ UNCHANGED <<versions, edits, proved, rollbacks>>
           /\ \/ UNCHANGED <<row, granted, artifacts>>
              \/ /\ row' = [row EXCEPT ![r] = [row[r] EXCEPT !.active = FALSE, !.last = "deactivated"]]
                 /\ granted' = granted \ {r}
                 /\ \E done, cut \in SUBSET SuitesOf(r) :
                       /\ cut \cap done = {} /\ \A s \in cut : Remaining(s, r) = {}
                       /\ artifacts' = Reversions(r, done, cut)
<1> DEFINE r == requests[i].rule
<1>1. /\ i \in DOMAIN requests /\ MayDecide(i, "approved") /\ Recorded(u, i, "approved")
      /\ requests[i].kind = "deactivation"
      /\ faults' \in {faults, faults + 1}
      /\ UNCHANGED <<versions, edits, proved, rollbacks>>
  BY DEF ApproveDeactivation, MayDecide, Fails
<1>2. /\ requests' \in Seq(RequestType) /\ requests'[i].acted # requests[i].acted
      /\ r \in Rules
  BY <1>1, RequestRecorded
<1>3. CASE UNCHANGED <<row, granted, artifacts>>
  BY <1>1, <1>2, <1>3
<1>4. CASE /\ row' = [row EXCEPT ![r] = [row[r] EXCEPT !.active = FALSE, !.last = "deactivated"]]
           /\ granted' = granted \ {r}
           /\ artifacts' = Reversions(r, SuitesOf(r), {})
  <2>1. SuitesOf(r) \in SUBSET SuitesOf(r) /\ {} \in SUBSET SuitesOf(r) /\ {} \cap SuitesOf(r) = {}
    OBVIOUS
  <2>2. \E done, cut \in SUBSET SuitesOf(r) :
             /\ cut \cap done = {} /\ \A s \in cut : Remaining(s, r) = {}
             /\ artifacts' = Reversions(r, done, cut)
    BY <1>4, <2>1
  <2>3. QED  BY <1>1, <1>2, <1>4, <2>2
<1>5. CASE /\ row' = [row EXCEPT ![r] = [row[r] EXCEPT !.active = FALSE, !.last = "deactivated"]]
           /\ granted' = granted \ {r}
           /\ \E done \in SUBSET SuitesOf(r) : \E cut \in SUBSET (SuitesOf(r) \ done) :
                      /\ done # SuitesOf(r) /\ Cardinality(cut) <= 1
                      /\ \A s \in cut : Remaining(s, r) = {}
                      /\ artifacts' = Reversions(r, done, cut)
  <2>1. PICK done \in SUBSET SuitesOf(r) : \E cut \in SUBSET (SuitesOf(r) \ done) :
                      /\ \A s \in cut : Remaining(s, r) = {}
                      /\ artifacts' = Reversions(r, done, cut)
    BY <1>5
  <2>2. PICK cut \in SUBSET (SuitesOf(r) \ done) :
                      /\ \A s \in cut : Remaining(s, r) = {}
                      /\ artifacts' = Reversions(r, done, cut)
    BY <2>1
  <2>3. cut \in SUBSET SuitesOf(r) /\ cut \cap done = {}
    OBVIOUS
  <2>4. \E d, c \in SUBSET SuitesOf(r) :
             /\ c \cap d = {} /\ \A s \in c : Remaining(s, r) = {}
             /\ artifacts' = Reversions(r, d, c)
    BY <2>2, <2>3
  <2>5. QED  BY <1>1, <1>2, <1>5, <2>4
<1>6. QED  BY <1>3, <1>4, <1>5 DEF ApproveDeactivation

LEMMA ApproveDeactivationStep ==
    ASSUME IInv, NEW u \in Users, NEW i, ApproveDeactivation(u, i)
    PROVE  IInv'
<1> DEFINE r == requests[i].rule
<1>1. /\ r \in Rules /\ requests' \in Seq(RequestType) /\ faults' \in {faults, faults + 1}
      /\ UNCHANGED <<versions, edits, proved, rollbacks>>
  BY ApproveDeactivationDoes
<1>2. CASE UNCHANGED <<row, granted, artifacts>>
  BY <1>1, <1>2, NoRowStep DEF IInv, TypeOK, OwnSuite
<1>3. CASE /\ row' = [row EXCEPT ![r] = [row[r] EXCEPT !.active = FALSE, !.last = "deactivated"]]
           /\ granted' = granted \ {r}
           /\ \E done, cut \in SUBSET SuitesOf(r) :
                 /\ cut \cap done = {} /\ \A s \in cut : Remaining(s, r) = {}
                 /\ artifacts' = Reversions(r, done, cut)
  <2> HIDE DEF r
  <2> DEFINE x == [row[r] EXCEPT !.active = FALSE, !.last = "deactivated"]
  <2>1. /\ x \in RowType /\ x.made = row[r].made /\ x.text = row[r].text
        /\ x.current = row[r].current /\ x.deleted = row[r].deleted
        /\ ~x.active /\ x.last = "deactivated"
    BY <1>1 DEF IInv, TypeOK, RowType, Lasts
  <2>2. row' = [row EXCEPT ![r] = x]
    BY <1>3
  <2> HIDE DEF x
  <2>3. row' \in [Rules -> RowType] /\ Standing' /\ Written' /\ GrantHeld'
    BY <1>1, <1>3, <2>1, <2>2, RowStep DEF IInv, Standing
  <2>4. artifacts' \in [Suites -> Seq(ArtifactType)] /\ OwnSuite'
    BY <1>1, <1>3, ReversionsFacts
  <2>5. QED  BY <1>1, <1>3, <2>3, <2>4 DEF IInv, TypeOK
<1>4. QED  BY <1>2, <1>3, ApproveDeactivationDoes

-----------------------------------------------------------------------------
\* The invariant of the specification.
LEMMA InitInvariant == Init => IInv
<1>1. ASSUME Init PROVE TypeOK
  <2>1. row \in [Rules -> RowType]
    BY <1>1 DEF Init, RowType, Lasts, Cycles
  <2>2. QED  BY <1>1, <2>1 DEF Init, TypeOK
<1>2. ASSUME Init PROVE Standing /\ Written /\ GrantHeld
  BY <1>2 DEF Init, Standing, Written, GrantHeld, Governed
<1>3. ASSUME Init PROVE OwnSuite
  BY <1>3 DEF Init, OwnSuite, Suites
<1>4. QED  BY <1>1, <1>2, <1>3 DEF IInv

LEMMA StepInvariant == IInv /\ [Next]_vars => IInv'
<1> SUFFICES ASSUME IInv, [Next]_vars PROVE IInv'
  OBVIOUS
<1>1. CASE UNCHANGED vars
  BY <1>1 DEF vars, IInv, TypeOK, Standing, Written, GrantHeld, Governed, OwnSuite
<1>2. ASSUME NEW r \in Rules,
             \/ \E active \in BOOLEAN : CreateRule(r, active) \/ BeginEdit(r, active)
             \/ \E v \in 1..MaxVersions : Rollback(r, v)
             \/ StoreTestProof(r)
             \/ \E target \in Cycles : SetLifecycle(r, target)
             \/ RemoveRule(r) \/ RecoverRule(r) \/ ActivateRule(r)
             \/ \E u \in Users, kind \in RequestKinds : CreateApproval(u, r, kind)
      PROVE  IInv'
  BY <1>2, CreateRuleStep, BeginEditStep, RollbackStep, StoreTestProofStep, SetLifecycleStep,
     RemoveRuleStep, RecoverRuleStep, ActivateRuleStep, CreateApprovalStep
<1>3. ASSUME NEW e \in edits, FinishEdit(e) PROVE IInv'
  BY <1>3, FinishEditStep
<1>4. ASSUME NEW s \in Shared, NEW rules \in SUBSET (Rules \cup Peers), RegisterSuite(s, rules)
      PROVE  IInv'
  BY <1>4, RegisterSuiteStep
<1>5. ASSUME NEW u \in Users, NEW i \in 1..MaxRequests,
             \/ DeleteApproval(u, i) \/ CommentRequest(u, i)
             \/ \E decision \in {"approved", "rejected"} : DecideActivation(u, i, decision)
             \/ RejectRequest(u, i) \/ ApproveRepair(u, i) \/ ApproveDeactivation(u, i)
      PROVE  IInv'
  BY <1>5, DeleteApprovalStep, CommentRequestStep, DecideActivationStep, RejectRequestStep,
     ApproveRepairStep, ApproveDeactivationStep
<1>6. QED  BY <1>1, <1>2, <1>3, <1>4, <1>5 DEF Next

\* The types of all rows, versions, requests and suites, and what rows,
\* versions, approvals and suites have to do with each other, hold always.
THEOREM Invariant == Spec => []IInv
<1>1. QED  BY InitInvariant, StepInvariant, PTL DEF Spec

\* The row of a rule shows the text of the version it points to, and that
\* version is the last, however edits and rollbacks overtake each other.
THEOREM RowIsCurrent == Spec => []RowMatchesCurrentVersion
<1>1. IInv => RowMatchesCurrentVersion
  BY DEF IInv, Written, RowMatchesCurrentVersion
<1>2. QED  BY <1>1, Invariant, PTL

\* No rule that was written inactive and never rolled back gets approved or
\* into service without an approval: not by an edit that passed its check
\* before, nor by a request that was decided twice or cut off by an error.
THEOREM GrantedOnly == Spec => []ActiveRuleWasGranted
<1>1. IInv => ActiveRuleWasGranted
  <2> SUFFICES ASSUME IInv, NEW r \in Rules, row[r].made, ~versions[r][1].active, rollbacks = 0,
                      Status(r) \in {"approved", "activated"}
               PROVE  r \in granted
    BY DEF ActiveRuleWasGranted
  <2>1. row[r] \in RowType
    BY DEF IInv, TypeOK
  <2>2. row[r].last = "approved" \/ row[r].active
    BY <2>1 DEF Status, StatusOf, RowType, Lasts
  <2>3. QED  BY <2>2 DEF IInv, GrantHeld, Governed
<1>2. QED  BY <1>1, Invariant, PTL

-----------------------------------------------------------------------------
\* What a step may do to a rule that was removed.
OnlyRecovered ==
    \A r \in Rules : row[r].deleted /\ row'[r] # row[r] =>
        row'[r] = [row[r] EXCEPT !.deleted = FALSE, !.active = FALSE, !.last = "recovered"]

LEMMA RemovedStatus ==
    ASSUME NEW r \in Rules, row[r].deleted
    PROVE  Status(r) = "removed" /\ ReviewStatuses(r) = {"removed"} /\ ~Exists(r)
  BY DEF Status, StatusOf, ReviewStatuses, Exists

\* A row that is written with the checks of its handler was not removed.
LEMMA OtherRowWritten ==
    ASSUME IInv, NEW r \in Rules, ~row[r].deleted, NEW x, row' = [row EXCEPT ![r] = x]
    PROVE  OnlyRecovered
  BY DEF IInv, TypeOK, OnlyRecovered

LEMMA RemovedStep ==
    ASSUME IInv, [Next]_vars
    PROVE  OnlyRecovered
<1>1. CASE UNCHANGED row
  BY <1>1 DEF OnlyRecovered
<1>2. ASSUME NEW r \in Rules, NEW a \in BOOLEAN, CreateRule(r, a) PROVE OnlyRecovered
  <2>1. ~row[r].deleted
    BY <1>2 DEF CreateRule, IInv, Standing
  <2>2. QED  BY <1>2, <2>1, OtherRowWritten DEF CreateRule
<1>3. ASSUME NEW e \in edits, FinishEdit(e) PROVE OnlyRecovered
  <2>1. e.rule \in Rules
    BY DEF IInv, TypeOK
  <2>2. CASE Admitted(e)
    <3>1. ~row[e.rule].deleted
      BY <2>2 DEF Admitted, Exists
    <3>2. \E x : row' = [row EXCEPT ![e.rule] = x]
      BY <1>3, <2>2 DEF FinishEdit
    <3>3. QED  BY <2>1, <3>1, <3>2, OtherRowWritten
  <2>3. CASE ~Admitted(e)
    BY <1>3, <2>3, <1>1 DEF FinishEdit
  <2>4. QED  BY <2>2, <2>3
<1>4. ASSUME NEW r \in Rules, NEW v, Rollback(r, v) PROVE OnlyRecovered
  BY <1>4, OtherRowWritten DEF Rollback, Exists
<1>5. ASSUME NEW r \in Rules, StoreTestProof(r) PROVE OnlyRecovered
  <2>1. CASE row[r].deleted
    <3>1. ~MayMove(Status(r), "tested")
      BY <2>1, RemovedStatus DEF MayMove, RuleStatusTransitions
    <3>2. QED  BY <1>1, <1>5, <3>1 DEF StoreTestProof
  <2>2. CASE ~row[r].deleted
    <3>1. row' = row \/ \E x : row' = [row EXCEPT ![r] = x]
      BY <1>5 DEF StoreTestProof
    <3>2. QED  BY <1>1, <2>2, <3>1, OtherRowWritten
  <2>3. QED  BY <2>1, <2>2
<1>6. ASSUME NEW r \in Rules, NEW target, SetLifecycle(r, target) PROVE OnlyRecovered
  BY <1>6, OtherRowWritten DEF SetLifecycle, Exists
<1>7. ASSUME NEW r \in Rules, RemoveRule(r) PROVE OnlyRecovered
  BY <1>7, OtherRowWritten DEF RemoveRule, Exists
<1>8. ASSUME NEW r \in Rules, RecoverRule(r) PROVE OnlyRecovered
  BY <1>8 DEF RecoverRule, OnlyRecovered, IInv, TypeOK
<1>9. ASSUME NEW r \in Rules, ActivateRule(r) PROVE OnlyRecovered
  BY <1>9, OtherRowWritten DEF ActivateRule, Exists
<1>10. ASSUME NEW u, NEW r \in Rules, NEW kind, CreateApproval(u, r, kind) PROVE OnlyRecovered
  <2>1. CASE row[r].deleted
    <3>1. ~(kind = "activation" /\ MayRequest(r, kind))
      BY <2>1, RemovedStatus DEF MayRequest, RuleStatusTransitions
    <3>2. QED  BY <1>1, <1>10, <3>1 DEF CreateApproval
  <2>2. CASE ~row[r].deleted
    <3>1. row' = row \/ \E x : row' = [row EXCEPT ![r] = x]
      BY <1>10 DEF CreateApproval
    <3>2. QED  BY <1>1, <2>2, <3>1, OtherRowWritten
  <2>3. QED  BY <2>1, <2>2
<1>11. ASSUME NEW u \in Users, NEW i, NEW decision \in {"approved", "rejected"},
              DecideActivation(u, i, decision)
       PROVE  OnlyRecovered
  <2> DEFINE r == requests[i].rule
  <2>1. i \in DOMAIN requests /\ MayDecide(i, decision) /\ requests[i].kind = "activation"
    BY <1>11 DEF DecideActivation, MayDecide
  <2>2. r \in Rules
    BY <1>11, <2>1, RequestRecorded DEF DecideActivation
  <2>3. ~row[r].deleted
    <3>1. \E st \in ReviewStatuses(r) : st \in {decision, "pending-approval"}
      BY <2>1 DEF MayDecide
    <3>2. QED  BY <2>2, <3>1, RemovedStatus
  <2>4. row' = row \/ row' = [row EXCEPT ![r].last = decision]
    BY <1>11 DEF DecideActivation
  <2> HIDE DEF r
  <2>5. row' = row \/ \E x : row' = [row EXCEPT ![r] = x]
    BY <2>4
  <2>6. QED  BY <1>1, <2>2, <2>3, <2>5, OtherRowWritten
<1>12. ASSUME NEW u \in Users, NEW i, ApproveDeactivation(u, i) PROVE OnlyRecovered
  <2> DEFINE r == requests[i].rule
  <2>1. /\ MayDecide(i, "approved") /\ requests[i].kind = "deactivation" /\ r \in Rules
        /\ row' = row \/ \E x : row' = [row EXCEPT ![r] = x]
    BY <1>12, ApproveDeactivationDoes
  <2>2. ~row[r].deleted
    <3>1. \E st \in ReviewStatuses(r) : st \in {"activated", "deactivated"}
      BY <2>1 DEF MayDecide
    <3>2. QED  BY <2>1, <3>1, RemovedStatus
  <2>3. QED  BY <1>1, <2>1, <2>2, OtherRowWritten
<1>13. QED
  BY <1>1, <1>2, <1>3, <1>4, <1>5, <1>6, <1>7, <1>8, <1>9, <1>10, <1>11, <1>12
  DEF Next, vars, BeginEdit, RegisterSuite, DeleteApproval, CommentRequest, RejectRequest,
      ApproveRepair

\* A removed rule changes by its recovery only, whatever edits, tests and
\* decisions were under way when it was removed.
THEOREM RemovedStays == Spec => RemovedOnlyRecovered
<1>1. IInv /\ [Next]_vars => [OnlyRecovered]_vars
  BY RemovedStep
<1>2. QED  BY <1>1, Invariant, PTL DEF Spec, RemovedOnlyRecovered, OnlyRecovered

-----------------------------------------------------------------------------
\* What a step may do to what a suite checks.
StaysCovered ==
    \A s \in Suites : \A r \in LatestActive(artifacts, s) :
        /\ r \in Peers \/ row'[r].active
        /\ \A q \in Rules : Outdated(s, q) => ~Deactivates(q)
        => r \in LatestActive(artifacts', s)

LEMMA SuiteKept ==
    ASSUME NEW s \in Suites, artifacts'[s] = artifacts[s]
    PROVE  LatestActive(artifacts', s) = LatestActive(artifacts, s)
  BY LatestIs

\* The versions of its own suite check the rule or nothing.
LEMMA OwnSaved ==
    ASSUME IInv, NEW r \in Rules, artifacts' = SaveArtifact(artifacts, r, "active", {r})
    PROVE  StaysCovered
<1>1. r \in Suites
  BY DEF Suites
<1>2. /\ \A q \in Suites : q # r => artifacts'[q] = artifacts[q]
      /\ artifacts'[r] = Append(artifacts[r], [status |-> "active", rules |-> {r}])
  BY <1>1, ArtifactSaved
<1>3. artifacts[r] \in Seq(ArtifactType) /\ {r} \in SUBSET (Rules \cup Peers)
  BY <1>1 DEF IInv, TypeOK
<1>4. LatestActive(artifacts', r) = {r}
  BY <1>2, <1>3, LatestIs, LatestAppended
<1>5. LatestActive(artifacts, r) \subseteq {r}
  <2>1. CASE Actives(artifacts[r]) = {}
    BY <2>1, LatestIs DEF LatestOf
  <2>2. CASE Actives(artifacts[r]) # {}
    <3>1. Max(Actives(artifacts[r])) \in DOMAIN artifacts[r]
      BY <1>3, <2>2, ActivesFacts DEF Actives
    <3>2. LatestOf(artifacts[r]) \subseteq {r}
      BY <2>2, <3>1 DEF LatestOf, IInv, OwnSuite
    <3>3. QED  BY <3>2, LatestIs
  <2>3. QED  BY <2>1, <2>2
<1>6. QED  BY <1>2, <1>4, <1>5, SuiteKept DEF StaysCovered

LEMMA DeactivationCovers ==
    ASSUME IInv, NEW u \in Users, NEW i, ApproveDeactivation(u, i)
    PROVE  StaysCovered
<1> DEFINE r == requests[i].rule
<1>1. /\ i \in DOMAIN requests /\ r \in Rules
      /\ requests[i].kind = "deactivation" /\ requests'[i].acted # requests[i].acted
      /\ \/ UNCHANGED artifacts
         \/ /\ row' = [row EXCEPT ![r] = [row[r] EXCEPT !.active = FALSE, !.last = "deactivated"]]
            /\ \E done, cut \in SUBSET SuitesOf(r) :
                  /\ cut \cap done = {} /\ \A s \in cut : Remaining(s, r) = {}
                  /\ artifacts' = Reversions(r, done, cut)
  BY ApproveDeactivationDoes
<1>2. Deactivates(r)
  BY <1>1 DEF Deactivates
<1> HIDE DEF r
<1>3. CASE UNCHANGED artifacts
  BY <1>3 DEF StaysCovered
<1>4. CASE /\ row' = [row EXCEPT ![r] = [row[r] EXCEPT !.active = FALSE, !.last = "deactivated"]]
           /\ \E done, cut \in SUBSET SuitesOf(r) :
                 /\ cut \cap done = {} /\ \A s \in cut : Remaining(s, r) = {}
                 /\ artifacts' = Reversions(r, done, cut)
  <2>1. PICK done, cut \in SUBSET SuitesOf(r) :
                 /\ cut \cap done = {} /\ \A s \in cut : Remaining(s, r) = {}
                 /\ artifacts' = Reversions(r, done, cut)
    BY <1>4
  <2>2. /\ ~row'[r].active
        /\ \A q \in Rules : q # r => row'[q] = row[q]
    BY <1>1, <1>4 DEF IInv, TypeOK, RowType
  <2> SUFFICES ASSUME NEW s \in Suites, NEW q \in LatestActive(artifacts, s),
                      q \in Peers \/ row'[q].active,
                      \A p \in Rules : Outdated(s, p) => ~Deactivates(p)
               PROVE  q \in LatestActive(artifacts', s)
    BY DEF StaysCovered
  <2>3. CASE s \notin done /\ s \notin cut
    <3>1. artifacts'[s] = artifacts[s]
      BY <2>1, <2>3 DEF Reversions
    <3>2. QED  BY <3>1, SuiteKept
  <2>4. CASE s \in done \/ s \in cut
    <3> DEFINE a == artifacts[s]
               n == Max(Actives(a))
    <3>1. s \in SuitesOf(r) /\ a \in Seq(ArtifactType)
      BY <2>1, <2>4 DEF IInv, TypeOK
    <3>2. ActiveVersions(artifacts, s, r) # {} /\ ActiveVersions(artifacts, s, r) \subseteq Actives(a)
      BY <3>1 DEF SuitesOf, ActiveVersions, Actives
    <3>3. n \in Actives(a) /\ \A y \in Actives(a) : y =< n
      BY <3>1, <3>2, ActivesFacts
    <3>4. LatestActive(artifacts, s) = a[n].rules
      BY <3>2, LatestIs DEF LatestOf
    <3>5. r \in a[n].rules
      BY <1>1, <1>2, <3>2, <3>4 DEF Outdated
    <3>6. n \in ActiveVersions(artifacts, s, r)
      BY <3>3, <3>5 DEF ActiveVersions, Actives
    <3>7. Latest(s, r) = n
      <4>1. \A y \in ActiveVersions(artifacts, s, r) : y =< n
        BY <3>2, <3>3
      <4>2. ActiveVersions(artifacts, s, r) \in SUBSET Nat
        BY <3>1 DEF ActiveVersions
      <4>3. QED  BY <3>6, <4>1, <4>2, MaxIs DEF Latest
    <3>8. q \in a[n].rules /\ a[n].rules \subseteq Rules \cup Peers
      <4>1. a[n] \in ArtifactType
        <5>1. n \in DOMAIN a
          BY <3>3 DEF Actives
        <5> HIDE DEF n, a
        <5>2. QED  BY <3>1, <5>1
      <4>2. QED  BY <3>4, <4>1 DEF ArtifactType
    <3>9. q # r /\ Running(q)
      <4>1. CASE q \in Peers
        BY <1>1, <4>1, LifecycleAssumption DEF Running
      <4>2. CASE q \in Rules /\ row'[q].active
        <5>1. q # r /\ row[q].active
          BY <2>2, <4>2
        <5>2. Exists(q)
          BY <4>2, <5>1 DEF IInv, Standing, Exists
        <5>3. QED  BY <5>1, <5>2 DEF Running
      <4>3. QED  BY <3>8, <4>1, <4>2
    <3>10. q \in Remaining(s, r)
      BY <3>7, <3>8, <3>9 DEF Remaining
    <3>11. s \in done /\ s \notin cut
      BY <2>1, <2>4, <3>10
    <3>12. artifacts'[s] = Append(a, [status |-> "active", rules |-> Remaining(s, r)])
      <4>1. artifacts'[s] = Reversion(s, r)
        BY <2>1, <3>11 DEF Reversions
      <4>2. QED  BY <3>10, <4>1 DEF Reversion
    <3>13. LatestActive(artifacts', s) = Remaining(s, r)
      <4>1. Remaining(s, r) \in SUBSET (Rules \cup Peers)
        BY <1>1, <3>1, RemainingFacts
      <4>2. LatestActive(artifacts', s) = LatestOf(artifacts'[s])
        BY LatestIs
      <4> HIDE DEF a
      <4>3. QED  BY <3>1, <3>12, <4>1, <4>2, LatestAppended
    <3>14. QED  BY <3>10, <3>13
  <2>5. QED  BY <2>3, <2>4
<1>5. QED  BY <1>1, <1>3, <1>4

LEMMA CoveredStep ==
    ASSUME IInv, [Next]_vars
    PROVE  StaysCovered
<1>1. CASE UNCHANGED artifacts
  BY <1>1 DEF StaysCovered
<1>2. ASSUME NEW s \in Shared, NEW rules \in SUBSET (Rules \cup Peers), RegisterSuite(s, rules)
      PROVE  StaysCovered
  <2>1. s \in Suites /\ s \notin Rules
    BY LifecycleAssumption DEF Suites
  <2>2. /\ artifacts[s] = <<>>
        /\ artifacts' = SaveArtifact(artifacts, s, "active", rules)
    BY <1>2 DEF RegisterSuite
  <2>3. \A q \in Suites : q # s => artifacts'[q] = artifacts[q]
    BY <2>1, <2>2, ArtifactSaved
  <2>4. LatestActive(artifacts, s) = {}
    <3>1. Actives(artifacts[s]) = {}
      BY <2>2 DEF Actives
    <3>2. LatestOf(artifacts[s]) = {}
      BY <3>1 DEF LatestOf
    <3>3. QED  BY <3>2, LatestIs
  <2>5. QED  BY <2>3, <2>4, SuiteKept DEF StaysCovered
<1>3. ASSUME NEW u \in Users, NEW i, ApproveRepair(u, i) PROVE StaysCovered
  <2>1. i \in DOMAIN requests
    BY <1>3 DEF ApproveRepair, MayDecide
  <2>2. requests[i] \in RequestType
    BY <2>1 DEF IInv, TypeOK
  <2>3. requests[i].rule \in Rules
    BY <2>2 DEF RequestType
  <2>4. QED  BY <1>3, <2>3, OwnSaved DEF ApproveRepair
<1>4. ASSUME NEW r \in Rules, ActivateRule(r) PROVE StaysCovered
  BY <1>1, <1>4, OwnSaved DEF ActivateRule
<1>5. QED
  BY <1>1, <1>2, <1>3, <1>4, DeactivationCovers
  DEF Next, vars, CreateRule, BeginEdit, FinishEdit, Rollback, StoreTestProof, SetLifecycle,
      RemoveRule, RecoverRule, CreateApproval, DeleteApproval, CommentRequest, DecideActivation,
      RejectRequest

\* The deactivation of a rule takes no other rule in service out of the
\* execution of a suite, unless the suite's latest active version had
\* already lost the rule that is deactivated.
THEOREM CoverageStays == Spec => ActiveRulesStayCovered
<1>1. IInv /\ [Next]_vars => [StaysCovered]_vars
  BY CoveredStep
<1>2. QED  BY <1>1, Invariant, PTL DEF Spec, ActiveRulesStayCovered, StaysCovered
=============================================================================
