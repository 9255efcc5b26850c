--------------------------- MODULE GxDispatchProofs ---------------------------
(***************************************************************************)
(* Theorems about GxDispatch for every set of runs and workers, every      *)
(* assignment of plans and suites, and every bound on crashes and faults.  *)
(* Three of them are for a single worker.  The last part is about JoinPair *)
(* and is the only one that uses JoinAssumption.                           *)
(***************************************************************************)
EXTENDS JoinPair, Integers, SequenceTheorems, FiniteSetTheorems,
        WellFoundedInduction, TLAPS

RowType == [Runs -> [status : Statuses, completed : BOOLEAN]]

-----------------------------------------------------------------------------
(* What a push, a pop and an LREM of one copy do to the type and the       *)
(* elements of a list.                                                     *)

\* A nonempty set of naturals has a minimum, so Min(S) is a member of S.
LEMMA MinIsMember ==
    ASSUME NEW S \in SUBSET Nat, S # {}
    PROVE  Min(S) \in S
<1>1. PICK x \in S : \A y \in S : ~(<<y, x>> \in OpToRel(<, Nat))
    BY NatLessThanWellFounded, WFMin
<1>2. \A y \in S : x =< y
    <2>1. ASSUME NEW y \in S, ~(x =< y) PROVE FALSE
        <3>1. y < x /\ x \in Nat /\ y \in Nat
            BY <2>1
        <3>2. <<y, x>> \in OpToRel(<, Nat)
            BY <3>1 DEF OpToRel
        <3> QED BY <1>1, <3>2
    <2> QED BY <2>1
<1> QED BY <1>2 DEF Min

\* LPUSH keeps the list well formed and adds exactly the pushed element.
LEMMA ConsFacts ==
    ASSUME NEW S, NEW s \in Seq(S), NEW e \in S
    PROVE  /\ Cons(e, s) \in Seq(S)
           /\ ToSet(Cons(e, s)) = {e} \cup ToSet(s)
<1>1. Cons(e, s) \in Seq(S) /\ Len(Cons(e, s)) = Len(s) + 1
    BY DEF Cons
<1>2. Cons(e, s)[1] = e /\ \A i \in 1..Len(s) : Cons(e, s)[i + 1] = s[i]
    BY DEF Cons
<1>3. ASSUME NEW x \in ToSet(Cons(e, s)) PROVE x \in {e} \cup ToSet(s)
    <2>1. PICK i \in 1..(Len(s) + 1) : x = Cons(e, s)[i]
        BY <1>1 DEF ToSet
    <2>2. CASE i = 1
        BY <2>1, <2>2, <1>2
    <2>3. CASE i # 1
        <3>1. i - 1 \in 1..Len(s) /\ (i - 1) + 1 = i
            BY <2>3
        <3>2. x = s[i - 1]
            BY <1>2, <2>1, <3>1
        <3> QED BY <3>1, <3>2 DEF ToSet
    <2> QED BY <2>2, <2>3
<1>4. ASSUME NEW x \in ToSet(s) PROVE x \in ToSet(Cons(e, s))
    <2>1. PICK i \in 1..Len(s) : x = s[i]
        BY DEF ToSet
    <2>2. i + 1 \in 1..Len(Cons(e, s)) /\ Cons(e, s)[i + 1] = x
        BY <1>1, <1>2, <2>1
    <2> QED BY <1>1, <2>2 DEF ToSet
<1>5. e \in ToSet(Cons(e, s))
    <2>1. 1 \in 1..Len(Cons(e, s))
        BY <1>1
    <2> QED BY <1>1, <1>2, <2>1 DEF ToSet
<1> QED BY <1>1, <1>3, <1>4, <1>5

\* RPOP keeps the positions before the last, in order.
LEMMA FrontElements ==
    ASSUME NEW S, NEW s \in Seq(S), s # <<>>
    PROVE  /\ Front(s) \in Seq(S) /\ Len(Front(s)) = Len(s) - 1
           /\ \A i \in 1..(Len(s) - 1) : Front(s)[i] = s[i]
<1> DEFINE n == Len(s) - 1
<1>1. Len(s) \in Nat /\ Len(s) > 0 /\ Len(s) \in 1..Len(s) /\ n \in Nat
    OBVIOUS
<1>2. Front(s) \in Seq(S) /\ Len(Front(s)) = n
    <2>1. \A i \in 1..n : s[i] \in S
        BY <1>1
    <2> HIDE DEF n
    <2>2. PICK t : t = SubSeq(s, 1, n)
        OBVIOUS
    <2>3. t \in Seq(S) /\ Len(t) = IF 1 =< n THEN n - 1 + 1 ELSE 0
        BY <1>1, <2>1, <2>2, SubSeqProperties
    <2>4. Len(t) = n
        BY <1>1, <2>3
    <2>5. Front(s) = t
        BY <2>2 DEF Front, n
    <2> QED BY <2>3, <2>4, <2>5
<1>3. \A i \in 1..n : Front(s)[i] = s[i]
    BY <1>1 DEF Front
<1> QED BY <1>2, <1>3

\* RPOP takes the last element and leaves every other one.
LEMMA FrontLastFacts ==
    ASSUME NEW S, NEW s \in Seq(S), s # <<>>
    PROVE  /\ Front(s) \in Seq(S)
           /\ Last(s) \in S
           /\ ToSet(s) = ToSet(Front(s)) \cup {Last(s)}
<1>1. Len(s) \in Nat /\ Len(s) > 0 /\ Len(s) \in 1..Len(s)
    OBVIOUS
<1>2. Front(s) \in Seq(S) /\ Len(Front(s)) = Len(s) - 1
    BY FrontElements
<1>3. \A i \in 1..(Len(s) - 1) : Front(s)[i] = s[i]
    BY FrontElements
<1>4. Last(s) \in S
    BY <1>1 DEF Last
<1>5. ASSUME NEW x \in ToSet(s) PROVE x \in ToSet(Front(s)) \cup {Last(s)}
    <2>1. PICK i \in 1..Len(s) : x = s[i]
        BY DEF ToSet
    <2>2. CASE i = Len(s)
        BY <2>1, <2>2 DEF Last
    <2>3. CASE i # Len(s)
        <3>1. i \in 1..Len(Front(s)) /\ Front(s)[i] = x
            BY <1>1, <1>2, <1>3, <2>1, <2>3
        <3> QED BY <1>2, <3>1 DEF ToSet
    <2> QED BY <2>2, <2>3
<1>6. ASSUME NEW x \in ToSet(Front(s)) PROVE x \in ToSet(s)
    <2>1. PICK i \in 1..(Len(s) - 1) : x = Front(s)[i]
        BY <1>2 DEF ToSet
    <2>2. i \in 1..Len(s) /\ x = s[i]
        BY <1>1, <1>3, <2>1
    <2> QED BY <2>2 DEF ToSet
<1>7. Last(s) \in ToSet(s)
    BY <1>1 DEF Last, ToSet
<1> QED BY <1>2, <1>4, <1>5, <1>6, <1>7

\* Removing position k keeps the other positions, in order.
LEMMA RemoveAtFacts ==
    ASSUME NEW S, NEW s \in Seq(S), NEW k \in 1..Len(s)
    PROVE  /\ RemoveAt(s, k) \in Seq(S)
           /\ Len(RemoveAt(s, k)) = Len(s) - 1
           /\ \A i \in 1..(k - 1) : RemoveAt(s, k)[i] = s[i]
           /\ \A i \in k..(Len(s) - 1) : RemoveAt(s, k)[i] = s[i + 1]
<1>1. ASSUME NEW m \in Int, NEW n \in Int, m >= 1, n =< Len(s)
      PROVE  /\ SubSeq(s, m, n) \in Seq(S)
             /\ Len(SubSeq(s, m, n)) = IF m =< n THEN n - m + 1 ELSE 0
             /\ \A i \in 1..(n - m + 1) : SubSeq(s, m, n)[i] = s[m + i - 1]
    <2>1. \A i \in m..n : s[i] \in S
        BY <1>1
    <2> QED BY <2>1, SubSeqProperties
<1>2. PICK a : a = SubSeq(s, 1, k - 1)
    OBVIOUS
<1>3. PICK b : b = SubSeq(s, k + 1, Len(s))
    OBVIOUS
<1>4. /\ a \in Seq(S) /\ Len(a) = k - 1
      /\ \A i \in 1..(k - 1) : a[i] = s[i]
    BY <1>1, <1>2
<1>5. /\ b \in Seq(S) /\ Len(b) = Len(s) - k
      /\ \A i \in 1..(Len(s) - k) : b[i] = s[k + i]
    BY <1>1, <1>3
<1>6. /\ a \o b \in Seq(S)
      /\ Len(a \o b) = Len(s) - 1
      /\ \A i \in 1..(Len(s) - 1) :
            (a \o b)[i] = IF i =< k - 1 THEN a[i] ELSE b[i - (k - 1)]
    BY <1>4, <1>5, ConcatProperties
<1>7. RemoveAt(s, k) = a \o b
    BY <1>2, <1>3 DEF RemoveAt
<1>8. \A i \in 1..(k - 1) : (a \o b)[i] = s[i]
    BY <1>4, <1>6
<1>9. ASSUME NEW i \in k..(Len(s) - 1) PROVE (a \o b)[i] = s[i + 1]
    <2>1. (a \o b)[i] = b[i - (k - 1)]
        BY <1>6
    <2>2. i - (k - 1) \in 1..(Len(s) - k) /\ k + (i - (k - 1)) = i + 1
        OBVIOUS
    <2> QED BY <1>5, <2>1, <2>2
<1> QED BY <1>6, <1>7, <1>8, <1>9

\* LREM of one copy of e keeps the list well formed, adds nothing, and keeps
\* every element other than e.
LEMMA RemoveFirstFacts ==
    ASSUME NEW S, NEW s \in Seq(S), NEW e
    PROVE  /\ RemoveFirst(s, e) \in Seq(S)
           /\ ToSet(RemoveFirst(s, e)) \subseteq ToSet(s)
           /\ ToSet(s) \subseteq ToSet(RemoveFirst(s, e)) \cup {e}
<1> DEFINE I == {i \in 1..Len(s) : s[i] = e}
<1>1. CASE I = {}
    <2>1. RemoveFirst(s, e) = s
        BY <1>1 DEF RemoveFirst
    <2> QED BY <2>1
<1>2. CASE I # {}
    <2>1. I \in SUBSET Nat
        OBVIOUS
    <2>2. Min(I) \in I
        BY <1>2, <2>1, MinIsMember
    <2>3. RemoveFirst(s, e) = RemoveAt(s, Min(I))
        BY <1>2 DEF RemoveFirst, SelectInSeq
    <2>4. PICK k \in 1..Len(s) : s[k] = e /\ RemoveFirst(s, e) = RemoveAt(s, k)
        BY <2>2, <2>3
    <2>5. PICK t : t = RemoveFirst(s, e)
        OBVIOUS
    <2>6. /\ t \in Seq(S) /\ Len(t) = Len(s) - 1
          /\ \A i \in 1..(k - 1) : t[i] = s[i]
          /\ \A i \in k..(Len(s) - 1) : t[i] = s[i + 1]
        BY <2>4, <2>5, RemoveAtFacts
    <2>7. ASSUME NEW x \in ToSet(t) PROVE x \in ToSet(s)
        <3>1. PICK i \in 1..(Len(s) - 1) : x = t[i]
            BY <2>6 DEF ToSet
        <3>2. (i \in 1..Len(s) /\ x = s[i]) \/ (i + 1 \in 1..Len(s) /\ x = s[i + 1])
            BY <2>6, <3>1
        <3> QED BY <3>2 DEF ToSet
    <2>8. ASSUME NEW x \in ToSet(s), x # e PROVE x \in ToSet(t)
        <3>1. PICK i \in 1..Len(s) : x = s[i]
            BY DEF ToSet
        <3>2. i # k
            BY <2>4, <2>8, <3>1
        <3>3. CASE i < k
            <4>1. i \in 1..Len(t) /\ t[i] = x
                BY <2>6, <3>1, <3>3
            <4> QED BY <2>6, <4>1 DEF ToSet
        <3>4. CASE i > k
            <4>1. i - 1 \in k..(Len(s) - 1) /\ (i - 1) + 1 = i
                BY <3>4
            <4>2. t[i - 1] = x
                BY <2>6, <3>1, <4>1
            <4>3. i - 1 \in 1..Len(t)
                BY <2>6, <4>1
            <4> QED BY <2>6, <4>2, <4>3 DEF ToSet
        <3> QED BY <3>2, <3>3, <3>4
    <2> QED BY <2>5, <2>6, <2>7, <2>8
<1> QED BY <1>1, <1>2

-----------------------------------------------------------------------------
(* The Redis lists.                                                        *)

\* A push and an LREM keep a list well formed.
LEMMA ListTypes ==
    ASSUME NEW q \in Seq(Runs), NEW r \in Runs
    PROVE  LPush(q, r) \in Seq(Runs) /\ LRem(q, r) \in Seq(Runs)
BY ConsFacts, RemoveFirstFacts DEF LPush, LRem

\* RPOPLPUSH keeps both lists well formed and no message appears or vanishes;
\* the claimed message is a run and is in the processing list.
LEMMA MoveToProcessingFacts ==
    ASSUME ready \in Seq(Runs), processing \in Seq(Runs), MoveToProcessing
    PROVE  /\ ready' \in Seq(Runs) /\ processing' \in Seq(Runs)
           /\ Last(ready) \in Runs
           /\ Queued' = Queued
           /\ Last(ready) \in ToSet(ready)
           /\ ToSet(processing') = ToSet(processing) \cup {Last(ready)}
<1>1. /\ Front(ready) \in Seq(Runs) /\ Last(ready) \in Runs
      /\ ToSet(ready) = ToSet(Front(ready)) \cup {Last(ready)}
    BY FrontLastFacts DEF MoveToProcessing
<1>2. /\ LPush(processing, Last(ready)) \in Seq(Runs)
      /\ ToSet(LPush(processing, Last(ready))) = {Last(ready)} \cup ToSet(processing)
    BY <1>1, ConsFacts DEF LPush
<1> QED BY <1>1, <1>2 DEF MoveToProcessing, Queued

LEMMA MoveToReadyFacts ==
    ASSUME ready \in Seq(Runs), processing \in Seq(Runs), MoveToReady
    PROVE  /\ ready' \in Seq(Runs) /\ processing' \in Seq(Runs)
           /\ Queued' = Queued
<1>1. /\ Front(processing) \in Seq(Runs) /\ Last(processing) \in Runs
      /\ ToSet(processing) = ToSet(Front(processing)) \cup {Last(processing)}
    BY FrontLastFacts DEF MoveToReady
<1>2. /\ LPush(ready, Last(processing)) \in Seq(Runs)
      /\ ToSet(LPush(ready, Last(processing))) = {Last(processing)} \cup ToSet(ready)
    BY <1>1, ConsFacts DEF LPush
<1> QED BY <1>1, <1>2 DEF MoveToReady, Queued

-----------------------------------------------------------------------------
(* The run store.                                                          *)

\* A transition touches one row, sets its status, and marks it completed when
\* the status is terminal.
LEMMA TransitionFacts ==
    ASSUME row \in RowType, NEW r \in Runs, NEW st \in Statuses
    PROVE  /\ Transition(r, st) \in RowType
           /\ Transition(r, st)[r].status = st
           /\ Transition(r, st)[r].completed = (row[r].completed \/ st \in Terminal)
           /\ \A x \in Runs : x # r => Transition(r, st)[x] = row[x]
BY DEF RowType, Transition

\* What a report may do to the store, whatever its caller sees.
StoreStep(r, st) ==
    /\ row' = row \/ (Exists(r) /\ row' = Transition(r, st))
    /\ events' = events \/ (st \in Terminal /\ events' = events \cup {<<r, st>>})

\* Every outcome of a report, answered or not, is such a step.
LEMMA ReportIsStoreStep ==
    ASSUME NEW r \in Runs, NEW st \in Statuses,
           \/ ReportApplied(r, st)
           \/ ReportRefusedEffect(r, st)
           \/ ReportErrorEffect(r, st)
    PROVE  StoreStep(r, st)
BY DEF StoreStep, ReportApplied, ReportRefusedEffect, ReportErrorEffect, storeVars

\* A report keeps the store well formed.
LEMMA StoreStepType ==
    ASSUME row \in RowType, events \in SUBSET (Runs \X Terminal),
           NEW r \in Runs, NEW st \in Statuses, StoreStep(r, st)
    PROVE  row' \in RowType /\ events' \in SUBSET (Runs \X Terminal)
BY TransitionFacts DEF StoreStep

-----------------------------------------------------------------------------
(* Type correctness.                                                       *)

\* A worker in the middle of a turn holds a run.
LEMMA HoldsRun ==
    ASSUME TypeOK, NEW w \in Workers,
           pc[w] \notin {"down", "recovering", "polling"}
    PROVE  msg[w] \in Runs
BY DEF TypeOK

\* Leaving the error handler empties the worker's hands.
LEMMA LeaveHandlerType ==
    ASSUME TypeOK, NEW w \in Workers, LeaveHandler(w)
    PROVE  /\ pc' \in [Workers -> PcStates] /\ msg' \in [Workers -> Runs \cup {NoRun}]
           /\ \A v \in Workers :
                 (msg'[v] # NoRun) <=> (pc'[v] \notin {"down", "recovering", "polling"})
           /\ heartbeat' \in BOOLEAN
<1>1. heartbeat' \in BOOLEAN
    BY DEF LeaveHandler, TypeOK
<1>2. \E l \in {"down", "polling"} : pc' = [pc EXCEPT ![w] = l]
    BY DEF LeaveHandler, Goto
<1>3. msg' = [msg EXCEPT ![w] = NoRun]
    BY DEF LeaveHandler
<1> QED BY <1>1, <1>2, <1>3 DEF TypeOK, PcStates

LEMMA TypeInit == Init => TypeOK
<1> SUFFICES ASSUME Init PROVE TypeOK
    OBVIOUS
<1> USE ConstantsAssumption
<1>1. /\ row \in [Runs -> [status : Statuses, completed : BOOLEAN]]
      /\ events \in SUBSET (Runs \X Terminal) /\ executed \in SUBSET Runs
      /\ req \in [Runs -> ReqStates]
    BY DEF Init, Statuses, ReqStates
<1>2. ready \in Seq(Runs) /\ processing \in Seq(Runs)
    BY DEF Init
<1>3. /\ pc \in [Workers -> PcStates] /\ msg \in [Workers -> Runs \cup {NoRun}]
      /\ fatal \in [Workers -> BOOLEAN] /\ heartbeat \in BOOLEAN
      /\ \A w \in Workers :
            (msg[w] # NoRun) <=> (pc[w] \notin {"down", "recovering", "polling"})
    BY DEF Init, PcStates
<1>4. crashes \in 0..MaxCrashes /\ faults \in 0..MaxFaults
    BY DEF Init
<1> QED BY <1>1, <1>2, <1>3, <1>4 DEF TypeOK

LEMMA TypeStep == TypeOK /\ [Next]_vars => TypeOK'
<1> SUFFICES ASSUME TypeOK, [Next]_vars PROVE TypeOK'
    OBVIOUS
<1> USE ConstantsAssumption
<1>r. /\ row \in RowType /\ events \in SUBSET (Runs \X Terminal)
      /\ {"pending", "running", "failed"} \subseteq Statuses
      /\ Active \cup Terminal \subseteq Statuses
    BY DEF TypeOK, RowType, Statuses, Active, Terminal
<1>u. CASE UNCHANGED vars
    BY <1>u DEF TypeOK, vars
<1>1. ASSUME NEW r \in Runs, CheckHeartbeat(r) PROVE TypeOK'
    BY <1>1 DEF TypeOK, CheckHeartbeat, ReqStates
<1>2. ASSUME NEW r \in Runs, CreateRun(r) PROVE TypeOK'
    <2>1. row' \in RowType
        BY <1>2, <1>r, TransitionFacts DEF CreateRun
    <2>2. req' \in [Runs -> ReqStates]
        BY <1>2 DEF TypeOK, CreateRun, ReqStates
    <2> QED BY <1>2, <2>1, <2>2 DEF TypeOK, CreateRun, RowType
<1>2a. ASSUME NEW r \in Runs, CreateRunRaises(r) PROVE TypeOK'
    <2>1. row' \in RowType
        BY <1>2a, <1>r, TransitionFacts DEF CreateRunRaises
    <2>2. req' \in [Runs -> ReqStates]
        BY <1>2a DEF TypeOK, CreateRunRaises, ReqStates
    <2>3. faults' \in 0..MaxFaults
        BY <1>2a DEF TypeOK, CreateRunRaises, Fault
    <2> QED BY <1>2a, <2>1, <2>2, <2>3 DEF TypeOK, CreateRunRaises, RowType
<1>3. ASSUME NEW r \in Runs, Push(r) PROVE TypeOK'
    BY <1>3, ListTypes DEF TypeOK, Push, ReqStates
<1>4. ASSUME NEW r \in Runs, PushRaises(r) PROVE TypeOK'
    <2>1. ready' \in Seq(Runs)
        <3>1. ready' = ready \/ ready' = LPush(ready, r)
            BY <1>4 DEF PushRaises
        <3>2. ready \in Seq(Runs) /\ LPush(ready, r) \in Seq(Runs)
            BY ListTypes DEF TypeOK
        <3> QED BY <3>1, <3>2
    <2>2. req' \in [Runs -> ReqStates]
        BY <1>4 DEF TypeOK, PushRaises, ReqStates
    <2> QED BY <1>4, <2>1, <2>2 DEF TypeOK, PushRaises, Fault
<1>5. ASSUME NEW r \in Runs, MarkEnqueueFailed(r) PROVE TypeOK'
    <2>1. row' \in RowType
        BY <1>5, <1>r, TransitionFacts DEF MarkEnqueueFailed
    <2> QED BY <1>5, <2>1 DEF TypeOK, MarkEnqueueFailed, RowType, ReqStates
<1>6. ASSUME NEW r \in Runs, StartSuiteRun(r) PROVE TypeOK'
    <2>1. row' \in RowType
        BY <1>6, <1>r, TransitionFacts DEF StartSuiteRun
    <2> QED BY <1>6, <2>1 DEF TypeOK, StartSuiteRun, RowType, ReqStates
<1>7. ASSUME NEW r \in Runs, Purge(r) PROVE TypeOK'
    BY <1>7 DEF TypeOK, Purge, Statuses
<1>8. ASSUME NEW r \in Runs, NEW st \in Active \cup Terminal, ExternalReport(r, st)
      PROVE  TypeOK'
    <2>1. StoreStep(r, st)
        BY <1>8, <1>r, ReportIsStoreStep DEF ExternalReport
    <2>2. row' \in RowType /\ events' \in SUBSET (Runs \X Terminal)
        BY <1>r, <2>1, StoreStepType
    <2> QED BY <1>8, <2>2 DEF TypeOK, ExternalReport, RowType
<1>9. ASSUME ApiCrash PROVE TypeOK'
    BY <1>9 DEF TypeOK, ApiCrash, ReqStates
<1>10. ASSUME NEW w \in Workers, StartWorker(w) PROVE TypeOK'
    BY <1>10 DEF TypeOK, StartWorker, Goto, PcStates
<1>11. ASSUME NEW w \in Workers, Recover(w) PROVE TypeOK'
    <2>1. ready' \in Seq(Runs) /\ processing' \in Seq(Runs)
        BY <1>11, MoveToReadyFacts DEF TypeOK, Recover, queueVars
    <2> QED BY <1>11, <2>1 DEF TypeOK, Recover, Goto, PcStates
<1>12. ASSUME NEW w \in Workers, RecoveryFails(w) PROVE TypeOK'
    <2>1. ready' \in Seq(Runs) /\ processing' \in Seq(Runs)
        BY <1>12, MoveToReadyFacts DEF TypeOK, RecoveryFails, queueVars
    <2> QED BY <1>12, <2>1 DEF TypeOK, RecoveryFails, Goto, PcStates, Fault
<1>13. ASSUME NEW w \in Workers, Claim(w) PROVE TypeOK'
    <2>1. ready' \in Seq(Runs) /\ processing' \in Seq(Runs) /\ Last(ready) \in Runs
        BY <1>13, MoveToProcessingFacts DEF TypeOK, Claim
    <2> QED BY <1>13, <2>1 DEF TypeOK, Claim, Goto, PcStates
<1>14. ASSUME NEW w \in Workers, ClaimReplyLost(w) PROVE TypeOK'
    <2>1. ready' \in Seq(Runs) /\ processing' \in Seq(Runs)
        BY <1>14, MoveToProcessingFacts DEF TypeOK, ClaimReplyLost
    <2> QED BY <1>14, <2>1 DEF TypeOK, ClaimReplyLost, Fault
<1>15. ASSUME NEW w \in Workers, ReportProgress(w) PROVE TypeOK'
    <2>1. msg[w] \in Runs
        BY <1>15, HoldsRun DEF ReportProgress
    <2>2. StoreStep(msg[w], "running")
        BY <1>15, <1>r, <2>1, ReportIsStoreStep DEF ReportProgress
    <2>3. row' \in RowType /\ events' \in SUBSET (Runs \X Terminal)
        BY <1>r, <2>1, <2>2, StoreStepType
    <2> QED BY <1>15, <2>3 DEF TypeOK, ReportProgress, RowType, Goto, PcStates
<1>16. ASSUME NEW w \in Workers, ProgressRaises(w) PROVE TypeOK'
    <2>1. msg[w] \in Runs
        BY <1>16, HoldsRun DEF ProgressRaises
    <2>2. (row' = row /\ events' = events) \/ StoreStep(msg[w], "running")
        BY <1>16, <1>r, <2>1, ReportIsStoreStep DEF ProgressRaises
    <2>3. row' \in RowType /\ events' \in SUBSET (Runs \X Terminal)
        BY <1>r, <2>1, <2>2, StoreStepType
    <2>4. faults' \in 0..MaxFaults
        BY <1>16 DEF TypeOK, ProgressRaises, Fault
    <2> QED BY <1>16, <2>3, <2>4 DEF TypeOK, ProgressRaises, RowType, Goto, PcStates
<1>17. ASSUME NEW w \in Workers, NEW f \in BOOLEAN, ExecutionRaises(w, f)
       PROVE  TypeOK'
    BY <1>17 DEF TypeOK, ExecutionRaises, Goto, PcStates
<1>18. ASSUME NEW w \in Workers, Finish(w) PROVE TypeOK'
    <2>1. msg[w] \in Runs
        BY <1>18, HoldsRun DEF Finish
    <2> QED BY <1>18, <2>1 DEF TypeOK, Finish, Goto, PcStates
<1>19. ASSUME NEW w \in Workers, Ack(w) PROVE TypeOK'
    <2>1. msg[w] \in Runs
        BY <1>19, HoldsRun DEF Ack
    <2>2. processing' \in Seq(Runs)
        BY <1>19, <2>1, ListTypes DEF TypeOK, Ack
    <2> QED BY <1>19, <2>2 DEF TypeOK, Ack, Goto, PcStates
<1>20. ASSUME NEW w \in Workers, AckRaises(w) PROVE TypeOK'
    <2>1. msg[w] \in Runs
        BY <1>20, HoldsRun DEF AckRaises
    <2>2. processing' \in Seq(Runs)
        <3>1. processing' = processing \/ processing' = LRem(processing, msg[w])
            BY <1>20 DEF AckRaises
        <3>2. processing \in Seq(Runs) /\ LRem(processing, msg[w]) \in Seq(Runs)
            BY <2>1, ListTypes DEF TypeOK
        <3> QED BY <3>1, <3>2
    <2> QED BY <1>20, <2>2 DEF TypeOK, AckRaises, Goto, PcStates, Fault
<1>21. ASSUME NEW w \in Workers, ReportFailure(w) PROVE TypeOK'
    <2>1. msg[w] \in Runs
        BY <1>21, HoldsRun DEF ReportFailure
    <2>2. StoreStep(msg[w], "failed")
        BY <1>21, <1>r, <2>1, ReportIsStoreStep DEF ReportFailure
    <2>3. row' \in RowType /\ events' \in SUBSET (Runs \X Terminal)
        BY <1>r, <2>1, <2>2, StoreStepType
    <2> QED BY <1>21, <2>3 DEF TypeOK, ReportFailure, RowType, Goto, PcStates
<1>22. ASSUME NEW w \in Workers, ReportFailureRaises(w) PROVE TypeOK'
    <2>1. msg[w] \in Runs
        BY <1>22, HoldsRun DEF ReportFailureRaises
    <2>2. StoreStep(msg[w], "failed")
        BY <1>22, <1>r, <2>1, ReportIsStoreStep DEF ReportFailureRaises
    <2>3. row' \in RowType /\ events' \in SUBSET (Runs \X Terminal)
        BY <1>r, <2>1, <2>2, StoreStepType
    <2>4. faults' \in 0..MaxFaults
        BY <1>22 DEF TypeOK, ReportFailureRaises, Fault
    <2> QED BY <1>22, <2>3, <2>4, LeaveHandlerType
            DEF TypeOK, ReportFailureRaises, RowType
<1>23. ASSUME NEW w \in Workers, Cleanup(w) PROVE TypeOK'
    <2>1. msg[w] \in Runs
        BY <1>23, HoldsRun DEF Cleanup
    <2>2. processing' \in Seq(Runs)
        BY <1>23, <2>1, ListTypes DEF TypeOK, Cleanup
    <2> QED BY <1>23, <2>2, LeaveHandlerType DEF TypeOK, Cleanup
<1>24. ASSUME NEW w \in Workers, CleanupRaises(w) PROVE TypeOK'
    <2>1. msg[w] \in Runs
        BY <1>24, HoldsRun DEF CleanupRaises
    <2>2. processing' \in Seq(Runs)
        <3>1. processing' = processing \/ processing' = LRem(processing, msg[w])
            BY <1>24 DEF CleanupRaises
        <3>2. processing \in Seq(Runs) /\ LRem(processing, msg[w]) \in Seq(Runs)
            BY <2>1, ListTypes DEF TypeOK
        <3> QED BY <3>1, <3>2
    <2>3. faults' \in 0..MaxFaults
        BY <1>24 DEF TypeOK, CleanupRaises, Fault
    <2> QED BY <1>24, <2>2, <2>3, LeaveHandlerType DEF TypeOK, CleanupRaises
<1>25. ASSUME NEW w \in Workers, Crash(w) PROVE TypeOK'
    <2>1. heartbeat' \in BOOLEAN
        BY <1>25 DEF TypeOK, Crash
    <2>2. crashes' \in 0..MaxCrashes
        BY <1>25 DEF TypeOK, Crash
    <2> QED BY <1>25, <2>1, <2>2 DEF TypeOK, Crash, Goto, PcStates
<1>26. ASSUME NEW w \in Workers, WriteHeartbeat(w) PROVE TypeOK'
    BY <1>26 DEF TypeOK, WriteHeartbeat
<1>27. ASSUME HeartbeatExpires PROVE TypeOK'
    <2>1. faults' \in 0..MaxFaults
        BY <1>27 DEF TypeOK, HeartbeatExpires, Fault
    <2> QED BY <1>27, <2>1 DEF TypeOK, HeartbeatExpires
<1> QED BY <1>u, <1>1, <1>2, <1>2a, <1>3, <1>4, <1>5, <1>6, <1>7, <1>8, <1>9, <1>10,
           <1>11, <1>12, <1>13, <1>14, <1>15, <1>16, <1>17, <1>18, <1>19,
           <1>20, <1>21, <1>22, <1>23, <1>24, <1>25, <1>26, <1>27
        DEF Next, ApiNext, WorkerNext

\* Every reachable state is well typed, and a worker holds a message exactly
\* between its claim and the end of the turn.
THEOREM TypeCorrect == Spec => []TypeOK
BY TypeInit, TypeStep, PTL DEF Spec

-----------------------------------------------------------------------------
(* One fresh run per plan or suite.  OneFreshRunPerObject alone is not     *)
(* inductive: a redelivered message may reopen any terminal run, and the   *)
(* property survives only because such a run is marked completed.          *)

\* A run whose status is terminal has completed_at set.
TerminalIsCompleted ==
    \A r \in Runs : row[r].status \in Terminal => row[r].completed

FreshInv == TypeOK /\ TerminalIsCompleted /\ OneFreshRunPerObject

\* Each of two competing dispatches finds the other in its conflict check.
LEMMA CompeteConflict ==
    ASSUME NEW r \in Runs, NEW s \in Runs, Compete(r, s) \/ Compete(s, r), IsActive(s)
    PROVE  Conflict(r)
BY DEF Compete, Conflict

\* No report makes a fresh run active: it was active already, or is completed.
LEMMA FreshReport ==
    ASSUME FreshInv, NEW r \in Runs, NEW st \in Statuses, st # "absent",
           row' = row \/ (Exists(r) /\ row' = Transition(r, st))
    PROVE  TerminalIsCompleted' /\ OneFreshRunPerObject'
<1>1. row \in RowType
    BY DEF FreshInv, TypeOK, RowType
<1>2. CASE row' = row
    BY <1>2 DEF FreshInv, TerminalIsCompleted, OneFreshRunPerObject, IsActive
<1>3. CASE Exists(r) /\ row' = Transition(r, st)
    <2>1. /\ row'[r].status = st
          /\ row'[r].completed = (row[r].completed \/ st \in Terminal)
          /\ \A x \in Runs : x # r => row'[x] = row[x]
        BY <1>1, <1>3, TransitionFacts
    <2>2. TerminalIsCompleted'
        BY <2>1 DEF FreshInv, TerminalIsCompleted
    <2>3. IsActive(r) \/ row[r].completed
        BY <1>1, <1>3 DEF FreshInv, TerminalIsCompleted, Exists, IsActive, RowType, Statuses
    <2>4. \A x \in Runs : IsActive(x)' => IsActive(x) \/ row'[x].completed
        BY <2>1, <2>3 DEF IsActive
    <2>5. \A x \in Runs : row[x].completed => row'[x].completed
        BY <2>1
    <2> QED BY <2>2, <2>4, <2>5 DEF FreshInv, OneFreshRunPerObject
<1> QED BY <1>2, <1>3

LEMMA FreshInit == Init => FreshInv
<1> SUFFICES ASSUME Init PROVE FreshInv
    OBVIOUS
<1>1. \A r \in Runs : row[r].status = "absent"
    BY DEF Init
<1> QED BY <1>1, TypeInit
        DEF FreshInv, TerminalIsCompleted, OneFreshRunPerObject, IsActive, Active, Terminal

LEMMA FreshStep == FreshInv /\ [Next]_vars => FreshInv'
<1> SUFFICES ASSUME FreshInv, [Next]_vars
             PROVE  TerminalIsCompleted' /\ OneFreshRunPerObject'
    BY TypeStep DEF FreshInv
<1>t. /\ row \in RowType /\ "failed" \in Statuses /\ "running" \in Statuses
      /\ "pending" \in Statuses /\ "pending" \notin Terminal /\ "absent" \notin Active \cup Terminal
      /\ Active \cup Terminal \subseteq Statuses
    BY DEF FreshInv, TypeOK, RowType, Statuses, Active, Terminal
<1>s. ASSUME row' = row PROVE TerminalIsCompleted' /\ OneFreshRunPerObject'
    BY <1>s DEF FreshInv, TerminalIsCompleted, OneFreshRunPerObject, IsActive
<1>m. ASSUME NEW w \in Workers, pc[w] \notin {"down", "recovering", "polling"}
      PROVE  msg[w] \in Runs
    BY <1>m, HoldsRun DEF FreshInv
<1>1. ASSUME NEW r \in Runs, CreateRun(r) \/ CreateRunRaises(r)
      PROVE  TerminalIsCompleted' /\ OneFreshRunPerObject'
    <2>1. row' = row \/ (~Conflict(r) /\ row' = Transition(r, "pending"))
        BY <1>1 DEF CreateRun, CreateRunRaises
    <2>2. CASE ~Conflict(r) /\ row' = Transition(r, "pending")
        <3>1. /\ row'[r].status = "pending"
              /\ \A x \in Runs : x # r => row'[x] = row[x]
            BY <1>t, <2>2, TransitionFacts
        <3>2. TerminalIsCompleted'
            BY <1>t, <3>1 DEF FreshInv, TerminalIsCompleted
        <3>3. \A s \in Runs : Compete(r, s) \/ Compete(s, r) => ~IsActive(s)
            BY <2>2, CompeteConflict
        <3> QED BY <3>1, <3>2, <3>3 DEF FreshInv, OneFreshRunPerObject, IsActive, Compete
    <2> QED BY <1>s, <2>1, <2>2
<1>2. ASSUME NEW r \in Runs, MarkEnqueueFailed(r)
      PROVE  TerminalIsCompleted' /\ OneFreshRunPerObject'
    <2>1. /\ row'[r].status = "failed" /\ row'[r].completed
          /\ \A x \in Runs : x # r => row'[x] = row[x]
        <3>1. row' = Transition(r, "failed") /\ "failed" \in Terminal
            BY <1>2 DEF MarkEnqueueFailed, Terminal
        <3> QED BY <1>t, <3>1, TransitionFacts
    <2> QED BY <2>1 DEF FreshInv, TerminalIsCompleted, OneFreshRunPerObject,
                        IsActive, Active
<1>3. ASSUME NEW r \in Runs, StartSuiteRun(r)
      PROVE  TerminalIsCompleted' /\ OneFreshRunPerObject'
    <2>1. /\ row'[r].status = "pending" /\ ~Dispatched(r)
          /\ \A x \in Runs : x # r => row'[x] = row[x]
        BY <1>3, <1>t, TransitionFacts DEF StartSuiteRun
    <2> QED BY <1>t, <2>1 DEF FreshInv, TerminalIsCompleted, OneFreshRunPerObject,
                        IsActive, Compete
<1>4. ASSUME NEW r \in Runs, Purge(r)
      PROVE  TerminalIsCompleted' /\ OneFreshRunPerObject'
    <2>1. /\ row'[r].status = "absent"
          /\ \A x \in Runs : x # r => row'[x] = row[x]
        BY <1>4, <1>t DEF Purge, RowType
    <2> QED BY <1>t, <2>1 DEF FreshInv, TerminalIsCompleted, OneFreshRunPerObject,
                        IsActive
<1>5. ASSUME NEW r \in Runs, NEW st \in Active \cup Terminal, ExternalReport(r, st)
      PROVE  TerminalIsCompleted' /\ OneFreshRunPerObject'
    <2>1. StoreStep(r, st)
        BY <1>5, <1>t, ReportIsStoreStep DEF ExternalReport
    <2> QED BY <1>t, <2>1, FreshReport DEF StoreStep
<1>6. ASSUME NEW w \in Workers,
             ReportProgress(w) \/ ProgressRaises(w)
      PROVE  TerminalIsCompleted' /\ OneFreshRunPerObject'
    <2>1. msg[w] \in Runs
        BY <1>6, <1>m DEF ReportProgress, ProgressRaises
    <2>2. row' = row \/ StoreStep(msg[w], "running")
        BY <1>6, <1>t, <2>1, ReportIsStoreStep DEF ReportProgress, ProgressRaises
    <2> QED BY <1>s, <1>t, <2>1, <2>2, FreshReport DEF StoreStep
<1>7. ASSUME NEW w \in Workers,
             ReportFailure(w) \/ ReportFailureRaises(w)
      PROVE  TerminalIsCompleted' /\ OneFreshRunPerObject'
    <2>1. msg[w] \in Runs
        BY <1>7, <1>m DEF ReportFailure, ReportFailureRaises
    <2>2. StoreStep(msg[w], "failed")
        BY <1>7, <1>t, <2>1, ReportIsStoreStep DEF ReportFailure, ReportFailureRaises
    <2> QED BY <1>t, <2>1, <2>2, FreshReport DEF StoreStep
<1>8. CASE UNCHANGED vars
    BY <1>8, <1>s DEF vars
<1>9. ASSUME NEW r \in Runs, CheckHeartbeat(r) \/ Push(r) \/ PushRaises(r)
      PROVE  row' = row
    BY <1>9 DEF CheckHeartbeat, Push, PushRaises
<1>10. ASSUME NEW w \in Workers, NEW f \in BOOLEAN,
              \/ StartWorker(w) \/ Recover(w) \/ RecoveryFails(w) \/ Claim(w)
              \/ ClaimReplyLost(w) \/ ExecutionRaises(w, f) \/ Finish(w)
              \/ Ack(w) \/ AckRaises(w) \/ Cleanup(w) \/ CleanupRaises(w)
              \/ Crash(w) \/ WriteHeartbeat(w)
       PROVE  row' = row
    BY <1>10 DEF StartWorker, Recover, RecoveryFails, Claim, ClaimReplyLost,
                 ExecutionRaises, Finish, Ack, AckRaises, Cleanup,
                 CleanupRaises, Crash, WriteHeartbeat
<1>11. ASSUME ApiCrash \/ HeartbeatExpires PROVE row' = row
    BY <1>11 DEF ApiCrash, HeartbeatExpires
<1> QED BY <1>s, <1>1, <1>2, <1>3, <1>4, <1>5, <1>6, <1>7, <1>8, <1>9, <1>10,
           <1>11
        DEF Next, ApiNext, WorkerNext

\* The 409 conflict check, made with no await before the insert, keeps one
\* fresh active run per plan or suite for any number of workers, crashes and
\* lost calls.
THEOREM OneFreshRun == Spec => []OneFreshRunPerObject
<1>1. FreshInv => OneFreshRunPerObject
    BY DEF FreshInv
<1> QED BY <1>1, FreshInit, FreshStep, PTL DEF Spec

-----------------------------------------------------------------------------
(* An accepted dispatch that is still pending is queued.  The invariant    *)
(* must know that a worker about to remove a message has moved the run out *)
(* of "pending", and that a message exists only once its row does, so that *)
(* nothing makes the run pending again.                                    *)

\* The run's row was created by a dispatch.
Created(r) == Dispatched(r) /\ req[r] \notin {"new", "admitted"}

\* A message in a list or in a worker's hands is that of a created run.
MessagesAreCreated ==
    /\ \A r \in Queued : Created(r)
    /\ \A w \in Workers : msg[w] # NoRun => Created(msg[w])

\* A run is no longer pending once its worker reported anything about it.
HandledIsNotPending ==
    \A w \in Workers :
        pc[w] \in {"working", "acking", "cleanup"} => row[msg[w]].status # "pending"

\* Only a dispatch goes through the steps between admission and answer.
RequestsAreDispatches ==
    \A r \in Runs :
        req[r] \in {"admitted", "created", "retrying", "marking"} => Dispatched(r)

PendingInv ==
    /\ TypeOK /\ RequestsAreDispatches
    /\ MessagesAreCreated /\ HandledIsNotPending /\ PendingRunIsQueued

LEMMA RequestStep ==
    ASSUME TypeOK, RequestsAreDispatches, [Next]_vars PROVE RequestsAreDispatches'
<1>1. CASE UNCHANGED req
    BY <1>1 DEF RequestsAreDispatches, Dispatched
<1>2. ASSUME NEW r \in Runs,
             \/ CheckHeartbeat(r) \/ CreateRun(r) \/ CreateRunRaises(r) \/ Push(r)
             \/ PushRaises(r) \/ MarkEnqueueFailed(r) \/ StartSuiteRun(r)
      PROVE  RequestsAreDispatches'
    BY <1>2 DEF TypeOK, RequestsAreDispatches, Dispatched, CheckHeartbeat, CreateRun,
                CreateRunRaises, Push, PushRaises, MarkEnqueueFailed, StartSuiteRun
<1>3. ASSUME ApiCrash PROVE RequestsAreDispatches'
    BY <1>3 DEF TypeOK, RequestsAreDispatches, Dispatched, ApiCrash
<1>4. ASSUME NEW r \in Runs, NEW st \in Active \cup Terminal,
             Purge(r) \/ ExternalReport(r, st)
      PROVE  UNCHANGED req
    BY <1>4 DEF Purge, ExternalReport
<1>5. ASSUME WorkerNext PROVE UNCHANGED req
    BY <1>5 DEF WorkerNext, StartWorker, Recover, RecoveryFails, Claim,
                ClaimReplyLost, ReportProgress, ProgressRaises, ExecutionRaises,
                Finish, Ack, AckRaises, ReportFailure, ReportFailureRaises,
                Cleanup, CleanupRaises, Crash, WriteHeartbeat, HeartbeatExpires
<1>6. CASE UNCHANGED vars
    BY <1>1, <1>6 DEF vars
<1>7. CASE ApiNext
    BY <1>1, <1>2, <1>3, <1>4, <1>7 DEF ApiNext, Active
<1> QED BY <1>1, <1>5, <1>6, <1>7 DEF Next

\* Three frame conditions, one per part of the invariant.
LEMMA CreatedFrame ==
    ASSUME TypeOK, MessagesAreCreated,
           \A r \in Queued' : r \in Queued \/ Created(r)',
           \A r \in Runs : Created(r) => Created(r)',
           \A w \in Workers : msg'[w] = NoRun \/ msg'[w] = msg[w] \/ msg'[w] \in Queued
    PROVE  MessagesAreCreated'
<1>1. Queued \subseteq Runs
    <2>1. ToSet(ready) \subseteq Runs /\ ToSet(processing) \subseteq Runs
        BY DEF TypeOK, ToSet
    <2> QED BY <2>1 DEF Queued
<1>2. \A r \in Queued' : Created(r)'
    BY <1>1 DEF MessagesAreCreated
<1>3. ASSUME NEW w \in Workers, msg'[w] # NoRun PROVE Created(msg[w])'
    <2>1. PICK r : r = msg'[w]
        OBVIOUS
    <2>2. r \in Runs /\ Created(r)
        BY <1>1, <1>3, <2>1 DEF MessagesAreCreated, TypeOK
    <2>3. Created(r)'
        BY <2>2
    <2> QED BY <2>1, <2>3 DEF Created
<1> QED BY <1>2, <1>3 DEF MessagesAreCreated, Created

LEMMA HandledFrame ==
    ASSUME HandledIsNotPending,
           \A w \in Workers : pc'[w] \in {"working", "acking", "cleanup"} =>
               \/ row'[msg'[w]].status # "pending"
               \/ /\ pc[w] \in {"working", "acking", "cleanup"} /\ msg'[w] = msg[w]
                  /\ row'[msg[w]].status = "pending" => row[msg[w]].status = "pending"
    PROVE  HandledIsNotPending'
BY DEF HandledIsNotPending

LEMMA PendingFrame ==
    ASSUME PendingRunIsQueued,
           \A r \in Runs :
               (Dispatched(r) /\ req'[r] = "accepted" /\ row'[r].status = "pending")
                   => \/ r \in Queued'
                      \/ /\ req[r] = "accepted" /\ row[r].status = "pending"
                         /\ r \in Queued => r \in Queued'
    PROVE  PendingRunIsQueued'
BY DEF PendingRunIsQueued

\* A report of any status but "pending" makes no run pending.
LEMMA ReportNotPending ==
    ASSUME TypeOK, NEW r \in Runs, NEW st \in Statuses \ {"pending"},
           row' = row \/ StoreStep(r, st)
    PROVE  \A x \in Runs : row'[x].status = "pending" => row[x].status = "pending"
<1>1. row \in RowType
    BY DEF TypeOK, RowType
<1> QED BY <1>1, TransitionFacts DEF StoreStep

\* LREM of a message loses no other one.
LEMMA RemoveKeepsOthers ==
    ASSUME TypeOK, NEW r, processing' = processing \/ processing' = LRem(processing, r),
           ready' = ready
    PROVE  Queued' \subseteq Queued /\ \A x \in Queued : x = r \/ x \in Queued'
<1>1. CASE processing' = processing
    BY <1>1 DEF Queued
<1>2. CASE processing' = LRem(processing, r)
    <2>1. /\ ToSet(processing') \subseteq ToSet(processing)
          /\ ToSet(processing) \subseteq ToSet(processing') \cup {r}
        BY <1>2, RemoveFirstFacts DEF TypeOK, LRem
    <2> QED BY <2>1 DEF Queued
<1> QED BY <1>1, <1>2

LEMMA PendingInit == Init => PendingInv
<1> SUFFICES ASSUME Init PROVE PendingInv
    OBVIOUS
<1>1. Queued = {}
    BY DEF Init, Queued, ToSet
<1>2. /\ \A w \in Workers : msg[w] = NoRun /\ pc[w] = "down"
      /\ \A r \in Runs : req[r] = "new"
    BY DEF Init
<1> QED BY <1>1, <1>2, TypeInit
        DEF PendingInv, RequestsAreDispatches, MessagesAreCreated,
            HandledIsNotPending, PendingRunIsQueued

LEMMA PendingStep == PendingInv /\ [Next]_vars => PendingInv'
<1> SUFFICES ASSUME PendingInv, [Next]_vars
             PROVE  MessagesAreCreated' /\ HandledIsNotPending' /\ PendingRunIsQueued'
    BY TypeStep, RequestStep DEF PendingInv
<1> DEFINE Goal == MessagesAreCreated' /\ HandledIsNotPending' /\ PendingRunIsQueued'
<1>t. /\ TypeOK /\ row \in RowType /\ RequestsAreDispatches
      /\ MessagesAreCreated /\ HandledIsNotPending /\ PendingRunIsQueued
      /\ {"pending", "failed", "running"} \subseteq Statuses
      /\ Active \cup Terminal \subseteq Statuses
    BY DEF PendingInv, TypeOK, RowType, Statuses, Active, Terminal
<1>m. ASSUME NEW w \in Workers, pc[w] \notin {"down", "recovering", "polling"}
      PROVE  msg[w] \in Runs /\ msg[w] # NoRun /\ Created(msg[w])
    BY <1>m, <1>t, HoldsRun DEF TypeOK, MessagesAreCreated
\* The API.
<1>1. ASSUME NEW r \in Runs, CheckHeartbeat(r) PROVE Goal
    <2>1. /\ UNCHANGED <<row, ready, processing, pc, msg>>
          /\ req[r] = "new" /\ req'[r] \in {"admitted", "rejected"}
          /\ \A x \in Runs : x # r => req'[x] = req[x]
        BY <1>1, <1>t DEF CheckHeartbeat, TypeOK
    <2>2. Queued' = Queued
        BY <2>1 DEF Queued
    <2>3. MessagesAreCreated'
        BY <1>t, <2>1, <2>2, CreatedFrame DEF Created
    <2>4. HandledIsNotPending'
        BY <1>t, <2>1, HandledFrame
    <2>5. PendingRunIsQueued'
        BY <1>t, <2>1, <2>2, PendingFrame
    <2> QED BY <2>3, <2>4, <2>5
<1>2. ASSUME NEW r \in Runs, CreateRun(r) \/ CreateRunRaises(r) PROVE Goal
    <2>1. /\ UNCHANGED <<ready, processing, pc, msg>>
          /\ req[r] = "admitted" /\ req'[r] \in {"rejected", "created", "failed"}
          /\ \A x \in Runs : x # r => req'[x] = req[x]
        BY <1>2, <1>t DEF CreateRun, CreateRunRaises, TypeOK
    <2>2. \A x \in Runs : x # r => row'[x] = row[x]
        BY <1>2, <1>t, TransitionFacts DEF CreateRun, CreateRunRaises
    <2>3. Queued' = Queued
        BY <2>1 DEF Queued
    <2>4. MessagesAreCreated'
        BY <1>t, <2>1, <2>3, CreatedFrame DEF Created
    <2>5. HandledIsNotPending'
        BY <1>t, <1>m, <2>1, <2>2, HandledFrame DEF Created
    <2>6. PendingRunIsQueued'
        BY <1>t, <2>1, <2>2, <2>3, PendingFrame
    <2> QED BY <2>4, <2>5, <2>6
<1>3. ASSUME NEW r \in Runs, Push(r) \/ PushRaises(r) PROVE Goal
    <2>1. /\ UNCHANGED <<row, processing, pc, msg>>
          /\ req[r] \in {"created", "retrying"}
          /\ req'[r] \in {"accepted", "retrying", "failed", "marking"}
          /\ \A x \in Runs : x # r => req'[x] = req[x]
          /\ req'[r] = "accepted" => ready' = LPush(ready, r)
          /\ ready' = ready \/ ready' = LPush(ready, r)
        BY <1>3, <1>t DEF Push, PushRaises, TypeOK
    <2>2. ToSet(LPush(ready, r)) = {r} \cup ToSet(ready)
        BY <1>t, ConsFacts DEF TypeOK, LPush
    <2>3. /\ Queued \subseteq Queued' /\ Queued' \subseteq Queued \cup {r}
          /\ req'[r] = "accepted" => r \in Queued'
        BY <2>1, <2>2 DEF Queued
    <2>4. \A x \in Runs : Created(x) => Created(x)'
        BY <2>1 DEF Created
    <2>5. Created(r)'
        BY <1>t, <2>1 DEF Created, RequestsAreDispatches, Dispatched
    <2>6. MessagesAreCreated'
        BY <1>t, <2>1, <2>3, <2>4, <2>5, CreatedFrame
    <2>7. HandledIsNotPending'
        BY <1>t, <2>1, HandledFrame
    <2>8. PendingRunIsQueued'
        BY <1>t, <2>1, <2>3, PendingFrame
    <2> QED BY <2>6, <2>7, <2>8
<1>4. ASSUME NEW r \in Runs, MarkEnqueueFailed(r) PROVE Goal
    <2>1. /\ UNCHANGED <<ready, processing, pc, msg>>
          /\ req[r] = "marking" /\ req'[r] = "failed"
          /\ \A x \in Runs : x # r => req'[x] = req[x]
        BY <1>4, <1>t DEF MarkEnqueueFailed, TypeOK
    <2>2. row'[r].status = "failed" /\ \A x \in Runs : x # r => row'[x] = row[x]
        BY <1>4, <1>t, TransitionFacts DEF MarkEnqueueFailed
    <2>3. Queued' = Queued
        BY <2>1 DEF Queued
    <2>4. MessagesAreCreated'
        BY <1>t, <2>1, <2>3, CreatedFrame DEF Created
    <2>5. HandledIsNotPending'
        BY <1>t, <1>m, <2>1, <2>2, HandledFrame
    <2>6. PendingRunIsQueued'
        BY <1>t, <2>1, <2>2, <2>3, PendingFrame
    <2> QED BY <2>4, <2>5, <2>6
<1>5. ASSUME NEW r \in Runs, NEW st \in Active \cup Terminal,
             StartSuiteRun(r) \/ ExternalReport(r, st)
      PROVE  Goal
    <2>1. /\ UNCHANGED <<ready, processing, pc, msg>>
          /\ ~Dispatched(r)
          /\ \A x \in Runs : x # r => req'[x] = req[x]
        BY <1>5, <1>t DEF StartSuiteRun, ExternalReport, TypeOK
    <2>2. \A x \in Runs : x # r => row'[x] = row[x]
        <3>1. ASSUME StartSuiteRun(r) PROVE \A x \in Runs : x # r => row'[x] = row[x]
            BY <1>t, <3>1, TransitionFacts DEF StartSuiteRun
        <3>2. ASSUME ExternalReport(r, st) PROVE \A x \in Runs : x # r => row'[x] = row[x]
            <4>1. StoreStep(r, st)
                BY <1>t, <3>2, ReportIsStoreStep DEF ExternalReport
            <4> QED BY <1>t, <4>1, TransitionFacts DEF StoreStep
        <3> QED BY <1>5, <3>1, <3>2
    <2>3. Queued' = Queued
        BY <2>1 DEF Queued
    <2>4. MessagesAreCreated'
        BY <1>t, <2>1, <2>3, CreatedFrame DEF Created, Dispatched
    <2>5. HandledIsNotPending'
        BY <1>t, <1>m, <2>1, <2>2, HandledFrame DEF Created
    <2>6. PendingRunIsQueued'
        BY <1>t, <2>1, <2>2, <2>3, PendingFrame
    <2> QED BY <2>4, <2>5, <2>6
<1>6. ASSUME ApiCrash PROVE Goal
    <2>1. /\ UNCHANGED <<row, ready, processing, pc, msg>>
          /\ \A x \in Runs : req'[x] = req[x] \/ req'[x] = "lost"
        BY <1>6 DEF ApiCrash
    <2>2. Queued' = Queued
        BY <2>1 DEF Queued
    <2>3. MessagesAreCreated'
        BY <1>t, <2>1, <2>2, CreatedFrame DEF Created
    <2>4. HandledIsNotPending'
        BY <1>t, <2>1, HandledFrame
    <2>5. PendingRunIsQueued'
        BY <1>t, <2>1, <2>2, PendingFrame
    <2> QED BY <2>3, <2>4, <2>5
<1>7. ASSUME NEW r \in Runs, Purge(r) PROVE Goal
    <2>1. /\ UNCHANGED <<req, ready, processing, pc, msg>>
          /\ row'[r].status = "absent"
          /\ \A x \in Runs : x # r => row'[x] = row[x]
        BY <1>7, <1>t DEF Purge, RowType
    <2>2. Queued' = Queued
        BY <2>1 DEF Queued
    <2>3. MessagesAreCreated'
        BY <1>t, <2>1, <2>2, CreatedFrame DEF Created
    <2>4. HandledIsNotPending'
        BY <1>t, <1>m, <2>1, HandledFrame
    <2>5. PendingRunIsQueued'
        BY <1>t, <2>1, <2>2, PendingFrame
    <2> QED BY <2>3, <2>4, <2>5
\* Worker steps that move messages or change hands, but no row.
<1>8. ASSUME NEW w \in Workers, NEW f \in BOOLEAN,
             \/ StartWorker(w) \/ Recover(w) \/ RecoveryFails(w) \/ Claim(w)
             \/ ClaimReplyLost(w) \/ ExecutionRaises(w, f) \/ Finish(w)
             \/ Crash(w) \/ WriteHeartbeat(w)
      PROVE  Goal
    <2>1. UNCHANGED <<row, req>>
        BY <1>8 DEF StartWorker, Recover, RecoveryFails, Claim, ClaimReplyLost,
                    ExecutionRaises, Finish, Crash, WriteHeartbeat
    <2>2. \/ UNCHANGED <<ready, processing>>
          \/ MoveToReady
          \/ MoveToProcessing
        BY <1>8 DEF StartWorker, Recover, RecoveryFails, Claim, ClaimReplyLost,
                    ExecutionRaises, Finish, Crash, WriteHeartbeat,
                    queueVars
    <2>3. Queued' = Queued
        <3>1. ASSUME UNCHANGED <<ready, processing>> PROVE Queued' = Queued
            BY <3>1 DEF Queued
        <3>2. ready \in Seq(Runs) /\ processing \in Seq(Runs)
            BY <1>t DEF TypeOK
        <3> QED BY <2>2, <3>1, <3>2, MoveToReadyFacts, MoveToProcessingFacts
    <2>4. \A v \in Workers : msg'[v] = NoRun \/ msg'[v] = msg[v] \/ msg'[v] \in Queued
        <3>1. ASSUME Claim(w)
              PROVE  \A v \in Workers : msg'[v] = msg[v] \/ msg'[v] \in Queued
            <4>1. Last(ready) \in ToSet(ready)
                BY <1>t, <3>1, MoveToProcessingFacts DEF Claim, TypeOK
            <4> QED BY <1>t, <3>1, <4>1 DEF Claim, Queued, TypeOK
        <3>2. ASSUME Crash(w) PROVE \A v \in Workers : msg'[v] = NoRun \/ msg'[v] = msg[v]
            BY <1>t, <3>2 DEF Crash, TypeOK
        <3>3. ~Claim(w) /\ ~Crash(w) => msg' = msg
            BY <1>8 DEF StartWorker, Recover, RecoveryFails, ClaimReplyLost,
                        ExecutionRaises, Finish, WriteHeartbeat
        <3> QED BY <3>1, <3>2, <3>3
    <2>5. \A v \in Workers : pc'[v] \in {"working", "acking", "cleanup"} =>
              pc[v] \in {"working", "acking", "cleanup"} /\ msg'[v] = msg[v]
        BY <1>8, <1>t DEF StartWorker, Recover, RecoveryFails, Claim, ClaimReplyLost,
                    ExecutionRaises, Finish, Crash, WriteHeartbeat,
                    Goto, TypeOK
    <2>6. MessagesAreCreated'
        BY <1>t, <2>1, <2>3, <2>4, CreatedFrame DEF Created
    <2>7. HandledIsNotPending'
        BY <1>t, <2>1, <2>5, HandledFrame
    <2>8. PendingRunIsQueued'
        BY <1>t, <2>1, <2>3, PendingFrame
    <2> QED BY <2>6, <2>7, <2>8
\* Worker steps that remove a message: its run is not pending.
<1>9. ASSUME NEW w \in Workers,
             Ack(w) \/ AckRaises(w) \/ Cleanup(w) \/ CleanupRaises(w)
      PROVE  Goal
    <2>1. /\ UNCHANGED <<row, req, ready>>
          /\ processing' = processing \/ processing' = LRem(processing, msg[w])
          /\ pc[w] \in {"acking", "cleanup"}
        BY <1>9 DEF Ack, AckRaises, Cleanup, CleanupRaises
    <2>2. \A v \in Workers :
              /\ msg'[v] = NoRun \/ msg'[v] = msg[v]
              /\ pc'[v] \in {"working", "acking", "cleanup"} =>
                    pc[v] \in {"working", "acking", "cleanup"} /\ msg'[v] = msg[v]
        BY <1>9, <1>t DEF Ack, AckRaises, Cleanup, CleanupRaises, LeaveHandler,
                          Goto, TypeOK
    <2>3. Queued' \subseteq Queued /\ \A x \in Queued : x = msg[w] \/ x \in Queued'
        BY <1>t, <2>1, RemoveKeepsOthers
    <2>4. row[msg[w]].status # "pending"
        BY <1>t, <2>1 DEF HandledIsNotPending
    <2>5. MessagesAreCreated'
        BY <1>t, <2>1, <2>2, <2>3, CreatedFrame DEF Created
    <2>6. HandledIsNotPending'
        BY <1>t, <2>1, <2>2, HandledFrame
    <2>7. PendingRunIsQueued'
        BY <1>t, <2>1, <2>3, <2>4, PendingFrame
    <2> QED BY <2>5, <2>6, <2>7
\* Worker steps that report.
<1>10. ASSUME NEW w \in Workers,
              \/ ReportProgress(w) \/ ProgressRaises(w)
              \/ ReportFailure(w) \/ ReportFailureRaises(w)
       PROVE  Goal
    <2>1. /\ UNCHANGED <<req, ready, processing>>
          /\ pc[w] \notin {"down", "recovering", "polling"}
        BY <1>10 DEF ReportProgress, ProgressRaises, ReportFailure, ReportFailureRaises
    <2>2. msg[w] \in Runs
        BY <1>m, <2>1
    <2>3. \/ row' = row
          \/ StoreStep(msg[w], "running")
          \/ StoreStep(msg[w], "failed")
        BY <1>10, <1>t, <2>2, ReportIsStoreStep
        DEF ReportProgress, ProgressRaises, ReportFailure, ReportFailureRaises
    <2>4. \A x \in Runs : row'[x].status = "pending" => row[x].status = "pending"
        BY <1>t, <2>2, <2>3, ReportNotPending
    <2>5. (ReportProgress(w) \/ ReportFailure(w)) => row'[msg[w]].status # "pending"
        BY <1>t, <2>2, TransitionFacts DEF ReportProgress, ReportFailure, ReportApplied
    <2>6. \A v \in Workers :
              /\ msg'[v] = NoRun \/ msg'[v] = msg[v]
              /\ pc'[v] \in {"working", "acking", "cleanup"} =>
                    /\ msg'[v] = msg[v]
                    /\ \/ pc[v] \in {"working", "acking", "cleanup"}
                       \/ v = w /\ (ReportProgress(w) \/ ReportFailure(w))
        BY <1>10, <1>t DEF ReportProgress, ProgressRaises, ReportFailure,
                           ReportFailureRaises, LeaveHandler, Goto, TypeOK
    <2>7. Queued' = Queued
        BY <2>1 DEF Queued
    <2>8. MessagesAreCreated'
        BY <1>t, <2>1, <2>6, <2>7, CreatedFrame DEF Created
    <2>9. HandledIsNotPending'
        BY <1>t, <1>m, <2>4, <2>5, <2>6, HandledFrame
    <2>10. PendingRunIsQueued'
        BY <1>t, <2>1, <2>4, <2>7, PendingFrame
    <2> QED BY <2>8, <2>9, <2>10
<1>11. CASE HeartbeatExpires \/ UNCHANGED vars
    BY <1>11, <1>t DEF HeartbeatExpires, vars, MessagesAreCreated, HandledIsNotPending,
                       PendingRunIsQueued, Created, Queued, Dispatched
<1>12. CASE ApiNext
    BY <1>1, <1>2, <1>3, <1>4, <1>5, <1>6, <1>7, <1>12 DEF ApiNext, Active
<1>13. CASE WorkerNext
    BY <1>8, <1>9, <1>10, <1>11, <1>13 DEF WorkerNext
<1> QED BY <1>11, <1>12, <1>13 DEF Next

\* An accepted dispatch whose row is still pending is in the ready or the
\* processing list, for any number of workers, crashes and lost calls.
THEOREM AcceptedPendingIsQueued == Spec => []PendingRunIsQueued
<1>1. PendingInv => PendingRunIsQueued
    BY DEF PendingInv
<1> QED BY <1>1, PendingInit, PendingStep, PTL DEF Spec

-----------------------------------------------------------------------------
(* A single worker.  With one worker nobody else removes or requeues the   *)
(* message being processed, so startup recovery finds it after a crash.    *)

OneWorker == \A v, w \in Workers : v = w

\* The message being processed is in the processing list until it is removed.
InFlightIsProcessing ==
    \A w \in Workers :
        pc[w] \in {"claimed", "working", "acking"} => msg[w] \in ToSet(processing)

\* A message is removed after its run was executed, or reported not running.
RemovedIsSettled ==
    \A w \in Workers :
        /\ pc[w] = "acking" => msg[w] \in executed
        /\ pc[w] = "cleanup" /\ Dispatched(msg[w]) => row[msg[w]].status # "running"

SingleInv ==
    TypeOK /\ InFlightIsProcessing /\ RemovedIsSettled /\ RunningRunIsAttended

LEMMA SingleInit == Init => SingleInv
<1> SUFFICES ASSUME Init PROVE SingleInv
    OBVIOUS
<1>1. /\ \A w \in Workers : pc[w] = "down"
      /\ \A r \in Runs : row[r].status = "absent"
    BY DEF Init
<1> QED BY <1>1, TypeInit
        DEF SingleInv, InFlightIsProcessing, RemovedIsSettled, RunningRunIsAttended

LEMMA AttendedFrame ==
    ASSUME RunningRunIsAttended,
           \A r \in Runs : (Dispatched(r) /\ row'[r].status = "running") =>
               \/ r \in Queued' \cup executed'
               \/ /\ row[r].status = "running"
                  /\ r \in Queued \cup executed => r \in Queued' \cup executed'
    PROVE  RunningRunIsAttended'
BY DEF RunningRunIsAttended

LEMMA SingleStep ==
    ASSUME OneWorker, SingleInv, [Next]_vars PROVE SingleInv'
<1> SUFFICES InFlightIsProcessing' /\ RemovedIsSettled' /\ RunningRunIsAttended'
    BY TypeStep DEF SingleInv
<1> DEFINE Goal == InFlightIsProcessing' /\ RemovedIsSettled' /\ RunningRunIsAttended'
<1>t. /\ TypeOK /\ row \in RowType
      /\ InFlightIsProcessing /\ RemovedIsSettled /\ RunningRunIsAttended
      /\ {"pending", "failed", "running"} \subseteq Statuses
      /\ Active \cup Terminal \subseteq Statuses
    BY DEF SingleInv, TypeOK, RowType, Statuses, Active, Terminal
\* The API leaves the workers and the processing list alone.
<1>1. ASSUME UNCHANGED <<processing, pc, msg, executed>>,
             ToSet(ready) \subseteq ToSet(ready'),
             \A r \in Runs : (Dispatched(r) /\ row'[r].status = "running") =>
                                 row[r].status = "running"
      PROVE  Goal
    <2>1. Queued \subseteq Queued'
        BY <1>1 DEF Queued
    <2>2. InFlightIsProcessing'
        BY <1>1, <1>t DEF InFlightIsProcessing
    <2>3. RemovedIsSettled'
        BY <1>1, <1>t DEF RemovedIsSettled, TypeOK, Dispatched
    <2>4. RunningRunIsAttended'
        BY <1>1, <1>t, <2>1, AttendedFrame
    <2> QED BY <2>2, <2>3, <2>4
<1>2. ASSUME NEW r \in Runs,
             \/ CreateRun(r) \/ CreateRunRaises(r) \/ MarkEnqueueFailed(r)
             \/ StartSuiteRun(r) \/ Purge(r)
      PROVE  Goal
    <2>1. \/ row' = row
          \/ row' = Transition(r, "pending")
          \/ row' = Transition(r, "failed")
          \/ Purge(r)
        BY <1>2 DEF CreateRun, CreateRunRaises, MarkEnqueueFailed, StartSuiteRun
    <2>2. ASSUME Purge(r) PROVE \A x \in Runs : row'[x].status = "running" => row[x].status = "running"
        BY <1>t, <2>2 DEF Purge, RowType
    <2>3. \A x \in Runs : row'[x].status = "running" => row[x].status = "running"
        BY <1>t, <2>1, <2>2, TransitionFacts
    <2>4. UNCHANGED <<ready, processing, pc, msg, executed>>
        BY <1>2 DEF CreateRun, CreateRunRaises, MarkEnqueueFailed, StartSuiteRun, Purge
    <2> QED BY <1>1, <2>3, <2>4
<1>3. ASSUME NEW r \in Runs, CheckHeartbeat(r) \/ Push(r) \/ PushRaises(r) PROVE Goal
    <2>1. /\ UNCHANGED <<row, processing, pc, msg, executed>>
          /\ ready' = ready \/ ready' = LPush(ready, r)
        BY <1>3 DEF CheckHeartbeat, Push, PushRaises
    <2>2. ToSet(LPush(ready, r)) = {r} \cup ToSet(ready)
        BY <1>t, ConsFacts DEF TypeOK, LPush
    <2> QED BY <1>1, <2>1, <2>2
<1>4. ASSUME NEW r \in Runs, NEW st \in Active \cup Terminal, ExternalReport(r, st)
      PROVE  Goal
    <2>1. StoreStep(r, st) /\ ~Dispatched(r)
        BY <1>4, <1>t, ReportIsStoreStep DEF ExternalReport
    <2>2. \A x \in Runs : x # r => row'[x] = row[x]
        BY <1>t, <2>1, TransitionFacts DEF StoreStep
    <2>3. UNCHANGED <<ready, processing, pc, msg, executed>>
        BY <1>4 DEF ExternalReport
    <2> QED BY <1>1, <2>1, <2>2, <2>3
<1>5. CASE ApiCrash \/ HeartbeatExpires \/ UNCHANGED vars
    BY <1>1, <1>5 DEF ApiCrash, HeartbeatExpires, vars
\* Steps of the worker between turns.
<1>6. ASSUME NEW w \in Workers,
             \/ StartWorker(w) \/ Recover(w) \/ RecoveryFails(w)
             \/ ClaimReplyLost(w) \/ Crash(w)
      PROVE  Goal
    <2>1. UNCHANGED <<row, executed>> /\ pc'[w] \in {"down", "recovering", "polling"}
        BY <1>6, <1>t DEF StartWorker, Recover, RecoveryFails, ClaimReplyLost,
                          Crash, Goto, TypeOK
    <2>2. \A v \in Workers : v = w
        BY DEF OneWorker
    <2>3. Queued' = Queued
        <3>1. \/ UNCHANGED <<ready, processing>> \/ MoveToReady \/ MoveToProcessing
            BY <1>6 DEF StartWorker, Recover, RecoveryFails, ClaimReplyLost,
                        Crash, queueVars
        <3>2. ASSUME UNCHANGED <<ready, processing>> PROVE Queued' = Queued
            BY <3>2 DEF Queued
        <3> QED BY <1>t, <3>1, <3>2, MoveToReadyFacts, MoveToProcessingFacts DEF TypeOK
    <2>4. InFlightIsProcessing' /\ RemovedIsSettled'
        BY <2>1, <2>2 DEF InFlightIsProcessing, RemovedIsSettled
    <2>5. RunningRunIsAttended'
        BY <1>t, <2>1, <2>3, AttendedFrame
    <2> QED BY <2>4, <2>5
<1>7. ASSUME NEW w \in Workers, WriteHeartbeat(w) PROVE Goal
    BY <1>1, <1>7 DEF WriteHeartbeat
<1>8. ASSUME NEW w \in Workers, Claim(w) PROVE Goal
    <2>1. /\ UNCHANGED <<row, executed>>
          /\ msg'[w] = Last(ready) /\ pc'[w] = "claimed"
          /\ MoveToProcessing
        BY <1>8, <1>t DEF Claim, Goto, TypeOK
    <2>2. /\ Queued' = Queued
          /\ ToSet(processing') = ToSet(processing) \cup {Last(ready)}
        BY <1>t, <2>1, MoveToProcessingFacts DEF TypeOK
    <2>3. \A v \in Workers : v = w
        BY DEF OneWorker
    <2>4. InFlightIsProcessing' /\ RemovedIsSettled'
        BY <2>1, <2>2, <2>3 DEF InFlightIsProcessing, RemovedIsSettled
    <2>5. RunningRunIsAttended'
        BY <1>t, <2>1, <2>2, AttendedFrame
    <2> QED BY <2>4, <2>5
\* Steps of the worker on a message it keeps.
<1>9. ASSUME NEW w \in Workers, ReportProgress(w) \/ ProgressRaises(w) PROVE Goal
    <2>1. /\ UNCHANGED <<ready, processing, msg, executed>>
          /\ pc[w] \in {"claimed", "working"}
          /\ pc'[w] \in {"working", "reporting"}
        BY <1>9, <1>t DEF ReportProgress, ProgressRaises, Goto, TypeOK
    <2>2. msg[w] \in Runs /\ msg[w] \in ToSet(processing) /\ Queued' = Queued
        BY <1>t, <2>1, HoldsRun DEF InFlightIsProcessing, Queued
    <2>3. row' = row \/ StoreStep(msg[w], "running")
        BY <1>9, <1>t, <2>2, ReportIsStoreStep DEF ReportProgress, ProgressRaises
    <2>4. \A x \in Runs : x # msg[w] => row'[x] = row[x]
        BY <1>t, <2>2, <2>3, TransitionFacts DEF StoreStep
    <2>5. \A v \in Workers : v = w
        BY DEF OneWorker
    <2>6. InFlightIsProcessing' /\ RemovedIsSettled'
        BY <2>1, <2>2, <2>5 DEF InFlightIsProcessing, RemovedIsSettled
    <2>7. msg[w] \in Queued'
        BY <2>2 DEF Queued
    <2>8. RunningRunIsAttended'
        BY <1>t, <2>1, <2>2, <2>4, <2>7, AttendedFrame
    <2> QED BY <2>6, <2>8
<1>10. ASSUME NEW w \in Workers, NEW f \in BOOLEAN, ExecutionRaises(w, f) \/ Finish(w)
       PROVE  Goal
    <2>1. /\ UNCHANGED <<row, ready, processing, msg>>
          /\ pc[w] \in {"claimed", "working"}
          /\ \/ pc'[w] = "reporting" /\ executed' = executed
             \/ pc'[w] = "acking" /\ executed' = executed \cup {msg[w]}
        BY <1>10, <1>t DEF ExecutionRaises, Finish, Goto, TypeOK
    <2>2. Queued' = Queued
        BY <2>1 DEF Queued
    <2>3. \A v \in Workers : v = w
        BY DEF OneWorker
    <2>4. InFlightIsProcessing' /\ RemovedIsSettled'
        BY <1>t, <2>1, <2>3 DEF InFlightIsProcessing, RemovedIsSettled
    <2>5. RunningRunIsAttended'
        BY <1>t, <2>1, <2>2, AttendedFrame
    <2> QED BY <2>4, <2>5
<1>11. ASSUME NEW w \in Workers, ReportFailure(w) \/ ReportFailureRaises(w) PROVE Goal
    <2>1. /\ UNCHANGED <<ready, processing, executed>>
          /\ pc[w] = "reporting"
          /\ \/ pc'[w] \in {"down", "polling"}
             \/ ReportFailure(w) /\ pc'[w] = "cleanup" /\ msg'[w] = msg[w]
        BY <1>11, <1>t DEF ReportFailure, ReportFailureRaises, LeaveHandler, Goto, TypeOK
    <2>2. msg[w] \in Runs /\ Queued' = Queued
        BY <1>t, <2>1, HoldsRun DEF Queued
    <2>3. StoreStep(msg[w], "failed")
        BY <1>11, <1>t, <2>2, ReportIsStoreStep DEF ReportFailure, ReportFailureRaises
    <2>4. \A x \in Runs : row'[x].status = "running" => row[x].status = "running"
        BY <1>t, <2>2, <2>3, TransitionFacts DEF StoreStep
    <2>5. ReportFailure(w) => row'[msg[w]].status = "failed"
        BY <1>t, <2>2, TransitionFacts DEF ReportFailure, ReportApplied
    <2>6. \A v \in Workers : v = w
        BY DEF OneWorker
    <2>7. InFlightIsProcessing' /\ RemovedIsSettled'
        BY <2>1, <2>5, <2>6 DEF InFlightIsProcessing, RemovedIsSettled
    <2>8. RunningRunIsAttended'
        BY <1>t, <2>1, <2>2, <2>4, AttendedFrame
    <2> QED BY <2>7, <2>8
\* Steps of the worker that remove its message.
<1>12. ASSUME NEW w \in Workers,
              Ack(w) \/ AckRaises(w) \/ Cleanup(w) \/ CleanupRaises(w)
       PROVE  Goal
    <2>1. /\ UNCHANGED <<row, ready, executed>>
          /\ processing' = processing \/ processing' = LRem(processing, msg[w])
          /\ pc[w] \in {"acking", "cleanup"}
        BY <1>12 DEF Ack, AckRaises, Cleanup, CleanupRaises
    <2>2. pc'[w] \in {"down", "polling", "reporting"}
        BY <1>12, <1>t DEF Ack, AckRaises, Cleanup, CleanupRaises, LeaveHandler,
                           Goto, TypeOK
    <2>3. Queued' \subseteq Queued /\ \A x \in Queued : x = msg[w] \/ x \in Queued'
        BY <1>t, <2>1, RemoveKeepsOthers
    <2>4. \A v \in Workers : v = w
        BY DEF OneWorker
    <2>5. InFlightIsProcessing' /\ RemovedIsSettled'
        BY <2>2, <2>4 DEF InFlightIsProcessing, RemovedIsSettled
    <2>6. Dispatched(msg[w]) /\ row[msg[w]].status = "running" => msg[w] \in executed
        BY <1>t, <2>1 DEF RemovedIsSettled
    <2>7. RunningRunIsAttended'
        BY <1>t, <2>1, <2>3, <2>6, AttendedFrame
    <2> QED BY <2>5, <2>7
<1>13. CASE ApiNext
    BY <1>2, <1>3, <1>4, <1>5, <1>13 DEF ApiNext
<1>14. CASE WorkerNext
    BY <1>5, <1>6, <1>7, <1>8, <1>9, <1>10, <1>11, <1>12, <1>14 DEF WorkerNext
<1> QED BY <1>5, <1>13, <1>14 DEF Next

\* With one worker the message being processed is always in a list: the death
\* of the worker at any moment loses nothing.
THEOREM InFlightIsRecoverable ==
    ASSUME OneWorker PROVE Spec => []InFlightMessageIsRecoverable
<1>1. SingleInv => InFlightMessageIsRecoverable
    BY DEF SingleInv, InFlightIsProcessing, InFlightMessageIsRecoverable, Queued
<1>2. SingleInv /\ [Next]_vars => SingleInv'
    BY SingleStep
<1> QED BY <1>1, <1>2, SingleInit, PTL DEF Spec

\* With one worker a run whose row says running is in a list or was processed
\* to its end, whatever crashes and calls are lost.
THEOREM RunningIsAttended ==
    ASSUME OneWorker PROVE Spec => []RunningRunIsAttended
<1>1. SingleInv => RunningRunIsAttended
    BY DEF SingleInv
<1>2. SingleInv /\ [Next]_vars => SingleInv'
    BY SingleStep
<1> QED BY <1>1, <1>2, SingleInit, PTL DEF Spec


-----------------------------------------------------------------------------
(* What startup recovery leaves behind.  The copy of the message in the    *)
(* worker's hands is not stranded; a crash adds it to the processing list, *)
(* and so does a failed cleanup.  Recovery empties the list, or costs a    *)
(* fault: until it ends there may be one stranded message more than there  *)
(* were faults.  A failure the API refuses to record it refuses for ever.  *)

\* A dispatch under way has its row: only settled ones are purged.
UnderwayExists ==
    \A r \in Runs : req[r] \in {"created", "retrying", "marking"} => Exists(r)

\* The processing list without the copy in the worker's hands.
Rest(w) == IF msg[w] = NoRun THEN processing ELSE LRem(processing, msg[w])

Stranded(w) == {r \in ToSet(Rest(w)) : ~ReportRefused(r, "failed")}

FewStranded(w) ==
    /\ IsFiniteSet(Stranded(w))
    /\ Cardinality(Stranded(w)) <=
          IF pc[w] \in {"down", "recovering"} THEN faults + 1 ELSE faults

StrandedInv ==
    PendingInv /\ UnderwayExists /\ \A w \in Workers : FewStranded(w)

\* LREM of the message that was just pushed gives the list back.
LEMMA RemovePushed ==
    ASSUME NEW S, NEW s \in Seq(S), NEW e \in S
    PROVE  ToSet(RemoveFirst(Cons(e, s), e)) \subseteq ToSet(s)
<1>1. PICK t : t = Cons(e, s)
    OBVIOUS
<1>2. /\ t \in Seq(S) /\ Len(t) = Len(s) + 1 /\ t[1] = e
      /\ \A i \in 1..Len(s) : t[i + 1] = s[i]
    BY <1>1 DEF Cons
<1> DEFINE I == {i \in 1..Len(t) : t[i] = e}
<1>3. 1 \in I /\ \A i \in I : 1 =< i
    BY <1>2
<1>4. I \in SUBSET Nat /\ I # {}
    BY <1>3
<1>5. Min(I) = 1
    BY <1>3 DEF Min
<1>6. RemoveFirst(t, e) = RemoveAt(t, Min(I))
    BY <1>4 DEF RemoveFirst, SelectInSeq
<1> HIDE DEF I
<1>7. PICK u : u = RemoveAt(t, 1)
    OBVIOUS
<1>8. 1 \in 1..Len(t)
    BY <1>2
<1>9. /\ u \in Seq(S) /\ Len(u) = Len(t) - 1
      /\ \A i \in 1..(Len(t) - 1) : u[i] = t[i + 1]
    BY <1>2, <1>7, <1>8, RemoveAtFacts
<1>10. Len(u) = Len(s) /\ \A i \in 1..Len(s) : u[i] = s[i]
    BY <1>2, <1>9
<1>11. u = s
    BY <1>9, <1>10, SeqEqual
<1> QED BY <1>1, <1>5, <1>6, <1>7, <1>11

LEMMA UnderwayStep ==
    ASSUME TypeOK, UnderwayExists, [Next]_vars PROVE UnderwayExists'
<1>t. row \in RowType /\ {"pending", "failed"} \subseteq Statuses /\ Active \cup Terminal \subseteq Statuses
    BY DEF TypeOK, RowType, Statuses, Active, Terminal
<1>1. ASSUME req' = req, \A r \in Runs : Exists(r) => Exists(r)'
      PROVE  UnderwayExists'
    BY <1>1 DEF UnderwayExists
<1>2. ASSUME NEW r \in Runs, NEW st \in Statuses, st # "absent", StoreStep(r, st), req' = req
      PROVE  UnderwayExists'
    <2>1. \A x \in Runs : Exists(x) => Exists(x)'
        BY <1>2, <1>t, TransitionFacts DEF StoreStep, Exists
    <2> QED BY <1>1, <1>2, <2>1
<1>3. ASSUME NEW r \in Runs, CreateRun(r) \/ CreateRunRaises(r) \/ MarkEnqueueFailed(r) \/ StartSuiteRun(r)
      PROVE  UnderwayExists'
    <2>1. /\ row' = row \/ row' = Transition(r, "pending") \/ row' = Transition(r, "failed")
          /\ req'[r] \in {"created", "retrying", "marking"} => row' = Transition(r, "pending")
          /\ \A x \in Runs : x # r => req'[x] = req[x]
        BY <1>3 DEF TypeOK, CreateRun, CreateRunRaises, MarkEnqueueFailed, StartSuiteRun
    <2>2. \A x \in Runs : x # r => row'[x] = row[x]
        BY <1>t, <2>1, TransitionFacts
    <2>3. row' = Transition(r, "pending") => row'[r].status = "pending"
        BY <1>t, TransitionFacts
    <2> QED BY <2>1, <2>2, <2>3 DEF UnderwayExists, Exists
<1>4. ASSUME NEW r \in Runs, CheckHeartbeat(r) \/ Push(r) \/ PushRaises(r) PROVE UnderwayExists'
    <2>1. /\ row' = row /\ \A x \in Runs : x # r => req'[x] = req[x]
          /\ req'[r] \in {"created", "retrying", "marking"} => req[r] \in {"created", "retrying"}
        BY <1>4 DEF TypeOK, CheckHeartbeat, Push, PushRaises
    <2> QED BY <2>1 DEF UnderwayExists, Exists
<1>5. ASSUME NEW r \in Runs, Purge(r) PROVE UnderwayExists'
    BY <1>5 DEF Purge, TypeOK, UnderwayExists, Exists
<1>6. CASE ApiCrash
    BY <1>6 DEF ApiCrash, UnderwayExists, Exists, TypeOK
<1>7. ASSUME NEW r \in Runs, NEW st \in Active \cup Terminal, ExternalReport(r, st)
      PROVE  UnderwayExists'
    <2>1. StoreStep(r, st) /\ st # "absent" /\ req' = req
        BY <1>t, <1>7, ReportIsStoreStep DEF ExternalReport, Active, Terminal
    <2> QED BY <1>2, <1>t, <2>1
<1>8. CASE WorkerNext \/ UNCHANGED vars
    <2>1. req' = req
        BY <1>8 DEF WorkerNext, StartWorker, Recover, RecoveryFails, Claim,
                    ClaimReplyLost, ReportProgress, ProgressRaises, ExecutionRaises,
                    Finish, Ack, AckRaises, ReportFailure, ReportFailureRaises,
                    Cleanup, CleanupRaises, Crash, WriteHeartbeat, HeartbeatExpires, vars
    <2>2. ASSUME NEW w \in Workers, ReportProgress(w) \/ ProgressRaises(w) PROVE UnderwayExists'
        <3>1. msg[w] \in Runs
            BY <2>2, HoldsRun DEF ReportProgress, ProgressRaises
        <3>2. "running" \in Statuses /\ "running" # "absent"
            BY DEF Statuses, Active
        <3>3. StoreStep(msg[w], "running") \/ row' = row
            BY <2>2, <3>1, <3>2, ReportIsStoreStep DEF ReportProgress, ProgressRaises
        <3>4. CASE row' = row
            BY <1>1, <2>1, <3>4 DEF Exists
        <3> QED BY <1>2, <2>1, <3>1, <3>2, <3>3, <3>4
    <2>3. ASSUME NEW w \in Workers, ReportFailure(w) \/ ReportFailureRaises(w) PROVE UnderwayExists'
        <3>1. msg[w] \in Runs
            BY <2>3, HoldsRun DEF ReportFailure, ReportFailureRaises
        <3>2. StoreStep(msg[w], "failed")
            BY <1>t, <2>3, <3>1, ReportIsStoreStep DEF ReportFailure, ReportFailureRaises
        <3> QED BY <1>2, <1>t, <2>1, <3>1, <3>2
    <2>4. CASE row' = row
        BY <1>1, <2>1, <2>4 DEF Exists
    <2> QED BY <1>8, <2>2, <2>3, <2>4
            DEF WorkerNext, StartWorker, Recover, RecoveryFails, Claim, ClaimReplyLost,
                ExecutionRaises, Finish, Ack, AckRaises, Cleanup, CleanupRaises, Crash,
                WriteHeartbeat, HeartbeatExpires, vars
<1> QED BY <1>3, <1>4, <1>5, <1>6, <1>7, <1>8 DEF Next, ApiNext

\* The API refuses the failure of a queued run for ever once it refuses it:
\* no step brings back a row, and an event goes only with its row.
LEMMA RefusedStays ==
    ASSUME PendingInv, UnderwayExists, [Next]_vars, NEW q \in Queued, ReportRefused(q, "failed")
    PROVE  ReportRefused(q, "failed")'
<1>t. /\ TypeOK /\ MessagesAreCreated /\ RequestsAreDispatches /\ row \in RowType
      /\ {"pending", "failed", "running"} \subseteq Statuses /\ Active \cup Terminal \subseteq Statuses
    BY DEF PendingInv, TypeOK, RowType, Statuses, Active, Terminal
<1>q. q \in Runs /\ Created(q)
    BY <1>t DEF MessagesAreCreated, Queued, ToSet, TypeOK
<1>1. ASSUME row'[q] = row[q] \/ Exists(q), events \subseteq events'
      PROVE  ReportRefused(q, "failed")'
    BY <1>1 DEF ReportRefused, Exists
<1>2. ASSUME NEW r \in Runs, NEW st \in Statuses, StoreStep(r, st)
      PROVE  ReportRefused(q, "failed")'
    <2>1. row'[q] = row[q] \/ Exists(q)
        BY <1>2, <1>t, <1>q, TransitionFacts DEF StoreStep
    <2>2. events \subseteq events'
        BY <1>2 DEF StoreStep
    <2> QED BY <1>1, <2>1, <2>2
<1>3. ASSUME NEW r \in Runs, CreateRun(r) \/ CreateRunRaises(r) \/ MarkEnqueueFailed(r) \/ StartSuiteRun(r)
      PROVE  ReportRefused(q, "failed")'
    <2>1. /\ events' = events
          /\ row' = row \/ row' = Transition(r, "pending") \/ row' = Transition(r, "failed")
          /\ r # q \/ req[r] = "marking"
        BY <1>3, <1>q DEF Created, CreateRun, CreateRunRaises, MarkEnqueueFailed, StartSuiteRun
    <2>2. r # q => row'[q] = row[q]
        BY <1>t, <1>q, <2>1, TransitionFacts
    <2>3. r = q => Exists(q)
        BY <1>q, <2>1 DEF UnderwayExists
    <2> QED BY <1>1, <2>1, <2>2, <2>3
<1>4. ASSUME NEW r \in Runs, Purge(r) PROVE ReportRefused(q, "failed")'
    <2>1. CASE r = q
        <3>1. row'[q].status = "absent"
            BY <1>4, <1>t, <1>q, <2>1 DEF Purge, RowType
        <3> QED BY <3>1 DEF ReportRefused, Exists
    <2>2. CASE r # q
        <3>1. row'[q] = row[q]
            BY <1>4, <1>t, <1>q, <2>2 DEF Purge, RowType
        <3>2. <<q, "failed">> \in events => <<q, "failed">> \in events'
            BY <1>4, <2>2 DEF Purge
        <3> QED BY <3>1, <3>2 DEF ReportRefused, Exists
    <2> QED BY <2>1, <2>2
<1>5. ASSUME NEW r \in Runs, NEW st \in Active \cup Terminal, ExternalReport(r, st)
      PROVE  ReportRefused(q, "failed")'
    <2>1. StoreStep(r, st)
        BY <1>t, <1>5, ReportIsStoreStep DEF ExternalReport
    <2> QED BY <1>2, <1>t, <2>1
<1>6. CASE row' = row /\ events' = events
    BY <1>1, <1>6
<1>7. ASSUME NEW w \in Workers,
             ReportProgress(w) \/ ProgressRaises(w) \/ ReportFailure(w) \/ ReportFailureRaises(w)
      PROVE  ReportRefused(q, "failed")'
    <2>1. msg[w] \in Runs
        BY <1>t, <1>7, HoldsRun DEF ReportProgress, ProgressRaises, ReportFailure, ReportFailureRaises
    <2>2. \/ row' = row /\ events' = events
          \/ StoreStep(msg[w], "running") \/ StoreStep(msg[w], "failed")
        BY <1>t, <1>7, <2>1, ReportIsStoreStep
           DEF ReportProgress, ProgressRaises, ReportFailure, ReportFailureRaises
    <2> QED BY <1>2, <1>6, <1>t, <2>1, <2>2
<1>8. CASE ApiNext
    BY <1>3, <1>4, <1>5, <1>6, <1>8 DEF ApiNext, CheckHeartbeat, Push, PushRaises, ApiCrash
<1>9. CASE WorkerNext \/ UNCHANGED vars
    BY <1>6, <1>7, <1>9
       DEF WorkerNext, StartWorker, Recover, RecoveryFails, Claim, ClaimReplyLost,
           ExecutionRaises, Finish, Ack, AckRaises, Cleanup, CleanupRaises, Crash,
           WriteHeartbeat, HeartbeatExpires, vars
<1> QED BY <1>8, <1>9 DEF Next

\* What the step does to the list decides what is stranded.
LEMMA StrandedFrame ==
    ASSUME TypeOK, NEW w \in Workers, NEW X, ToSet(Rest(w)') \subseteq ToSet(Rest(w)) \cup X,
           \A q \in Queued : ReportRefused(q, "failed") => ReportRefused(q, "failed")'
    PROVE  Stranded(w)' \subseteq Stranded(w) \cup X
<1>1. ToSet(Rest(w)) \subseteq ToSet(processing)
    BY RemoveFirstFacts DEF Rest, LRem, TypeOK
<1>2. ToSet(Rest(w)) \subseteq Queued
    BY <1>1 DEF Queued
<1> QED BY <1>2 DEF Stranded

LEMMA FewKept ==
    ASSUME NEW w \in Workers, FewStranded(w), faults \in Nat, Stranded(w)' \subseteq Stranded(w),
           faults' \in {faults, faults + 1},
           \/ faults' = faults + 1
           \/ pc'[w] \in {"down", "recovering"} \/ pc[w] \notin {"down", "recovering"}
    PROVE  FewStranded(w)'
<1> DEFINE old == Cardinality(Stranded(w))
           new == Cardinality(Stranded(w)')
<1>1. IsFiniteSet(Stranded(w)) /\ old \in Nat
    BY FS_CardinalityType DEF FewStranded
<1>2. IsFiniteSet(Stranded(w)') /\ new =< old
    BY <1>1, FS_Subset
<1>3. new \in Nat
    BY <1>2, FS_CardinalityType
<1>4. old =< IF pc[w] \in {"down", "recovering"} THEN faults + 1 ELSE faults
    BY DEF FewStranded
<1> HIDE DEF old, new
<1>5. new =< IF pc'[w] \in {"down", "recovering"} THEN faults' + 1 ELSE faults'
    BY <1>1, <1>2, <1>3, <1>4
<1> QED BY <1>2, <1>5 DEF FewStranded, new

LEMMA FewOneMore ==
    ASSUME NEW w \in Workers, FewStranded(w), faults \in Nat, NEW x,
           Stranded(w)' \subseteq Stranded(w) \cup {x}, pc[w] \notin {"down", "recovering"},
           faults' = faults + 1 \/ (faults' = faults /\ pc'[w] \in {"down", "recovering"})
    PROVE  FewStranded(w)'
<1> DEFINE old == Cardinality(Stranded(w))
           more == Cardinality(Stranded(w) \cup {x})
           new == Cardinality(Stranded(w)')
<1>1. IsFiniteSet(Stranded(w)) /\ old \in Nat /\ old =< faults
    BY FS_CardinalityType DEF FewStranded
<1>2. IsFiniteSet(Stranded(w) \cup {x}) /\ more = IF x \in Stranded(w) THEN old ELSE old + 1
    BY <1>1, FS_AddElement
<1>3. IsFiniteSet(Stranded(w)') /\ new =< more
    BY <1>2, FS_Subset
<1>4. new \in Nat
    BY <1>3, FS_CardinalityType
<1> HIDE DEF old, more, new
<1>5. new =< IF pc'[w] \in {"down", "recovering"} THEN faults' + 1 ELSE faults'
    BY <1>1, <1>2, <1>3, <1>4
<1> QED BY <1>3, <1>5 DEF FewStranded, new

\* The steps of the one worker, by what they do to its processing list.
LEMMA FewStep ==
    ASSUME OneWorker, StrandedInv, [Next]_vars, NEW w \in Workers PROVE FewStranded(w)'
<1>t. /\ TypeOK /\ faults \in Nat /\ FewStranded(w)
      /\ (msg[w] # NoRun) <=> (pc[w] \notin {"down", "recovering", "polling"})
      /\ processing \in Seq(Runs) /\ ready \in Seq(Runs)
      /\ msg \in [Workers -> Runs \cup {NoRun}] /\ pc \in [Workers -> PcStates] /\ NoRun \notin Runs
    BY ConstantsAssumption DEF StrandedInv, PendingInv, TypeOK
<1>r. \A q \in Queued : ReportRefused(q, "failed") => ReportRefused(q, "failed")'
    BY RefusedStays DEF StrandedInv
<1>o. \A v \in Workers : v = w
    BY DEF OneWorker
<1>l. /\ ToSet(LRem(processing, msg[w])) \subseteq ToSet(processing)
      /\ ToSet(processing) \subseteq ToSet(LRem(processing, msg[w])) \cup {msg[w]}
      /\ LRem(processing, msg[w]) \in Seq(Runs)
    BY <1>t, RemoveFirstFacts DEF LRem
\* Steps that leave the list and the worker's hands alone.
<1>1. ASSUME processing' = processing, msg' = msg, faults' \in {faults, faults + 1},
             \/ pc'[w] = pc[w]
             \/ pc[w] \notin {"down", "recovering"} \/ pc'[w] \in {"down", "recovering"}
      PROVE  FewStranded(w)'
    <2>1. Rest(w)' = Rest(w)
        BY <1>1 DEF Rest
    <2>2. Stranded(w)' \subseteq Stranded(w)
        BY <1>t, <1>r, <2>1, StrandedFrame
    <2> QED BY <1>1, <1>t, <2>2, FewKept
<1>2. CASE ApiNext \/ HeartbeatExpires \/ UNCHANGED vars
    <2>1. /\ processing' = processing /\ msg' = msg /\ pc' = pc /\ faults' \in {faults, faults + 1}
        BY <1>2 DEF ApiNext, CheckHeartbeat, CreateRun, CreateRunRaises, Push, PushRaises,
                    MarkEnqueueFailed, StartSuiteRun, Purge, ExternalReport, ApiCrash,
                    HeartbeatExpires, vars, Fault
    <2> QED BY <1>1, <2>1
<1>3. CASE \/ StartWorker(w) \/ WriteHeartbeat(w) \/ ReportProgress(w) \/ ProgressRaises(w)
           \/ (\E f \in BOOLEAN : ExecutionRaises(w, f)) \/ Finish(w) \/ ReportFailure(w)
    <2>1. /\ processing' = processing /\ msg' = msg /\ faults' \in {faults, faults + 1}
          /\ \/ pc'[w] = pc[w]
             \/ pc[w] \notin {"down", "recovering"} \/ pc'[w] \in {"down", "recovering"}
        BY <1>3, <1>t DEF StartWorker, WriteHeartbeat, ReportProgress, ProgressRaises, ExecutionRaises,
                          Finish, ReportFailure, Goto, Fault
    <2> QED BY <1>1, <2>1
\* Recovery.
<1>4. CASE Recover(w) \/ RecoveryFails(w)
    <2>1. msg' = msg /\ msg[w] = NoRun
        BY <1>4, <1>t DEF Recover, RecoveryFails
    <2>2. Rest(w) = processing /\ Rest(w)' = processing'
        BY <2>1 DEF Rest
    <2>3. ToSet(processing') \subseteq ToSet(processing)
        <3>1. \/ processing' = processing
              \/ processing # <<>> /\ processing' = Front(processing)
            BY <1>4 DEF Recover, RecoveryFails, MoveToReady, queueVars
        <3> QED BY <1>t, <3>1, FrontLastFacts
    <2>4. Stranded(w)' \subseteq Stranded(w)
        BY <1>t, <1>r, <2>2, <2>3, StrandedFrame
    <2>5. CASE processing # <<>> \/ RecoveryFails(w)
        <3>1. /\ faults' \in {faults, faults + 1}
              /\ faults' = faults + 1 \/ pc'[w] \in {"down", "recovering"}
            BY <1>4, <1>t, <2>5 DEF Recover, RecoveryFails, Fault, Goto
        <3> QED BY <1>t, <2>4, <3>1, FewKept
    <2>6. CASE processing = <<>> /\ Recover(w)
        <3>1. Stranded(w)' = {} /\ faults' = faults
            <4>1. ToSet(processing) = {}
                BY <2>6 DEF ToSet
            <4> QED BY <2>2, <2>3, <2>6, <4>1 DEF Stranded, Recover
        <3>2. IsFiniteSet({}) /\ Cardinality({}) = 0
            BY FS_EmptySet
        <3> QED BY <1>t, <3>1, <3>2 DEF FewStranded
    <2> QED BY <1>4, <2>5, <2>6
\* The claim.
<1>5. CASE Claim(w)
    <2>1. /\ MoveToProcessing /\ msg'[w] = Last(ready) /\ pc[w] = "polling" /\ pc'[w] = "claimed"
          /\ faults' = faults /\ msg[w] = NoRun
        BY <1>5, <1>t DEF Claim, Goto
    <2>2. Last(ready) \in Runs
        BY <1>t, <2>1, MoveToProcessingFacts
    <2>3. Rest(w) = processing /\ Rest(w)' = RemoveFirst(Cons(Last(ready), processing), Last(ready))
        BY <1>t, <2>1, <2>2 DEF Rest, MoveToProcessing, LPush, LRem
    <2>4. ToSet(Rest(w)') \subseteq ToSet(Rest(w))
        BY <1>t, <2>2, <2>3, RemovePushed
    <2>5. Stranded(w)' \subseteq Stranded(w)
        BY <1>t, <1>r, <2>4, StrandedFrame
    <2> QED BY <1>t, <2>1, <2>5, FewKept
<1>6. CASE ClaimReplyLost(w)
    <2>1. /\ MoveToProcessing /\ msg' = msg /\ pc' = pc /\ pc[w] = "polling" /\ faults' = faults + 1
          /\ msg[w] = NoRun
        BY <1>6, <1>t DEF ClaimReplyLost, Fault
    <2>2. PICK x : x = Last(ready)
        OBVIOUS
    <2>3. ToSet(Rest(w)') \subseteq ToSet(Rest(w)) \cup {x}
        BY <1>t, <2>1, <2>2, MoveToProcessingFacts DEF Rest
    <2>4. Stranded(w)' \subseteq Stranded(w) \cup {x}
        BY <1>t, <1>r, <2>3, StrandedFrame
    <2> QED BY <1>t, <2>1, <2>4, FewOneMore
\* The message is removed: its copy was not counted.
<1>7. CASE Ack(w) \/ Cleanup(w) \/ AckRaises(w)
    <2>1. /\ pc[w] \in {"acking", "cleanup"} /\ faults' \in {faults, faults + 1} /\ msg[w] # NoRun
          /\ \/ processing' = LRem(processing, msg[w]) /\ msg'[w] = NoRun
             \/ processing' \in {processing, LRem(processing, msg[w])} /\ msg' = msg
        BY <1>7, <1>t DEF Ack, Cleanup, AckRaises, LeaveHandler, Fault
    <2>2. PICK p : p = processing'
        OBVIOUS
    <2>3. p \in Seq(Runs)
        BY <1>l, <1>t, <2>1, <2>2
    <2>4. ToSet(RemoveFirst(p, msg[w])) \subseteq ToSet(p)
        BY <2>3, RemoveFirstFacts
    <2>5. ToSet(Rest(w)') \subseteq ToSet(Rest(w))
        BY <2>1, <2>2, <2>4 DEF Rest, LRem
    <2>6. Stranded(w)' \subseteq Stranded(w)
        BY <1>t, <1>r, <2>5, StrandedFrame
    <2> QED BY <1>t, <2>1, <2>6, FewKept
\* The message keeps its place, or may do so.
<1>8. CASE ReportFailureRaises(w) \/ CleanupRaises(w) \/ Crash(w)
    <2>1. /\ processing' \in {processing, LRem(processing, msg[w])} /\ msg'[w] = NoRun
          /\ faults' \in {faults, faults + 1}
        BY <1>8, <1>t DEF ReportFailureRaises, CleanupRaises, Crash, LeaveHandler, Fault
    <2>2. PICK x : x = msg[w]
        OBVIOUS
    <2>3. ToSet(Rest(w)') \subseteq ToSet(Rest(w)) \cup {x}
        BY <1>l, <2>1, <2>2 DEF Rest
    <2>4. Stranded(w)' \subseteq Stranded(w) \cup {x}
        BY <1>t, <1>r, <2>3, StrandedFrame
    <2>5. CASE pc[w] \notin {"down", "recovering"} /\
               (faults' = faults + 1 \/ (faults' = faults /\ pc'[w] \in {"down", "recovering"}))
        BY <1>t, <2>4, <2>5, FewOneMore
    <2>6. CASE Crash(w) /\ pc[w] = "recovering"
        <3>1. /\ processing' = processing /\ msg[w] = NoRun /\ faults' = faults /\ pc'[w] = "down"
            BY <1>t, <2>6 DEF Crash, Goto
        <3>2. Rest(w)' = Rest(w)
            BY <2>1, <3>1 DEF Rest
        <3>3. Stranded(w)' \subseteq Stranded(w)
            BY <1>t, <1>r, <3>2, StrandedFrame
        <3> QED BY <1>t, <3>1, <3>3, FewKept
    <2>7. CASE ReportFailureRaises(w) /\ ReportRefused(x, "failed") /\ faults' = faults
        <3>1. processing' = processing /\ pc[w] = "reporting"
            BY <2>7 DEF ReportFailureRaises
        <3>2. x \in ToSet(processing) => ReportRefused(x, "failed")'
            BY <1>r, <2>7 DEF Queued
        <3>3. x \in ToSet(Rest(w)') => x \in ToSet(processing)
            BY <2>1, <3>1 DEF Rest
        <3>4. Stranded(w)' \subseteq Stranded(w)
            BY <2>4, <3>2, <3>3 DEF Stranded
        <3> QED BY <1>t, <2>1, <3>1, <3>4, FewKept
    <2>8. \/ Crash(w) /\ faults' = faults /\ pc'[w] = "down" /\ pc[w] # "down"
          \/ faults' = faults + 1 /\ pc[w] \in {"reporting", "cleanup"}
          \/ ReportFailureRaises(w) /\ ReportRefused(x, "failed") /\ faults' = faults
        BY <1>8, <1>t, <2>2 DEF ReportFailureRaises, CleanupRaises, Crash, Fault, Goto
    <2> QED BY <2>5, <2>6, <2>7, <2>8
<1>9. CASE WorkerNext
    BY <1>2, <1>3, <1>4, <1>5, <1>6, <1>7, <1>8, <1>9, <1>o DEF WorkerNext
<1> QED BY <1>2, <1>9 DEF Next

LEMMA StrandedInit == Init => StrandedInv
<1> SUFFICES ASSUME Init PROVE StrandedInv
    OBVIOUS
<1>1. UnderwayExists
    BY DEF Init, UnderwayExists
<1>2. ASSUME NEW w \in Workers PROVE FewStranded(w)
    <2>1. msg[w] = NoRun /\ pc[w] = "down" /\ processing = <<>> /\ faults = 0
        BY DEF Init
    <2>2. ToSet(Rest(w)) = {}
        BY <2>1 DEF Rest, ToSet
    <2>3. Stranded(w) = {}
        BY <2>2 DEF Stranded
    <2>4. IsFiniteSet({}) /\ Cardinality({}) = 0
        BY FS_EmptySet
    <2> QED BY <2>1, <2>3, <2>4 DEF FewStranded
<1> QED BY <1>1, <1>2, PendingInit DEF StrandedInv

\* With one worker, for every number of runs, crashes and faults: a worker
\* that polls has in its processing list only messages whose failure the API
\* refuses to record, and one more for each lost call (run_worker_forever's
\* startup recovery and _report_dispatch_failure).
THEOREM NothingElseStranded ==
    ASSUME OneWorker PROVE Spec => []OnlyRefusedMessagesStranded
<1>1. StrandedInv /\ [Next]_vars => StrandedInv'
    <2> SUFFICES ASSUME StrandedInv, [Next]_vars PROVE StrandedInv'
        OBVIOUS
    <2>1. PendingInv' /\ UnderwayExists'
        BY PendingStep, UnderwayStep DEF StrandedInv, PendingInv
    <2>2. \A w \in Workers : FewStranded(w)'
        BY FewStep
    <2> QED BY <2>1, <2>2 DEF StrandedInv
<1>2. StrandedInv => OnlyRefusedMessagesStranded
    <2> SUFFICES ASSUME StrandedInv, NEW w \in Workers, pc[w] = "polling"
                 PROVE  Cardinality({r \in ToSet(processing) : ~ReportRefused(r, "failed")}) =< faults
        BY DEF OnlyRefusedMessagesStranded
    <2>1. msg[w] = NoRun
        BY DEF StrandedInv, PendingInv, TypeOK
    <2>2. Stranded(w) = {r \in ToSet(processing) : ~ReportRefused(r, "failed")}
        BY <2>1 DEF Stranded, Rest
    <2>3. Cardinality(Stranded(w)) =< faults
        BY DEF StrandedInv, FewStranded
    <2> QED BY <2>2, <2>3
<1> QED BY <1>1, <1>2, StrandedInit, PTL DEF Spec

-----------------------------------------------------------------------------
(* Join-pair dispatches.  A join dispatch has one message, one worker, and  *)
(* an end that is recorded before the message goes, unless a lost call      *)
(* meets it; each lost call meets one dispatch.                             *)

JoinTypeOK ==
    /\ jready \in Seq(JoinRuns) /\ jprocessing \in Seq(JoinRuns)
    /\ jpc \in [Etl -> JPcStates]
    /\ jmsg \in [Etl -> JoinRuns \cup {NoRun}]
    /\ \A w \in Etl : (jmsg[w] # NoRun) <=> (jpc[w] \notin {"down", "polling"})

\* A join dispatch does not get to the lists of the GX workers.
Apart ==
    /\ Queued \cap JoinRuns = {}
    /\ \A w \in Workers : msg[w] \notin JoinRuns

\* The message of r is at one place of the list at most.
Once(s, r) == \A i, k \in 1..Len(s) : s[i] = r /\ s[k] = r => i = k
Held(r) == \E w \in Etl : jmsg[w] = r

\* What is true of a join dispatch that no lost call has touched: it has one
\* message at most, one worker processes it, and once the failure was
\* reported the run is over.
Traced(r) ==
    /\ req[r] \in {"new", "admitted", "created", "retrying"} =>
          r \notin ToSet(jready) /\ ~Held(r)
    /\ req[r] = "accepted" =>
          /\ Once(jready, r)
          /\ r \in ToSet(jready) => ~Held(r)
          /\ \A v, w \in Etl : jmsg[v] = r /\ jmsg[w] = r => v = w
          /\ \A w \in Etl : jmsg[w] = r =>
                r \in ToSet(jprocessing) /\ (jpc[w] = "acking" => ~IsActive(r))
          /\ IsActive(r) => r \in ToSet(jready) \cup ToSet(jprocessing)

Untraced == {r \in JoinRuns : ~Traced(r)}

Early == {"new", "admitted", "created", "retrying"}

UntracedCostFaults == IsFiniteSet(Untraced) /\ Cardinality(Untraced) =< faults

JoinInv == TypeOK /\ JoinTypeOK /\ Apart /\ UntracedCostFaults

LEMMA DispatchIsNext ==
    ASSUME DispatchNext PROVE Next /\ UNCHANGED joinVars
BY DEF DispatchNext, Next, ApiNext

\* What the join steps of the API do to the request, the row and the list.
LEMMA JoinApiFacts ==
    ASSUME TypeOK, JoinTypeOK, NEW q \in Runs,
           JoinApiStep(q) \/ JoinCreateRunRaises(q) \/ JoinPushRaises(q)
    PROVE  /\ TypeOK' /\ JoinTypeOK'
           /\ UNCHANGED <<ready, processing, msg, jprocessing, jpc, jmsg>>
           /\ faults' \in {faults, faults + 1}
           /\ \A r \in Runs : r # q => req'[r] = req[r] /\ row'[r] = row[r]
           /\ \/ /\ jready' = jready /\ req[q] = "admitted"
                 /\ req'[q] \in {"admitted", "created", "rejected", "failed"}
              \/ /\ q \in JoinRuns /\ jready' = LPush(jready, q) /\ row' = row /\ faults' = faults
                 /\ req[q] \in Early /\ req'[q] = "accepted"
              \/ faults' = faults + 1 /\ jready' \in {jready, LPush(jready, q)}
<1>t. /\ row \in RowType /\ {"pending", "failed"} \subseteq Statuses /\ req \in [Runs -> ReqStates]
      /\ {"admitted", "created", "rejected", "failed", "accepted", "retrying", "marking"} \subseteq ReqStates
      /\ jready \in Seq(JoinRuns) /\ faults \in 0..MaxFaults
    BY DEF TypeOK, JoinTypeOK, RowType, Statuses, Active, Terminal, ReqStates
<1>c. MaxFaults \in Nat
    BY ConstantsAssumption
<1>1. CASE JoinCheckConflict(q)
    <2>1. /\ UNCHANGED <<row, events, ready, processing, pc, msg, fatal, heartbeat,
                         executed, crashes, faults, jready, jprocessing, jpc, jmsg, jheartbeat>>
          /\ req[q] = "admitted"
          /\ req' = req \/ req' = [req EXCEPT ![q] = "rejected"]
        BY <1>1 DEF JoinCheckConflict
    <2>2. req' \in [Runs -> ReqStates] /\ req'[q] \in {"admitted", "rejected"}
          /\ \A r \in Runs : r # q => req'[r] = req[r]
        BY <1>t, <2>1
    <2>3. TypeOK'
        BY <2>1, <2>2 DEF TypeOK
    <2>4. JoinTypeOK'
        BY <2>1 DEF JoinTypeOK
    <2> QED BY <2>1, <2>2, <2>3, <2>4
<1>2. CASE JoinCreateRun(q) \/ JoinCreateRunRaises(q)
    <2>1. /\ UNCHANGED <<events, ready, processing, pc, msg, fatal, heartbeat, executed, crashes, joinVars>>
          /\ req[q] = "admitted"
          /\ \E st \in {"created", "rejected", "failed"} : req' = [req EXCEPT ![q] = st]
          /\ row' = row \/ row' = Transition(q, "pending")
          /\ faults' = faults \/ (faults < MaxFaults /\ faults' = faults + 1)
        BY <1>2 DEF JoinCreateRun, JoinCreateRunRaises, Fault
    <2>2. /\ req' \in [Runs -> ReqStates] /\ req'[q] \in {"created", "rejected", "failed"}
          /\ \A r \in Runs : r # q => req'[r] = req[r]
        BY <1>t, <2>1
    <2>3. row' \in RowType /\ \A r \in Runs : r # q => row'[r] = row[r]
        BY <1>t, <2>1, TransitionFacts
    <2>4. faults' \in 0..MaxFaults
        BY <1>t, <1>c, <2>1
    <2>5. TypeOK'
        BY <2>1, <2>2, <2>3, <2>4 DEF TypeOK, RowType
    <2>6. JoinTypeOK' /\ UNCHANGED <<jready, jprocessing, jpc, jmsg>>
        BY <2>1 DEF JoinTypeOK, joinVars
    <2> QED BY <1>t, <2>1, <2>2, <2>3, <2>5, <2>6
<1>3. CASE JoinPush(q) \/ JoinPushRaises(q)
    <2>1. /\ UNCHANGED <<row, events, ready, processing, pc, msg, fatal, heartbeat, executed, crashes,
                         jprocessing, jpc, jmsg>>
          /\ q \in JoinRuns /\ req[q] \in {"created", "retrying"}
          /\ \E st \in {"accepted", "retrying", "marking"} : req' = [req EXCEPT ![q] = st]
          /\ \/ jready' = LPush(jready, q) /\ faults' = faults /\ req' = [req EXCEPT ![q] = "accepted"]
             \/ faults < MaxFaults /\ faults' = faults + 1 /\ jready' \in {jready, LPush(jready, q)}
        BY <1>3 DEF JoinPush, JoinPushRaises, Fault
    <2>2. req' \in [Runs -> ReqStates] /\ \A r \in Runs : r # q => req'[r] = req[r]
        BY <1>t, <2>1
    <2>3. jready' \in Seq(JoinRuns)
        BY <1>t, <2>1, ConsFacts DEF LPush
    <2>4. faults' \in 0..MaxFaults
        BY <1>t, <1>c, <2>1
    <2>5. TypeOK'
        BY <2>1, <2>2, <2>4 DEF TypeOK
    <2>6. JoinTypeOK'
        BY <2>1, <2>3 DEF JoinTypeOK
    <2> QED BY <1>t, <2>1, <2>2, <2>5, <2>6 DEF Early
<1> QED BY <1>1, <1>2, <1>3 DEF JoinApiStep

\* What the steps of an ETL worker do.
LEMMA EtlFacts ==
    ASSUME TypeOK, JoinTypeOK, NEW w \in Etl,
           JoinStart(w) \/ JoinClaimRaises(w) \/ EtlStep(w) \/ JoinCrash(w)
    PROVE  /\ TypeOK' /\ JoinTypeOK'
           /\ UNCHANGED <<req, ready, processing, msg>>
           /\ faults' \in {faults, faults + 1}
           /\ \A v \in Etl : v # w => jpc'[v] = jpc[v] /\ jmsg'[v] = jmsg[v]
           /\ jmsg'[w] \in {jmsg[w], NoRun} \/ (jmsg[w] = NoRun /\ JoinClaim(w))
           /\ row' = row \/ (jmsg[w] \in JoinRuns /\ \A r \in Runs : r # jmsg[w] => row'[r] = row[r])
<1>t. /\ row \in RowType /\ {"running", "failed"} \subseteq Statuses
      /\ events \in SUBSET (Runs \X Terminal)
      /\ jready \in Seq(JoinRuns) /\ jprocessing \in Seq(JoinRuns) /\ faults \in 0..MaxFaults
      /\ crashes \in 0..MaxCrashes
      /\ jpc \in [Etl -> JPcStates] /\ jmsg \in [Etl -> JoinRuns \cup {NoRun}]
      /\ (jmsg[w] # NoRun) <=> (jpc[w] \notin {"down", "polling"})
    BY DEF TypeOK, JoinTypeOK, RowType, Statuses, Active, Terminal
<1>c. MaxFaults \in Nat /\ MaxCrashes \in Nat /\ NoRun \notin JoinRuns /\ JoinRuns \subseteq Runs
    BY ConstantsAssumption, JoinAssumption
<1>1. CASE JoinStart(w)
    <2>1. /\ UNCHANGED <<vars, jready, jprocessing, jmsg>>
          /\ jpc[w] = "down" /\ jpc' = [jpc EXCEPT ![w] = "polling"]
        BY <1>1 DEF JoinStart, JGoto
    <2>2. TypeOK' /\ UNCHANGED <<row, req, ready, processing, msg, faults>>
        BY <2>1 DEF TypeOK, vars
    <2>3. JoinTypeOK'
        BY <1>t, <2>1 DEF JoinTypeOK, JPcStates
    <2> QED BY <1>t, <2>1, <2>2, <2>3
<1>2. CASE JoinClaim(w)
    <2>1. /\ UNCHANGED vars /\ jpc[w] = "polling" /\ jready # <<>>
          /\ jready' = Front(jready) /\ jprocessing' = LPush(jprocessing, Last(jready))
          /\ jmsg' = [jmsg EXCEPT ![w] = Last(jready)] /\ jpc' = [jpc EXCEPT ![w] = "claimed"]
        BY <1>2 DEF JoinClaim, JGoto
    <2>2. TypeOK' /\ UNCHANGED <<row, req, ready, processing, msg, faults>>
        BY <2>1 DEF TypeOK, vars
    <2>3. Front(jready) \in Seq(JoinRuns) /\ Last(jready) \in JoinRuns
        BY <1>t, <2>1, FrontLastFacts
    <2>4. LPush(jprocessing, Last(jready)) \in Seq(JoinRuns)
        BY <1>t, <2>3, ConsFacts DEF LPush
    <2>5. JoinTypeOK'
        BY <1>c, <2>1, <2>3, <2>4 DEF JoinTypeOK, JPcStates
    <2> QED BY <1>2, <1>t, <2>1, <2>2, <2>5
<1>3. CASE JoinClaimRaises(w)
    <2>1. /\ UNCHANGED <<row, events, req, ready, processing, pc, msg, fatal, heartbeat, executed, crashes, jmsg>>
          /\ jpc[w] = "polling" /\ jpc' = [jpc EXCEPT ![w] = "down"]
          /\ faults < MaxFaults /\ faults' = faults + 1
          /\ \/ UNCHANGED <<jready, jprocessing>>
             \/ /\ jready # <<>> /\ jready' = Front(jready)
                /\ jprocessing' = LPush(jprocessing, Last(jready))
        BY <1>3 DEF JoinClaimRaises, JGoto, Fault
    <2>2. faults' \in 0..MaxFaults
        BY <1>t, <1>c, <2>1
    <2>3. TypeOK'
        BY <2>1, <2>2 DEF TypeOK
    <2>4. jready' \in Seq(JoinRuns) /\ jprocessing' \in Seq(JoinRuns)
        <3>1. jready # <<>> => Front(jready) \in Seq(JoinRuns) /\ Last(jready) \in JoinRuns
            BY <1>t, FrontLastFacts
        <3>2. jready # <<>> => LPush(jprocessing, Last(jready)) \in Seq(JoinRuns)
            BY <1>t, <3>1, ConsFacts DEF LPush
        <3> QED BY <1>t, <2>1, <3>1, <3>2
    <2>5. JoinTypeOK'
        BY <1>t, <2>1, <2>4 DEF JoinTypeOK, JPcStates
    <2> QED BY <1>t, <2>1, <2>3, <2>5
<1>4. CASE JoinProgress(w) \/ JoinRaises(w) \/ JoinReportFailure(w)
    <2>1. /\ UNCHANGED <<req, ready, processing, pc, msg, fatal, heartbeat, executed, crashes,
                         jready, jprocessing, jmsg>>
          /\ jpc[w] \in {"claimed", "resolving", "joining", "failing"}
          /\ \E l \in {"resolving", "joining", "failing", "acking"} : jpc' = [jpc EXCEPT ![w] = l]
          /\ faults' = faults \/ (faults < MaxFaults /\ faults' = faults + 1)
          /\ \/ UNCHANGED <<row, events>>
             \/ \E st \in {"running", "failed"} :
                   ReportApplied(jmsg[w], st) \/ ReportRefusedEffect(jmsg[w], st) \/ ReportErrorEffect(jmsg[w], st)
        BY <1>4 DEF JoinProgress, JoinRaises, JoinReportFailure, JGoto, Fault
    <2>2. jmsg[w] \in JoinRuns
        BY <1>t, <2>1
    <2>3. \/ UNCHANGED <<row, events>>
          \/ \E st \in {"running", "failed"} : StoreStep(jmsg[w], st)
        BY <1>t, <1>c, <2>1, <2>2, ReportIsStoreStep
    <2>4. row' \in RowType /\ events' \in SUBSET (Runs \X Terminal)
        BY <1>t, <1>c, <2>2, <2>3, StoreStepType
    <2>5. \A r \in Runs : r # jmsg[w] => row'[r] = row[r]
        BY <1>t, <1>c, <2>2, <2>3, TransitionFacts DEF StoreStep
    <2>6. faults' \in 0..MaxFaults
        BY <1>t, <1>c, <2>1
    <2>7. TypeOK'
        BY <2>1, <2>4, <2>6 DEF TypeOK, RowType
    <2>8. JoinTypeOK'
        BY <1>t, <2>1 DEF JoinTypeOK, JPcStates
    <2> QED BY <1>t, <2>1, <2>2, <2>5, <2>7, <2>8
<1>5. CASE BuildJoinedDataframe(w)
    <2>1. /\ UNCHANGED <<vars, jready, jprocessing, jmsg>>
          /\ jpc[w] = "joining" /\ jpc' = [jpc EXCEPT ![w] = "failing"]
        BY <1>5 DEF BuildJoinedDataframe, JGoto
    <2>2. TypeOK' /\ UNCHANGED <<row, req, ready, processing, msg, faults>>
        BY <2>1 DEF TypeOK, vars
    <2>3. JoinTypeOK'
        BY <1>t, <2>1 DEF JoinTypeOK, JPcStates
    <2> QED BY <1>t, <2>1, <2>2, <2>3
<1>6. CASE JoinAck(w) \/ JoinCrash(w)
    <2>1. /\ UNCHANGED <<row, events, req, ready, processing, pc, msg, fatal, heartbeat, executed, jready>>
          /\ jmsg' = [jmsg EXCEPT ![w] = NoRun]
          /\ \E l \in {"polling", "down"} : jpc' = [jpc EXCEPT ![w] = l]
          /\ faults' = faults \/ (faults < MaxFaults /\ faults' = faults + 1)
          /\ crashes' = crashes \/ (crashes < MaxCrashes /\ crashes' = crashes + 1)
          /\ jprocessing' \in {jprocessing, LRem(jprocessing, jmsg[w])}
        BY <1>6 DEF JoinAck, JoinCrash, JGoto, Fault
    <2>2. faults' \in 0..MaxFaults /\ crashes' \in 0..MaxCrashes
        BY <1>t, <1>c, <2>1
    <2>3. TypeOK'
        BY <2>1, <2>2 DEF TypeOK
    <2>4. jprocessing' \in Seq(JoinRuns)
        BY <1>t, <2>1, RemoveFirstFacts DEF LRem
    <2>5. JoinTypeOK'
        BY <1>t, <1>c, <2>1, <2>4 DEF JoinTypeOK, JPcStates
    <2> QED BY <1>t, <2>1, <2>3, <2>5
<1> QED BY <1>1, <1>2, <1>3, <1>4, <1>5, <1>6 DEF EtlStep

\* The steps of the API and of the GX workers that are not about joins leave
\* the join dispatches where they are: a row of them is changed only to an
\* end, and a message of them is not there to be moved.
LEMMA DispatchFrame ==
    ASSUME TypeOK, Apart, DispatchNext
    PROVE  /\ faults' \in {faults, faults + 1}
           /\ \A r \in JoinRuns :
                 /\ row'[r] = row[r] \/ ~IsActive(r)'
                 /\ \/ req'[r] = req[r]
                    \/ req[r] \in Early /\ req'[r] \in Early
                    \/ req'[r] \notin Early \cup {"accepted"}
<1>t. /\ row \in RowType /\ {"pending", "running", "failed"} \subseteq Statuses
      /\ Active \cup Terminal \subseteq Statuses /\ req \in [Runs -> ReqStates] /\ faults \in Nat
    BY DEF TypeOK, RowType, Statuses, Active, Terminal
<1>c. JoinRuns \subseteq Runs
    BY JoinAssumption
<1>1. ASSUME NEW q \in Runs, CheckHeartbeat(q)
      PROVE  /\ faults' = faults /\ row' = row
             /\ \A r \in JoinRuns : req'[r] = req[r] \/ (req[r] = "new" /\ req'[r] \in {"admitted", "rejected"})
    BY <1>1, <1>t, <1>c DEF CheckHeartbeat
<1>2. ASSUME NEW q \in Runs, MarkEnqueueFailed(q) \/ Purge(q)
      PROVE  /\ faults' = faults
             /\ \A r \in JoinRuns : /\ row'[r] = row[r] \/ ~IsActive(r)'
                                    /\ req'[r] = req[r] \/ req'[r] = "failed"
    <2>1. /\ faults' = faults
          /\ (req' = req \/ req' = [req EXCEPT ![q] = "failed"])
          /\ (row' = Transition(q, "failed") \/ row' = [row EXCEPT ![q] = [status |-> "absent", completed |-> FALSE]])
        BY <1>2 DEF MarkEnqueueFailed, Purge
    <2>2. row'[q].status \in {"failed", "absent"} /\ \A r \in Runs : r # q => row'[r] = row[r]
        BY <1>t, <2>1, TransitionFacts DEF RowType
    <2>3. \A r \in Runs : row'[r] = row[r] \/ ~IsActive(r)'
        BY <2>2 DEF IsActive, Active
    <2> QED BY <1>t, <1>c, <2>1, <2>3
<1>3. ASSUME NEW q \in Runs \ JoinRuns,
             \/ CreateRun(q) \/ CreateRunRaises(q) \/ Push(q) \/ PushRaises(q) \/ StartSuiteRun(q)
             \/ \E st \in Active \cup Terminal : ExternalReport(q, st)
      PROVE  /\ faults' \in {faults, faults + 1}
             /\ \A r \in JoinRuns : row'[r] = row[r] /\ req'[r] = req[r]
    <2>1. CASE CreateRun(q) \/ CreateRunRaises(q) \/ StartSuiteRun(q)
        <3>1. /\ faults' \in {faults, faults + 1}
              /\ (row' = row \/ row' = Transition(q, "pending"))
              /\ \A r \in Runs : r # q => req'[r] = req[r]
            BY <1>t, <2>1 DEF CreateRun, CreateRunRaises, StartSuiteRun, Fault
        <3>2. \A r \in Runs : r # q => row'[r] = row[r]
            BY <1>t, <3>1, TransitionFacts
        <3> QED BY <1>c, <3>1, <3>2
    <2>2. CASE Push(q) \/ PushRaises(q)
        BY <1>t, <1>c, <2>2 DEF Push, PushRaises, Fault
    <2>3. ASSUME NEW st \in Active \cup Terminal, ExternalReport(q, st)
          PROVE  /\ faults' = faults
                 /\ \A r \in JoinRuns : row'[r] = row[r] /\ req'[r] = req[r]
        <3>1. /\ ReportApplied(q, st) \/ ReportRefusedEffect(q, st)
              /\ UNCHANGED <<req, faults>>
            BY <2>3 DEF ExternalReport
        <3>2. StoreStep(q, st)
            BY <1>t, <3>1, ReportIsStoreStep
        <3> QED BY <1>t, <1>c, <3>1, <3>2, TransitionFacts DEF StoreStep
    <2> QED BY <1>3, <2>1, <2>2, <2>3
<1>4. CASE ApiCrash
    BY <1>4, <1>t, <1>c DEF ApiCrash, Early
<1>5. ASSUME WorkerNext
      PROVE  req' = req /\ faults' \in {faults, faults + 1} /\ \A r \in JoinRuns : row'[r] = row[r]
    <2> DEFINE Reports(w, st) == /\ pc[w] \in {"claimed", "working", "reporting"}
                                 /\ \/ ReportApplied(msg[w], st) \/ ReportRefusedEffect(msg[w], st)
                                    \/ ReportErrorEffect(msg[w], st)
    <2>1. /\ req' = req /\ faults' \in {faults, faults + 1}
          /\ (row' = row \/ \E w \in Workers : \E st \in {"running", "failed"} : Reports(w, st))
        <3>1. CASE HeartbeatExpires
            BY <3>1 DEF HeartbeatExpires, Fault
        <3>2. ASSUME NEW w \in Workers,
                     \/ ReportProgress(w) \/ ProgressRaises(w) \/ ReportFailure(w) \/ ReportFailureRaises(w)
              PROVE  /\ req' = req /\ faults' \in {faults, faults + 1}
                     /\ (row' = row \/ \E st \in {"running", "failed"} : Reports(w, st))
            BY <3>2 DEF ReportProgress, ProgressRaises, ReportFailure, ReportFailureRaises, Fault
        <3>3. ASSUME NEW w \in Workers,
                     \/ StartWorker(w) \/ Recover(w) \/ RecoveryFails(w) \/ Claim(w) \/ ClaimReplyLost(w)
                     \/ \E f \in BOOLEAN : ExecutionRaises(w, f)
                     \/ Finish(w) \/ Ack(w) \/ AckRaises(w) \/ Cleanup(w) \/ CleanupRaises(w)
                     \/ Crash(w) \/ WriteHeartbeat(w)
              PROVE  row' = row /\ req' = req /\ faults' \in {faults, faults + 1}
            BY <3>3 DEF StartWorker, Recover, RecoveryFails, Claim, ClaimReplyLost, ExecutionRaises,
                        Finish, Ack, AckRaises, Cleanup, CleanupRaises, Crash, WriteHeartbeat, Fault
        <3> QED BY <1>5, <3>1, <3>2, <3>3 DEF WorkerNext
    <2>2. ASSUME NEW w \in Workers, NEW st \in {"running", "failed"}, Reports(w, st)
          PROVE  \A r \in JoinRuns : row'[r] = row[r]
        <3>1. msg[w] \in Runs \ JoinRuns
            BY <2>2, HoldsRun DEF Apart
        <3>2. StoreStep(msg[w], st)
            BY <1>t, <2>2, <3>1, ReportIsStoreStep
        <3> QED BY <1>t, <1>c, <3>1, <3>2, TransitionFacts DEF StoreStep
    <2> QED BY <2>1, <2>2
<1> QED BY <1>1, <1>2, <1>3, <1>4, <1>5 DEF DispatchNext, Early

\* Nor do they take a join dispatch into their lists.
LEMMA ApartStep ==
    ASSUME TypeOK, JoinTypeOK, Apart, [JoinNext]_allVars PROVE Apart'
<1>t. ready \in Seq(Runs) /\ processing \in Seq(Runs) /\ NoRun \notin JoinRuns /\ msg \in [Workers -> Runs \cup {NoRun}]
    BY ConstantsAssumption, JoinAssumption DEF TypeOK
<1>1. ASSUME UNCHANGED <<ready, processing, msg>> PROVE Apart'
    BY <1>1 DEF Apart, Queued
<1>2. ASSUME NEW q \in Runs, Queued' \subseteq Queued \cup {q}, q \notin JoinRuns, msg' = msg PROVE Apart'
    BY <1>2 DEF Apart
<1>3. ASSUME Queued' \subseteq Queued, NEW w \in Workers, NEW m \in Queued \cup {NoRun, msg[w]},
             msg' = [msg EXCEPT ![w] = m]
      PROVE  Apart'
    BY <1>3, <1>t DEF Apart
<1>4. CASE DispatchNext
    <2>1. ASSUME NEW q \in Runs, CheckHeartbeat(q) \/ MarkEnqueueFailed(q) \/ Purge(q) PROVE Apart'
        BY <1>1, <2>1 DEF CheckHeartbeat, MarkEnqueueFailed, Purge
    <2>2. ASSUME NEW q \in Runs \ JoinRuns,
                 \/ CreateRun(q) \/ CreateRunRaises(q) \/ StartSuiteRun(q)
                 \/ \E st \in Active \cup Terminal : ExternalReport(q, st)
          PROVE  Apart'
        BY <1>1, <2>2 DEF CreateRun, CreateRunRaises, StartSuiteRun, ExternalReport
    <2>3. ASSUME NEW q \in Runs \ JoinRuns, Push(q) \/ PushRaises(q) PROVE Apart'
        <3>1. msg' = msg /\ processing' = processing /\ ready' \in {ready, LPush(ready, q)}
            BY <2>3 DEF Push, PushRaises
        <3>2. ToSet(LPush(ready, q)) = {q} \cup ToSet(ready)
            BY <1>t, ConsFacts DEF LPush
        <3> QED BY <3>1, <3>2 DEF Apart, Queued
    <2>4. CASE ApiCrash \/ HeartbeatExpires
        BY <1>1, <2>4 DEF ApiCrash, HeartbeatExpires
    <2>5. ASSUME NEW w \in Workers, StartWorker(w) \/ ReportProgress(w) \/ ProgressRaises(w)
                     \/ (\E f \in BOOLEAN : ExecutionRaises(w, f)) \/ Finish(w) \/ ReportFailure(w) \/ WriteHeartbeat(w)
          PROVE  Apart'
        BY <1>1, <2>5 DEF StartWorker, ReportProgress, ProgressRaises, ExecutionRaises, Finish, ReportFailure, WriteHeartbeat
    <2>6. ASSUME NEW w \in Workers, Recover(w) \/ RecoveryFails(w) \/ ClaimReplyLost(w) PROVE Apart'
        <3>1. msg' = msg /\ (UNCHANGED queueVars \/ MoveToReady \/ MoveToProcessing)
            BY <2>6 DEF Recover, RecoveryFails, ClaimReplyLost
        <3>2. Queued' = Queued
            BY <1>t, <3>1, MoveToReadyFacts, MoveToProcessingFacts DEF queueVars, Queued
        <3> QED BY <3>1, <3>2 DEF Apart
    <2>7. ASSUME NEW w \in Workers, Claim(w) PROVE Apart'
        <3>1. MoveToProcessing /\ msg' = [msg EXCEPT ![w] = Last(ready)]
            BY <2>7 DEF Claim
        <3>2. Queued' = Queued /\ Last(ready) \in Queued
            BY <1>t, <3>1, MoveToProcessingFacts DEF Queued
        <3> QED BY <1>3, <3>1, <3>2
    <2>8. ASSUME NEW w \in Workers, Ack(w) \/ AckRaises(w) \/ ReportFailureRaises(w) \/ Cleanup(w)
                                       \/ CleanupRaises(w) \/ Crash(w)
          PROVE  Apart'
        <3>1. /\ ready' = ready /\ processing' \in {processing, LRem(processing, msg[w])}
              /\ \E m \in {NoRun, msg[w]} : msg' = [msg EXCEPT ![w] = m]
            BY <2>8, <1>t DEF Ack, AckRaises, ReportFailureRaises, Cleanup, CleanupRaises, Crash, LeaveHandler
        <3>2. ToSet(LRem(processing, msg[w])) \subseteq ToSet(processing)
            BY <1>t, RemoveFirstFacts DEF LRem
        <3>3. Queued' \subseteq Queued
            BY <3>1, <3>2 DEF Queued
        <3> QED BY <1>3, <3>1, <3>3
    <2> QED BY <1>4, <2>1, <2>2, <2>3, <2>4, <2>5, <2>6, <2>7, <2>8 DEF DispatchNext, WorkerNext
<1>5. ASSUME NEW q \in Runs, JoinApiStep(q) \/ JoinCreateRunRaises(q) \/ JoinPushRaises(q) PROVE Apart'
    BY <1>1, <1>5, JoinApiFacts
<1>6. ASSUME NEW w \in Etl, JoinStart(w) \/ JoinClaimRaises(w) \/ EtlStep(w) \/ JoinCrash(w) PROVE Apart'
    BY <1>1, <1>6, EtlFacts
<1>7. CASE JoinHeartbeatExpires \/ UNCHANGED allVars
    BY <1>1, <1>7 DEF JoinHeartbeatExpires, allVars, vars
<1> QED BY <1>4, <1>5, <1>6, <1>7 DEF JoinNext

\* A push of another message, or of one that is not there yet, and a pop do
\* not repeat a message; a message popped from its only place is gone.
LEMMA OncePushed ==
    ASSUME NEW S, NEW s \in Seq(S), NEW e \in S, NEW r, Once(s, r), r = e => r \notin ToSet(s)
    PROVE  Once(Cons(e, s), r)
<1>1. Len(Cons(e, s)) = Len(s) + 1 /\ Len(s) \in Nat /\ Cons(e, s)[1] = e
    BY DEF Cons
<1>2. \A i \in 1..(Len(s) + 1) : i = 1 \/ (i - 1 \in 1..Len(s) /\ Cons(e, s)[i] = s[i - 1])
    BY DEF Cons
<1>3. \A i \in 1..Len(s) : s[i] \in ToSet(s)
    BY DEF ToSet
<1> SUFFICES ASSUME NEW i \in 1..(Len(s) + 1), NEW k \in 1..(Len(s) + 1),
                    Cons(e, s)[i] = r, Cons(e, s)[k] = r
             PROVE  i = k
    BY <1>1 DEF Once
<1>4. CASE i # 1 /\ k # 1
    <2>1. i - 1 = k - 1
        BY <1>2, <1>4 DEF Once
    <2> QED BY <2>1
<1>5. CASE i = 1 \/ k = 1
    BY <1>1, <1>2, <1>3, <1>5
<1> QED BY <1>4, <1>5

LEMMA OncePopped ==
    ASSUME NEW S, NEW s \in Seq(S), s # <<>>, NEW r, Once(s, r)
    PROVE  Once(Front(s), r) /\ (r = Last(s) => r \notin ToSet(Front(s)))
<1>1. Len(s) \in Nat \ {0} /\ Last(s) = s[Len(s)]
    BY DEF Last
<1>2. Len(Front(s)) = Len(s) - 1 /\ \A i \in 1..(Len(s) - 1) : Front(s)[i] = s[i]
    BY FrontElements
<1>3. Once(Front(s), r)
    BY <1>1, <1>2 DEF Once
<1>4. ASSUME r = Last(s), r \in ToSet(Front(s)) PROVE FALSE
    <2>1. PICK i \in 1..(Len(s) - 1) : Front(s)[i] = r
        BY <1>2, <1>4 DEF ToSet
    <2>2. s[i] = r /\ s[Len(s)] = r /\ i \in 1..Len(s) /\ Len(s) \in 1..Len(s) /\ i # Len(s)
        BY <1>1, <1>2, <1>4, <2>1
    <2> QED BY <2>2 DEF Once
<1> QED BY <1>3, <1>4

\* The request of a join dispatch stays, goes on towards its push, or leaves
\* the path on which it is accepted.
ReqStays(r) ==
    \/ req'[r] = req[r]
    \/ req[r] \in Early /\ req'[r] \in Early
    \/ req'[r] \notin Early \cup {"accepted"}

\* A step that neither repeats nor moves nor takes the message of r, and only
\* ends its run, leaves r traced.
LEMMA TracedFrame ==
    ASSUME NEW r \in JoinRuns, Traced(r), ReqStays(r),
           row'[r] = row[r] \/ ~IsActive(r)',
           (r \in ToSet(jready)') <=> (r \in ToSet(jready)),
           Once(jready, r) => Once(jready, r)',
           r \in ToSet(jprocessing) => r \in ToSet(jprocessing)',
           \A v \in Etl : jmsg'[v] = r =>
               jmsg[v] = r /\ (jpc'[v] = "acking" => jpc[v] = "acking" \/ ~IsActive(r)')
    PROVE  Traced(r)'
<1>a. IsActive(r)' => IsActive(r)
    BY DEF IsActive
<1>1. CASE req'[r] \in Early
    <2>1. req[r] \in Early /\ req'[r] # "accepted"
        BY <1>1 DEF ReqStays, Early
    <2>2. r \notin ToSet(jready) /\ ~Held(r)
        BY <2>1 DEF Traced, Early
    <2>3. r \notin ToSet(jready)' /\ ~Held(r)'
        BY <2>2 DEF Held
    <2> QED BY <2>1, <2>3 DEF Traced
<1>2. CASE req'[r] = "accepted"
    <2>1. req[r] = "accepted" /\ req'[r] \notin Early
        BY <1>2 DEF ReqStays, Early
    <2>2. /\ Once(jready, r)
          /\ r \in ToSet(jready) => ~Held(r)
          /\ \A v, w \in Etl : jmsg[v] = r /\ jmsg[w] = r => v = w
          /\ \A w \in Etl : jmsg[w] = r =>
                r \in ToSet(jprocessing) /\ (jpc[w] = "acking" => ~IsActive(r))
          /\ IsActive(r) => r \in ToSet(jready) \cup ToSet(jprocessing)
        BY <2>1 DEF Traced
    <2>3. r \in ToSet(jready)' => ~Held(r)'
        BY <2>2 DEF Held
    <2>4. \A v, w \in Etl : jmsg'[v] = r /\ jmsg'[w] = r => v = w
        BY <2>2
    <2>5. \A w \in Etl : jmsg'[w] = r =>
              r \in ToSet(jprocessing)' /\ (jpc'[w] = "acking" => ~IsActive(r)')
        BY <1>a, <2>2
    <2>6. IsActive(r)' => r \in ToSet(jready)' \cup ToSet(jprocessing)'
        BY <1>a, <2>2
    <2> QED BY <2>1, <2>2, <2>3, <2>4, <2>5, <2>6 DEF Traced, Early
<1>3. CASE req'[r] \notin Early \cup {"accepted"}
    BY <1>3 DEF Traced, Early
<1> QED BY <1>1, <1>2, <1>3

\* The join steps of the API: a push leaves the request it is for traced
\* unless it raises.
LEMMA TracedApi ==
    ASSUME TypeOK, JoinTypeOK, NEW q \in Runs,
           JoinApiStep(q) \/ JoinCreateRunRaises(q) \/ JoinPushRaises(q),
           NEW r \in JoinRuns, Traced(r), r = q => faults' # faults + 1
    PROVE  Traced(r)'
<1>0. /\ UNCHANGED <<jprocessing, jpc, jmsg>> /\ jready \in Seq(JoinRuns) /\ faults \in Nat
      /\ r # q => req'[r] = req[r] /\ row'[r] = row[r]
    BY JoinApiFacts, JoinAssumption, ConstantsAssumption DEF JoinTypeOK, TypeOK
<1>1. CASE r # q
    <2>1. jready' = jready \/ (q \in JoinRuns /\ jready' = LPush(jready, q))
        BY JoinApiFacts DEF JoinApiStep, JoinCheckConflict, JoinCreateRun, JoinCreateRunRaises, JoinPush,
                            JoinPushRaises, joinVars
    <2>2. (r \in ToSet(jready)') <=> (r \in ToSet(jready))
        BY <1>0, <1>1, <2>1, ConsFacts DEF LPush
    <2>3. Once(jready, r) => Once(jready, r)'
        BY <1>0, <1>1, <2>1, OncePushed DEF LPush
    <2>4. ReqStays(r)
        BY <1>0, <1>1 DEF ReqStays
    <2> QED BY <1>0, <1>1, <2>2, <2>3, <2>4, TracedFrame
<1>2. CASE r = q /\ jready' = jready /\ req[q] = "admitted" /\ req'[q] \in {"admitted", "created", "rejected", "failed"}
    <2>1. r \notin ToSet(jready) /\ ~Held(r)
        BY <1>2 DEF Traced
    <2>2. r \notin ToSet(jready)' /\ ~Held(r)'
        BY <1>0, <1>2, <2>1 DEF Held
    <2> QED BY <1>2, <2>2 DEF Traced
<1>3. CASE r = q /\ q \in JoinRuns /\ jready' = LPush(jready, q) /\ row' = row /\ req[q] \in Early /\ req'[q] = "accepted"
    <2>1. r \notin ToSet(jready) /\ ~Held(r)
        BY <1>3 DEF Traced, Early
    <2>2. ToSet(jready)' = {r} \cup ToSet(jready)
        BY <1>0, <1>3, ConsFacts DEF LPush
    <2>3. ~Held(r)' /\ \A w \in Etl : jmsg'[w] # r
        BY <1>0, <2>1 DEF Held
    <2>4. Once(jready, r)
        BY <1>0, <2>1 DEF Once, ToSet
    <2>5. Once(jready, r)'
        BY <1>0, <1>3, <2>1, <2>4, OncePushed DEF LPush
    <2> QED BY <1>3, <2>2, <2>3, <2>5 DEF Traced
<1>4. CASE r = q
    BY <1>2, <1>3, <1>4, JoinApiFacts
<1> QED BY <1>1, <1>4

\* Only the message a worker claims changes its place.
LEMMA TracedClaim ==
    ASSUME TypeOK, JoinTypeOK, NEW w \in Etl, JoinClaim(w) \/ JoinClaimRaises(w), NEW r \in JoinRuns, Traced(r)
    PROVE  Traced(r)'
<1>t. /\ jready \in Seq(JoinRuns) /\ jprocessing \in Seq(JoinRuns) /\ jmsg \in [Etl -> JoinRuns \cup {NoRun}]
      /\ jpc \in [Etl -> JPcStates]
    BY DEF JoinTypeOK
<1>1. /\ req' = req /\ row' = row
      /\ \/ UNCHANGED <<jready, jprocessing>>
         \/ jready # <<>> /\ jready' = Front(jready) /\ jprocessing' = LPush(jprocessing, Last(jready))
      /\ \/ jmsg' = jmsg
         \/ jready # <<>> /\ jready' = Front(jready) /\ jmsg' = [jmsg EXCEPT ![w] = Last(jready)]
      /\ \E l \in {"claimed", "down"} : jpc' = [jpc EXCEPT ![w] = l]
    BY DEF JoinClaim, JoinClaimRaises, JGoto, vars
<1>2. jready # <<>> => /\ Last(jready) \in JoinRuns
                       /\ ToSet(jready) = ToSet(Front(jready)) \cup {Last(jready)}
                       /\ Once(jready, r) => Once(Front(jready), r) /\ (r = Last(jready) => r \notin ToSet(Front(jready)))
    BY <1>t, FrontLastFacts, OncePopped
<1>3. jready # <<>> => ToSet(LPush(jprocessing, Last(jready))) = {Last(jready)} \cup ToSet(jprocessing)
    BY <1>t, <1>2, ConsFacts DEF LPush
<1>4. ReqStays(r)
    BY <1>1 DEF ReqStays
<1>5. \A v \in Etl : jpc'[v] = "acking" => jpc[v] = "acking"
    BY <1>t, <1>1
<1>6. \A v \in Etl : v # w => jmsg'[v] = jmsg[v]
    BY <1>t, <1>1
<1>7. CASE jready = <<>> \/ r # Last(jready) \/ UNCHANGED jready
    <2>1. (r \in ToSet(jready)') <=> (r \in ToSet(jready))
        BY <1>1, <1>2, <1>7
    <2>2. Once(jready, r) => Once(jready, r)'
        BY <1>1, <1>2
    <2>3. r \in ToSet(jprocessing) => r \in ToSet(jprocessing)'
        BY <1>1, <1>3
    <2>4. jready' = jready => jready = <<>> \/ Len(jready) # Len(Front(jready))
        BY <1>t, FrontElements
    <2>5. \A v \in Etl : jmsg'[v] = r => jmsg[v] = r
        BY <1>t, <1>1, <1>7, <2>4
    <2> QED BY <1>1, <1>4, <1>5, <2>1, <2>2, <2>3, <2>5, TracedFrame
<1>8. CASE jready # <<>> /\ r = Last(jready) /\ jready' = Front(jready) /\ jprocessing' = LPush(jprocessing, Last(jready))
    <2>1. r \in ToSet(jready)
        BY <1>2, <1>8
    <2>2. req[r] \notin {"new", "admitted", "created", "retrying"}
        BY <2>1 DEF Traced
    <2>3. CASE req[r] = "accepted"
        <3>1. Once(jready, r) /\ ~Held(r)
            BY <2>1, <2>3 DEF Traced
        <3>2. Once(jready, r)' /\ r \notin ToSet(jready)' /\ r \in ToSet(jprocessing)'
            BY <1>2, <1>3, <1>8, <3>1
        <3>3. \A v \in Etl : jmsg'[v] = r => v = w
            BY <1>6, <3>1 DEF Held
        <3>4. jmsg'[w] = r => jpc'[w] # "acking"
            BY <1>t, <1>1
        <3> QED BY <1>1, <2>3, <3>2, <3>3, <3>4 DEF Traced
    <2> QED BY <1>1, <2>2, <2>3 DEF Traced
<1> QED BY <1>1, <1>7, <1>8

\* A worker that reports while it holds its message leaves every dispatch
\* traced, except when its failure report is lost.
LEMMA TracedReport ==
    ASSUME TypeOK, JoinTypeOK, NEW w \in Etl, JoinProgress(w) \/ JoinRaises(w) \/ JoinReportFailure(w),
           NEW r \in JoinRuns, Traced(r), r = jmsg[w] => faults' # faults + 1 \/ jpc'[w] # "acking"
    PROVE  Traced(r)'
<1>t. /\ jmsg \in [Etl -> JoinRuns \cup {NoRun}] /\ jpc \in [Etl -> JPcStates] /\ faults \in Nat
      /\ (jmsg[w] # NoRun) <=> (jpc[w] \notin {"down", "polling"})
      /\ row \in RowType /\ {"running", "failed"} \subseteq Statuses /\ JoinRuns \subseteq Runs
    BY JoinAssumption, ConstantsAssumption DEF JoinTypeOK, TypeOK, RowType, Statuses, Active, Terminal
<1>1. /\ req' = req /\ jready' = jready /\ jprocessing' = jprocessing /\ jmsg' = jmsg
      /\ \E l \in {"resolving", "joining", "failing", "acking"} : jpc' = [jpc EXCEPT ![w] = l]
      /\ jpc[w] \in {"claimed", "resolving", "joining", "failing"}
    BY DEF JoinProgress, JoinRaises, JoinReportFailure, JGoto
<1>2. \A v \in Etl : v # w => jpc'[v] = jpc[v]
    BY <1>t, <1>1
<1>3. jmsg[w] \in JoinRuns
    BY <1>t, <1>1
<1>4. ReqStays(r)
    BY <1>1 DEF ReqStays
<1>5. CASE r # jmsg[w]
    <2>1. row'[r] = row[r]
        BY <1>5, <1>t, EtlFacts DEF EtlStep
    <2> QED BY <1>1, <1>2, <1>4, <1>5, <2>1, TracedFrame
<1>6. CASE r = jmsg[w]
    <2>1. jpc'[w] = "acking" => ~IsActive(r)'
        <3> SUFFICES ASSUME jpc'[w] = "acking" PROVE ~IsActive(r)'
            OBVIOUS
        <3>1. JoinReportFailure(w) /\ faults' # faults + 1
            BY <1>t, <1>6 DEF JoinProgress, JoinRaises, JGoto
        <3>2. \/ Exists(r) /\ row' = Transition(r, "failed")
              \/ ~Exists(r) /\ row' = row
            BY <1>6, <3>1 DEF JoinReportFailure, Fault, ReportApplied, ReportRefusedEffect
        <3>3. Transition(r, "failed")[r].status = "failed"
            BY <1>t, TransitionFacts
        <3> QED BY <3>2, <3>3 DEF IsActive, Exists, Active
    <2>2. Held(r)
        BY <1>6 DEF Held
    <2>3. req[r] \notin {"new", "admitted", "created", "retrying"}
        BY <2>2 DEF Traced
    <2>4. CASE req[r] = "accepted"
        <3>1. /\ Once(jready, r) /\ r \notin ToSet(jready)
              /\ \A v \in Etl : jmsg[v] = r => v = w
              /\ r \in ToSet(jprocessing)
            BY <1>6, <2>2, <2>4 DEF Traced
        <3> QED BY <1>1, <2>1, <2>4, <3>1 DEF Traced
    <2> QED BY <1>1, <2>3, <2>4 DEF Traced
<1> QED BY <1>5, <1>6

\* The LREM takes the message of a run that is over, the others keep theirs.
LEMMA TracedAck ==
    ASSUME TypeOK, JoinTypeOK, NEW w \in Etl, JoinAck(w), NEW r \in JoinRuns, Traced(r)
    PROVE  Traced(r)'
<1>t. /\ jmsg \in [Etl -> JoinRuns \cup {NoRun}] /\ jpc \in [Etl -> JPcStates]
      /\ jprocessing \in Seq(JoinRuns) /\ NoRun \notin JoinRuns
    BY ConstantsAssumption, JoinAssumption DEF JoinTypeOK
<1>1. /\ req' = req /\ row' = row /\ jready' = jready /\ jpc[w] = "acking"
      /\ jmsg' = [jmsg EXCEPT ![w] = NoRun] /\ jpc' = [jpc EXCEPT ![w] = "polling"]
      /\ jprocessing' \in {jprocessing, LRem(jprocessing, jmsg[w])}
    BY DEF JoinAck, JGoto
<1>2. /\ jmsg'[w] # r /\ jpc'[w] # "acking"
      /\ \A v \in Etl : v # w => jmsg'[v] = jmsg[v] /\ jpc'[v] = jpc[v]
    BY <1>t, <1>1
<1>3. ReqStays(r)
    BY <1>1 DEF ReqStays
<1>4. r # jmsg[w] /\ r \in ToSet(jprocessing) => r \in ToSet(jprocessing)'
    BY <1>t, <1>1, RemoveFirstFacts DEF LRem
<1>5. CASE r # jmsg[w]
    BY <1>1, <1>2, <1>3, <1>4, <1>5, TracedFrame
<1>6. CASE r = jmsg[w]
    <2>1. Held(r)
        BY <1>6 DEF Held
    <2>2. req[r] \notin {"new", "admitted", "created", "retrying"}
        BY <2>1 DEF Traced
    <2>3. CASE req[r] = "accepted"
        <3>1. /\ Once(jready, r) /\ r \notin ToSet(jready) /\ ~IsActive(r)
              /\ \A v \in Etl : jmsg[v] = r => v = w
            BY <1>1, <1>6, <2>1, <2>3 DEF Traced
        <3>2. \A v \in Etl : jmsg'[v] # r
            BY <1>2, <3>1
        <3>3. ~IsActive(r)'
            BY <1>1, <3>1 DEF IsActive
        <3> QED BY <1>1, <2>3, <3>1, <3>2, <3>3 DEF Traced
    <2> QED BY <1>1, <2>2, <2>3 DEF Traced
<1> QED BY <1>5, <1>6

\* A lost call is the end of the trace of one dispatch at most.
LEMMA TracedStep ==
    ASSUME TypeOK, JoinTypeOK, Apart, [JoinNext]_allVars
    PROVE  /\ faults' \in {faults, faults + 1}
           /\ \E x : \A r \in JoinRuns : Traced(r) /\ (r = x => faults' # faults + 1) => Traced(r)'
<1>1. CASE DispatchNext
    <2>1. faults' \in {faults, faults + 1}
        BY <1>1, DispatchFrame
    <2>2. UNCHANGED <<jready, jprocessing, jpc, jmsg>>
        BY <1>1 DEF DispatchNext, joinVars
    <2>3. ASSUME NEW r \in JoinRuns, Traced(r) PROVE Traced(r)'
        <3>1. ReqStays(r) /\ (row'[r] = row[r] \/ ~IsActive(r)')
            BY <1>1, DispatchFrame DEF ReqStays
        <3> QED BY <2>2, <2>3, <3>1, TracedFrame
    <2> QED BY <2>1, <2>3
<1>2. ASSUME NEW q \in Runs, JoinApiStep(q) \/ JoinCreateRunRaises(q) \/ JoinPushRaises(q)
      PROVE  /\ faults' \in {faults, faults + 1}
             /\ \A r \in JoinRuns : Traced(r) /\ (r = q => faults' # faults + 1) => Traced(r)'
    BY <1>2, JoinApiFacts, TracedApi
<1>3. ASSUME NEW w \in Etl, JoinStart(w) \/ JoinClaimRaises(w) \/ EtlStep(w) \/ JoinCrash(w)
      PROVE  /\ faults' \in {faults, faults + 1}
             /\ \A r \in JoinRuns : Traced(r) /\ (r = jmsg[w] => faults' # faults + 1) => Traced(r)'
    <2>1. faults' \in {faults, faults + 1}
        BY <1>3, EtlFacts
    <2> SUFFICES ASSUME NEW r \in JoinRuns, Traced(r), r = jmsg[w] => faults' # faults + 1 PROVE Traced(r)'
        BY <2>1
    <2>2. CASE JoinClaim(w) \/ JoinClaimRaises(w)
        BY <2>2, TracedClaim
    <2>3. CASE JoinProgress(w) \/ JoinRaises(w) \/ JoinReportFailure(w)
        BY <2>3, TracedReport
    <2>4. CASE JoinAck(w)
        BY <2>4, TracedAck
    <2>5. CASE JoinStart(w) \/ BuildJoinedDataframe(w) \/ JoinCrash(w)
        <3>t. jmsg \in [Etl -> JoinRuns \cup {NoRun}] /\ jpc \in [Etl -> JPcStates] /\ NoRun \notin JoinRuns
            BY ConstantsAssumption, JoinAssumption DEF JoinTypeOK
        <3>1. /\ UNCHANGED <<req, row, jready, jprocessing>> /\ jmsg' \in {jmsg, [jmsg EXCEPT ![w] = NoRun]}
              /\ \E l \in {"polling", "failing", "down"} : jpc' = [jpc EXCEPT ![w] = l]
            BY <2>5 DEF JoinStart, BuildJoinedDataframe, JoinCrash, JGoto, vars
        <3>2. \A v \in Etl : /\ jmsg'[v] = r => jmsg[v] = r
                             /\ jpc'[v] = "acking" => jpc[v] = "acking"
            BY <3>t, <3>1
        <3>3. ReqStays(r)
            BY <3>1 DEF ReqStays
        <3> QED BY <3>1, <3>2, <3>3, TracedFrame
    <2> QED BY <1>3, <2>2, <2>3, <2>4, <2>5 DEF EtlStep
<1>4. CASE JoinHeartbeatExpires \/ UNCHANGED allVars
    <2>1. UNCHANGED <<req, row, jready, jprocessing, jpc, jmsg, faults>>
        BY <1>4 DEF JoinHeartbeatExpires, allVars, vars, joinVars
    <2>2. ASSUME NEW r \in JoinRuns, Traced(r) PROVE Traced(r)'
        BY <2>1, <2>2, TracedFrame DEF ReqStays
    <2> QED BY <2>1, <2>2
<1> QED BY <1>1, <1>2, <1>3, <1>4 DEF JoinNext

LEMMA UntracedStep ==
    ASSUME TypeOK, JoinTypeOK, Apart, UntracedCostFaults, [JoinNext]_allVars
    PROVE  UntracedCostFaults'
<1> DEFINE old == Cardinality(Untraced)
           new == Cardinality(Untraced')
<1>1. IsFiniteSet(Untraced) /\ old \in Nat /\ old =< faults /\ faults \in Nat
    BY FS_CardinalityType, ConstantsAssumption DEF UntracedCostFaults, TypeOK
<1>2. faults' \in {faults, faults + 1}
    BY TracedStep
<1>3. PICK x : \A r \in JoinRuns : Traced(r) /\ (r = x => faults' # faults + 1) => Traced(r)'
    BY TracedStep
<1>4. CASE faults' = faults
    <2>1. Untraced' \subseteq Untraced
        BY <1>1, <1>3, <1>4 DEF Untraced
    <2>2. IsFiniteSet(Untraced') /\ new =< old /\ new \in Nat
        BY <1>1, <2>1, FS_Subset, FS_CardinalityType
    <2>3. new =< faults'
        BY <1>1, <1>4, <2>2
    <2> QED BY <2>2, <2>3 DEF UntracedCostFaults
<1>5. CASE faults' = faults + 1
    <2> DEFINE more == Cardinality(Untraced \cup {x})
    <2>1. Untraced' \subseteq Untraced \cup {x}
        BY <1>3 DEF Untraced
    <2>2. IsFiniteSet(Untraced \cup {x}) /\ more \in {old, old + 1}
        BY <1>1, FS_AddElement
    <2>3. IsFiniteSet(Untraced') /\ new =< more /\ new \in Nat
        BY <2>1, <2>2, FS_Subset, FS_CardinalityType
    <2> HIDE DEF old, new, more
    <2>4. new =< faults'
        BY <1>1, <1>5, <2>2, <2>3
    <2> QED BY <2>3, <2>4 DEF UntracedCostFaults, new
<1> QED BY <1>2, <1>4, <1>5

\* At the start every join dispatch is traced.
LEMMA JoinInvInit == JoinInit => JoinInv
<1> SUFFICES ASSUME JoinInit PROVE JoinInv
    OBVIOUS
<1>1. TypeOK
    BY TypeInit DEF JoinInit
<1>2. JoinTypeOK
    BY DEF JoinInit, JoinTypeOK, JPcStates
<1>3. NoRun \notin JoinRuns /\ JoinRuns \subseteq Runs
    BY ConstantsAssumption, JoinAssumption
<1>4. Apart
    BY <1>3 DEF JoinInit, Init, Apart, Queued, ToSet
<1>5. \A r \in JoinRuns : Traced(r)
    BY <1>3 DEF JoinInit, Init, Traced, Held, ToSet
<1>6. Untraced = {} /\ faults = 0
    BY <1>5 DEF Untraced, JoinInit, Init
<1>7. UntracedCostFaults
    BY <1>6, FS_EmptySet DEF UntracedCostFaults
<1> QED BY <1>1, <1>2, <1>4, <1>7 DEF JoinInv

\* For every number of runs, of GX and of ETL workers, crashes and faults: an
\* accepted join dispatch whose run is active has its message in one of the
\* two lists of the ETL workers, except for one dispatch per lost call
\* (_process_job's failure report and the LREM of its finally clause).
THEOREM UntraceableRunsAreFew == JoinSpec => []UntraceableRunCostsALostCall
<1>1. JoinInv /\ [JoinNext]_allVars => JoinInv'
    <2> SUFFICES ASSUME JoinInv, [JoinNext]_allVars PROVE JoinInv'
        OBVIOUS
    <2> USE DEF JoinInv
    <2>1. Apart' /\ UntracedCostFaults'
        BY ApartStep, UntracedStep
    <2>2. TypeOK' /\ JoinTypeOK'
        <3>1. CASE DispatchNext
            <4>1. TypeOK'
                BY <3>1, DispatchIsNext, TypeStep
            <4>2. UNCHANGED joinVars
                BY <3>1, DispatchIsNext
            <4> QED BY <4>1, <4>2 DEF JoinTypeOK, joinVars
        <3>2. ASSUME NEW q \in Runs, JoinApiStep(q) \/ JoinCreateRunRaises(q) \/ JoinPushRaises(q)
              PROVE  TypeOK' /\ JoinTypeOK'
            BY <3>2, JoinApiFacts
        <3>3. ASSUME NEW w \in Etl, JoinStart(w) \/ JoinClaimRaises(w) \/ EtlStep(w) \/ JoinCrash(w)
              PROVE  TypeOK' /\ JoinTypeOK'
            BY <3>3, EtlFacts
        <3>4. CASE JoinHeartbeatExpires \/ UNCHANGED allVars
            <4>1. UNCHANGED <<vars, jready, jprocessing, jpc, jmsg>>
                BY <3>4 DEF JoinHeartbeatExpires, allVars, joinVars
            <4>2. TypeOK'
                BY <4>1 DEF TypeOK, vars
            <4> QED BY <4>1, <4>2 DEF JoinTypeOK
        <3> QED BY <3>1, <3>2, <3>3, <3>4 DEF JoinNext
    <2> QED BY <2>1, <2>2
<1>2. JoinInv => UntraceableRunCostsALostCall
    <2> DEFINE untraceable == {r \in JoinRuns :
                   /\ req[r] = "accepted" /\ IsActive(r)
                   /\ r \notin ToSet(jready) \cup ToSet(jprocessing)}
    <2> SUFFICES ASSUME JoinInv PROVE Cardinality(untraceable) =< faults
        BY DEF UntraceableRunCostsALostCall
    <2>1. untraceable \subseteq Untraced
        BY DEF Untraced, Traced
    <2>2. /\ IsFiniteSet(Untraced) /\ Cardinality(Untraced) =< faults /\ faults \in Nat
          /\ Cardinality(Untraced) \in Nat
        BY FS_CardinalityType, ConstantsAssumption DEF JoinInv, UntracedCostFaults, TypeOK
    <2>3. Cardinality(untraceable) =< Cardinality(Untraced) /\ Cardinality(untraceable) \in Nat
        BY <2>1, <2>2, FS_Subset, FS_CardinalityType
    <2> QED BY <2>2, <2>3
<1> QED BY <1>1, <1>2, JoinInvInit, PTL DEF JoinSpec
=============================================================================
