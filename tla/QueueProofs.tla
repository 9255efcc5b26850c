----------------------------- MODULE QueueProofs -----------------------------
(***************************************************************************)
(* Three ways a message goes, for every number of messages, processes and  *)
(* faults: the job table of the connectors (ConnectorSync), the requests   *)
(* in Redis (ProfilingQueue) and the violations in Kafka                   *)
(* (ViolationStream).  In each, a message has one place at a time as long  *)
(* as nothing failed, and what is lost or done twice is counted against    *)
(* the failures.  The three specifications share no variable, and each     *)
(* part uses only the assumption of its own module.                        *)
(***************************************************************************)
EXTENDS ConnectorSync, ProfilingQueue, ViolationStream, Integers,
        SequenceTheorems, FiniteSetTheorems, TLAPS

(***************************************************************************)
(* The job table.  A job nobody waited for has one worker at most, and its *)
(* status tells where that worker is; a job that was synchronised has      *)
(* none, and is not pending any more, so that no claim takes it.           *)
(***************************************************************************)
SyncStatuses == {"absent", "pending", "retrying"} \cup Final

SyncTypeOK ==
    /\ status \in [Jobs -> SyncStatuses] /\ created \in Seq(Jobs)
    /\ synced \subseteq Jobs
    /\ at \in [SyncWorkers -> {"poll", "waiting", "sync", "delay"}]
    /\ mine \in [SyncWorkers -> Jobs \cup {NoJob}]
    /\ \A w \in SyncWorkers : mine[w] = NoJob <=> at[w] = "poll"
    /\ cancelling \in Jobs \cup {NoJob}
    /\ faults \in Nat

Holds(w, j) == mine[w] = j

\* What is true of a job for whose lock no claim waited.
Sole ==
    \A j \in Jobs \ contended :
        /\ \A v, w \in SyncWorkers : Holds(v, j) /\ Holds(w, j) => v = w
        /\ \A w \in SyncWorkers : Holds(w, j) =>
              /\ at[w] \in {"sync", "delay"} /\ j \notin synced
              /\ at[w] = "sync" => status[j] = "pending"
              /\ at[w] = "delay" => status[j] \in {"retrying", "cancelled"}
        /\ status[j] = "absent" => j \notin synced
        /\ j \in synced => status[j] \in {"completed", "cancelled"}

Unrepeated == faults = 0 => Sole /\ again \subseteq contended

SyncInv == SyncTypeOK /\ StrandedJobCostsAFault /\ Unrepeated

-----------------------------------------------------------------------------
\* A worker goes to another place, and perhaps the status of its job changes.
LEMMA AtFacts ==
    ASSUME SyncTypeOK, NEW w \in SyncWorkers, NEW place, NEW j, At(w, place, j)
    PROVE  /\ at'[w] = place /\ mine'[w] = j
           /\ \A v \in SyncWorkers : v # w => at'[v] = at[v] /\ mine'[v] = mine[v]
  BY DEF At, SyncTypeOK

LEMMA SyncTypeStep ==
    ASSUME SyncTypeOK, [SyncNext]_syncVars
    PROVE  SyncTypeOK'
<1>1. ASSUME NEW j \in Jobs, EnqueueSync(j) \/ BeginCancel(j) PROVE SyncTypeOK'
  <2>1. CASE EnqueueSync(j)
    <3>1. created' \in Seq(Jobs)
      BY <2>1 DEF EnqueueSync, SyncTypeOK
    <3>2. QED  BY <2>1, <3>1 DEF EnqueueSync, SyncTypeOK, SyncStatuses
  <2>2. CASE BeginCancel(j)
    BY <2>2 DEF BeginCancel, SyncTypeOK
  <2>3. QED  BY <1>1, <2>1, <2>2
<1>2. CASE FinishCancel
  BY <1>2 DEF FinishCancel, SyncTypeOK, SyncStatuses, Final
<1>3. ASSUME NEW w \in SyncWorkers, SyncWorkerStep(w) \/ SyncFault(w) PROVE SyncTypeOK'
  <2>1. mine[w] = NoJob <=> at[w] = "poll"
    BY DEF SyncTypeOK
  <2>2. ASSUME NEW j \in Jobs, Claim(w, j) PROVE SyncTypeOK'
    <3>1. PICK place \in {"waiting", "sync"} : At(w, place, j)
      BY <2>2 DEF Claim
    <3>2. QED  BY <2>2, <3>1, SyncAssumption DEF Claim, At, SyncTypeOK
  <2>3. CASE Unblock(w)
    BY <2>1, <2>3 DEF Unblock, At, SyncTypeOK
  <2>4. CASE Complete(w) \/ GiveUp(w) \/ EndDelay(w)
    BY <2>1, <2>4 DEF Complete, GiveUp, EndDelay, At, SyncTypeOK, SyncStatuses, Final
  <2>5. CASE Retry(w)
    BY <2>1, <2>5 DEF Retry, At, SyncTypeOK, SyncStatuses
  <2>6. CASE SyncFault(w)
    <3>1. synced' \subseteq Jobs /\ faults' \in Nat
      BY <2>1, <2>6 DEF SyncFault, SyncTypeOK
    <3>2. QED  BY <2>6, <3>1 DEF SyncFault, At, SyncTypeOK
  <2>7. QED  BY <1>3, <2>2, <2>3, <2>4, <2>5, <2>6 DEF SyncWorkerStep
<1>4. CASE UNCHANGED syncVars
  BY <1>4 DEF syncVars, SyncTypeOK
<1>5. QED  BY <1>1, <1>2, <1>3, <1>4 DEF SyncNext

\* Only the end of its delay, or a fault, takes the worker from a job that
\* is to be retried.
LEMMA StrandedStep ==
    ASSUME SyncTypeOK, SyncTypeOK', StrandedJobCostsAFault, [SyncNext]_syncVars
    PROVE  StrandedJobCostsAFault'
<1> SUFFICES ASSUME NEW j \in Jobs, status'[j] = "retrying"
             PROVE  faults' > 0 \/ \E w \in SyncWorkers : at'[w] = "delay" /\ mine'[w] = j
  BY DEF StrandedJobCostsAFault
<1>1. status[j] = "retrying" => faults > 0 \/ \E w \in SyncWorkers : at[w] = "delay" /\ mine[w] = j
  BY DEF StrandedJobCostsAFault
<1>2. CASE (\E i \in Jobs : EnqueueSync(i) \/ BeginCancel(i)) \/ FinishCancel
  <2>1. at' = at /\ mine' = mine /\ faults' = faults /\ (status'[j] = "retrying" => status[j] = "retrying")
    BY <1>2 DEF EnqueueSync, BeginCancel, FinishCancel, SyncTypeOK
  <2>2. QED  BY <1>1, <2>1
<1>3. ASSUME NEW w \in SyncWorkers, SyncWorkerStep(w)
      PROVE  faults' > 0 \/ \E v \in SyncWorkers : at'[v] = "delay" /\ mine'[v] = j
  <2>1. CASE Retry(w) /\ mine[w] = j
    BY <2>1 DEF Retry, At, SyncTypeOK
  <2>2. CASE EndDelay(w)
    <3>1. status[j] = "retrying" /\ mine[w] # j /\ faults' = faults
      BY <2>2 DEF EndDelay, SyncTypeOK
    <3>2. \A v \in SyncWorkers : v # w => at'[v] = at[v] /\ mine'[v] = mine[v]
      BY <2>2, AtFacts DEF EndDelay
    <3>3. QED  BY <1>1, <3>1, <3>2
  <2>3. CASE ~(Retry(w) /\ mine[w] = j) /\ ~EndDelay(w)
    <3>1. status[j] = "retrying" /\ faults' = faults /\ at[w] # "delay"
      BY <1>3, <2>3 DEF SyncWorkerStep, Claim, Unblock, Complete, Retry, GiveUp, EndDelay, SyncTypeOK
    <3>2. \A v \in SyncWorkers : v # w => at'[v] = at[v] /\ mine'[v] = mine[v]
      BY <1>3, <2>3, AtFacts DEF SyncWorkerStep, Claim, Unblock, Complete, Retry, GiveUp
    <3>3. QED  BY <1>1, <3>1, <3>2
  <2>4. QED  BY <2>1, <2>2, <2>3
<1>4. ASSUME NEW w \in SyncWorkers, SyncFault(w) PROVE faults' > 0
  BY <1>4 DEF SyncFault, SyncTypeOK
<1>5. CASE UNCHANGED syncVars
  BY <1>1, <1>5 DEF syncVars
<1>6. QED  BY <1>2, <1>3, <1>4, <1>5 DEF SyncNext

\* A claim takes a pending job: one nobody has, nobody waited for and that
\* was not synchronised.
LEMMA ClaimStep ==
    ASSUME SyncTypeOK, Sole, NEW w \in SyncWorkers, NEW j \in Jobs, Claim(w, j)
    PROVE  Sole'
<1>1. /\ at[w] = "poll" /\ status[j] = "pending" /\ status' = status /\ synced' = synced
      /\ At(w, IF Locked(j) THEN "waiting" ELSE "sync", j)
      /\ contended' = IF Locked(j) THEN contended \cup {j} ELSE contended
  BY DEF Claim, Oldest
<1>2. /\ mine'[w] = j /\ mine[w] = NoJob /\ at'[w] = IF Locked(j) THEN "waiting" ELSE "sync"
      /\ \A v \in SyncWorkers : v # w => at'[v] = at[v] /\ mine'[v] = mine[v]
  BY <1>1, AtFacts DEF SyncTypeOK
<1>3. ASSUME NEW i \in Jobs \ contended', i # j
      PROVE  i \in Jobs \ contended /\ \A v \in SyncWorkers : mine'[v] = i <=> mine[v] = i /\ v # w
  BY <1>1, <1>2, <1>3, SyncAssumption
<1>4. ASSUME j \notin contended'
      PROVE  j \notin contended /\ at'[w] = "sync" /\ j \notin synced /\ \A v \in SyncWorkers : mine[v] # j
  <2>1. j \notin contended /\ ~Locked(j) /\ at'[w] = "sync"
    BY <1>1, <1>2, <1>4
  <2>2. \A v \in SyncWorkers : mine[v] # j
    BY <1>1, <2>1 DEF Sole, Holds, Locked
  <2>3. QED  BY <1>1, <2>1, <2>2 DEF Sole
<1>5. QED  BY <1>1, <1>2, <1>3, <1>4 DEF Sole, Holds

\* The other steps of a worker are about the job it holds.
LEMMA HolderStep ==
    ASSUME SyncTypeOK, Sole, again \subseteq contended, NEW w \in SyncWorkers,
           Unblock(w) \/ Complete(w) \/ Retry(w) \/ GiveUp(w) \/ EndDelay(w)
    PROVE  Sole' /\ again' \subseteq contended'
<1> DEFINE j == mine[w]
<1>1. /\ j \in Jobs /\ at[w] # "poll" /\ contended' = contended
      /\ \A i \in Jobs : i # j => status'[i] = status[i] /\ (i \in synced' <=> i \in synced)
      /\ mine'[w] \in {j, NoJob}
      /\ \A v \in SyncWorkers : v # w => at'[v] = at[v] /\ mine'[v] = mine[v]
  <2>1. j \in Jobs /\ at[w] # "poll" /\ contended' = contended
    BY DEF Unblock, Complete, Retry, GiveUp, EndDelay, SyncTypeOK
  <2>2. \A i \in Jobs : i # j => status'[i] = status[i] /\ (i \in synced' <=> i \in synced)
    BY DEF Unblock, Complete, Retry, GiveUp, EndDelay, SyncTypeOK
  <2>3. QED
    BY <2>1, <2>2, AtFacts DEF Unblock, Complete, Retry, GiveUp, EndDelay
<1>2. j \notin contended =>
        /\ j \notin synced /\ at[w] \in {"sync", "delay"} /\ \A v \in SyncWorkers : mine[v] = j => v = w
  BY <1>1 DEF Sole, Holds
<1>3. j \notin contended =>
        \/ mine'[w] = NoJob /\ status'[j] # "absent" /\ (j \in synced' => status'[j] = "completed")
        \/ mine'[w] = j /\ at'[w] = "delay" /\ status'[j] = "retrying" /\ j \notin synced'
  <2>1. CASE Unblock(w)
    BY <1>2, <2>1 DEF Unblock
  <2>2. CASE Retry(w)
    BY <1>1, <1>2, <2>2, AtFacts DEF Retry, SyncTypeOK
  <2>3. CASE Complete(w) \/ GiveUp(w) \/ EndDelay(w)
    BY <1>1, <1>2, <2>3, AtFacts DEF Complete, GiveUp, EndDelay, SyncTypeOK
  <2>4. QED  BY <2>1, <2>2, <2>3
<1>4. again' \subseteq contended'
  BY <1>1, <1>2 DEF Unblock, Complete, Retry, GiveUp, EndDelay
<1> HIDE DEF j
<1>5. ASSUME NEW i \in Jobs \ contended, i # j
      PROVE  \A v \in SyncWorkers : mine'[v] = i <=> mine[v] = i /\ v # w
  BY <1>1, <1>5, SyncAssumption DEF j
<1>6. ASSUME j \notin contended
      PROVE  \A v \in SyncWorkers : mine'[v] = j => v = w
  BY <1>1, <1>2, <1>6
<1>7. Sole'
  <2> SUFFICES ASSUME NEW i \in Jobs \ contended
               PROVE  /\ \A u, v \in SyncWorkers : mine'[u] = i /\ mine'[v] = i => u = v
                      /\ \A v \in SyncWorkers : mine'[v] = i =>
                            /\ at'[v] \in {"sync", "delay"} /\ i \notin synced'
                            /\ at'[v] = "sync" => status'[i] = "pending"
                            /\ at'[v] = "delay" => status'[i] \in {"retrying", "cancelled"}
                      /\ status'[i] = "absent" => i \notin synced'
                      /\ i \in synced' => status'[i] \in {"completed", "cancelled"}
    BY <1>1 DEF Sole, Holds
  <2>1. CASE i = j
    BY <1>1, <1>3, <1>6, <2>1, SyncAssumption
  <2>2. CASE i # j
    BY <1>1, <1>5, <2>2 DEF Sole, Holds
  <2>3. QED  BY <2>1, <2>2
<1>8. QED  BY <1>4, <1>7

LEMMA UnrepeatedStep ==
    ASSUME SyncTypeOK, SyncTypeOK', Unrepeated, [SyncNext]_syncVars
    PROVE  Unrepeated'
<1> SUFFICES ASSUME faults' = 0 PROVE Sole' /\ again' \subseteq contended'
  BY DEF Unrepeated
<1>1. CASE \E w \in SyncWorkers : SyncFault(w)
  BY <1>1 DEF SyncFault, SyncTypeOK
<1>2. ASSUME ~\E w \in SyncWorkers : SyncFault(w) PROVE faults' = faults
  BY <1>2 DEF SyncNext, syncVars, EnqueueSync, BeginCancel, FinishCancel, SyncWorkerStep,
              Claim, Unblock, Complete, Retry, GiveUp, EndDelay
<1>3. ASSUME faults = 0, NEW j \in Jobs, EnqueueSync(j) PROVE Sole' /\ again' \subseteq contended'
  <2>1. /\ contended' = contended /\ again' = again /\ synced' = synced /\ at' = at /\ mine' = mine
        /\ status[j] = "absent" /\ status'[j] = "pending"
        /\ \A i \in Jobs : i # j => status'[i] = status[i]
    BY <1>3 DEF EnqueueSync, SyncTypeOK
  <2>2. Sole /\ again \subseteq contended
    BY <1>3 DEF Unrepeated
  <2>3. j \notin contended => j \notin synced /\ \A w \in SyncWorkers : mine[w] # j
    BY <2>1, <2>2 DEF Sole, Holds
  <2>4. QED  BY <2>1, <2>2, <2>3 DEF Sole, Holds
<1>4. ASSUME faults = 0, NEW j \in Jobs, BeginCancel(j) PROVE Sole' /\ again' \subseteq contended'
  BY <1>4 DEF BeginCancel, Unrepeated, Sole, Holds
<1>5. ASSUME faults = 0, FinishCancel PROVE Sole' /\ again' \subseteq contended'
  <2>1. /\ contended' = contended /\ again' = again /\ synced' = synced /\ at' = at /\ mine' = mine
        /\ cancelling \in Jobs /\ ~Locked(cancelling) /\ status'[cancelling] = "cancelled"
        /\ \A i \in Jobs : i # cancelling => status'[i] = status[i]
    BY <1>5 DEF FinishCancel, SyncTypeOK
  <2>2. Sole /\ again \subseteq contended
    BY <1>5 DEF Unrepeated
  <2>3. QED  BY <2>1, <2>2 DEF Sole, Holds, Locked
<1>6. ASSUME faults = 0, NEW w \in SyncWorkers, NEW j \in Jobs, Claim(w, j)
      PROVE  Sole' /\ again' \subseteq contended'
  <2>1. Sole /\ again \subseteq contended
    BY <1>6 DEF Unrepeated
  <2>2. again' \subseteq contended'
    BY <1>6, <2>1 DEF Claim
  <2>3. QED  BY <1>6, <2>1, <2>2, ClaimStep
<1>7. ASSUME faults = 0, NEW w \in SyncWorkers,
             Unblock(w) \/ Complete(w) \/ Retry(w) \/ GiveUp(w) \/ EndDelay(w)
      PROVE  Sole' /\ again' \subseteq contended'
  BY <1>7, HolderStep DEF Unrepeated
<1>8. CASE UNCHANGED syncVars
  BY <1>8 DEF syncVars, Unrepeated, Sole, Holds
<1>9. QED  BY <1>1, <1>2, <1>3, <1>4, <1>5, <1>6, <1>7, <1>8 DEF SyncNext, SyncWorkerStep

LEMMA SyncInitInvariant == SyncInit => SyncInv
<1>1. SyncInit => SyncTypeOK
  BY SyncAssumption DEF SyncInit, SyncTypeOK, SyncStatuses
<1>2. SyncInit => StrandedJobCostsAFault
  BY DEF SyncInit, StrandedJobCostsAFault
<1>3. SyncInit => Unrepeated
  BY SyncAssumption DEF SyncInit, Unrepeated, Sole, Holds
<1>4. QED  BY <1>1, <1>2, <1>3 DEF SyncInv

\* The invariant above: who holds a job, and what its status says of that,
\* as long as there was no fault and no claim waited for the job.
THEOREM SyncInvariant == SyncSpec => []SyncInv
<1>1. SyncInv /\ [SyncNext]_syncVars => SyncInv'
  <2> SUFFICES ASSUME SyncInv, [SyncNext]_syncVars PROVE SyncInv'
    OBVIOUS
  <2>1. SyncTypeOK /\ StrandedJobCostsAFault /\ Unrepeated
    BY DEF SyncInv
  <2>2. SyncTypeOK'
    BY <2>1, SyncTypeStep
  <2>3. QED  BY <2>1, <2>2, StrandedStep, UnrepeatedStep DEF SyncInv
<1>2. QED  BY <1>1, SyncInitInvariant, PTL DEF SyncSpec

\* Without a fault, a job that is to be retried has a worker in its delay
\* that will make it pending, with any number of workers and cancellations
\* (run_worker_forever, cancel_connector_sync_job).
THEOREM NotStranded == SyncSpec => []StrandedJobCostsAFault
<1>1. SyncInv => StrandedJobCostsAFault
  BY DEF SyncInv
<1>2. QED  BY <1>1, SyncInvariant, PTL

\* Without a fault, a job is synchronised again only if a claim waited for
\* the lock of its row, since PostgreSQL does not look at the status again.
THEOREM RepetitionExplained == SyncSpec => []RepeatedSyncIsExplained
<1>1. SyncInv => RepeatedSyncIsExplained
  BY DEF SyncInv, SyncTypeOK, Unrepeated, RepeatedSyncIsExplained
<1>2. QED  BY <1>1, SyncInvariant, PTL

(***************************************************************************)
(* Lists of messages.                                                      *)
(***************************************************************************)

\* r is at one place of the list at most.
Once(s, r) == \A i, k \in 1..Len(s) : s[i] = r /\ s[k] = r => i = k

\* LPUSH keeps the list well formed and adds exactly the pushed element.
LEMMA ConsFacts ==
    ASSUME NEW S, NEW s \in Seq(S), NEW e \in S
    PROVE  /\ Cons(e, s) \in Seq(S)
           /\ ToSet(Cons(e, s)) = {e} \cup ToSet(s)
<1>1. Cons(e, s) \in Seq(S) /\ Len(Cons(e, s)) = Len(s) + 1
    BY DEF Cons
<1>2. Cons(e, s)[1] = e /\ \A i \in 1..Len(s) : Cons(e, s)[i + 1] = s[i]
    BY DEF Cons
<1>3. ASSUME NEW x \in ToSet(Cons(e, s)) PROVE x \in {e} \cup ToSet(s)
    <2>1. PICK i \in 1..(Len(s) + 1) : x = Cons(e, s)[i]
        BY <1>1 DEF ToSet
    <2>2. CASE i = 1
        BY <2>1, <2>2, <1>2
    <2>3. CASE i # 1
        <3>1. i - 1 \in 1..Len(s) /\ (i - 1) + 1 = i
            BY <2>3
        <3>2. x = s[i - 1]
            BY <1>2, <2>1, <3>1
        <3> QED BY <3>1, <3>2 DEF ToSet
    <2> QED BY <2>2, <2>3
<1>4. ASSUME NEW x \in ToSet(s) PROVE x \in ToSet(Cons(e, s))
    <2>1. PICK i \in 1..Len(s) : x = s[i]
        BY DEF ToSet
    <2>2. i + 1 \in 1..Len(Cons(e, s)) /\ Cons(e, s)[i + 1] = x
        BY <1>1, <1>2, <2>1
    <2> QED BY <1>1, <2>2 DEF ToSet
<1>5. e \in ToSet(Cons(e, s))
    <2>1. 1 \in 1..Len(Cons(e, s))
        BY <1>1
    <2> QED BY <1>1, <1>2, <2>1 DEF ToSet
<1> QED BY <1>1, <1>3, <1>4, <1>5

\* RPOP keeps the positions before the last, in order.
LEMMA FrontElements ==
    ASSUME NEW S, NEW s \in Seq(S), s # <<>>
    PROVE  /\ Front(s) \in Seq(S) /\ Len(Front(s)) = Len(s) - 1
           /\ \A i \in 1..(Len(s) - 1) : Front(s)[i] = s[i]
<1> DEFINE n == Len(s) - 1
<1>1. Len(s) \in Nat /\ Len(s) > 0 /\ Len(s) \in 1..Len(s) /\ n \in Nat
    OBVIOUS
<1>2. Front(s) \in Seq(S) /\ Len(Front(s)) = n
    <2>1. \A i \in 1..n : s[i] \in S
        BY <1>1
    <2> HIDE DEF n
    <2>2. PICK t : t = SubSeq(s, 1, n)
        OBVIOUS
    <2>3. t \in Seq(S) /\ Len(t) = IF 1 =< n THEN n - 1 + 1 ELSE 0
        BY <1>1, <2>1, <2>2, SubSeqProperties
    <2>4. Len(t) = n
        BY <1>1, <2>3
    <2>5. Front(s) = t
        BY <2>2 DEF Front, n
    <2> QED BY <2>3, <2>4, <2>5
<1>3. \A i \in 1..n : Front(s)[i] = s[i]
    BY <1>1 DEF Front
<1> QED BY <1>2, <1>3

\* RPOP takes the last element and leaves every other one.
LEMMA FrontLastFacts ==
    ASSUME NEW S, NEW s \in Seq(S), s # <<>>
    PROVE  /\ Front(s) \in Seq(S)
           /\ Last(s) \in S
           /\ ToSet(s) = ToSet(Front(s)) \cup {Last(s)}
<1>1. Len(s) \in Nat /\ Len(s) > 0 /\ Len(s) \in 1..Len(s)
    OBVIOUS
<1>2. Front(s) \in Seq(S) /\ Len(Front(s)) = Len(s) - 1
    BY FrontElements
<1>3. \A i \in 1..(Len(s) - 1) : Front(s)[i] = s[i]
    BY FrontElements
<1>4. Last(s) \in S
    BY <1>1 DEF Last
<1>5. ASSUME NEW x \in ToSet(s) PROVE x \in ToSet(Front(s)) \cup {Last(s)}
    <2>1. PICK i \in 1..Len(s) : x = s[i]
        BY DEF ToSet
    <2>2. CASE i = Len(s)
        BY <2>1, <2>2 DEF Last
    <2>3. CASE i # Len(s)
        <3>1. i \in 1..Len(Front(s)) /\ Front(s)[i] = x
            BY <1>1, <1>2, <1>3, <2>1, <2>3
        <3> QED BY <1>2, <3>1 DEF ToSet
    <2> QED BY <2>2, <2>3
<1>6. ASSUME NEW x \in ToSet(Front(s)) PROVE x \in ToSet(s)
    <2>1. PICK i \in 1..(Len(s) - 1) : x = Front(s)[i]
        BY <1>2 DEF ToSet
    <2>2. i \in 1..Len(s) /\ x = s[i]
        BY <1>1, <1>3, <2>1
    <2> QED BY <2>2 DEF ToSet
<1>7. Last(s) \in ToSet(s)
    BY <1>1 DEF Last, ToSet
<1> QED BY <1>2, <1>4, <1>5, <1>6, <1>7

\* A push of another message, or of one that is not there yet, and a pop do
\* not repeat a message; a message popped from its only place is gone.
LEMMA OncePushed ==
    ASSUME NEW S, NEW s \in Seq(S), NEW e \in S, NEW r, Once(s, r), r = e => r \notin ToSet(s)
    PROVE  Once(Cons(e, s), r)
<1>1. Len(Cons(e, s)) = Len(s) + 1 /\ Len(s) \in Nat /\ Cons(e, s)[1] = e
    BY DEF Cons
<1>2. \A i \in 1..(Len(s) + 1) : i = 1 \/ (i - 1 \in 1..Len(s) /\ Cons(e, s)[i] = s[i - 1])
    BY DEF Cons
<1>3. \A i \in 1..Len(s) : s[i] \in ToSet(s)
    BY DEF ToSet
<1> SUFFICES ASSUME NEW i \in 1..(Len(s) + 1), NEW k \in 1..(Len(s) + 1),
                    Cons(e, s)[i] = r, Cons(e, s)[k] = r
             PROVE  i = k
    BY <1>1 DEF Once
<1>4. CASE i # 1 /\ k # 1
    <2>1. i - 1 = k - 1
        BY <1>2, <1>4 DEF Once
    <2> QED BY <2>1
<1>5. CASE i = 1 \/ k = 1
    BY <1>1, <1>2, <1>3, <1>5
<1> QED BY <1>4, <1>5

LEMMA OncePopped ==
    ASSUME NEW S, NEW s \in Seq(S), s # <<>>, NEW r, Once(s, r)
    PROVE  Once(Front(s), r) /\ (r = Last(s) => r \notin ToSet(Front(s)))
<1>1. Len(s) \in Nat \ {0} /\ Last(s) = s[Len(s)]
    BY DEF Last
<1>2. Len(Front(s)) = Len(s) - 1 /\ \A i \in 1..(Len(s) - 1) : Front(s)[i] = s[i]
    BY FrontElements
<1>3. Once(Front(s), r)
    BY <1>1, <1>2 DEF Once
<1>4. ASSUME r = Last(s), r \in ToSet(Front(s)) PROVE FALSE
    <2>1. PICK i \in 1..(Len(s) - 1) : Front(s)[i] = r
        BY <1>2, <1>4 DEF ToSet
    <2>2. s[i] = r /\ s[Len(s)] = r /\ i \in 1..Len(s) /\ Len(s) \in 1..Len(s) /\ i # Len(s)
        BY <1>1, <1>2, <1>4, <2>1
    <2> QED BY <2>2 DEF Once
<1> QED BY <1>3, <1>4

(***************************************************************************)
(* The requests in Redis.  Only a row that ended once turns active again,  *)
(* and a request that no failure touched is in its queue, in the hands of  *)
(* one worker, or settled.                                                 *)
(***************************************************************************)

ProfilingReq == {"new", "checked", "created", "retrying", "marking", "accepted",
                 "rejected", "failed", "lost"}
StoreType == [Requests -> [status : {"absent"} \cup Active \cup Terminal, done : BOOLEAN]]

ProfilingTypeOK ==
    /\ store \in StoreType
    /\ queue \in Seq(Requests)
    /\ req \in [Requests -> ProfilingReq]
    /\ \A r \in Requests : req[r] = "checked" => IsTestData(r)
    /\ pc \in [Workers -> {"down", "polling", "popped", "working", "succeeding", "failing"}]
    /\ msg \in [Workers -> Requests \cup {NoRequest}]
    /\ \A w \in Workers : (msg[w] # NoRequest) <=> (pc[w] \notin {"down", "polling"})
    /\ failures \in Nat

Early    == {"new", "checked", "created", "retrying"}
Underway == {"created", "retrying", "marking", "accepted"}

InHand(r) == \E w \in Workers : msg[w] = r

\* A request of the enqueue route has a row from its creation on, which no
\* message outlives, and an ended one says when it ended.
RowsKept ==
    \A r \in Requests : RouteOf[r] = "enqueue" =>
        /\ store[r].status \in Terminal => store[r].done
        /\ req[r] = "new" => store[r].status = "absent"
        /\ (req[r] \in Underway \/ r \in ToSet(queue) \/ InHand(r)) => store[r].status # "absent"

\* What is true of a request that no failure has touched: one message at
\* most, in the list or with one worker, as long as the request is active.
Clean(r) ==
    /\ req[r] \in Early =>
          r \notin ToSet(queue) /\ ~InHand(r)
    /\ req[r] = "accepted" =>
          /\ Once(queue, r)
          /\ r \in ToSet(queue) => ~InHand(r)
          /\ \A v, w \in Workers : msg[v] = r /\ msg[w] = r => v = w
          /\ IsActive(r) => r \in ToSet(queue) \/ InHand(r)

\* A mislabelled request is dropped without any failure, and not counted.
Unclean == {r \in Requests : RouteOf[r] # "catalog" /\ ~Mislabelled(r) /\ ~Clean(r)}

\* A request is labelled when it is created, and not again.
LabelledOnce ==
    /\ type \in [Requests -> Types]
    /\ \A r \in Requests : req[r] = "new" => ~Mislabelled(r)

UncleanCostFailures == IsFiniteSet(Unclean) /\ Cardinality(Unclean) =< failures

ProfilingInv ==
    /\ ProfilingTypeOK /\ LabelledOnce /\ RowsKept
    /\ OneFreshRequestPerSource /\ UncleanCostFailures

\* What a write of a status does to the rows.
LEMMA PutFacts ==
    ASSUME store \in StoreType, NEW r \in Requests, NEW st \in Active \cup Terminal
    PROVE  /\ Put(r, st) \in StoreType
           /\ Put(r, st)[r].status = st
           /\ Put(r, st)[r].done = (store[r].done \/ st \in Terminal)
           /\ \A x \in Requests : x # r => Put(r, st)[x] = store[x]
BY DEF StoreType, Put

\* What the handlers of the API do to a request, its row and the list.
Handler(q) ==
    \/ Enqueue(q) \/ EnqueueRaises(q) \/ TestDataCheck(q) \/ TestDataWriteRaises(q)
    \/ ApiStep(q) \/ PushRaises(q) \/ RequestProfiling(q) \/ RequestProfilingRaises(q)

LEMMA HandlerFacts ==
    ASSUME ProfilingTypeOK, NEW q \in Requests, Handler(q)
    PROVE  /\ ProfilingTypeOK'
           /\ UNCHANGED <<pc, msg>>
           /\ failures' \in {failures, failures + 1}
           /\ \A r \in Requests : r # q => req'[r] = req[r] /\ store'[r] = store[r]
           /\ \/ queue' = queue /\ (req'[q] \in Early => req[q] \in Early)
                 /\ (req'[q] = "accepted" => RouteOf[q] = "catalog")
              \/ /\ queue' = Cons(q, queue) /\ store' = store /\ req[q] \in {"created", "retrying"}
                 /\ req'[q] = "accepted" \/ failures' = failures + 1
           /\ RouteOf[q] = "enqueue" =>
                 /\ req'[q] # "new"
                 /\ \/ store' = store /\ (req'[q] \in Underway => req[q] \in Underway)
                    \/ store' = Put(q, "pending") /\ ~Conflict(q) /\ req[q] = "new"
                    \/ store' = Put(q, "failed") /\ req[q] = "marking" /\ req'[q] = "failed"
<1> USE DEF ProfilingReq
<1>t. /\ store \in StoreType /\ queue \in Seq(Requests) /\ req \in [Requests -> ProfilingReq] /\ failures \in Nat
      /\ \A r \in Requests : req[r] = "checked" => IsTestData(r)
      /\ {"pending", "failed"} \subseteq Active \cup Terminal
    BY DEF ProfilingTypeOK, Active, Terminal
<1>p. /\ Put(q, "pending") \in StoreType /\ \A r \in Requests : r # q => Put(q, "pending")[r] = store[r]
      /\ Put(q, "failed") \in StoreType /\ \A r \in Requests : r # q => Put(q, "failed")[r] = store[r]
    BY <1>t, PutFacts
<1>1. CASE Enqueue(q) \/ EnqueueRaises(q)
    <2>1. /\ UNCHANGED <<queue, pc, msg>> /\ RouteOf[q] = "enqueue" /\ req[q] = "new"
          /\ \/ store' = store /\ \E st \in {"rejected", "failed"} : req' = [req EXCEPT ![q] = st]
             \/ /\ store' = Put(q, "pending") /\ ~Conflict(q)
                /\ \E st \in {"created", "failed"} : req' = [req EXCEPT ![q] = st]
          /\ failures' \in {failures, failures + 1}
        BY <1>1 DEF Enqueue, EnqueueRaises, Failure, PutRaises
    <2>2. /\ req' \in [Requests -> ProfilingReq] /\ req'[q] \in {"created", "rejected", "failed"}
          /\ \A r \in Requests : r # q => req'[r] = req[r]
          /\ (store' = store /\ req'[q] # "created") \/ (store' = Put(q, "pending") /\ ~Conflict(q))
        BY <1>t, <2>1
    <2>3. req[q] \in Early /\ req'[q] # "new" /\ req'[q] # "checked" /\ req'[q] # "accepted"
        BY <2>1, <2>2 DEF Early
    <2>4. ProfilingTypeOK'
        BY <1>t, <1>p, <2>1, <2>2 DEF ProfilingTypeOK
    <2> QED BY <1>p, <2>1, <2>2, <2>3, <2>4 DEF Underway
<1>2. CASE TestDataCheck(q) \/ TestDataWrite(q) \/ TestDataWriteRaises(q)
    <2>1. /\ UNCHANGED <<queue, pc, msg>> /\ IsTestData(q) /\ req[q] \in {"new", "checked"}
          /\ \E st \in {"rejected", "checked", "created", "failed"} : req' = [req EXCEPT ![q] = st]
          /\ store' = store \/ store' = Put(q, "pending")
          /\ failures' \in {failures, failures + 1}
        BY <1>2, <1>t DEF TestDataCheck, TestDataWrite, TestDataWriteRaises, Failure, PutRaises
    <2>2. /\ req' \in [Requests -> ProfilingReq] /\ req'[q] # "accepted"
          /\ \A r \in Requests : r # q => req'[r] = req[r]
        BY <1>t, <2>1
    <2>3. req[q] \in Early /\ RouteOf[q] # "enqueue"
        BY <2>1 DEF Early, IsTestData
    <2>4. ProfilingTypeOK'
        BY <1>t, <1>p, <2>1, <2>2 DEF ProfilingTypeOK
    <2> QED BY <1>p, <2>1, <2>2, <2>3, <2>4
<1>3. CASE Push(q) \/ PushRaises(q)
    <2>1. /\ UNCHANGED <<store, pc, msg>> /\ req[q] \in {"created", "retrying"}
          /\ \/ queue' = Cons(q, queue) /\ req' = [req EXCEPT ![q] = "accepted"] /\ failures' = failures
             \/ /\ queue' \in {queue, Cons(q, queue)} /\ failures' = failures + 1
                /\ \E st \in {"retrying", "marking"} : req' = [req EXCEPT ![q] = st]
        BY <1>3 DEF Push, PushRaises, Failure
    <2>2. /\ req' \in [Requests -> ProfilingReq] /\ req'[q] \in {"accepted", "retrying", "marking"}
          /\ \A r \in Requests : r # q => req'[r] = req[r]
          /\ \/ queue' = Cons(q, queue) /\ (req'[q] = "accepted" \/ failures' = failures + 1)
             \/ queue' = queue /\ req'[q] # "accepted"
        BY <1>t, <2>1
    <2>3. req[q] \in Early /\ req[q] \in Underway /\ req'[q] # "new" /\ req'[q] # "checked"
        BY <2>1, <2>2 DEF Early, Underway
    <2>4. Cons(q, queue) \in Seq(Requests) /\ failures' \in Nat
        BY <1>t, <2>1, ConsFacts
    <2>5. ProfilingTypeOK'
        BY <1>t, <2>1, <2>2, <2>3, <2>4 DEF ProfilingTypeOK
    <2> QED BY <2>1, <2>2, <2>3, <2>5
<1>4. CASE MarkEnqueueFailed(q)
    <2>1. /\ UNCHANGED <<queue, pc, msg>> /\ req[q] = "marking" /\ req' = [req EXCEPT ![q] = "failed"]
          /\ store' = store \/ store' = Put(q, "failed")
          /\ failures' \in {failures, failures + 1}
        BY <1>4 DEF MarkEnqueueFailed, Failure
    <2>2. /\ req' \in [Requests -> ProfilingReq] /\ req'[q] = "failed"
          /\ \A r \in Requests : r # q => req'[r] = req[r]
        BY <1>t, <2>1
    <2>3. ProfilingTypeOK'
        BY <1>t, <1>p, <2>1, <2>2 DEF ProfilingTypeOK
    <2> QED BY <1>p, <2>1, <2>2, <2>3 DEF Early, Underway
<1>5. CASE RequestProfiling(q) \/ RequestProfilingRaises(q)
    <2>1. /\ UNCHANGED <<queue, pc, msg>> /\ RouteOf[q] = "catalog" /\ req[q] = "new"
          /\ \E st \in {"accepted", "rejected", "failed"} : req' = [req EXCEPT ![q] = st]
          /\ store' \in {store, Put(q, "pending"), [store EXCEPT ![q].status = "failed"]}
          /\ failures' \in {failures, failures + 1}
        BY <1>5 DEF RequestProfiling, RequestProfilingRaises, Failure
    <2>2. /\ req' \in [Requests -> ProfilingReq] /\ req'[q] \notin Early
          /\ \A r \in Requests : r # q => req'[r] = req[r]
        BY <1>t, <2>1 DEF Early
    <2>3. store' \in StoreType /\ \A r \in Requests : r # q => store'[r] = store[r]
        BY <1>t, <1>p, <2>1 DEF StoreType, Terminal
    <2>4. ProfilingTypeOK'
        BY <1>t, <2>1, <2>2, <2>3 DEF ProfilingTypeOK, Early
    <2> QED BY <2>1, <2>2, <2>3, <2>4
<1> QED BY <1>1, <1>2, <1>3, <1>4, <1>5 DEF Handler, ApiStep

\* What the steps of a worker do.
LEMMA WorkerFacts ==
    ASSUME ProfilingTypeOK, NEW w \in Workers, StartWorker(w) \/ PopRaises(w) \/ WorkerStep(w) \/ Crash(w)
    PROVE  /\ ProfilingTypeOK' /\ req' = req
           /\ failures' \in {failures, failures + 1}
           /\ \A v \in Workers : v # w => msg'[v] = msg[v]
           /\ \/ queue' = queue
              \/ queue # <<>> /\ queue' = Front(queue)
           /\ \/ msg'[w] \in {msg[w], NoRequest}
              \/ queue # <<>> /\ msg'[w] = Last(queue)
           /\ \/ store' = store
              \/ /\ msg[w] \in Requests
                 /\ \E st \in {"started", "completed", "failed"} : store' = Put(msg[w], st)
<1>t. /\ store \in StoreType /\ queue \in Seq(Requests) /\ req \in [Requests -> ProfilingReq] /\ failures \in Nat
      /\ pc \in [Workers -> {"down", "polling", "popped", "working", "succeeding", "failing"}]
      /\ msg \in [Workers -> Requests \cup {NoRequest}]
      /\ (msg[w] # NoRequest) <=> (pc[w] \notin {"down", "polling"})
      /\ {"started", "completed", "failed"} \subseteq Active \cup Terminal /\ NoRequest \notin Requests
    BY ProfilingAssumption DEF ProfilingTypeOK, Active, Terminal
<1>f. queue # <<>> => Front(queue) \in Seq(Requests) /\ Last(queue) \in Requests
    BY <1>t, FrontLastFacts
<1>p. ASSUME msg[w] \in Requests
      PROVE  \A st \in {"started", "completed", "failed"} : Put(msg[w], st) \in StoreType
    BY <1>t, <1>p, PutFacts
<1>1. CASE StartWorker(w) \/ Work(w)
    <2>1. /\ UNCHANGED <<store, queue, req, msg, failures>>
          /\ \/ pc[w] = "down" /\ pc' = [pc EXCEPT ![w] = "polling"]
             \/ pc[w] = "working" /\ \E l \in {"succeeding", "failing"} : pc' = [pc EXCEPT ![w] = l]
        BY <1>1 DEF StartWorker, Work, Goto
    <2>2. ProfilingTypeOK'
        BY <1>t, <2>1 DEF ProfilingTypeOK
    <2> QED BY <2>1, <2>2
<1>2. CASE Pop(w)
    <2>1. /\ UNCHANGED <<store, req, failures>> /\ queue # <<>> /\ queue' = Front(queue)
          /\ msg' = [msg EXCEPT ![w] = Last(queue)] /\ pc' = [pc EXCEPT ![w] = "popped"]
        BY <1>2 DEF Pop, Goto
    <2>2. ProfilingTypeOK'
        BY <1>t, <1>f, <2>1 DEF ProfilingTypeOK
    <2> QED BY <1>t, <2>1, <2>2
<1>3. CASE PopRaises(w)
    <2>1. /\ UNCHANGED <<store, req, msg>> /\ failures' = failures + 1 /\ pc[w] = "polling"
          /\ queue' = queue \/ (queue # <<>> /\ queue' = Front(queue))
          /\ \E l \in {"polling", "down"} : pc' = [pc EXCEPT ![w] = l]
        BY <1>3, <1>t DEF PopRaises, Failure
    <2>2. ProfilingTypeOK'
        BY <1>t, <1>f, <2>1 DEF ProfilingTypeOK
    <2> QED BY <2>1, <2>2
<1>4. CASE Begin(w)
    <2>1. /\ UNCHANGED <<queue, req, msg, failures>> /\ store' = Put(msg[w], "started")
          /\ pc[w] = "popped" /\ pc' = [pc EXCEPT ![w] = "working"]
        BY <1>4 DEF Begin, Goto
    <2>2. msg[w] \in Requests
        BY <1>t, <2>1
    <2>3. ProfilingTypeOK'
        BY <1>t, <1>p, <2>1, <2>2 DEF ProfilingTypeOK
    <2> QED BY <2>1, <2>2, <2>3
<1>5. CASE BeginRaises(w) \/ Finish(w) \/ Crash(w)
    <2>1. /\ UNCHANGED <<queue, req>> /\ failures' \in {failures, failures + 1}
          /\ pc[w] # "down" /\ msg' = [msg EXCEPT ![w] = NoRequest]
          /\ \E l \in {"polling", "down"} : pc' = [pc EXCEPT ![w] = l]
          /\ \/ store' = store
             \/ /\ pc[w] \in {"popped", "succeeding", "failing"}
                /\ \E st \in {"started", "completed", "failed"} : store' = Put(msg[w], st)
        BY <1>5 DEF BeginRaises, Finish, Crash, LetGo, Goto, Failure, PutRaises
    <2>2. store' = store \/ msg[w] \in Requests
        BY <1>t, <2>1
    <2>3. ProfilingTypeOK'
        BY <1>t, <1>p, <2>1, <2>2 DEF ProfilingTypeOK
    <2> QED BY <1>t, <2>1, <2>2, <2>3
<1> QED BY <1>1, <1>2, <1>3, <1>4, <1>5 DEF WorkerStep

\* And the other steps: the day passes, a test-data record expires, the API
\* process dies.
LEMMA OtherFacts ==
    ASSUME ProfilingTypeOK, (\E q \in Requests : DayPasses(q) \/ RecordExpires(q)) \/ ApiCrash \/ UNCHANGED vars
    PROVE  /\ ProfilingTypeOK' /\ UNCHANGED <<queue, pc, msg>>
           /\ failures' \in {failures, failures + 1}
           /\ \A r \in Requests :
                 /\ req'[r] \in {req[r], "lost"}
                 /\ store'[r] = store[r] \/ (IsTestData(r) /\ store'[r].status = "absent")
<1>t. /\ store \in StoreType /\ req \in [Requests -> ProfilingReq] /\ failures \in Nat /\ "lost" \in ProfilingReq
    BY DEF ProfilingTypeOK, ProfilingReq
<1>1. ASSUME NEW q \in Requests, RecordExpires(q)
      PROVE  /\ ProfilingTypeOK' /\ UNCHANGED <<queue, pc, msg, req, failures>>
             /\ \A r \in Requests : store'[r] = store[r] \/ (IsTestData(r) /\ store'[r].status = "absent")
    <2>1. /\ UNCHANGED <<queue, pc, msg, req, failures>> /\ IsTestData(q)
          /\ store' = [store EXCEPT ![q].status = "absent"]
        BY <1>1 DEF RecordExpires
    <2>2. store' \in StoreType /\ store'[q].status = "absent" /\ \A r \in Requests : r # q => store'[r] = store[r]
        BY <1>t, <2>1 DEF StoreType
    <2>3. ProfilingTypeOK'
        BY <2>1, <2>2 DEF ProfilingTypeOK
    <2> QED BY <2>1, <2>2, <2>3
<1>2. CASE ApiCrash
    <2>1. /\ UNCHANGED <<store, queue, pc, msg>> /\ failures' = failures + 1
          /\ req' \in [Requests -> ProfilingReq] /\ \A r \in Requests : req'[r] \in {req[r], "lost"}
        BY <1>2, <1>t DEF ApiCrash, Failure
    <2>2. ProfilingTypeOK'
        BY <1>t, <2>1 DEF ProfilingTypeOK
    <2> QED BY <2>1, <2>2
<1>3. CASE (\E q \in Requests : DayPasses(q)) \/ UNCHANGED vars
    <2>1. UNCHANGED <<store, queue, pc, msg, req, failures>>
        BY <1>3 DEF DayPasses, vars
    <2> QED BY <2>1 DEF ProfilingTypeOK
<1> QED BY <1>1, <1>2, <1>3

\* The steps of the specification, as those lemmas group them.
LEMMA ProfilingCases ==
    ASSUME [Next]_vars
    PROVE  \/ \E q \in Requests : Handler(q)
           \/ \E w \in Workers : StartWorker(w) \/ PopRaises(w) \/ WorkerStep(w) \/ Crash(w)
           \/ (\E q \in Requests : DayPasses(q) \/ RecordExpires(q)) \/ ApiCrash \/ UNCHANGED vars
BY DEF Next, Handler

\* The messages of the list after a push or a pop.
LEMMA QueueAfter ==
    ASSUME ProfilingTypeOK, NEW w \in Workers, StartWorker(w) \/ PopRaises(w) \/ WorkerStep(w) \/ Crash(w),
           NEW r, r \in ToSet(queue)' \/ InHand(r)'
    PROVE  r \in ToSet(queue) \/ InHand(r) \/ r = NoRequest
<1>1. queue \in Seq(Requests)
    BY DEF ProfilingTypeOK
<1>2. queue # <<>> => ToSet(queue) = ToSet(Front(queue)) \cup {Last(queue)}
    BY <1>1, FrontLastFacts
<1>3. ToSet(queue)' \subseteq ToSet(queue)
    BY <1>2, WorkerFacts
<1>4. \A v \in Workers : msg'[v] \in {msg[v], NoRequest} \/ msg'[v] \in ToSet(queue)
    BY <1>2, WorkerFacts
<1> QED BY <1>3, <1>4 DEF InHand

LEMMA RowsStep ==
    ASSUME ProfilingTypeOK, RowsKept, [Next]_vars PROVE RowsKept'
<1> SUFFICES ASSUME NEW r \in Requests, RouteOf[r] = "enqueue"
             PROVE  /\ store'[r].status \in Terminal => store'[r].done
                    /\ req'[r] = "new" => store'[r].status = "absent"
                    /\ (req'[r] \in Underway \/ r \in ToSet(queue)' \/ InHand(r)') => store'[r].status # "absent"
    BY DEF RowsKept
<1>0. /\ store[r].status \in Terminal => store[r].done
      /\ req[r] = "new" => store[r].status = "absent"
      /\ (req[r] \in Underway \/ r \in ToSet(queue) \/ InHand(r)) => store[r].status # "absent"
    BY DEF RowsKept
<1>t. /\ store \in StoreType /\ queue \in Seq(Requests) /\ NoRequest \notin Requests
      /\ {"pending", "started", "completed", "failed"} \subseteq Active \cup Terminal
      /\ "absent" \notin Active \cup Terminal /\ "failed" \in Terminal /\ "pending" \notin Terminal
    BY ProfilingAssumption DEF ProfilingTypeOK, Active, Terminal
<1>1. ASSUME NEW q \in Requests, Handler(q)
      PROVE  /\ store'[r].status \in Terminal => store'[r].done
             /\ req'[r] = "new" => store'[r].status = "absent"
             /\ (req'[r] \in Underway \/ r \in ToSet(queue)' \/ InHand(r)') => store'[r].status # "absent"
    <2>1. InHand(r)' <=> InHand(r)
        BY <1>1, HandlerFacts DEF InHand
    <2>2. queue' = queue \/ (ToSet(queue)' = {q} \cup ToSet(queue) /\ req[q] \in Underway /\ store' = store)
        BY <1>1, <1>t, HandlerFacts, ConsFacts DEF Underway
    <2>3. CASE r # q
        <3>1. req'[r] = req[r] /\ store'[r] = store[r]
            BY <1>1, <2>3, HandlerFacts
        <3> QED BY <1>0, <2>1, <2>2, <2>3, <3>1
    <2>4. CASE r = q
        <3>1. CASE store' = store /\ (req'[q] \in Underway => req[q] \in Underway)
            BY <1>0, <1>1, <2>1, <2>2, <2>4, <3>1, HandlerFacts
        <3>2. ASSUME NEW st \in {"pending", "failed"}, store' = Put(q, st)
              PROVE  /\ store'[r].status \in Terminal => store'[r].done
                     /\ store'[r].status # "absent"
            <4>1. store'[r].status = st /\ store'[r].done = (store[r].done \/ st \in Terminal)
                BY <1>t, <2>4, <3>2, PutFacts
            <4> QED BY <1>t, <4>1
        <3>3. req'[r] # "new"
            BY <1>1, <2>4, HandlerFacts
        <3> QED BY <1>1, <2>4, <3>1, <3>2, <3>3, HandlerFacts
    <2> QED BY <2>3, <2>4
<1>2. ASSUME NEW w \in Workers, StartWorker(w) \/ PopRaises(w) \/ WorkerStep(w) \/ Crash(w)
      PROVE  /\ store'[r].status \in Terminal => store'[r].done
             /\ req'[r] = "new" => store'[r].status = "absent"
             /\ (req'[r] \in Underway \/ r \in ToSet(queue)' \/ InHand(r)') => store'[r].status # "absent"
    <2>1. req' = req /\ (r \in ToSet(queue)' \/ InHand(r)' => r \in ToSet(queue) \/ InHand(r))
        BY <1>2, <1>t, QueueAfter, WorkerFacts
    <2>2. CASE store'[r] = store[r]
        BY <1>0, <2>1, <2>2
    <2>3. CASE store'[r] # store[r]
        <3>1. PICK st \in {"started", "completed", "failed"} : msg[w] \in Requests /\ store' = Put(msg[w], st)
            BY <1>2, <2>3, WorkerFacts
        <3>2. r = msg[w]
            BY <1>t, <2>3, <3>1, PutFacts
        <3>3. store'[r].status = st /\ store'[r].done = (store[r].done \/ st \in Terminal)
            BY <1>t, <3>1, <3>2, PutFacts
        <3>4. InHand(r)
            BY <3>2 DEF InHand
        <3> QED BY <1>0, <1>t, <2>1, <3>3, <3>4
    <2> QED BY <2>2, <2>3
<1>3. CASE (\E q \in Requests : DayPasses(q) \/ RecordExpires(q)) \/ ApiCrash \/ UNCHANGED vars
    <2>1. UNCHANGED <<queue, msg>> /\ req'[r] \in {req[r], "lost"} /\ store'[r] = store[r]
        BY <1>3, OtherFacts DEF IsTestData
    <2>2. InHand(r)' <=> InHand(r)
        BY <2>1 DEF InHand
    <2> QED BY <1>0, <2>1, <2>2 DEF Underway
<1> QED BY <1>1, <1>2, <1>3, ProfilingCases

\* A second request becomes active only by a message of a request that had
\* ended, since a handler writes a pending row after its conflict check.
LEMMA FreshStep ==
    ASSUME ProfilingTypeOK, RowsKept, OneFreshRequestPerSource, [Next]_vars
    PROVE  OneFreshRequestPerSource'
<1>t. store \in StoreType /\ "pending" \in Active \cup Terminal /\ "failed" \in Active \cup Terminal
      /\ {"started", "completed", "failed"} \subseteq Active \cup Terminal
      /\ "failed" \notin Active /\ "absent" \notin Active
    BY DEF ProfilingTypeOK, Active, Terminal
<1> DEFINE Kept(r) == (store[r].done => store'[r].done) /\ (IsActive(r)' => IsActive(r) \/ store[r].done)
<1>1. ASSUME \A r \in Requests : RouteOf[r] = "enqueue" => Kept(r) PROVE OneFreshRequestPerSource'
    BY <1>1 DEF OneFreshRequestPerSource, SameObject
<1>2. ASSUME NEW r \in Requests, store'[r] = store[r] PROVE Kept(r)
    BY <1>2 DEF IsActive
<1>3. ASSUME NEW q \in Requests, Handler(q) PROVE OneFreshRequestPerSource'
    <2>1. \A r \in Requests : r # q => store'[r] = store[r]
        BY <1>3, HandlerFacts
    <2>2. CASE RouteOf[q] # "enqueue" \/ store' = store
        BY <1>1, <1>2, <2>1, <2>2
    <2>3. CASE store' = Put(q, "failed")
        <3>1. store'[q].status = "failed" /\ (store[q].done => store'[q].done)
            BY <1>t, <2>3, PutFacts
        <3>2. Kept(q)
            BY <1>t, <3>1 DEF IsActive
        <3> QED BY <1>1, <1>2, <2>1, <3>2
    <2>4. CASE RouteOf[q] = "enqueue" /\ store' = Put(q, "pending") /\ ~Conflict(q)
        <3>1. \A s \in Requests : SameObject(q, s) => ~IsActive(s)
            BY <2>4 DEF Conflict
        <3>2. \A s \in Requests : s # q => (IsActive(s)' <=> IsActive(s))
            BY <2>1 DEF IsActive
        <3> SUFFICES ASSUME NEW r \in Requests, NEW s \in Requests,
                            RouteOf[r] = "enqueue", RouteOf[s] = "enqueue",
                            SameObject(r, s), IsActive(r)', IsActive(s)'
                     PROVE  store'[r].done \/ store'[s].done
            BY DEF OneFreshRequestPerSource, SameObject
        <3>3. SameObject(s, r) /\ r # s
            BY DEF SameObject
        <3>4. r # q /\ s # q
            BY <3>1, <3>2, <3>3
        <3> QED BY <2>1, <3>2, <3>4 DEF OneFreshRequestPerSource
    <2> QED BY <1>3, <2>2, <2>3, <2>4, HandlerFacts
<1>4. ASSUME NEW w \in Workers, StartWorker(w) \/ PopRaises(w) \/ WorkerStep(w) \/ Crash(w)
      PROVE  OneFreshRequestPerSource'
    <2>1. ASSUME NEW r \in Requests, RouteOf[r] = "enqueue", store'[r] # store[r] PROVE Kept(r)
        <3>1. PICK st \in {"started", "completed", "failed"} : msg[w] \in Requests /\ store' = Put(msg[w], st)
            BY <1>4, <2>1, WorkerFacts
        <3>2. r = msg[w]
            BY <1>t, <2>1, <3>1, PutFacts
        <3>3. store'[r].done = (store[r].done \/ st \in Terminal)
            BY <1>t, <3>1, <3>2, PutFacts
        <3>4. store[r].status # "absent" /\ (store[r].status \in Terminal => store[r].done)
            BY <2>1, <3>2 DEF RowsKept, InHand
        <3>5. store[r].status \in {"absent"} \cup Active \cup Terminal
            BY <1>t DEF StoreType
        <3> QED BY <3>3, <3>4, <3>5 DEF IsActive
    <2> QED BY <1>1, <1>2, <2>1
<1>5. CASE (\E q \in Requests : DayPasses(q) \/ RecordExpires(q)) \/ ApiCrash \/ UNCHANGED vars
    <2>1. \A r \in Requests : RouteOf[r] = "enqueue" => store'[r] = store[r]
        BY <1>5, OtherFacts DEF IsTestData
    <2> QED BY <1>1, <1>2, <2>1
<1> QED BY <1>3, <1>4, <1>5, ProfilingCases

\* The handlers: a push leaves the request it is for clean unless it raises.
LEMMA CleanHandler ==
    ASSUME ProfilingTypeOK, NEW q \in Requests, Handler(q),
           NEW r \in Requests, RouteOf[r] # "catalog", Clean(r), r = q => failures' # failures + 1
    PROVE  Clean(r)'
<1>t. queue \in Seq(Requests) /\ failures \in Nat
    BY DEF ProfilingTypeOK
<1>1. /\ \A v \in Workers : msg'[v] = msg[v]
      /\ InHand(r)' <=> InHand(r)
      /\ \A x \in Requests : x # q => req'[x] = req[x] /\ (IsActive(x)' <=> IsActive(x))
    BY HandlerFacts DEF InHand, IsActive
<1>2. queue' = Cons(q, queue) => ToSet(queue)' = {q} \cup ToSet(queue)
    BY <1>t, ConsFacts
<1>3. queue' = queue \/ queue' = Cons(q, queue)
    BY HandlerFacts
<1>4. CASE r # q
    <2>1. r \in ToSet(queue)' <=> r \in ToSet(queue)
        BY <1>2, <1>3, <1>4
    <2>2. Once(queue, r) => Once(queue, r)'
        BY <1>t, <1>3, <1>4, OncePushed
    <2>3. req'[r] = req[r] /\ (IsActive(r)' <=> IsActive(r))
        BY <1>1, <1>4
    <2> QED BY <1>1, <2>1, <2>2, <2>3 DEF Clean
<1>5. CASE r = q /\ queue' = queue /\ (req'[q] \in Early => req[q] \in Early) /\ (req'[q] = "accepted" => RouteOf[q] = "catalog")
    BY <1>1, <1>5 DEF Clean
<1>6. CASE r = q /\ queue' = Cons(q, queue) /\ req[q] \in {"created", "retrying"} /\ req'[q] = "accepted"
    <2>1. r \notin ToSet(queue) /\ ~InHand(r)
        BY <1>6 DEF Clean, Early
    <2>2. r \in ToSet(queue)' /\ \A v \in Workers : msg'[v] # r
        BY <1>1, <1>2, <1>6, <2>1 DEF InHand
    <2>3. Once(queue, r)
        BY <1>t, <2>1 DEF Once, ToSet
    <2>4. Once(queue, r)'
        BY <1>t, <1>6, <2>1, <2>3, OncePushed
    <2> QED BY <1>1, <1>6, <2>1, <2>2, <2>4 DEF Clean, Early
<1> QED BY <1>4, <1>5, <1>6, HandlerFacts

\* The request a step of a worker is about: the one it holds, or the one it
\* takes from the list.
Subject(w) == IF pc[w] = "polling" THEN Last(queue) ELSE msg[w]

\* The others do not notice, and a step that does not fail leaves it clean.
LEMMA CleanWorker ==
    ASSUME ProfilingTypeOK, NEW w \in Workers, StartWorker(w) \/ PopRaises(w) \/ WorkerStep(w) \/ Crash(w),
           NEW r \in Requests, RouteOf[r] # "catalog", ~Mislabelled(r), Clean(r),
           r = Subject(w) => failures' # failures + 1
    PROVE  Clean(r)'
<1>t. /\ store \in StoreType /\ queue \in Seq(Requests) /\ failures \in Nat /\ NoRequest \notin Requests
      /\ msg \in [Workers -> Requests \cup {NoRequest}]
      /\ (msg[w] # NoRequest) <=> (pc[w] \notin {"down", "polling"})
      /\ "started" \in Active \cup Terminal /\ {"completed", "failed"} \subseteq Active \cup Terminal
      /\ "completed" \notin Active /\ "failed" \notin Active /\ "absent" \notin Active
    BY ProfilingAssumption DEF ProfilingTypeOK, Active, Terminal
<1>f. queue # <<>> => /\ ToSet(queue) = ToSet(Front(queue)) \cup {Last(queue)}
                      /\ Once(queue, r) => Once(Front(queue), r) /\ (r = Last(queue) => r \notin ToSet(Front(queue)))
    BY <1>t, FrontLastFacts, OncePopped
<1>r. req' = req /\ \A v \in Workers : v # w => msg'[v] = msg[v]
    BY WorkerFacts
<1>1. ASSUME (r \in ToSet(queue)') <=> (r \in ToSet(queue)), Once(queue, r) => Once(queue, r)',
             (msg'[w] = r) <=> (msg[w] = r), IsActive(r)' => IsActive(r) \/ InHand(r)
      PROVE  Clean(r)'
    <2>1. \A v \in Workers : msg'[v] = r <=> msg[v] = r
        BY <1>r, <1>1
    <2>2. InHand(r)' <=> InHand(r)
        BY <2>1 DEF InHand
    <2> QED BY <1>r, <1>1, <2>1, <2>2 DEF Clean
<1>2. CASE pc[w] = "polling"
    <2>0. Pop(w) \/ PopRaises(w) \/ Crash(w)
        BY <1>2 DEF StartWorker, WorkerStep, Begin, BeginRaises, Work, Finish
    <2>1. /\ msg[w] = NoRequest /\ store' = store
          /\ \/ UNCHANGED <<queue, msg>>
             \/ queue # <<>> /\ queue' = Front(queue) /\ msg' = msg /\ failures' = failures + 1
             \/ queue # <<>> /\ queue' = Front(queue) /\ msg' = [msg EXCEPT ![w] = Last(queue)]
             \/ UNCHANGED queue /\ msg' = [msg EXCEPT ![w] = NoRequest]
        BY <1>2, <1>t, <2>0 DEF PopRaises, Crash, Pop, Failure
    <2>2. IsActive(r)' => IsActive(r)
        BY <2>1 DEF IsActive
    <2>3. CASE UNCHANGED queue /\ msg'[w] = NoRequest
        BY <1>1, <1>t, <2>1, <2>2, <2>3
    <2>4. CASE queue # <<>> /\ queue' = Front(queue) /\ r # Last(queue) /\ msg'[w] \in {NoRequest, Last(queue)}
        BY <1>1, <1>f, <1>t, <2>1, <2>2, <2>4
    <2>5. CASE queue # <<>> /\ queue' = Front(queue) /\ r = Last(queue) /\ msg'[w] = r
        <3>1. r \in ToSet(queue)
            BY <1>f, <2>5
        <3>2. req[r] \notin Early
            BY <3>1 DEF Clean
        <3>3. CASE req[r] = "accepted"
            <4>1. Once(queue, r) /\ ~InHand(r)
                BY <3>1, <3>3 DEF Clean
            <4>2. Once(queue, r)' /\ r \notin ToSet(queue)'
                BY <1>f, <2>5, <4>1
            <4>3. InHand(r)' /\ \A v \in Workers : msg'[v] = r => v = w
                BY <1>r, <2>5, <4>1 DEF InHand
            <4> QED BY <1>r, <3>2, <4>2, <4>3 DEF Clean
        <3> QED BY <1>r, <3>2, <3>3 DEF Clean
    <2> QED BY <1>2, <1>t, <2>1, <2>3, <2>4, <2>5 DEF Subject
<1>3. CASE pc[w] # "polling" /\ r # msg[w]
    <2>1. queue' = queue /\ msg'[w] \in {msg[w], NoRequest}
        BY <1>3, <1>t DEF StartWorker, PopRaises, WorkerStep, Crash, Pop, Begin, BeginRaises, Work, Finish, LetGo
    <2>2. store'[r] = store[r]
        <3>1. store' = store \/ \E st \in {"started", "completed", "failed"} : msg[w] \in Requests /\ store' = Put(msg[w], st)
            BY WorkerFacts
        <3> QED BY <1>3, <1>t, <3>1, PutFacts
    <2> QED BY <1>1, <1>3, <1>t, <2>1, <2>2 DEF IsActive
<1>4. CASE pc[w] # "polling" /\ r = msg[w]
    <2>1. failures' = failures
        BY <1>4, WorkerFacts DEF Subject
    <2>2. InHand(r)
        BY <1>4 DEF InHand
    <2>3. \/ UNCHANGED <<queue, msg>>
          \/ /\ UNCHANGED queue /\ msg' = [msg EXCEPT ![w] = NoRequest]
             /\ \/ store' = store /\ store[r].status = "absent"
                \/ store' = Put(r, "completed") \/ store' = Put(r, "failed")
        BY <1>4, <1>t, <2>1 DEF StartWorker, PopRaises, WorkerStep, Crash, Pop, Begin, BeginRaises, Work, Finish, LetGo, Failure,
                                  Recordless, Mislabelled
    <2>4. CASE UNCHANGED <<queue, msg>>
        BY <1>1, <2>2, <2>4
    <2>5. CASE /\ UNCHANGED queue /\ msg' = [msg EXCEPT ![w] = NoRequest]
               /\ \/ store' = store /\ store[r].status = "absent"
                  \/ store' = Put(r, "completed") \/ store' = Put(r, "failed")
        <3>1. store'[r].status \in {"absent", "completed", "failed"}
            BY <1>t, <2>5, PutFacts
        <3>2. ~IsActive(r)'
            BY <1>t, <3>1 DEF IsActive
        <3>3. req[r] \notin Early
            BY <2>2 DEF Clean
        <3>4. CASE req[r] = "accepted"
            <4>1. Once(queue, r) /\ r \notin ToSet(queue) /\ \A v \in Workers : msg[v] = r => v = w
                BY <1>4, <2>2, <3>4 DEF Clean
            <4>2. \A v \in Workers : msg'[v] # r
                BY <1>r, <1>t, <2>5, <4>1
            <4> QED BY <1>r, <2>5, <3>2, <3>3, <4>1, <4>2 DEF Clean
        <3> QED BY <1>r, <3>3, <3>4 DEF Clean
    <2> QED BY <2>3, <2>4, <2>5
<1> QED BY <1>2, <1>3, <1>4

\* A failure is the end of one clean request at most.
LEMMA CleanStep ==
    ASSUME ProfilingTypeOK, [Next]_vars
    PROVE  /\ failures' \in {failures, failures + 1}
           /\ \E x : \A r \in Requests :
                 RouteOf[r] # "catalog" /\ ~Mislabelled(r) /\ Clean(r) /\ (r = x => failures' # failures + 1) => Clean(r)'
<1>1. ASSUME NEW q \in Requests, Handler(q)
      PROVE  /\ failures' \in {failures, failures + 1}
             /\ \A r \in Requests :
                   RouteOf[r] # "catalog" /\ ~Mislabelled(r) /\ Clean(r) /\ (r = q => failures' # failures + 1) => Clean(r)'
    BY <1>1, HandlerFacts, CleanHandler
<1>2. ASSUME NEW w \in Workers, StartWorker(w) \/ PopRaises(w) \/ WorkerStep(w) \/ Crash(w)
      PROVE  /\ failures' \in {failures, failures + 1}
             /\ \A r \in Requests :
                   RouteOf[r] # "catalog" /\ ~Mislabelled(r) /\ Clean(r) /\ (r = Subject(w) => failures' # failures + 1) => Clean(r)'
    BY <1>2, WorkerFacts, CleanWorker
<1>3. CASE (\E q \in Requests : DayPasses(q) \/ RecordExpires(q)) \/ ApiCrash \/ UNCHANGED vars
    <2>1. ASSUME NEW r \in Requests, Clean(r) PROVE Clean(r)'
        <3>1. UNCHANGED <<queue, msg>> /\ req'[r] \in {req[r], "lost"} /\ (IsActive(r)' => IsActive(r))
            BY <1>3, OtherFacts DEF IsActive, Active
        <3>2. "lost" \notin Early
            BY DEF Early
        <3> QED BY <2>1, <3>1, <3>2 DEF Clean, InHand
    <2> QED BY <1>3, <2>1, OtherFacts
<1> QED BY <1>1, <1>2, <1>3, ProfilingCases

\* Only its creation labels a request, and a label stays.
LEMMA LabelStep ==
    ASSUME ProfilingTypeOK, LabelledOnce, [Next]_vars
    PROVE  LabelledOnce' /\ \A r \in Requests : Mislabelled(r) => Mislabelled(r)'
<1>t. req \in [Requests -> ProfilingReq] /\ type \in [Requests -> Types]
      /\ \A r \in Requests : req[r] = "new" => ~Mislabelled(r)
    BY DEF ProfilingTypeOK, LabelledOnce
<1>1. ASSUME NEW q \in Requests, Enqueue(q) \/ EnqueueRaises(q)
      PROVE  LabelledOnce' /\ \A r \in Requests : Mislabelled(r) => Mislabelled(r)'
    <2>1. /\ req[q] = "new" /\ \E st \in {"rejected", "created", "failed"} : req' = [req EXCEPT ![q] = st]
          /\ type' = type \/ \E ty \in Types : type' = [type EXCEPT ![q] = ty]
        BY <1>1 DEF Enqueue, EnqueueRaises
    <2>2. req'[q] # "new" /\ \A r \in Requests : r # q => req'[r] = req[r]
        BY <1>t, <2>1
    <2>3. type' \in [Requests -> Types] /\ \A r \in Requests : r # q => type'[r] = type[r]
        BY <1>t, <2>1
    <2>4. \A r \in Requests : r # q => (Mislabelled(r)' <=> Mislabelled(r))
        BY <2>3 DEF Mislabelled, AsTestData, IsTestData
    <2> QED BY <1>t, <2>1, <2>2, <2>3, <2>4 DEF LabelledOnce
<1>2. ASSUME type' = type, \A r \in Requests : req'[r] = "new" => req[r] = "new"
      PROVE  LabelledOnce' /\ \A r \in Requests : Mislabelled(r) => Mislabelled(r)'
    <2>1. \A r \in Requests : Mislabelled(r)' <=> Mislabelled(r)
        BY <1>2 DEF Mislabelled, AsTestData, IsTestData
    <2> QED BY <1>t, <1>2, <2>1 DEF LabelledOnce
<1>3. ASSUME NEW q \in Requests, Handler(q), ~Enqueue(q), ~EnqueueRaises(q)
      PROVE  type' = type /\ \A r \in Requests : req'[r] = "new" => req[r] = "new"
    <2>1. /\ type' = type
          /\ \E st \in {"rejected", "checked", "created", "failed", "accepted", "retrying", "marking"} :
                req' = [req EXCEPT ![q] = st]
        BY <1>3 DEF Handler, ApiStep, TestDataCheck, TestDataWrite, TestDataWriteRaises, Push, PushRaises,
                    MarkEnqueueFailed, RequestProfiling, RequestProfilingRaises
    <2> QED BY <1>t, <2>1
<1>4. ASSUME NEW w \in Workers, StartWorker(w) \/ PopRaises(w) \/ WorkerStep(w) \/ Crash(w)
      PROVE  type' = type /\ req' = req
    BY <1>4 DEF StartWorker, PopRaises, WorkerStep, Crash, Pop, Begin, BeginRaises, Work, Finish
<1>5. CASE (\E q \in Requests : DayPasses(q) \/ RecordExpires(q)) \/ ApiCrash \/ UNCHANGED vars
    <2>1. type' = type
        BY <1>5 DEF DayPasses, RecordExpires, ApiCrash, vars
    <2>2. \A r \in Requests : req'[r] \in {req[r], "lost"}
        BY <1>5, OtherFacts
    <2> QED BY <1>2, <2>1, <2>2
<1> QED BY <1>1, <1>2, <1>3, <1>4, <1>5, ProfilingCases

LEMMA UncleanStep ==
    ASSUME ProfilingTypeOK, LabelledOnce, UncleanCostFailures, [Next]_vars
    PROVE  UncleanCostFailures'
<1> DEFINE old == Cardinality(Unclean)
           new == Cardinality(Unclean')
<1>1. IsFiniteSet(Unclean) /\ old \in Nat /\ old =< failures /\ failures \in Nat
    BY FS_CardinalityType DEF UncleanCostFailures, ProfilingTypeOK
<1>2. failures' \in {failures, failures + 1}
    BY CleanStep
<1>3. PICK x : \A r \in Requests :
                  RouteOf[r] # "catalog" /\ ~Mislabelled(r) /\ Clean(r) /\ (r = x => failures' # failures + 1) => Clean(r)'
    BY CleanStep
<1>4. CASE failures' = failures
    <2>1. Unclean' \subseteq Unclean
        BY <1>1, <1>3, <1>4, LabelStep DEF Unclean
    <2>2. IsFiniteSet(Unclean') /\ new =< old /\ new \in Nat
        BY <1>1, <2>1, FS_Subset, FS_CardinalityType
    <2>3. new =< failures'
        BY <1>1, <1>4, <2>2
    <2> QED BY <2>2, <2>3 DEF UncleanCostFailures
<1>5. CASE failures' = failures + 1
    <2> DEFINE more == Cardinality(Unclean \cup {x})
    <2>1. Unclean' \subseteq Unclean \cup {x}
        BY <1>3, LabelStep DEF Unclean
    <2>2. IsFiniteSet(Unclean \cup {x}) /\ more \in {old, old + 1}
        BY <1>1, FS_AddElement
    <2>3. IsFiniteSet(Unclean') /\ new =< more /\ new \in Nat
        BY <2>1, <2>2, FS_Subset, FS_CardinalityType
    <2> HIDE DEF old, new, more
    <2>4. new =< failures'
        BY <1>1, <1>5, <2>2, <2>3
    <2> QED BY <2>3, <2>4 DEF UncleanCostFailures, new
<1> QED BY <1>2, <1>4, <1>5

LEMMA ProfilingInvInit == Init => ProfilingInv
<1> SUFFICES ASSUME Init PROVE ProfilingInv
    OBVIOUS
<1>1. NoRequest \notin Requests
    BY ProfilingAssumption
<1>2. ToSet(queue) = {} /\ \A r \in Requests : ~InHand(r)
    BY <1>1 DEF Init, ToSet, InHand
<1>3. ProfilingTypeOK
    <2>1. store \in StoreType
        BY DEF Init, StoreType
    <2>2. queue \in Seq(Requests) /\ failures \in Nat
        BY DEF Init
    <2> QED BY <2>1, <2>2 DEF Init, ProfilingTypeOK, ProfilingReq
<1>4. RowsKept
    BY <1>2 DEF Init, RowsKept, Terminal, Underway
<1>5. OneFreshRequestPerSource
    BY DEF Init, OneFreshRequestPerSource, IsActive, Active
<1>6. \A r \in Requests : Clean(r)
    BY <1>2 DEF Init, Clean
<1>7. Unclean = {} /\ failures = 0
    BY <1>6 DEF Unclean, Init
<1>8. UncleanCostFailures
    BY <1>7, FS_EmptySet DEF UncleanCostFailures
<1>9. LabelledOnce
    BY DEF Init, LabelledOnce, Types, Mislabelled, AsTestData
<1> QED BY <1>3, <1>4, <1>5, <1>8, <1>9 DEF ProfilingInv

\* What is true of rows, messages and failures after every step, for every
\* number of requests, workers and failures.
THEOREM ProfilingInvariant == Spec => []ProfilingInv
<1>1. ProfilingInv /\ [Next]_vars => ProfilingInv'
    <2> SUFFICES ASSUME ProfilingInv, [Next]_vars PROVE ProfilingInv'
        OBVIOUS
    <2> USE DEF ProfilingInv
    <2>1. ProfilingTypeOK'
        BY HandlerFacts, WorkerFacts, OtherFacts, ProfilingCases
    <2> QED BY <2>1, LabelStep, RowsStep, FreshStep, UncleanStep
<1> QED BY <1>1, ProfilingInvInit, PTL DEF Spec

\* The 409 of the enqueue route keeps one request active per data source,
\* except for one that had ended and was reopened by a message its failed
\* push had left in the list (enqueue_profiling_job, set_started).
THEOREM OneFreshRequest == Spec => []OneFreshRequestPerSource
<1>1. ProfilingInv => OneFreshRequestPerSource
    BY DEF ProfilingInv
<1> QED BY <1>1, ProfilingInvariant, PTL

\* A request the API accepted, whose type fits its route and that is active,
\* has its message in the list or in a worker's hands, except for one request
\* per failed call or crash (run_worker's BRPOP and the status calls of
\* _handle_job).  A mislabelled request, which _handle_job drops before any
\* status call, is outside the statement.
THEOREM LostRequestsAreFew == Spec => []LostRequestCostsAFailure
<1>1. ProfilingInv => LostRequestCostsAFailure
    <2> DEFINE held == {msg[w] : w \in Workers}
               lost == {r \in Requests :
                   /\ RouteOf[r] # "catalog" /\ ~Mislabelled(r)
                   /\ req[r] = "accepted" /\ IsActive(r)
                   /\ r \notin ToSet(queue) \cup held}
    <2> SUFFICES ASSUME ProfilingInv PROVE Cardinality(lost) =< failures
        BY DEF LostRequestCostsAFailure
    <2>1. lost \subseteq Unclean
        BY DEF Unclean, Clean, InHand
    <2>2. /\ IsFiniteSet(Unclean) /\ Cardinality(Unclean) =< failures /\ failures \in Nat
          /\ Cardinality(Unclean) \in Nat
        BY FS_CardinalityType DEF ProfilingInv, UncleanCostFailures, ProfilingTypeOK
    <2>3. Cardinality(lost) =< Cardinality(Unclean) /\ Cardinality(lost) \in Nat
        BY <2>1, <2>2, FS_Subset, FS_CardinalityType
    <2> QED BY <2>2, <2>3
<1> QED BY <1>1, ProfilingInvariant, PTL

(***************************************************************************)
(* The violations in Kafka.  A violation is in the buffer of its producer  *)
(* or in the topic, once; the consumer goes back only when a commit was    *)
(* lost.                                                                   *)
(***************************************************************************)

\* What a run went through, and what the consumer read.
Passed(r) == {Found[r][i] : i \in 1..sent[r]}
Read      == {log[i] : i \in 1..position}

StreamTypeOK ==
    /\ step \in [Runs -> {"start", "publish", "flush", "report", "stop", "stopped", "dead"}]
    /\ sent \in [Runs -> Nat] /\ \A r \in Runs : sent[r] =< Len(Found[r])
    /\ buffer \in [Runs -> Seq(Violations)]
    /\ counted \subseteq Runs
    /\ log \in Seq(Violations)
    /\ committed \in Nat /\ committed =< Len(log)
    /\ position \in Nat /\ position =< Len(log)
    /\ batch \in Seq(Violations)
    /\ objects \in Seq(Seq(Violations))

\* A violation is in the producer's buffer or in the topic, once, and only
\* after the publisher went through it.
InOrder ==
    /\ IsInjective(log)
    /\ \A r \in Runs :
          /\ IsInjective(buffer[r])
          /\ Range(buffer[r]) \subseteq Passed(r) \ Range(log)
          /\ Range(log) \cap Range(Found[r]) \subseteq Passed(r)

\* As long as no commit was lost, the consumer does not go back: the messages
\* of the objects and of the batch in its hands are read, and each only once.
ReadOnce ==
    failed \cap {"commit", "crash"} = {} =>
        /\ consumer = "down" => committed = position
        /\ Range(batch) \subseteq Read
        /\ \A k \in DOMAIN objects : Range(objects[k]) \subseteq Read \ Range(batch)
        /\ \A k, l \in DOMAIN objects : k # l => Range(objects[k]) \cap Range(objects[l]) = {}

\* Without a fault of a producer, what a publisher went through is in the
\* topic or on its way, and that is everything when it reports.
NoneLost ==
    failed \cap {"connect", "send", "deliver", "engine"} = {} =>
        \A r \in Runs :
            /\ Passed(r) \subseteq Range(log) \cup Range(buffer[r])
            /\ step[r] = "report" \/ r \in counted => sent[r] = Len(Found[r])
            /\ step[r] = "stopped" => buffer[r] = <<>>

StreamInv == StreamTypeOK /\ InOrder /\ ReadOnce /\ NoneLost

\* The producer, and a delivery, put a message at the end.
LEMMA AppendFacts ==
    ASSUME NEW S, NEW s \in Seq(S), NEW e \in S
    PROVE  /\ Append(s, e) \in Seq(S) /\ Len(Append(s, e)) = Len(s) + 1
           /\ Range(Append(s, e)) = Range(s) \cup {e}
           /\ \A i \in 1..Len(s) : Append(s, e)[i] = s[i]
           /\ IsInjective(s) /\ e \notin Range(s) => IsInjective(Append(s, e))
<1>1. /\ Append(s, e) \in Seq(S) /\ Len(Append(s, e)) = Len(s) + 1 /\ Append(s, e)[Len(s) + 1] = e
      /\ \A i \in 1..Len(s) : Append(s, e)[i] = s[i]
      /\ DOMAIN s = 1..Len(s) /\ DOMAIN Append(s, e) = 1..(Len(s) + 1) /\ Len(s) \in Nat
    OBVIOUS
<1>2. 1..(Len(s) + 1) = 1..Len(s) \cup {Len(s) + 1}
    BY <1>1
<1> DEFINE t == Append(s, e)
<1> HIDE DEF t
<1>3. Range(t) = Range(s) \cup {e}
    BY <1>1, <1>2 DEF Range, t
<1>4. ASSUME IsInjective(s), e \notin Range(s), NEW i \in DOMAIN t, NEW k \in DOMAIN t, t[i] = t[k] PROVE i = k
    <2>1. \A j \in 1..Len(s) : s[j] # e
        BY <1>1, <1>4 DEF Range
    <2> QED BY <1>1, <1>2, <1>4, <2>1 DEF IsInjective, t
<1> QED BY <1>1, <1>3, <1>4 DEF IsInjective, t

\* A delivery takes the first message of the buffer.
LEMMA HeadTailFacts ==
    ASSUME NEW S, NEW s \in Seq(S), s # <<>>
    PROVE  /\ Tail(s) \in Seq(S) /\ Head(s) \in S
           /\ Range(s) = {Head(s)} \cup Range(Tail(s))
           /\ IsInjective(s) => IsInjective(Tail(s)) /\ Head(s) \notin Range(Tail(s))
<1>1. /\ Len(s) \in Nat /\ Len(s) > 0 /\ DOMAIN s = 1..Len(s) /\ Head(s) = s[1] /\ Head(s) \in S
      /\ Tail(s) \in Seq(S) /\ Len(Tail(s)) = Len(s) - 1
      /\ \A i \in 1..(Len(s) - 1) : Tail(s)[i] = s[i + 1]
    OBVIOUS
<1> DEFINE t == Tail(s)
<1>2. DOMAIN t = 1..(Len(s) - 1)
    BY <1>1
<1> HIDE DEF t
<1>3. Range(s) = {Head(s)} \cup Range(t)
    <2>1. ASSUME NEW i \in 1..Len(s) PROVE s[i] \in {Head(s)} \cup Range(t)
        <3>1. i = 1 \/ (i - 1 \in DOMAIN t /\ t[i - 1] = s[i])
            BY <1>1, <1>2 DEF t
        <3> QED BY <1>1, <3>1 DEF Range
    <2>2. ASSUME NEW i \in DOMAIN t PROVE t[i] \in Range(s)
        <3>1. i + 1 \in DOMAIN s /\ t[i] = s[i + 1]
            BY <1>1, <1>2 DEF t
        <3> QED BY <3>1 DEF Range
    <2>3. Head(s) \in Range(s)
        BY <1>1 DEF Range
    <2> QED BY <1>1, <2>1, <2>2, <2>3 DEF Range
<1>4. ASSUME IsInjective(s) PROVE IsInjective(t) /\ Head(s) \notin Range(t)
    <2>1. \A i \in DOMAIN t : i + 1 \in DOMAIN s /\ i + 1 # 1 /\ 1 \in DOMAIN s /\ t[i] = s[i + 1]
        BY <1>1, <1>2 DEF t
    <2>2. \A i \in DOMAIN t : t[i] # Head(s)
        BY <1>1, <1>4, <2>1 DEF IsInjective
    <2>3. ASSUME NEW i \in DOMAIN t, NEW k \in DOMAIN t, t[i] = t[k] PROVE i = k
        <3>1. i + 1 = k + 1
            BY <1>4, <2>1, <2>3 DEF IsInjective
        <3> QED BY <1>2, <3>1
    <2> QED BY <2>2, <2>3 DEF IsInjective, Range
<1> QED BY <1>1, <1>3, <1>4 DEF t

\* A poll adds the next n messages of the topic to the batch.
LEMMA PollFacts ==
    ASSUME StreamTypeOK, NEW n \in Nat, position + n =< Len(log),
           NEW more, more = batch \o SubSeq(log, position + 1, position + n)
    PROVE  /\ more \in Seq(Violations)
           /\ Range(more) = Range(batch) \cup {log[i] : i \in (position + 1)..(position + n)}
<1>1. batch \in Seq(Violations) /\ log \in Seq(Violations) /\ position \in Nat
    BY DEF StreamTypeOK
<1> DEFINE p == SubSeq(log, position + 1, position + n)
<1>2. \A i \in (position + 1)..(position + n) : log[i] \in Violations
    BY <1>1
<1>3. /\ p \in Seq(Violations) /\ Len(p) = n
      /\ \A i \in 1..n : p[i] = log[position + i]
    <2>1. PICK t : t = SubSeq(log, position + 1, position + n)
        OBVIOUS
    <2>2. /\ t \in Seq(Violations)
          /\ Len(t) = IF position + 1 =< position + n THEN (position + n) - (position + 1) + 1 ELSE 0
          /\ \A i \in 1..((position + n) - (position + 1) + 1) : t[i] = log[(position + 1) + i - 1]
        BY <1>1, <1>2, <2>1, SubSeqProperties
    <2>3. Len(t) = n
        BY <1>1, <2>2
    <2>4. \A i \in 1..n : t[i] = log[position + i]
        BY <1>1, <2>2
    <2> QED BY <2>1, <2>2, <2>3, <2>4
<1> HIDE DEF p
<1>4. /\ batch \o p \in Seq(Violations) /\ Len(batch) \in Nat
      /\ DOMAIN (batch \o p) = 1..(Len(batch) + n)
      /\ \A i \in 1..Len(batch) : (batch \o p)[i] = batch[i]
      /\ \A i \in 1..n : (batch \o p)[Len(batch) + i] = p[i]
    BY <1>1, <1>3
<1> DEFINE m == batch \o p
           new == {log[i] : i \in (position + 1)..(position + n)}
<1>5. ASSUME NEW i \in DOMAIN m PROVE m[i] \in Range(batch) \cup new
    <2>1. CASE i \in 1..Len(batch)
        BY <1>1, <1>4, <2>1 DEF Range
    <2>2. CASE i \notin 1..Len(batch)
        <3>1. PICK j \in 1..n : i = Len(batch) + j
            <4>1. i - Len(batch) \in 1..n /\ i = Len(batch) + (i - Len(batch))
                BY <1>4, <2>2
            <4> QED BY <4>1
        <3>2. m[i] = log[position + j] /\ position + j \in (position + 1)..(position + n)
            BY <1>1, <1>3, <1>4, <3>1
        <3> QED BY <3>2
    <2> QED BY <2>1, <2>2
<1>6. ASSUME NEW i \in 1..Len(batch) PROVE batch[i] \in Range(m)
    <2>1. i \in DOMAIN m /\ m[i] = batch[i]
        BY <1>4
    <2> QED BY <2>1 DEF Range
<1>7. ASSUME NEW i \in (position + 1)..(position + n) PROVE log[i] \in Range(m)
    <2>1. i - position \in 1..n /\ i = position + (i - position)
        BY <1>1
    <2>2. Len(batch) + (i - position) \in DOMAIN m /\ m[Len(batch) + (i - position)] = log[i]
        BY <1>3, <1>4, <2>1
    <2> QED BY <2>2 DEF Range
<1>8. more = m /\ m \in Seq(Violations)
    BY <1>4 DEF p
<1> HIDE DEF m
<1>9. new \subseteq Range(m)
    BY <1>7
<1>10. Range(batch) \subseteq Range(m)
    BY <1>1, <1>6 DEF Range
<1> HIDE DEF new
<1>11. Range(m) \subseteq Range(batch) \cup new
    <2> SUFFICES ASSUME NEW x \in Range(m) PROVE x \in Range(batch) \cup new
        OBVIOUS
    <2>1. PICK i \in DOMAIN m : x = m[i]
        BY DEF Range
    <2> QED BY <1>5, <2>1
<1> QED BY <1>8, <1>9, <1>10, <1>11 DEF new

\* What a publisher went through is what its run found so far.
LEMMA PassedFacts ==
    ASSUME StreamTypeOK, NEW r \in Runs
    PROVE  /\ Passed(r) \subseteq Range(Found[r]) /\ Range(Found[r]) \subseteq Violations
           /\ sent[r] < Len(Found[r]) =>
                 Found[r][sent[r] + 1] \in Range(Found[r]) \ Passed(r)
           /\ sent[r] = Len(Found[r]) => Passed(r) = Range(Found[r])
<1>1. /\ Found[r] \in Seq(Range(Found[r])) /\ IsInjective(Found[r])
      /\ sent[r] \in Nat /\ sent[r] =< Len(Found[r])
    BY StreamAssumption DEF StreamTypeOK
<1>2. DOMAIN Found[r] = 1..Len(Found[r]) /\ Len(Found[r]) \in Nat
    BY <1>1
<1>3. Passed(r) \subseteq Range(Found[r])
    BY <1>1, <1>2 DEF Passed, Range
<1>4. Range(Found[r]) \subseteq Violations
    BY DEF Violations
<1>5. ASSUME sent[r] < Len(Found[r]) PROVE Found[r][sent[r] + 1] \in Range(Found[r]) \ Passed(r)
    <2>1. sent[r] + 1 \in DOMAIN Found[r] /\ sent[r] + 1 \notin 1..sent[r] /\ 1..sent[r] \subseteq DOMAIN Found[r]
        BY <1>1, <1>2, <1>5
    <2> QED BY <1>1, <2>1 DEF Passed, Range, IsInjective
<1>6. sent[r] = Len(Found[r]) => Passed(r) = Range(Found[r])
    BY <1>2 DEF Passed, Range
<1> QED BY <1>3, <1>4, <1>5, <1>6

\* What the steps of a publisher and of its producer do.
Idle(r)     == UNCHANGED <<sent, buffer, log>>
Sends(r)    == /\ sent[r] < Len(Found[r]) /\ sent' = [sent EXCEPT ![r] = @ + 1] /\ UNCHANGED log
               /\ buffer' = [buffer EXCEPT ![r] = Append(@, Found[r][sent[r] + 1])]
Skips(r)    == /\ sent[r] < Len(Found[r]) /\ sent' = [sent EXCEPT ![r] = @ + 1] /\ UNCHANGED <<buffer, log>>
               /\ "send" \in failed'
Delivers(r) == /\ buffer[r] # <<>> /\ buffer' = [buffer EXCEPT ![r] = Tail(@)]
               /\ log' = Append(log, Head(buffer[r])) /\ UNCHANGED sent
Drops(r)    == /\ UNCHANGED <<sent, log>>
               /\ \/ /\ buffer' = [buffer EXCEPT ![r] = <<>>]
                     /\ "engine" \in failed'
                  \/ /\ buffer[r] # <<>> /\ buffer' = [buffer EXCEPT ![r] = Tail(@)]
                     /\ "deliver" \in failed'

\* What each action of a publisher or its producer does to the places of a
\* violation, to the step of the run and to the runs the API counts.
LEMMA PublisherFacts ==
    ASSUME StreamTypeOK, NEW r \in Runs, PublisherNext(r)
    PROVE  /\ UNCHANGED <<committed, position, batch, objects, consumer, term>>
           /\ failed \subseteq failed'
           /\ Idle(r) \/ Sends(r) \/ Skips(r) \/ Delivers(r) \/ Drops(r)
           /\ \E s \in {"publish", "flush", "report", "stop", "stopped", "dead"} :
                 step' \in {step, [step EXCEPT ![r] = s]}
           /\ counted' \in {counted, counted \cup {r}}
           /\ counted' # counted => step[r] = "report" /\ sent' = sent
           /\ step'[r] = "report" /\ step[r] # "report" =>
                 (sent[r] = Len(Found[r]) /\ sent' = sent) \/ "connect" \in failed'
           /\ step'[r] = "stopped" =>
                 buffer'[r] = <<>> \/ (step[r] = "stopped" /\ buffer[r] # <<>>)
<1>t. step \in [Runs -> {"start", "publish", "flush", "report", "stop", "stopped", "dead"}] /\ sent \in [Runs -> Nat]
      /\ buffer \in [Runs -> Seq(Violations)]
    BY DEF StreamTypeOK
<1>1. CASE BeginPublish(r) \/ BeginWithoutProducer(r) \/ FlushTracked(r) \/ Published(r)
    <2>1. /\ UNCHANGED <<sent, buffer, counted, log, consumerVars>> /\ failed \subseteq failed'
          /\ \/ \E s \in {"publish", "stop"} : step' = [step EXCEPT ![r] = s]
             \/ /\ step' = [step EXCEPT ![r] = "report"]
                /\ sent[r] = Len(Found[r]) \/ "connect" \in failed'
        BY <1>1 DEF BeginPublish, BeginWithoutProducer, FlushTracked, Published, StepTo, Fault
    <2> QED BY <1>t, <2>1 DEF Idle, consumerVars
<1>2. CASE Send(r)
    <2>1. /\ UNCHANGED <<counted, log, consumerVars, failed>> /\ step[r] = "publish" /\ sent[r] < Len(Found[r])
          /\ sent' = [sent EXCEPT ![r] = @ + 1]
          /\ buffer' = [buffer EXCEPT ![r] = Append(@, Found[r][sent'[r]])]
          /\ step' \in {step, [step EXCEPT ![r] = "flush"]}
        BY <1>2 DEF Send, StepTo
    <2>2. sent'[r] = sent[r] + 1
        BY <1>t, <2>1
    <2>3. Sends(r)
        BY <2>1, <2>2 DEF Sends
    <2>4. step'[r] \in {"flush", "publish"}
        BY <1>t, <2>1
    <2> QED BY <2>1, <2>3, <2>4 DEF consumerVars
<1>3. CASE SendFails(r)
    <2>1. UNCHANGED <<step, buffer, counted, log, consumerVars>> /\ step[r] = "publish" /\ Skips(r) /\ failed \subseteq failed'
        BY <1>3 DEF SendFails, Skips, Fault
    <2> QED BY <2>1 DEF consumerVars
<1>4. CASE ReportRun(r) \/ ReportRaises(r)
    <2>1. /\ Idle(r) /\ UNCHANGED consumerVars /\ failed \subseteq failed' /\ step[r] = "report"
          /\ step' = [step EXCEPT ![r] = "stop"] /\ counted' \in {counted, counted \cup {r}}
        BY <1>4 DEF ReportRun, ReportRaises, StepTo, Fault, Idle
    <2> QED BY <1>t, <2>1 DEF consumerVars, Idle
<1>5. CASE Stop(r)
    <2>1. /\ Idle(r) /\ UNCHANGED <<counted, consumerVars, failed>> /\ buffer[r] = <<>>
          /\ step' = [step EXCEPT ![r] = "stopped"]
        BY <1>5 DEF Stop, StepTo, Idle
    <2> QED BY <1>t, <2>1 DEF consumerVars, Idle
<1>6. CASE EngineDies(r)
    <2>1. /\ Drops(r) /\ UNCHANGED <<counted, consumerVars>> /\ failed \subseteq failed'
          /\ step' = [step EXCEPT ![r] = "dead"] /\ step[r] # "stopped"
        BY <1>6 DEF EngineDies, Drops, StepTo, Fault
    <2> QED BY <1>t, <2>1 DEF consumerVars
<1>7. CASE Deliver(r) \/ DeliveryFails(r)
    <2>1. /\ Delivers(r) \/ Drops(r)
          /\ UNCHANGED <<step, counted, consumerVars>> /\ failed \subseteq failed' /\ buffer[r] # <<>>
        BY <1>7 DEF Deliver, DeliveryFails, Delivers, Drops, Fault
    <2>2. sent' = sent
        BY <2>1 DEF Delivers, Drops
    <2> QED BY <1>t, <2>1, <2>2 DEF consumerVars
<1> QED BY <1>1, <1>2, <1>3, <1>4, <1>5, <1>6, <1>7 DEF PublisherNext

\* A publisher goes through one violation more.
LEMMA PassedStep ==
    ASSUME StreamTypeOK, NEW r \in Runs,
           sent[r] < Len(Found[r]), sent' = [sent EXCEPT ![r] = @ + 1]
    PROVE  /\ sent' \in [Runs -> Nat] /\ \A q \in Runs : sent'[q] =< Len(Found[q])
           /\ Passed(r)' = Passed(r) \cup {Found[r][sent[r] + 1]}
           /\ \A q \in Runs \ {r} : Passed(q)' = Passed(q)
<1>1. /\ Found[r] \in Seq(Range(Found[r])) /\ sent \in [Runs -> Nat]
      /\ \A q \in Runs : sent[q] =< Len(Found[q])
    BY StreamAssumption DEF StreamTypeOK
<1>2. Len(Found[r]) \in Nat
    BY <1>1
<1>3. sent' \in [Runs -> Nat] /\ sent'[r] = sent[r] + 1 /\ \A q \in Runs \ {r} : sent'[q] = sent[q]
    BY <1>1
<1>4. 1..sent'[r] = 1..sent[r] \cup {sent[r] + 1}
    BY <1>1, <1>3
<1>5. Passed(r)' = Passed(r) \cup {Found[r][sent[r] + 1]}
    BY <1>4 DEF Passed
<1>6. \A q \in Runs \ {r} : Passed(q)' = Passed(q)
    BY <1>3 DEF Passed
<1> QED BY <1>1, <1>2, <1>3, <1>5, <1>6

\* A publisher sends what it was not through with.
LEMMA SendsStep ==
    ASSUME StreamTypeOK, InOrder, NEW r \in Runs, Sends(r)
    PROVE  /\ buffer' \in [Runs -> Seq(Violations)]
           /\ InOrder'
           /\ Range(buffer'[r]) = Range(buffer[r]) \cup {Found[r][sent[r] + 1]}
           /\ \A q \in Runs \ {r} : buffer'[q] = buffer[q]
<1> DEFINE e == Found[r][sent[r] + 1]
<1>1. /\ sent[r] < Len(Found[r]) /\ sent' = [sent EXCEPT ![r] = @ + 1] /\ log' = log
      /\ buffer' = [buffer EXCEPT ![r] = Append(@, e)] /\ buffer \in [Runs -> Seq(Violations)]
    BY DEF Sends, StreamTypeOK
<1>2. e \in Range(Found[r]) \ Passed(r) /\ e \in Violations
    BY <1>1, PassedFacts
<1>3. Passed(r)' = Passed(r) \cup {e} /\ \A q \in Runs \ {r} : Passed(q)' = Passed(q)
    BY <1>1, PassedStep
<1> HIDE DEF e
<1>4. e \notin Range(buffer[r]) /\ e \notin Range(log)
    BY <1>2 DEF InOrder
<1>5. /\ buffer'[r] = Append(buffer[r], e) /\ buffer[r] \in Seq(Violations)
      /\ \A q \in Runs \ {r} : buffer'[q] = buffer[q]
    BY <1>1
<1>6. /\ buffer'[r] \in Seq(Violations) /\ Range(buffer'[r]) = Range(buffer[r]) \cup {e}
      /\ IsInjective(buffer[r]) => IsInjective(buffer'[r])
    BY <1>2, <1>4, <1>5, AppendFacts
<1>7. InOrder'
    <2>1. IsInjective(log')
        BY <1>1 DEF InOrder
    <2>2. ASSUME NEW q \in Runs
          PROVE  /\ IsInjective(buffer'[q])
                 /\ Range(buffer'[q]) \subseteq Passed(q)' \ Range(log')
                 /\ Range(log') \cap Range(Found[q]) \subseteq Passed(q)'
        <3>1. CASE q = r
            BY <1>1, <1>3, <1>4, <1>6, <3>1 DEF InOrder
        <3>2. CASE q # r
            BY <1>1, <1>3, <1>5, <3>2 DEF InOrder
        <3> QED BY <3>1, <3>2
    <2> QED BY <2>1, <2>2 DEF InOrder
<1>8. buffer' \in [Runs -> Seq(Violations)]
    BY <1>1, <1>5, <1>6
<1> QED BY <1>5, <1>6, <1>7, <1>8 DEF e

\* A delivery moves one message, and no other run's.
LEMMA DeliversStep ==
    ASSUME StreamTypeOK, InOrder, NEW r \in Runs, Delivers(r)
    PROVE  /\ buffer' \in [Runs -> Seq(Violations)] /\ InOrder'
           /\ log' \in Seq(Violations) /\ Len(log') = Len(log) + 1
           /\ \A i \in 1..Len(log) : log'[i] = log[i]
           /\ \A q \in Runs : Range(log) \cup Range(buffer[q]) \subseteq Range(log') \cup Range(buffer'[q])
           /\ \A q \in Runs \ {r} : buffer'[q] = buffer[q]
<1> DEFINE h == Head(buffer[r])
<1>1. /\ buffer[r] # <<>> /\ buffer' = [buffer EXCEPT ![r] = Tail(@)] /\ log' = Append(log, h) /\ sent' = sent
      /\ buffer \in [Runs -> Seq(Violations)] /\ log \in Seq(Violations) /\ buffer[r] \in Seq(Violations)
    BY DEF Delivers, StreamTypeOK
<1>2. /\ Tail(buffer[r]) \in Seq(Violations) /\ h \in Violations
      /\ Range(buffer[r]) = {h} \cup Range(Tail(buffer[r]))
      /\ IsInjective(buffer[r]) => IsInjective(Tail(buffer[r])) /\ h \notin Range(Tail(buffer[r]))
    BY <1>1, HeadTailFacts
<1> HIDE DEF h
<1>3. /\ buffer' \in [Runs -> Seq(Violations)] /\ buffer'[r] = Tail(buffer[r])
      /\ \A q \in Runs \ {r} : buffer'[q] = buffer[q]
    BY <1>1, <1>2
<1>4. h \in Passed(r) /\ h \notin Range(log)
    BY <1>2 DEF InOrder
<1>5. /\ log' \in Seq(Violations) /\ Len(log') = Len(log) + 1
      /\ Range(log') = Range(log) \cup {h}
      /\ \A i \in 1..Len(log) : log'[i] = log[i]
      /\ IsInjective(log) => IsInjective(log')
    BY <1>1, <1>2, <1>4, AppendFacts
<1>6. \A q \in Runs : Passed(q)' = Passed(q)
    BY <1>1 DEF Passed
<1>7. ASSUME NEW q \in Runs \ {r} PROVE h \notin Range(buffer[q]) /\ h \notin Range(Found[q])
    <2>1. Passed(r) \subseteq Range(Found[r]) /\ Passed(q) \subseteq Range(Found[q])
        BY PassedFacts
    <2>2. Range(Found[r]) \cap Range(Found[q]) = {}
        BY StreamAssumption
    <2>3. Range(buffer[q]) \subseteq Passed(q)
        BY DEF InOrder
    <2> QED BY <1>4, <2>1, <2>2, <2>3
<1>8. InOrder'
    <2>1. IsInjective(log')
        BY <1>5 DEF InOrder
    <2>2. ASSUME NEW q \in Runs
          PROVE  /\ IsInjective(buffer'[q])
                 /\ Range(buffer'[q]) \subseteq Passed(q)' \ Range(log')
                 /\ Range(log') \cap Range(Found[q]) \subseteq Passed(q)'
        <3>1. CASE q = r
            <4>1. /\ IsInjective(buffer[r]) /\ Range(buffer[r]) \subseteq Passed(r) \ Range(log)
                  /\ Range(log) \cap Range(Found[r]) \subseteq Passed(r)
                BY DEF InOrder
            <4>2. IsInjective(buffer'[r]) /\ h \notin Range(buffer'[r])
                BY <1>2, <1>3, <4>1
            <4>3. Range(buffer'[r]) \subseteq Passed(r)' \ Range(log')
                <5>1. Passed(r)' = Passed(r)
                    BY <1>6
                <5>2. Range(buffer'[r]) \subseteq Range(buffer[r])
                    BY <1>2, <1>3
                <5> QED BY <1>5, <4>1, <4>2, <5>1, <5>2
            <4>4. Range(log') \cap Range(Found[r]) \subseteq Passed(r)'
                BY <1>4, <1>5, <1>6, <4>1
            <4> QED BY <3>1, <4>2, <4>3, <4>4
        <3>2. CASE q # r
            BY <1>3, <1>5, <1>6, <1>7, <3>2 DEF InOrder
        <3> QED BY <3>1, <3>2
    <2> QED BY <2>1, <2>2 DEF InOrder
<1>9. ASSUME NEW q \in Runs
      PROVE  Range(log) \cup Range(buffer[q]) \subseteq Range(log') \cup Range(buffer'[q])
    BY <1>2, <1>3, <1>5
<1> QED BY <1>3, <1>5, <1>8, <1>9

\* What a producer drops was a message on its way.
LEMMA DropsStep ==
    ASSUME StreamTypeOK, InOrder, NEW r \in Runs, Drops(r)
    PROVE  buffer' \in [Runs -> Seq(Violations)] /\ InOrder'
<1>1. /\ sent' = sent /\ log' = log
      /\ buffer \in [Runs -> Seq(Violations)] /\ buffer[r] \in Seq(Violations)
      /\ \/ buffer' = [buffer EXCEPT ![r] = <<>>]
         \/ buffer[r] # <<>> /\ buffer' = [buffer EXCEPT ![r] = Tail(@)]
    BY DEF Drops, StreamTypeOK
<1>2. /\ buffer' \in [Runs -> Seq(Violations)]
      /\ Range(buffer'[r]) \subseteq Range(buffer[r])
      /\ IsInjective(buffer[r]) => IsInjective(buffer'[r])
      /\ \A q \in Runs \ {r} : buffer'[q] = buffer[q]
    <2>1. CASE buffer' = [buffer EXCEPT ![r] = <<>>]
        <3>1. buffer'[r] = <<>> /\ <<>> \in Seq(Violations)
            BY <1>1, <2>1
        <3>2. DOMAIN buffer'[r] = {}
            BY <3>1
        <3> QED BY <1>1, <2>1, <3>1, <3>2 DEF Range, IsInjective
    <2>2. CASE buffer[r] # <<>> /\ buffer' = [buffer EXCEPT ![r] = Tail(@)]
        <3>1. buffer'[r] = Tail(buffer[r])
            BY <1>1, <2>2
        <3>2. /\ Tail(buffer[r]) \in Seq(Violations)
              /\ Range(Tail(buffer[r])) \subseteq Range(buffer[r])
              /\ IsInjective(buffer[r]) => IsInjective(Tail(buffer[r]))
            BY <1>1, <2>2, HeadTailFacts
        <3> QED BY <1>1, <2>2, <3>1, <3>2
    <2> QED BY <1>1, <2>1, <2>2
<1>3. \A q \in Runs : Passed(q)' = Passed(q)
    BY <1>1 DEF Passed
<1>4. InOrder'
    <2>2. ASSUME NEW q \in Runs
          PROVE  /\ IsInjective(buffer'[q])
                 /\ Range(buffer'[q]) \subseteq Passed(q)' \ Range(log')
                 /\ Range(log') \cap Range(Found[q]) \subseteq Passed(q)'
        <3>1. CASE q = r
            BY <1>1, <1>2, <1>3, <3>1 DEF InOrder
        <3>2. CASE q # r
            BY <1>1, <1>2, <1>3, <3>2 DEF InOrder
        <3> QED BY <3>1, <3>2
    <2> QED BY <1>1, <2>2 DEF InOrder
<1> QED BY <1>2, <1>4

\* A step of a publisher or its producer keeps the messages in their way.
LEMMA PublisherOrder ==
    ASSUME StreamTypeOK, InOrder, NEW r \in Runs, PublisherNext(r)
    PROVE  StreamTypeOK' /\ InOrder' /\ Read' = Read
<1>1. /\ UNCHANGED <<committed, position, batch, objects, consumer, term>>
      /\ \E s \in {"publish", "flush", "report", "stop", "stopped", "dead"} :
            step' \in {step, [step EXCEPT ![r] = s]}
      /\ counted' \in {counted, counted \cup {r}}
      /\ Idle(r) \/ Sends(r) \/ Skips(r) \/ Delivers(r) \/ Drops(r)
    BY PublisherFacts
<1>2. step' \in [Runs -> {"start", "publish", "flush", "report", "stop", "stopped", "dead"}]
    BY <1>1 DEF StreamTypeOK
<1>c. counted' \subseteq Runs
    BY <1>1 DEF StreamTypeOK
<1>3. /\ buffer' \in [Runs -> Seq(Violations)] /\ InOrder'
      /\ sent' \in [Runs -> Nat] /\ \A q \in Runs : sent'[q] =< Len(Found[q])
    <2>1. CASE Idle(r)
        <3>1. /\ UNCHANGED <<sent, buffer, log>> /\ sent \in [Runs -> Nat]
              /\ \A q \in Runs : sent[q] =< Len(Found[q])
              /\ buffer \in [Runs -> Seq(Violations)]
            BY <2>1 DEF Idle, StreamTypeOK
        <3>2. InOrder'
            BY <3>1 DEF InOrder, Passed
        <3> QED BY <3>1, <3>2
    <2>2. CASE Sends(r)
        <3>1. sent' \in [Runs -> Nat] /\ \A q \in Runs : sent'[q] =< Len(Found[q])
            BY <2>2, PassedStep DEF Sends
        <3> QED BY <2>2, <3>1, SendsStep
    <2>3. CASE Skips(r)
        <3>1. /\ sent[r] < Len(Found[r]) /\ sent' = [sent EXCEPT ![r] = @ + 1]
              /\ UNCHANGED <<buffer, log>> /\ buffer \in [Runs -> Seq(Violations)]
            BY <2>3 DEF Skips, StreamTypeOK
        <3>2. /\ sent' \in [Runs -> Nat] /\ \A q \in Runs : sent'[q] =< Len(Found[q])
              /\ \A q \in Runs : Passed(q) \subseteq Passed(q)'
            BY <3>1, PassedStep
        <3>3. InOrder'
            BY <3>1, <3>2 DEF InOrder
        <3> QED BY <3>1, <3>2, <3>3
    <2>4. CASE Delivers(r)
        <3>1. sent' = sent
            BY <2>4 DEF Delivers
        <3> QED BY <2>4, <3>1, DeliversStep DEF StreamTypeOK
    <2>5. CASE Drops(r)
        <3>1. sent' = sent
            BY <2>5 DEF Drops
        <3> QED BY <2>5, <3>1, DropsStep DEF StreamTypeOK
    <2> QED BY <1>1, <2>1, <2>2, <2>3, <2>4, <2>5
<1>4. /\ log' \in Seq(Violations) /\ Len(log) =< Len(log') /\ Len(log) \in Nat /\ Len(log') \in Nat
      /\ \A i \in 1..Len(log) : log'[i] = log[i]
    <2>1. CASE Delivers(r)
        <3>1. log \in Seq(Violations)
            BY DEF StreamTypeOK
        <3> QED BY <2>1, <3>1, DeliversStep
    <2>2. CASE ~Delivers(r)
        <3>1. log' = log
            BY <1>1, <2>2 DEF Idle, Sends, Skips, Drops
        <3> QED BY <3>1 DEF StreamTypeOK
    <2> QED BY <2>1, <2>2
<1>5. StreamTypeOK'
    <2>1. /\ committed \in Nat /\ committed =< Len(log) /\ position \in Nat /\ position =< Len(log)
          /\ batch \in Seq(Violations) /\ objects \in Seq(Seq(Violations))
        BY DEF StreamTypeOK
    <2>2. committed' =< Len(log') /\ position' =< Len(log')
        BY <1>1, <1>4, <2>1
    <2> QED BY <1>1, <1>2, <1>c, <1>3, <1>4, <2>1, <2>2 DEF StreamTypeOK
<1>6. Read' = Read
    <2>1. position \in Nat /\ position =< Len(log) /\ position' = position
        BY <1>1 DEF StreamTypeOK
    <2>2. \A i \in 1..position : log'[i] = log[i]
        BY <1>4, <2>1
    <2> QED BY <2>1, <2>2 DEF Read
<1> QED BY <1>3, <1>5, <1>6

\* Only a fault of a producer loses what a publisher went through.
LEMMA PublisherLosesNone ==
    ASSUME StreamTypeOK, InOrder, NoneLost, NEW r \in Runs, PublisherNext(r)
    PROVE  NoneLost'
<1> SUFFICES ASSUME failed' \cap {"connect", "send", "deliver", "engine"} = {}, NEW q \in Runs
             PROVE  /\ Passed(q)' \subseteq Range(log') \cup Range(buffer'[q])
                    /\ step'[q] = "report" \/ q \in counted' => sent'[q] = Len(Found[q])
                    /\ step'[q] = "stopped" => buffer'[q] = <<>>
    BY DEF NoneLost
<1>1. /\ failed \subseteq failed'
      /\ Idle(r) \/ Sends(r) \/ Skips(r) \/ Delivers(r) \/ Drops(r)
      /\ \E s \in {"publish", "flush", "report", "stop", "stopped", "dead"} :
            step' \in {step, [step EXCEPT ![r] = s]}
      /\ counted' \in {counted, counted \cup {r}}
      /\ counted' # counted => step[r] = "report" /\ sent' = sent
      /\ step'[r] = "report" /\ step[r] # "report" => sent[r] = Len(Found[r]) /\ sent' = sent
      /\ step'[r] = "stopped" => buffer'[r] = <<>> \/ (step[r] = "stopped" /\ buffer[r] # <<>>)
    BY PublisherFacts
<1>2. Idle(r) \/ Sends(r) \/ Delivers(r)
    BY <1>1 DEF Skips, Drops
<1>3. /\ failed \cap {"connect", "send", "deliver", "engine"} = {}
      /\ Passed(q) \subseteq Range(log) \cup Range(buffer[q])
      /\ step[q] = "report" \/ q \in counted => sent[q] = Len(Found[q])
      /\ step[q] = "stopped" => buffer[q] = <<>>
      /\ step[r] = "report" \/ r \in counted => sent[r] = Len(Found[r])
      /\ step[r] = "stopped" => buffer[r] = <<>>
    BY <1>1 DEF NoneLost
<1>4. \/ sent' = sent
      \/ /\ sent[r] < Len(Found[r]) /\ sent' = [sent EXCEPT ![r] = @ + 1]
         /\ sent[r] # Len(Found[r])
    <2>1. CASE Sends(r)
        <3>1. sent[r] \in Nat /\ sent[r] < Len(Found[r]) /\ sent' = [sent EXCEPT ![r] = @ + 1]
            BY <2>1 DEF Sends, StreamTypeOK
        <3> QED BY <3>1
    <2> QED BY <1>2, <2>1 DEF Idle, Delivers
<1>5. q # r => step'[q] = step[q] /\ sent'[q] = sent[q] /\ buffer'[q] = buffer[q] /\ (q \in counted' <=> q \in counted)
    <2>1. sent \in [Runs -> Nat] /\ buffer \in [Runs -> Seq(Violations)]
          /\ step \in [Runs -> {"start", "publish", "flush", "report", "stop", "stopped", "dead"}]
        BY DEF StreamTypeOK
    <2>2. q # r => sent'[q] = sent[q]
        BY <1>4, <2>1
    <2>3. q # r => buffer'[q] = buffer[q]
        BY <1>2, <2>1 DEF Idle, Sends, Delivers
    <2>4. q # r => step'[q] = step[q]
        BY <1>1, <2>1
    <2> QED BY <1>1, <2>2, <2>3, <2>4
<1>6. Passed(q)' \subseteq Range(log') \cup Range(buffer'[q])
    <2>1. CASE Idle(r)
        BY <1>3, <2>1 DEF Idle, Passed
    <2>2. CASE Sends(r)
        <3>1. /\ Passed(r)' = Passed(r) \cup {Found[r][sent[r] + 1]}
              /\ \A p \in Runs \ {r} : Passed(p)' = Passed(p)
            BY <2>2, PassedStep DEF Sends
        <3>2. /\ Range(buffer'[r]) = Range(buffer[r]) \cup {Found[r][sent[r] + 1]}
              /\ log' = log
            BY <2>2, SendsStep DEF Sends
        <3>3. CASE q = r
            BY <1>3, <3>1, <3>2, <3>3
        <3>4. CASE q # r
            BY <1>3, <1>5, <3>1, <3>2, <3>4
        <3> QED BY <3>3, <3>4
    <2>3. CASE Delivers(r)
        <3>1. Passed(q)' = Passed(q)
            BY <2>3 DEF Delivers, Passed
        <3>2. Range(log) \cup Range(buffer[q]) \subseteq Range(log') \cup Range(buffer'[q])
            BY <2>3, DeliversStep
        <3> QED BY <1>3, <3>1, <3>2
    <2> QED BY <1>2, <2>1, <2>2, <2>3
<1>7. step'[q] = "report" \/ q \in counted' => sent'[q] = Len(Found[q])
    <2>1. CASE q = r
        BY <1>1, <1>3, <1>4, <2>1
    <2>2. CASE q # r
        BY <1>3, <1>5, <2>2
    <2> QED BY <2>1, <2>2
<1>8. step'[q] = "stopped" => buffer'[q] = <<>>
    <2>1. CASE q = r
        BY <1>1, <1>3, <2>1
    <2>2. CASE q # r
        BY <1>3, <1>5, <2>2
    <2> QED BY <2>1, <2>2
<1> QED BY <1>6, <1>7, <1>8

\* The consumer reads what it read, whatever the publishers do.
LEMMA PublisherStep ==
    ASSUME StreamInv, NEW r \in Runs, PublisherNext(r)
    PROVE  StreamInv'
<1>1. StreamTypeOK /\ InOrder /\ ReadOnce /\ NoneLost
    BY DEF StreamInv
<1>2. StreamTypeOK' /\ InOrder' /\ Read' = Read /\ NoneLost'
    BY <1>1, PublisherOrder, PublisherLosesNone
<1>3. UNCHANGED <<committed, position, batch, objects, consumer>> /\ failed \subseteq failed'
    BY <1>1, PublisherFacts
<1>4. ReadOnce'
    BY <1>1, <1>2, <1>3 DEF ReadOnce
<1> QED BY <1>2, <1>4 DEF StreamInv

\* The consumer leaves the publishers, the producers and the topic alone.
LEMMA ConsumerLosesNone ==
    ASSUME NoneLost, InOrder, ConsumerNext
    PROVE  NoneLost' /\ InOrder'
<1>1. UNCHANGED <<step, sent, buffer, counted, log>> /\ failed \subseteq failed'
    BY DEF ConsumerNext, Start, Poll, EndPoll, PollRaises, WriteBatch, WriteFails, Wake, Close,
           CloseFails, HandleSignal, ConsumerCrash, publisherVars, Fault
<1>2. \A r \in Runs : Passed(r)' = Passed(r)
    BY <1>1 DEF Passed
<1> QED BY <1>1, <1>2 DEF NoneLost, InOrder

\* A poll reads messages nobody read.
LEMMA PollStep ==
    ASSUME StreamTypeOK, InOrder, ReadOnce, NEW n \in 0..MaxPoll, NEW due \in BOOLEAN, Poll(n, due)
    PROVE  StreamTypeOK' /\ ReadOnce'
<1>1. /\ consumer = "poll" /\ position + n =< Len(log)
      /\ committed' = IF due THEN position ELSE committed
      /\ position' = position + n
      /\ batch' = batch \o SubSeq(log, position + 1, position + n)
      /\ consumer' = IF Len(batch') >= BatchSize THEN "flush" ELSE "poll"
      /\ UNCHANGED <<step, sent, buffer, counted, log, objects, failed>>
    BY DEF Poll, publisherVars
<1>2. /\ n \in Nat /\ position \in Nat /\ committed \in Nat /\ log \in Seq(Violations)
      /\ position =< Len(log) /\ committed =< Len(log)
    BY StreamAssumption DEF StreamTypeOK
<1> DEFINE new == {log[i] : i \in (position + 1)..(position + n)}
<1>3. batch' \in Seq(Violations) /\ Range(batch') = Range(batch) \cup new
    BY <1>1, <1>2, PollFacts
<1>4. StreamTypeOK'
    <2>1. committed' \in Nat /\ committed' =< Len(log') /\ position' \in Nat /\ position' =< Len(log')
        BY <1>1, <1>2
    <2> QED BY <1>1, <1>3, <2>1 DEF StreamTypeOK
<1>5. Read' = Read \cup new /\ Read \cap new = {}
    <2>1. Len(log) \in Nat /\ DOMAIN log = 1..Len(log)
        BY <1>2
    <2>2. 1..position' = 1..position \cup (position + 1)..(position + n)
        BY <1>1, <1>2
    <2>3. Read' = Read \cup new
        BY <1>1, <2>2 DEF Read
    <2>4. ASSUME NEW i \in 1..position, NEW k \in (position + 1)..(position + n) PROVE log[i] # log[k]
        <3>1. i \in DOMAIN log /\ k \in DOMAIN log /\ i # k
            BY <1>1, <1>2, <2>1
        <3> QED BY <3>1 DEF InOrder, IsInjective
    <2> QED BY <2>3, <2>4 DEF Read
<1> HIDE DEF new
<1>6. ReadOnce'
    <2>1. consumer' # "down"
        BY <1>1
    <2>2. ASSUME failed' \cap {"commit", "crash"} = {}
          PROVE  /\ Range(batch') \subseteq Read'
                 /\ \A k \in DOMAIN objects' : Range(objects'[k]) \subseteq Read' \ Range(batch')
                 /\ \A k, l \in DOMAIN objects' : k # l => Range(objects'[k]) \cap Range(objects'[l]) = {}
        <3>1. /\ Range(batch) \subseteq Read
              /\ \A k \in DOMAIN objects : Range(objects[k]) \subseteq Read \ Range(batch)
              /\ \A k, l \in DOMAIN objects : k # l => Range(objects[k]) \cap Range(objects[l]) = {}
            BY <1>1, <2>2 DEF ReadOnce
        <3>2. Range(batch') \subseteq Read'
            BY <1>3, <1>5, <3>1
        <3>3. ASSUME NEW k \in DOMAIN objects PROVE Range(objects[k]) \subseteq Read' \ Range(batch')
            BY <1>3, <1>5, <3>1
        <3> QED BY <1>1, <3>1, <3>2, <3>3
    <2> QED BY <2>1, <2>2 DEF ReadOnce
<1> QED BY <1>4, <1>6

\* A batch becomes an object: its messages were in no other.
LEMMA WriteBatchStep ==
    ASSUME StreamTypeOK, ReadOnce, WriteBatch
    PROVE  StreamTypeOK' /\ ReadOnce'
<1>1. /\ objects' = Append(objects, batch) /\ batch' = <<>> /\ consumer' = "sleep"
      /\ UNCHANGED <<step, sent, buffer, counted, log, committed, position, failed>>
    BY DEF WriteBatch, publisherVars
<1>2. objects \in Seq(Seq(Violations)) /\ batch \in Seq(Violations) /\ <<>> \in Seq(Violations)
    BY DEF StreamTypeOK
<1>3. /\ objects' \in Seq(Seq(Violations)) /\ Len(objects) \in Nat
      /\ DOMAIN objects = 1..Len(objects) /\ DOMAIN objects' = DOMAIN objects \cup {Len(objects) + 1}
      /\ \A k \in DOMAIN objects : objects'[k] = objects[k]
      /\ objects'[Len(objects) + 1] = batch /\ Len(objects) + 1 \notin DOMAIN objects
    BY <1>1, <1>2
<1>4. StreamTypeOK'
    BY <1>1, <1>2, <1>3 DEF StreamTypeOK
<1>5. Read' = Read
    BY <1>1 DEF Read
<1>6. Range(batch') = {}
    BY <1>1 DEF Range
<1>7. ReadOnce'
    <2>1. ASSUME failed' \cap {"commit", "crash"} = {}
          PROVE  /\ \A k \in DOMAIN objects' : Range(objects'[k]) \subseteq Read
                 /\ \A k, l \in DOMAIN objects' : k # l => Range(objects'[k]) \cap Range(objects'[l]) = {}
        <3>1. /\ Range(batch) \subseteq Read
              /\ \A k \in DOMAIN objects : Range(objects[k]) \subseteq Read \ Range(batch)
              /\ \A k, l \in DOMAIN objects : k # l => Range(objects[k]) \cap Range(objects[l]) = {}
            BY <1>1, <2>1 DEF ReadOnce
        <3>2. ASSUME NEW k \in DOMAIN objects' PROVE Range(objects'[k]) \subseteq Read
            BY <1>3, <3>1
        <3>3. ASSUME NEW k \in DOMAIN objects', NEW l \in DOMAIN objects', k # l
              PROVE  Range(objects'[k]) \cap Range(objects'[l]) = {}
            <4>1. \A j \in DOMAIN objects : Range(objects'[j]) \cap Range(batch) = {}
                BY <1>3, <3>1
            <4>2. CASE k \in DOMAIN objects /\ l \in DOMAIN objects
                BY <1>3, <3>1, <3>3, <4>2
            <4>3. CASE k \notin DOMAIN objects
                <5>1. objects'[k] = batch /\ l \in DOMAIN objects
                    BY <1>3, <3>3, <4>3
                <5> QED BY <4>1, <5>1
            <4>4. CASE l \notin DOMAIN objects
                <5>1. objects'[l] = batch /\ k \in DOMAIN objects
                    BY <1>3, <3>3, <4>4
                <5> QED BY <4>1, <5>1
            <4> QED BY <4>2, <4>3, <4>4
        <3> QED BY <3>2, <3>3
    <2> QED BY <1>1, <1>5, <1>6, <2>1 DEF ReadOnce
<1> QED BY <1>4, <1>7

\* Only a commit that is lost, or a crash, puts the consumer back.
LEMMA ConsumerStep ==
    ASSUME StreamInv, ConsumerNext
    PROVE  StreamInv'
<1>1. StreamTypeOK /\ InOrder /\ ReadOnce /\ NoneLost
    BY DEF StreamInv
<1>2. NoneLost' /\ InOrder'
    BY <1>1, ConsumerLosesNone
<1>3. Range(<<>>) = {} /\ <<>> \in Seq(Violations)
    BY DEF Range
<1>4. StreamTypeOK' /\ ReadOnce'
    <2>1. CASE Start
        <3>1. /\ consumer = "down" /\ consumer' = "poll" /\ position' = committed
              /\ UNCHANGED <<step, sent, buffer, counted, log, committed, batch, objects, failed>>
            BY <2>1 DEF Start, publisherVars
        <3>2. StreamTypeOK'
            BY <1>1, <3>1 DEF StreamTypeOK
        <3>3. failed \cap {"commit", "crash"} = {} => Read' = Read
            BY <1>1, <3>1 DEF ReadOnce, Read
        <3> QED BY <1>1, <3>1, <3>2, <3>3 DEF ReadOnce
    <2>2. CASE \E n \in 0..MaxPoll, due \in BOOLEAN : Poll(n, due)
        BY <1>1, <2>2, PollStep
    <2>3. CASE EndPoll \/ Wake \/ HandleSignal
        <3>1. /\ UNCHANGED <<step, sent, buffer, counted, log, committed, position, batch, objects, failed>>
              /\ consumer' = "down" => consumer = "down"
            BY <1>1, <2>3 DEF EndPoll, Wake, HandleSignal, publisherVars, ReadOnce
        <3>2. StreamTypeOK' /\ Read' = Read
            BY <1>1, <3>1 DEF StreamTypeOK, Read
        <3> QED BY <1>1, <3>1, <3>2 DEF ReadOnce
    <2>4. CASE WriteBatch
        BY <1>1, <2>4, WriteBatchStep
    <2>5. CASE PollRaises \/ WriteFails \/ ConsumerCrash
        <3>1. /\ UNCHANGED <<step, sent, buffer, counted, log, committed, position, objects>>
              /\ batch' = <<>> /\ failed \subseteq failed'
              /\ consumer' = "down" => "crash" \in failed'
            BY <2>5 DEF PollRaises, WriteFails, ConsumerCrash, publisherVars, Fault
        <3>2. StreamTypeOK' /\ Read' = Read /\ Range(batch') = {}
            BY <1>1, <1>3, <3>1 DEF StreamTypeOK, Read
        <3>3. ASSUME failed' \cap {"commit", "crash"} = {}
              PROVE  /\ consumer' # "down" /\ failed \cap {"commit", "crash"} = {}
            BY <3>1, <3>3
        <3> QED BY <1>1, <3>1, <3>2, <3>3 DEF ReadOnce
    <2>6. CASE Close \/ CloseFails
        <3>1. /\ UNCHANGED <<step, sent, buffer, counted, log, position, batch, objects>>
              /\ consumer = "close" /\ consumer' = "down" /\ committed' \in {committed, position}
              /\ failed \subseteq failed'
              /\ committed' = position \/ "commit" \in failed'
            BY <2>6 DEF Close, CloseFails, publisherVars, Fault
        <3>2. StreamTypeOK' /\ Read' = Read
            BY <1>1, <3>1 DEF StreamTypeOK, Read
        <3>3. ASSUME failed' \cap {"commit", "crash"} = {}
              PROVE  committed' = position' /\ failed \cap {"commit", "crash"} = {}
            BY <3>1, <3>3
        <3> QED BY <1>1, <3>1, <3>2, <3>3 DEF ReadOnce
    <2> QED BY <2>1, <2>2, <2>3, <2>4, <2>5, <2>6 DEF ConsumerNext
<1> QED BY <1>2, <1>4 DEF StreamInv

\* At the start nothing is sent, read or stored.
LEMMA StreamInitInvariant == StreamInit => StreamInv
<1> SUFFICES ASSUME StreamInit PROVE StreamInv
    OBVIOUS
<1>1. /\ step = [r \in Runs |-> "start"] /\ sent = [r \in Runs |-> 0]
      /\ buffer = [r \in Runs |-> <<>>] /\ counted = {}
      /\ log = <<>> /\ committed = 0 /\ position = 0
      /\ batch = <<>> /\ objects = <<>> /\ consumer = "down"
    BY DEF StreamInit
<1>2. /\ Range(<<>>) = {} /\ IsInjective(<<>>) /\ DOMAIN <<>> = {} /\ Len(<<>>) = 0
      /\ <<>> \in Seq(Violations) /\ <<>> \in Seq(Seq(Violations))
    BY DEF Range, IsInjective
<1>3. ASSUME NEW r \in Runs PROVE 0 =< Len(Found[r])
    <2>1. Found[r] \in Seq(Range(Found[r]))
        BY StreamAssumption
    <2> QED BY <2>1
<1>4. StreamTypeOK
    BY <1>1, <1>2, <1>3 DEF StreamTypeOK
<1>5. Read = {} /\ \A r \in Runs : Passed(r) = {}
    BY <1>1 DEF Read, Passed
<1>6. InOrder /\ ReadOnce /\ NoneLost
    BY <1>1, <1>2, <1>5 DEF InOrder, ReadOnce, NoneLost
<1> QED BY <1>4, <1>6 DEF StreamInv

\* A message keeps its place from the publisher to the object: it is in the
\* producer's buffer or in the topic, once (Send, Deliver), and the consumer
\* commits its position whenever it closes, so that it does not read it again
\* (Start, Poll, Close).
THEOREM StreamInvariant == StreamSpec => []StreamInv
<1>1. StreamInit => StreamInv
    BY StreamInitInvariant
<1>2. StreamInv /\ [StreamNext]_streamVars => StreamInv'
    <2> SUFFICES ASSUME StreamInv, [StreamNext]_streamVars PROVE StreamInv'
        OBVIOUS
    <2>1. CASE \E r \in Runs : PublisherNext(r)
        BY <2>1, PublisherStep
    <2>2. CASE ConsumerNext
        BY <2>2, ConsumerStep
    <2>3. CASE UNCHANGED streamVars
        <3>1. UNCHANGED <<step, sent, buffer, counted, log, committed, position, batch, objects, consumer, failed>>
            BY <2>3 DEF streamVars, publisherVars, consumerVars
        <3>2. Read' = Read /\ \A r \in Runs : Passed(r)' = Passed(r)
            BY <3>1 DEF Read, Passed
        <3>3. StreamTypeOK' /\ InOrder'
            BY <3>1, <3>2 DEF StreamInv, StreamTypeOK, InOrder
        <3>4. ReadOnce'
            BY <3>1, <3>2 DEF StreamInv, ReadOnce
        <3>5. NoneLost'
            BY <3>1, <3>2 DEF StreamInv, NoneLost
        <3> QED BY <3>3, <3>4, <3>5 DEF StreamInv
    <2> QED BY <2>1, <2>2, <2>3 DEF StreamNext
<1> QED BY <1>1, <1>2, PTL DEF StreamSpec

\* Only a lost commit or a crash of the consumer puts a message into a second
\* object; restarts by a signal and writes and polls that fail do not.
THEOREM MessagesAreStoredOnce == StreamSpec => []RepetitionCostsAFault
<1>1. StreamInv => RepetitionCostsAFault
    <2> SUFFICES ASSUME StreamInv, failed \cap {"commit", "crash"} = {}, NEW v \in Violations
                 PROVE  Cardinality(Objects(v)) =< 1
        BY DEF RepetitionCostsAFault
    <2>1. \A k, l \in DOMAIN objects : k # l => Range(objects[k]) \cap Range(objects[l]) = {}
        BY DEF StreamInv, ReadOnce
    <2>2. \A k, l \in Objects(v) : k = l
        BY <2>1 DEF Objects
    <2>3. CASE Objects(v) = {}
        <3>1. Cardinality(Objects(v)) = 0
            BY <2>3, FS_EmptySet
        <3> QED BY <3>1
    <2>4. CASE Objects(v) # {}
        <3>1. PICK k : Objects(v) = {k}
            BY <2>2, <2>4
        <3>2. Cardinality(Objects(v)) = 1
            BY <3>1, FS_Singleton
        <3> QED BY <3>2
    <2> QED BY <2>3, <2>4
<1> QED BY <1>1, StreamInvariant, PTL

\* The violations of a run that is over and that the API counts are all in the
\* topic, unless the producer or its process failed: the report goes out
\* before the flush (ReportRun, Stop), and the flush sends the rest.
THEOREM CountedIsInTopic == StreamSpec => []CountedLossCostsAFault
<1>1. StreamInv => CountedLossCostsAFault
    <2> SUFFICES ASSUME StreamInv, failed \cap {"connect", "send", "deliver", "engine"} = {},
                        NEW r \in counted, step[r] = "stopped"
                 PROVE  Range(Found[r]) \subseteq Range(log)
        BY DEF CountedLossCostsAFault
    <2>1. r \in Runs
        BY DEF StreamInv, StreamTypeOK
    <2>2. Passed(r) \subseteq Range(log) \cup Range(buffer[r]) /\ sent[r] = Len(Found[r]) /\ buffer[r] = <<>>
        BY <2>1 DEF StreamInv, NoneLost
    <2>3. Passed(r) = Range(Found[r])
        BY <2>1, <2>2, PassedFacts DEF StreamInv
    <2>4. Range(buffer[r]) = {}
        BY <2>2 DEF Range
    <2> QED BY <2>2, <2>3, <2>4
<1> QED BY <1>1, StreamInvariant, PTL
=============================================================================
