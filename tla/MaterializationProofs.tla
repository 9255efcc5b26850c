-------------------------- MODULE MaterializationProofs --------------------------
(***************************************************************************)
(* For every number of requests, workers, locations and faults: a          *)
(* completed request was delivered, and each message left behind in the    *)
(* processing list cost a fault.  With one worker, which is what compose   *)
(* starts, every note it asked for is about a whole dataset.               *)
(*                                                                         *)
(* The first two need what a worker that is about to finish has delivered, *)
(* and that a worker at rest holds no message.  The third follows the      *)
(* store through a job: the targets behind the worker are whole, and the   *)
(* one before it holds what it uploaded so far, and nothing else.          *)
(***************************************************************************)
EXTENDS Materialization, TLAPS, FiniteSetTheorems

Phases == {"new", "admitted", "reused", "recorded", "unpushed", "done"}
Statuses == {"none", "pending", "started", "completed", "failed"}
Places == {"poll", "start", "write", "upload", "report", "finish", "fail", "ack"}

TypeOK ==
    /\ phase \in [Requests -> Phases] /\ record \in [Requests -> Statuses]
    /\ queue \in Seq(Requests)
    /\ processing \subseteq Requests /\ IsFiniteSet(processing)
    /\ store \in [Locations -> SUBSET (Requests \X Parts)]
    /\ pc \in [Workers -> Places] /\ job \in [Workers -> Requests \cup {NoRequest}]
    /\ at \in [Workers -> Nat] /\ left \in [Workers -> SUBSET Parts]
    /\ faults \in Nat

\* A worker holds a message from the pop to its return to the list, and is at
\* one of the request's targets.
Holding ==
    \A w \in Workers :
        /\ pc[w] = "poll" => job[w] = NoRequest
        /\ pc[w] # "poll" => job[w] \in Requests /\ at[w] \in 1..Len(Targets[job[w]])

AllDelivered(r) == \A n \in DOMAIN Targets[r] : <<r, Targets[r][n]>> \in delivered

FinishDelivered == \A w \in Workers : pc[w] = "finish" => AllDelivered(job[w])

Leftover == {r \in processing : \A w \in Workers : job[w] # r}

IInv ==
    /\ TypeOK /\ Holding /\ FinishDelivered
    /\ CompletedIsDelivered /\ LeftoverCostsAFault

\* The dataset of request r is at u, and nothing else.
Full(r, u) == store[u] = {r} \X Parts

FilledAt(w) ==
    /\ pc[w] = "start" => at[w] = 1
    /\ pc[w] = "write" => \A n \in 1..(at[w] - 1) : Full(job[w], Targets[job[w]][n])
    /\ pc[w] = "upload" =>
          /\ \A n \in 1..(at[w] - 1) : Targets[job[w]][n] # Target(w) => Full(job[w], Targets[job[w]][n])
          /\ store[Target(w)] = {job[w]} \X (Parts \ left[w])
    /\ pc[w] = "report" => \A n \in DOMAIN Targets[job[w]] : Full(job[w], Targets[job[w]][n])

Filled == \A w \in Workers : FilledAt(w)

WInv ==
    /\ torn \subseteq Requests \X Locations
    /\ Filled /\ WorkerDeliversWhole

OneWorker == \A v, w \in Workers : v = w

-----------------------------------------------------------------------------
\* The count of what is left behind.
LEMMA LeftoverFinite ==
    ASSUME TypeOK
    PROVE  IsFiniteSet(Leftover) /\ Cardinality(Leftover) \in Nat
<1>1. Leftover \in SUBSET processing
  BY DEF Leftover
<1>2. IsFiniteSet(Leftover)
  BY <1>1, FS_Subset DEF TypeOK
<1>3. QED  BY <1>2, FS_CardinalityType

LEMMA LeftoverKept ==
    ASSUME TypeOK, LeftoverCostsAFault, faults' \in {faults, faults + 1}, Leftover' \subseteq Leftover
    PROVE  LeftoverCostsAFault'
<1>1. IsFiniteSet(Leftover) /\ Cardinality(Leftover) \in Nat
  BY LeftoverFinite
<1>2. IsFiniteSet(Leftover') /\ Cardinality(Leftover') <= Cardinality(Leftover)
  BY <1>1, FS_Subset
<1>3. Cardinality(Leftover') \in Nat
  BY <1>2, FS_CardinalityType
<1>4. Cardinality(Leftover) <= faults /\ faults \in Nat
  BY DEF LeftoverCostsAFault, Leftover, TypeOK
<1>5. Cardinality(Leftover') <= faults'
  BY <1>1, <1>2, <1>3, <1>4
<1>6. QED  BY <1>5 DEF LeftoverCostsAFault, Leftover

LEMMA LeftoverOneMore ==
    ASSUME TypeOK, LeftoverCostsAFault, faults' = faults + 1, NEW x,
           Leftover' \subseteq Leftover \cup {x}
    PROVE  LeftoverCostsAFault'
<1>1. IsFiniteSet(Leftover) /\ Cardinality(Leftover) \in Nat
  BY LeftoverFinite
<1>2. /\ IsFiniteSet(Leftover \cup {x}) /\ Cardinality(Leftover \cup {x}) \in Nat
      /\ Cardinality(Leftover \cup {x}) <= Cardinality(Leftover) + 1
  <2>1. /\ IsFiniteSet(Leftover \cup {x})
        /\ Cardinality(Leftover \cup {x}) =
              IF x \in Leftover THEN Cardinality(Leftover) ELSE Cardinality(Leftover) + 1
    BY <1>1, FS_AddElement
  <2>2. QED  BY <1>1, <2>1
<1>3. IsFiniteSet(Leftover') /\ Cardinality(Leftover') <= Cardinality(Leftover \cup {x})
  BY <1>2, FS_Subset
<1>4. Cardinality(Leftover') \in Nat
  BY <1>3, FS_CardinalityType
<1>5. Cardinality(Leftover) <= faults /\ faults \in Nat
  BY DEF LeftoverCostsAFault, Leftover, TypeOK
<1>6. Cardinality(Leftover') <= faults'
  BY <1>1, <1>2, <1>3, <1>4, <1>5
<1>7. QED  BY <1>6 DEF LeftoverCostsAFault, Leftover

\* Notes are never taken back.
LEMMA DeliverFacts ==
    ASSUME NEW r \in Requests, NEW k, Deliver(r, k)
    PROVE  /\ delivered \subseteq delivered'
           /\ k = Len(Targets[r]) => AllDelivered(r)'
<1>1. delivered' = delivered \cup {<<r, Targets[r][n]>> : n \in 1..k}
  BY DEF Deliver
<1>2. Targets[r] \in Seq(Locations)
  BY MaterializationAssumption
<1>3. DOMAIN Targets[r] = 1..Len(Targets[r])
  BY <1>2
<1>4. QED  BY <1>1, <1>3 DEF AllDelivered

LEMMA TargetsType ==
    ASSUME NEW r \in Requests
    PROVE  /\ Targets[r] \in Seq(Locations) /\ Len(Targets[r]) \in Nat
           /\ DOMAIN Targets[r] = 1..Len(Targets[r]) /\ 1 \in 1..Len(Targets[r])
           /\ \A n \in 1..Len(Targets[r]) : Targets[r][n] \in Locations
<1>1. Targets[r] \in Seq(Locations) /\ Targets[r] # <<>>
  BY MaterializationAssumption
<1>2. Len(Targets[r]) \in Nat /\ DOMAIN Targets[r] = 1..Len(Targets[r])
  BY <1>1
<1>3. Len(Targets[r]) # 0
  BY <1>1
<1>4. QED  BY <1>1, <1>2, <1>3

LEMMA KeepInvariant ==
    ASSUME IInv, TypeOK', Holding', LeftoverCostsAFault', delivered \subseteq delivered',
           \A r \in Requests : record'[r] = "completed" => record[r] = "completed" \/ AllDelivered(r)',
           \A w \in Workers : pc'[w] = "finish" =>
               (pc[w] = "finish" /\ job'[w] = job[w]) \/ AllDelivered(job[w])'
    PROVE  IInv'
<1>1. \A r : AllDelivered(r) => AllDelivered(r)'
  BY DEF AllDelivered
<1>2. FinishDelivered'
  <2>1. ASSUME NEW w \in Workers, pc'[w] = "finish" PROVE AllDelivered(job[w])'
    <3>1. CASE pc[w] = "finish" /\ job'[w] = job[w]
      BY <3>1 DEF IInv, FinishDelivered, AllDelivered
    <3>2. QED  BY <2>1, <3>1
  <2>2. QED  BY <2>1 DEF FinishDelivered
<1>3. CompletedIsDelivered'
  BY <1>1 DEF IInv, CompletedIsDelivered, AllDelivered
<1>4. QED  BY <1>2, <1>3 DEF IInv

\* A step of the API leaves the workers and the processing list alone.
LEMMA ApiKeeps ==
    ASSUME IInv, NEW r \in Requests,
           worker' = worker, processing' = processing, store' = store,
           faults' \in {faults, faults + 1}, delivered \subseteq delivered',
           NEW p \in Phases, phase' = [phase EXCEPT ![r] = p],
           NEW s \in Statuses, record' = [record EXCEPT ![r] = s] \/ record' = record,
           s = "completed" => AllDelivered(r)',
           queue' \in {queue, Append(queue, r)}
    PROVE  IInv'
<1>1. pc' = pc /\ job' = job /\ at' = at /\ left' = left
  BY DEF worker
<1>2. TypeOK'
  <2>1. queue' \in Seq(Requests)
    <3>1. queue \in Seq(Requests)
      BY DEF IInv, TypeOK
    <3>2. Append(queue, r) \in Seq(Requests)
      BY <3>1
    <3>3. QED  BY <3>1, <3>2
  <2>2. record' \in [Requests -> Statuses] /\ phase' \in [Requests -> Phases]
    BY DEF IInv, TypeOK
  <2>3. faults' \in Nat
    BY DEF IInv, TypeOK
  <2>4. QED  BY <1>1, <2>1, <2>2, <2>3 DEF IInv, TypeOK
<1>3. Holding'
  BY <1>1 DEF IInv, Holding
<1>4. LeftoverCostsAFault'
  <2>1. Leftover' \subseteq Leftover
    BY <1>1 DEF Leftover
  <2>2. QED  BY <2>1, LeftoverKept DEF IInv
<1>5. \A x \in Requests : record'[x] = "completed" => record[x] = "completed" \/ AllDelivered(x)'
  BY DEF IInv, TypeOK
<1>6. QED  BY <1>1, <1>2, <1>3, <1>4, <1>5, KeepInvariant

LEMMA ReuseStep ==
    ASSUME IInv, NEW r \in Requests, Reuse(r)
    PROVE  IInv'
<1>1. /\ phase' = [phase EXCEPT ![r] = "reused"] /\ queue' = queue /\ processing' = processing
      /\ store' = store /\ worker' = worker
  BY DEF Reuse, lists
<1>2. CASE /\ Deliver(r, Len(Targets[r])) /\ record' = [record EXCEPT ![r] = "completed"]
           /\ UNCHANGED fault
  <2>1. delivered \subseteq delivered' /\ AllDelivered(r)'
    BY <1>2, DeliverFacts
  <2>2. faults' \in {faults, faults + 1}
    BY <1>2 DEF fault
  <2>3. "completed" \in Statuses /\ "reused" \in Phases
    BY DEF Statuses, Phases
  <2>4. QED  BY <1>1, <1>2, <2>1, <2>2, <2>3, ApiKeeps
<1>3. CASE /\ Fail("report") /\ \E k \in 0..Len(Targets[r]) : Deliver(r, k)
           /\ UNCHANGED record
  <2>1. delivered \subseteq delivered'
    BY <1>3, DeliverFacts
  <2>2. faults' \in {faults, faults + 1}
    BY <1>3 DEF Fail
  <2>3. "none" \in Statuses /\ "reused" \in Phases
    BY DEF Statuses, Phases
  <2>4. QED  BY <1>1, <1>3, <2>1, <2>2, <2>3, ApiKeeps
<1>4. QED  BY <1>2, <1>3 DEF Reuse

LEMMA ApiStepKeeps ==
    ASSUME IInv, NEW r \in Requests,
           Admit(r) \/ WriteRecord(r) \/ Push(r) \/ PushFails(r) \/ MarkFailed(r) \/ ApiStops(r)
    PROVE  IInv'
<1>1. /\ worker' = worker /\ processing' = processing /\ store' = store /\ delivered' = delivered
      /\ queue' \in {queue, Append(queue, r)}
  BY DEF Admit, WriteRecord, Push, PushFails, MarkFailed, ApiStops, lists, notes
<1>2. faults' \in {faults, faults + 1}
  BY DEF Admit, WriteRecord, Push, PushFails, MarkFailed, ApiStops, fault, Fail
<1>3. \E p \in Phases : phase' = [phase EXCEPT ![r] = p]
  BY DEF Admit, WriteRecord, Push, PushFails, MarkFailed, ApiStops, Phases
<1>4. \E s \in Statuses \ {"completed"} : record' = [record EXCEPT ![r] = s] \/ record' = record
  BY DEF Admit, WriteRecord, Push, PushFails, MarkFailed, ApiStops, Statuses
<1>5. QED  BY <1>1, <1>2, <1>3, <1>4, ApiKeeps

LEMMA ExpireStep ==
    ASSUME IInv, NEW r \in Requests, Expire(r)
    PROVE  IInv'
<1>1. /\ worker' = worker /\ processing' = processing /\ store' = store /\ delivered' = delivered
      /\ queue' = queue /\ faults' = faults + 1 /\ record' = [record EXCEPT ![r] = "none"]
      /\ phase' = [phase EXCEPT ![r] = phase[r]]
  BY DEF Expire, lists, notes, Fail, IInv, TypeOK
<1>2. "none" \in Statuses /\ phase[r] \in Phases
  BY DEF Statuses, IInv, TypeOK
<1>3. QED  BY <1>1, <1>2, ApiKeeps

-----------------------------------------------------------------------------
\* A worker.  Until it returns the message it keeps it, and so do the others.
LEMMA WorkerKeeps ==
    ASSUME IInv, NEW w \in Workers, pc[w] # "poll", NEW l \in Places \ {"poll"},
           pc' = [pc EXCEPT ![w] = l], job' = job,
           NEW n, at' = [at EXCEPT ![w] = n], n \in 1..Len(Targets[job[w]]),
           left' \in [Workers -> SUBSET Parts],
           store' \in [Locations -> SUBSET (Requests \X Parts)],
           phase' = phase, lists' = lists, faults' \in {faults, faults + 1},
           delivered \subseteq delivered',
           NEW s \in Statuses, record' = [record EXCEPT ![job[w]] = s] \/ record' = record,
           s = "completed" => pc[w] = "finish",
           l = "finish" => AllDelivered(job[w])'
    PROVE  IInv'
<1>1. job[w] \in Requests
  BY DEF IInv, Holding
<1>2. n \in Nat
  BY <1>1, TargetsType
<1>3. /\ pc' \in [Workers -> Places] /\ at' \in [Workers -> Nat]
      /\ record' \in [Requests -> Statuses] /\ faults' \in Nat
      /\ queue' = queue /\ processing' = processing
  <2>1. pc' \in [Workers -> Places] /\ at' \in [Workers -> Nat]
    BY <1>2 DEF IInv, TypeOK
  <2>2. record' \in [Requests -> Statuses]
    BY <1>1 DEF IInv, TypeOK
  <2>3. faults' \in Nat
    BY DEF IInv, TypeOK
  <2>4. QED  BY <2>1, <2>2, <2>3 DEF lists
<1>4. TypeOK'
  BY <1>3 DEF IInv, TypeOK
<1>5. Holding'
  <2>1. \A v \in Workers : v # w => pc'[v] = pc[v] /\ at'[v] = at[v]
    BY DEF IInv, TypeOK
  <2>2. pc'[w] = l /\ at'[w] = n
    BY DEF IInv, TypeOK
  <2>3. QED  BY <1>1, <2>1, <2>2 DEF IInv, Holding
<1>6. LeftoverCostsAFault'
  <2>1. Leftover' \subseteq Leftover
    BY <1>3 DEF Leftover
  <2>2. QED  BY <2>1, LeftoverKept DEF IInv
<1>7. ASSUME NEW r \in Requests, record'[r] = "completed"
      PROVE  record[r] = "completed" \/ AllDelivered(r)'
  <2>1. CASE r = job[w] /\ s = "completed"
    BY <2>1 DEF IInv, FinishDelivered, AllDelivered
  <2>2. CASE ~(r = job[w] /\ s = "completed")
    BY <1>1, <1>7, <2>2 DEF IInv, TypeOK
  <2>3. QED  BY <2>1, <2>2
<1>8. ASSUME NEW v \in Workers, pc'[v] = "finish"
      PROVE  (pc[v] = "finish" /\ job'[v] = job[v]) \/ AllDelivered(job[v])'
  <2>1. CASE v = w
    BY <1>8, <2>1 DEF IInv, TypeOK
  <2>2. CASE v # w
    BY <1>8, <2>2 DEF IInv, TypeOK
  <2>3. QED  BY <2>1, <2>2
<1>9. QED  BY <1>4, <1>5, <1>6, <1>7, <1>8, KeepInvariant

LEMMA PopStep ==
    ASSUME IInv, NEW w \in Workers, Pop(w)
    PROVE  IInv'
<1> DEFINE r == Head(queue)
<1>1. /\ pc[w] = "poll" /\ queue # <<>> /\ queue' = Tail(queue)
      /\ processing' = processing \cup {r} /\ job' = [job EXCEPT ![w] = r]
      /\ at' = [at EXCEPT ![w] = 1] /\ pc' = [pc EXCEPT ![w] = "start"]
      /\ phase' = phase /\ record' = record /\ store' = store /\ delivered' = delivered
      /\ left' = left /\ faults' = faults
  BY DEF Pop, Goto, notes, fault
<1>2. r \in Requests /\ Tail(queue) \in Seq(Requests)
  <2>1. queue \in Seq(Requests)
    BY DEF IInv, TypeOK
  <2>2. QED  BY <1>1, <2>1
<1> HIDE DEF r
<1>3. /\ pc'[w] = "start" /\ job'[w] = r /\ at'[w] = 1 /\ job[w] = NoRequest
      /\ \A v \in Workers : v # w => pc'[v] = pc[v] /\ job'[v] = job[v] /\ at'[v] = at[v]
  BY <1>1 DEF IInv, TypeOK, Holding
<1>4. TypeOK'
  <2>1. processing' \subseteq Requests /\ IsFiniteSet(processing')
    BY <1>1, <1>2, FS_AddElement DEF IInv, TypeOK
  <2>2. /\ pc' \in [Workers -> Places] /\ job' \in [Workers -> Requests \cup {NoRequest}]
        /\ at' \in [Workers -> Nat]
    BY <1>1, <1>2 DEF IInv, TypeOK, Places
  <2>3. QED  BY <1>1, <1>2, <2>1, <2>2 DEF IInv, TypeOK
<1>5. Holding'
  BY <1>2, <1>3, TargetsType DEF IInv, Holding
<1>6. LeftoverCostsAFault'
  <2>1. NoRequest \notin processing
    BY MaterializationAssumption DEF IInv, TypeOK
  <2>2. ASSUME NEW x \in Leftover' PROVE x \in Leftover
    <3>1. x \in processing' /\ \A v \in Workers : job'[v] # x
      BY DEF Leftover
    <3>2. x # r /\ x \in processing
      BY <1>1, <1>3, <3>1
    <3>3. \A v \in Workers : job[v] # x
      BY <1>3, <2>1, <3>1, <3>2
    <3>4. QED  BY <3>2, <3>3 DEF Leftover
  <2>3. QED  BY <1>1, <2>2, LeftoverKept DEF IInv
<1>7. \A v \in Workers : pc'[v] = "finish" => pc[v] = "finish" /\ job'[v] = job[v]
  BY <1>3
<1>8. QED  BY <1>1, <1>4, <1>5, <1>6, <1>7, KeepInvariant

\* The message goes back, or a fault leaves it in the list.
LEMMA RestStep ==
    ASSUME IInv, NEW w \in Workers, Ack(w) \/ Crash(w)
    PROVE  IInv'
<1>1. /\ pc[w] # "poll" /\ pc' = [pc EXCEPT ![w] = "poll"] /\ job' = [job EXCEPT ![w] = NoRequest]
      /\ \/ processing' = processing \ {job[w]} /\ faults' = faults
         \/ processing' = processing /\ faults' = faults + 1
      /\ queue' = queue /\ phase' = phase /\ record' = record /\ store' = store
      /\ delivered' = delivered /\ left' = left /\ at' = at
  BY DEF Ack, Crash, Rest, Goto, Fail, notes, fault, lists
<1>2. /\ pc'[w] = "poll" /\ job'[w] = NoRequest
      /\ \A v \in Workers : v # w => pc'[v] = pc[v] /\ job'[v] = job[v]
  BY <1>1 DEF IInv, TypeOK
<1>3. TypeOK'
  <2>1. processing' \subseteq Requests /\ IsFiniteSet(processing')
    <3>1. IsFiniteSet(processing) /\ processing \subseteq Requests
      BY DEF IInv, TypeOK
    <3>2. IsFiniteSet(processing \ {job[w]})
      BY <3>1, FS_RemoveElement
    <3>3. QED  BY <1>1, <3>1, <3>2
  <2>2. /\ pc' \in [Workers -> Places] /\ job' \in [Workers -> Requests \cup {NoRequest}]
    BY <1>1 DEF IInv, TypeOK, Places
  <2>3. faults' \in Nat
    BY <1>1 DEF IInv, TypeOK
  <2>4. QED  BY <1>1, <2>1, <2>2, <2>3 DEF IInv, TypeOK
<1>4. Holding'
  BY <1>1, <1>2 DEF IInv, Holding
<1>5. LeftoverCostsAFault'
  <2>1. Leftover' \subseteq Leftover \cup {job[w]}
    BY <1>1, <1>2 DEF Leftover
  <2>2. CASE processing' = processing \ {job[w]} /\ faults' = faults
    <3>1. Leftover' \subseteq Leftover
      BY <2>1, <2>2 DEF Leftover
    <3>2. QED  BY <2>2, <3>1, LeftoverKept DEF IInv
  <2>3. CASE faults' = faults + 1
    BY <2>1, <2>3, LeftoverOneMore DEF IInv
  <2>4. QED  BY <1>1, <2>2, <2>3
<1>6. \A v \in Workers : pc'[v] = "finish" => pc[v] = "finish" /\ job'[v] = job[v]
  BY <1>2
<1>7. QED  BY <1>1, <1>3, <1>4, <1>5, <1>6, KeepInvariant

\* To the next target, or to the report.
LEMMA NextTargetFacts ==
    ASSUME IInv, NEW w \in Workers, pc[w] # "poll", NextTarget(w)
    PROVE  \E l \in {"write", "report"}, n \in 1..Len(Targets[job[w]]) :
              /\ pc' = [pc EXCEPT ![w] = l] /\ at' = [at EXCEPT ![w] = n]
              /\ l = "write" => n = at[w] + 1
              /\ l = "report" => at[w] = Len(Targets[job[w]]) /\ n = at[w]
<1>1. job[w] \in Requests /\ at[w] \in 1..Len(Targets[job[w]]) /\ Len(Targets[job[w]]) \in Nat
  BY TargetsType DEF IInv, Holding
<1>2. CASE at[w] < Len(Targets[job[w]])
  <2>1. pc' = [pc EXCEPT ![w] = "write"] /\ at' = [at EXCEPT ![w] = at[w] + 1]
    BY <1>2 DEF NextTarget, Goto
  <2>2. at[w] + 1 \in 1..Len(Targets[job[w]])
    BY <1>1, <1>2
  <2>3. QED  BY <2>1, <2>2
<1>3. CASE ~(at[w] < Len(Targets[job[w]]))
  <2>1. pc' = [pc EXCEPT ![w] = "report"] /\ at' = [at EXCEPT ![w] = at[w]]
    BY <1>3 DEF NextTarget, Goto, IInv, TypeOK
  <2>2. at[w] = Len(Targets[job[w]])
    BY <1>1, <1>3
  <2>3. QED  BY <1>1, <2>1, <2>2
<1>4. QED  BY <1>2, <1>3

LEMMA AtUnchanged ==
    ASSUME IInv, NEW w \in Workers, pc[w] # "poll"
    PROVE  /\ at[w] \in 1..Len(Targets[job[w]]) /\ job[w] \in Requests
           /\ at = [at EXCEPT ![w] = at[w]] /\ Target(w) \in Locations
<1>1. at[w] \in 1..Len(Targets[job[w]]) /\ job[w] \in Requests
  BY DEF IInv, Holding
<1>2. Target(w) \in Locations
  BY <1>1, TargetsType DEF Target
<1>3. QED  BY <1>1, <1>2 DEF IInv, TypeOK

\* Steps that write the record.
LEMMA RecordStep ==
    ASSUME IInv, NEW w \in Workers, Start(w) \/ Finish(w) \/ RecordFailure(w)
    PROVE  IInv'
<1>1. /\ pc[w] # "poll" /\ job' = job /\ at' = at /\ left' = left /\ store' = store
      /\ phase' = phase /\ lists' = lists /\ delivered' = delivered
  BY DEF Start, Finish, RecordFailure, notes
<1>2. faults' \in {faults, faults + 1}
  BY DEF Start, Finish, RecordFailure, fault, Fail
<1>3. /\ at[w] \in 1..Len(Targets[job[w]]) /\ at' = [at EXCEPT ![w] = at[w]]
      /\ left' \in [Workers -> SUBSET Parts] /\ store' \in [Locations -> SUBSET (Requests \X Parts)]
  BY <1>1, AtUnchanged DEF IInv, TypeOK
<1>4. \E l \in Places \ {"poll", "finish"} : pc' = [pc EXCEPT ![w] = l]
  BY DEF Start, Finish, RecordFailure, Goto, Places
<1>5. \E s \in Statuses : /\ record' = [record EXCEPT ![job[w]] = s] \/ record' = record
                          /\ s = "completed" => pc[w] = "finish"
  BY DEF Start, Finish, RecordFailure, SetRecord, Statuses
<1>6. QED  BY <1>1, <1>2, <1>3, <1>4, <1>5, WorkerKeeps

\* Steps that write files.
LEMMA StoreStep ==
    ASSUME IInv, NEW w \in Workers, WriteDelta(w) \/ Wipe(w) \/ \E p \in Parts : Upload(w, p)
    PROVE  IInv'
<1>1. /\ pc[w] # "poll" /\ job' = job /\ record' = record
      /\ phase' = phase /\ lists' = lists /\ delivered' = delivered /\ faults' = faults
  BY DEF WriteDelta, Wipe, Upload, notes, fault
<1>2. /\ at[w] \in 1..Len(Targets[job[w]]) /\ job[w] \in Requests /\ at = [at EXCEPT ![w] = at[w]]
      /\ Target(w) \in Locations /\ store \in [Locations -> SUBSET (Requests \X Parts)]
      /\ left \in [Workers -> SUBSET Parts] /\ pc \in [Workers -> Places]
  BY <1>1, AtUnchanged DEF IInv, TypeOK
<1>3. /\ store' \in [Locations -> SUBSET (Requests \X Parts)] /\ left' \in [Workers -> SUBSET Parts]
  <2>1. CASE WriteDelta(w)
    BY <1>2, <2>1 DEF WriteDelta
  <2>2. CASE Wipe(w)
    BY <1>2, <2>2 DEF Wipe
  <2>3. ASSUME NEW p \in Parts, Upload(w, p)
        PROVE  /\ store' \in [Locations -> SUBSET (Requests \X Parts)]
               /\ left' \in [Workers -> SUBSET Parts]
    BY <1>2, <2>3 DEF Upload
  <2>4. QED  BY <2>1, <2>2, <2>3
<1>4. \E l \in Places \ {"poll", "finish"}, n \in 1..Len(Targets[job[w]]) :
          pc' = [pc EXCEPT ![w] = l] /\ at' = [at EXCEPT ![w] = n]
  <2>1. CASE NextTarget(w)
    BY <1>1, <2>1, NextTargetFacts DEF Places
  <2>2. CASE pc' = [pc EXCEPT ![w] = "upload"] /\ at' = at
    BY <1>2, <2>2 DEF Places
  <2>3. CASE pc[w] = "upload" /\ pc' = pc /\ at' = at
    <3>1. pc' = [pc EXCEPT ![w] = "upload"]
      BY <1>2, <2>3
    <3>2. QED  BY <2>2, <2>3, <3>1
  <2>4. QED  BY <2>1, <2>2, <2>3 DEF WriteDelta, Wipe, Upload, Goto
<1>5. "none" \in Statuses
  BY DEF Statuses
<1>6. PICK l \in Places \ {"poll", "finish"}, n \in 1..Len(Targets[job[w]]) :
          pc' = [pc EXCEPT ![w] = l] /\ at' = [at EXCEPT ![w] = n]
  BY <1>4
<1>7. QED  BY <1>1, <1>3, <1>5, <1>6, WorkerKeeps

LEMMA ReportStep ==
    ASSUME IInv, NEW w \in Workers, Report(w) \/ ReportFails(w) \/ Error(w)
    PROVE  IInv'
<1>1. /\ pc[w] # "poll" /\ job' = job /\ at' = at /\ left' = left /\ store' = store
      /\ phase' = phase /\ lists' = lists /\ record' = record
  BY DEF Report, ReportFails, Error
<1>2. faults' \in {faults, faults + 1}
  BY DEF Report, ReportFails, Error, fault, Fail
<1>3. /\ at[w] \in 1..Len(Targets[job[w]]) /\ at' = [at EXCEPT ![w] = at[w]] /\ job[w] \in Requests
      /\ left' \in [Workers -> SUBSET Parts] /\ store' \in [Locations -> SUBSET (Requests \X Parts)]
  BY <1>1, AtUnchanged DEF IInv, TypeOK
<1>4. \/ pc' = [pc EXCEPT ![w] = "finish"] /\ delivered \subseteq delivered' /\ AllDelivered(job[w])'
      \/ pc' = [pc EXCEPT ![w] = "fail"] /\ delivered \subseteq delivered'
  <2>1. CASE Report(w)
    <3>1. CASE Deliver(job[w], Len(Targets[job[w]])) /\ pc' = [pc EXCEPT ![w] = "finish"]
      <4>1. \A n \in DOMAIN Targets[job[w]] : <<job[w], Targets[job[w]][n]>> \in delivered'
        BY <1>3, <3>1, DeliverFacts DEF AllDelivered
      <4>2. QED  BY <1>1, <1>3, <3>1, <4>1, DeliverFacts DEF AllDelivered
    <3>2. CASE notes' = notes /\ pc' = [pc EXCEPT ![w] = "fail"]
      BY <3>2 DEF notes
    <3>3. QED  BY <2>1, <3>1, <3>2 DEF Report, Goto
  <2>2. CASE ReportFails(w)
    BY <1>3, <2>2, DeliverFacts DEF ReportFails, Goto
  <2>3. CASE Error(w)
    BY <2>3 DEF Error, Goto, notes
  <2>4. QED  BY <2>1, <2>2, <2>3
<1>5. "none" \in Statuses /\ {"finish", "fail"} \subseteq Places \ {"poll"}
  BY DEF Statuses, Places
<1>6. CASE pc' = [pc EXCEPT ![w] = "finish"] /\ delivered \subseteq delivered' /\ AllDelivered(job[w])'
  BY <1>1, <1>2, <1>3, <1>5, <1>6, WorkerKeeps
<1>7. CASE pc' = [pc EXCEPT ![w] = "fail"] /\ delivered \subseteq delivered'
  <2>1. "fail" \in Places \ {"poll"} /\ "fail" # "finish" /\ "none" # "completed"
    BY <1>5
  <2>2. pc' = [pc EXCEPT ![w] = "fail"]
    BY <1>7
  <2>3. delivered \subseteq delivered'
    BY <1>7
  <2>4. QED  BY <1>1, <1>2, <1>3, <1>5, <2>1, <2>2, <2>3, WorkerKeeps
<1>8. QED  BY <1>4, <1>6, <1>7

-----------------------------------------------------------------------------
LEMMA InitInvariant == Init => IInv
<1> SUFFICES ASSUME Init PROVE IInv
  OBVIOUS
<1>1. TypeOK
  BY FS_EmptySet DEF Init, TypeOK, Phases, Statuses, Places
<1>2. Holding /\ FinishDelivered /\ CompletedIsDelivered
  BY DEF Init, Holding, FinishDelivered, CompletedIsDelivered
<1>3. LeftoverCostsAFault
  <2>1. {r \in processing : \A w \in Workers : job[w] # r} = {} /\ faults = 0
    BY DEF Init
  <2>2. QED  BY <2>1, FS_EmptySet DEF LeftoverCostsAFault
<1>4. QED  BY <1>1, <1>2, <1>3 DEF IInv

LEMMA StepInvariant == IInv /\ [Next]_vars => IInv'
<1> SUFFICES ASSUME IInv, [Next]_vars PROVE IInv'
  OBVIOUS
<1>1. ASSUME NEW r \in Requests,
             Admit(r) \/ ApiStep(r) \/ PushFails(r) \/ ApiStops(r) \/ Expire(r)
      PROVE  IInv'
  BY <1>1, ApiStepKeeps, ReuseStep, ExpireStep DEF ApiStep
<1>2. ASSUME NEW w \in Workers, WorkerStep(w) \/ ReportFails(w) \/ Error(w) \/ Crash(w)
      PROVE  IInv'
  BY <1>2, PopStep, RecordStep, StoreStep, ReportStep, RestStep DEF WorkerStep
<1>3. CASE UNCHANGED vars
  BY <1>3 DEF vars, IInv, TypeOK, Holding, FinishDelivered, AllDelivered,
              CompletedIsDelivered, LeftoverCostsAFault
<1>4. QED  BY <1>1, <1>2, <1>3 DEF Next

-----------------------------------------------------------------------------
\* One worker, and what is in the store.

\* The target before the worker is done with.
LEMMA FillNext ==
    ASSUME IInv, NEW w \in Workers, pc[w] # "poll", NextTarget(w), job' = job,
           \A n \in 1..at[w] : Full(job[w], Targets[job[w]][n])'
    PROVE  FilledAt(w)'
<1>1. PICK l \in {"write", "report"}, n \in 1..Len(Targets[job[w]]) :
          /\ pc' = [pc EXCEPT ![w] = l] /\ at' = [at EXCEPT ![w] = n]
          /\ l = "write" => n = at[w] + 1
          /\ l = "report" => at[w] = Len(Targets[job[w]]) /\ n = at[w]
  BY NextTargetFacts
<1>2. pc'[w] = l /\ at'[w] = n /\ job'[w] = job[w] /\ job[w] \in Requests /\ at[w] \in Nat
  BY <1>1, AtUnchanged DEF IInv, TypeOK
<1>3. DOMAIN Targets[job[w]] = 1..Len(Targets[job[w]])
  BY <1>2, TargetsType
<1>4. \A k \in 1..at[w] : store'[Targets[job[w]][k]] = {job[w]} \X Parts
  BY DEF Full
<1>5. CASE l = "write"
  <2>1. 1..(at'[w] - 1) = 1..at[w]
    BY <1>1, <1>2, <1>5
  <2>2. QED  BY <1>2, <1>4, <1>5, <2>1 DEF FilledAt, Full
<1>6. CASE l = "report"
  BY <1>1, <1>2, <1>3, <1>4, <1>6 DEF FilledAt, Full
<1>7. QED  BY <1>5, <1>6

LEMMA DeltaFills ==
    ASSUME IInv, NEW w \in Workers, FilledAt(w), WriteDelta(w)
    PROVE  FilledAt(w)'
<1>1. /\ pc[w] = "write" /\ store' = [store EXCEPT ![Target(w)] = {job[w]} \X Parts]
      /\ NextTarget(w) /\ job' = job
  BY DEF WriteDelta
<1>2. /\ job[w] \in Requests /\ at[w] \in 1..Len(Targets[job[w]]) /\ at[w] \in Nat
      /\ store \in [Locations -> SUBSET (Requests \X Parts)]
  BY <1>1, AtUnchanged DEF IInv, TypeOK
<1>3. \A n \in 1..at[w] : Targets[job[w]][n] \in Locations
  BY <1>2, TargetsType
<1>4. \A n \in 1..(at[w] - 1) : store[Targets[job[w]][n]] = {job[w]} \X Parts
  BY <1>1 DEF FilledAt, Full
<1>5. ASSUME NEW n \in 1..at[w] PROVE store'[Targets[job[w]][n]] = {job[w]} \X Parts
  <2>1. CASE n = at[w]
    BY <1>1, <1>2, <1>3, <2>1 DEF Target
  <2>2. CASE n # at[w]
    <3>1. n \in 1..(at[w] - 1)
      BY <1>2, <2>2
    <3>2. QED  BY <1>1, <1>2, <1>3, <1>4, <3>1
  <2>3. QED  BY <2>1, <2>2
<1>6. QED  BY <1>1, <1>5, FillNext DEF Full

\* Only locations beneath the target are wiped, and no earlier target is.
LEMMA WipeFills ==
    ASSUME IInv, NEW w \in Workers, FilledAt(w), Wipe(w)
    PROVE  FilledAt(w)'
<1>1. /\ pc[w] = "write" /\ job' = job /\ at' = at
      /\ store' = [u \in Locations |-> IF u \in Beneath[Target(w)] THEN {} ELSE store[u]]
      /\ left' = [left EXCEPT ![w] = Parts] /\ pc' = [pc EXCEPT ![w] = "upload"]
  BY DEF Wipe, Goto
<1>2. /\ job[w] \in Requests /\ at[w] \in 1..Len(Targets[job[w]]) /\ at[w] \in Nat
      /\ Target(w) \in Locations /\ pc'[w] = "upload" /\ left'[w] = Parts
  BY <1>1, AtUnchanged DEF IInv, TypeOK
<1>3. \A n \in 1..at[w] : Targets[job[w]][n] \in Locations /\ n \in DOMAIN Targets[job[w]]
  BY <1>2, TargetsType
<1>4. \A n \in 1..(at[w] - 1) : store[Targets[job[w]][n]] = {job[w]} \X Parts
  BY <1>1 DEF FilledAt, Full
<1>5. ASSUME NEW n \in 1..(at[w] - 1), Targets[job[w]][n] # Target(w)
      PROVE  store'[Targets[job[w]][n]] = {job[w]} \X Parts
  <2>1. n < at[w] /\ n \in 1..at[w] /\ at[w] \in 1..at[w]
    BY <1>2
  <2>2. Targets[job[w]][n] \notin Beneath[Target(w)]
    BY <1>2, <1>3, <1>5, <2>1, BatchAssumption DEF Target
  <2>3. QED  BY <1>1, <1>3, <1>4, <2>1, <2>2
<1>6. store'[Target(w)] = {job[w]} \X (Parts \ left'[w])
  <2>1. Target(w) \in Beneath[Target(w)]
    BY <1>2, MaterializationAssumption
  <2>2. QED  BY <1>1, <1>2, <2>1
<1>7. Target(w)' = Target(w)
  BY <1>1 DEF Target
<1>8. QED  BY <1>1, <1>2, <1>5, <1>6, <1>7 DEF FilledAt, Full

LEMMA UploadFills ==
    ASSUME IInv, NEW w \in Workers, FilledAt(w), NEW p \in Parts, Upload(w, p)
    PROVE  FilledAt(w)'
<1>1. /\ pc[w] = "upload" /\ p \in left[w] /\ job' = job
      /\ store' = [store EXCEPT ![Target(w)] = store[Target(w)] \cup {<<job[w], p>>}]
      /\ left' = [left EXCEPT ![w] = left[w] \ {p}]
      /\ IF left'[w] = {} THEN NextTarget(w) ELSE pc' = pc /\ at' = at
  BY DEF Upload
<1>2. /\ job[w] \in Requests /\ at[w] \in 1..Len(Targets[job[w]]) /\ at[w] \in Nat
      /\ Target(w) \in Locations /\ left'[w] = left[w] \ {p} /\ left[w] \subseteq Parts
      /\ store \in [Locations -> SUBSET (Requests \X Parts)]
  BY <1>1, AtUnchanged DEF IInv, TypeOK
<1>3. \A n \in 1..at[w] : Targets[job[w]][n] \in Locations
  BY <1>2, TargetsType
<1>4. store'[Target(w)] = {job[w]} \X (Parts \ left'[w])
  <2>1. store[Target(w)] = {job[w]} \X (Parts \ left[w])
    BY <1>1 DEF FilledAt
  <2>2. store'[Target(w)] = ({job[w]} \X (Parts \ left[w])) \cup {<<job[w], p>>}
    BY <1>1, <1>2, <2>1
  <2>3. Parts \ left'[w] = (Parts \ left[w]) \cup {p}
    BY <1>1, <1>2
  <2>4. QED  BY <2>2, <2>3
<1>5. ASSUME NEW n \in 1..(at[w] - 1), Targets[job[w]][n] # Target(w)
      PROVE  store'[Targets[job[w]][n]] = {job[w]} \X Parts
  <2>1. store[Targets[job[w]][n]] = {job[w]} \X Parts
    BY <1>1, <1>5 DEF FilledAt, Full
  <2>2. Targets[job[w]][n] \in Locations
    BY <1>2, <1>3
  <2>3. QED  BY <1>1, <1>2, <1>5, <2>1, <2>2
<1>6. CASE left'[w] = {}
  <2>1. ASSUME NEW n \in 1..at[w] PROVE store'[Targets[job[w]][n]] = {job[w]} \X Parts
    <3>1. store'[Target(w)] = {job[w]} \X Parts
      BY <1>4, <1>6
    <3>2. CASE n = at[w]
      BY <3>1, <3>2 DEF Target
    <3>3. CASE n # at[w]
      <4>1. n \in 1..(at[w] - 1)
        BY <1>2, <3>3
      <4>2. QED  BY <1>5, <3>1, <4>1
    <3>4. QED  BY <3>2, <3>3
  <2>2. QED  BY <1>1, <1>6, <2>1, FillNext DEF Full
<1>7. CASE left'[w] # {}
  <2>1. Target(w)' = Target(w) /\ pc' = pc /\ at' = at
    BY <1>1, <1>7 DEF Target
  <2>2. QED  BY <1>1, <1>4, <1>5, <2>1 DEF FilledAt, Full
<1>8. QED  BY <1>6, <1>7

\* What the worker reports is whole.
LEMMA ReportWhole ==
    ASSUME IInv, NEW w \in Workers, FilledAt(w), pc[w] = "report",
           NEW k \in 0..Len(Targets[job[w]]), Deliver(job[w], k)
    PROVE  torn' = torn
<1>1. torn' = torn \cup {d \in {<<job[w], Targets[job[w]][n]>> : n \in 1..k} : ~Whole(d[2])}
  BY DEF Deliver
<1>2. job[w] \in Requests /\ Len(Targets[job[w]]) \in Nat
      /\ DOMAIN Targets[job[w]] = 1..Len(Targets[job[w]])
  BY AtUnchanged, TargetsType
<1>3. \A n \in 1..k : n \in DOMAIN Targets[job[w]]
  BY <1>2
<1>4. \A n \in 1..k : Whole(Targets[job[w]][n])
  BY <1>2, <1>3 DEF FilledAt, Full, Whole
<1>5. QED  BY <1>1, <1>4

LEMMA WorkerStepWhole ==
    ASSUME OneWorker, IInv, WInv, NEW w \in Workers,
           WorkerStep(w) \/ ReportFails(w) \/ Error(w) \/ Crash(w)
    PROVE  WInv'
<1>1. FilledAt(w) /\ pc \in [Workers -> Places] /\ at \in [Workers -> Nat]
  BY DEF WInv, Filled, IInv, TypeOK
<1>2. FilledAt(w)' /\ torn' = torn
  <2>1. CASE Pop(w)
    BY <1>1, <2>1 DEF Pop, Goto, notes, FilledAt
  <2>2. CASE Start(w)
    <3>1. pc'[w] = "write" /\ at'[w] = 1 /\ torn' = torn
      BY <1>1, <2>2 DEF Start, Goto, notes, FilledAt
    <3>2. 1..(at'[w] - 1) = {}
      BY <3>1
    <3>3. QED  BY <3>1, <3>2 DEF FilledAt
  <2>3. CASE WriteDelta(w)
    BY <1>1, <2>3, DeltaFills DEF WriteDelta, notes
  <2>4. CASE Wipe(w)
    BY <1>1, <2>4, WipeFills DEF Wipe, notes
  <2>5. ASSUME NEW p \in Parts, Upload(w, p) PROVE FilledAt(w)' /\ torn' = torn
    BY <1>1, <2>5, UploadFills DEF Upload, notes
  <2>6. CASE Report(w) \/ ReportFails(w)
    <3>1. pc[w] = "report" /\ pc'[w] \in {"finish", "fail"}
      BY <1>1, <2>6 DEF Report, ReportFails, Goto
    <3>2. Len(Targets[job[w]]) \in 0..Len(Targets[job[w]]) /\ 0 \in 0..Len(Targets[job[w]])
      BY <3>1, AtUnchanged, TargetsType
    <3>3. torn' = torn \/ \E k \in 0..Len(Targets[job[w]]) : Deliver(job[w], k)
      <4>1. CASE Report(w)
        BY <3>2, <4>1 DEF Report, notes
      <4>2. CASE ReportFails(w)
        BY <3>2, <4>2 DEF ReportFails
      <4>3. QED  BY <2>6, <4>1, <4>2
    <3>4. torn' = torn
      BY <1>1, <3>1, <3>3, ReportWhole
    <3>5. QED  BY <3>1, <3>4 DEF FilledAt
  <2>7. CASE Finish(w) \/ RecordFailure(w) \/ Ack(w) \/ Error(w) \/ Crash(w)
    <3>1. pc'[w] \in {"ack", "poll", "fail"} /\ torn' = torn
      BY <1>1, <2>7 DEF Finish, RecordFailure, Ack, Error, Crash, Rest, Goto, notes
    <3>2. QED  BY <3>1 DEF FilledAt
  <2>8. QED  BY <2>1, <2>2, <2>3, <2>4, <2>5, <2>6, <2>7 DEF WorkerStep
<1>3. phase' = phase
  BY DEF WorkerStep, Pop, Start, WriteDelta, Wipe, Upload, Report, Finish, RecordFailure, Ack,
         ReportFails, Error, Crash
<1>4. Filled'
  BY <1>2 DEF Filled, OneWorker
<1>5. QED  BY <1>2, <1>3, <1>4 DEF WInv, WorkerDeliversWhole

\* A note of the API that is not about a whole dataset is one of reuse.
LEMMA ApiStepWhole ==
    ASSUME IInv, WInv, NEW r \in Requests,
           Admit(r) \/ ApiStep(r) \/ PushFails(r) \/ ApiStops(r) \/ Expire(r)
    PROVE  WInv'
<1>1. store' = store /\ pc' = pc /\ job' = job /\ at' = at /\ left' = left
  BY DEF Admit, ApiStep, WriteRecord, Reuse, Push, MarkFailed, PushFails, ApiStops, Expire, worker
<1>2. Filled'
  BY <1>1 DEF WInv, Filled, FilledAt, Full, Target
<1>3. CASE Reuse(r)
  <2>1. phase' = [phase EXCEPT ![r] = "reused"]
    BY <1>3 DEF Reuse
  <2>2. \A x \in Requests : phase[x] = "reused" \/ x = r => phase'[x] = "reused"
    BY <2>1 DEF IInv, TypeOK
  <2>3. PICK k \in 0..Len(Targets[r]) : Deliver(r, k)
    BY <1>3, TargetsType DEF Reuse
  <2>4. torn' \subseteq torn \cup {<<r, Targets[r][n]>> : n \in 1..k}
    BY <2>3 DEF Deliver
  <2>5. \A n \in 1..k : Targets[r][n] \in Locations
    BY TargetsType
  <2>6. torn' \subseteq Requests \X Locations
    BY <2>4, <2>5 DEF WInv
  <2>7. \A d \in torn' : d \in torn \/ d[1] = r
    BY <2>4
  <2>8. \A d \in torn' : d[1] \in Requests
    BY <2>6
  <2>9. WorkerDeliversWhole'
    BY <2>2, <2>7, <2>8 DEF WorkerDeliversWhole, WInv
  <2>10. QED  BY <1>2, <2>6, <2>9 DEF WInv
<1>4. CASE ~Reuse(r)
  <2>1. torn' = torn
    BY <1>4 DEF Admit, ApiStep, WriteRecord, Push, MarkFailed, PushFails, ApiStops, Expire, notes
  <2>2. phase' = phase \/ (phase[r] # "reused" /\ \E p \in Phases : phase' = [phase EXCEPT ![r] = p])
    BY <1>4 DEF Admit, ApiStep, WriteRecord, Push, MarkFailed, PushFails, ApiStops, Expire, Phases
  <2>3. \A x \in Requests : phase[x] = "reused" => phase'[x] = "reused"
    BY <2>2 DEF IInv, TypeOK
  <2>4. \A d \in torn : d[1] \in Requests
    BY DEF WInv
  <2>5. WorkerDeliversWhole'
    BY <2>1, <2>3, <2>4 DEF WorkerDeliversWhole, WInv
  <2>6. QED  BY <1>2, <2>1, <2>5 DEF WInv
<1>5. QED  BY <1>3, <1>4

LEMMA StepWhole == OneWorker /\ IInv /\ WInv /\ [Next]_vars => WInv'
<1> SUFFICES ASSUME OneWorker, IInv, WInv, [Next]_vars PROVE WInv'
  OBVIOUS
<1>1. CASE UNCHANGED vars
  BY <1>1 DEF vars, WInv, Filled, FilledAt, Full, Target, WorkerDeliversWhole
<1>2. QED  BY <1>1, ApiStepWhole, WorkerStepWhole DEF Next

-----------------------------------------------------------------------------
\* The invariant above: what a worker holds and has delivered at each of its
\* places, under any faults.
THEOREM Invariant == Spec => []IInv
  BY InitInvariant, StepInvariant, PTL DEF Spec

\* A completed request has a delivery note for each of its targets, for any
\* number of workers, failed reports, crashes and expired records
\* (register_materialized_delivery_completions, _process_job).
THEOREM Completed == Spec => []CompletedIsDelivered
<1>1. IInv => CompletedIsDelivered
  BY DEF IInv
<1>2. QED  BY <1>1, Invariant, PTL

\* The messages that stay in the processing list without a worker are at
\* most as many as there were faults (run_worker_forever).
THEOREM LeftoverBounded == Spec => []LeftoverCostsAFault
<1>1. IInv => LeftoverCostsAFault
  BY DEF IInv
<1>2. QED  BY <1>1, Invariant, PTL

\* With one worker, every note that is not one of reuse was written while its
\* location held a whole dataset, whatever failed in the middle of an upload
\* before (_upload_directory_to_s3, _api_report_materialization_completion).
THEOREM DeliversWhole ==
    ASSUME OneWorker
    PROVE  Spec => []WorkerDeliversWhole
<1>1. Init => WInv
  BY DEF Init, WInv, Filled, FilledAt, WorkerDeliversWhole
<1>2. IInv /\ WInv /\ [Next]_vars => WInv'
  BY OneWorker, StepWhole
<1>3. WInv => WorkerDeliversWhole
  BY DEF WInv
<1>4. QED  BY <1>1, <1>2, <1>3, Invariant, PTL DEF Spec
=============================================================================
