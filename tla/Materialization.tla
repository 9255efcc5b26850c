---------------------------- MODULE Materialization ----------------------------
(***************************************************************************)
(* Materialization of test data: a request of the API becomes a record in  *)
(* Redis and a message in a list, a worker moves the message to a          *)
(* processing list, writes one dataset per target to object storage,       *)
(* reports to the API, which writes one delivery note per target, and      *)
(* removes the message.  A request whose targets hold objects already is   *)
(* answered from them.                                                     *)
(*                                                                         *)
(* A dataset is a set of files, each named after the request that wrote    *)
(* it; a location is a prefix of object names.                             *)
(***************************************************************************)
EXTENDS Naturals, Sequences, FiniteSets

CONSTANTS
    Requests, Workers, Locations,
    Targets,        \* the locations of a request, in order
    Refresh,        \* requests that do not reuse what is there
    Delta,          \* locations written in the delta format
    Beneath,        \* locations whose names start with the name of a location
    Inside,         \* ... and that lie in its directory
    Parts,          \* the files of a dataset
    MaxPending, MaxInFlight,   \* the capacities the API checks
    MaxFaults,      \* bound: faults
    NoRequest

ASSUME MaterializationAssumption ==
    /\ Targets \in [Requests -> Seq(Locations) \ {<<>>}]
    /\ Refresh \subseteq Requests /\ Delta \subseteq Locations
    /\ Beneath \in [Locations -> SUBSET Locations]
    /\ Inside \in [Locations -> SUBSET Locations]
    /\ \A u \in Locations : u \in Inside[u] /\ Inside[u] \subseteq Beneath[u]
    /\ IsFiniteSet(Parts) /\ Parts # {}
    /\ MaxPending \in Nat /\ MaxInFlight \in Nat /\ MaxFaults \in Nat
    /\ NoRequest \notin Requests

(* The locations of a batch are named after the versions they hold, with   *)
(* the same options behind that (default_materialization_output_uri): none *)
(* is wiped with a later one.                                              *)
ASSUME BatchAssumption ==
    \A r \in Requests : \A n, k \in DOMAIN Targets[r] :
        n < k /\ Targets[r][n] # Targets[r][k] => Targets[r][n] \notin Beneath[Targets[r][k]]

VARIABLES
    phase,       \* how far the API is with a request
    record,      \* the status in the request's record, "none" without one
    partial,     \* records with the worker's fields alone
    queue, processing,    \* the two lists
    store,       \* the files of a location
    delivered,   \* delivery notes: request and location
    torn,        \* ... written while the location held no whole dataset
    pc, job, at, left,    \* a worker: its place, request, target and files to upload
    faults,      \* the faults so far
    halted       \* whether one of them was more than a failed write or report

fault == <<faults, halted>>
lists == <<queue, processing>>
notes == <<delivered, torn>>
worker == <<pc, job, at, left>>
vars == <<phase, record, partial, queue, processing, store, delivered, torn,
          pc, job, at, left, faults, halted>>

Whole(u) == \E r \in Requests : store[u] = {r} \X Parts
HasObjects(u) == \E v \in Inside[u] : store[v] # {}

Fail(kind) ==
    /\ faults < MaxFaults /\ faults' = faults + 1
    /\ halted' = (halted \/ kind \in {"crash", "redis", "expiry"})

(* The notes of a request's first k targets, each committed on its own.    *)
Deliver(r, k) ==
    LET new == {<<r, Targets[r][n]>> : n \in 1..k}
    IN  /\ delivered' = delivered \cup new
        /\ torn' = torn \cup {d \in new : ~Whole(d[2])}

(***************************************************************************)
(* The API.  Both lengths are read before anything is written.             *)
(***************************************************************************)
Admit(r) ==
    /\ phase[r] = "new"
    /\ Len(queue) < MaxPending /\ Cardinality(processing) < MaxInFlight
    /\ phase' = [phase EXCEPT ![r] = "admitted"]
    /\ UNCHANGED <<record, partial, lists, store, notes, worker, fault>>

Reusable(r) == r \notin Refresh /\ \A n \in DOMAIN Targets[r] : HasObjects(Targets[r][n])

(* The notes are written, then the record; the call may stop in between.   *)
Reuse(r) ==
    /\ phase[r] = "admitted" /\ Reusable(r)
    /\ phase' = [phase EXCEPT ![r] = "reused"]
    /\ \/ /\ Deliver(r, Len(Targets[r]))
          /\ record' = [record EXCEPT ![r] = "completed"]
          /\ UNCHANGED fault
       \/ /\ Fail("report")
          /\ \E k \in 0..Len(Targets[r]) : Deliver(r, k)
          /\ UNCHANGED record
    /\ UNCHANGED <<partial, lists, store, worker>>

WriteRecord(r) ==
    /\ phase[r] = "admitted" /\ ~Reusable(r)
    /\ phase' = [phase EXCEPT ![r] = "recorded"]
    /\ record' = [record EXCEPT ![r] = "pending"]
    /\ UNCHANGED <<partial, lists, store, notes, worker, fault>>

Push(r) ==
    /\ phase[r] = "recorded"
    /\ phase' = [phase EXCEPT ![r] = "done"]
    /\ queue' = Append(queue, r)
    /\ UNCHANGED <<record, partial, processing, store, notes, worker, fault>>

(* The push raises; the message may have arrived.                          *)
PushFails(r) ==
    /\ phase[r] = "recorded" /\ Fail("redis")
    /\ phase' = [phase EXCEPT ![r] = "unpushed"]
    /\ queue' \in {queue, Append(queue, r)}
    /\ UNCHANGED <<record, partial, processing, store, notes, worker>>

MarkFailed(r) ==
    /\ phase[r] = "unpushed"
    /\ phase' = [phase EXCEPT ![r] = "done"]
    /\ record' = [record EXCEPT ![r] = "failed"]
    /\ partial' = partial \ {r}
    /\ UNCHANGED <<lists, store, notes, worker, fault>>

(* The API stops, or Redis does not answer it, in the middle of a request. *)
ApiStops(r) ==
    /\ phase[r] \in {"admitted", "recorded", "unpushed"} /\ Fail("redis")
    /\ phase' = [phase EXCEPT ![r] = "done"]
    /\ UNCHANGED <<record, partial, lists, store, notes, worker>>

(* A record is kept for an hour after its last write.                      *)
Expire(r) ==
    /\ record[r] # "none" /\ Fail("expiry")
    /\ record' = [record EXCEPT ![r] = "none"]
    /\ partial' = partial \ {r}
    /\ UNCHANGED <<phase, lists, store, notes, worker>>

(***************************************************************************)
(* The worker.                                                             *)
(***************************************************************************)
Goto(w, place) == pc' = [pc EXCEPT ![w] = place]
Target(w) == Targets[job[w]][at[w]]

(* The worker merges its fields into the record, whatever is left of it.   *)
SetRecord(r, status) ==
    /\ record' = [record EXCEPT ![r] = status]
    /\ partial' = IF record[r] = "none" THEN partial \cup {r} ELSE partial

Pop(w) ==
    /\ pc[w] = "poll" /\ queue # <<>>
    /\ queue' = Tail(queue) /\ processing' = processing \cup {Head(queue)}
    /\ job' = [job EXCEPT ![w] = Head(queue)] /\ at' = [at EXCEPT ![w] = 1]
    /\ Goto(w, "start")
    /\ UNCHANGED <<phase, record, partial, store, notes, left, fault>>

Start(w) ==
    /\ pc[w] = "start"
    /\ SetRecord(job[w], "started")
    /\ Goto(w, "write")
    /\ UNCHANGED <<phase, lists, store, notes, job, at, left, fault>>

(* To the next target, or to the report after the last.                    *)
NextTarget(w) ==
    IF at[w] < Len(Targets[job[w]])
    THEN Goto(w, "write") /\ at' = [at EXCEPT ![w] = @ + 1]
    ELSE Goto(w, "report") /\ UNCHANGED at

WriteDelta(w) ==
    /\ pc[w] = "write" /\ Target(w) \in Delta
    /\ store' = [store EXCEPT ![Target(w)] = {job[w]} \X Parts]
    /\ NextTarget(w)
    /\ UNCHANGED <<phase, record, partial, lists, notes, job, left, fault>>

(* Mutant of Wipe: the files of an earlier request are left.               *)
WipeNothing(w) ==
    /\ pc[w] = "write" /\ Target(w) \notin Delta
    /\ left' = [left EXCEPT ![w] = Parts]
    /\ Goto(w, "upload")
    /\ UNCHANGED <<phase, record, partial, lists, store, notes, job, at, fault>>

(* Every object whose name starts with the location's name is deleted.     *)
Wipe(w) ==
    /\ pc[w] = "write" /\ Target(w) \notin Delta
    /\ store' = [u \in Locations |-> IF u \in Beneath[Target(w)] THEN {} ELSE store[u]]
    /\ left' = [left EXCEPT ![w] = Parts]
    /\ Goto(w, "upload")
    /\ UNCHANGED <<phase, record, partial, lists, notes, job, at, fault>>

Upload(w, p) ==
    /\ pc[w] = "upload" /\ p \in left[w]
    /\ store' = [store EXCEPT ![Target(w)] = @ \cup {<<job[w], p>>}]
    /\ left' = [left EXCEPT ![w] = @ \ {p}]
    /\ IF left'[w] = {} THEN NextTarget(w) ELSE UNCHANGED <<pc, at>>
    /\ UNCHANGED <<phase, record, partial, lists, notes, job, fault>>

(* The API knows the request by its record and refuses without a whole one.*)
Known(r) == record[r] # "none" /\ r \notin partial

(* Mutant of Report: an answer without deliveries counts as success.       *)
ReportUnchecked(w) ==
    /\ pc[w] = "report"
    /\ IF Known(job[w]) THEN Deliver(job[w], Len(Targets[job[w]])) ELSE UNCHANGED notes
    /\ Goto(w, "finish")
    /\ UNCHANGED <<phase, record, partial, lists, store, job, at, left, fault>>

Report(w) ==
    /\ pc[w] = "report"
    /\ \/ Known(job[w]) /\ Deliver(job[w], Len(Targets[job[w]])) /\ Goto(w, "finish")
       \/ ~Known(job[w]) /\ UNCHANGED notes /\ Goto(w, "fail")
    /\ UNCHANGED <<phase, record, partial, lists, store, job, at, left, fault>>

(* Mutant of ReportFails: the message is removed without a final status.   *)
ReportFailsUnrecorded(w) ==
    /\ pc[w] = "report" /\ Fail("report")
    /\ \E k \in 0..Len(Targets[job[w]]) : Deliver(job[w], IF Known(job[w]) THEN k ELSE 0)
    /\ Goto(w, "ack")
    /\ UNCHANGED <<phase, record, partial, lists, store, job, at, left>>

(* The report fails at a note, or its answer is lost.                      *)
ReportFails(w) ==
    /\ pc[w] = "report" /\ Fail("report")
    /\ \E k \in 0..Len(Targets[job[w]]) : Deliver(job[w], IF Known(job[w]) THEN k ELSE 0)
    /\ Goto(w, "fail")
    /\ UNCHANGED <<phase, record, partial, lists, store, job, at, left>>

(* Mutant of Finish: the message of a completed job is kept.               *)
FinishUnacked(w) ==
    /\ pc[w] = "finish"
    /\ SetRecord(job[w], "completed")
    /\ Goto(w, "poll") /\ job' = [job EXCEPT ![w] = NoRequest]
    /\ UNCHANGED <<phase, lists, store, notes, at, left, fault>>

Finish(w) ==
    /\ pc[w] = "finish"
    /\ SetRecord(job[w], "completed")
    /\ Goto(w, "ack")
    /\ UNCHANGED <<phase, lists, store, notes, job, at, left, fault>>

(* Spark, the bucket, an upload or a Redis command of the job fails.       *)
Error(w) ==
    /\ \/ pc[w] \in {"start", "write", "upload"} /\ Fail("write")
       \/ pc[w] \in {"start", "finish"} /\ Fail("redis")
    /\ Goto(w, "fail")
    /\ UNCHANGED <<phase, record, partial, lists, store, notes, job, at, left>>

(* The failure is recorded; if that fails the worker dies after the        *)
(* removal of the message.                                                 *)
RecordFailure(w) ==
    /\ pc[w] = "fail"
    /\ \/ SetRecord(job[w], "failed") /\ UNCHANGED fault
       \/ Fail("redis") /\ UNCHANGED <<record, partial>>
    /\ Goto(w, "ack")
    /\ UNCHANGED <<phase, lists, store, notes, job, at, left>>

Rest(w) == Goto(w, "poll") /\ job' = [job EXCEPT ![w] = NoRequest]

Ack(w) ==
    /\ pc[w] = "ack"
    /\ \/ processing' = processing \ {job[w]} /\ UNCHANGED fault
       \/ Fail("redis") /\ UNCHANGED processing
    /\ Rest(w)
    /\ UNCHANGED <<phase, record, partial, queue, store, notes, at, left>>

(* The worker dies and is started again; nothing reads the processing list.*)
Crash(w) ==
    /\ pc[w] # "poll" /\ Fail("crash")
    /\ Rest(w)
    /\ UNCHANGED <<phase, record, partial, lists, store, notes, at, left>>

-----------------------------------------------------------------------------
Init ==
    /\ phase = [r \in Requests |-> "new"] /\ record = [r \in Requests |-> "none"]
    /\ partial = {} /\ queue = <<>> /\ processing = {}
    /\ store = [u \in Locations |-> {}] /\ delivered = {} /\ torn = {}
    /\ pc = [w \in Workers |-> "poll"] /\ job = [w \in Workers |-> NoRequest]
    /\ at = [w \in Workers |-> 1] /\ left = [w \in Workers |-> {}]
    /\ faults = 0 /\ halted = FALSE

ApiStep(r) == WriteRecord(r) \/ Reuse(r) \/ Push(r) \/ MarkFailed(r)

WorkerStep(w) ==
    \/ Pop(w) \/ Start(w) \/ WriteDelta(w) \/ Wipe(w) \/ \E p \in Parts : Upload(w, p)
    \/ Report(w) \/ Finish(w) \/ RecordFailure(w) \/ Ack(w)

Next ==
    \/ \E r \in Requests :
          Admit(r) \/ ApiStep(r) \/ PushFails(r) \/ ApiStops(r) \/ Expire(r)
    \/ \E w \in Workers : WorkerStep(w) \/ ReportFails(w) \/ Error(w) \/ Crash(w)

Spec == Init /\ [][Next]_vars

(* The API ends the requests it began and a worker that runs works; a      *)
(* client that was refused need not come back.                             *)
FairSpec ==
    /\ Spec
    /\ WF_vars(\E r \in Requests : ApiStep(r))
    /\ \A w \in Workers : WF_vars(WorkerStep(w))

-----------------------------------------------------------------------------
(* Properties.                                                             *)

(* A completed request has a delivery note for each of its targets,        *)
(* whatever failed and whenever its record expired on the way.             *)
CompletedIsDelivered ==
    \A r \in Requests : record[r] = "completed" =>
        \A n \in DOMAIN Targets[r] : <<r, Targets[r][n]>> \in delivered

(* Each message that stays in the processing list without a worker was     *)
(* left there by one fault: jobs that fail in any other way, with any      *)
(* number of workers, give their place in the list back.                   *)
LeftoverCostsAFault ==
    Cardinality({r \in processing : \A w \in Workers : job[w] # r}) <= faults

(* A note the worker asked for describes a whole dataset, also after       *)
(* uploads that failed half way at the same location: one worker at a time *)
(* wipes a location, fills it and reports it.                              *)
WorkerDeliversWhole == \A d \in torn : phase[d[1]] = "reused"

(* A request that was recorded reaches a final status also when storage    *)
(* and reports fail, unless a process stops, Redis does not answer or a    *)
(* record expires.                                                         *)
RequestSettles ==
    \A r \in Requests :
        (record[r] = "pending") ~> (record[r] \in {"completed", "failed"} \/ halted)
=============================================================================
