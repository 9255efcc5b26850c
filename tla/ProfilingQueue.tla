---------------------------- MODULE ProfilingQueue ----------------------------
(***************************************************************************)
(* Profiling and test-data requests: the API routes that create them, the  *)
(* PostgreSQL rows of profiling requests, the Redis records of test-data   *)
(* requests, the Redis list of the profiling worker, and the worker.       *)
(*                                                                         *)
(* A request id stands for its stored request and for its queue message.   *)
(* The worker takes messages with BRPOP: nothing remembers a message once  *)
(* it is popped.                                                           *)
(***************************************************************************)
EXTENDS Naturals, Sequences, SequencesExt, FiniteSets

CONSTANTS
    Requests,     \* request ids
    Workers,      \* profiling worker processes
    NoRequest,    \* "no message" of an idle worker
    RouteOf,      \* the route that creates the request
    ObjectOf,     \* its data source, or test-data target
    MaxFailures   \* bound: process crashes and failed calls

(* "enqueue": POST /profiling/enqueue; "catalog": POST /profiling/requests; *)
(* "testdata": POST of a queued test-data request.                          *)
Routes == {"enqueue", "catalog", "testdata"}

(* The types of a message that the worker tells apart.                      *)
Types == {"profiling", "test_data_generation"}

ASSUME ProfilingAssumption ==
    /\ NoRequest \notin Requests
    /\ RouteOf \in [Requests -> Routes]
    /\ MaxFailures \in Nat

VARIABLES
    store,        \* stored requests: status, and whether completed_at is set
    recent,       \* profiling requests younger than 24 hours
    type,         \* the type a request's message carries
    queue,        \* Redis list of the worker
    bull,         \* messages in the list bull:data-profiling:wait
    req,          \* progress of each API request
    pc,           \* where each worker is in its loop
    msg,          \* the message it holds
    failures

vars == <<store, recent, type, queue, bull, req, pc, msg, failures>>

Active   == {"pending", "started"}
Terminal == {"completed", "failed"}

\* Which store holds the request: a Redis record, or a row.
IsTestData(r) == RouteOf[r] = "testdata"
IsActive(r)   == store[r].status \in Active

\* Which job the worker takes its message for: the type decides alone.
AsTestData(r) == type[r] = "test_data_generation"

\* A test-data job without a record: the record expired, or the message came
\* from the enqueue route and names no record at all.
Recordless(r) ==
    AsTestData(r) /\ (IsTestData(r) => store[r].status = "absent")

\* An enqueue request whose type sends it down the other branch.
Mislabelled(r) == AsTestData(r) /\ ~IsTestData(r)

\* set_started, set_completed and the writes of a test-data record: the
\* status is overwritten whatever it was.
Put(r, st) ==
    [store EXCEPT ![r] = [status |-> st,
                          done   |-> @.done \/ st \in Terminal]]

\* A write whose caller sees an error, applied or not.
PutRaises(r, st) == store' \in {store, Put(r, st)}

Failure == failures < MaxFailures /\ failures' = failures + 1

\* Requests the conflict checks compare: same object, same kind of store.
SameObject(r, s) ==
    /\ r # s
    /\ ObjectOf[r] = ObjectOf[s]
    /\ IsTestData(r) = IsTestData(s)

\* Mutant of Conflict: a request that has started no longer counts.
ConflictOnlyPending(r) ==
    \E s \in Requests : SameObject(r, s) /\ store[s].status = "pending"

\* find_active_profiling_request, find_active_queued_test_data_request.
Conflict(r) == \E s \in Requests : SameObject(r, s) /\ IsActive(s)

-----------------------------------------------------------------------------
(* The API.                                                                *)

\* enqueue_profiling_job: the 409 and create_request without await between.
\* The type comes from the client's body, unchecked.
Enqueue(r) ==
    /\ req[r] = "new" /\ RouteOf[r] = "enqueue"
    /\ IF Conflict(r)
       THEN /\ req' = [req EXCEPT ![r] = "rejected"]
            /\ UNCHANGED <<store, recent, type>>
       ELSE /\ req' = [req EXCEPT ![r] = "created"]
            /\ store' = Put(r, "pending")
            /\ recent' = recent \cup {r}
            /\ \E ty \in Types : type' = [type EXCEPT ![r] = ty]
    /\ UNCHANGED <<queue, bull, pc, msg, failures>>

EnqueueRaises(r) ==
    /\ req[r] = "new" /\ RouteOf[r] = "enqueue" /\ ~Conflict(r)
    /\ Failure
    /\ req' = [req EXCEPT ![r] = "failed"]
    /\ PutRaises(r, "pending")
    /\ recent' = IF store' = store THEN recent ELSE recent \cup {r}
    /\ UNCHANGED <<type, queue, bull, pc, msg>>

\* enqueue_queued_test_data_request awaits the scan for active requests ...
TestDataCheck(r) ==
    /\ req[r] = "new" /\ IsTestData(r)
    /\ req' = [req EXCEPT ![r] = IF Conflict(r) THEN "rejected" ELSE "checked"]
    /\ UNCHANGED <<store, recent, type, queue, bull, pc, msg, failures>>

\* ... and then writes the record.
TestDataWrite(r) ==
    /\ req[r] = "checked"
    /\ req' = [req EXCEPT ![r] = "created"]
    /\ store' = Put(r, "pending")
    /\ UNCHANGED <<recent, type, queue, bull, pc, msg, failures>>

TestDataWriteRaises(r) ==
    /\ req[r] = "checked"
    /\ Failure
    /\ req' = [req EXCEPT ![r] = "failed"]
    /\ PutRaises(r, "pending")
    /\ UNCHANGED <<recent, type, queue, bull, pc, msg>>

Push(r) ==
    /\ req[r] \in {"created", "retrying"}
    /\ queue' = Cons(r, queue)
    /\ req' = [req EXCEPT ![r] = "accepted"]
    /\ UNCHANGED <<store, recent, type, bull, pc, msg, failures>>

\* The LPUSH raises, before or after the message landed.  A profiling push
\* falls back to the synchronous client once, a test-data push does not.
PushRaises(r) ==
    /\ req[r] \in {"created", "retrying"}
    /\ Failure
    /\ queue' \in {queue, Cons(r, queue)}
    /\ req' = [req EXCEPT ![r] =
                  IF @ = "created" /\ ~IsTestData(r) THEN "retrying"
                                                     ELSE "marking"]
    /\ UNCHANGED <<store, recent, type, bull, pc, msg>>

\* The request is marked failed; an error of that write is not retried.
MarkEnqueueFailed(r) ==
    /\ req[r] = "marking"
    /\ \/ store' = Put(r, "failed") /\ UNCHANGED failures
       \/ Failure /\ UNCHANGED store
    /\ req' = [req EXCEPT ![r] = "failed"]
    /\ UNCHANGED <<recent, type, queue, bull, pc, msg>>

\* request_profiling: one request per data source and 24 hours, whatever its
\* status, then an RPUSH to a list that no process of the repository reads.
\* All calls are synchronous.
Limited(r) == \E s \in recent : SameObject(r, s)

RequestProfiling(r) ==
    /\ req[r] = "new" /\ RouteOf[r] = "catalog"
    /\ IF Limited(r)
       THEN /\ req' = [req EXCEPT ![r] = "rejected"]
            /\ UNCHANGED <<store, recent, bull>>
       ELSE /\ req' = [req EXCEPT ![r] = "accepted"]
            /\ store' = Put(r, "pending")
            /\ recent' = recent \cup {r}
            /\ bull' = bull \cup {r}
    /\ UNCHANGED <<type, queue, pc, msg, failures>>

\* _mark_request_enqueue_failed: the status only, completed_at stays empty.
RequestProfilingRaises(r) ==
    /\ req[r] = "new" /\ RouteOf[r] = "catalog" /\ ~Limited(r)
    /\ Failure
    /\ req' = [req EXCEPT ![r] = "failed"]
    /\ store' = [store EXCEPT ![r].status = "failed"]
    /\ recent' = recent \cup {r}
    /\ bull' \in {bull, bull \cup {r}}
    /\ UNCHANGED <<type, queue, pc, msg>>

DayPasses(r) ==
    /\ r \in recent
    /\ recent' = recent \ {r}
    /\ UNCHANGED <<store, type, queue, bull, req, pc, msg, failures>>

\* A test-data record lives one hour after its last write.
RecordExpires(r) ==
    /\ IsTestData(r) /\ store[r].status # "absent"
    /\ store' = [store EXCEPT ![r].status = "absent"]
    /\ UNCHANGED <<recent, type, queue, bull, req, pc, msg, failures>>

ApiCrash ==
    LET inFlight == {r \in Requests :
            req[r] \in {"checked", "created", "retrying", "marking"}}
    IN  /\ Failure
        /\ inFlight # {}
        /\ req' = [r \in Requests |-> IF r \in inFlight THEN "lost" ELSE req[r]]
        /\ UNCHANGED <<store, recent, type, queue, bull, pc, msg>>

-----------------------------------------------------------------------------
(* The worker: run_worker, _handle_job, handle_test_data_job.              *)

Goto(w, l) == pc' = [pc EXCEPT ![w] = l]

\* The end of a turn: the loop logs whatever happened and polls again.
LetGo(w) == Goto(w, "polling") /\ msg' = [msg EXCEPT ![w] = NoRequest]

StartWorker(w) ==
    /\ pc[w] = "down"
    /\ Goto(w, "polling")
    /\ UNCHANGED <<store, recent, type, queue, bull, req, msg, failures>>

Pop(w) ==
    /\ pc[w] = "polling" /\ queue # <<>>
    /\ queue' = Front(queue)
    /\ msg' = [msg EXCEPT ![w] = Last(queue)]
    /\ Goto(w, "popped")
    /\ UNCHANGED <<store, recent, type, bull, req, failures>>

\* BRPOP raises, applied or not: a timeout is survived, any other error ends
\* the process.
PopRaises(w) ==
    /\ pc[w] = "polling"
    /\ Failure
    /\ \/ UNCHANGED queue
       \/ queue # <<>> /\ queue' = Front(queue)
    /\ pc' \in {pc, [pc EXCEPT ![w] = "down"]}
    /\ UNCHANGED <<store, recent, type, bull, req, msg>>

\* set_started, or the "started" record, which must exist.
Begin(w) ==
    /\ pc[w] = "popped"
    /\ ~Recordless(msg[w])
    /\ store' = Put(msg[w], "started")
    /\ Goto(w, "working")
    /\ UNCHANGED <<recent, type, queue, bull, req, msg, failures>>

\* Both happen outside any handler of _handle_job: an error, or a test-data
\* job without a record, drops the job and leaves the stored status alone.
BeginRaises(w) ==
    /\ pc[w] = "popped"
    /\ \/ ~Recordless(msg[w]) /\ Failure /\ PutRaises(msg[w], "started")
       \/ Recordless(msg[w]) /\ UNCHANGED <<store, failures>>
    /\ LetGo(w)
    /\ UNCHANGED <<recent, type, queue, bull, req>>

\* Mutant of Work: an exception of the job goes straight to the loop.
WorkRaisesUnhandled(w) ==
    /\ pc[w] = "working"
    /\ \/ Goto(w, "succeeding") /\ UNCHANGED msg
       \/ LetGo(w)
    /\ UNCHANGED <<store, recent, type, queue, bull, req, failures>>

\* handle_etl_job or generate_test_data_result returns or raises.
Work(w) ==
    /\ pc[w] = "working"
    /\ \E l \in {"succeeding", "failing"} : Goto(w, l)
    /\ UNCHANGED <<store, recent, type, queue, bull, req, msg, failures>>

\* The completed or failed status is written and the turn ends, also when
\* that write raises.  A test-data record is written whole, expired or not.
Finish(w) ==
    /\ pc[w] \in {"succeeding", "failing"}
    /\ LET st == IF pc[w] = "succeeding" THEN "completed" ELSE "failed" IN
       \/ store' = Put(msg[w], st) /\ UNCHANGED failures
       \/ Failure /\ PutRaises(msg[w], st)
    /\ LetGo(w)
    /\ UNCHANGED <<recent, type, queue, bull, req>>

Crash(w) ==
    /\ pc[w] # "down"
    /\ Failure
    /\ Goto(w, "down")
    /\ msg' = [msg EXCEPT ![w] = NoRequest]
    /\ UNCHANGED <<store, recent, type, queue, bull, req>>

-----------------------------------------------------------------------------
Init ==
    /\ store = [r \in Requests |-> [status |-> "absent", done |-> FALSE]]
    /\ recent = {} /\ bull = {}
    /\ type = [r \in Requests |-> IF IsTestData(r) THEN "test_data_generation"
                                                  ELSE "profiling"]
    /\ queue = <<>>
    /\ req = [r \in Requests |-> "new"]
    /\ pc = [w \in Workers |-> "down"]
    /\ msg = [w \in Workers |-> NoRequest]
    /\ failures = 0

ApiStep(r) == TestDataWrite(r) \/ Push(r) \/ MarkEnqueueFailed(r)

WorkerStep(w) == Pop(w) \/ Begin(w) \/ BeginRaises(w) \/ Work(w) \/ Finish(w)

Next ==
    \/ \E r \in Requests :
          \/ Enqueue(r) \/ EnqueueRaises(r)
          \/ TestDataCheck(r) \/ TestDataWriteRaises(r)
          \/ ApiStep(r) \/ PushRaises(r)
          \/ RequestProfiling(r) \/ RequestProfilingRaises(r)
          \/ DayPasses(r) \/ RecordExpires(r)
    \/ ApiCrash
    \/ \E w \in Workers :
          StartWorker(w) \/ PopRaises(w) \/ WorkerStep(w) \/ Crash(w)

Spec == Init /\ [][Next]_vars

(* A handler that began goes on, the worker keeps executing and compose    *)
(* restarts it (restart: unless-stopped).                                  *)
FairSpec ==
    /\ Spec
    /\ WF_vars(\E r \in Requests : ApiStep(r))
    /\ \A w \in Workers : WF_vars(StartWorker(w) \/ WorkerStep(w))

-----------------------------------------------------------------------------
(* Properties.                                                             *)

\* The 409 of the enqueue route keeps one request active per data source, up
\* to redelivery: of two active ones, one had completed and was reopened by
\* a message that its failed push had left behind.
OneFreshRequestPerSource ==
    \A r, s \in Requests :
        (/\ RouteOf[r] = "enqueue" /\ RouteOf[s] = "enqueue"
         /\ SameObject(r, s) /\ IsActive(r) /\ IsActive(s))
            => store[r].done \/ store[s].done

\* A request of the worker's list whose type fits its route does not vanish
\* while it is active: its message is queued or in a worker's hands.  BRPOP
\* and the unguarded status calls break that, each lost call or crash for one
\* request at most.  (A mislabelled one vanishes without any failure.)
LostRequestCostsAFailure ==
    LET held == {msg[w] : w \in Workers}
        lost == {r \in Requests :
            /\ RouteOf[r] # "catalog" /\ ~Mislabelled(r)
            /\ req[r] = "accepted" /\ IsActive(r)
            /\ r \notin ToSet(queue) \cup held}
    IN  Cardinality(lost) <= failures

\* Every accepted request of the enqueue route that is not mislabelled ends,
\* so that its data source can be profiled again, unless a process dies or a
\* call is lost; mislabelled ones and expiring records in front of it do not
\* keep the worker from it.
EnqueuedRequestSettles ==
    \A r \in {s \in Requests : RouteOf[s] = "enqueue"} :
        (req[r] = "accepted" /\ ~Mislabelled(r))
            ~> (store[r].status \in Terminal \/ failures > 0)
=============================================================================
