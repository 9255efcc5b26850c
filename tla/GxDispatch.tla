------------------------------ MODULE GxDispatch ------------------------------
(***************************************************************************)
(* The GX execution dispatch pipeline of dq-made-easy: the FastAPI process *)
(* that accepts dispatch requests, the run store in PostgreSQL, the Redis  *)
(* ready and processing lists, and the dq-engine GX dispatch workers.      *)
(*                                                                         *)
(* A run id stands for its request, its row and its queue message: the API *)
(* mints one id per request and uses it as queue_message_id.  A Redis list *)
(* is a sequence whose head is the left end.  The API is one asyncio       *)
(* process with synchronous database calls, so a handler is atomic between *)
(* two awaits of Redis.                                                    *)
(***************************************************************************)
EXTENDS Naturals, Sequences, SequencesExt

CONSTANTS
    Runs,         \* run ids
    Workers,      \* GX dispatch worker processes
    NoRun,        \* "no message" of an idle worker
    KindOf,       \* the path each run takes through the system
    PlanOf,       \* its run plan, or NoPlan
    NoPlan,
    SuiteOf,      \* its suite and version, or NoSuite
    NoSuite,
    Purgeable,    \* runs whose rows a database reseed may remove
    MaxCrashes,   \* bound: process crashes (workers and API)
    MaxFaults     \* bound: failed calls between processes

(* "suite": a gx suite dispatched through the queue; "engine": the same for *)
(* an engine other than gx; "grouped": a grouped-scope dispatch; "handoff": *)
(* a run created for the caller to execute, with no message.                *)
Kinds == {"suite", "engine", "grouped", "handoff"}

ASSUME ConstantsAssumption ==
    /\ NoRun \notin Runs
    /\ KindOf \in [Runs -> Kinds]
    /\ Purgeable \subseteq Runs
    /\ MaxCrashes \in Nat
    /\ MaxFaults \in Nat

VARIABLES
    row,          \* run store: status and whether completed_at is set
    events,       \* DQ result events, keyed by run and terminal status
    req,          \* progress of each API request
    ready,        \* Redis list dq-gx:execution-dispatch
    processing,   \* its processing list, shared by all workers
    pc,           \* where each worker is in its loop
    msg,          \* the message it holds
    fatal,        \* whether the exception it handles is a Spark failure
    heartbeat,    \* whether the heartbeat key exists
    executed,     \* history: runs whose processing returned normally
    crashes, faults

storeVars == <<row, events>>
queueVars == <<ready, processing>>
vars == <<row, events, req, ready, processing, pc, msg, fatal, heartbeat,
          executed, crashes, faults>>

Active   == {"pending", "running"}
Terminal == {"succeeded", "failed", "cancelled"}
Statuses == {"absent"} \cup Active \cup Terminal

ReqStates == {"new", "admitted", "created", "retrying", "marking",
              "accepted", "rejected", "failed", "lost"}
PcStates  == {"down", "recovering", "polling", "claimed", "working",
              "acking", "reporting", "cleanup"}

Dispatched(r) == KindOf[r] # "handoff"
Exists(r)     == row[r].status # "absent"
IsActive(r)   == row[r].status \in Active
Queued        == ToSet(ready) \cup ToSet(processing)

-----------------------------------------------------------------------------
(* The run store.                                                          *)

\* record_run_status_transition: the status is overwritten whatever it was,
\* completed_at is set by a terminal status and never cleared.
Transition(r, st) ==
    [row EXCEPT ![r] = [status    |-> st,
                        completed |-> @.completed \/ st \in Terminal]]

\* report_execution_run: the transition commits first, the result event is
\* recorded in a second transaction.  The event id is made of run and status
\* and its body carries the report's time, so a second event of the same id
\* differs from the first and is refused, which answers 503.
ReportApplied(r, st) ==
    /\ Exists(r)
    /\ row' = Transition(r, st)
    /\ events' = IF st \in Terminal THEN events \cup {<<r, st>>} ELSE events

ReportRefused(r, st) == ~Exists(r) \/ <<r, st>> \in events

\* What a refused report leaves behind: nothing for a missing row (404), the
\* committed transition for a repeated event (503).
ReportRefusedEffect(r, st) ==
    /\ row' = IF Exists(r) THEN Transition(r, st) ELSE row
    /\ UNCHANGED events

\* A report whose caller sees an error without being refused: the request is
\* lost, or the event store fails after the transition, or the answer is lost.
ReportErrorEffect(r, st) ==
    \/ UNCHANGED storeVars
    \/ Exists(r) /\ row' = Transition(r, st) /\ UNCHANGED events
    \/ ReportApplied(r, st)

Fault == faults < MaxFaults /\ faults' = faults + 1

-----------------------------------------------------------------------------
(* Redis lists.                                                            *)

LPush(q, r) == Cons(r, q)
LRem(q, r)  == RemoveFirst(q, r)

\* RPOPLPUSH: the right end of one list becomes the left end of the other.
MoveToProcessing ==
    /\ ready # <<>>
    /\ ready' = Front(ready)
    /\ processing' = LPush(processing, Last(ready))

MoveToReady ==
    /\ processing # <<>>
    /\ processing' = Front(processing)
    /\ ready' = LPush(ready, Last(processing))

-----------------------------------------------------------------------------
(* The API: enqueue_scheduled_gx_suite_run and create_grouped_scope_gx_run *)

\* Mutant of Conflict: only "running" counts as active.
ConflictIgnoresPending(r) ==
    \E s \in Runs :
        /\ row[s].status = "running"
        /\ \/ PlanOf[r] # NoPlan /\ PlanOf[s] = PlanOf[r]
           \/ /\ PlanOf[r] = NoPlan
              /\ SuiteOf[r] # NoSuite
              /\ SuiteOf[s] = SuiteOf[r]

\* _assert_no_active_gx_execution_conflict: a request with a run plan looks
\* only for active runs of the plan, one without looks for its suite.
Conflict(r) ==
    \E s \in Runs :
        /\ IsActive(s)
        /\ \/ PlanOf[r] # NoPlan /\ PlanOf[s] = PlanOf[r]
           \/ /\ PlanOf[r] = NoPlan
              /\ SuiteOf[r] # NoSuite
              /\ SuiteOf[s] = SuiteOf[r]

\* assert_worker_heartbeat: 503 when the key is missing.
CheckHeartbeat(r) ==
    /\ req[r] = "new" /\ Dispatched(r)
    /\ req' = [req EXCEPT ![r] = IF heartbeat THEN "admitted" ELSE "rejected"]
    /\ UNCHANGED <<row, events, ready, processing, pc, msg, fatal, heartbeat,
                   executed, crashes, faults>>

\* The conflict check (409) and create_run, with no await between them.
CreateRun(r) ==
    /\ req[r] = "admitted"
    /\ IF Conflict(r)
       THEN /\ req' = [req EXCEPT ![r] = "rejected"]
            /\ UNCHANGED row
       ELSE /\ req' = [req EXCEPT ![r] = "created"]
            /\ row' = Transition(r, "pending")
    /\ UNCHANGED <<events, ready, processing, pc, msg, fatal, heartbeat,
                   executed, crashes, faults>>

\* create_run raises, before or after its commit: no message is sent.
CreateRunRaises(r) ==
    /\ req[r] = "admitted" /\ ~Conflict(r)
    /\ Fault
    /\ req' = [req EXCEPT ![r] = "failed"]
    /\ \/ UNCHANGED row
       \/ row' = Transition(r, "pending")
    /\ UNCHANGED <<events, ready, processing, pc, msg, fatal, heartbeat,
                   executed, crashes>>

\* redis_lpush through the asyncio client, then through the sync client.
Push(r) ==
    /\ req[r] \in {"created", "retrying"}
    /\ ready' = LPush(ready, r)
    /\ req' = [req EXCEPT ![r] = "accepted"]
    /\ UNCHANGED <<row, events, processing, pc, msg, fatal, heartbeat,
                   executed, crashes, faults>>

\* A push that raises, before or after the message landed: the first falls
\* back to the second client; after the second a suite dispatch goes on to
\* mark the run failed and a grouped dispatch only answers 503.  An outage
\* that both clients meet is one fault.
PushRaises(r) ==
    /\ \/ UNCHANGED ready
       \/ ready' = LPush(ready, r)
    /\ \/ /\ req[r] = "created" /\ Fault
          /\ req' = [req EXCEPT ![r] = "retrying"]
       \/ /\ req[r] = "retrying" /\ UNCHANGED faults
          /\ req' = [req EXCEPT ![r] =
                        IF KindOf[r] = "grouped" THEN "failed" ELSE "marking"]
    /\ UNCHANGED <<row, events, processing, pc, msg, fatal, heartbeat,
                   executed, crashes>>

MarkEnqueueFailed(r) ==
    /\ req[r] = "marking"
    /\ row' = Transition(r, "failed")
    /\ req' = [req EXCEPT ![r] = "failed"]
    /\ UNCHANGED <<events, ready, processing, pc, msg, fatal, heartbeat,
                   executed, crashes, faults>>

\* start_suite_run: a pending row for the caller to execute, with neither
\* heartbeat check nor conflict check nor message.
StartSuiteRun(r) ==
    /\ req[r] = "new" /\ ~Dispatched(r)
    /\ row' = Transition(r, "pending")
    /\ req' = [req EXCEPT ![r] = "accepted"]
    /\ UNCHANGED <<events, ready, processing, pc, msg, fatal, heartbeat,
                   executed, crashes, faults>>

\* The caller of start_suite_run reports through the report endpoint.
ExternalReport(r, st) ==
    /\ ~Dispatched(r)
    /\ IF ReportRefused(r, st) THEN ReportRefusedEffect(r, st)
                               ELSE ReportApplied(r, st)
    /\ UNCHANGED <<req, ready, processing, pc, msg, fatal, heartbeat,
                   executed, crashes, faults>>

\* The API process dies: its requests in flight vanish between two awaits.
ApiCrash ==
    /\ crashes < MaxCrashes
    /\ \E r \in Runs : req[r] \in {"admitted", "created", "retrying", "marking"}
    /\ req' = [r \in Runs |->
                 IF req[r] \in {"admitted", "created", "retrying", "marking"}
                 THEN "lost" ELSE req[r]]
    /\ crashes' = crashes + 1
    /\ UNCHANGED <<row, events, ready, processing, pc, msg, fatal, heartbeat,
                   executed, faults>>

\* The database is reseeded while Redis keeps its lists.
Purge(r) ==
    /\ r \in Purgeable /\ Exists(r)
    /\ req[r] \in {"accepted", "failed", "lost"}
    /\ row' = [row EXCEPT ![r] = [status |-> "absent", completed |-> FALSE]]
    /\ events' = {e \in events : e[1] # r}
    /\ UNCHANGED <<req, ready, processing, pc, msg, fatal, heartbeat,
                   executed, crashes, faults>>

-----------------------------------------------------------------------------
(* The worker: run_worker_forever.                                         *)

Goto(w, l) == pc' = [pc EXCEPT ![w] = l]

\* Mutant of StartWorker: no startup recovery.
StartWithoutRecovery(w) ==
    /\ pc[w] = "down"
    /\ Goto(w, "polling")
    /\ heartbeat' = TRUE
    /\ UNCHANGED <<row, events, req, ready, processing, msg, fatal, executed,
                   crashes, faults>>

\* The heartbeat is written before recovery starts.
StartWorker(w) ==
    /\ pc[w] = "down"
    /\ Goto(w, "recovering")
    /\ heartbeat' = TRUE
    /\ UNCHANGED <<row, events, req, ready, processing, msg, fatal, executed,
                   crashes, faults>>

\* Mutant of Recover: RPOP in place of RPOPLPUSH.
RecoverDropsMessages(w) ==
    /\ pc[w] = "recovering"
    /\ UNCHANGED ready
    /\ \/ processing # <<>> /\ processing' = Front(processing) /\ UNCHANGED pc
       \/ processing = <<>> /\ Goto(w, "polling") /\ UNCHANGED processing
    /\ UNCHANGED <<row, events, req, msg, fatal, heartbeat, executed,
                   crashes, faults>>

\* One turn of the recovery loop; it ends when the list is empty.
Recover(w) ==
    /\ pc[w] = "recovering"
    /\ \/ MoveToReady /\ UNCHANGED pc
       \/ processing = <<>> /\ Goto(w, "polling") /\ UNCHANGED queueVars
    /\ UNCHANGED <<row, events, req, msg, fatal, heartbeat, executed,
                   crashes, faults>>

\* An exception in the loop is logged and the worker consumes new work.
RecoveryFails(w) ==
    /\ pc[w] = "recovering"
    /\ Fault
    /\ \/ UNCHANGED queueVars
       \/ MoveToReady
    /\ Goto(w, "polling")
    /\ UNCHANGED <<row, events, req, msg, fatal, heartbeat, executed, crashes>>

\* Mutant of Claim: BRPOP in place of BRPOPLPUSH.
ClaimWithoutProcessing(w) ==
    /\ pc[w] = "polling" /\ ready # <<>>
    /\ ready' = Front(ready)
    /\ msg' = [msg EXCEPT ![w] = Last(ready)]
    /\ Goto(w, "claimed")
    /\ UNCHANGED <<row, events, req, processing, fatal, heartbeat, executed,
                   crashes, faults>>

\* BRPOPLPUSH returns a message.
Claim(w) ==
    /\ pc[w] = "polling"
    /\ MoveToProcessing
    /\ msg' = [msg EXCEPT ![w] = Last(ready)]
    /\ Goto(w, "claimed")
    /\ UNCHANGED <<row, events, req, fatal, heartbeat, executed, crashes, faults>>

\* BRPOPLPUSH took effect but its reply is lost: raw_message stays None.
ClaimReplyLost(w) ==
    /\ pc[w] = "polling"
    /\ Fault
    /\ MoveToProcessing
    /\ UNCHANGED <<row, events, req, pc, msg, fatal, heartbeat, executed, crashes>>

\* _api_report_execution_progress: a "running" report.  Every gx shape sends
\* at least one before it evaluates anything and more while it does.
ReportProgress(w) ==
    /\ pc[w] \in {"claimed", "working"} /\ KindOf[msg[w]] # "engine"
    /\ ReportApplied(msg[w], "running")
    /\ Goto(w, "working")
    /\ UNCHANGED <<req, ready, processing, msg, fatal, heartbeat, executed,
                   crashes, faults>>

\* A progress report that raises, because the run is unknown or by a fault.
ProgressRaises(w) ==
    /\ pc[w] \in {"claimed", "working"} /\ KindOf[msg[w]] # "engine"
    /\ \/ ~Exists(msg[w]) /\ UNCHANGED <<row, events, faults>>
       \/ Fault /\ ReportErrorEffect(msg[w], "running")
    /\ Goto(w, "reporting")
    /\ fatal' = [fatal EXCEPT ![w] = FALSE]
    /\ UNCHANGED <<req, ready, processing, msg, heartbeat, executed, crashes>>

\* Any other exception of process_dispatch_message.  Spark is started after
\* the first progress report, so only then can the failure be a Spark one.
\* An engine other than gx always raises: process_engine_dispatch_message is
\* a coroutine that is never awaited and has no get().
ExecutionRaises(w, f) ==
    /\ pc[w] \in {"claimed", "working"}
    /\ f => pc[w] = "working"
    /\ Goto(w, "reporting")
    /\ fatal' = [fatal EXCEPT ![w] = f]
    /\ UNCHANGED <<row, events, req, ready, processing, msg, heartbeat,
                   executed, crashes, faults>>

\* process_dispatch_message returns.  The terminal report_run is a coroutine
\* that is created and never awaited: nothing is sent to the API.
Finish(w) ==
    /\ pc[w] = "working"
    /\ Goto(w, "acking")
    /\ executed' = executed \cup {msg[w]}
    /\ UNCHANGED <<row, events, req, ready, processing, msg, fatal, heartbeat,
                   crashes, faults>>

Ack(w) ==
    /\ pc[w] = "acking"
    /\ processing' = LRem(processing, msg[w])
    /\ msg' = [msg EXCEPT ![w] = NoRun]
    /\ Goto(w, "polling")
    /\ UNCHANGED <<row, events, req, ready, fatal, heartbeat, executed,
                   crashes, faults>>

\* The LREM raises, applied or not: handled like a failure of the run.
AckRaises(w) ==
    /\ pc[w] = "acking"
    /\ Fault
    /\ \/ UNCHANGED processing
       \/ processing' = LRem(processing, msg[w])
    /\ Goto(w, "reporting")
    /\ fatal' = [fatal EXCEPT ![w] = FALSE]
    /\ UNCHANGED <<row, events, req, ready, msg, heartbeat, executed, crashes>>

\* After the handler: a Spark failure ends the process, whose finally clause
\* deletes the shared heartbeat key; any other failure is survived.
LeaveHandler(w) ==
    /\ msg' = [msg EXCEPT ![w] = NoRun]
    /\ IF fatal[w] THEN Goto(w, "down") /\ heartbeat' = FALSE
                   ELSE Goto(w, "polling") /\ UNCHANGED heartbeat

\* _report_dispatch_failure is answered.
ReportFailure(w) ==
    /\ pc[w] = "reporting"
    /\ ~ReportRefused(msg[w], "failed")
    /\ ReportApplied(msg[w], "failed")
    /\ Goto(w, "cleanup")
    /\ UNCHANGED <<req, ready, processing, msg, fatal, heartbeat, executed,
                   crashes, faults>>

\* Mutant of ReportFailureRaises: every failed report discards the message.
ReportFailureRaisesDiscards(w) ==
    /\ pc[w] = "reporting"
    /\ \/ /\ ReportRefused(msg[w], "failed")
          /\ ReportRefusedEffect(msg[w], "failed")
          /\ UNCHANGED faults
       \/ Fault /\ ReportErrorEffect(msg[w], "failed")
    /\ processing' = LRem(processing, msg[w])
    /\ LeaveHandler(w)
    /\ UNCHANGED <<req, ready, fatal, executed, crashes>>

\* It raises: refused, or by a fault.  The message keeps its place in the
\* processing list, also after a 404: _should_discard_failed_message waits
\* for the code GX_API_REQUEST_FAILED and report_run raises
\* DQ_API_REQUEST_FAILED.
ReportFailureRaises(w) ==
    /\ pc[w] = "reporting"
    /\ \/ /\ ReportRefused(msg[w], "failed")
          /\ ReportRefusedEffect(msg[w], "failed")
          /\ UNCHANGED faults
       \/ Fault /\ ReportErrorEffect(msg[w], "failed")
    /\ LeaveHandler(w)
    /\ UNCHANGED <<req, ready, processing, fatal, executed, crashes>>

Cleanup(w) ==
    /\ pc[w] = "cleanup"
    /\ processing' = LRem(processing, msg[w])
    /\ LeaveHandler(w)
    /\ UNCHANGED <<row, events, req, ready, fatal, executed, crashes, faults>>

\* The LREM of a reported message raises: logged, nothing else happens.
CleanupRaises(w) ==
    /\ pc[w] = "cleanup"
    /\ Fault
    /\ \/ UNCHANGED processing
       \/ processing' = LRem(processing, msg[w])
    /\ LeaveHandler(w)
    /\ UNCHANGED <<row, events, req, ready, fatal, executed, crashes>>

\* The process is killed, or interrupted so that its finally clause runs.
Crash(w) ==
    /\ pc[w] # "down"
    /\ crashes < MaxCrashes
    /\ crashes' = crashes + 1
    /\ Goto(w, "down")
    /\ msg' = [msg EXCEPT ![w] = NoRun]
    /\ heartbeat' \in {heartbeat, FALSE}
    /\ UNCHANGED <<row, events, req, ready, processing, fatal, executed, faults>>

\* The heartbeat thread rewrites the key.
WriteHeartbeat(w) ==
    /\ pc[w] # "down" /\ ~heartbeat
    /\ heartbeat' = TRUE
    /\ UNCHANGED <<row, events, req, ready, processing, pc, msg, fatal,
                   executed, crashes, faults>>

\* The key expires without a live worker, or when its writes fail.
HeartbeatExpires ==
    /\ heartbeat
    /\ \/ (\A w \in Workers : pc[w] = "down") /\ UNCHANGED faults
       \/ Fault
    /\ heartbeat' = FALSE
    /\ UNCHANGED <<row, events, req, ready, processing, pc, msg, fatal,
                   executed, crashes>>

-----------------------------------------------------------------------------
Init ==
    /\ row = [r \in Runs |-> [status |-> "absent", completed |-> FALSE]]
    /\ events = {}
    /\ req = [r \in Runs |-> "new"]
    /\ ready = <<>> /\ processing = <<>>
    /\ pc = [w \in Workers |-> "down"]
    /\ msg = [w \in Workers |-> NoRun]
    /\ fatal = [w \in Workers |-> FALSE]
    /\ heartbeat = FALSE
    /\ executed = {}
    /\ crashes = 0 /\ faults = 0

ApiNext ==
    \/ \E r \in Runs :
          \/ CheckHeartbeat(r) \/ CreateRun(r) \/ CreateRunRaises(r)
          \/ Push(r) \/ PushRaises(r)
          \/ MarkEnqueueFailed(r) \/ StartSuiteRun(r) \/ Purge(r)
          \/ \E st \in Active \cup Terminal : ExternalReport(r, st)
    \/ ApiCrash

WorkerNext ==
    \/ \E w \in Workers :
          \/ StartWorker(w) \/ Recover(w) \/ RecoveryFails(w)
          \/ Claim(w) \/ ClaimReplyLost(w)
          \/ ReportProgress(w) \/ ProgressRaises(w)
          \/ \E f \in BOOLEAN : ExecutionRaises(w, f)
          \/ Finish(w) \/ Ack(w) \/ AckRaises(w)
          \/ ReportFailure(w) \/ ReportFailureRaises(w)
          \/ Cleanup(w) \/ CleanupRaises(w)
          \/ Crash(w) \/ WriteHeartbeat(w)
    \/ HeartbeatExpires

Next == ApiNext \/ WorkerNext

Spec == Init /\ [][Next]_vars

(* A live process keeps executing and compose restarts a dead worker       *)
(* (restart: unless-stopped); nobody is obliged to send requests, to crash *)
(* or to lose a call.                                                      *)
WorkerStep(w) ==
    \/ Recover(w) \/ Claim(w) \/ ReportProgress(w) \/ ProgressRaises(w)
    \/ \E f \in BOOLEAN : ExecutionRaises(w, f)
    \/ Finish(w) \/ Ack(w) \/ ReportFailure(w) \/ ReportFailureRaises(w)
    \/ Cleanup(w)

ApiStep(r) == CreateRun(r) \/ Push(r) \/ MarkEnqueueFailed(r)

FairSpec ==
    /\ Spec
    /\ \A w \in Workers : WF_vars(StartWorker(w) \/ WorkerStep(w))
    /\ WF_vars(\E r \in Runs : ApiStep(r))

-----------------------------------------------------------------------------
(* Properties.                                                             *)

\* Every variable keeps its type; a worker holds a message exactly from the
\* moment BRPOPLPUSH returns one to the end of its loop turn.
TypeOK ==
    /\ row \in [Runs -> [status : Statuses, completed : BOOLEAN]]
    /\ events \in SUBSET (Runs \X Terminal)
    /\ req \in [Runs -> ReqStates]
    /\ ready \in Seq(Runs) /\ processing \in Seq(Runs)
    /\ pc \in [Workers -> PcStates]
    /\ msg \in [Workers -> Runs \cup {NoRun}]
    /\ \A w \in Workers :
          (msg[w] # NoRun) <=> (pc[w] \notin {"down", "recovering", "polling"})
    /\ fatal \in [Workers -> BOOLEAN]
    /\ heartbeat \in BOOLEAN
    /\ executed \in SUBSET Runs
    /\ crashes \in 0..MaxCrashes /\ faults \in 0..MaxFaults

\* Two dispatches compete when the conflict check of each looks for the other.
Compete(r, s) ==
    /\ Dispatched(r) /\ Dispatched(s)
    /\ \/ PlanOf[r] # NoPlan /\ PlanOf[s] = PlanOf[r]
       \/ /\ PlanOf[r] = NoPlan /\ PlanOf[s] = NoPlan
          /\ SuiteOf[r] # NoSuite /\ SuiteOf[s] = SuiteOf[r]

\* The 409 of _assert_no_active_gx_execution_conflict keeps one run active
\* per plan, or per suite without plan, up to redelivery: when two competing
\* runs are active, one of them had already completed and was reopened by a
\* message delivered after its failure had been recorded.
OneFreshRunPerObject ==
    \A r, s \in Runs :
        (r # s /\ Compete(r, s) /\ IsActive(r) /\ IsActive(s))
            => row[r].completed \/ row[s].completed

\* The dispatch answered "accepted" is not lost: while its row still says
\* pending its message is in one of the two lists, whatever workers crash,
\* recover each other's messages, or acknowledge copies that are not theirs.
PendingRunIsQueued ==
    \A r \in Runs :
        (Dispatched(r) /\ req[r] = "accepted" /\ row[r].status = "pending")
            => r \in Queued

\* With one worker a run left "running" is either still in a list, and so
\* retried by the next startup recovery, or was processed to its end.
RunningRunIsAttended ==
    \A r \in Runs :
        (Dispatched(r) /\ row[r].status = "running") => r \in Queued \cup executed

\* EDR-007: "In-flight work is recoverable after worker crashes".  A message
\* being processed is in a list, so that the death of its worker at this
\* moment does not lose it.  It holds for one worker; a second one requeues
\* and claims the message of the first, which then removes its only copy.
InFlightMessageIsRecoverable ==
    \A w \in Workers : pc[w] \in {"claimed", "working"} => msg[w] \in Queued

\* With one worker startup recovery leaves nothing behind: a worker that
\* polls has in its processing list only messages whose failure the API
\* refuses to record (again), and one more for each lost call.
OnlyRefusedMessagesStranded ==
    \A w \in Workers : pc[w] = "polling" =>
        Cardinality({r \in ToSet(processing) : ~ReportRefused(r, "failed")}) <= faults

\* Whatever processes crash, every accepted dispatch is processed to its end
\* or has its failure recorded, unless a call is lost.
AcceptedDispatchIsHandled ==
    \A r \in {s \in Runs : Dispatched(s)} :
        (req[r] = "accepted")
            ~> (r \in executed \/ <<r, "failed">> \in events \/ faults > 0)
=============================================================================
