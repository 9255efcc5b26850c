------------------------------- MODULE JoinPair -------------------------------
(***************************************************************************)
(* Join-pair dispatches.  A suite whose execution shape is join_pair, sent *)
(* without source overrides, is not pushed to the GX dispatch list: its    *)
(* message goes to the list of the join-pair ETL worker, which lands the   *)
(* joined dataset and then pushes the dispatch.  This module composes that *)
(* path with GxDispatch: the requests share the API, the run store and the *)
(* conflict check with the directly dispatched runs.                       *)
(*                                                                         *)
(* At this commit no join is landed: _build_joined_dataframe calls         *)
(* _apply_actuality_date_pre_filter, whose first statement passes two      *)
(* arguments to _resolve_optional_bool_env(name).  The TypeError ends      *)
(* every job after its second progress report, so the statements behind    *)
(* it (write, push of the dispatch, third report) have no action here.     *)
(***************************************************************************)
EXTENDS GxDispatch, FiniteSets

CONSTANTS
    JoinRuns,     \* the runs that need materialization
    Etl,          \* join-pair worker processes
    ContractOf    \* what the suite's source_materialization is worth

ASSUME JoinAssumption ==
    /\ JoinRuns \subseteq Runs
    /\ \A r \in JoinRuns : KindOf[r] = "suite"
    \* "missing": refused by the API; "unsound": refused by the worker
    /\ ContractOf \in [JoinRuns -> {"sound", "unsound", "missing"}]

VARIABLES
    checked,      \* join requests that passed the conflict check
    jready,       \* Redis list dq-gx:join-pair-materialize
    jprocessing,  \* its processing list
    jpc, jmsg,    \* where each ETL worker is, and the message it holds
    jheartbeat    \* whether the ETL workers' heartbeat key exists

joinVars == <<checked, jready, jprocessing, jpc, jmsg, jheartbeat>>
allVars  == <<vars, joinVars>>

JPcStates == {"down", "polling", "claimed", "resolving", "joining", "failing",
              "acking"}

-----------------------------------------------------------------------------
(* The API: the join branch of enqueue_scheduled_gx_suite_run.             *)

\* The conflict check; the request then awaits the second heartbeat.
JoinCheckConflict(r) ==
    /\ r \in JoinRuns \ checked /\ req[r] = "admitted"
    /\ IF Conflict(r)
       THEN req' = [req EXCEPT ![r] = "rejected"] /\ UNCHANGED checked
       ELSE checked' = checked \cup {r} /\ UNCHANGED req
    /\ UNCHANGED <<row, events, ready, processing, pc, msg, fatal, heartbeat,
                   executed, crashes, faults,
                   jready, jprocessing, jpc, jmsg, jheartbeat>>

\* assert_join_pair_materialization_worker (503), the handoff payload (422
\* without a source_materialization) and create_run.
JoinCreateRun(r) ==
    /\ r \in checked /\ req[r] = "admitted"
    /\ IF jheartbeat /\ ContractOf[r] # "missing"
       THEN /\ req' = [req EXCEPT ![r] = "created"]
            /\ row' = Transition(r, "pending")
       ELSE req' = [req EXCEPT ![r] = "rejected"] /\ UNCHANGED row
    /\ UNCHANGED <<events, ready, processing, pc, msg, fatal, heartbeat,
                   executed, crashes, faults, joinVars>>

JoinCreateRunRaises(r) ==
    /\ r \in checked /\ req[r] = "admitted"
    /\ jheartbeat /\ ContractOf[r] # "missing"
    /\ Fault
    /\ req' = [req EXCEPT ![r] = "failed"]
    /\ \/ UNCHANGED row
       \/ row' = Transition(r, "pending")
    /\ UNCHANGED <<events, ready, processing, pc, msg, fatal, heartbeat,
                   executed, crashes, joinVars>>

JoinPush(r) ==
    /\ r \in JoinRuns /\ req[r] \in {"created", "retrying"}
    /\ jready' = LPush(jready, r)
    /\ req' = [req EXCEPT ![r] = "accepted"]
    /\ UNCHANGED <<row, events, ready, processing, pc, msg, fatal, heartbeat,
                   executed, crashes, faults,
                   checked, jprocessing, jpc, jmsg, jheartbeat>>

\* Both clients may fail, before or after the message landed; the second
\* failure marks the run failed (MarkEnqueueFailed).
JoinPushRaises(r) ==
    /\ r \in JoinRuns /\ req[r] \in {"created", "retrying"}
    /\ Fault
    /\ \/ UNCHANGED jready
       \/ jready' = LPush(jready, r)
    /\ req' = [req EXCEPT ![r] = IF @ = "created" THEN "retrying" ELSE "marking"]
    /\ UNCHANGED <<row, events, ready, processing, pc, msg, fatal, heartbeat,
                   executed, crashes,
                   checked, jprocessing, jpc, jmsg, jheartbeat>>

-----------------------------------------------------------------------------
(* The ETL worker: run_worker_forever and _process_job.                    *)

JGoto(w, l) == jpc' = [jpc EXCEPT ![w] = l]

\* It writes its heartbeat and polls: nothing recovers the processing list.
JoinStart(w) ==
    /\ jpc[w] = "down"
    /\ JGoto(w, "polling")
    /\ jheartbeat' = TRUE
    /\ UNCHANGED <<vars, checked, jready, jprocessing, jmsg>>

\* Mutant of JoinClaim: BRPOP in place of BRPOPLPUSH.
JoinClaimDestructive(w) ==
    /\ jpc[w] = "polling" /\ jready # <<>>
    /\ jready' = Front(jready)
    /\ jmsg' = [jmsg EXCEPT ![w] = Last(jready)]
    /\ JGoto(w, "claimed")
    /\ UNCHANGED <<vars, checked, jprocessing, jheartbeat>>

JoinClaim(w) ==
    /\ jpc[w] = "polling" /\ jready # <<>>
    /\ jready' = Front(jready)
    /\ jprocessing' = LPush(jprocessing, Last(jready))
    /\ jmsg' = [jmsg EXCEPT ![w] = Last(jready)]
    /\ JGoto(w, "claimed")
    /\ UNCHANGED <<vars, checked, jheartbeat>>

\* BRPOPLPUSH raises, applied or not: no handler catches it and the process
\* ends, its heartbeat left to expire.
JoinClaimRaises(w) ==
    /\ jpc[w] = "polling"
    /\ Fault
    /\ \/ UNCHANGED <<jready, jprocessing>>
       \/ /\ jready # <<>>
          /\ jready' = Front(jready)
          /\ jprocessing' = LPush(jprocessing, Last(jready))
    /\ JGoto(w, "down")
    /\ UNCHANGED <<row, events, req, ready, processing, pc, msg, fatal,
                   heartbeat, executed, crashes, checked, jmsg, jheartbeat>>

\* The payload and the sources are good: the first progress report, then the
\* sources are resolved, Spark starts and the second report follows.
JoinProgress(w) ==
    /\ \/ jpc[w] = "claimed" /\ JGoto(w, "resolving")
       \/ jpc[w] = "resolving" /\ JGoto(w, "joining")
    /\ ContractOf[jmsg[w]] = "sound"
    /\ ReportApplied(jmsg[w], "running")
    /\ UNCHANGED <<req, ready, processing, pc, msg, fatal, heartbeat, executed,
                   crashes, faults,
                   checked, jready, jprocessing, jmsg, jheartbeat>>

\* An exception of _process_job: the contract is refused, the run is unknown,
\* or a call (report, data-object version, Spark) fails.
JoinRaises(w) ==
    /\ jpc[w] \in {"claimed", "resolving", "joining"}
    /\ \/ ContractOf[jmsg[w]] # "sound" /\ UNCHANGED <<row, events, faults>>
       \/ ~Exists(jmsg[w]) /\ UNCHANGED <<row, events, faults>>
       \/ Fault /\ jpc[w] # "joining" /\ ReportErrorEffect(jmsg[w], "running")
    /\ JGoto(w, "failing")
    /\ UNCHANGED <<req, ready, processing, pc, msg, fatal, heartbeat, executed,
                   crashes, checked, jready, jprocessing, jmsg, jheartbeat>>

\* Mutant of BuildJoinedDataframe: the caller takes the error for the end of
\* the job.
BuildErrorSwallowed(w) ==
    /\ jpc[w] = "joining"
    /\ JGoto(w, "acking")
    /\ UNCHANGED <<vars, checked, jready, jprocessing, jmsg, jheartbeat>>

\* _build_joined_dataframe reaches _apply_actuality_date_pre_filter, where
\* the call with two arguments raises TypeError whatever the flag says.
BuildJoinedDataframe(w) ==
    /\ jpc[w] = "joining"
    /\ JGoto(w, "failing")
    /\ UNCHANGED <<vars, checked, jready, jprocessing, jmsg, jheartbeat>>

\* _report_failure; an error of the report itself is logged.
JoinReportFailure(w) ==
    /\ jpc[w] = "failing"
    /\ LET r == jmsg[w] IN
       \/ /\ ~ReportRefused(r, "failed") /\ ReportApplied(r, "failed")
          /\ UNCHANGED faults
       \/ /\ ReportRefused(r, "failed") /\ ReportRefusedEffect(r, "failed")
          /\ UNCHANGED faults
       \/ Fault /\ ReportErrorEffect(r, "failed")
    /\ JGoto(w, "acking")
    /\ UNCHANGED <<req, ready, processing, pc, msg, fatal, heartbeat, executed,
                   crashes, checked, jready, jprocessing, jmsg, jheartbeat>>

\* The finally clause: the LREM, whose error is logged too.
JoinAck(w) ==
    /\ jpc[w] = "acking"
    /\ \/ jprocessing' = LRem(jprocessing, jmsg[w]) /\ UNCHANGED faults
       \/ Fault /\ UNCHANGED jprocessing
    /\ jmsg' = [jmsg EXCEPT ![w] = NoRun]
    /\ JGoto(w, "polling")
    /\ UNCHANGED <<row, events, req, ready, processing, pc, msg, fatal,
                   heartbeat, executed, crashes, checked, jready, jheartbeat>>

(* The process is killed.  It installs no signal handler, so that SIGTERM,   *)
(* with which compose stops it, runs no finally clause either; the interrupt *)
(* of a terminal, which would run the LREM of JoinAck, is left out.          *)
JoinCrash(w) ==
    /\ jpc[w] # "down"
    /\ crashes < MaxCrashes
    /\ crashes' = crashes + 1
    /\ JGoto(w, "down")
    /\ jmsg' = [jmsg EXCEPT ![w] = NoRun]
    /\ UNCHANGED <<row, events, req, ready, processing, pc, msg, fatal,
                   heartbeat, executed, faults,
                   checked, jready, jprocessing, jheartbeat>>

JoinHeartbeatExpires ==
    /\ jheartbeat /\ \A w \in Etl : jpc[w] = "down"
    /\ jheartbeat' = FALSE
    /\ UNCHANGED <<vars, checked, jready, jprocessing, jpc, jmsg>>

-----------------------------------------------------------------------------
JoinInit ==
    /\ Init
    /\ checked = {}
    /\ jready = <<>> /\ jprocessing = <<>>
    /\ jpc = [w \in Etl |-> "down"]
    /\ jmsg = [w \in Etl |-> NoRun]
    /\ jheartbeat = FALSE

\* What GxDispatch does for the runs that go straight to the dispatch list,
\* and for every run before and after the branch.
DispatchNext ==
    /\ \/ \E r \in Runs :
             CheckHeartbeat(r) \/ MarkEnqueueFailed(r) \/ Purge(r)
       \/ \E r \in Runs \ JoinRuns :
             \/ CreateRun(r) \/ CreateRunRaises(r) \/ Push(r) \/ PushRaises(r)
             \/ StartSuiteRun(r)
             \/ \E st \in Active \cup Terminal : ExternalReport(r, st)
       \/ ApiCrash
       \/ WorkerNext
    /\ UNCHANGED joinVars

EtlStep(w) ==
    \/ JoinClaim(w) \/ JoinProgress(w) \/ JoinRaises(w)
    \/ BuildJoinedDataframe(w) \/ JoinReportFailure(w) \/ JoinAck(w)

JoinApiStep(r) == JoinCheckConflict(r) \/ JoinCreateRun(r) \/ JoinPush(r)

JoinNext ==
    \/ DispatchNext
    \/ \E r \in Runs :
          JoinApiStep(r) \/ JoinCreateRunRaises(r) \/ JoinPushRaises(r)
    \/ \E w \in Etl :
          JoinStart(w) \/ JoinClaimRaises(w) \/ EtlStep(w) \/ JoinCrash(w)
    \/ JoinHeartbeatExpires

JoinSpec == JoinInit /\ [][JoinNext]_allVars

(* The ETL worker's container has the restart policy of the dispatch       *)
(* worker's (restart: unless-stopped).                                     *)
FairJoinSpec ==
    /\ JoinSpec
    /\ \A w \in Etl : WF_allVars(JoinStart(w)) /\ WF_allVars(EtlStep(w))
    /\ \A r \in Runs : WF_allVars(JoinApiStep(r))
    /\ \A r \in Runs : WF_allVars(MarkEnqueueFailed(r) /\ UNCHANGED joinVars)

-----------------------------------------------------------------------------
(* Properties.                                                             *)

\* A join dispatch answered "accepted" does not vanish while its run is
\* active, whatever processes die: its message is in one of the two ETL
\* lists, where an operator can find it.  A lost failure report followed by
\* the LREM of the finally clause breaks that, for one run per lost call.
UntraceableRunCostsALostCall ==
    LET untraceable == {r \in JoinRuns :
            /\ req[r] = "accepted" /\ IsActive(r)
            /\ r \notin ToSet(jready) \cup ToSet(jprocessing)}
    IN  Cardinality(untraceable) <= faults

\* Every accepted join dispatch comes to an end, and its run does not stay
\* active and block its suite with 409, unless a process dies or a call is
\* lost: nothing recovers the ETL workers' processing list.
JoinDispatchSettles ==
    \A r \in JoinRuns :
        (req[r] = "accepted") ~> (~IsActive(r) \/ faults > 0 \/ crashes > 0)

=============================================================================
