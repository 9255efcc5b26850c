----------------------------- MODULE ConnectorSync -----------------------------
(***************************************************************************)
(* Connector sync jobs: rows of one table, enqueued and cancelled by the   *)
(* API and executed by workers that poll the table.  A worker claims the   *)
(* oldest pending job, synchronises and writes the outcome in ONE          *)
(* transaction, so that it holds the row's lock all the time and nobody    *)
(* sees the job run.  Only the delay before a retry lies between two       *)
(* transactions.                                                           *)
(*                                                                         *)
(* A cancellation reads the job and then writes it; its write waits for    *)
(* the row's lock, and the API's event loop with it.                       *)
(***************************************************************************)
EXTENDS Naturals, Sequences, FiniteSets

CONSTANTS
    Jobs,          \* ids of jobs
    SyncWorkers,   \* worker processes
    Outcomes,      \* what a synchronisation may end with: "done", "retry", "fatal"
    NoJob,
    MaxSyncFaults  \* bound: worker crashes and failing transactions

ASSUME SyncAssumption ==
    /\ NoJob \notin Jobs /\ Outcomes \subseteq {"done", "retry", "fatal"}
    /\ MaxSyncFaults \in Nat

VARIABLES
    status,      \* the committed status of a job
    created,     \* the jobs in the order of created_at
    contended,   \* history: jobs for whose lock a claim waited
    synced,      \* jobs whose metadata was synchronised
    again,       \* jobs that were synchronised once more after that
    at, mine,    \* where a worker is, and its job
    cancelling,  \* the job of the cancellation in the API
    faults

syncVars == <<status, created, contended, synced, again, at, mine, cancelling, faults>>

Final == {"completed", "failed", "cancelled"}

(* The row's lock is held from the claim to the outcome.                   *)
Locked(j) == \E w \in SyncWorkers : at[w] = "sync" /\ mine[w] = j

Oldest(j) ==
    \E n \in DOMAIN created :
        /\ created[n] = j /\ status[j] = "pending"
        /\ \A k \in 1..(n - 1) : status[created[k]] # "pending"

(***************************************************************************)
(* The API.                                                                *)
(***************************************************************************)
EnqueueSync(j) ==
    /\ cancelling = NoJob
    /\ status[j] = "absent"
    /\ status' = [status EXCEPT ![j] = "pending"]
    /\ created' = Append(created, j)
    /\ UNCHANGED <<contended, synced, again, at, mine, cancelling, faults>>

BeginCancel(j) ==
    /\ cancelling = NoJob
    /\ status[j] \in {"pending", "retrying"}
    /\ cancelling' = j
    /\ UNCHANGED <<status, created, contended, synced, again, at, mine, faults>>

FinishCancel ==
    /\ cancelling # NoJob /\ ~Locked(cancelling)
    /\ status' = [status EXCEPT ![cancelling] = "cancelled"]
    /\ cancelling' = NoJob
    /\ UNCHANGED <<created, contended, synced, again, at, mine, faults>>

(***************************************************************************)
(* The worker.                                                             *)
(***************************************************************************)
At(w, place, j) == at' = [at EXCEPT ![w] = place] /\ mine' = [mine EXCEPT ![w] = j]

(* The UPDATE picks the oldest pending job and waits if its row is locked. *)
(* A transaction that commits between the sub-select's snapshot and the     *)
(* row lock, without being waited for, is left out.                         *)
Claim(w, j) ==
    /\ at[w] = "poll" /\ Oldest(j)
    /\ At(w, IF Locked(j) THEN "waiting" ELSE "sync", j)
    /\ contended' = IF Locked(j) THEN contended \cup {j} ELSE contended
    /\ UNCHANGED <<status, created, synced, again, cancelling, faults>>

(* The lock is released: PostgreSQL compares the row's id once more, not   *)
(* its status, and the UPDATE goes on.                                     *)
Unblock(w) ==
    /\ at[w] = "waiting" /\ ~Locked(mine[w])
    /\ At(w, "sync", mine[w])
    /\ UNCHANGED <<status, created, contended, synced, again, cancelling, faults>>

(* Mutant of Complete: the outcome is written without the status.          *)
CompleteSilently(w) ==
    /\ at[w] = "sync" /\ "done" \in Outcomes
    /\ synced' = synced \cup {mine[w]}
    /\ again' = again \cup (synced \cap {mine[w]})
    /\ At(w, "poll", NoJob)
    /\ UNCHANGED <<status, created, contended, cancelling, faults>>

Complete(w) ==
    /\ at[w] = "sync" /\ "done" \in Outcomes
    /\ status' = [status EXCEPT ![mine[w]] = "completed"]
    /\ synced' = synced \cup {mine[w]}
    /\ again' = again \cup (synced \cap {mine[w]})
    /\ At(w, "poll", NoJob)
    /\ UNCHANGED <<created, contended, cancelling, faults>>

(* A retryable error: retry_count is read and compared, never increased.   *)
Retry(w) ==
    /\ at[w] = "sync" /\ "retry" \in Outcomes
    /\ status' = [status EXCEPT ![mine[w]] = "retrying"]
    /\ At(w, "delay", mine[w])
    /\ UNCHANGED <<created, contended, synced, again, cancelling, faults>>

GiveUp(w) ==
    /\ at[w] = "sync" /\ "fatal" \in Outcomes
    /\ status' = [status EXCEPT ![mine[w]] = "failed"]
    /\ At(w, "poll", NoJob)
    /\ UNCHANGED <<created, contended, synced, again, cancelling, faults>>

(* Mutant of EndDelay: the worker waits and forgets the job.               *)
EndDelayForgets(w) ==
    /\ at[w] = "delay" /\ ~Locked(mine[w])
    /\ At(w, "poll", NoJob)
    /\ UNCHANGED <<status, created, contended, synced, again, cancelling, faults>>

EndDelay(w) ==
    /\ at[w] = "delay" /\ ~Locked(mine[w])
    /\ status' = [status EXCEPT ![mine[w]] = "pending"]
    /\ At(w, "poll", NoJob)
    /\ UNCHANGED <<created, contended, synced, again, cancelling, faults>>

(* A worker dies and is started again, or a statement of it fails: the     *)
(* open transaction is rolled back.  The synchronisation may have been     *)
(* done by then.                                                           *)
SyncFault(w) ==
    /\ at[w] # "poll" /\ faults < MaxSyncFaults
    /\ faults' = faults + 1
    /\ \/ UNCHANGED <<synced, again>>
       \/ /\ at[w] = "sync" /\ "done" \in Outcomes
          /\ synced' = synced \cup {mine[w]}
          /\ again' = again \cup (synced \cap {mine[w]})
    /\ At(w, "poll", NoJob)
    /\ UNCHANGED <<status, created, contended, cancelling>>

-----------------------------------------------------------------------------
SyncInit ==
    /\ status = [j \in Jobs |-> "absent"] /\ created = <<>>
    /\ contended = {} /\ synced = {} /\ again = {}
    /\ at = [w \in SyncWorkers |-> "poll"] /\ mine = [w \in SyncWorkers |-> NoJob]
    /\ cancelling = NoJob /\ faults = 0

SyncWorkerStep(w) ==
    \/ \E j \in Jobs : Claim(w, j)
    \/ Unblock(w)
    \/ Complete(w)
    \/ Retry(w)
    \/ GiveUp(w)
    \/ EndDelay(w)

SyncNext ==
    \/ \E j \in Jobs : EnqueueSync(j) \/ BeginCancel(j)
    \/ FinishCancel
    \/ \E w \in SyncWorkers : SyncWorkerStep(w) \/ SyncFault(w)

SyncSpec == SyncInit /\ [][SyncNext]_syncVars

(* A worker polls as long as it runs and is started again when it died;    *)
(* the API finishes the call in hand once the row is free.                 *)
FairSyncSpec ==
    /\ SyncSpec
    /\ WF_syncVars(FinishCancel)
    /\ \A w \in SyncWorkers : WF_syncVars(SyncWorkerStep(w))

-----------------------------------------------------------------------------
(* Properties.                                                             *)

(* A job that is to be retried has a worker in its delay that will make it *)
(* pending again.  No other step takes up a retrying job, so one without   *)
(* a worker is stranded; that takes a crash or a failing transaction, with *)
(* any number of workers and cancellations.                                *)
StrandedJobCostsAFault ==
    \A j \in Jobs : status[j] = "retrying" =>
        faults > 0 \/ \E w \in SyncWorkers : at[w] = "delay" /\ mine[w] = j

(* A connector's metadata is synchronised twice for one job only if a      *)
(* transaction was lost after the synchronisation, or a second worker      *)
(* waited for the row's lock: the claim takes pending jobs, and else a     *)
(* completed job does not become pending, not even when a retry's delay or *)
(* a cancellation overtakes it.                                            *)
RepeatedSyncIsExplained == again \subseteq contended \/ faults > 0

(* Every job ends if from some time on none is to be retried: no           *)
(* cancellation that waits for a lock, no other job, no lost claim and no  *)
(* crash keeps it back.  (A job retried for ever starves the younger ones: *)
(* the oldest is claimed first and the retries are not counted.)           *)
JobEnds ==
    <>[](\A j \in Jobs : status[j] # "retrying")
        => \A j \in Jobs : (status[j] = "pending") ~> (status[j] \in Final)
=============================================================================
