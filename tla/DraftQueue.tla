------------------------------ MODULE DraftQueue ------------------------------
(***************************************************************************)
(* Natural-language drafts and data-definition tasks.  A request has a row *)
(* in PostgreSQL and a record in Redis; a thread of the API process pops   *)
(* the jobs and writes both stores and the request's event stream.  Board  *)
(* decisions on definition tasks are API requests that read the record,    *)
(* import the definitions into OpenMetadata and write both stores back.    *)
(*                                                                         *)
(* One API process serves the requests and runs the thread.  The handler   *)
(* of a board decision makes only blocking calls: it stops the other       *)
(* handlers until it ends, but not the thread.                             *)
(***************************************************************************)
EXTENDS Naturals, Sequences, SequencesExt, FiniteSets

CONSTANTS
    Requests,     \* request ids
    NoRequest,    \* "no job" of the idle thread
    NoReview,     \* no board decision is being handled
    KindOf,       \* what the request asks for
    MaxFailures   \* bound: crashes of the API process and failed calls

(* "draft": match attributes to a prompt, or create a suggestion from them; *)
(* "task": draft data definitions, whose result a board reviews.            *)
Kinds == {"draft", "task"}

ASSUME DraftAssumption ==
    /\ NoRequest \notin Requests
    /\ KindOf \in [Requests -> Kinds]
    /\ MaxFailures \in Nat

VARIABLES
    row,          \* PostgreSQL: status and review status of the result
    rec,          \* the same in Redis
    stream,       \* statuses published in the request's event stream
    queue,        \* Redis list of the jobs
    req,          \* progress of each enqueue request
    pc, msg,      \* where the thread is, and the job it holds
    result,       \* the review status of the result it computed
    review,       \* the board decision being handled
    failures

stores == <<row, rec, stream>>
vars == <<row, rec, stream, queue, req, pc, msg, result, review, failures>>

Terminal == {"completed", "failed"}

(* A review status is "none" (there is no result yet, or none that a board *)
(* reviews), "open", "approved" or "rejected".                             *)
IsTask(r) == KindOf[r] = "task"
Absent(r) == rec[r].status = "absent"

Failure == failures < MaxFailures /\ failures' = failures + 1

\* The other handlers run while the process is up and no decision blocks it.
Serving == pc # "down" /\ review = NoReview

\* update_natural_language_request: a result of None keeps the stored one.
UpdateRow(r, st, v) ==
    [row EXCEPT ![r] = [status |-> st,
                        review |-> IF v = "none" THEN @.review ELSE v]]

\* An update whose error is logged and passed over: applied or not.
TryUpdateRow(r, st, v) ==
    \/ row' = UpdateRow(r, st, v) /\ UNCHANGED failures
    \/ Failure /\ row' \in {row, UpdateRow(r, st, v)}

-----------------------------------------------------------------------------
(* The API: enqueue_natural_language_draft_job.                            *)

Record(r) ==
    /\ Serving /\ req[r] = "new"
    /\ \/ /\ row' = [row EXCEPT ![r].status = "pending"]
          /\ req' = [req EXCEPT ![r] = "recorded"]
          /\ UNCHANGED failures
       \/ /\ Failure
          /\ row' \in {row, [row EXCEPT ![r].status = "pending"]}
          /\ req' = [req EXCEPT ![r] = "failed"]
    /\ UNCHANGED <<rec, stream, queue, pc, msg, result, review>>

StoreRequest(r) ==
    /\ Serving /\ req[r] = "recorded"
    /\ \/ /\ rec' = [rec EXCEPT ![r].status = "pending"]
          /\ req' = [req EXCEPT ![r] = "stored"]
          /\ UNCHANGED failures
       \/ /\ Failure
          /\ rec' \in {rec, [rec EXCEPT ![r].status = "pending"]}
          /\ req' = [req EXCEPT ![r] = "marking"]
    /\ UNCHANGED <<row, stream, queue, pc, msg, result, review>>

\* The LPUSH or the close of the client may raise, the job queued or not.
Push(r) ==
    /\ Serving /\ req[r] = "stored"
    /\ \/ /\ queue' = Cons(r, queue)
          /\ req' = [req EXCEPT ![r] = "accepted"]
          /\ UNCHANGED failures
       \/ /\ Failure
          /\ queue' \in {queue, Cons(r, queue)}
          /\ req' = [req EXCEPT ![r] = "marking"]
    /\ UNCHANGED <<stores, pc, msg, result, review>>

\* The row is marked failed; the record keeps its status.
MarkEnqueueFailed(r) ==
    /\ Serving /\ req[r] = "marking"
    /\ TryUpdateRow(r, "failed", "none")
    /\ req' = [req EXCEPT ![r] = "failed"]
    /\ UNCHANGED <<rec, stream, queue, pc, msg, result, review>>

\* A record lives 24 hours after its last write.
RecordExpires(r) ==
    /\ ~Absent(r)
    /\ rec' = [rec EXCEPT ![r] = [status |-> "absent", review |-> "none"]]
    /\ UNCHANGED <<row, stream, queue, req, pc, msg, result, review, failures>>

-----------------------------------------------------------------------------
(* Board decisions: update_data_definition_task_approval and               *)
(* import_data_definition_task_to_openmetadata ("sync").                   *)

Decisions == {"approved", "rejected", "pending", "sync"}

\* apply_board_approval_to_result.
ReviewAfter(v, d) == IF d \in {"approved", "rejected"} THEN d ELSE v

\* The record is read and an approved result imported into OpenMetadata; an
\* import that raises ends the request.
Decide(r, d) ==
    /\ Serving /\ IsTask(r) /\ ~Absent(r) /\ rec[r].review # "none"
    /\ d = "sync" => rec[r].review = "approved"
    /\ LET v == ReviewAfter(rec[r].review, d) IN
       \/ /\ review' = [of |-> r, phase |-> "save",
                        entry |-> [status |-> rec[r].status, review |-> v]]
          /\ UNCHANGED failures
       \/ v = "approved" /\ Failure /\ UNCHANGED review
    /\ UNCHANGED <<stores, queue, req, pc, msg, result>>

\* What was read is written back, whatever the record holds by now.
SaveRecord ==
    /\ review # NoReview /\ review.phase = "save"
    /\ LET saved == [rec EXCEPT ![review.of] = review.entry] IN
       \/ rec' = saved /\ review' = [review EXCEPT !.phase = "row"] /\ UNCHANGED failures
       \/ Failure /\ rec' \in {rec, saved} /\ review' = NoReview
    /\ UNCHANGED <<row, stream, queue, req, pc, msg, result>>

SaveRow ==
    /\ review # NoReview /\ review.phase = "row"
    /\ TryUpdateRow(review.of, review.entry.status, review.entry.review)
    /\ review' = NoReview
    /\ UNCHANGED <<rec, stream, queue, req, pc, msg, result>>

-----------------------------------------------------------------------------
(* The thread: NaturalLanguageDraftQueueWorker._run.                       *)

StartApi ==
    /\ pc = "down"
    /\ pc' = "polling"
    /\ UNCHANGED <<stores, queue, req, msg, result, review, failures>>

Release(l) == pc' = l /\ msg' = NoRequest

Pop ==
    /\ pc = "polling" /\ queue # <<>>
    /\ queue' = Front(queue)
    /\ msg' = Last(queue)
    /\ pc' = "popped"
    /\ UNCHANGED <<stores, req, result, review, failures>>

\* An error of BRPOP ends the thread; only a new process has another one.
PopRaises ==
    /\ pc = "polling" /\ Failure
    /\ \/ UNCHANGED queue
       \/ queue # <<>> /\ queue' = Front(queue)
    /\ pc' = "dead"
    /\ UNCHANGED <<stores, req, msg, result, review>>

\* The record is looked up; without one the row is marked failed.
Load ==
    /\ pc = "popped"
    /\ \/ ~Absent(msg) /\ pc' = "starting" /\ UNCHANGED <<row, msg, failures>>
       \/ Absent(msg) /\ TryUpdateRow(msg, "failed", "none") /\ Release("polling")
       \/ Failure /\ Release("dead") /\ UNCHANGED row
    /\ UNCHANGED <<rec, stream, queue, req, result, review>>

(* mark_request_started and mark_request_completed: a SET, then an XADD.    *)
Marks == {[at |-> "starting",   event |-> "startingEvent",   then |-> "begun",
           status |-> "started"],
          [at |-> "succeeding", event |-> "succeedingEvent", then |-> "recording",
           status |-> "completed"],
          [at |-> "marking",    event |-> "markingEvent",    then |-> "polling",
           status |-> "failed"]}

\* The exception handler follows an error, and the end of the thread an
\* error of the exception handler.
Raised(m) == IF m.at = "marking" THEN Release("dead") ELSE pc' = "failing" /\ UNCHANGED msg
Passed(m) == IF m.at = "marking" THEN Release("polling") ELSE pc' = m.then /\ UNCHANGED msg

\* Mutant of Marked: the success flag of the exception handler is lost.
MarkedAlwaysSuccess(m) ==
    [rec EXCEPT ![msg].status = IF m.status = "failed" THEN "completed" ELSE m.status]

Marked(m) ==
    [rec EXCEPT ![msg] = [status |-> m.status,
                          review |-> CASE m.status = "completed" -> result
                                       [] m.status = "failed"    -> "none"
                                       [] OTHER                  -> @.review]]

\* Mutant of StoreMark: no event follows the record of a failed job.
StoreMarkSilentFailure(m) ==
    /\ pc = m.at
    /\ \/ Absent(msg) /\ Passed(m) /\ UNCHANGED rec
       \/ ~Absent(msg) /\ m.at = "marking" /\ rec' = Marked(m) /\ Passed(m)
       \/ ~Absent(msg) /\ m.at # "marking" /\ rec' = Marked(m) /\ pc' = m.event /\ UNCHANGED msg
    /\ UNCHANGED <<row, stream, queue, req, result, review, failures>>

\* A record that expired is not written and no event follows.
StoreMark(m) ==
    /\ pc = m.at
    /\ \/ Absent(msg) /\ Passed(m) /\ UNCHANGED <<rec, failures>>
       \/ ~Absent(msg) /\ rec' = Marked(m) /\ pc' = m.event /\ UNCHANGED <<msg, failures>>
       \/ Failure /\ rec' \in {rec, IF Absent(msg) THEN rec ELSE Marked(m)} /\ Raised(m)
    /\ UNCHANGED <<row, stream, queue, req, result, review>>

PublishMark(m) ==
    /\ pc = m.event
    /\ LET published == [stream EXCEPT ![msg] = @ \cup {m.status}] IN
       \/ stream' = published /\ Passed(m) /\ UNCHANGED failures
       \/ Failure /\ stream' \in {stream, published} /\ Raised(m)
    /\ UNCHANGED <<row, rec, queue, req, result, review>>

RowStarted ==
    /\ pc = "begun"
    /\ TryUpdateRow(msg, "started", "none")
    /\ pc' = "working"
    /\ UNCHANGED <<rec, stream, queue, req, msg, result, review>>

\* The model's answer is fetched and used, or an error of it, of a check or
\* of an import goes to the handler.  A task with the board's approval in its
\* payload comes back approved.
Work ==
    /\ pc = "working"
    /\ \/ /\ pc' = "succeeding"
          /\ result' \in IF IsTask(msg) THEN {"open", "approved"} ELSE {"none"}
       \/ pc' = "failing" /\ UNCHANGED result
    /\ UNCHANGED <<stores, queue, req, msg, review, failures>>

\* Mutant of RowEnds: the row of a failed job is left as it is.
RowEndsOnSuccess ==
    /\ \/ pc = "recording" /\ TryUpdateRow(msg, "completed", result) /\ Release("polling")
       \/ pc = "failing" /\ UNCHANGED <<row, failures>> /\ pc' = "marking" /\ UNCHANGED msg
    /\ UNCHANGED <<rec, stream, queue, req, result, review>>

\* The row after the record of a completed job, and before that of a failed one.
RowEnds ==
    /\ \/ pc = "recording" /\ TryUpdateRow(msg, "completed", result) /\ Release("polling")
       \/ pc = "failing" /\ TryUpdateRow(msg, "failed", "none") /\ pc' = "marking" /\ UNCHANGED msg
    /\ UNCHANGED <<rec, stream, queue, req, result, review>>

ApiCrash ==
    LET inFlight == {r \in Requests : req[r] \in {"recorded", "stored", "marking"}}
    IN  /\ pc # "down"
        /\ Failure
        /\ Release("down")
        /\ review' = NoReview
        /\ req' = [r \in Requests |-> IF r \in inFlight THEN "lost" ELSE req[r]]
        /\ UNCHANGED <<stores, queue, result>>

-----------------------------------------------------------------------------
Init ==
    /\ row = [r \in Requests |-> [status |-> "absent", review |-> "none"]]
    /\ rec = row
    /\ stream = [r \in Requests |-> {}]
    /\ queue = <<>>
    /\ req = [r \in Requests |-> "new"]
    /\ pc = "down" /\ msg = NoRequest /\ result = "none"
    /\ review = NoReview
    /\ failures = 0

ApiStep(r) == StoreRequest(r) \/ Push(r) \/ MarkEnqueueFailed(r)

ThreadStep ==
    \/ Pop \/ Load \/ RowStarted \/ Work \/ RowEnds
    \/ \E m \in Marks : StoreMark(m) \/ PublishMark(m)

Next ==
    \/ \E r \in Requests :
          \/ Record(r) \/ ApiStep(r) \/ RecordExpires(r)
          \/ \E d \in Decisions : Decide(r, d)
    \/ SaveRecord \/ SaveRow
    \/ StartApi \/ PopRaises \/ ThreadStep \/ ApiCrash

Spec == Init /\ [][Next]_vars

(* The process keeps executing, and compose restarts it when it dies.      *)
FairSpec ==
    /\ Spec
    /\ WF_vars(StartApi \/ ThreadStep)
    /\ WF_vars(SaveRecord \/ SaveRow \/ \E r \in Requests : ApiStep(r))

-----------------------------------------------------------------------------
(* Properties.                                                             *)

\* The two stores are written one after the other and errors of the row are
\* passed over: once nobody works on a request, the status of its row and of
\* its record differ for one request per failed call or crash at most.
StoresDivergeByFailures ==
    LET settled == {r \in Requests :
            /\ msg # r /\ (review # NoReview => review.of # r)
            /\ req[r] \in {"accepted", "failed", "lost"}
            /\ ~Absent(r)}
    IN  Cardinality({r \in settled : row[r].status # rec[r].status}) <= failures

\* BRPOP removes the job before anything is known of it: an accepted request
\* that is neither queued nor handled and whose row is not final costs a
\* failure.
LostDraftCostsAFailure ==
    Cardinality({r \in Requests :
        /\ req[r] = "accepted" /\ row[r].status \notin Terminal
        /\ r \notin ToSet(queue) \cup {msg}}) <= failures

\* A subscriber of the event stream ends at a final event: a final record
\* without one costs a failure.
FinalRecordIsAnnounced ==
    Cardinality({r \in Requests :
        /\ rec[r].status \in Terminal /\ msg # r
        /\ (review # NoReview => review.of # r)
        /\ stream[r] \cap Terminal = {}}) <= failures

\* Every accepted request ends, also one whose record expires on the way,
\* unless the process dies or a call fails.
AcceptedDraftSettles ==
    \A r \in Requests :
        (req[r] = "accepted") ~> (row[r].status \in Terminal \/ failures > 0)
=============================================================================
