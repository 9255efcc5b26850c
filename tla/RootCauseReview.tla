---------------------------- MODULE RootCauseReview ----------------------------
(***************************************************************************)
(* A root cause suggestion over some incidents: it is accepted or          *)
(* rejected, again and again if someone likes, and once somebody may ask   *)
(* for assistance with it, which makes a support request and takes as long *)
(* as the ticket system and the mail server do.  As with incidents, a      *)
(* handler reads the whole row and the repository writes the columns that  *)
(* differ from the row it loads again.                                     *)
(***************************************************************************)
EXTENDS Naturals, Sequences

CONSTANT N          \* requests, numbered in the order in which they read the row

ASSUME ReviewAssumption == N \in Nat

VARIABLES
    row,        \* status, assistance and events of the suggestion
    kind,       \* what a request asks for
    pc,         \* where its handler is
    want,       \* the row it gives to the repository
    base,       \* the row the repository loaded
    support,    \* the requests that made a support request
    readAt, wroteAt, now   \* when a handler read and wrote: history variables

vars == <<row, kind, pc, want, base, support, readAt, wroteAt, now>>

Requests == 1..N
Kinds == {"none", "accepted", "rejected", "assistance_requested"}
Columns == {"status", "assistance", "events"}
NewRow == [status |-> "pending", assistance |-> 0, events |-> <<>>]

(***************************************************************************)
(* Handlers.                                                               *)
(***************************************************************************)
IsNext(q) == pc[q] = "idle" /\ \A p \in Requests : p < q => pc[p] # "idle"

Ask(q, k) ==
    /\ IsNext(q)
    /\ kind' = [kind EXCEPT ![q] = k]
    /\ readAt' = [readAt EXCEPT ![q] = now] /\ now' = now + 1
    /\ UNCHANGED <<row, base, support, wroteAt>>

(* Mutant of Decide: the event is forgotten when the suggestion was        *)
(* decided before.                                                         *)
DecideUnrecorded(q, k) ==
    /\ Ask(q, k)
    /\ pc' = [pc EXCEPT ![q] = "update"]
    /\ want' = [want EXCEPT ![q] =
           [row EXCEPT !.status = k,
                       !.events = IF row.status = "pending" THEN Append(@, q) ELSE @]]

(* accept_root_cause_suggestion and reject_root_cause_suggestion: asked    *)
(* for what it already is, the suggestion is left alone.                   *)
Decide(q, k) ==
    /\ Ask(q, k)
    /\ IF row.status = k
       THEN pc' = [pc EXCEPT ![q] = "refused"] /\ UNCHANGED want
       ELSE /\ pc' = [pc EXCEPT ![q] = "update"]
            /\ want' = [want EXCEPT ![q] =
                   [row EXCEPT !.status = k, !.events = Append(@, q)]]

(* Mutant of RequestAssistance: an earlier request is not looked for.      *)
RequestAssistanceAgain(q) ==
    /\ Ask(q, "assistance_requested")
    /\ pc' = [pc EXCEPT ![q] = "support"]
    /\ want' = [want EXCEPT ![q] =
           [row EXCEPT !.assistance = q, !.events = Append(@, q)]]

RequestAssistance(q) ==
    /\ Ask(q, "assistance_requested")
    /\ IF row.assistance # 0
       THEN pc' = [pc EXCEPT ![q] = "refused"] /\ UNCHANGED want
       ELSE /\ pc' = [pc EXCEPT ![q] = "support"]
            /\ want' = [want EXCEPT ![q] =
                   [row EXCEPT !.assistance = q, !.events = Append(@, q)]]

SupportAnswers(q) ==
    /\ pc[q] = "support"
    /\ support' = support \cup {q}
    /\ pc' = [pc EXCEPT ![q] = "update"]
    /\ UNCHANGED <<row, kind, want, base, readAt, wroteAt, now>>

(* The support request fails; its mail or ticket may be out all the same.  *)
SupportFails(q) ==
    /\ pc[q] = "support"
    /\ support' \in {support, support \cup {q}}
    /\ pc' = [pc EXCEPT ![q] = "failed"]
    /\ UNCHANGED <<row, kind, want, base, readAt, wroteAt, now>>

(***************************************************************************)
(* update_root_cause_suggestion.                                           *)
(***************************************************************************)
Load(q) ==
    /\ pc[q] = "update"
    /\ base' = [base EXCEPT ![q] = row]
    /\ pc' = [pc EXCEPT ![q] = "write"]
    /\ UNCHANGED <<row, kind, want, support, readAt, wroteAt, now>>

(* Mutant of Write: the status is not among the columns set.               *)
WriteNoStatus(q) ==
    /\ pc[q] = "write"
    /\ row' = [want[q] EXCEPT !.status = row.status]
    /\ pc' = [pc EXCEPT ![q] = "done"]
    /\ wroteAt' = [wroteAt EXCEPT ![q] = now] /\ now' = now + 1
    /\ UNCHANGED <<kind, want, base, support, readAt>>

Write(q) ==
    /\ pc[q] = "write"
    /\ row' = [f \in Columns |-> IF want[q][f] # base[q][f] THEN want[q][f] ELSE row[f]]
    /\ pc' = [pc EXCEPT ![q] = "done"]
    /\ wroteAt' = [wroteAt EXCEPT ![q] = now] /\ now' = now + 1
    /\ UNCHANGED <<kind, want, base, support, readAt>>

Init ==
    /\ row = NewRow
    /\ kind = [q \in Requests |-> "none"] /\ pc = [q \in Requests |-> "idle"]
    /\ want = [q \in Requests |-> NewRow] /\ base = [q \in Requests |-> NewRow]
    /\ support = {}
    /\ readAt = [q \in Requests |-> 0] /\ wroteAt = [q \in Requests |-> 0]
    /\ now = 1

Next ==
    \E q \in Requests :
        \/ \E k \in {"accepted", "rejected"} : Decide(q, k)
        \/ RequestAssistance(q)
        \/ SupportAnswers(q) \/ SupportFails(q)
        \/ Load(q) \/ Write(q)

Spec == Init /\ [][Next]_vars

(***************************************************************************)
(* Properties.                                                             *)
(***************************************************************************)
IsRow(r) ==
    /\ DOMAIN r = Columns
    /\ r.status \in {"pending", "accepted", "rejected"}
    /\ r.assistance \in Requests \cup {0}
    /\ r.events \in Seq(Requests)

TypeOK ==
    /\ IsRow(row) /\ \A q \in Requests : IsRow(want[q]) /\ IsRow(base[q])
    /\ kind \in [Requests -> Kinds]
    /\ pc \in [Requests -> {"idle", "support", "update", "write", "done", "refused", "failed"}]
    /\ support \subseteq Requests

(* Another request read the row before q wrote it, and wrote it after q.   *)
Overlaid(q) ==
    \E p \in Requests :
        pc[p] = "done" /\ readAt[p] < wroteAt[q] /\ wroteAt[q] < wroteAt[p]

Decided(q) == pc[q] = "done" /\ kind[q] \in {"accepted", "rejected"}

(* The last decision that was answered with success is the status          *)
(* (accept_root_cause_suggestion, reject_root_cause_suggestion), unless a  *)
(* request that read the row before wrote it afterwards: one that waits    *)
(* for support may be such.                                                *)
UndoneDecisionWasOverlaid ==
    \A q \in Requests :
        /\ Decided(q)
        /\ \A p \in Requests : Decided(p) => wroteAt[p] <= wroteAt[q]
        => row.status = kind[q] \/ \E r \in Requests : Overlaid(r)

(* The events tell of every decision and request for assistance that was   *)
(* answered with success and not overlaid by another one.                  *)
LostEventWasOverlaid ==
    \A q \in Requests :
        pc[q] = "done" => (\E n \in DOMAIN row.events : row.events[n] = q) \/ Overlaid(q)

(* Assistance is asked for once (the 409 of request_root_cause_assistance).*)
(* Asked for twice, both were under way at once, or the first was not      *)
(* recorded: it failed, or another request overlaid it.                    *)
SecondAssistanceWasUnseen ==
    \A p, q \in support :
        p < q => \/ pc[p] # "done" \/ readAt[q] < wroteAt[p] \/ Overlaid(p)
=============================================================================
