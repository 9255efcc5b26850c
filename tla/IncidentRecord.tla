----------------------------- MODULE IncidentRecord -----------------------------
(***************************************************************************)
(* The record of an incident.  Each handler reads the whole row, computes  *)
(* a new row from it and gives that to the repository, which loads the row *)
(* again and sets every column: SQLAlchemy then writes the columns whose   *)
(* value differs from the one just loaded.  The handlers run in a pool of  *)
(* threads, so that requests interleave at each of these points; the one   *)
(* that creates the incident also waits for the ticket system in between.  *)
(*                                                                         *)
(* A request stands for itself in the history, and for the comment it      *)
(* makes.  assigned_to and resolved_at are written like status.            *)
(***************************************************************************)
EXTENDS Naturals, Sequences, FiniteSets

CONSTANTS
    N,             \* requests, numbered in the order in which they read the row
    Users, Owner, Admins,
    Statuses,      \* the statuses asked for, "open" among them
    Kinds,         \* the kinds of requests that come in
    NoRow

Requests == 1..N
AllKinds == {"create", "patch", "comment", "lock", "unlock", "edit", "delete",
             "resolve", "reopen", "acknowledge", "vote"}

ASSUME IncidentAssumption ==
    /\ N \in Nat
    /\ Owner \in Users /\ Admins \subseteq Users
    /\ Kinds \subseteq AllKinds
    /\ "open" \in Statuses
    /\ Statuses \subseteq {"open", "in_progress", "resolved", "closed"}

VARIABLES
    row,        \* the row of the incident
    tickets,    \* tickets in the ticket system
    op,         \* what a request asks for
    pc,         \* where its handler is
    want,       \* the row it gives to the repository
    base,       \* the row the repository loaded
    readAt, wroteAt, now   \* when a handler read and wrote: history variables

vars == <<row, tickets, op, pc, want, base, readAt, wroteAt, now>>

States == {"new", "resolved", "reopened", "acknowledged_by_owner", "voted_up"}
Columns == {"status", "ticket", "comments", "history"}
NoOp == [kind |-> "none", user |-> Owner, to |-> "open", about |-> 0]

CommentRecords ==
    [author : Users, state : States, removed : BOOLEAN, votes : Nat,
     text : {"written", "edited", "[removed]"}]

(* The comments of an incident, by the request that made each.             *)
Threads == UNION {[D -> CommentRecords] : D \in SUBSET Requests}

Rows == [status : Statuses, ticket : Requests \cup {0},
         history : Seq(Requests), comments : Threads]

ASSUME NoRowAssumption == NoRow \notin Rows

(***************************************************************************)
(* What a handler sees in a row.                                           *)
(***************************************************************************)
Locks(q) == op[q].kind \in {"lock", "unlock"}

(* The last event about the lock tells.                                    *)
CommentsLocked(h) ==
    \E n \in DOMAIN h :
        /\ op[h[n]].kind = "lock"
        /\ \A k \in (n + 1)..Len(h) : ~Locks(h[k])

MayGovern(u) == u = Owner \/ u \in Admins

(***************************************************************************)
(* Handlers, up to the call of the repository.                             *)
(***************************************************************************)
(* Requests come in the order of their numbers.                            *)
IsNext(q) == pc[q] = "idle" /\ \A p \in Requests : p < q => pc[p] # "idle"

Ask(q, o) ==
    /\ IsNext(q) /\ o.kind \in Kinds
    /\ op' = [op EXCEPT ![q] = o]
    /\ readAt' = [readAt EXCEPT ![q] = now] /\ now' = now + 1

Submit(q, o, new) ==
    /\ Ask(q, o)
    /\ pc' = [pc EXCEPT ![q] = "update"] /\ want' = [want EXCEPT ![q] = new]
    /\ UNCHANGED <<row, tickets, base, wroteAt>>

(* Refused, or without effect: the answer goes out at once.                *)
Refuse(q, o) ==
    /\ Ask(q, o)
    /\ pc' = [pc EXCEPT ![q] = "refused"]
    /\ UNCHANGED <<row, tickets, want, base, wroteAt>>

(* The row is committed before the ticket system is called.                *)
Create(q, withTicket) ==
    LET new == [status |-> "open", ticket |-> 0, comments |-> <<>>, history |-> <<q>>]
    IN  /\ row = NoRow
        /\ Ask(q, [NoOp EXCEPT !.kind = "create"])
        /\ row' = new
        /\ want' = [want EXCEPT ![q] = new]
        /\ pc' = [pc EXCEPT ![q] = IF withTicket THEN "ticket" ELSE "done"]
        /\ wroteAt' = [wroteAt EXCEPT ![q] = now]
        /\ UNCHANGED <<tickets, base>>

TicketAnswers(q) ==
    /\ pc[q] = "ticket"
    /\ tickets' = tickets \cup {q}
    /\ want' = [want EXCEPT ![q].ticket = q]
    /\ pc' = [pc EXCEPT ![q] = "update"]
    /\ UNCHANGED <<row, op, base, readAt, wroteAt, now>>

(* The request fails although the incident exists, and perhaps a ticket.   *)
TicketFails(q) ==
    /\ pc[q] = "ticket"
    /\ tickets' \in {tickets, tickets \cup {q}}
    /\ pc' = [pc EXCEPT ![q] = "failed"]
    /\ UNCHANGED <<row, op, want, base, readAt, wroteAt, now>>

Comment(u) ==
    [author |-> u, state |-> "new", removed |-> FALSE, votes |-> 0, text |-> "written"]

AddComment(c, q, u) ==
    [r \in DOMAIN c \cup {q} |-> IF r = q THEN Comment(u) ELSE c[r]]

(* Mutant of Patch: only a comment makes an event.                         *)
PatchUnrecorded(q, u, to, commenting) ==
    LET o == [NoOp EXCEPT !.kind = "patch", !.user = u, !.to = to]
    IN  /\ row # NoRow /\ ~commenting
        /\ Submit(q, o, [row EXCEPT !.status = to])

(* A change of status, with or without a comment.  The ticket's id and     *)
(* number, which a patch sets without an event, are left out.              *)
Patch(q, u, to, commenting) ==
    LET o == [NoOp EXCEPT !.kind = "patch", !.user = u, !.to = to,
                          !.about = IF commenting THEN q ELSE 0]
        changed == commenting \/ to # row.status
        new == [row EXCEPT
                  !.status = to,
                  !.comments = IF commenting THEN AddComment(@, q, u) ELSE @,
                  !.history = IF changed THEN Append(@, q) ELSE @]
    IN  /\ row # NoRow
        /\ IF commenting /\ CommentsLocked(row.history)
           THEN Refuse(q, o) ELSE Submit(q, o, new)

(* Mutant of CreateComment: the lock is not looked at.                     *)
CreateCommentUnlocked(q, u) ==
    /\ row # NoRow
    /\ Submit(q, [NoOp EXCEPT !.kind = "comment", !.user = u, !.about = q],
              [row EXCEPT !.comments = AddComment(@, q, u), !.history = Append(@, q)])

CreateComment(q, u) ==
    LET o == [NoOp EXCEPT !.kind = "comment", !.user = u, !.about = q]
    IN  /\ row # NoRow
        /\ IF CommentsLocked(row.history) THEN Refuse(q, o)
           ELSE Submit(q, o, [row EXCEPT !.comments = AddComment(@, q, u),
                                         !.history = Append(@, q)])

SetCommentsLock(q, u, kind) ==
    LET o == [NoOp EXCEPT !.kind = kind, !.user = u]
    IN  /\ row # NoRow /\ kind \in {"lock", "unlock"}
        /\ IF ~MayGovern(u) \/ (kind = "lock") = CommentsLocked(row.history)
           THEN Refuse(q, o)
           ELSE Submit(q, o, [row EXCEPT !.history = Append(@, q)])

(* The comment as a request leaves it, and who may ask for that.           *)
After(kind, c) ==
    CASE kind = "edit" -> [c EXCEPT !.text = "edited"]
      [] kind = "delete" -> [c EXCEPT !.removed = TRUE, !.text = "[removed]"]
      [] kind = "resolve" -> [c EXCEPT !.state = "resolved"]
      [] kind = "reopen" -> [c EXCEPT !.state = "reopened"]
      [] kind = "acknowledge" -> [c EXCEPT !.state = "acknowledged_by_owner"]
      [] kind = "vote" -> [c EXCEPT !.state = "voted_up", !.votes = @ + 1]

Allowed(kind, c, u) ==
    CASE kind = "edit" -> u = c.author /\ ~c.removed
      [] kind = "delete" -> u = c.author \/ u \in Admins
      [] kind \in {"resolve", "reopen"} -> u = c.author
      [] kind = "acknowledge" -> MayGovern(u)
      [] kind = "vote" -> TRUE

ChangeComment(q, u, kind, c) ==
    LET o == [NoOp EXCEPT !.kind = kind, !.user = u, !.about = c]
    IN  /\ row # NoRow
        /\ kind \in {"edit", "delete", "resolve", "reopen", "acknowledge", "vote"}
        /\ c \in DOMAIN row.comments
        /\ IF Allowed(kind, row.comments[c], u)
           THEN Submit(q, o, [row EXCEPT !.comments[c] = After(kind, @),
                                         !.history = Append(@, q)])
           ELSE Refuse(q, o)

(***************************************************************************)
(* update_incident.                                                        *)
(***************************************************************************)
Load(q) ==
    /\ pc[q] = "update"
    /\ base' = [base EXCEPT ![q] = row]
    /\ pc' = [pc EXCEPT ![q] = "write"]
    /\ UNCHANGED <<row, tickets, op, want, readAt, wroteAt, now>>

(* Mutant of Write: the history is not among the columns set.              *)
WriteNoHistory(q) ==
    /\ pc[q] = "write"
    /\ row' = [want[q] EXCEPT !.history = row.history]
    /\ pc' = [pc EXCEPT ![q] = "done"]
    /\ wroteAt' = [wroteAt EXCEPT ![q] = now] /\ now' = now + 1
    /\ UNCHANGED <<tickets, op, want, base, readAt>>

(* Only the columns that differ from the loaded ones are written.          *)
Write(q) ==
    /\ pc[q] = "write"
    /\ row' = [f \in Columns |-> IF want[q][f] # base[q][f] THEN want[q][f] ELSE row[f]]
    /\ pc' = [pc EXCEPT ![q] = "done"]
    /\ wroteAt' = [wroteAt EXCEPT ![q] = now] /\ now' = now + 1
    /\ UNCHANGED <<tickets, op, want, base, readAt>>

Init ==
    /\ row = NoRow /\ tickets = {}
    /\ op = [q \in Requests |-> NoOp] /\ pc = [q \in Requests |-> "idle"]
    /\ want = [q \in Requests |-> NoRow] /\ base = [q \in Requests |-> NoRow]
    /\ readAt = [q \in Requests |-> 0] /\ wroteAt = [q \in Requests |-> 0]
    /\ now = 1

Next ==
    \E q \in Requests :
        \/ \E t \in BOOLEAN : Create(q, t)
        \/ TicketAnswers(q) \/ TicketFails(q)
        \/ Load(q) \/ Write(q)
        \/ \E u \in Users :
              \/ \E to \in Statuses, b \in BOOLEAN : Patch(q, u, to, b)
              \/ CreateComment(q, u)
              \/ \E k \in Kinds : SetCommentsLock(q, u, k)
              \/ \E k \in Kinds, c \in Requests : ChangeComment(q, u, k, c)

Spec == Init /\ [][Next]_vars

(***************************************************************************)
(* Properties.                                                             *)
(***************************************************************************)
Events(h) == {h[n] : n \in DOMAIN h}

(* Another request read the row before q wrote it, and wrote it after q.   *)
Overlaid(q) ==
    \E p \in Requests :
        pc[p] = "done" /\ readAt[p] < wroteAt[q] /\ wroteAt[q] < wroteAt[p]

(* An event is lost only when another request wrote a row it had read      *)
(* before: requests that only follow each other, or overlap otherwise,     *)
(* keep theirs.                                                            *)
LostEventWasOverlaid ==
    \A q \in Requests :
        pc[q] = "done" /\ q \in Events(want[q].history)
            => q \in Events(row.history) \/ Overlaid(q)

(* The status is that of the last event about it, the comments are those   *)
(* the history tells of, and a comment is removed when the history says    *)
(* so, whatever else is done to it later (patch_incident,                  *)
(* create_incident_comment, delete_incident_comment).  Only a request      *)
(* overlaid by another breaks that.                                        *)
HistoryExplainsRow ==
    /\ \E n \in DOMAIN row.history :
          /\ op[row.history[n]].kind \in {"create", "patch"}
          /\ op[row.history[n]].to = row.status
          /\ \A k \in (n + 1)..Len(row.history) : op[row.history[k]].kind # "patch"
    /\ DOMAIN row.comments = {q \in Events(row.history) : op[q].about = q}
    /\ \A c \in DOMAIN row.comments :
          row.comments[c].removed =
              \E q \in Events(row.history) : op[q].kind = "delete" /\ op[q].about = c
RowIsExplained ==
    row # NoRow /\ (\A q \in Requests : ~Overlaid(q)) => HistoryExplainsRow

(* No comment comes after a lock and before the next unlock                *)
(* (_incident_comments_locked, looked at by each handler on its own).      *)
LockIsKept ==
    row # NoRow => \A n \in DOMAIN row.history :
        op[row.history[n]].about = row.history[n]
            => ~CommentsLocked(SubSeq(row.history, 1, n - 1))
=============================================================================
