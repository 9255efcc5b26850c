-------------------------- MODULE IncidentRecordProofs --------------------------
(***************************************************************************)
(* For every number of requests and users: what the record of an incident  *)
(* loses, it loses to a request that read the row before and wrote it      *)
(* afterwards; without such a request the history explains the row; and no *)
(* interleaving puts a comment after a lock.                               *)
(*                                                                         *)
(* The argument follows the requests that are under way.  The row in the   *)
(* hands of one holds the events of all that wrote before it read, but for *)
(* those overlaid already; who wrote since then it will overlay itself. If *)
(* nobody wrote since then, it holds the row as it is, with its own change *)
(* on top.  Every history anybody holds grew event by event under the      *)
(* check of the lock, and a write puts one of them in place as a whole.    *)
(***************************************************************************)
EXTENDS IncidentRecord, TLAPS

Open(p) == pc[p] \in {"ticket", "update", "write"}
Maker(p) == op[p].kind = "create"

\* Somebody wrote after p read.
Late(p) == \E q \in Requests : pc[q] = "done" /\ readAt[p] < wroteAt[q]

Ops == [kind : AllKinds \cup {"none"}, user : Users, to : Statuses, about : Requests \cup {0}]

TypeOK ==
    /\ row \in Rows \cup {NoRow}
    /\ op \in [Requests -> Ops]
    /\ pc \in [Requests -> {"idle", "refused", "failed", "ticket", "update", "write", "done"}]
    /\ want \in [Requests -> Rows \cup {NoRow}]
    /\ base \in [Requests -> Rows \cup {NoRow}]
    /\ readAt \in [Requests -> Nat] /\ wroteAt \in [Requests -> Nat] /\ now \in Nat

\* The incident exists before anything else is asked for, and its maker, who
\* writes twice, wrote first before anybody read.
Clocked ==
    /\ row = NoRow => \A q \in Requests : pc[q] = "idle"
    /\ \A q \in Requests : Open(q) \/ pc[q] = "done" => want[q] \in Rows
    /\ \A q \in Requests : pc[q] = "write" => base[q] \in Rows
    /\ \A q \in Requests : readAt[q] < now /\ wroteAt[q] < now
    /\ \A q \in Requests : pc[q] # "done" /\ wroteAt[q] # 0 =>
          \A p \in Requests : pc[p] # "idle" => wroteAt[q] =< readAt[p]

\* What a row is about: requests that came in.
Known(w) == \A c \in DOMAIN w.comments : pc[c] # "idle"

RequestsKnown ==
    /\ \A q \in Requests : pc[q] = "idle" => op[q].kind = "none"
    /\ \A q \in Requests : op[q].about = 0 \/ pc[op[q].about] # "idle"
    /\ row # NoRow => Known(row)
    /\ \A p \in Requests : Open(p) => Known(want[p])

EventsKnown ==
    /\ row # NoRow => \A r \in Events(row.history) : pc[r] = "done" \/ Maker(r)
    /\ \A p \in Requests : Open(p) =>
          \A r \in Events(want[p].history) : r = p \/ pc[r] = "done" \/ Maker(r)
    /\ \A p \in Requests : pc[p] = "write" /\ ~Maker(p) => p \notin Events(base[p].history)

\* The event of the creation is never lost.
MakerKept ==
    \A q \in Requests : Maker(q) =>
        /\ row # NoRow /\ q \in Events(row.history)
        /\ \A p \in Requests : Open(p) => q \in Events(want[p].history)

EventsKept ==
    \A p, q \in Requests :
        Open(p) /\ pc[q] = "done" /\ q \in Events(want[q].history) =>
            q \in Events(want[p].history) \/ Overlaid(q) \/ readAt[p] < wroteAt[q]

\* The lock and the explanation of a row, by the operations o of requests.
LockedBy(o, h) ==
    \E n \in DOMAIN h :
        /\ o[h[n]].kind = "lock"
        /\ \A k \in (n + 1)..Len(h) : o[h[k]].kind \notin {"lock", "unlock"}

LockFine(o, h) ==
    \A n \in DOMAIN h : o[h[n]].about = h[n] => ~LockedBy(o, SubSeq(h, 1, n - 1))

LockHeld ==
    /\ row # NoRow => LockFine(op, row.history)
    /\ \A p \in Requests : Open(p) => LockFine(op, want[p].history)

Told(o, h, st) ==
    \E n \in DOMAIN h :
        /\ o[h[n]].kind \in {"create", "patch"} /\ o[h[n]].to = st
        /\ \A k \in (n + 1)..Len(h) : o[h[k]].kind # "patch"

CommentsTold(o, h, comments) ==
    /\ DOMAIN comments = {q \in Events(h) : o[q].about = q}
    /\ \A c \in DOMAIN comments :
          comments[c].removed = \E q \in Events(h) : o[q].kind = "delete" /\ o[q].about = c

Explains(o, w) == Told(o, w.history, w.status) /\ CommentsTold(o, w.history, w.comments)

ExplainedHeld ==
    (\A q \in Requests : ~Overlaid(q)) =>
        /\ row # NoRow => Explains(op, row)
        /\ \A p \in Requests : Open(p) /\ ~Late(p) =>
              /\ Explains(op, want[p])
              /\ pc[p] = "write" => base[p] = row

IInv ==
    /\ TypeOK /\ Clocked /\ RequestsKnown
    /\ EventsKnown /\ MakerKept /\ EventsKept /\ LostEventWasOverlaid
    /\ LockHeld /\ ExplainedHeld

-----------------------------------------------------------------------------
\* Histories that grow.
LEMMA AppendFacts ==
    ASSUME NEW h \in Seq(Requests), NEW q \in Requests
    PROVE  /\ Append(h, q) \in Seq(Requests)
           /\ Len(Append(h, q)) = Len(h) + 1 /\ Len(h) \in Nat
           /\ DOMAIN h = 1..Len(h) /\ DOMAIN Append(h, q) = 1..(Len(h) + 1)
           /\ \A n \in 1..Len(h) : Append(h, q)[n] = h[n] /\ h[n] \in Requests
           /\ Append(h, q)[Len(h) + 1] = q
           /\ Events(Append(h, q)) = Events(h) \cup {q}
<1>1. /\ Append(h, q) \in Seq(Requests)
      /\ Len(Append(h, q)) = Len(h) + 1 /\ Len(h) \in Nat
      /\ DOMAIN h = 1..Len(h) /\ DOMAIN Append(h, q) = 1..(Len(h) + 1)
      /\ \A n \in 1..Len(h) : Append(h, q)[n] = h[n] /\ h[n] \in Requests
      /\ Append(h, q)[Len(h) + 1] = q
  OBVIOUS
<1>2. Events(Append(h, q)) = Events(h) \cup {q}
  BY <1>1 DEF Events
<1>3. QED  BY <1>1, <1>2

LEMMA EventsType ==
    ASSUME NEW h \in Seq(Requests)
    PROVE  Events(h) \subseteq Requests /\ \A n \in DOMAIN h : h[n] \in Events(h)
  BY DEF Events

LEMMA LockAppend ==
    ASSUME NEW h \in Seq(Requests), NEW q \in Requests, NEW o, LockFine(o, h),
           o[q].about = q => ~LockedBy(o, h)
    PROVE  LockFine(o, Append(h, q))
<1> SUFFICES ASSUME NEW n \in DOMAIN Append(h, q), o[Append(h, q)[n]].about = Append(h, q)[n]
             PROVE  ~LockedBy(o, SubSeq(Append(h, q), 1, n - 1))
  BY DEF LockFine
<1>1. CASE n \in 1..Len(h)
  <2>1. SubSeq(Append(h, q), 1, n - 1) = SubSeq(h, 1, n - 1)
    BY <1>1
  <2>2. Append(h, q)[n] = h[n] /\ n \in DOMAIN h
    BY <1>1, AppendFacts
  <2>3. QED  BY <2>1, <2>2 DEF LockFine
<1>2. CASE n = Len(h) + 1
  <2>1. SubSeq(Append(h, q), 1, n - 1) = h
    BY <1>2
  <2>2. QED  BY <1>2, <2>1, AppendFacts
<1>3. QED  BY <1>1, <1>2, AppendFacts

\* What a history tells depends on the requests in it only.
LEMMA SameLock ==
    ASSUME NEW h \in Seq(Requests), NEW o, NEW o2, \A x \in Events(h) : o2[x] = o[x]
    PROVE  LockedBy(o2, h) <=> LockedBy(o, h)
<1>1. \A n \in 1..Len(h) : o2[h[n]] = o[h[n]]
  BY EventsType
<1>2. DOMAIN h = 1..Len(h) /\ Len(h) \in Nat
  OBVIOUS
<1>3. \A n \in DOMAIN h : \A k \in (n + 1)..Len(h) : o2[h[k]] = o[h[k]]
  BY <1>1, <1>2
<1>4. QED  BY <1>1, <1>2, <1>3 DEF LockedBy

LEMMA SameLockFine ==
    ASSUME NEW h \in Seq(Requests), NEW o, NEW o2, \A x \in Events(h) : o2[x] = o[x],
           LockFine(o, h)
    PROVE  LockFine(o2, h)
<1> SUFFICES ASSUME NEW n \in DOMAIN h, o2[h[n]].about = h[n]
             PROVE  ~LockedBy(o2, SubSeq(h, 1, n - 1))
  BY DEF LockFine
<1>1. o[h[n]].about = h[n]
  BY EventsType
<1>2. ~LockedBy(o, SubSeq(h, 1, n - 1))
  BY <1>1 DEF LockFine
<1>3. SubSeq(h, 1, n - 1) \in Seq(Requests) /\ Events(SubSeq(h, 1, n - 1)) \subseteq Events(h)
  BY DEF Events
<1>4. QED  BY <1>2, <1>3, SameLock

LEMMA SameExplains ==
    ASSUME NEW w \in Rows, NEW o, NEW o2, \A x \in Events(w.history) : o2[x] = o[x],
           Explains(o, w)
    PROVE  Explains(o2, w)
<1> DEFINE h == w.history
<1>1. h \in Seq(Requests)
  BY DEF Rows
<1>2. \A n \in 1..Len(h) : o2[h[n]] = o[h[n]]
  BY <1>1, EventsType
<1>3. DOMAIN h = 1..Len(h) /\ Len(h) \in Nat
  BY <1>1
<1> HIDE DEF h
<1>4. \A n \in DOMAIN h : \A k \in (n + 1)..Len(h) : o2[h[k]] = o[h[k]]
  BY <1>2, <1>3
<1>5. Told(o2, h, w.status)
  <2>1. PICK n \in DOMAIN h :
            /\ o[h[n]].kind \in {"create", "patch"} /\ o[h[n]].to = w.status
            /\ \A k \in (n + 1)..Len(h) : o[h[k]].kind # "patch"
    BY DEF Explains, Told, h
  <2>2. QED  BY <1>2, <1>3, <1>4, <2>1 DEF Told
<1>6. CommentsTold(o2, h, w.comments)
  <2>1. CommentsTold(o, h, w.comments)
    BY DEF Explains, h
  <2>2. {q \in Events(h) : o2[q].about = q} = {q \in Events(h) : o[q].about = q}
    BY DEF h
  <2>3. \A c : (\E q \in Events(h) : o2[q].kind = "delete" /\ o2[q].about = c)
            <=> (\E q \in Events(h) : o[q].kind = "delete" /\ o[q].about = c)
    BY DEF h
  <2>4. QED  BY <2>1, <2>2, <2>3 DEF CommentsTold
<1>7. QED  BY <1>5, <1>6 DEF Explains, h

\* Events that are appended, and what they tell.
LEMMA ToldBefore ==
    ASSUME NEW h \in Seq(Requests), NEW q \in Requests, NEW o, NEW st,
           Told(o, h, st), o[q].kind # "patch"
    PROVE  Told(o, Append(h, q), st)
<1>1. PICK n \in DOMAIN h :
          /\ o[h[n]].kind \in {"create", "patch"} /\ o[h[n]].to = st
          /\ \A k \in (n + 1)..Len(h) : o[h[k]].kind # "patch"
  BY DEF Told
<1>2. n \in 1..Len(h) /\ n \in DOMAIN Append(h, q) /\ Append(h, q)[n] = h[n]
  BY AppendFacts
<1>3. \A k \in (n + 1)..(Len(h) + 1) : o[Append(h, q)[k]].kind # "patch"
  <2>1. ASSUME NEW k \in (n + 1)..(Len(h) + 1) PROVE o[Append(h, q)[k]].kind # "patch"
    <3>1. CASE k = Len(h) + 1
      BY <3>1, AppendFacts
    <3>2. CASE k # Len(h) + 1
      <4>1. k \in (n + 1)..Len(h) /\ k \in 1..Len(h)
        BY <1>2, <3>2, AppendFacts
      <4>2. QED  BY <1>1, <4>1, AppendFacts
    <3>3. QED  BY <3>1, <3>2
  <2>2. QED  BY <2>1
<1>4. QED  BY <1>1, <1>2, <1>3, AppendFacts DEF Told

LEMMA ToldNow ==
    ASSUME NEW h \in Seq(Requests), NEW q \in Requests, NEW o,
           o[q].kind \in {"create", "patch"}
    PROVE  Told(o, Append(h, q), o[q].to)
<1>1. Len(h) + 1 \in DOMAIN Append(h, q) /\ Append(h, q)[Len(h) + 1] = q
  BY AppendFacts
<1>2. (Len(h) + 1 + 1)..(Len(h) + 1) = {}
  BY AppendFacts
<1>3. QED  BY <1>1, <1>2, AppendFacts DEF Told

LEMMA CommentsToldBefore ==
    ASSUME NEW h \in Seq(Requests), NEW q \in Requests, NEW o, NEW comments,
           CommentsTold(o, h, comments), o[q].about # q, o[q].kind # "delete"
    PROVE  CommentsTold(o, Append(h, q), comments)
<1>1. Events(Append(h, q)) = Events(h) \cup {q}
  BY AppendFacts
<1>2. {y \in Events(Append(h, q)) : o[y].about = y} = {y \in Events(h) : o[y].about = y}
  BY <1>1
<1>3. \A c : (\E y \in Events(Append(h, q)) : o[y].kind = "delete" /\ o[y].about = c)
          <=> (\E y \in Events(h) : o[y].kind = "delete" /\ o[y].about = c)
  BY <1>1
<1>4. QED  BY <1>2, <1>3 DEF CommentsTold

LEMMA CommentsToldAdd ==
    ASSUME NEW h \in Seq(Requests), NEW q \in Requests, NEW o, NEW comments \in Threads,
           CommentsTold(o, h, comments), o[q].about = q, o[q].kind # "delete",
           q \notin Events(h), \A x \in Events(h) : o[x].about # q, NEW u \in Users
    PROVE  CommentsTold(o, Append(h, q), AddComment(comments, q, u))
<1> DEFINE c2 == AddComment(comments, q, u)
<1>1. /\ DOMAIN c2 = DOMAIN comments \cup {q} /\ c2[q] = Comment(u)
      /\ \A c \in DOMAIN comments : c # q => c2[c] = comments[c]
  BY DEF AddComment
<1>2. c2[q].removed = FALSE
  BY <1>1 DEF Comment
<1> HIDE DEF c2
<1>3. Events(Append(h, q)) = Events(h) \cup {q}
  BY AppendFacts
<1>4. DOMAIN c2 = {x \in Events(Append(h, q)) : o[x].about = x}
  BY <1>1, <1>3 DEF CommentsTold
<1>5. ASSUME NEW c \in DOMAIN c2
      PROVE  c2[c].removed = \E x \in Events(Append(h, q)) : o[x].kind = "delete" /\ o[x].about = c
  <2>1. (\E x \in Events(Append(h, q)) : o[x].kind = "delete" /\ o[x].about = c)
        <=> (\E x \in Events(h) : o[x].kind = "delete" /\ o[x].about = c)
    BY <1>3
  <2>2. CASE c = q
    BY <1>2, <2>1, <2>2
  <2>3. CASE c # q
    BY <1>1, <1>5, <2>1, <2>3 DEF CommentsTold
  <2>4. QED  BY <2>2, <2>3
<1>6. QED  BY <1>4, <1>5 DEF CommentsTold, c2

LEMMA CommentsToldChange ==
    ASSUME NEW h \in Seq(Requests), NEW q \in Requests, NEW o, NEW comments \in Threads,
           NEW c \in DOMAIN comments, CommentsTold(o, h, comments), o[q].about = c, c # q,
           o[q].kind \in {"edit", "delete", "resolve", "reopen", "acknowledge", "vote"},
           NEW x, x.removed = (comments[c].removed \/ o[q].kind = "delete")
    PROVE  CommentsTold(o, Append(h, q), [comments EXCEPT ![c] = x])
<1> DEFINE c2 == [comments EXCEPT ![c] = x]
<1>1. /\ DOMAIN c2 = DOMAIN comments /\ c2[c] = x
      /\ \A d \in DOMAIN comments : d # c => c2[d] = comments[d]
  OBVIOUS
<1> HIDE DEF c2
<1>2. Events(Append(h, q)) = Events(h) \cup {q}
  BY AppendFacts
<1>3. DOMAIN c2 = {y \in Events(Append(h, q)) : o[y].about = y}
  BY <1>1, <1>2 DEF CommentsTold
<1>4. ASSUME NEW d \in DOMAIN c2
      PROVE  c2[d].removed = \E y \in Events(Append(h, q)) : o[y].kind = "delete" /\ o[y].about = d
  <2>1. comments[d].removed = \E y \in Events(h) : o[y].kind = "delete" /\ o[y].about = d
    BY <1>1, <1>4 DEF CommentsTold
  <2>2. CASE d = c
    <3>1. c2[d].removed = (comments[d].removed \/ o[q].kind = "delete")
      BY <1>1, <2>2
    <3>2. (\E y \in Events(Append(h, q)) : o[y].kind = "delete" /\ o[y].about = d)
          <=> (\E y \in Events(h) : o[y].kind = "delete" /\ o[y].about = d) \/ o[q].kind = "delete"
      BY <1>2, <2>2
    <3>3. QED  BY <2>1, <3>1, <3>2
  <2>3. CASE d # c
    <3>1. (\E y \in Events(Append(h, q)) : o[y].kind = "delete" /\ o[y].about = d)
          <=> (\E y \in Events(h) : o[y].kind = "delete" /\ o[y].about = d)
      BY <1>2, <2>3
    <3>2. c2[d] = comments[d]
      BY <1>1, <1>4, <2>3
    <3>3. QED  BY <2>1, <3>1, <3>2
  <2>4. QED  BY <2>2, <2>3
<1>5. QED  BY <1>3, <1>4 DEF CommentsTold, c2

-----------------------------------------------------------------------------
\* Only a request that is done is overlaid: what its maker wrote first,
\* nobody had read before.
LEMMA OverlaidIsDone ==
    ASSUME TypeOK, Clocked, NEW q \in Requests, Overlaid(q)
    PROVE  pc[q] = "done"
<1>1. PICK p \in Requests : pc[p] = "done" /\ readAt[p] < wroteAt[q]
  BY DEF Overlaid
<1>2. readAt[p] \in Nat /\ wroteAt[q] \in Nat /\ pc[p] # "idle"
  BY <1>1 DEF TypeOK
<1>3. ASSUME pc[q] # "done" PROVE FALSE
  <2>1. wroteAt[q] # 0
    BY <1>1, <1>2
  <2>2. wroteAt[q] =< readAt[p]
    BY <1>2, <1>3, <2>1 DEF Clocked
  <2>3. QED  BY <1>1, <1>2, <2>2
<1>4. QED  BY <1>3

LEMMA RowParts ==
    ASSUME NEW w \in Rows
    PROVE  /\ w.history \in Seq(Requests) /\ w.comments \in Threads
           /\ w.status \in Statuses /\ w.ticket \in Requests \cup {0}
           /\ Events(w.history) \subseteq Requests /\ DOMAIN w.comments \subseteq Requests
<1>1. w.history \in Seq(Requests) /\ w.comments \in Threads
      /\ w.status \in Statuses /\ w.ticket \in Requests \cup {0}
  BY DEF Rows
<1>2. DOMAIN w.comments \subseteq Requests
  BY <1>1 DEF Threads
<1>3. QED  BY <1>1, <1>2, EventsType

\* A request that comes in was not known before.
LEMMA AskFacts ==
    ASSUME IInv, NEW q \in Requests, NEW o \in Ops, Ask(q, o),
           NEW s \in {"refused", "update"}, pc' = [pc EXCEPT ![q] = s], row' = row, row # NoRow,
           wroteAt' = wroteAt
    PROVE  /\ pc[q] = "idle" /\ pc'[q] = s /\ op'[q] = o /\ readAt'[q] = now /\ now' = now + 1
           /\ \A p \in Requests : p # q => pc'[p] = pc[p] /\ op'[p] = op[p] /\ readAt'[p] = readAt[p]
           /\ op' \in [Requests -> Ops] /\ readAt' \in [Requests -> Nat] /\ now' \in Nat
           /\ pc' \in [Requests -> {"idle", "refused", "failed", "ticket", "update", "write", "done"}]
           /\ row \in Rows /\ q \notin Events(row.history) /\ q \notin DOMAIN row.comments
           /\ \A p \in Requests : Open(p) => want[p] \in Rows /\ q \notin Events(want[p].history)
           /\ \A p \in Requests : op[p].about # q
           /\ \A r \in Requests : pc'[r] = "done" <=> pc[r] = "done"
           /\ \A r \in Requests : Overlaid(r)' <=> Overlaid(r)
           /\ \A p \in Requests : p # q => (Late(p)' <=> Late(p))
<1>1. /\ pc[q] = "idle" /\ op' = [op EXCEPT ![q] = o]
      /\ readAt' = [readAt EXCEPT ![q] = now] /\ now' = now + 1
  BY DEF Ask, IsNext
<1>2. /\ pc'[q] = s /\ op'[q] = o /\ readAt'[q] = now
      /\ \A p \in Requests : p # q => pc'[p] = pc[p] /\ op'[p] = op[p] /\ readAt'[p] = readAt[p]
      /\ op' \in [Requests -> Ops] /\ readAt' \in [Requests -> Nat] /\ now' \in Nat
      /\ pc' \in [Requests -> {"idle", "refused", "failed", "ticket", "update", "write", "done"}]
  BY <1>1 DEF IInv, TypeOK
<1>3. ~Maker(q) /\ ~Open(q)
  BY <1>1 DEF IInv, RequestsKnown, Maker, Open
<1>4. row \in Rows /\ \A p \in Requests : Open(p) => want[p] \in Rows
  BY DEF IInv, TypeOK, Clocked
<1>5. q \notin Events(row.history) /\ q \notin DOMAIN row.comments
  BY <1>1, <1>3 DEF IInv, EventsKnown, RequestsKnown, Known
<1>6. \A p \in Requests : Open(p) => q \notin Events(want[p].history)
  BY <1>1, <1>3 DEF IInv, EventsKnown
<1>7. \A p \in Requests : op[p].about # q
  <2>1. q # 0
    BY DEF Requests
  <2>2. QED  BY <1>1, <2>1 DEF IInv, RequestsKnown
<1>8. \A r \in Requests : pc'[r] = "done" <=> pc[r] = "done"
  BY <1>1, <1>2
<1>9. \A p \in Requests : pc[p] = "done" => readAt'[p] = readAt[p]
  BY <1>1, <1>2
<1>10. \A r \in Requests : Overlaid(r)' <=> Overlaid(r)
  BY <1>8, <1>9 DEF Overlaid
<1>11. \A p \in Requests : p # q => (Late(p)' <=> Late(p))
  BY <1>2, <1>8 DEF Late
<1>12. QED  BY <1>1, <1>2, <1>4, <1>5, <1>6, <1>7, <1>8, <1>10, <1>11

LEMMA AskClock ==
    ASSUME IInv, NEW q \in Requests, NEW o, Ask(q, o),
           NEW s \in {"refused", "update"}, pc' = [pc EXCEPT ![q] = s], wroteAt' = wroteAt
    PROVE  /\ \A p \in Requests : readAt'[p] < now' /\ wroteAt'[p] < now'
           /\ \A r, p \in Requests : pc'[r] # "done" /\ wroteAt'[r] # 0 /\ pc'[p] # "idle" =>
                 wroteAt'[r] =< readAt'[p]
<1>1. /\ readAt' = [readAt EXCEPT ![q] = now] /\ now' = now + 1 /\ pc[q] = "idle"
  BY DEF Ask, IsNext
<1>2. /\ readAt'[q] = now /\ \A p \in Requests : p # q => readAt'[p] = readAt[p] /\ pc'[p] = pc[p]
      /\ \A p \in Requests : readAt[p] \in Nat /\ wroteAt[p] \in Nat /\ now \in Nat
  BY <1>1 DEF IInv, TypeOK
<1>3. \A p \in Requests : readAt[p] < now /\ wroteAt[p] < now
  BY DEF IInv, Clocked
<1>4. \A r, p \in Requests : pc[r] # "done" /\ wroteAt[r] # 0 /\ pc[p] # "idle" =>
          wroteAt[r] =< readAt[p]
  BY DEF IInv, Clocked
<1>5. \A p \in Requests : readAt'[p] < now' /\ wroteAt'[p] < now'
  BY <1>1, <1>2, <1>3
<1>6. ASSUME NEW r \in Requests, NEW p \in Requests, pc'[r] # "done", wroteAt'[r] # 0, pc'[p] # "idle"
      PROVE  wroteAt'[r] =< readAt'[p]
  <2>1. CASE p = q
    BY <1>2, <1>3, <2>1
  <2>2. CASE p # q
    BY <1>1, <1>2, <1>4, <1>6, <2>2
  <2>3. QED  BY <2>1, <2>2
<1>7. QED  BY <1>5, <1>6

\* The rows that others hold are as explained and as locked as they were.
LEMMA OthersHold ==
    ASSUME IInv, NEW q \in Requests, row \in Rows,
           op' \in [Requests -> Ops], \A p \in Requests : p # q => op'[p] = op[p],
           NEW w \in Rows, q \notin Events(w.history)
    PROVE  /\ LockFine(op, w.history) => LockFine(op', w.history)
           /\ Explains(op, w) => Explains(op', w)
           /\ LockedBy(op', w.history) <=> LockedBy(op, w.history)
<1>1. \A x \in Events(w.history) : op'[x] = op[x]
  BY RowParts
<1>2. QED  BY <1>1, RowParts, SameLock, SameLockFine, SameExplains

LEMMA RefuseStep ==
    ASSUME IInv, NEW q \in Requests, NEW o \in Ops, Refuse(q, o), row # NoRow,
           o.kind \notin {"create", "none"}, o.about \in {0, q} \/ pc[o.about] # "idle"
    PROVE  IInv'
<1>1. /\ Ask(q, o) /\ pc' = [pc EXCEPT ![q] = "refused"]
      /\ row' = row /\ want' = want /\ base' = base /\ wroteAt' = wroteAt
  BY DEF Refuse
<1>2. /\ pc[q] = "idle" /\ pc'[q] = "refused" /\ op'[q] = o /\ readAt'[q] = now /\ now' = now + 1
      /\ \A p \in Requests : p # q => pc'[p] = pc[p] /\ op'[p] = op[p] /\ readAt'[p] = readAt[p]
      /\ op' \in [Requests -> Ops] /\ readAt' \in [Requests -> Nat] /\ now' \in Nat
      /\ pc' \in [Requests -> {"idle", "refused", "failed", "ticket", "update", "write", "done"}]
      /\ row \in Rows /\ q \notin Events(row.history) /\ q \notin DOMAIN row.comments
      /\ \A p \in Requests : Open(p) => want[p] \in Rows /\ q \notin Events(want[p].history)
      /\ \A p \in Requests : op[p].about # q
      /\ \A r \in Requests : pc'[r] = "done" <=> pc[r] = "done"
      /\ \A r \in Requests : Overlaid(r)' <=> Overlaid(r)
      /\ \A p \in Requests : p # q => (Late(p)' <=> Late(p))
  BY <1>1, AskFacts
<1>3. /\ \A p \in Requests : Open(p)' => Open(p) /\ p # q /\ pc'[p] = pc[p]
      /\ \A p \in Requests : pc[p] # "idle" => pc'[p] # "idle"
      /\ \A p \in Requests : Maker(p)' <=> Maker(p)
  <2>1. op[q].kind = "none"
    BY <1>2 DEF IInv, RequestsKnown
  <2>2. QED  BY <1>2, <2>1 DEF Open, Maker
<1>4. TypeOK'
  BY <1>1, <1>2 DEF IInv, TypeOK
<1>5. Clocked'
  BY <1>1, <1>2, <1>3, AskClock DEF IInv, Clocked
<1>6. RequestsKnown'
  <2>1. \A p \in Requests : op'[p].about = 0 \/ pc'[op'[p].about] # "idle"
    <3>1. \A p \in Requests : op[p].about \in Requests \cup {0}
      BY DEF IInv, TypeOK, Ops
    <3>2. o.about \in Requests \cup {0}
      BY DEF Ops
    <3>3. QED  BY <1>2, <1>3, <3>1, <3>2 DEF IInv, RequestsKnown
  <2>3. row # NoRow => Known(row)'
    BY <1>1, <1>2, <1>3, RowParts DEF Known, IInv, RequestsKnown
  <2>4. \A p \in Requests : Open(p)' => Known(want[p])'
    BY <1>1, <1>2, <1>3, RowParts DEF Known, IInv, RequestsKnown
  <2>5. QED  BY <1>1, <1>2, <2>1, <2>3, <2>4 DEF RequestsKnown, IInv
<1>7. EventsKnown'
  BY <1>1, <1>2, <1>3, RowParts DEF IInv, EventsKnown
<1>8. MakerKept'
  BY <1>1, <1>3 DEF IInv, MakerKept
<1>9. EventsKept' /\ LostEventWasOverlaid'
  BY <1>1, <1>2, <1>3 DEF IInv, EventsKept, LostEventWasOverlaid
<1>10. LockHeld'
  BY <1>1, <1>2, <1>3, OthersHold DEF IInv, LockHeld
<1>11. ExplainedHeld'
  BY <1>1, <1>2, <1>3, OthersHold DEF IInv, ExplainedHeld
<1>12. QED
  BY <1>4, <1>5, <1>6, <1>7, <1>8, <1>9, <1>10, <1>11 DEF IInv

\* A request that goes on holds the row it read, with its own change.
LEMMA SubmitStep ==
    ASSUME IInv, NEW q \in Requests, NEW o \in Ops, NEW new \in Rows, Submit(q, o, new), row # NoRow,
           o.kind \notin {"create", "none"}, o.about \in {0, q} \/ pc[o.about] # "idle",
           new.history \in {row.history, Append(row.history, q)},
           DOMAIN new.comments \subseteq DOMAIN row.comments \cup {q},
           LockFine(op', new.history), Explains(op, row) => Explains(op', new)
    PROVE  IInv'
<1>1. /\ Ask(q, o) /\ pc' = [pc EXCEPT ![q] = "update"] /\ want' = [want EXCEPT ![q] = new]
      /\ row' = row /\ base' = base /\ wroteAt' = wroteAt
  BY DEF Submit
<1>2. /\ pc[q] = "idle" /\ pc'[q] = "update" /\ op'[q] = o /\ readAt'[q] = now /\ now' = now + 1
      /\ \A p \in Requests : p # q => pc'[p] = pc[p] /\ op'[p] = op[p] /\ readAt'[p] = readAt[p]
      /\ op' \in [Requests -> Ops] /\ readAt' \in [Requests -> Nat] /\ now' \in Nat
      /\ pc' \in [Requests -> {"idle", "refused", "failed", "ticket", "update", "write", "done"}]
      /\ row \in Rows /\ q \notin Events(row.history) /\ q \notin DOMAIN row.comments
      /\ \A p \in Requests : Open(p) => want[p] \in Rows /\ q \notin Events(want[p].history)
      /\ \A p \in Requests : op[p].about # q
      /\ \A r \in Requests : pc'[r] = "done" <=> pc[r] = "done"
      /\ \A r \in Requests : Overlaid(r)' <=> Overlaid(r)
      /\ \A p \in Requests : p # q => (Late(p)' <=> Late(p))
  BY <1>1, AskFacts
<1>3. /\ want'[q] = new /\ \A p \in Requests : p # q => want'[p] = want[p]
      /\ \A p \in Requests : Open(p)' => p = q \/ (Open(p) /\ pc'[p] = pc[p])
      /\ \A p \in Requests : pc[p] # "idle" => pc'[p] # "idle"
      /\ \A p \in Requests : Maker(p)' <=> Maker(p)
  <2>1. op[q].kind = "none"
    BY <1>2 DEF IInv, RequestsKnown
  <2>2. QED  BY <1>1, <1>2, <2>1 DEF Open, Maker, IInv, TypeOK
<1>4. /\ Events(row.history) \subseteq Events(new.history)
      /\ Events(new.history) \subseteq Events(row.history) \cup {q}
  <2>1. row.history \in Seq(Requests)
    BY <1>2, RowParts
  <2>2. CASE new.history = row.history
    BY <2>2
  <2>3. CASE new.history = Append(row.history, q)
    BY <2>1, <2>3, AppendFacts
  <2>4. QED  BY <2>2, <2>3
<1>5. TypeOK'
  BY <1>1, <1>2 DEF IInv, TypeOK
<1>6. Clocked'
  <2>1. /\ \A p \in Requests : readAt'[p] < now' /\ wroteAt'[p] < now'
        /\ \A r, p \in Requests : pc'[r] # "done" /\ wroteAt'[r] # 0 /\ pc'[p] # "idle" =>
              wroteAt'[r] =< readAt'[p]
    BY <1>1, AskClock
  <2>2. \A p \in Requests : Open(p)' \/ pc'[p] = "done" => want'[p] \in Rows
    BY <1>2, <1>3 DEF IInv, Clocked
  <2>3. \A p \in Requests : pc'[p] = "write" => base'[p] \in Rows
    BY <1>1, <1>2 DEF IInv, Clocked
  <2>4. row' # NoRow
    BY <1>1
  <2>5. QED  BY <2>1, <2>2, <2>3, <2>4 DEF Clocked
<1>7. RequestsKnown'
  <2>1. \A p \in Requests : op'[p].about = 0 \/ pc'[op'[p].about] # "idle"
    <3>1. \A p \in Requests : op[p].about \in Requests \cup {0}
      BY DEF IInv, TypeOK, Ops
    <3>2. o.about \in Requests \cup {0}
      BY DEF Ops
    <3>3. QED  BY <1>2, <1>3, <3>1, <3>2 DEF IInv, RequestsKnown
  <2>2. Known(row)'
    BY <1>1, <1>2, <1>3, RowParts DEF Known, IInv, RequestsKnown
  <2>3. \A p \in Requests : Open(p)' => Known(want[p])'
    <3>1. ASSUME NEW p \in Requests, Open(p)' PROVE \A c \in DOMAIN want'[p].comments : pc'[c] # "idle"
      <4>1. CASE p = q
        BY <1>1, <1>2, <1>3, <2>2, <4>1 DEF Known
      <4>2. CASE p # q
        BY <1>1, <1>2, <1>3, <3>1, <4>2, RowParts DEF Known, IInv, RequestsKnown
      <4>3. QED  BY <4>1, <4>2
    <3>2. QED  BY <3>1 DEF Known
  <2>4. \A p \in Requests : pc'[p] = "idle" => op'[p].kind = "none"
    BY <1>2 DEF RequestsKnown, IInv
  <2>5. QED  BY <2>1, <2>2, <2>3, <2>4 DEF RequestsKnown
<1>8. EventsKnown'
  <2>1. \A r \in Events(row.history) : pc'[r] = "done" \/ Maker(r)'
    BY <1>2, <1>3, RowParts DEF IInv, EventsKnown
  <2>2. ASSUME NEW p \in Requests, Open(p)', NEW r \in Events(want'[p].history)
        PROVE  r = p \/ pc'[r] = "done" \/ Maker(r)'
    <3>1. CASE p = q
      BY <1>3, <1>4, <2>1, <2>2, <3>1
    <3>2. CASE p # q
      BY <1>2, <1>3, <2>2, <3>2, RowParts DEF IInv, EventsKnown
    <3>3. QED  BY <3>1, <3>2
  <2>3. QED  BY <1>1, <1>2, <1>3, <2>1, <2>2 DEF IInv, EventsKnown
<1>9. MakerKept'
  <2>1. ASSUME NEW r \in Requests, Maker(r) PROVE r \in Events(new.history)
    BY <1>4, <2>1 DEF IInv, MakerKept
  <2>2. QED  BY <1>1, <1>3, <2>1 DEF IInv, MakerKept
<1>10. LostEventWasOverlaid'
  BY <1>1, <1>2, <1>3 DEF IInv, LostEventWasOverlaid
<1>11. EventsKept'
  <2>1. SUFFICES ASSUME NEW p \in Requests, NEW r \in Requests, Open(p)', pc'[r] = "done",
                        r \in Events(want'[r].history)
                 PROVE  r \in Events(want'[p].history) \/ Overlaid(r)' \/ readAt'[p] < wroteAt'[r]
    BY DEF EventsKept
  <2>2. pc[r] = "done" /\ r # q /\ want'[r] = want[r]
    BY <1>2, <1>3, <2>1
  <2>3. CASE p = q
    BY <1>2, <1>3, <1>4, <2>1, <2>2, <2>3 DEF IInv, LostEventWasOverlaid
  <2>4. CASE p # q
    BY <1>1, <1>2, <1>3, <2>1, <2>2, <2>4 DEF IInv, EventsKept
  <2>5. QED  BY <2>3, <2>4
<1>12. LockHeld'
  <2>1. LockFine(op', row.history)
    BY <1>2, OthersHold DEF IInv, LockHeld
  <2>2. ASSUME NEW p \in Requests, Open(p)' PROVE LockFine(op', want'[p].history)
    <3>1. CASE p = q
      BY <1>3, <3>1
    <3>2. CASE p # q
      BY <1>2, <1>3, <2>2, <3>2, OthersHold DEF IInv, LockHeld
    <3>3. QED  BY <3>1, <3>2
  <2>3. QED  BY <1>1, <2>1, <2>2 DEF LockHeld
<1>13. ExplainedHeld'
  <2> SUFFICES ASSUME \A r \in Requests : ~Overlaid(r)'
               PROVE  /\ Explains(op', row')
                      /\ \A p \in Requests : Open(p)' /\ ~Late(p)' =>
                            Explains(op', want'[p]) /\ (pc'[p] = "write" => base'[p] = row')
    BY DEF ExplainedHeld
  <2>1. \A r \in Requests : ~Overlaid(r)
    BY <1>2
  <2>2. Explains(op, row)
    BY <2>1 DEF IInv, ExplainedHeld
  <2>3. Explains(op', row)
    BY <1>2, <2>2, OthersHold
  <2>4. ASSUME NEW p \in Requests, Open(p)', ~Late(p)'
        PROVE  Explains(op', want'[p]) /\ (pc'[p] = "write" => base'[p] = row')
    <3>1. CASE p = q
      BY <1>2, <1>3, <2>2, <3>1
    <3>2. CASE p # q
      <4>1. Open(p) /\ ~Late(p) /\ want'[p] = want[p] /\ pc'[p] = pc[p]
        BY <1>2, <1>3, <2>4, <3>2
      <4>2. Explains(op, want[p]) /\ (pc[p] = "write" => base[p] = row)
        BY <2>1, <4>1 DEF IInv, ExplainedHeld
      <4>3. Explains(op', want[p])
        BY <1>2, <4>1, <4>2, OthersHold
      <4>4. QED  BY <1>1, <4>1, <4>2, <4>3
    <3>3. QED  BY <3>1, <3>2
  <2>5. QED  BY <1>1, <2>3, <2>4
<1>14. QED
  BY <1>5, <1>6, <1>7, <1>8, <1>9, <1>10, <1>11, <1>12, <1>13 DEF IInv

-----------------------------------------------------------------------------
\* The handlers.
LEMMA LockedSame == ASSUME NEW h PROVE CommentsLocked(h) <=> LockedBy(op, h)
  BY DEF CommentsLocked, LockedBy, Locks

LEMMA AddCommentType ==
    ASSUME NEW c \in Threads, NEW q \in Requests, NEW u \in Users
    PROVE  AddComment(c, q, u) \in Threads /\ DOMAIN AddComment(c, q, u) = DOMAIN c \cup {q}
<1>1. PICK D \in SUBSET Requests : c \in [D -> CommentRecords]
  BY DEF Threads
<1>2. Comment(u) \in CommentRecords
  BY DEF Comment, CommentRecords, States
<1>3. AddComment(c, q, u) \in [D \cup {q} -> CommentRecords]
  BY <1>1, <1>2 DEF AddComment
<1>4. QED  BY <1>1, <1>3 DEF Threads

\* What a request that comes in finds, and what is so of the row it read
\* after it came in.
LEMMA Asked ==
    ASSUME IInv, NEW q \in Requests, NEW o \in Ops, NEW new, Submit(q, o, new), row # NoRow
    PROVE  /\ row \in Rows /\ op'[q] = o /\ op' \in [Requests -> Ops]
           /\ q \notin Events(row.history) /\ q # 0
           /\ \A x \in Events(row.history) : op'[x].about # q
           /\ \A c \in DOMAIN row.comments : c # q /\ pc[c] # "idle"
           /\ LockFine(op', row.history)
           /\ LockedBy(op', row.history) <=> CommentsLocked(row.history)
           /\ Explains(op, row) => Explains(op', row)
<1>1. /\ Ask(q, o) /\ pc' = [pc EXCEPT ![q] = "update"]
      /\ row' = row /\ wroteAt' = wroteAt
  BY DEF Submit
<1>2. /\ op'[q] = o /\ \A p \in Requests : p # q => op'[p] = op[p]
      /\ op' \in [Requests -> Ops]
      /\ row \in Rows /\ q \notin Events(row.history) /\ q \notin DOMAIN row.comments
      /\ \A p \in Requests : op[p].about # q
  BY <1>1, AskFacts
<1>3. /\ LockFine(op', row.history)
      /\ LockedBy(op', row.history) <=> CommentsLocked(row.history)
      /\ Explains(op, row) => Explains(op', row)
  BY <1>2, OthersHold, LockedSame DEF IInv, LockHeld
<1>4. \A c \in DOMAIN row.comments : c # q /\ pc[c] # "idle"
  BY <1>2 DEF IInv, RequestsKnown, Known
<1>5. \A x \in Events(row.history) : op'[x].about # q
  BY <1>2, RowParts
<1>6. QED  BY <1>2, <1>3, <1>4, <1>5 DEF Requests

\* A comment, with a change of status or without.
LEMMA CommentStep ==
    ASSUME IInv, NEW q \in Requests, NEW o \in Ops, NEW u \in Users, row # NoRow,
           o.kind \in {"patch", "comment"}, o.about = q,
           NEW new, Submit(q, o, new), ~CommentsLocked(row.history),
           new = [row EXCEPT !.status = IF o.kind = "patch" THEN o.to ELSE row.status,
                             !.comments = AddComment(row.comments, q, u),
                             !.history = Append(row.history, q)]
    PROVE  IInv'
<1>1. /\ row \in Rows /\ op'[q] = o /\ q \notin Events(row.history)
      /\ \A x \in Events(row.history) : op'[x].about # q
      /\ LockFine(op', row.history) /\ ~LockedBy(op', row.history)
      /\ Explains(op, row) => Explains(op', row)
  BY Asked
<1>2. row.history \in Seq(Requests) /\ row.comments \in Threads /\ row.status \in Statuses
  BY <1>1, RowParts
<1>3. o.to \in Statuses
  BY DEF Ops
<1>4. /\ new.history = Append(row.history, q) /\ new.comments = AddComment(row.comments, q, u)
      /\ new.status = IF o.kind = "patch" THEN o.to ELSE row.status
  BY <1>1 DEF Rows
<1>5. new \in Rows
  <2>1. Append(row.history, q) \in Seq(Requests) /\ AddComment(row.comments, q, u) \in Threads
    BY <1>2, AppendFacts, AddCommentType
  <2>2. QED  BY <1>1, <1>2, <1>3, <2>1 DEF Rows
<1>6. LockFine(op', new.history)
  BY <1>1, <1>2, <1>4, LockAppend
<1>7. ASSUME Explains(op, row) PROVE Explains(op', new)
  <2>1. Told(op', row.history, row.status) /\ CommentsTold(op', row.history, row.comments)
    BY <1>1, <1>7 DEF Explains
  <2>2. Told(op', new.history, new.status)
    <3>1. CASE o.kind = "patch"
      BY <1>1, <1>2, <1>4, <3>1, ToldNow
    <3>2. CASE o.kind # "patch"
      BY <1>1, <1>2, <1>4, <2>1, <3>2, ToldBefore
    <3>3. QED  BY <3>1, <3>2
  <2>3. op'[q].about = q /\ op'[q].kind # "delete"
    BY <1>1
  <2>4. CommentsTold(op', new.history, new.comments)
    BY <1>1, <1>2, <1>4, <2>1, <2>3, CommentsToldAdd
  <2>5. QED  BY <2>2, <2>4 DEF Explains
<1>8. DOMAIN new.comments = DOMAIN row.comments \cup {q}
  <2>1. DOMAIN AddComment(row.comments, q, u) = DOMAIN row.comments \cup {q}
    BY <1>2, AddCommentType
  <2>2. QED  BY <1>4, <2>1
<1>9. QED  BY <1>4, <1>5, <1>6, <1>7, <1>8, SubmitStep

\* A change of status, or of the lock, without a comment.
LEMMA SilentStep ==
    ASSUME IInv, NEW q \in Requests, NEW o \in Ops, row # NoRow,
           o.kind \in {"patch", "lock", "unlock"}, o.about = 0, NEW new, Submit(q, o, new),
           NEW h \in {row.history, Append(row.history, q)},
           h = row.history => o.kind = "patch" /\ o.to = row.status,
           new = [row EXCEPT !.status = IF o.kind = "patch" THEN o.to ELSE row.status,
                             !.history = h]
    PROVE  IInv'
<1>1. /\ row \in Rows /\ op'[q] = o /\ q \notin Events(row.history) /\ q # 0
      /\ LockFine(op', row.history)
      /\ Explains(op, row) => Explains(op', row)
  BY Asked
<1>2. row.history \in Seq(Requests) /\ row.comments \in Threads /\ row.status \in Statuses
  BY <1>1, RowParts
<1>3. o.to \in Statuses
  BY DEF Ops
<1>4. /\ new.history = h /\ new.comments = row.comments
      /\ new.status = IF o.kind = "patch" THEN o.to ELSE row.status
  BY <1>1 DEF Rows
<1>5. new \in Rows
  <2>1. h \in Seq(Requests)
    BY <1>2, AppendFacts
  <2>2. QED  BY <1>1, <1>2, <1>3, <2>1 DEF Rows
<1>6. op'[q].about # q /\ op'[q].kind # "delete"
  BY <1>1
<1>7. LockFine(op', new.history)
  BY <1>1, <1>2, <1>4, <1>6, LockAppend
<1>8. ASSUME Explains(op, row) PROVE Explains(op', new)
  <2>1. Told(op', row.history, row.status) /\ CommentsTold(op', row.history, row.comments)
    BY <1>1, <1>8 DEF Explains
  <2>2. CASE h = row.history
    BY <1>4, <2>1, <2>2 DEF Explains
  <2>3. CASE h = Append(row.history, q)
    <3>1. Told(op', new.history, new.status)
      <4>1. CASE o.kind = "patch"
        BY <1>1, <1>2, <1>4, <2>3, <4>1, ToldNow
      <4>2. CASE o.kind # "patch"
        BY <1>1, <1>2, <1>4, <2>1, <2>3, <4>2, ToldBefore
      <4>3. QED  BY <4>1, <4>2
    <3>2. CommentsTold(op', new.history, new.comments)
      BY <1>2, <1>4, <1>6, <2>1, <2>3, CommentsToldBefore
    <3>3. QED  BY <3>1, <3>2 DEF Explains
  <2>4. QED  BY <2>2, <2>3
<1>9. QED  BY <1>4, <1>5, <1>7, <1>8, SubmitStep

LEMMA PatchStep ==
    ASSUME IInv, NEW q \in Requests, NEW u \in Users, NEW to \in Statuses, NEW commenting \in BOOLEAN,
           Patch(q, u, to, commenting)
    PROVE  IInv'
<1> DEFINE o == [NoOp EXCEPT !.kind = "patch", !.user = u, !.to = to,
                             !.about = IF commenting THEN q ELSE 0]
           h == IF commenting \/ to # row.status THEN Append(row.history, q) ELSE row.history
           new == [row EXCEPT !.status = to,
                              !.comments = IF commenting THEN AddComment(row.comments, q, u)
                                                         ELSE row.comments,
                              !.history = h]
<1>1. /\ o \in Ops /\ o.kind = "patch" /\ o.to = to /\ o.about = IF commenting THEN q ELSE 0
  BY IncidentAssumption DEF NoOp, Ops, AllKinds
<1>2. row # NoRow /\ \/ Refuse(q, o)
                     \/ Submit(q, o, new) /\ (commenting => ~CommentsLocked(row.history))
  BY DEF Patch
<1>3. row \in Rows
  BY <1>2 DEF IInv, TypeOK
<1>4. commenting => new = [row EXCEPT !.status = IF o.kind = "patch" THEN o.to ELSE row.status,
                                      !.comments = AddComment(row.comments, q, u),
                                      !.history = Append(row.history, q)]
  BY <1>1
<1>5. ~commenting => new = [row EXCEPT !.status = IF o.kind = "patch" THEN o.to ELSE row.status,
                                       !.history = h]
  BY <1>1, <1>3 DEF Rows
<1>6. /\ h \in {row.history, Append(row.history, q)}
      /\ ~commenting /\ h = row.history => to = row.status
  <2>1. row.history \in Seq(Requests)
    BY <1>3, RowParts
  <2>2. Append(row.history, q) # row.history
    <3>1. Len(Append(row.history, q)) # Len(row.history)
      BY <2>1, AppendFacts
    <3>2. QED  BY <3>1
  <2>3. QED  BY <2>2
<1> HIDE DEF o, h, new
<1>7. CASE Refuse(q, o)
  BY <1>1, <1>2, <1>7, RefuseStep
<1>8. CASE Submit(q, o, new) /\ commenting
  <2>1. CASE CommentsLocked(row.history)
    BY <1>1, <1>2, <1>7, <1>8, <2>1
  <2>2. CASE ~CommentsLocked(row.history)
    <3>1. o \in Ops /\ o.kind \in {"patch", "comment"} /\ o.about = q /\ row # NoRow
      BY <1>1, <1>2, <1>8
    <3>2. /\ Submit(q, o, new)
          /\ new = [row EXCEPT !.status = IF o.kind = "patch" THEN o.to ELSE row.status,
                               !.comments = AddComment(row.comments, q, u),
                               !.history = Append(row.history, q)]
      BY <1>4, <1>8
    <3>3. QED  BY <2>2, <3>1, <3>2, CommentStep
  <2>3. QED  BY <2>1, <2>2
<1>9. CASE Submit(q, o, new) /\ ~commenting
  <2>1. o \in Ops /\ o.kind \in {"patch", "lock", "unlock"} /\ o.about = 0 /\ row # NoRow
    BY <1>1, <1>2, <1>9
  <2>2. /\ Submit(q, o, new) /\ h \in {row.history, Append(row.history, q)}
        /\ h = row.history => o.kind = "patch" /\ o.to = row.status
        /\ new = [row EXCEPT !.status = IF o.kind = "patch" THEN o.to ELSE row.status,
                             !.history = h]
    BY <1>1, <1>5, <1>6, <1>9
  <2>3. QED  BY <2>1, <2>2, SilentStep
<1>10. QED  BY <1>2, <1>7, <1>8, <1>9

LEMMA CreateCommentStep ==
    ASSUME IInv, NEW q \in Requests, NEW u \in Users, CreateComment(q, u)
    PROVE  IInv'
<1> DEFINE o == [NoOp EXCEPT !.kind = "comment", !.user = u, !.about = q]
           new == [row EXCEPT !.comments = AddComment(row.comments, q, u),
                              !.history = Append(row.history, q)]
<1>1. o \in Ops /\ o.kind = "comment" /\ o.about = q
  BY IncidentAssumption DEF NoOp, Ops, AllKinds
<1>2. row # NoRow /\ \/ Refuse(q, o)
                     \/ Submit(q, o, new) /\ ~CommentsLocked(row.history)
  BY DEF CreateComment
<1>3. row \in Rows
  BY <1>2 DEF IInv, TypeOK
<1>4. new = [row EXCEPT !.status = IF o.kind = "patch" THEN o.to ELSE row.status,
                        !.comments = AddComment(row.comments, q, u),
                        !.history = Append(row.history, q)]
  BY <1>1, <1>3 DEF Rows
<1> HIDE DEF o, new
<1>5. CASE Refuse(q, o)
  BY <1>1, <1>2, <1>5, RefuseStep
<1>6. CASE Submit(q, o, new) /\ ~CommentsLocked(row.history)
  BY <1>1, <1>2, <1>4, <1>6, CommentStep
<1>7. QED  BY <1>2, <1>5, <1>6

LEMMA SetCommentsLockStep ==
    ASSUME IInv, NEW q \in Requests, NEW u \in Users, NEW k, SetCommentsLock(q, u, k)
    PROVE  IInv'
<1> DEFINE o == [NoOp EXCEPT !.kind = k, !.user = u]
           new == [row EXCEPT !.history = Append(row.history, q)]
<1>1. k \in {"lock", "unlock"} /\ row # NoRow /\ (Refuse(q, o) \/ Submit(q, o, new))
  BY DEF SetCommentsLock
<1>2. o \in Ops /\ o.kind = k /\ o.about = 0
  BY <1>1, IncidentAssumption DEF NoOp, Ops, AllKinds
<1>3. row \in Rows
  BY <1>1 DEF IInv, TypeOK
<1>4. new = [row EXCEPT !.status = IF o.kind = "patch" THEN o.to ELSE row.status,
                        !.history = Append(row.history, q)]
  BY <1>1, <1>2, <1>3 DEF Rows
<1>5. Append(row.history, q) # row.history
  <2>1. Len(Append(row.history, q)) # Len(row.history)
    BY <1>3, RowParts, AppendFacts
  <2>2. QED  BY <2>1
<1> HIDE DEF o, new
<1>6. CASE Refuse(q, o)
  BY <1>1, <1>2, <1>6, RefuseStep
<1>7. CASE Submit(q, o, new)
  BY <1>1, <1>2, <1>4, <1>5, <1>7, SilentStep
<1>8. QED  BY <1>1, <1>6, <1>7

\* A comment stays one, and is removed by a deletion only.
LEMMA AfterFacts ==
    ASSUME NEW c \in CommentRecords,
           NEW k \in {"edit", "delete", "resolve", "reopen", "acknowledge", "vote"}
    PROVE  /\ After(k, c) \in CommentRecords
           /\ After(k, c).removed = (c.removed \/ k = "delete")
<1>1. CASE k = "edit"
  <2>1. After(k, c) = [c EXCEPT !.text = "edited"]
    BY <1>1 DEF After
  <2>2. QED  BY <1>1, <2>1 DEF CommentRecords
<1>2. CASE k = "delete"
  <2>1. After(k, c) = [c EXCEPT !.removed = TRUE, !.text = "[removed]"]
    BY <1>2 DEF After
  <2>2. QED  BY <1>2, <2>1 DEF CommentRecords
<1>3. CASE k = "resolve"
  <2>1. After(k, c) = [c EXCEPT !.state = "resolved"]
    BY <1>3 DEF After
  <2>2. QED  BY <1>3, <2>1 DEF CommentRecords, States
<1>4. CASE k = "reopen"
  <2>1. After(k, c) = [c EXCEPT !.state = "reopened"]
    BY <1>4 DEF After
  <2>2. QED  BY <1>4, <2>1 DEF CommentRecords, States
<1>5. CASE k = "acknowledge"
  <2>1. After(k, c) = [c EXCEPT !.state = "acknowledged_by_owner"]
    BY <1>5 DEF After
  <2>2. QED  BY <1>5, <2>1 DEF CommentRecords, States
<1>6. CASE k = "vote"
  <2>1. After(k, c) = [c EXCEPT !.state = "voted_up", !.votes = c.votes + 1]
    BY <1>6 DEF After
  <2>2. c.votes + 1 \in Nat
    BY DEF CommentRecords
  <2>3. QED  BY <1>6, <2>1, <2>2 DEF CommentRecords, States
<1>7. QED  BY <1>1, <1>2, <1>3, <1>4, <1>5, <1>6

LEMMA ChangeCommentStep ==
    ASSUME IInv, NEW q \in Requests, NEW u \in Users, NEW k, NEW c \in Requests,
           ChangeComment(q, u, k, c)
    PROVE  IInv'
<1> DEFINE o == [NoOp EXCEPT !.kind = k, !.user = u, !.about = c]
           x == After(k, row.comments[c])
           new == [row EXCEPT !.comments[c] = x, !.history = Append(row.history, q)]
<1>1. /\ k \in {"edit", "delete", "resolve", "reopen", "acknowledge", "vote"}
      /\ row # NoRow /\ c \in DOMAIN row.comments
      /\ Refuse(q, o) \/ Submit(q, o, new)
  BY DEF ChangeComment
<1>2. o \in Ops /\ o.kind = k /\ o.about = c
  BY <1>1, IncidentAssumption DEF NoOp, Ops, AllKinds
<1>3. row \in Rows /\ pc[c] # "idle"
  BY <1>1 DEF IInv, TypeOK, RequestsKnown, Known
<1> HIDE DEF x
<1>4. /\ new = [row EXCEPT !.comments = [row.comments EXCEPT ![c] = x],
                           !.history = Append(row.history, q)]
      /\ new.history = Append(row.history, q) /\ new.status = row.status
      /\ new.comments = [row.comments EXCEPT ![c] = x]
  BY <1>3 DEF Rows
<1>5. row.history \in Seq(Requests) /\ row.comments \in Threads
  BY <1>3, RowParts
<1>6. PICK D \in SUBSET Requests : row.comments \in [D -> CommentRecords]
  BY <1>5 DEF Threads
<1>7. x \in CommentRecords /\ x.removed = (row.comments[c].removed \/ k = "delete")
  <2>1. row.comments[c] \in CommentRecords
    BY <1>1, <1>6
  <2>2. QED  BY <1>1, <2>1, AfterFacts DEF x
<1>8. new \in Rows
  <2>1. [row.comments EXCEPT ![c] = x] \in [D -> CommentRecords]
    BY <1>6, <1>7
  <2>2. [row.comments EXCEPT ![c] = x] \in Threads
    BY <2>1 DEF Threads
  <2>3. Append(row.history, q) \in Seq(Requests)
    BY <1>5, AppendFacts
  <2>4. QED  BY <1>3, <1>4, <2>2, <2>3 DEF Rows
<1>9. DOMAIN new.comments = DOMAIN row.comments
  BY <1>4, <1>6
<1> HIDE DEF o, new
<1>10. CASE Refuse(q, o)
  BY <1>1, <1>2, <1>3, <1>10, RefuseStep
<1>11. CASE Submit(q, o, new)
  <2>1. /\ op'[q] = o /\ LockFine(op', row.history) /\ c # q
        /\ Explains(op, row) => Explains(op', row)
    BY <1>1, <1>2, <1>11, Asked
  <2>2. LockFine(op', new.history)
    BY <1>2, <1>4, <1>5, <2>1, LockAppend
  <2>3. ASSUME Explains(op, row) PROVE Explains(op', new)
    <3>1. Told(op', row.history, row.status) /\ CommentsTold(op', row.history, row.comments)
      BY <2>1, <2>3 DEF Explains
    <3>2. op'[q].kind = k /\ op'[q].about = c /\ op'[q].kind # "patch"
      BY <1>1, <1>2, <2>1
    <3>3. Told(op', new.history, new.status)
      BY <1>4, <1>5, <3>1, <3>2, ToldBefore
    <3>4. CommentsTold(op', Append(row.history, q), [row.comments EXCEPT ![c] = x])
      BY <1>1, <1>5, <1>7, <2>1, <3>1, <3>2, CommentsToldChange
    <3>5. QED  BY <1>4, <3>3, <3>4 DEF Explains
  <2>4. o.kind \notin {"create", "none"}
    BY <1>1, <1>2
  <2>5. QED  BY <1>1, <1>2, <1>3, <1>4, <1>8, <1>9, <1>11, <2>2, <2>3, <2>4, SubmitStep
<1>12. QED  BY <1>1, <1>10, <1>11

\* The first request: nobody else is under way, and nobody has written.
LEMMA CreateStep ==
    ASSUME IInv, NEW q \in Requests, NEW withTicket \in BOOLEAN, Create(q, withTicket)
    PROVE  IInv'
<1> DEFINE new == [status |-> "open", ticket |-> 0, comments |-> <<>>, history |-> <<q>>]
           o == [NoOp EXCEPT !.kind = "create"]
           s == IF withTicket THEN "ticket" ELSE "done"
<1>1. /\ row = NoRow /\ row' = new /\ Ask(q, o) /\ op' = [op EXCEPT ![q] = o]
      /\ want' = [want EXCEPT ![q] = new] /\ pc' = [pc EXCEPT ![q] = s]
      /\ readAt' = [readAt EXCEPT ![q] = now] /\ wroteAt' = [wroteAt EXCEPT ![q] = now]
      /\ now' = now + 1 /\ base' = base
  BY DEF Create, Ask
<1>2. /\ o \in Ops /\ o.kind = "create" /\ o.about = 0 /\ o.to = "open"
  BY IncidentAssumption DEF NoOp, Ops, AllKinds
<1>3. /\ new.history = <<q>> /\ new.comments = <<>> /\ new.status = "open"
      /\ new.history \in Seq(Requests) /\ Events(new.history) = {q}
  BY DEF Events
<1>4. new \in Rows
  <2>1. <<>> \in [{} -> CommentRecords]
    OBVIOUS
  <2>2. <<>> \in Threads
    BY <2>1 DEF Threads
  <2>3. QED  BY <2>2, IncidentAssumption DEF Rows
<1> HIDE DEF new, o
<1>5. \A p \in Requests : pc[p] = "idle" /\ op[p].kind = "none" /\ op[p] \in Ops
                          /\ readAt[p] \in Nat /\ wroteAt[p] \in Nat /\ now \in Nat
  BY <1>1 DEF IInv, Clocked, RequestsKnown, TypeOK
<1>6. /\ pc'[q] = s /\ op'[q] = o /\ want'[q] = new /\ readAt'[q] = now /\ wroteAt'[q] = now
      /\ \A p \in Requests : p # q => /\ pc'[p] = "idle" /\ op'[p] = op[p] /\ want'[p] = want[p]
                                      /\ readAt'[p] = readAt[p] /\ wroteAt'[p] = wroteAt[p]
  BY <1>1, <1>5 DEF IInv, TypeOK
<1>7. s \in {"ticket", "done"}
  OBVIOUS
<1>8. row' # NoRow
  BY <1>1, <1>4, NoRowAssumption
<1>9. TypeOK'
  BY <1>1, <1>2, <1>4, <1>7 DEF IInv, TypeOK
<1>10. Clocked'
  <2>1. \A p \in Requests : readAt[p] < now /\ wroteAt[p] < now
    BY DEF IInv, Clocked
  <2>2. \A p \in Requests : readAt'[p] < now' /\ wroteAt'[p] < now'
    BY <1>1, <1>5, <1>6, <2>1
  <2>3. \A p \in Requests : Open(p)' \/ pc'[p] = "done" => want'[p] \in Rows
    BY <1>4, <1>6 DEF Open
  <2>4. \A p \in Requests : pc'[p] # "write"
    BY <1>6, <1>7
  <2>5. \A r \in Requests : wroteAt'[r] =< readAt'[q]
    BY <1>5, <1>6, <2>1
  <2>6. \A r, p \in Requests : pc'[p] # "idle" => wroteAt'[r] =< readAt'[p]
    BY <1>6, <2>5
  <2>7. QED  BY <1>8, <2>2, <2>3, <2>4, <2>6 DEF Clocked
<1>11. pc'[q] # "idle" /\ Maker(q)' /\ \A p \in Requests : Maker(p)' => p = q
  BY <1>2, <1>5, <1>6, <1>7 DEF Maker
<1>12. \A p \in Requests : Open(p)' => p = q /\ pc'[p] = "ticket"
  BY <1>6, <1>7 DEF Open
<1>13. RequestsKnown'
  <2>1. Known(new)'
    BY <1>3 DEF Known
  <2>2. ASSUME NEW p \in Requests PROVE op'[p].about = 0 \/ pc'[op'[p].about] # "idle"
    BY <1>2, <1>5, <1>6, <1>11 DEF IInv, RequestsKnown, Ops
  <2>3. QED  BY <1>1, <1>5, <1>6, <1>12, <1>11, <2>1, <2>2 DEF RequestsKnown, Known
<1>14. EventsKnown' /\ MakerKept'
  BY <1>1, <1>3, <1>6, <1>8, <1>11, <1>12 DEF EventsKnown, MakerKept
<1>15. LostEventWasOverlaid' /\ EventsKept'
  BY <1>1, <1>3, <1>6, <1>12 DEF LostEventWasOverlaid, EventsKept
<1>16. LockHeld'
  <2>1. LockFine(op', new.history)
    <3>1. \A n \in DOMAIN new.history : op'[new.history[n]].about # new.history[n]
      BY <1>2, <1>3, <1>6 DEF Requests
    <3>2. QED  BY <3>1 DEF LockFine
  <2>2. QED  BY <1>1, <1>6, <1>12, <2>1 DEF LockHeld
<1>17. ExplainedHeld'
  <2>1. Told(op', new.history, new.status)
    <3>1. 1 \in DOMAIN new.history /\ new.history[1] = q /\ Len(new.history) = 1
      BY <1>3
    <3>2. \A k \in (1 + 1)..Len(new.history) : FALSE
      BY <3>1
    <3>3. QED  BY <1>2, <1>3, <1>6, <3>1, <3>2 DEF Told
  <2>2. CommentsTold(op', new.history, new.comments)
    <3>1. q # 0
      BY DEF Requests
    <3>2. {x \in Events(new.history) : op'[x].about = x} = {} /\ DOMAIN new.comments = {}
      BY <1>2, <1>3, <1>6, <3>1
    <3>3. QED  BY <3>2 DEF CommentsTold
  <2>3. Explains(op', new)
    BY <2>1, <2>2 DEF Explains
  <2>4. QED  BY <1>1, <1>6, <1>12, <2>3 DEF ExplainedHeld
<1>18. QED
  BY <1>9, <1>10, <1>13, <1>14, <1>15, <1>16, <1>17 DEF IInv

-----------------------------------------------------------------------------
\* Until it writes, a handler changes what it holds itself.
LEMMA QuietStep ==
    ASSUME IInv, NEW q \in Requests, Open(q), NEW s \in {"failed", "update", "write"},
           row' = row, op' = op, readAt' = readAt, wroteAt' = wroteAt, now' = now,
           pc' = [pc EXCEPT ![q] = s],
           want' \in [Requests -> Rows \cup {NoRow}], base' \in [Requests -> Rows \cup {NoRow}],
           \A p \in Requests : p # q => want'[p] = want[p] /\ base'[p] = base[p],
           want'[q] \in Rows, want'[q].history = want[q].history,
           want'[q].status = want[q].status, want'[q].comments = want[q].comments,
           s = "write" => base'[q] = row
    PROVE  IInv'
<1>1. /\ pc'[q] = s /\ \A p \in Requests : p # q => pc'[p] = pc[p]
      /\ pc' \in [Requests -> {"idle", "refused", "failed", "ticket", "update", "write", "done"}]
      /\ pc[q] \notin {"idle", "done"}
  BY DEF IInv, TypeOK, Open
<1>2. /\ \A p \in Requests : pc'[p] = "done" <=> pc[p] = "done"
      /\ \A p \in Requests : pc'[p] = "idle" <=> pc[p] = "idle"
      /\ \A p \in Requests : Open(p)' => Open(p)
      /\ \A p \in Requests : Maker(p)' <=> Maker(p)
      /\ \A p \in Requests : Overlaid(p)' <=> Overlaid(p)
      /\ \A p \in Requests : Late(p)' <=> Late(p)
  <2>1. /\ \A p \in Requests : pc'[p] = "done" <=> pc[p] = "done"
        /\ \A p \in Requests : pc'[p] = "idle" <=> pc[p] = "idle"
        /\ \A p \in Requests : Open(p)' => Open(p)
        /\ \A p \in Requests : Maker(p)' <=> Maker(p)
    BY <1>1 DEF Open, Maker
  <2>2. \A p \in Requests : Overlaid(p)' <=> Overlaid(p)
    BY <2>1 DEF Overlaid
  <2>3. \A p \in Requests : Late(p)' <=> Late(p)
    BY <2>1 DEF Late
  <2>4. QED  BY <2>1, <2>2, <2>3
<1>3. \A p \in Requests : /\ want'[p].history = want[p].history
                          /\ want'[p].status = want[p].status
                          /\ want'[p].comments = want[p].comments
  OBVIOUS
<1>4. row \in Rows /\ row # NoRow
  BY <1>1 DEF IInv, TypeOK, Clocked
<1>5. TypeOK'
  BY <1>1 DEF IInv, TypeOK
<1>6. Clocked'
  <2>1. \A p \in Requests : Open(p)' \/ pc'[p] = "done" => want'[p] \in Rows
    BY <1>2 DEF IInv, Clocked
  <2>2. \A p \in Requests : pc'[p] = "write" => base'[p] \in Rows
    BY <1>1, <1>4 DEF IInv, Clocked
  <2>3. /\ \A p \in Requests : readAt[p] < now /\ wroteAt[p] < now
        /\ \A r \in Requests : pc[r] # "done" /\ wroteAt[r] # 0 =>
              \A p \in Requests : pc[p] # "idle" => wroteAt[r] =< readAt[p]
    BY DEF IInv, Clocked
  <2>4. QED  BY <1>2, <1>4, <2>1, <2>2, <2>3 DEF Clocked
<1>7. RequestsKnown'
  <2>1. \A p \in Requests : op[p].about = 0 \/ pc'[op[p].about] # "idle"
    <3>1. \A p \in Requests : op[p].about \in Requests \cup {0}
      BY DEF IInv, TypeOK, Ops
    <3>2. QED  BY <1>2, <3>1 DEF IInv, RequestsKnown
  <2>2. Known(row)'
    BY <1>2, <1>4, RowParts DEF Known, IInv, RequestsKnown
  <2>3. ASSUME NEW p \in Requests, Open(p)' PROVE \A c \in DOMAIN want'[p].comments : pc'[c] # "idle"
    <3>1. Open(p) /\ want[p] \in Rows
      BY <1>2, <2>3 DEF IInv, Clocked
    <3>2. \A c \in DOMAIN want[p].comments : c \in Requests /\ pc[c] # "idle"
      BY <3>1, RowParts DEF IInv, RequestsKnown, Known
    <3>3. QED  BY <1>2, <1>3, <3>2
  <2>4. QED  BY <1>2, <2>1, <2>2, <2>3 DEF RequestsKnown, Known, IInv
<1>8. EventsKnown'
  <2>1. \A r \in Events(row.history) : r \in Requests /\ (pc[r] = "done" \/ Maker(r))
    BY <1>4, RowParts DEF IInv, EventsKnown
  <2>2. ASSUME NEW p \in Requests, Open(p)', NEW r \in Events(want'[p].history)
        PROVE  r = p \/ pc'[r] = "done" \/ Maker(r)'
    <3>1. Open(p) /\ want[p] \in Rows /\ r \in Events(want[p].history)
      BY <1>2, <1>3, <2>2 DEF IInv, Clocked
    <3>2. r \in Requests
      BY <3>1, RowParts
    <3>3. QED  BY <1>2, <3>1, <3>2 DEF IInv, EventsKnown
  <2>3. ASSUME NEW p \in Requests, pc'[p] = "write", ~Maker(p)' PROVE p \notin Events(base'[p].history)
    <3>1. CASE p = q
      BY <1>1, <1>2, <2>1, <2>3, <3>1
    <3>2. CASE p # q
      BY <1>1, <1>2, <2>3, <3>2 DEF IInv, EventsKnown
    <3>3. QED  BY <3>1, <3>2
  <2>4. QED  BY <1>2, <2>1, <2>2, <2>3 DEF EventsKnown
<1>9. MakerKept'
  BY <1>2, <1>3 DEF IInv, MakerKept
<1>10. EventsKept' /\ LostEventWasOverlaid'
  BY <1>2, <1>3 DEF IInv, EventsKept, LostEventWasOverlaid
<1>11. LockHeld'
  BY <1>2, <1>3 DEF IInv, LockHeld
<1>12. ExplainedHeld'
  <2> SUFFICES ASSUME \A r \in Requests : ~Overlaid(r)'
               PROVE  /\ Explains(op, row)
                      /\ \A p \in Requests : Open(p)' /\ ~Late(p)' =>
                            Explains(op, want'[p]) /\ (pc'[p] = "write" => base'[p] = row)
    BY DEF ExplainedHeld
  <2>1. /\ Explains(op, row)
        /\ \A p \in Requests : Open(p) /\ ~Late(p) =>
              Explains(op, want[p]) /\ (pc[p] = "write" => base[p] = row)
    BY <1>2, <1>4 DEF IInv, ExplainedHeld
  <2>2. \A p \in Requests : Explains(op, want[p]) => Explains(op, want'[p])
    BY <1>3 DEF Explains
  <2>3. QED  BY <1>1, <1>2, <2>1, <2>2
<1>13. QED
  BY <1>5, <1>6, <1>7, <1>8, <1>9, <1>10, <1>11, <1>12 DEF IInv

LEMMA TicketAnswersStep ==
    ASSUME IInv, NEW q \in Requests, TicketAnswers(q)
    PROVE  IInv'
<1>1. /\ pc[q] = "ticket" /\ want' = [want EXCEPT ![q] = [want[q] EXCEPT !.ticket = q]]
      /\ pc' = [pc EXCEPT ![q] = "update"] /\ base' = base
      /\ row' = row /\ op' = op /\ readAt' = readAt /\ wroteAt' = wroteAt /\ now' = now
  BY DEF TicketAnswers
<1>2. Open(q) /\ want[q] \in Rows
  BY <1>1 DEF IInv, Clocked, Open
<1> DEFINE new == [want[q] EXCEPT !.ticket = q]
<1>3. /\ new \in Rows /\ new.history = want[q].history
      /\ new.status = want[q].status /\ new.comments = want[q].comments
  BY <1>2 DEF Rows
<1> HIDE DEF new
<1>4. /\ want' \in [Requests -> Rows \cup {NoRow}] /\ base' \in [Requests -> Rows \cup {NoRow}]
      /\ want'[q] = new /\ \A p \in Requests : p # q => want'[p] = want[p] /\ base'[p] = base[p]
  BY <1>1, <1>3 DEF IInv, TypeOK, new
<1>5. QED  BY <1>1, <1>2, <1>3, <1>4, QuietStep

LEMMA TicketFailsStep ==
    ASSUME IInv, NEW q \in Requests, TicketFails(q)
    PROVE  IInv'
<1>1. /\ pc[q] = "ticket" /\ want' = want /\ base' = base /\ pc' = [pc EXCEPT ![q] = "failed"]
      /\ row' = row /\ op' = op /\ readAt' = readAt /\ wroteAt' = wroteAt /\ now' = now
  BY DEF TicketFails
<1>2. Open(q) /\ want[q] \in Rows
  BY <1>1 DEF IInv, Clocked, Open
<1>3. want' \in [Requests -> Rows \cup {NoRow}] /\ base' \in [Requests -> Rows \cup {NoRow}]
  BY <1>1 DEF IInv, TypeOK
<1>4. QED  BY <1>1, <1>2, <1>3, QuietStep

LEMMA LoadStep ==
    ASSUME IInv, NEW q \in Requests, Load(q)
    PROVE  IInv'
<1>1. /\ pc[q] = "update" /\ want' = want /\ base' = [base EXCEPT ![q] = row]
      /\ pc' = [pc EXCEPT ![q] = "write"]
      /\ row' = row /\ op' = op /\ readAt' = readAt /\ wroteAt' = wroteAt /\ now' = now
  BY DEF Load
<1>2. Open(q) /\ want[q] \in Rows
  BY <1>1 DEF IInv, Clocked, Open
<1>3. /\ want' \in [Requests -> Rows \cup {NoRow}] /\ base' \in [Requests -> Rows \cup {NoRow}]
      /\ base'[q] = row /\ \A p \in Requests : p # q => base'[p] = base[p]
  BY <1>1 DEF IInv, TypeOK
<1>4. QED  BY <1>1, <1>2, <1>3, QuietStep

\* A column is the one the request holds, or the one in place.
LEMMA Written ==
    ASSUME NEW w \in Rows, NEW b \in Rows, NEW r \in Rows, NEW x,
           x = [f \in Columns |-> IF w[f] # b[f] THEN w[f] ELSE r[f]]
    PROVE  /\ x \in Rows
           /\ x.history = IF w.history # b.history THEN w.history ELSE r.history
           /\ x.comments \in {w.comments, r.comments}
           /\ b = r => x = w
<1>1. x \in Rows
  BY DEF Rows, Columns
<1>2. x.history = IF w.history # b.history THEN w.history ELSE r.history
  BY DEF Rows, Columns
<1>3. x.comments \in {w.comments, r.comments}
  BY DEF Rows, Columns
<1>4. ASSUME b = r PROVE x = w
  <2>1. x = [f \in Columns |-> w[f]]
    BY <1>4
  <2>2. w = [f \in Columns |-> w[f]]
    BY DEF Rows, Columns
  <2>3. QED  BY <2>1, <2>2
<1>5. QED  BY <1>1, <1>2, <1>3, <1>4

\* A write puts the history the request holds in place, or leaves the one
\* there is; whoever wrote since the request read is overlaid by it.
LEMMA WriteStep ==
    ASSUME IInv, NEW q \in Requests, Write(q)
    PROVE  IInv'
<1>1. /\ pc[q] = "write" /\ pc' = [pc EXCEPT ![q] = "done"]
      /\ row' = [f \in Columns |-> IF want[q][f] # base[q][f] THEN want[q][f] ELSE row[f]]
      /\ wroteAt' = [wroteAt EXCEPT ![q] = now] /\ now' = now + 1
      /\ op' = op /\ want' = want /\ base' = base /\ readAt' = readAt
  BY DEF Write
<1>2. /\ Open(q) /\ want[q] \in Rows /\ base[q] \in Rows /\ row \in Rows /\ row # NoRow
  BY <1>1 DEF IInv, TypeOK, Clocked, Open
<1>3. /\ row' \in Rows
      /\ row'.history = IF want[q].history # base[q].history THEN want[q].history ELSE row.history
      /\ row'.comments \in {want[q].comments, row.comments}
      /\ base[q] = row => row' = want[q]
  BY <1>1, <1>2, Written
<1>4. /\ pc'[q] = "done" /\ wroteAt'[q] = now
      /\ \A p \in Requests : p # q => pc'[p] = pc[p] /\ wroteAt'[p] = wroteAt[p]
      /\ pc' \in [Requests -> {"idle", "refused", "failed", "ticket", "update", "write", "done"}]
      /\ wroteAt' \in [Requests -> Nat] /\ now' \in Nat /\ now \in Nat
      /\ \A p \in Requests : readAt[p] \in Nat /\ wroteAt[p] \in Nat
  BY <1>1 DEF IInv, TypeOK
<1>5. \A p \in Requests : readAt[p] < now /\ wroteAt[p] < now
  BY DEF IInv, Clocked
<1>6. /\ \A p \in Requests : Open(p)' => Open(p) /\ p # q /\ pc'[p] = pc[p]
      /\ \A p \in Requests : pc[p] = "done" => pc'[p] = "done" /\ p # q
      /\ \A p \in Requests : pc'[p] = "done" => p = q \/ pc[p] = "done"
      /\ \A p \in Requests : pc'[p] = "idle" <=> pc[p] = "idle"
      /\ \A p \in Requests : Maker(p)' <=> Maker(p)
  BY <1>1, <1>4 DEF Open, Maker
<1>7. ASSUME NEW r \in Requests, Overlaid(r) PROVE Overlaid(r)'
  <2>1. pc[r] = "done"
    BY <1>7, OverlaidIsDone DEF IInv
  <2>2. PICK p \in Requests : pc[p] = "done" /\ readAt[p] < wroteAt[r] /\ wroteAt[r] < wroteAt[p]
    BY <1>7 DEF Overlaid
  <2>3. pc'[p] = "done" /\ readAt'[p] < wroteAt'[r] /\ wroteAt'[r] < wroteAt'[p]
    BY <1>1, <1>4, <1>6, <2>1, <2>2
  <2>4. QED  BY <2>3 DEF Overlaid
<1>8. ASSUME NEW r \in Requests, pc[r] = "done", readAt[q] < wroteAt[r] PROVE Overlaid(r)'
  <2>1. pc'[q] = "done" /\ readAt'[q] < wroteAt'[r] /\ wroteAt'[r] < wroteAt'[q]
    BY <1>1, <1>4, <1>5, <1>6, <1>8
  <2>2. QED  BY <2>1 DEF Overlaid
<1>9. \A p \in Requests : Late(p)'
  BY <1>1, <1>4, <1>5 DEF Late
<1>10. row' # NoRow
  BY <1>3, NoRowAssumption
<1>11. TypeOK'
  BY <1>1, <1>3, <1>4 DEF IInv, TypeOK
<1>12. Clocked'
  <2>1. \A p \in Requests : readAt'[p] < now' /\ wroteAt'[p] < now'
    BY <1>1, <1>4, <1>5
  <2>2. \A p \in Requests : Open(p)' \/ pc'[p] = "done" => want'[p] \in Rows
    BY <1>1, <1>2, <1>6 DEF IInv, Clocked
  <2>3. \A p \in Requests : pc'[p] = "write" => base'[p] \in Rows
    BY <1>1, <1>4 DEF IInv, Clocked
  <2>4. \A r \in Requests : pc[r] # "done" /\ wroteAt[r] # 0 =>
            \A p \in Requests : pc[p] # "idle" => wroteAt[r] =< readAt[p]
    BY DEF IInv, Clocked
  <2>5. \A r \in Requests : pc'[r] # "done" /\ wroteAt'[r] # 0 =>
            \A p \in Requests : pc'[p] # "idle" => wroteAt'[r] =< readAt'[p]
    BY <1>1, <1>4, <1>6, <2>4
  <2>6. QED  BY <1>10, <2>1, <2>2, <2>3, <2>5 DEF Clocked
<1>13. RequestsKnown'
  <2>1. \A p \in Requests : op[p].about = 0 \/ pc'[op[p].about] # "idle"
    <3>1. \A p \in Requests : op[p].about \in Requests \cup {0}
      BY DEF IInv, TypeOK, Ops
    <3>2. QED  BY <1>6, <3>1 DEF IInv, RequestsKnown
  <2>2. \A c \in DOMAIN row'.comments : pc'[c] # "idle"
    <3>1. /\ \A c \in DOMAIN row.comments : c \in Requests /\ pc[c] # "idle"
          /\ \A c \in DOMAIN want[q].comments : c \in Requests /\ pc[c] # "idle"
      BY <1>2, RowParts DEF IInv, RequestsKnown, Known
    <3>2. QED  BY <1>3, <1>6, <3>1
  <2>3. ASSUME NEW p \in Requests, Open(p)' PROVE \A c \in DOMAIN want[p].comments : pc'[c] # "idle"
    <3>1. Open(p) /\ want[p] \in Rows
      BY <1>6, <2>3 DEF IInv, Clocked
    <3>2. \A c \in DOMAIN want[p].comments : c \in Requests /\ pc[c] # "idle"
      BY <3>1, RowParts DEF IInv, RequestsKnown, Known
    <3>3. QED  BY <1>6, <3>2
  <2>4. QED  BY <1>1, <1>6, <2>1, <2>2, <2>3 DEF RequestsKnown, Known, IInv
<1>14. EventsKnown'
  <2>1. \A r \in Events(row.history) : r \in Requests /\ (pc[r] = "done" \/ Maker(r))
    BY <1>2, RowParts DEF IInv, EventsKnown
  <2>2. ASSUME NEW p \in Requests, Open(p), NEW r \in Events(want[p].history)
        PROVE  r = p \/ pc'[r] = "done" \/ Maker(r)'
    <3>1. want[p] \in Rows
      BY <2>2 DEF IInv, Clocked
    <3>2. r \in Requests
      BY <2>2, <3>1, RowParts
    <3>3. QED  BY <1>6, <2>2, <3>2 DEF IInv, EventsKnown
  <2>3. \A r \in Events(row'.history) : pc'[r] = "done" \/ Maker(r)'
    BY <1>2, <1>3, <1>4, <1>6, <2>1, <2>2
  <2>4. QED  BY <1>1, <1>6, <2>2, <2>3 DEF EventsKnown, IInv, Open
<1>15. MakerKept'
  <2>1. ASSUME NEW r \in Requests, Maker(r)
        PROVE  r \in Events(row.history) /\ r \in Events(want[q].history)
    BY <1>2, <2>1 DEF IInv, MakerKept
  <2>2. QED  BY <1>1, <1>3, <1>6, <1>10, <2>1 DEF IInv, MakerKept
<1>16. EventsKept'
  <2> SUFFICES ASSUME NEW p \in Requests, NEW r \in Requests, Open(p)', pc'[r] = "done",
                      r \in Events(want[r].history)
               PROVE  r \in Events(want[p].history) \/ Overlaid(r)' \/ readAt[p] < wroteAt'[r]
    BY <1>1 DEF EventsKept
  <2>1. CASE r = q
    BY <1>4, <1>5, <2>1
  <2>2. CASE r # q
    <3>1. pc[r] = "done" /\ Open(p) /\ wroteAt'[r] = wroteAt[r]
      BY <1>4, <1>6, <2>2
    <3>2. QED  BY <1>7, <3>1 DEF IInv, EventsKept
  <2>3. QED  BY <2>1, <2>2
<1>17. LostEventWasOverlaid'
  <2> SUFFICES ASSUME NEW r \in Requests, pc'[r] = "done", r \in Events(want[r].history)
               PROVE  r \in Events(row'.history) \/ Overlaid(r)'
    BY <1>1 DEF LostEventWasOverlaid
  <2>1. CASE r = q
    <3>1. CASE Maker(q)
      BY <1>3, <2>1, <3>1 DEF IInv, MakerKept
    <3>2. CASE ~Maker(q)
      BY <1>1, <1>3, <2>1, <3>2 DEF IInv, EventsKnown
    <3>3. QED  BY <3>1, <3>2
  <2>2. CASE r # q
    <3>1. pc[r] = "done"
      BY <1>6, <2>2
    <3>2. r \in Events(row.history) \/ Overlaid(r)
      BY <3>1 DEF IInv, LostEventWasOverlaid
    <3>3. r \in Events(want[q].history) \/ Overlaid(r) \/ readAt[q] < wroteAt[r]
      BY <1>2, <3>1 DEF IInv, EventsKept
    <3>4. QED  BY <1>3, <1>7, <1>8, <3>1, <3>2, <3>3
  <2>3. QED  BY <2>1, <2>2
<1>18. LockHeld'
  <2>1. LockFine(op, row'.history)
    BY <1>2, <1>3 DEF IInv, LockHeld
  <2>2. QED  BY <1>1, <1>6, <2>1 DEF IInv, LockHeld
<1>19. ExplainedHeld'
  <2> SUFFICES ASSUME \A r \in Requests : ~Overlaid(r)'
               PROVE  Explains(op', row')
    BY <1>9 DEF ExplainedHeld
  <2>1. ~Late(q)
    BY <1>8 DEF Late
  <2>2. \A r \in Requests : ~Overlaid(r)
    BY <1>7
  <2>3. Explains(op, want[q]) /\ base[q] = row
    BY <1>1, <1>2, <2>1, <2>2 DEF IInv, ExplainedHeld
  <2>4. QED  BY <1>1, <1>3, <2>3
<1>20. QED
  BY <1>11, <1>12, <1>13, <1>14, <1>15, <1>16, <1>17, <1>18, <1>19 DEF IInv

-----------------------------------------------------------------------------
LEMMA InitInvariant == Init => IInv
<1> SUFFICES ASSUME Init PROVE IInv
  OBVIOUS
<1>1. /\ row = NoRow /\ now = 1
      /\ \A q \in Requests : /\ pc[q] = "idle" /\ op[q] = NoOp /\ readAt[q] = 0 /\ wroteAt[q] = 0
  BY DEF Init
<1>2. NoOp \in Ops /\ NoOp.kind = "none" /\ NoOp.about = 0
  BY IncidentAssumption DEF NoOp, Ops
<1>3. TypeOK
  BY <1>1, <1>2 DEF Init, TypeOK
<1>4. Clocked
  BY <1>1 DEF Clocked, Open
<1>5. RequestsKnown /\ EventsKnown /\ MakerKept
  BY <1>1, <1>2 DEF RequestsKnown, EventsKnown, MakerKept, Open, Maker
<1>6. EventsKept /\ LostEventWasOverlaid /\ LockHeld /\ ExplainedHeld
  BY <1>1 DEF EventsKept, LostEventWasOverlaid, LockHeld, ExplainedHeld, Open
<1>7. QED  BY <1>3, <1>4, <1>5, <1>6 DEF IInv

LEMMA StepInvariant == IInv /\ [Next]_vars => IInv'
<1> SUFFICES ASSUME IInv, [Next]_vars PROVE IInv'
  OBVIOUS
<1>1. CASE Next
  <2>1. PICK q \in Requests :
            \/ \E t \in BOOLEAN : Create(q, t)
            \/ TicketAnswers(q) \/ TicketFails(q)
            \/ Load(q) \/ Write(q)
            \/ \E u \in Users :
                  \/ \E to \in Statuses, b \in BOOLEAN : Patch(q, u, to, b)
                  \/ CreateComment(q, u)
                  \/ \E k \in Kinds : SetCommentsLock(q, u, k)
                  \/ \E k \in Kinds, c \in Requests : ChangeComment(q, u, k, c)
    BY <1>1 DEF Next
  <2>2. CASE \E t \in BOOLEAN : Create(q, t)
    BY <2>2, CreateStep
  <2>3. CASE TicketAnswers(q) \/ TicketFails(q)
    BY <2>3, TicketAnswersStep, TicketFailsStep
  <2>4. CASE Load(q) \/ Write(q)
    BY <2>4, LoadStep, WriteStep
  <2>5. ASSUME NEW u \in Users, \E to \in Statuses, b \in BOOLEAN : Patch(q, u, to, b)
        PROVE  IInv'
    BY <2>5, PatchStep
  <2>6. ASSUME NEW u \in Users,
               CreateComment(q, u) \/ (\E k \in Kinds : SetCommentsLock(q, u, k))
        PROVE  IInv'
    BY <2>6, CreateCommentStep, SetCommentsLockStep
  <2>7. ASSUME NEW u \in Users, \E k \in Kinds, c \in Requests : ChangeComment(q, u, k, c)
        PROVE  IInv'
    BY <2>7, ChangeCommentStep
  <2>8. QED  BY <2>1, <2>2, <2>3, <2>4, <2>5, <2>6, <2>7
<1>2. CASE UNCHANGED vars
  BY <1>2 DEF vars, IInv, TypeOK, Clocked, RequestsKnown, EventsKnown, MakerKept, EventsKept,
              LostEventWasOverlaid, LockHeld, ExplainedHeld, Open, Maker, Late, Known, Overlaid
<1>3. QED  BY <1>1, <1>2

\* The invariant above: what each request under way holds of the events,
\* the lock and the explanation, whatever the others do between its reading
\* and its writing.
THEOREM Invariant == Spec => []IInv
  BY InitInvariant, StepInvariant, PTL DEF Spec

\* An event of a request that was answered is missing from the history only
\* if another request read the row before that one wrote it and wrote it
\* afterwards (update_incident sets every column that differs).
THEOREM EventsAreKept == Spec => []LostEventWasOverlaid
<1>1. IInv => LostEventWasOverlaid
  BY DEF IInv
<1>2. QED  BY <1>1, Invariant, PTL

\* As long as no request is overlaid, the history explains the row: its
\* status, its comments, and which of them are removed.
THEOREM Explained == Spec => []RowIsExplained
<1>1. IInv => RowIsExplained
  <2> SUFFICES ASSUME IInv, row # NoRow, \A q \in Requests : ~Overlaid(q) PROVE HistoryExplainsRow
    BY DEF RowIsExplained
  <2>1. Explains(op, row)
    BY DEF IInv, ExplainedHeld
  <2>2. QED  BY <2>1 DEF Explains, Told, CommentsTold, HistoryExplainsRow
<1>2. QED  BY <1>1, Invariant, PTL

\* Overlaid or not, no history has a comment after a lock and before the
\* next unlock (_incident_comments_locked).
THEOREM LockKept == Spec => []LockIsKept
<1>1. IInv => LockIsKept
  BY LockedSame DEF IInv, LockHeld, LockFine, LockIsKept
<1>2. QED  BY <1>1, Invariant, PTL
=============================================================================
