------------------------- MODULE RootCauseReviewProofs -------------------------
(***************************************************************************)
(* For every number of requests: what the review of a suggestion loses, it *)
(* loses to a request that read the row before and wrote it afterwards.    *)
(*                                                                         *)
(* The argument follows a request that is under way.  The row in its hands *)
(* holds the events of all requests that wrote before it read, but for     *)
(* those that were overlaid already; the requests that wrote since then it *)
(* will overlay itself.  The same goes for the record of an assistance,    *)
(* and for the status as long as nobody wrote since it read.               *)
(***************************************************************************)
EXTENDS RootCauseReview, TLAPS

Ev(h) == {h[n] : n \in DOMAIN h}
Open(p) == pc[p] \in {"support", "update", "write"}

\* Somebody wrote after p read.
Late(p) == \E q \in Requests : pc[q] = "done" /\ readAt[p] < wroteAt[q]

Clocked ==
    /\ now \in Nat
    /\ readAt \in [Requests -> Nat] /\ wroteAt \in [Requests -> Nat]
    /\ \A q \in Requests : readAt[q] < now /\ wroteAt[q] < now
    /\ \A q \in Requests : pc[q] # "done" => wroteAt[q] = 0
    /\ DOMAIN want = Requests /\ DOMAIN base = Requests

KindsOpen ==
    \A p \in Requests :
        /\ Open(p) => kind[p] \in {"accepted", "rejected", "assistance_requested"}
        /\ pc[p] = "support" => kind[p] = "assistance_requested"
        /\ pc[p] = "idle" => kind[p] = "none"
        /\ p \in support => kind[p] = "assistance_requested" /\ pc[p] \notin {"idle", "refused"}

\* What the row, and the rows in the hands of requests, hold.
EventsKnown ==
    /\ \A r \in Ev(row.events) : pc[r] = "done"
    /\ \A p \in Requests : Open(p) =>
          /\ p \in Ev(want[p].events)
          /\ \A r \in Ev(want[p].events) : r = p \/ pc[r] = "done"
    /\ \A p \in Requests : pc[p] = "write" => p \notin Ev(base[p].events)

EventsKept ==
    \A p, q \in Requests :
        Open(p) /\ pc[q] = "done" =>
            q \in Ev(want[p].events) \/ Overlaid(q) \/ readAt[p] < wroteAt[q]

AssistanceKnown ==
    /\ row.assistance = 0 \/ pc[row.assistance] = "done"
    /\ \A p \in Requests : Open(p) /\ kind[p] = "assistance_requested" => want[p].assistance = p
    /\ \A p \in Requests : pc[p] = "write" => base[p].assistance # p
    /\ \A p \in Requests : Open(p) =>
          want[p].assistance \in {0, p} \/ pc[want[p].assistance] = "done"

Assisted(q) == pc[q] = "done" /\ kind[q] = "assistance_requested"

AssistanceKept ==
    /\ \A q \in Requests : Assisted(q) => row.assistance # 0 \/ Overlaid(q)
    /\ \A p, q \in Requests :
          Open(p) /\ Assisted(q) =>
              want[p].assistance # 0 \/ Overlaid(q) \/ readAt[p] < wroteAt[q]

AssistanceSeen ==
    \A p, q \in Requests :
        /\ Assisted(p) /\ p # q
        /\ kind[q] = "assistance_requested" /\ pc[q] \notin {"idle", "refused"}
        => readAt[q] < wroteAt[p] \/ Overlaid(p)

\* A request that nobody wrote after holds the row as it is.
StatusHeld ==
    \A p \in Requests :
        Open(p) =>
            /\ kind[p] # "assistance_requested" => want[p].status = kind[p]
            /\ kind[p] = "assistance_requested" /\ ~Late(p) => want[p].status = row.status
            /\ pc[p] = "write" /\ ~Late(p) => base[p] = row

IInv ==
    /\ TypeOK /\ Clocked /\ KindsOpen
    /\ EventsKnown /\ EventsKept /\ LostEventWasOverlaid
    /\ AssistanceKnown /\ AssistanceKept /\ AssistanceSeen
    /\ StatusHeld /\ UndoneDecisionWasOverlaid
-----------------------------------------------------------------------------
\* An event that is appended is there, with all that were.
LEMMA EvAppend ==
    ASSUME NEW S, NEW h \in Seq(S), NEW q \in S
    PROVE  Ev(Append(h, q)) = Ev(h) \cup {q}
<1>1. /\ DOMAIN Append(h, q) = 1..(Len(h) + 1)
      /\ \A n \in 1..Len(h) : Append(h, q)[n] = h[n]
      /\ Append(h, q)[Len(h) + 1] = q
      /\ DOMAIN h = 1..Len(h) /\ Len(h) \in Nat
  OBVIOUS
<1>2. QED  BY <1>1 DEF Ev

\* What a step leaves of the requests that are done.
DoneStays ==
    \A p \in Requests :
        pc[p] = "done" => pc'[p] = "done" /\ readAt'[p] = readAt[p] /\ wroteAt'[p] = wroteAt[p]

LEMMA OverlaidStays ==
    ASSUME DoneStays, NEW q \in Requests, pc[q] = "done", Overlaid(q)
    PROVE  Overlaid(q)'
<1>1. PICK p \in Requests :
          pc[p] = "done" /\ readAt[p] < wroteAt[q] /\ wroteAt[q] < wroteAt[p]
  BY DEF Overlaid
<1>2. pc'[p] = "done" /\ readAt'[p] < wroteAt'[q] /\ wroteAt'[q] < wroteAt'[p]
  BY <1>1 DEF DoneStays
<1>3. QED  BY <1>2 DEF Overlaid

-----------------------------------------------------------------------------
\* Requests that come in.
LEMMA RefuseStep ==
    ASSUME IInv, NEW q \in Requests, NEW k \in {"accepted", "rejected", "assistance_requested"},
           Ask(q, k), pc' = [pc EXCEPT ![q] = "refused"], UNCHANGED want
    PROVE  IInv'
<1>1. /\ pc[q] = "idle" /\ kind' = [kind EXCEPT ![q] = k]
      /\ readAt' = [readAt EXCEPT ![q] = now] /\ now' = now + 1
      /\ UNCHANGED <<row, base, support, wroteAt, want>>
  BY DEF Ask, IsNext
<1>2. TypeOK'
  BY <1>1 DEF IInv, TypeOK, Kinds, IsRow
<1>3. Clocked'
  BY <1>1 DEF IInv, Clocked, TypeOK
<1>4. DoneStays
  BY <1>1 DEF DoneStays, IInv, Clocked, TypeOK
<1>5. /\ \A p \in Requests : Open(p)' => Open(p) /\ p # q
      /\ \A p \in Requests : pc'[p] = "done" => pc[p] = "done" /\ p # q
      /\ \A p \in Requests : p # q => pc'[p] = pc[p] /\ kind'[p] = kind[p] /\ readAt'[p] = readAt[p]
      /\ pc'[q] = "refused" /\ kind'[q] = k
  BY <1>1 DEF IInv, TypeOK, Clocked, Open
<1>6. KindsOpen'
  BY <1>1, <1>5 DEF IInv, KindsOpen, Open, TypeOK
<1>7. EventsKnown'
  <2>1. \A r \in Ev(row.events) : r \in Requests
    BY DEF IInv, TypeOK, IsRow, Ev
  <2>2. \A p \in Requests : \A r \in Ev(want[p].events) : r \in Requests
    BY DEF IInv, TypeOK, IsRow, Ev
  <2>3. QED  BY <1>1, <1>5, <2>1, <2>2 DEF IInv, EventsKnown, Open
<1>8. EventsKept'
  BY <1>1, <1>4, <1>5, OverlaidStays DEF IInv, EventsKept
<1>9. LostEventWasOverlaid'
  BY <1>1, <1>4, <1>5, OverlaidStays DEF IInv, LostEventWasOverlaid
<1>10. AssistanceKnown'
  BY <1>1, <1>5 DEF IInv, AssistanceKnown, TypeOK, IsRow, Open
<1>11. AssistanceKept'
  BY <1>1, <1>4, <1>5, OverlaidStays DEF IInv, AssistanceKept, Assisted
<1>12. AssistanceSeen'
  BY <1>1, <1>4, <1>5, OverlaidStays DEF IInv, AssistanceSeen, Assisted
<1>13. \A p \in Requests : p # q => (Late(p)' <=> Late(p))
  BY <1>1, <1>5 DEF Late
<1>14. StatusHeld'
  BY <1>1, <1>5, <1>13 DEF IInv, StatusHeld, Open
<1>15. UndoneDecisionWasOverlaid'
  <2>1. \A p \in Requests : Decided(p)' <=> Decided(p)
    BY <1>1, <1>4, <1>5 DEF Decided, DoneStays
  <2>2. (\E r \in Requests : Overlaid(r)) => \E r \in Requests : Overlaid(r)'
    BY <1>1, <1>5, <1>4 DEF Overlaid, DoneStays
  <2>3. \A p \in Requests : Decided(p) => kind'[p] = kind[p]
    BY <1>1, <1>5 DEF Decided
  <2>4. QED  BY <1>1, <2>1, <2>2, <2>3 DEF IInv, UndoneDecisionWasOverlaid
<1>16. QED
  BY <1>2, <1>3, <1>6, <1>7, <1>8, <1>9, <1>10, <1>11, <1>12, <1>14, <1>15 DEF IInv

\* A request that goes on holds the row it read, with its own change.
LEMMA BeginStep ==
    ASSUME IInv, NEW q \in Requests, NEW k \in {"accepted", "rejected", "assistance_requested"},
           NEW s \in {"support", "update"}, NEW new,
           Ask(q, k), pc' = [pc EXCEPT ![q] = s], want' = [want EXCEPT ![q] = new],
           IsRow(new), new.events = Append(row.events, q),
           k = "assistance_requested" =>
               row.assistance = 0 /\ new.assistance = q /\ new.status = row.status,
           k # "assistance_requested" =>
               s = "update" /\ new.assistance = row.assistance /\ new.status = k
    PROVE  IInv'
<1>1. /\ pc[q] = "idle" /\ kind' = [kind EXCEPT ![q] = k]
      /\ readAt' = [readAt EXCEPT ![q] = now] /\ now' = now + 1
      /\ UNCHANGED <<row, base, support, wroteAt>>
  BY DEF Ask, IsNext
<1>2. Ev(new.events) = Ev(row.events) \cup {q}
  BY EvAppend DEF IInv, TypeOK, IsRow
<1>3. TypeOK'
  BY <1>1 DEF IInv, TypeOK, Kinds, Clocked, IsRow
<1>4. Clocked'
  BY <1>1 DEF IInv, Clocked, TypeOK
<1>5. DoneStays
  BY <1>1 DEF DoneStays, IInv, Clocked, TypeOK
<1>6. /\ \A p \in Requests : p # q =>
             /\ pc'[p] = pc[p] /\ kind'[p] = kind[p] /\ readAt'[p] = readAt[p]
             /\ want'[p] = want[p] /\ (Open(p)' <=> Open(p))
      /\ pc'[q] = s /\ kind'[q] = k /\ readAt'[q] = now /\ want'[q] = new
      /\ \A p \in Requests : pc'[p] = "done" <=> pc[p] = "done"
  BY <1>1 DEF IInv, TypeOK, Clocked, Open
<1>7. KindsOpen'
  BY <1>1, <1>6 DEF IInv, KindsOpen, Open, TypeOK
<1>8. EventsKnown'
  <2>1. \A r \in Ev(row.events) : r \in Requests
    BY DEF IInv, TypeOK, IsRow, Ev
  <2>2. \A p \in Requests : \A r \in Ev(want[p].events) : r \in Requests
    BY DEF IInv, TypeOK, IsRow, Ev
  <2>3. \A r \in Ev(row.events) : pc'[r] = "done"
    BY <1>6, <2>1 DEF IInv, EventsKnown
  <2>4. \A p \in Requests : Open(p)' =>
            /\ p \in Ev(want'[p].events)
            /\ \A r \in Ev(want'[p].events) : r = p \/ pc'[r] = "done"
    <3>1. SUFFICES ASSUME NEW p \in Requests, Open(p)'
                   PROVE  /\ p \in Ev(want'[p].events)
                          /\ \A r \in Ev(want'[p].events) : r = p \/ pc'[r] = "done"
      OBVIOUS
    <3>2. CASE p = q
      <4>1. want'[p].events = new.events
        BY <1>6, <3>2
      <4>2. Ev(want'[p].events) = Ev(row.events) \cup {p}
        BY <1>2, <3>2, <4>1
      <4>3. QED  BY <2>3, <4>2
    <3>3. CASE p # q
      BY <1>6, <2>2, <3>1, <3>3 DEF IInv, EventsKnown
    <3>4. QED  BY <3>2, <3>3
  <2>5. \A p \in Requests : pc'[p] = "write" => p \notin Ev(base'[p].events)
    BY <1>1, <1>6 DEF IInv, EventsKnown
  <2>6. QED  BY <1>1, <2>3, <2>4, <2>5 DEF EventsKnown
<1>9. LostEventWasOverlaid'
  BY <1>1, <1>5, <1>6, OverlaidStays DEF IInv, LostEventWasOverlaid
<1>10. EventsKept'
  <2>1. \A r \in Requests : pc[r] = "done" => r \in Ev(row.events) \/ Overlaid(r)
    BY DEF IInv, LostEventWasOverlaid, Ev
  <2>2. SUFFICES ASSUME NEW p \in Requests, NEW r \in Requests, Open(p)', pc'[r] = "done"
                 PROVE  r \in Ev(want'[p].events) \/ Overlaid(r)' \/ readAt'[p] < wroteAt'[r]
    BY DEF EventsKept
  <2>3. CASE p = q
    BY <1>2, <1>5, <1>6, <2>1, <2>2, <2>3, OverlaidStays
  <2>4. CASE p # q
    BY <1>1, <1>5, <1>6, <2>2, <2>4, OverlaidStays DEF IInv, EventsKept
  <2>5. QED  BY <2>3, <2>4
<1>11. AssistanceKnown'
  BY <1>1, <1>6 DEF IInv, AssistanceKnown, TypeOK, IsRow, Open
<1>12. AssistanceKept'
  <2>1. \A r \in Requests : Assisted(r)' <=> Assisted(r)
    BY <1>1, <1>6 DEF Assisted
  <2>2. \A r \in Requests : Assisted(r) => row'.assistance # 0 \/ Overlaid(r)'
    BY <1>1, <1>5, OverlaidStays DEF IInv, AssistanceKept, Assisted
  <2>3. q # 0
    BY DEF Requests
  <2>4. SUFFICES ASSUME NEW p \in Requests, NEW r \in Requests, Open(p)', Assisted(r)
                 PROVE  want'[p].assistance # 0 \/ Overlaid(r)' \/ readAt'[p] < wroteAt'[r]
    BY <2>1, <2>2 DEF AssistanceKept
  <2>5. CASE p = q
    BY <1>1, <1>6, <2>2, <2>3, <2>4, <2>5
  <2>6. CASE p # q
    BY <1>1, <1>5, <1>6, <2>4, <2>6, OverlaidStays DEF IInv, AssistanceKept, Assisted
  <2>7. QED  BY <2>5, <2>6
<1>13. AssistanceSeen'
  <2>1. SUFFICES ASSUME NEW p \in Requests, NEW r \in Requests, Assisted(p)', p # r,
                        kind'[r] = "assistance_requested", pc'[r] \notin {"idle", "refused"}
                 PROVE  readAt'[r] < wroteAt'[p] \/ Overlaid(p)'
    BY DEF AssistanceSeen
  <2>2. Assisted(p) /\ p # q /\ wroteAt'[p] = wroteAt[p]
    BY <1>1, <1>6, <2>1 DEF Assisted
  <2>3. CASE r = q
    BY <1>5, <1>6, <2>1, <2>2, <2>3, OverlaidStays DEF IInv, AssistanceKept, Assisted
  <2>4. CASE r # q
    BY <1>5, <1>6, <2>1, <2>2, <2>4, OverlaidStays DEF IInv, AssistanceSeen, Assisted
  <2>5. QED  BY <2>3, <2>4
<1>14. StatusHeld'
  <2>1. \A p \in Requests : p # q => (Late(p)' <=> Late(p))
    BY <1>1, <1>6 DEF Late
  <2>2. QED  BY <1>1, <1>6, <2>1 DEF IInv, StatusHeld, Open
<1>15. UndoneDecisionWasOverlaid'
  <2>1. \A p \in Requests : Decided(p)' <=> Decided(p)
    BY <1>1, <1>6 DEF Decided
  <2>2. (\E r \in Requests : Overlaid(r)) => \E r \in Requests : Overlaid(r)'
    BY <1>1, <1>5, <1>6 DEF Overlaid, DoneStays
  <2>3. \A p \in Requests : Decided(p) => kind'[p] = kind[p]
    BY <1>1, <1>6 DEF Decided
  <2>4. QED  BY <1>1, <2>1, <2>2, <2>3 DEF IInv, UndoneDecisionWasOverlaid
<1>16. QED
  BY <1>3, <1>4, <1>7, <1>8, <1>9, <1>10, <1>11, <1>12, <1>13, <1>14, <1>15 DEF IInv

\* The outside call, and the load of the row.
LEMMA QuietStep ==
    ASSUME IInv, NEW q \in Requests, SupportAnswers(q) \/ SupportFails(q) \/ Load(q)
    PROVE  IInv'
<1>1. /\ pc[q] \in {"support", "update"}
      /\ UNCHANGED <<row, kind, want, readAt, wroteAt, now>>
      /\ pc' \in {[pc EXCEPT ![q] = "update"], [pc EXCEPT ![q] = "failed"], [pc EXCEPT ![q] = "write"]}
  BY DEF SupportAnswers, SupportFails, Load
<1>2. /\ support' \subseteq support \cup {q}
      /\ (q \in support' => q \in support \/ pc[q] = "support")
      /\ base' = base \/ base' = [base EXCEPT ![q] = row]
      /\ pc'[q] = "write" => base' = [base EXCEPT ![q] = row]
      /\ pc'[q] = "support" => FALSE
  BY DEF SupportAnswers, SupportFails, Load, IInv, TypeOK
<1>3. TypeOK'
  BY <1>1, <1>2 DEF IInv, TypeOK, Clocked, IsRow
<1>4. Clocked'
  BY <1>1, <1>2 DEF IInv, Clocked, TypeOK
<1>5. DoneStays
  BY <1>1 DEF DoneStays, IInv, TypeOK
<1>6. /\ \A p \in Requests : p # q => pc'[p] = pc[p] /\ base'[p] = base[p]
      /\ \A p \in Requests : Open(p)' => Open(p)
      /\ \A p \in Requests : pc'[p] = "done" <=> pc[p] = "done"
      /\ pc'[q] \in {"update", "failed", "write"}
  BY <1>1, <1>2 DEF IInv, TypeOK, Clocked, Open
<1>7. KindsOpen'
  BY <1>1, <1>2, <1>6 DEF IInv, KindsOpen, Open
<1>8. \A p \in Requests : Overlaid(p)' <=> Overlaid(p)
  BY <1>1, <1>6 DEF Overlaid
<1>9. \A p \in Requests : (Late(p)' <=> Late(p)) /\ (Assisted(p)' <=> Assisted(p))
  BY <1>1, <1>6 DEF Late, Assisted
<1>10. EventsKnown'
  <2>1. \A r \in Ev(row.events) : r \in Requests
    BY DEF IInv, TypeOK, IsRow, Ev
  <2>2. \A p \in Requests : \A r \in Ev(want[p].events) : r \in Requests
    BY DEF IInv, TypeOK, IsRow, Ev
  <2>3. q \notin Ev(row.events)
    BY <1>1, <2>1 DEF IInv, EventsKnown
  <2>4. pc'[q] = "write" => base'[q] = row
    BY <1>2 DEF IInv, Clocked
  <2>5. QED  BY <1>1, <1>6, <2>1, <2>2, <2>3, <2>4 DEF IInv, EventsKnown
<1>11. EventsKept' /\ LostEventWasOverlaid'
  BY <1>1, <1>6, <1>8 DEF IInv, EventsKept, LostEventWasOverlaid
<1>12. AssistanceKnown'
  <2>1. pc'[q] = "write" => base'[q] = row
    BY <1>2 DEF IInv, Clocked
  <2>2. row.assistance # q
    BY <1>1 DEF IInv, AssistanceKnown, Requests
  <2>3. \A p \in Requests : want[p].assistance \in Requests \cup {0}
    BY DEF IInv, TypeOK, IsRow
  <2>4. row.assistance = 0 \/ pc'[row.assistance] = "done"
    BY <1>6 DEF IInv, AssistanceKnown, TypeOK, IsRow
  <2>5. \A p \in Requests : pc'[p] = "write" => base'[p].assistance # p
    BY <1>6, <2>1, <2>2 DEF IInv, AssistanceKnown
  <2>6. \A p \in Requests : Open(p)' =>
            want'[p].assistance \in {0, p} \/ pc'[want'[p].assistance] = "done"
    BY <1>1, <1>6, <2>3 DEF IInv, AssistanceKnown
  <2>7. QED  BY <1>1, <1>6, <2>4, <2>5, <2>6 DEF IInv, AssistanceKnown
<1>13. AssistanceKept' /\ AssistanceSeen'
  BY <1>1, <1>6, <1>8, <1>9 DEF IInv, AssistanceKept, AssistanceSeen
<1>14. StatusHeld'
  <2>1. pc'[q] = "write" => base'[q] = row
    BY <1>2 DEF IInv, Clocked
  <2>2. QED  BY <1>1, <1>6, <1>9, <2>1 DEF IInv, StatusHeld
<1>15. UndoneDecisionWasOverlaid'
  BY <1>1, <1>6, <1>8 DEF IInv, UndoneDecisionWasOverlaid, Decided
<1>16. QED
  BY <1>3, <1>4, <1>7, <1>10, <1>11, <1>12, <1>13, <1>14, <1>15 DEF IInv

\* The write: who wrote since q read the row is overlaid by q.
LEMMA WriteStep ==
    ASSUME IInv, NEW q \in Requests, Write(q)
    PROVE  IInv'
<1>1. /\ pc[q] = "write" /\ pc' = [pc EXCEPT ![q] = "done"]
      /\ wroteAt' = [wroteAt EXCEPT ![q] = now] /\ now' = now + 1
      /\ UNCHANGED <<kind, want, base, support, readAt>>
  BY DEF Write
<1>2. /\ DOMAIN row' = Columns
      /\ row'.status = IF want[q].status # base[q].status THEN want[q].status ELSE row.status
      /\ row'.assistance = IF want[q].assistance # base[q].assistance
                           THEN want[q].assistance ELSE row.assistance
      /\ row'.events = IF want[q].events # base[q].events THEN want[q].events ELSE row.events
  BY DEF Write, Columns
<1>3. TypeOK'
  <2>1. IsRow(row')
    BY <1>2 DEF IInv, TypeOK, IsRow
  <2>2. QED  BY <1>1, <2>1 DEF IInv, TypeOK, IsRow
<1>4. Clocked'
  BY <1>1 DEF IInv, Clocked, TypeOK
<1>5. DoneStays
  BY <1>1 DEF DoneStays, IInv, Clocked, TypeOK
<1>6. /\ \A p \in Requests : p # q => pc'[p] = pc[p] /\ wroteAt'[p] = wroteAt[p]
      /\ \A p \in Requests : Open(p)' => Open(p) /\ p # q
      /\ \A p \in Requests : pc'[p] = "done" <=> pc[p] = "done" \/ p = q
      /\ pc'[q] = "done" /\ wroteAt'[q] = now /\ Open(q)
      /\ \A p \in Requests : readAt[p] < now /\ wroteAt[p] < now
      /\ \A p \in Requests : readAt[p] \in Nat /\ wroteAt[p] \in Nat
  BY <1>1 DEF IInv, TypeOK, Clocked, Open
<1>7. ASSUME NEW r \in Requests, pc[r] = "done", readAt[q] < wroteAt[r]
      PROVE  Overlaid(r)'
  BY <1>1, <1>6, <1>7 DEF Overlaid
<1>8. \A r \in Requests : Assisted(r)' <=> Assisted(r) \/ (r = q /\ kind[q] = "assistance_requested")
  BY <1>1, <1>6 DEF Assisted
<1>9. KindsOpen'
  BY <1>1, <1>6 DEF IInv, KindsOpen, Open
<1>10. EventsKnown'
  <2>1. \A r \in Ev(row.events) : r \in Requests
    BY DEF IInv, TypeOK, IsRow, Ev
  <2>2. \A p \in Requests : \A r \in Ev(want[p].events) : r \in Requests
    BY DEF IInv, TypeOK, IsRow, Ev
  <2>3. \A r \in Ev(row'.events) : pc'[r] = "done"
    BY <1>2, <1>6, <2>1, <2>2 DEF IInv, EventsKnown
  <2>4. \A p \in Requests : Open(p)' =>
            /\ p \in Ev(want'[p].events)
            /\ \A r \in Ev(want'[p].events) : r = p \/ pc'[r] = "done"
    BY <1>1, <1>6, <2>2 DEF IInv, EventsKnown
  <2>5. \A p \in Requests : pc'[p] = "write" => p \notin Ev(base'[p].events)
    BY <1>1, <1>6 DEF IInv, EventsKnown
  <2>6. QED  BY <2>3, <2>4, <2>5 DEF EventsKnown
<1>11. EventsKept'
  <2>1. SUFFICES ASSUME NEW p \in Requests, NEW r \in Requests, Open(p)', pc'[r] = "done"
                 PROVE  r \in Ev(want'[p].events) \/ Overlaid(r)' \/ readAt'[p] < wroteAt'[r]
    BY DEF EventsKept
  <2>2. CASE r = q
    BY <1>1, <1>6, <2>2
  <2>3. CASE r # q
    BY <1>1, <1>5, <1>6, <2>1, <2>3, OverlaidStays DEF IInv, EventsKept
  <2>4. QED  BY <2>2, <2>3
<1>12. LostEventWasOverlaid'
  <2>1. SUFFICES ASSUME NEW r \in Requests, pc'[r] = "done", ~Overlaid(r)'
                 PROVE  r \in Ev(row'.events)
    BY DEF LostEventWasOverlaid, Ev
  <2>2. CASE r = q
    <3>1. q \in Ev(want[q].events) /\ q \notin Ev(base[q].events)
      BY <1>1, <1>6 DEF IInv, EventsKnown
    <3>2. want[q].events # base[q].events
      BY <3>1
    <3>3. QED  BY <1>2, <2>2, <3>1, <3>2
  <2>3. CASE r # q
    <3>1. pc[r] = "done" /\ ~Overlaid(r) /\ ~(readAt[q] < wroteAt[r])
      BY <1>5, <1>6, <1>7, <2>1, <2>3, OverlaidStays
    <3>2. r \in Ev(want[q].events)
      BY <1>6, <3>1 DEF IInv, EventsKept
    <3>3. r \in Ev(row.events)
      BY <3>1 DEF IInv, LostEventWasOverlaid, Ev
    <3>4. QED  BY <1>2, <3>2, <3>3
  <2>4. QED  BY <2>2, <2>3
<1>13. AssistanceKnown'
  <2>1. \A p \in Requests : want[p].assistance \in Requests \cup {0}
    BY DEF IInv, TypeOK, IsRow
  <2>2. row.assistance = 0 \/ pc'[row.assistance] = "done"
    BY <1>6 DEF IInv, AssistanceKnown, TypeOK, IsRow
  <2>3. want[q].assistance = 0 \/ pc'[want[q].assistance] = "done"
    BY <1>6, <2>1 DEF IInv, AssistanceKnown
  <2>4. row'.assistance = 0 \/ pc'[row'.assistance] = "done"
    BY <1>2, <2>2, <2>3
  <2>5. \A p \in Requests : pc'[p] = "write" => base'[p].assistance # p
    BY <1>1, <1>6 DEF IInv, AssistanceKnown
  <2>6. \A p \in Requests : Open(p)' =>
            want'[p].assistance \in {0, p} \/ pc'[want'[p].assistance] = "done"
    BY <1>1, <1>6, <2>1 DEF IInv, AssistanceKnown
  <2>7. QED  BY <1>1, <1>6, <2>4, <2>5, <2>6 DEF IInv, AssistanceKnown
<1>14. AssistanceKept'
  <2>1. ASSUME NEW r \in Requests, Assisted(r)', ~Overlaid(r)'
        PROVE  row'.assistance # 0
    <3>1. CASE r = q
      <4>1. kind[q] = "assistance_requested"
        BY <1>1, <2>1, <3>1 DEF Assisted
      <4>2. want[q].assistance = q /\ base[q].assistance # q
        BY <1>1, <1>6, <4>1 DEF IInv, AssistanceKnown
      <4>3. QED  BY <1>2, <4>2 DEF Requests
    <3>2. CASE r # q
      <4>1. Assisted(r) /\ ~Overlaid(r) /\ ~(readAt[q] < wroteAt[r])
        BY <1>5, <1>6, <1>7, <1>8, <2>1, <3>2, OverlaidStays DEF Assisted
      <4>2. row.assistance # 0 /\ want[q].assistance # 0
        BY <1>6, <4>1 DEF IInv, AssistanceKept
      <4>3. QED  BY <1>2, <4>2
    <3>3. QED  BY <3>1, <3>2
  <2>2. ASSUME NEW p \in Requests, NEW r \in Requests, Open(p)', Assisted(r)'
        PROVE  want'[p].assistance # 0 \/ Overlaid(r)' \/ readAt'[p] < wroteAt'[r]
    <3>1. CASE r = q
      BY <1>1, <1>6, <3>1
    <3>2. CASE r # q
      BY <1>1, <1>5, <1>6, <1>8, <2>2, <3>2, OverlaidStays DEF IInv, AssistanceKept, Assisted
    <3>3. QED  BY <3>1, <3>2
  <2>3. QED  BY <2>1, <2>2 DEF AssistanceKept
<1>15. AssistanceSeen'
  <2>1. SUFFICES ASSUME NEW p \in Requests, NEW r \in Requests, Assisted(p)', p # r,
                        kind'[r] = "assistance_requested", pc'[r] \notin {"idle", "refused"}
                 PROVE  readAt'[r] < wroteAt'[p] \/ Overlaid(p)'
    BY DEF AssistanceSeen
  <2>2. CASE p = q
    BY <1>1, <1>6, <2>2
  <2>3. CASE p # q
    <3>1. Assisted(p) /\ pc[r] \notin {"idle", "refused"}
      BY <1>1, <1>6, <1>8, <2>1, <2>3
    <3>2. readAt[r] < wroteAt[p] \/ Overlaid(p)
      BY <1>1, <2>1, <3>1 DEF IInv, AssistanceSeen
    <3>3. QED  BY <1>1, <1>5, <1>6, <2>3, <3>1, <3>2, OverlaidStays DEF Assisted
  <2>4. QED  BY <2>2, <2>3
<1>16. StatusHeld'
  <2>1. \A p \in Requests : Late(p)'
    BY <1>1, <1>6 DEF Late
  <2>2. QED  BY <1>1, <1>6, <2>1 DEF IInv, StatusHeld
<1>17. UndoneDecisionWasOverlaid'
  <2>1. SUFFICES ASSUME NEW d \in Requests, Decided(d)',
                        \A p \in Requests : Decided(p)' => wroteAt'[p] <= wroteAt'[d],
                        \A r \in Requests : ~Overlaid(r)'
                 PROVE  row'.status = kind'[d]
    BY DEF UndoneDecisionWasOverlaid
  <2>2. ~Late(q)
    BY <1>7, <2>1 DEF Late
  <2>3. base[q] = row
    BY <1>1, <1>6, <2>2 DEF IInv, StatusHeld
  <2>4. row'.status = want[q].status
    BY <1>2, <2>3
  <2>5. CASE kind[q] # "assistance_requested"
    <3>1. want[q].status = kind[q]
      BY <1>6, <2>5 DEF IInv, StatusHeld
    <3>2. Decided(q)'
      BY <1>1, <1>6, <2>5 DEF IInv, KindsOpen, Decided
    <3>3. wroteAt'[q] <= wroteAt'[d]
      BY <2>1, <3>2
    <3>4. d = q
      BY <1>6, <3>3 DEF IInv, Clocked
    <3>5. QED  BY <1>1, <2>4, <3>1, <3>4
  <2>6. CASE kind[q] = "assistance_requested"
    <3>1. row'.status = row.status
      BY <1>6, <2>2, <2>4, <2>6 DEF IInv, StatusHeld
    <3>2. \A p \in Requests : (Decided(p)' <=> Decided(p)) /\ (Decided(p) => p # q)
      BY <1>1, <1>6, <2>6 DEF Decided
    <3>3. Decided(d) /\ \A p \in Requests : Decided(p) => wroteAt[p] <= wroteAt[d]
      BY <1>6, <2>1, <3>2
    <3>4. \A r \in Requests : Overlaid(r) => pc[r] = "done"
      BY DEF Overlaid, IInv, Clocked
    <3>5. \A r \in Requests : ~Overlaid(r)
      BY <1>5, <2>1, <3>4, OverlaidStays
    <3>6. row.status = kind[d]
      BY <3>3, <3>5 DEF IInv, UndoneDecisionWasOverlaid
    <3>7. QED  BY <1>1, <3>1, <3>6
  <2>7. QED  BY <2>5, <2>6
<1>18. QED
  BY <1>3, <1>4, <1>9, <1>10, <1>11, <1>12, <1>13, <1>14, <1>15, <1>16, <1>17 DEF IInv
-----------------------------------------------------------------------------
LEMMA InitIInv == Init => IInv
<1>1. SUFFICES ASSUME Init PROVE IInv
  OBVIOUS
<1>2. /\ row = NewRow
      /\ \A q \in Requests : /\ kind[q] = "none" /\ pc[q] = "idle"
                             /\ want[q] = NewRow /\ base[q] = NewRow
                             /\ readAt[q] = 0 /\ wroteAt[q] = 0
      /\ support = {} /\ now = 1
  BY <1>1 DEF Init
<1>3. IsRow(NewRow) /\ Ev(NewRow.events) = {} /\ NewRow.assistance = 0
  BY DEF IsRow, NewRow, Ev, Columns
<1>4. TypeOK
  BY <1>1, <1>2, <1>3 DEF Init, TypeOK, Kinds
<1>5. Clocked
  BY <1>1, <1>2 DEF Init, Clocked
<1>6. KindsOpen /\ StatusHeld /\ EventsKept
  BY <1>2 DEF KindsOpen, StatusHeld, EventsKept, Open
<1>7. EventsKnown /\ AssistanceKnown
  BY <1>2, <1>3 DEF EventsKnown, AssistanceKnown, Open
<1>8. LostEventWasOverlaid /\ UndoneDecisionWasOverlaid
  BY <1>2 DEF LostEventWasOverlaid, UndoneDecisionWasOverlaid, Decided
<1>9. AssistanceKept /\ AssistanceSeen
  BY <1>2 DEF AssistanceKept, AssistanceSeen, Assisted
<1>10. QED  BY <1>4, <1>5, <1>6, <1>7, <1>8, <1>9 DEF IInv

LEMMA NextIInv == IInv /\ [Next]_vars => IInv'
<1>1. SUFFICES ASSUME IInv, [Next]_vars PROVE IInv'
  OBVIOUS
<1>2. ASSUME NEW q \in Requests, NEW k \in {"accepted", "rejected"}, Decide(q, k)
      PROVE  IInv'
  <2>1. CASE row.status = k
    <3>1. Ask(q, k) /\ pc' = [pc EXCEPT ![q] = "refused"] /\ UNCHANGED want
      BY <1>2, <2>1 DEF Decide
    <3>2. QED  BY <1>1, <3>1, RefuseStep
  <2>2. CASE row.status # k
    <3> DEFINE new == [row EXCEPT !.status = k, !.events = Append(@, q)]
    <3>1. /\ Ask(q, k) /\ pc' = [pc EXCEPT ![q] = "update"]
          /\ want' = [want EXCEPT ![q] = new]
      BY <1>2, <2>2 DEF Decide
    <3>2. /\ IsRow(new) /\ new.events = Append(row.events, q)
          /\ new.assistance = row.assistance /\ new.status = k
      BY <1>1 DEF IInv, TypeOK, IsRow, Columns
    <3> HIDE DEF new
    <3>3. QED  BY <1>1, <3>1, <3>2, BeginStep
  <2>3. QED  BY <2>1, <2>2
<1>3. ASSUME NEW q \in Requests, RequestAssistance(q)
      PROVE  IInv'
  <2> DEFINE k == "assistance_requested"
  <2>1. CASE row.assistance # 0
    <3>1. Ask(q, k) /\ pc' = [pc EXCEPT ![q] = "refused"] /\ UNCHANGED want
      BY <1>3, <2>1 DEF RequestAssistance
    <3>2. QED  BY <1>1, <3>1, RefuseStep
  <2>2. CASE row.assistance = 0
    <3> DEFINE new == [row EXCEPT !.assistance = q, !.events = Append(@, q)]
    <3>1. /\ Ask(q, k) /\ pc' = [pc EXCEPT ![q] = "support"]
          /\ want' = [want EXCEPT ![q] = new]
      BY <1>3, <2>2 DEF RequestAssistance
    <3>2. /\ IsRow(new) /\ new.events = Append(row.events, q)
          /\ new.assistance = q /\ new.status = row.status
      BY <1>1 DEF IInv, TypeOK, IsRow, Columns
    <3> HIDE DEF new
    <3>3. QED  BY <1>1, <2>2, <3>1, <3>2, BeginStep
  <2>3. QED  BY <2>1, <2>2
<1>4. ASSUME NEW q \in Requests, SupportAnswers(q) \/ SupportFails(q) \/ Load(q)
      PROVE  IInv'
  BY <1>1, <1>4, QuietStep
<1>5. ASSUME NEW q \in Requests, Write(q)
      PROVE  IInv'
  BY <1>1, <1>5, WriteStep
<1>6. CASE UNCHANGED vars
  <2>1. IInv
    BY <1>1
  <2>2. QED
    BY <1>6, <2>1 DEF IInv, vars, TypeOK, Clocked, KindsOpen, EventsKnown, EventsKept,
       LostEventWasOverlaid, AssistanceKnown, AssistanceKept, AssistanceSeen, Assisted,
       StatusHeld, Late, UndoneDecisionWasOverlaid, Overlaid, Decided, Open
<1>7. QED  BY <1>1, <1>2, <1>3, <1>4, <1>5, <1>6 DEF Next

THEOREM Invariant == Spec => []IInv
<1>1. QED  BY InitIInv, NextIInv, PTL DEF Spec

\* However many requests review a suggestion, its row, the rows in their
\* hands and the positions of their handlers are of their types.
THEOREM TypeCorrect == Spec => []TypeOK
<1>1. IInv => TypeOK  BY DEF IInv
<1>2. QED  BY <1>1, Invariant, PTL

\* However many requests review a suggestion, an event that is missing from
\* its history was overlaid by a request that had read the row before.
THEOREM EventsAreKept == Spec => []LostEventWasOverlaid
<1>1. IInv => LostEventWasOverlaid  BY DEF IInv
<1>2. QED  BY <1>1, Invariant, PTL

\* However many requests review a suggestion, its status is the last decision
\* that was answered with success, as long as no request overlaid another.
THEOREM DecisionsAreKept == Spec => []UndoneDecisionWasOverlaid
<1>1. IInv => UndoneDecisionWasOverlaid  BY DEF IInv
<1>2. QED  BY <1>1, Invariant, PTL

\* However many requests review a suggestion, assistance is asked for a second
\* time only if the first request could not be seen: request_root_cause_assistance
\* refuses it otherwise.
THEOREM AssistanceIsSeen == Spec => []SecondAssistanceWasUnseen
<1>1. ASSUME IInv PROVE SecondAssistanceWasUnseen
  <2>1. SUFFICES ASSUME NEW p \in support, NEW q \in support, p < q, pc[p] = "done"
                 PROVE  readAt[q] < wroteAt[p] \/ Overlaid(p)
    BY DEF SecondAssistanceWasUnseen
  <2>2. p \in Requests /\ q \in Requests /\ p # q
    BY <1>1, <2>1 DEF IInv, TypeOK, Requests
  <2>3. Assisted(p) /\ kind[q] = "assistance_requested" /\ pc[q] \notin {"idle", "refused"}
    BY <1>1, <2>1, <2>2 DEF IInv, KindsOpen, Assisted
  <2>4. QED  BY <1>1, <2>2, <2>3 DEF IInv, AssistanceSeen
<1>2. QED  BY <1>1, Invariant, PTL
=============================================================================
