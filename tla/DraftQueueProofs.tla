--------------------------- MODULE DraftQueueProofs ---------------------------
(***************************************************************************)
(* For every number of requests and failures: what goes wrong with         *)
(* requests costs a failed call or a crash each, although a crash meets    *)
(* any number of them.                                                     *)
(*                                                                         *)
(* A request is clean as long as no failure has touched it.  Clean says    *)
(* what then is true of its row, its record, its event stream and its      *)
(* message, for every place of the thread that works on it and of the      *)
(* board decision that may overtake the thread.  A step without a failure  *)
(* keeps every request clean, and one with a failure all but one.          *)
(***************************************************************************)
EXTENDS DraftQueue, SequenceTheorems, FiniteSetTheorems, TLAPS

Statuses == {"absent", "pending", "started"} \cup Terminal
Reviews  == {"none", "open", "approved", "rejected"}
Entries  == [status : Statuses, review : Reviews]

Idle  == {"down", "polling", "dead"}
Early == {"popped", "starting", "startingEvent", "begun", "working", "succeeding"}
Ended == {"succeedingEvent", "recording"}
Wrong == {"failing", "marking", "markingEvent"}

TypeOK ==
    /\ row \in [Requests -> Entries] /\ rec \in [Requests -> Entries]
    /\ stream \in [Requests -> SUBSET Statuses]
    /\ queue \in Seq(Requests)
    /\ req \in [Requests -> {"new", "recorded", "stored", "marking", "accepted", "failed", "lost"}]
    /\ pc \in Idle \cup Early \cup Ended \cup Wrong
    /\ msg \in Requests \cup {NoRequest} /\ (msg = NoRequest <=> pc \in Idle)
    /\ result \in Reviews
    /\ review # NoReview => review \in [of : Requests, phase : {"save", "row"}, entry : Entries]
    /\ failures \in Nat

InReview(r) == review # NoReview /\ review.of = r

\* No board has seen a result of r.
Unreviewed(r) == ~InReview(r) /\ rec[r].review = "none"

\* A job is queued once, and nobody reviews its result before there is one.
Unbegun(r) ==
    /\ req[r] \in {"new", "recorded", "stored"} =>
          /\ r \notin ToSet(queue) /\ msg # r /\ Unreviewed(r)
          /\ req[r] # "stored" => Absent(r)
          /\ req[r] = "recorded" => row[r].status = "pending"
    /\ r \in ToSet(queue) => Unreviewed(r)
    /\ msg = r /\ pc \in Early => Unreviewed(r)

Once ==
    /\ IsInjective(queue) /\ msg \notin ToSet(queue)
    /\ \A r \in Requests : Unbegun(r)

\* What a board reviews is the result of a completed job.
Reviewable ==
    /\ \A r \in Requests : rec[r].review # "none" => rec[r].status = "completed"
    /\ review # NoReview => review.entry.status = "completed" /\ review.entry.review # "none"

\* The record has status st if there is one, and a decision will not change that.
Agree(r, st) ==
    /\ rec[r].status \in {"absent", st}
    /\ InReview(r) => st = "completed"

\* The row and the record of r agree, or will when the thread is done with r.
Agreeing(r) ==
    /\ req[r] # "marking"
    /\ msg # r \/ pc = "popped" => Agree(r, row[r].status)
    /\ msg = r /\ pc \in Ended => Agree(r, "completed")
    /\ msg = r /\ pc \in Wrong =>
          /\ Unreviewed(r)
          /\ pc # "failing" => row[r].status = "failed"
          /\ pc = "markingEvent" => rec[r].status \in {"absent", "failed"}

\* An accepted job is queued, in the thread's hands, or has a final row.
Traced(r) ==
    req[r] = "accepted" =>
        \/ row[r].status \in Terminal
        \/ r \in ToSet(queue)
        \/ msg = r /\ pc \notin {"marking", "markingEvent"}

\* A final record was announced or is about to be.
Announced(r) ==
    rec[r].status \in Terminal \/ InReview(r) =>
        \/ stream[r] \cap Terminal # {}
        \/ msg = r /\ pc \in {"succeedingEvent", "markingEvent"}

Clean(r) == Agreeing(r) /\ Traced(r) /\ Announced(r)

Suspect == {r \in Requests : ~Clean(r)}

SuspectsCostFailures == IsFiniteSet(Suspect) /\ Cardinality(Suspect) <= failures

\* What a step does to clean requests: one that fails leaves all but x clean.
CleanKept(x) ==
    \A r \in Requests : Clean(r) /\ (r = x => failures' = failures) => Clean(r)'

Inv == TypeOK /\ Once /\ Reviewable
IInv == Inv /\ SuspectsCostFailures

-----------------------------------------------------------------------------
(* Lists.                                                                  *)

\* LPUSH of an element that the list does not hold.
LEMMA ConsFacts ==
    ASSUME NEW S, NEW s \in Seq(S), NEW e \in S
    PROVE  /\ Cons(e, s) \in Seq(S) /\ ToSet(Cons(e, s)) = {e} \cup ToSet(s)
           /\ IsInjective(s) /\ e \notin ToSet(s) => IsInjective(Cons(e, s))
<1> DEFINE t == Cons(e, s)
<1>1. t \in Seq(S) /\ DOMAIN t = 1..(Len(s) + 1) /\ DOMAIN s = 1..Len(s) /\ Len(s) \in Nat
  BY DEF Cons
<1>2. t[1] = e /\ \A i \in 1..Len(s) : t[i + 1] = s[i]
  BY DEF Cons
<1> HIDE DEF t
<1>3. ToSet(t) = {t[i] : i \in 1..(Len(s) + 1)} /\ ToSet(s) = {s[i] : i \in 1..Len(s)}
  BY <1>1 DEF ToSet
<1>4. \A i \in 1..(Len(s) + 1) : i = 1 \/ (i - 1 \in 1..Len(s) /\ t[i] = s[i - 1])
  <2> SUFFICES ASSUME NEW i \in 1..(Len(s) + 1), i # 1
               PROVE  i - 1 \in 1..Len(s) /\ t[i] = s[i - 1]
    OBVIOUS
  <2>1. i - 1 \in 1..Len(s) /\ (i - 1) + 1 = i
    BY <1>1
  <2>2. QED  BY <1>2, <2>1
<1>5. ToSet(t) = {e} \cup ToSet(s)
  <2>1. ASSUME NEW x \in ToSet(t) PROVE x \in {e} \cup ToSet(s)
    BY <1>2, <1>3, <1>4
  <2>2. ASSUME NEW x \in ToSet(s) PROVE x \in ToSet(t)
    <3>1. PICK i \in 1..Len(s) : x = s[i]
      BY <1>3
    <3>2. i + 1 \in 1..(Len(s) + 1) /\ t[i + 1] = x
      BY <1>1, <1>2, <3>1
    <3>3. QED  BY <1>3, <3>2
  <2>3. e \in ToSet(t)
    <3>1. 1 \in 1..(Len(s) + 1)
      BY <1>1
    <3>2. QED  BY <1>2, <1>3, <3>1
  <2>4. QED  BY <2>1, <2>2, <2>3
<1>6. ASSUME IsInjective(s), e \notin ToSet(s) PROVE IsInjective(t)
  <2> SUFFICES ASSUME NEW i \in 1..(Len(s) + 1), NEW j \in 1..(Len(s) + 1), t[i] = t[j] PROVE i = j
    BY <1>1 DEF IsInjective
  <2>1. \A k \in 1..Len(s) : s[k] # e
    BY <1>3, <1>6
  <2>2. CASE i = 1 \/ j = 1
    BY <1>2, <1>4, <2>1, <2>2
  <2>3. CASE i # 1 /\ j # 1
    <3>1. /\ i - 1 \in 1..Len(s) /\ j - 1 \in 1..Len(s) /\ s[i - 1] = s[j - 1]
      BY <1>4, <2>3
    <3>2. i - 1 = j - 1
      BY <1>1, <1>6, <3>1 DEF IsInjective
    <3>3. QED  BY <1>1, <3>2
  <2>4. QED  BY <2>2, <2>3
<1>7. QED  BY <1>1, <1>5, <1>6 DEF t

\* RPOP takes the last element and leaves every other one.
LEMMA FrontFacts ==
    ASSUME NEW S, NEW s \in Seq(S), s # <<>>
    PROVE  /\ Front(s) \in Seq(S) /\ Last(s) \in S
           /\ ToSet(s) = ToSet(Front(s)) \cup {Last(s)}
           /\ IsInjective(s) => IsInjective(Front(s)) /\ Last(s) \notin ToSet(Front(s))
<1> DEFINE n == Len(s) - 1
<1>1. Len(s) \in Nat /\ Len(s) > 0 /\ n \in Nat /\ n + 1 = Len(s) /\ DOMAIN s = 1..Len(s)
  OBVIOUS
<1> HIDE DEF n
<1>2. PICK t : t = SubSeq(s, 1, n)
  OBVIOUS
<1>3. t = Front(s)
  BY <1>2 DEF Front, n
<1>4. t \in Seq(S) /\ Len(t) = n /\ \A i \in 1..n : t[i] = s[i]
  <2>1. \A i \in 1..n : s[i] \in S
    BY <1>1
  <2>2. t \in Seq(S) /\ Len(t) = IF 1 <= n THEN n - 1 + 1 ELSE 0
    BY <1>1, <1>2, <2>1, SubSeqProperties
  <2>3. QED  BY <1>1, <1>2, <2>2
<1>5. Last(s) = s[n + 1] /\ n + 1 \in 1..(n + 1) /\ Last(s) \in S
  BY <1>1 DEF Last
<1>6. ToSet(t) = {t[i] : i \in 1..n} /\ ToSet(s) = {s[i] : i \in 1..(n + 1)}
  BY <1>1, <1>4 DEF ToSet
<1>7. \A i \in 1..(n + 1) : i = n + 1 \/ i \in 1..n
  BY <1>1
<1>8. \A i \in 1..n : i \in 1..(n + 1) /\ i # n + 1
  BY <1>1
<1>9. ToSet(s) = ToSet(t) \cup {Last(s)}
  BY <1>4, <1>5, <1>6, <1>7, <1>8
<1>10. ASSUME IsInjective(s) PROVE IsInjective(t) /\ Last(s) \notin ToSet(t)
  <2>1. \A i, j \in 1..(n + 1) : s[i] = s[j] => i = j
    BY <1>1, <1>10 DEF IsInjective
  <2>2. IsInjective(t)
    <3>1. DOMAIN t = 1..n
      BY <1>4
    <3>2. QED  BY <1>4, <1>8, <2>1, <3>1 DEF IsInjective
  <2>3. QED  BY <1>4, <1>5, <1>6, <1>8, <2>1, <2>2
<1>11. QED  BY <1>3, <1>4, <1>5, <1>9, <1>10

-----------------------------------------------------------------------------
(* The writes.                                                             *)

\* What an update of the row does, whether its error is passed over or not.
LEMMA RowFacts ==
    ASSUME TypeOK, NEW r \in Requests, NEW st \in Statuses, NEW v \in Reviews, TryUpdateRow(r, st, v)
    PROVE  /\ row' \in [Requests -> Entries]
           /\ \A s \in Requests : s # r => row'[s] = row[s]
           /\ row'[r].status \in {row[r].status, st}
           /\ failures' \in Nat /\ failures' \in {failures, failures + 1}
           /\ failures' = failures => row'[r].status = st
<1>1. PICK e : e = [status |-> st, review |-> IF v = "none" THEN row[r].review ELSE v]
  OBVIOUS
<1>2. e \in Entries /\ e.status = st
  BY <1>1 DEF TypeOK, Entries
<1>3. UpdateRow(r, st, v) = [row EXCEPT ![r] = e]
  BY <1>1 DEF UpdateRow
<1>4. failures \in Nat /\ row \in [Requests -> Entries]
  BY DEF TypeOK
<1>5. \/ row' = [row EXCEPT ![r] = e] /\ failures' = failures
      \/ failures' = failures + 1 /\ row' \in {row, [row EXCEPT ![r] = e]}
  BY <1>3 DEF TryUpdateRow, Failure
<1>6. QED  BY <1>2, <1>4, <1>5

\* What a mark writes to the record.
LEMMA MarkFacts ==
    ASSUME TypeOK, msg \in Requests, NEW m \in Marks
    PROVE  /\ Marked(m) \in [Requests -> Entries]
           /\ \A s \in Requests : s # msg => Marked(m)[s] = rec[s]
           /\ Marked(m)[msg].status = m.status
           /\ m.status = "started" => Marked(m)[msg].review = rec[msg].review
           /\ m.status = "failed" => Marked(m)[msg].review = "none"
<1>1. m.status \in {"started", "completed", "failed"}
  BY DEF Marks
<1>2. PICK e : e = [status |-> m.status,
                    review |-> CASE m.status = "completed" -> result
                                 [] m.status = "failed"    -> "none"
                                 [] OTHER                  -> rec[msg].review]
  OBVIOUS
<1>3. /\ e.status = m.status /\ e \in Entries
      /\ m.status = "started" => e.review = rec[msg].review
      /\ m.status = "failed" => e.review = "none"
  <2>1. CASE m.status = "started"
    BY <1>2, <2>1 DEF TypeOK, Entries, Statuses
  <2>2. CASE m.status = "completed"
    BY <1>2, <2>2 DEF TypeOK, Entries, Statuses, Terminal
  <2>3. CASE m.status = "failed"
    BY <1>2, <2>3 DEF TypeOK, Entries, Statuses, Reviews, Terminal
  <2>4. QED  BY <1>1, <2>1, <2>2, <2>3
<1>4. Marked(m) = [rec EXCEPT ![msg] = e]
  BY <1>2 DEF Marked
<1>5. QED  BY <1>3, <1>4 DEF TypeOK

\* The three marks.
LEMMA MarkIs ==
    ASSUME NEW m \in Marks
    PROVE  \/ m.at = "starting" /\ m.event = "startingEvent" /\ m.then = "begun" /\ m.status = "started"
           \/ m.at = "succeeding" /\ m.event = "succeedingEvent" /\ m.then = "recording" /\ m.status = "completed"
           \/ m.at = "marking" /\ m.event = "markingEvent" /\ m.then = "polling" /\ m.status = "failed"
  BY DEF Marks

\* Where the thread goes after a mark.
LEMMA PlaceFacts ==
    ASSUME NEW m \in Marks
    PROVE  /\ Passed(m) => IF m.at = "marking" THEN pc' = "polling" /\ msg' = NoRequest
                                               ELSE pc' = m.then /\ msg' = msg
           /\ Raised(m) => IF m.at = "marking" THEN pc' = "dead" /\ msg' = NoRequest
                                               ELSE pc' = "failing" /\ msg' = msg
  BY DEF Passed, Raised, Release

-----------------------------------------------------------------------------
(* The thread.                                                             *)

\* A request that the thread does not hold stays clean if its row, its
\* record and its stream are left alone.
LEMMA CleanFrame ==
    ASSUME NEW r \in Requests, Clean(r), msg # r, msg' # r,
           row'[r] = row[r], rec'[r] = rec[r], stream'[r] = stream[r],
           r \in ToSet(queue) => r \in ToSet(queue'),
           InReview(r)' => InReview(r),
           req'[r] # "marking", req'[r] = "accepted" => req[r] = "accepted"
    PROVE  Clean(r)'
<1>1. Agreeing(r)'
  BY DEF Clean, Agreeing, Agree
<1>2. Traced(r)'
  BY DEF Clean, Traced
<1>3. Announced(r)'
  BY DEF Clean, Announced
<1>4. QED  BY <1>1, <1>2, <1>3 DEF Clean

\* A step of the thread is about the job it holds.
LEMMA ThreadFrame ==
    ASSUME Inv, TypeOK', NEW h \in Requests, msg = h, msg' \in {h, NoRequest},
           req' = req, review' = review, queue' = queue,
           \A s \in Requests : s # h => row'[s] = row[s] /\ rec'[s] = rec[s] /\ stream'[s] = stream[s],
           rec'[h].review # "none" => rec'[h].status = "completed",
           msg' = h /\ pc' \in Early => pc \in Early /\ rec'[h].review = "none",
           failures' = failures /\ Clean(h) => Clean(h)'
    PROVE  Inv' /\ CleanKept(h)
<1>1. TypeOK /\ Once /\ Reviewable
  BY DEF Inv
<1>2. \A s \in Requests : InReview(s)' <=> InReview(s)
  BY DEF InReview
<1>3. NoRequest \notin Requests
  BY DraftAssumption
<1>4. Once'
  <2>1. IsInjective(queue') /\ msg' \notin ToSet(queue')
    <3>1. NoRequest \notin ToSet(queue)
      BY <1>1, <1>3 DEF TypeOK, ToSet
    <3>2. QED  BY <1>1, <3>1 DEF Once
  <2>2. ASSUME NEW r \in Requests, r # h PROVE Unbegun(r)'
    <3>1. Unbegun(r) /\ msg' # r /\ row'[r] = row[r] /\ rec'[r] = rec[r]
      BY <1>1, <1>3, <2>2 DEF Once
    <3>2. Unreviewed(r) => Unreviewed(r)'
      BY <1>2, <3>1 DEF Unreviewed
    <3>3. QED  BY <3>1, <3>2 DEF Unbegun, Absent
  <2>3. Unbegun(h)
    BY <1>1 DEF Once
  <2>4. req[h] \notin {"new", "recorded", "stored"} /\ h \notin ToSet(queue)
    BY <1>1, <2>3 DEF Once, Unbegun
  <2>5. ASSUME NEW r \in Requests, r = h PROVE Unbegun(r)'
    <3>1. msg' = r /\ pc' \in Early => Unreviewed(r)'
      BY <1>2, <2>3, <2>5 DEF Unbegun, Unreviewed
    <3>2. QED  BY <2>4, <2>5, <3>1 DEF Unbegun
  <2>6. QED  BY <2>1, <2>2, <2>5 DEF Once
<1>5. Reviewable'
  BY <1>1 DEF Reviewable
<1>6. CleanKept(h)
  <2> SUFFICES ASSUME NEW r \in Requests, Clean(r), r = h => failures' = failures
               PROVE  Clean(r)'
    BY DEF CleanKept
  <2>1. CASE r = h
    BY <2>1
  <2>2. CASE r # h
    <3>1. msg' # r /\ req'[r] # "marking"
      BY <1>3, <2>2 DEF Clean, Agreeing
    <3>2. QED  BY <1>2, <2>2, <3>1, CleanFrame
  <2>3. QED  BY <2>1, <2>2
<1>7. QED  BY <1>1, <1>4, <1>5, <1>6 DEF Inv

LEMMA LoadStep ==
    ASSUME Inv, NEW h \in Requests, msg = h, Load
    PROVE  Inv' /\ CleanKept(h)
<1>1. TypeOK /\ Once /\ Reviewable /\ pc = "popped" /\ NoRequest \notin Requests
  BY DraftAssumption DEF Inv, Load
<1>2. /\ rec' = rec /\ stream' = stream /\ queue' = queue /\ req' = req /\ result' = result /\ review' = review
  BY DEF Load
<1>3. Unreviewed(h)
  BY <1>1 DEF Once, Unbegun, Early
<1>4. \A s \in Requests : InReview(s)' <=> InReview(s)
  BY <1>2 DEF InReview
<1>5. CASE ~Absent(h) /\ pc' = "starting" /\ UNCHANGED <<row, msg, failures>>
  <2>1. TypeOK'
    BY <1>1, <1>2, <1>5 DEF TypeOK, Idle, Early, Ended, Wrong
  <2>2. Clean(h) => Clean(h)'
    BY <1>1, <1>2, <1>4, <1>5 DEF Clean, Agreeing, Agree, Traced, Announced, Ended, Wrong
  <2>3. QED
    BY <1>1, <1>2, <1>3, <1>5, <2>1, <2>2, ThreadFrame DEF Reviewable, Unreviewed, Early
<1>6. CASE Absent(h) /\ TryUpdateRow(h, "failed", "none") /\ Release("polling")
  <2>1. pc' = "polling" /\ msg' = NoRequest
    BY <1>6 DEF Release
  <2>2. /\ row' \in [Requests -> Entries] /\ \A s \in Requests : s # h => row'[s] = row[s]
        /\ failures' \in Nat
        /\ failures' = failures => row'[h].status = "failed"
    <3>1. "failed" \in Statuses /\ "none" \in Reviews
      BY DEF Statuses, Reviews, Terminal
    <3>2. QED  BY <1>1, <1>6, <3>1, RowFacts
  <2>3. TypeOK'
    BY <1>1, <1>2, <2>1, <2>2 DEF TypeOK, Idle
  <2>4. failures' = failures /\ Clean(h) => Clean(h)'
    BY <1>1, <1>2, <1>3, <1>4, <1>6, <2>1, <2>2
       DEF Clean, Agreeing, Agree, Traced, Announced, Unreviewed, Absent, Terminal
  <2>5. QED
    BY <1>1, <1>2, <2>1, <2>2, <2>3, <2>4, ThreadFrame DEF Reviewable
<1>7. CASE Failure /\ Release("dead") /\ UNCHANGED row
  <2>1. pc' = "dead" /\ msg' = NoRequest /\ failures' = failures + 1
    BY <1>7 DEF Release, Failure
  <2>2. TypeOK' /\ failures' # failures
    BY <1>1, <1>2, <1>7, <2>1 DEF TypeOK, Idle
  <2>3. QED
    BY <1>1, <1>2, <1>7, <2>1, <2>2, ThreadFrame DEF Reviewable
<1>8. QED  BY <1>5, <1>6, <1>7 DEF Load

LEMMA StoreMarkStep ==
    ASSUME Inv, NEW h \in Requests, msg = h, NEW m \in Marks, StoreMark(m)
    PROVE  Inv' /\ CleanKept(h)
<1>1. TypeOK /\ Once /\ Reviewable /\ pc = m.at /\ NoRequest \notin Requests
  BY DraftAssumption DEF Inv, StoreMark
<1>2. /\ row' = row /\ stream' = stream /\ queue' = queue /\ req' = req /\ result' = result /\ review' = review
  BY DEF StoreMark
<1>3. m.at # "marking" => Unreviewed(h)
  BY <1>1, MarkIs DEF Once, Unbegun, Early
<1>4. \A s \in Requests : InReview(s)' <=> InReview(s)
  BY <1>2 DEF InReview
<1>5. /\ Marked(m) \in [Requests -> Entries] /\ \A s \in Requests : s # h => Marked(m)[s] = rec[s]
      /\ Marked(m)[h].status = m.status
      /\ m.status = "started" => Marked(m)[h].review = rec[h].review
      /\ m.status = "failed" => Marked(m)[h].review = "none"
  BY <1>1, MarkFacts
<1>6. Marked(m)[h].review # "none" => Marked(m)[h].status = "completed"
  BY <1>3, <1>5, MarkIs DEF Unreviewed
<1>7. CASE Absent(h) /\ Passed(m) /\ UNCHANGED <<rec, failures>>
  <2>1. IF m.at = "marking" THEN pc' = "polling" /\ msg' = NoRequest ELSE pc' = m.then /\ msg' = h
    BY <1>7, PlaceFacts
  <2>2. TypeOK'
    BY <1>1, <1>2, <1>7, <2>1, MarkIs DEF TypeOK, Idle, Early, Ended, Wrong
  <2>3. Clean(h) => Clean(h)'
    <3>1. CASE m.at = "marking"
      BY <1>1, <1>2, <1>4, <1>7, <2>1, <3>1
         DEF Once, Clean, Agreeing, Agree, Traced, Announced, Unreviewed, Absent, Wrong, Terminal
    <3>2. CASE m.at # "marking"
      BY <1>1, <1>2, <1>3, <1>4, <1>7, <2>1, <3>2, MarkIs
         DEF Clean, Agreeing, Agree, Traced, Announced, Unreviewed, Absent, Ended, Wrong, Terminal
    <3>3. QED  BY <3>1, <3>2
  <2>4. msg' = h /\ pc' \in Early => pc \in Early /\ rec'[h].review = "none"
    BY <1>1, <1>3, <1>7, <2>1, MarkIs DEF Early, Unreviewed
  <2>5. QED
    BY <1>1, <1>2, <1>7, <2>1, <2>2, <2>3, <2>4, ThreadFrame DEF Reviewable
<1>8. CASE ~Absent(h) /\ rec' = Marked(m) /\ pc' = m.event /\ UNCHANGED <<msg, failures>>
  <2>1. TypeOK'
    BY <1>1, <1>2, <1>5, <1>8, MarkIs DEF TypeOK, Idle, Early, Ended, Wrong
  <2>2. Clean(h) => Clean(h)'
    <3>1. CASE m.at = "starting"
      BY <1>1, <1>2, <1>3, <1>4, <1>5, <1>8, <3>1, MarkIs
         DEF Clean, Agreeing, Agree, Traced, Announced, Unreviewed, Ended, Wrong, Terminal
    <3>2. CASE m.at = "succeeding"
      BY <1>1, <1>2, <1>3, <1>4, <1>5, <1>8, <3>2, MarkIs
         DEF Clean, Agreeing, Agree, Traced, Announced, Unreviewed, Ended, Wrong, Terminal
    <3>3. CASE m.at = "marking"
      BY <1>1, <1>2, <1>4, <1>5, <1>8, <3>3, MarkIs
         DEF Clean, Agreeing, Agree, Traced, Announced, Unreviewed, Ended, Wrong, Terminal
    <3>4. QED  BY <3>1, <3>2, <3>3, MarkIs
  <2>3. pc' \in Early => pc \in Early /\ rec'[h].review = "none"
    BY <1>1, <1>3, <1>5, <1>8, MarkIs DEF Early, Unreviewed
  <2>4. QED
    BY <1>1, <1>2, <1>5, <1>6, <1>8, <2>1, <2>2, <2>3, ThreadFrame
<1>9. CASE Failure /\ rec' \in {rec, Marked(m)} /\ Raised(m)
  <2>1. /\ IF m.at = "marking" THEN pc' = "dead" /\ msg' = NoRequest ELSE pc' = "failing" /\ msg' = h
        /\ failures' = failures + 1
    BY <1>9, PlaceFacts DEF Failure
  <2>2. TypeOK' /\ failures' # failures
    BY <1>1, <1>2, <1>5, <1>9, <2>1, MarkIs DEF TypeOK, Idle, Early, Ended, Wrong
  <2>3. rec'[h].review # "none" => rec'[h].status = "completed"
    BY <1>1, <1>6, <1>9 DEF Reviewable
  <2>4. pc' \notin Early /\ msg' \in {h, NoRequest}
    BY <2>1 DEF Early
  <2>5. QED
    BY <1>1, <1>2, <1>5, <1>9, <2>2, <2>3, <2>4, ThreadFrame
<1>10. QED  BY <1>7, <1>8, <1>9 DEF StoreMark

LEMMA PublishMarkStep ==
    ASSUME Inv, NEW h \in Requests, msg = h, NEW m \in Marks, PublishMark(m)
    PROVE  Inv' /\ CleanKept(h)
<1>1. TypeOK /\ Once /\ Reviewable /\ pc = m.event /\ NoRequest \notin Requests
  BY DraftAssumption DEF Inv, PublishMark
<1>2. /\ row' = row /\ rec' = rec /\ queue' = queue /\ req' = req /\ result' = result /\ review' = review
  BY DEF PublishMark
<1>3. m.at = "starting" => Unreviewed(h)
  BY <1>1, MarkIs DEF Once, Unbegun, Early
<1>4. \A s \in Requests : InReview(s)' <=> InReview(s)
  BY <1>2 DEF InReview
<1>5. PICK published : published = [stream EXCEPT ![h] = @ \cup {m.status}]
  OBVIOUS
<1>6. /\ published \in [Requests -> SUBSET Statuses] /\ published[h] = stream[h] \cup {m.status}
      /\ \A s \in Requests : s # h => published[s] = stream[s]
  BY <1>1, <1>5, MarkIs DEF TypeOK, Statuses, Terminal
<1>7. CASE stream' = published /\ Passed(m) /\ UNCHANGED failures
  <2>1. IF m.at = "marking" THEN pc' = "polling" /\ msg' = NoRequest ELSE pc' = m.then /\ msg' = h
    BY <1>7, PlaceFacts
  <2>2. TypeOK'
    BY <1>1, <1>2, <1>6, <1>7, <2>1, MarkIs DEF TypeOK, Idle, Early, Ended, Wrong
  <2>3. Clean(h) => Clean(h)'
    <3>1. CASE m.at = "starting"
      BY <1>1, <1>2, <1>3, <1>4, <1>6, <1>7, <2>1, <3>1, MarkIs
         DEF Clean, Agreeing, Agree, Traced, Announced, Unreviewed, Ended, Wrong, Terminal
    <3>2. CASE m.at = "succeeding"
      BY <1>1, <1>2, <1>4, <1>6, <1>7, <2>1, <3>2, MarkIs
         DEF Clean, Agreeing, Agree, Traced, Announced, Unreviewed, Ended, Wrong, Terminal
    <3>3. CASE m.at = "marking"
      BY <1>1, <1>2, <1>4, <1>6, <1>7, <2>1, <3>3, MarkIs
         DEF Clean, Agreeing, Agree, Traced, Announced, Unreviewed, Ended, Wrong, Terminal
    <3>4. QED  BY <3>1, <3>2, <3>3, MarkIs
  <2>4. msg' = h /\ pc' \in Early => pc \in Early /\ rec'[h].review = "none"
    BY <1>1, <1>2, <1>3, <2>1, MarkIs DEF Early, Unreviewed
  <2>5. QED
    BY <1>1, <1>2, <1>6, <1>7, <2>1, <2>2, <2>3, <2>4, ThreadFrame DEF Reviewable
<1>8. CASE Failure /\ stream' \in {stream, published} /\ Raised(m)
  <2>1. /\ IF m.at = "marking" THEN pc' = "dead" /\ msg' = NoRequest ELSE pc' = "failing" /\ msg' = h
        /\ failures' = failures + 1
    BY <1>8, PlaceFacts DEF Failure
  <2>2. TypeOK' /\ failures' # failures
    BY <1>1, <1>2, <1>6, <1>8, <2>1, MarkIs DEF TypeOK, Idle, Early, Ended, Wrong
  <2>3. pc' \notin Early /\ msg' \in {h, NoRequest}
    BY <2>1 DEF Early
  <2>4. QED
    BY <1>1, <1>2, <1>6, <1>8, <2>2, <2>3, ThreadFrame DEF Reviewable
<1>9. QED  BY <1>5, <1>7, <1>8 DEF PublishMark

LEMMA RowStartedStep ==
    ASSUME Inv, NEW h \in Requests, msg = h, RowStarted
    PROVE  Inv' /\ CleanKept(h)
<1>1. TypeOK /\ Once /\ Reviewable /\ pc = "begun" /\ pc' = "working" /\ msg' = h
  BY DEF Inv, RowStarted
<1>2. /\ rec' = rec /\ stream' = stream /\ queue' = queue /\ req' = req /\ result' = result /\ review' = review
  BY DEF RowStarted
<1>3. Unreviewed(h)
  BY <1>1 DEF Once, Unbegun, Early
<1>4. \A s \in Requests : InReview(s)' <=> InReview(s)
  BY <1>2 DEF InReview
<1>5. /\ row' \in [Requests -> Entries] /\ \A s \in Requests : s # h => row'[s] = row[s]
      /\ failures' \in Nat
  <2>1. "started" \in Statuses /\ "none" \in Reviews
    BY DEF Statuses, Reviews
  <2>2. TryUpdateRow(h, "started", "none")
    BY DEF RowStarted
  <2>3. QED  BY <1>1, <2>1, <2>2, RowFacts
<1>6. TypeOK'
  BY <1>1, <1>2, <1>5 DEF TypeOK, Idle, Early, Ended, Wrong
<1>7. Clean(h) => Clean(h)'
  BY <1>1, <1>2, <1>3, <1>4 DEF Clean, Agreeing, Traced, Announced, Unreviewed, Ended, Wrong
<1>8. QED
  BY <1>1, <1>2, <1>3, <1>5, <1>6, <1>7, ThreadFrame DEF Reviewable, Unreviewed, Early

LEMMA WorkStep ==
    ASSUME Inv, NEW h \in Requests, msg = h, Work
    PROVE  Inv' /\ CleanKept(h)
<1>1. TypeOK /\ Once /\ Reviewable /\ pc = "working" /\ pc' \in {"succeeding", "failing"} /\ msg' = h
  BY DEF Inv, Work
<1>2. /\ row' = row /\ rec' = rec /\ stream' = stream /\ queue' = queue /\ req' = req
      /\ review' = review /\ failures' = failures
  BY DEF Work, stores
<1>3. result' \in Reviews
  BY <1>1 DEF Work, TypeOK, Reviews
<1>4. Unreviewed(h)
  BY <1>1 DEF Once, Unbegun, Early
<1>5. \A s \in Requests : InReview(s)' <=> InReview(s)
  BY <1>2 DEF InReview
<1>6. TypeOK'
  BY <1>1, <1>2, <1>3 DEF TypeOK, Idle, Early, Ended, Wrong
<1>7. Clean(h) => Clean(h)'
  BY <1>1, <1>2, <1>4, <1>5 DEF Clean, Agreeing, Traced, Announced, Unreviewed, Ended, Wrong
<1>8. QED
  BY <1>1, <1>2, <1>4, <1>6, <1>7, ThreadFrame DEF Reviewable, Unreviewed, Early

LEMMA RowEndsStep ==
    ASSUME Inv, NEW h \in Requests, msg = h, RowEnds
    PROVE  Inv' /\ CleanKept(h)
<1>1. TypeOK /\ Once /\ Reviewable /\ NoRequest \notin Requests
  BY DraftAssumption DEF Inv
<1>2. /\ rec' = rec /\ stream' = stream /\ queue' = queue /\ req' = req /\ result' = result /\ review' = review
  BY DEF RowEnds
<1>3. \A s \in Requests : InReview(s)' <=> InReview(s)
  BY <1>2 DEF InReview
<1>4. PICK st \in {"completed", "failed"}, v \in Reviews :
         /\ TryUpdateRow(h, st, v)
         /\ \/ pc = "recording" /\ pc' = "polling" /\ msg' = NoRequest /\ st = "completed"
            \/ pc = "failing" /\ pc' = "marking" /\ msg' = h /\ st = "failed"
  <2>1. result \in Reviews /\ "none" \in Reviews
    BY <1>1 DEF TypeOK, Reviews
  <2>2. QED  BY <2>1 DEF RowEnds, Release
<1>5. /\ row' \in [Requests -> Entries] /\ \A s \in Requests : s # h => row'[s] = row[s]
      /\ failures' \in Nat
      /\ failures' = failures => row'[h].status = st
  <2>1. st \in Statuses
    BY DEF Statuses, Terminal
  <2>2. QED  BY <1>1, <1>4, <2>1, RowFacts
<1>6. TypeOK'
  BY <1>1, <1>2, <1>4, <1>5 DEF TypeOK, Idle, Early, Ended, Wrong
<1>7. ASSUME failures' = failures, Clean(h) PROVE Clean(h)'
  BY <1>1, <1>2, <1>3, <1>4, <1>5, <1>7
     DEF Clean, Agreeing, Agree, Traced, Announced, Unreviewed, Ended, Wrong, Terminal
<1>8. pc' \notin Early /\ msg' \in {h, NoRequest}
  BY <1>4 DEF Early
<1>9. QED
  BY <1>1, <1>2, <1>5, <1>6, <1>7, <1>8, ThreadFrame DEF Reviewable

\* The thread without a job: the process is started, a job is popped, or the
\* pop raises.
LEMMA IdleStep ==
    ASSUME Inv, StartApi \/ Pop \/ PopRaises
    PROVE  Inv' /\ \E x : CleanKept(x)
<1>1. TypeOK /\ Once /\ Reviewable /\ NoRequest \notin Requests /\ msg = NoRequest
  BY DraftAssumption DEF Inv, StartApi, Pop, PopRaises, TypeOK, Idle
<1>2. /\ row' = row /\ rec' = rec /\ stream' = stream /\ req' = req /\ result' = result /\ review' = review
  BY DEF StartApi, Pop, PopRaises, stores
<1>3. \A s \in Requests : (InReview(s)' <=> InReview(s)) /\ (Unreviewed(s)' <=> Unreviewed(s))
  BY <1>2 DEF InReview, Unreviewed
<1>4. Reviewable'
  BY <1>1, <1>2 DEF Reviewable
<1>5. NoRequest \notin ToSet(queue) /\ \A r \in Requests : msg # r
  BY <1>1 DEF TypeOK, ToSet
<1>6. CASE queue' = queue /\ msg' = NoRequest /\ pc' \in {"polling", "dead"} /\ failures' \in {failures, failures + 1}
  <2>1. TypeOK'
    BY <1>1, <1>2, <1>6 DEF TypeOK, Idle
  <2>2. Once'
    <3>1. ASSUME NEW r \in Requests PROVE Unbegun(r)'
      BY <1>1, <1>2, <1>3, <1>5, <1>6 DEF Once, Unbegun, Absent
    <3>2. QED  BY <1>1, <1>5, <1>6, <3>1 DEF Once
  <2>3. CleanKept(NoRequest)
    <3> SUFFICES ASSUME NEW r \in Requests, Clean(r) PROVE Clean(r)'
      BY DEF CleanKept
    <3>1. req[r] # "marking" /\ msg # r /\ msg' # r
      BY <1>1, <1>6 DEF Clean, Agreeing
    <3>2. QED  BY <1>2, <1>3, <1>6, <3>1, CleanFrame
  <2>4. QED  BY <1>4, <2>1, <2>2, <2>3 DEF Inv
<1>7. CASE queue # <<>> /\ queue' = Front(queue) /\ (Pop \/ PopRaises)
  <2>1. PICK h : h = Last(queue)
    OBVIOUS
  <2>2. /\ queue' \in Seq(Requests) /\ h \in Requests /\ ToSet(queue) = ToSet(queue') \cup {h}
        /\ IsInjective(queue') /\ h \notin ToSet(queue')
    BY <1>1, <1>7, <2>1, FrontFacts DEF TypeOK, Once
  <2>3. ASSUME NEW r \in Requests PROVE Unbegun(r)'
    <3>1. Unbegun(r) /\ (msg' = r => r = h)
      BY <1>1, <1>7, <2>1 DEF Once, Pop, PopRaises
    <3>2. req'[r] \in {"new", "recorded", "stored"} =>
            r \notin ToSet(queue') /\ msg' # r /\ Unreviewed(r)'
      BY <1>2, <1>3, <2>2, <3>1 DEF Unbegun
    <3>3. (r \in ToSet(queue') => Unreviewed(r)') /\ (msg' = r /\ pc' \in Early => Unreviewed(r)')
      BY <1>3, <2>2, <3>1 DEF Unbegun
    <3>4. QED  BY <1>2, <3>1, <3>2, <3>3 DEF Unbegun, Absent
  <2>4. msg' \in {h, NoRequest} /\ msg' \notin ToSet(queue')
    BY <1>1, <1>5, <1>7, <2>1, <2>2 DEF Pop, PopRaises
  <2>5. Once'
    BY <2>2, <2>3, <2>4 DEF Once
  <2>6. ASSUME NEW r \in Requests, r # h, Clean(r) PROVE Clean(r)'
    <3>1. req[r] # "marking" /\ msg # r /\ msg' # r
      BY <1>1, <2>4, <2>6 DEF Clean, Agreeing
    <3>2. r \in ToSet(queue) => r \in ToSet(queue')
      BY <2>2, <2>6
    <3>3. QED  BY <1>2, <1>3, <2>6, <3>1, <3>2, CleanFrame
  <2>7. CASE Pop
    <3>1. pc' = "popped" /\ msg' = h /\ failures' = failures
      BY <2>1, <2>7 DEF Pop
    <3>2. TypeOK'
      BY <1>1, <1>2, <2>2, <3>1 DEF TypeOK, Idle, Early
    <3>3. Clean(h) => Clean(h)'
      BY <1>2, <1>3, <1>5, <2>2, <3>1 DEF Clean, Agreeing, Agree, Traced, Announced, Ended, Wrong
    <3>4. CleanKept(h)
      BY <2>6, <3>3 DEF CleanKept
    <3>5. QED  BY <1>4, <2>5, <3>2, <3>4 DEF Inv
  <2>8. CASE PopRaises
    <3>1. pc' = "dead" /\ msg' = NoRequest /\ failures' = failures + 1
      BY <1>1, <2>8 DEF PopRaises, Failure
    <3>2. TypeOK' /\ failures' # failures
      BY <1>1, <1>2, <2>2, <3>1 DEF TypeOK, Idle
    <3>3. CleanKept(h)
      BY <2>6, <3>2 DEF CleanKept
    <3>4. QED  BY <1>4, <2>5, <3>2, <3>3 DEF Inv
  <2>9. QED  BY <1>7, <2>7, <2>8
<1>8. QED  BY <1>1, <1>6, <1>7 DEF StartApi, Pop, PopRaises, Failure

\* A crash stops any number of requests half way; it spoils only the job in
\* the thread's hands.
LEMMA CrashStep ==
    ASSUME Inv, ApiCrash
    PROVE  Inv' /\ \E x : CleanKept(x)
<1>1. TypeOK /\ Once /\ Reviewable /\ NoRequest \notin Requests
  BY DraftAssumption DEF Inv
<1>2. /\ row' = row /\ rec' = rec /\ stream' = stream /\ queue' = queue /\ result' = result
      /\ review' = NoReview /\ pc' = "down" /\ msg' = NoRequest /\ failures' = failures + 1
  BY DEF ApiCrash, Release, Failure, stores
<1>3. /\ req' \in [Requests -> {"new", "recorded", "stored", "marking", "accepted", "failed", "lost"}]
      /\ \A r \in Requests : req'[r] \in {"new", "accepted", "failed", "lost"} /\ req'[r] \in {req[r], "lost"}
  <2>1. req' = [r \in Requests |-> IF req[r] \in {"recorded", "stored", "marking"} THEN "lost" ELSE req[r]]
    BY DEF ApiCrash
  <2>2. QED  BY <1>1, <2>1 DEF TypeOK
<1>4. \A s \in Requests : ~InReview(s)' /\ (Unreviewed(s) => Unreviewed(s)')
  BY <1>2 DEF InReview, Unreviewed
<1>5. TypeOK' /\ failures' # failures
  BY <1>1, <1>2, <1>3 DEF TypeOK, Idle
<1>6. Once'
  <2>1. ASSUME NEW r \in Requests PROVE Unbegun(r)'
    BY <1>1, <1>2, <1>3, <1>4 DEF Once, Unbegun, Absent, Early
  <2>2. NoRequest \notin ToSet(queue)
    BY <1>1 DEF TypeOK, ToSet
  <2>3. QED  BY <1>1, <1>2, <2>1, <2>2 DEF Once
<1>7. Reviewable'
  BY <1>1, <1>2 DEF Reviewable
<1>8. PICK h : h = msg
  OBVIOUS
<1>9. CleanKept(h)
  <2> SUFFICES ASSUME NEW r \in Requests, Clean(r), r # h PROVE Clean(r)'
    BY <1>5 DEF CleanKept
  <2>1. msg # r /\ msg' # r /\ req'[r] # "marking" /\ (req'[r] = "accepted" => req[r] = "accepted")
    BY <1>1, <1>2, <1>3, <1>8
  <2>2. QED  BY <1>2, <1>4, <2>1, CleanFrame
<1>10. QED  BY <1>5, <1>6, <1>7, <1>9 DEF Inv

-----------------------------------------------------------------------------
(* The API and the board decisions.                                        *)

\* A step of a handler is about one request and leaves the thread alone.
LEMMA ApiFrame ==
    ASSUME Inv, TypeOK', NEW h \in Requests, pc' = pc, msg' = msg,
           \A s \in Requests : s # h =>
               /\ row'[s] = row[s] /\ rec'[s] = rec[s] /\ stream'[s] = stream[s] /\ req'[s] = req[s]
               /\ s \in ToSet(queue') <=> s \in ToSet(queue)
               /\ InReview(s)' <=> InReview(s),
           IsInjective(queue'), msg \notin ToSet(queue'),
           Unbegun(h)', rec'[h].review # "none" => rec'[h].status = "completed",
           review' # NoReview => review'.entry.status = "completed" /\ review'.entry.review # "none",
           failures' = failures /\ Clean(h) => Clean(h)'
    PROVE  Inv' /\ CleanKept(h)
<1>1. TypeOK /\ Once /\ Reviewable
  BY DEF Inv
<1>2. ASSUME NEW s \in Requests, s # h PROVE Unbegun(s)' /\ (Clean(s) => Clean(s)')
  <2>1. /\ row'[s] = row[s] /\ rec'[s] = rec[s] /\ stream'[s] = stream[s] /\ req'[s] = req[s]
        /\ s \in ToSet(queue') <=> s \in ToSet(queue)
        /\ InReview(s)' <=> InReview(s)
    BY <1>2
  <2>2. Unbegun(s)'
    BY <1>1, <1>2, <2>1 DEF Once, Unbegun, Unreviewed, Absent
  <2>3. Clean(s) => Agreeing(s)'
    BY <2>1 DEF Clean, Agreeing, Agree, Unreviewed
  <2>4. Clean(s) => Traced(s)' /\ Announced(s)'
    BY <2>1 DEF Clean, Traced, Announced
  <2>5. QED  BY <2>2, <2>3, <2>4 DEF Clean
<1>3. Once'
  BY <1>2 DEF Once
<1>4. Reviewable'
  BY <1>1 DEF Reviewable
<1>5. CleanKept(h)
  BY <1>2 DEF CleanKept
<1>6. QED  BY <1>3, <1>4, <1>5 DEF Inv

LEMMA RecordStep ==
    ASSUME Inv, NEW h \in Requests, Record(h)
    PROVE  Inv' /\ CleanKept(h)
<1>1. TypeOK /\ Once /\ Reviewable /\ req[h] = "new"
  BY DEF Inv, Record
<1>2. /\ rec' = rec /\ stream' = stream /\ queue' = queue /\ pc' = pc /\ msg' = msg
      /\ result' = result /\ review' = review
  BY DEF Record
<1>3. h \notin ToSet(queue) /\ msg # h /\ Unreviewed(h) /\ Absent(h)
  BY <1>1 DEF Once, Unbegun
<1>4. \A s \in Requests : (InReview(s)' <=> InReview(s)) /\ (Unreviewed(s)' <=> Unreviewed(s))
  BY <1>2 DEF InReview, Unreviewed
<1>5. PICK written : written = [row EXCEPT ![h].status = "pending"]
  OBVIOUS
<1>6. /\ written \in [Requests -> Entries] /\ written[h].status = "pending"
      /\ \A s \in Requests : s # h => written[s] = row[s]
  BY <1>1, <1>5 DEF TypeOK, Entries, Statuses
<1>7. /\ failures' \in {failures, failures + 1} /\ row' \in {row, written}
      /\ \/ req' = [req EXCEPT ![h] = "recorded"] /\ row' = written
         \/ req' = [req EXCEPT ![h] = "failed"] /\ failures' = failures + 1
  BY <1>5 DEF Record, Failure
<1>8. TypeOK'
  BY <1>1, <1>2, <1>6, <1>7 DEF TypeOK
<1>9. /\ \A s \in Requests : s # h => row'[s] = row[s] /\ req'[s] = req[s]
      /\ req'[h] \in {"recorded", "failed"} /\ (req'[h] = "recorded" => row'[h].status = "pending")
  BY <1>1, <1>6, <1>7 DEF TypeOK
<1>10. Unbegun(h)'
  BY <1>2, <1>3, <1>4, <1>9 DEF Unbegun, Absent
<1>11. Clean(h)'
  BY <1>2, <1>3, <1>4, <1>9
     DEF Clean, Agreeing, Agree, Traced, Announced, Unreviewed, Absent, Terminal
<1>12. QED
  BY <1>1, <1>2, <1>4, <1>8, <1>9, <1>10, <1>11, ApiFrame DEF Once, Reviewable

LEMMA StoreRequestStep ==
    ASSUME Inv, NEW h \in Requests, StoreRequest(h)
    PROVE  Inv' /\ CleanKept(h)
<1>1. TypeOK /\ Once /\ Reviewable /\ req[h] = "recorded"
  BY DEF Inv, StoreRequest
<1>2. /\ row' = row /\ stream' = stream /\ queue' = queue /\ pc' = pc /\ msg' = msg
      /\ result' = result /\ review' = review
  BY DEF StoreRequest
<1>3. h \notin ToSet(queue) /\ msg # h /\ Unreviewed(h) /\ row[h].status = "pending"
  BY <1>1 DEF Once, Unbegun
<1>4. \A s \in Requests : InReview(s)' <=> InReview(s)
  BY <1>2 DEF InReview
<1>5. PICK stored : stored = [rec EXCEPT ![h].status = "pending"]
  OBVIOUS
<1>6. /\ stored \in [Requests -> Entries] /\ stored[h].status = "pending" /\ stored[h].review = rec[h].review
      /\ \A s \in Requests : s # h => stored[s] = rec[s]
  BY <1>1, <1>5 DEF TypeOK, Entries, Statuses
<1>7. /\ failures' \in {failures, failures + 1} /\ rec' \in {rec, stored}
      /\ \/ req' = [req EXCEPT ![h] = "stored"] /\ rec' = stored
         \/ req' = [req EXCEPT ![h] = "marking"] /\ failures' = failures + 1
  BY <1>5 DEF StoreRequest, Failure
<1>8. TypeOK'
  BY <1>1, <1>2, <1>6, <1>7 DEF TypeOK
<1>9. /\ \A s \in Requests : s # h => rec'[s] = rec[s] /\ req'[s] = req[s]
      /\ rec'[h].review = "none" /\ Unreviewed(h)'
  BY <1>1, <1>3, <1>4, <1>6, <1>7 DEF TypeOK, Unreviewed
<1>10. /\ req'[h] \in {"stored", "marking"}
       /\ failures' = failures => req'[h] = "stored" /\ rec'[h].status = "pending"
  BY <1>1, <1>6, <1>7 DEF TypeOK
<1>11. Unbegun(h)'
  BY <1>2, <1>3, <1>9, <1>10 DEF Unbegun
<1>12. failures' = failures => Clean(h)'
  BY <1>2, <1>3, <1>9, <1>10
     DEF Clean, Agreeing, Agree, Traced, Announced, Unreviewed, Terminal
<1>13. QED
  BY <1>1, <1>2, <1>4, <1>8, <1>9, <1>11, <1>12, ApiFrame DEF Once, Reviewable

LEMMA PushStep ==
    ASSUME Inv, NEW h \in Requests, Push(h)
    PROVE  Inv' /\ CleanKept(h)
<1>1. TypeOK /\ Once /\ Reviewable /\ req[h] = "stored"
  BY DEF Inv, Push
<1>2. /\ row' = row /\ rec' = rec /\ stream' = stream /\ pc' = pc /\ msg' = msg
      /\ result' = result /\ review' = review
  BY DEF Push, stores
<1>3. h \notin ToSet(queue) /\ msg # h /\ Unreviewed(h)
  BY <1>1 DEF Once, Unbegun
<1>4. \A s \in Requests : (InReview(s)' <=> InReview(s)) /\ (Unreviewed(s)' <=> Unreviewed(s))
  BY <1>2 DEF InReview, Unreviewed
<1>5. /\ failures' \in {failures, failures + 1} /\ queue' \in {queue, Cons(h, queue)}
      /\ \/ req' = [req EXCEPT ![h] = "accepted"] /\ queue' = Cons(h, queue)
         \/ req' = [req EXCEPT ![h] = "marking"] /\ failures' = failures + 1
  BY DEF Push, Failure
<1>6. /\ Cons(h, queue) \in Seq(Requests) /\ ToSet(Cons(h, queue)) = {h} \cup ToSet(queue)
      /\ IsInjective(Cons(h, queue))
  BY <1>1, <1>3, ConsFacts DEF TypeOK, Once
<1>7. /\ queue' \in Seq(Requests) /\ IsInjective(queue') /\ ToSet(queue') \subseteq {h} \cup ToSet(queue)
      /\ ToSet(queue) \subseteq ToSet(queue') /\ msg \notin ToSet(queue')
  BY <1>1, <1>3, <1>5, <1>6 DEF TypeOK, Once
<1>8. TypeOK'
  BY <1>1, <1>2, <1>5, <1>7 DEF TypeOK
<1>9. /\ \A s \in Requests : s # h => req'[s] = req[s] /\ (s \in ToSet(queue') <=> s \in ToSet(queue))
      /\ req'[h] \in {"accepted", "marking"}
      /\ failures' = failures => req'[h] = "accepted" /\ h \in ToSet(queue')
  BY <1>1, <1>5, <1>6, <1>7 DEF TypeOK
<1>10. Unbegun(h)'
  BY <1>2, <1>3, <1>4, <1>9 DEF Unbegun
<1>11. failures' = failures /\ Clean(h) => Clean(h)'
  BY <1>2, <1>3, <1>4, <1>9 DEF Clean, Agreeing, Agree, Traced, Announced
<1>12. QED
  BY <1>1, <1>2, <1>4, <1>7, <1>8, <1>9, <1>10, <1>11, ApiFrame DEF Reviewable

LEMMA MarkEnqueueFailedStep ==
    ASSUME Inv, NEW h \in Requests, MarkEnqueueFailed(h)
    PROVE  Inv' /\ CleanKept(h)
<1>1. TypeOK /\ Once /\ Reviewable /\ req[h] = "marking" /\ req' = [req EXCEPT ![h] = "failed"]
  BY DEF Inv, MarkEnqueueFailed
<1>2. /\ rec' = rec /\ stream' = stream /\ queue' = queue /\ pc' = pc /\ msg' = msg
      /\ result' = result /\ review' = review
  BY DEF MarkEnqueueFailed
<1>3. \A s \in Requests : (InReview(s)' <=> InReview(s)) /\ (Unreviewed(s)' <=> Unreviewed(s))
  BY <1>2 DEF InReview, Unreviewed
<1>4. /\ row' \in [Requests -> Entries] /\ \A s \in Requests : s # h => row'[s] = row[s]
      /\ failures' \in Nat
  <2>1. "failed" \in Statuses /\ "none" \in Reviews
    BY DEF Statuses, Reviews, Terminal
  <2>2. TryUpdateRow(h, "failed", "none")
    BY DEF MarkEnqueueFailed
  <2>3. QED  BY <1>1, <2>1, <2>2, RowFacts
<1>5. TypeOK'
  BY <1>1, <1>2, <1>4 DEF TypeOK
<1>6. req'[h] = "failed" /\ \A s \in Requests : s # h => req'[s] = req[s]
  BY <1>1 DEF TypeOK
<1>7. Unbegun(h)'
  BY <1>1, <1>2, <1>3, <1>6 DEF Once, Unbegun
<1>8. ~Clean(h)
  BY <1>1 DEF Clean, Agreeing
<1>9. QED
  BY <1>1, <1>2, <1>3, <1>4, <1>5, <1>6, <1>7, <1>8, ApiFrame DEF Once, Reviewable

LEMMA RecordExpiresStep ==
    ASSUME Inv, NEW h \in Requests, RecordExpires(h)
    PROVE  Inv' /\ CleanKept(h)
<1>1. TypeOK /\ Once /\ Reviewable
  BY DEF Inv
<1>2. /\ row' = row /\ stream' = stream /\ queue' = queue /\ req' = req /\ pc' = pc /\ msg' = msg
      /\ result' = result /\ review' = review /\ failures' = failures
  BY DEF RecordExpires
<1>3. \A s \in Requests : InReview(s)' <=> InReview(s)
  BY <1>2 DEF InReview
<1>4. /\ rec' \in [Requests -> Entries] /\ rec'[h].status = "absent" /\ rec'[h].review = "none"
      /\ \A s \in Requests : s # h => rec'[s] = rec[s]
  <2>1. rec' = [rec EXCEPT ![h] = [status |-> "absent", review |-> "none"]]
    BY DEF RecordExpires
  <2>2. [status |-> "absent", review |-> "none"] \in Entries
    BY DEF Entries, Statuses, Reviews
  <2>3. QED  BY <1>1, <2>1, <2>2 DEF TypeOK
<1>5. TypeOK'
  BY <1>1, <1>2, <1>4 DEF TypeOK
<1>6. Unreviewed(h) => Unreviewed(h)'
  BY <1>3, <1>4 DEF Unreviewed
<1>7. Unbegun(h)'
  BY <1>1, <1>2, <1>4, <1>6 DEF Once, Unbegun, Absent
<1>8. Clean(h) => Clean(h)'
  BY <1>2, <1>3, <1>4, <1>6 DEF Clean, Agreeing, Agree, Traced, Announced, Terminal
<1>9. QED
  BY <1>1, <1>2, <1>3, <1>4, <1>5, <1>7, <1>8, ApiFrame DEF Once, Reviewable

\* A decision is about a completed result.
LEMMA DecideStep ==
    ASSUME Inv, NEW h \in Requests, NEW d \in Decisions, Decide(h, d)
    PROVE  Inv' /\ CleanKept(h)
<1>1. TypeOK /\ Once /\ Reviewable /\ review = NoReview /\ rec[h].review # "none"
  BY DEF Inv, Decide, Serving
<1>2. /\ row' = row /\ rec' = rec /\ stream' = stream /\ queue' = queue /\ req' = req /\ pc' = pc
      /\ msg' = msg /\ result' = result
  BY DEF Decide, stores
<1>3. rec[h].status = "completed" /\ rec[h] \in Entries
  BY <1>1 DEF Reviewable, TypeOK
<1>4. PICK v : v = ReviewAfter(rec[h].review, d)
  OBVIOUS
<1>5. v \in Reviews /\ v # "none"
  BY <1>1, <1>3, <1>4 DEF ReviewAfter, Reviews, Entries
<1>6. PICK entry : entry = [status |-> rec[h].status, review |-> v]
  OBVIOUS
<1>7. entry \in Entries /\ entry.status = "completed" /\ entry.review # "none"
  BY <1>3, <1>5, <1>6 DEF Entries
<1>8. /\ failures' \in {failures, failures + 1}
      /\ review' \in {NoReview, [of |-> h, phase |-> "save", entry |-> entry]}
  BY <1>1, <1>4, <1>6 DEF Decide, Failure
<1>9. TypeOK'
  BY <1>1, <1>2, <1>7, <1>8 DEF TypeOK
<1>10. \A s \in Requests : s # h => (InReview(s)' <=> InReview(s))
  BY <1>1, <1>8 DEF InReview
<1>11. ~Unreviewed(h) /\ Unbegun(h)
  BY <1>1 DEF Unreviewed, Once
<1>12. Unbegun(h)'
  BY <1>2, <1>11 DEF Unbegun
<1>13. Clean(h) => Clean(h)'
  <2> SUFFICES ASSUME Clean(h) PROVE Clean(h)'
    OBVIOUS
  <2>1. msg = h => pc \notin Early /\ pc \notin Wrong
    BY <1>11 DEF Unbegun, Clean, Agreeing
  <2>2. msg # h => row[h].status = "completed"
    BY <1>3 DEF Clean, Agreeing, Agree
  <2>3. Agreeing(h)'
    BY <1>2, <1>3, <2>1, <2>2 DEF Clean, Agreeing, Agree, Early
  <2>4. Traced(h)' /\ Announced(h)'
    BY <1>2, <1>3 DEF Clean, Traced, Announced, Terminal
  <2>5. QED  BY <2>3, <2>4 DEF Clean
<1>14. review' # NoReview => review'.entry.status = "completed" /\ review'.entry.review # "none"
  BY <1>7, <1>8
<1>15. QED
  BY <1>1, <1>2, <1>9, <1>10, <1>12, <1>13, <1>14, ApiFrame DEF Once, Reviewable

\* The write of a decision finds the result completed or expired.
LEMMA SaveStep ==
    ASSUME Inv, NEW h \in Requests, review # NoReview, review.of = h, SaveRecord \/ SaveRow
    PROVE  Inv' /\ CleanKept(h)
<1>1. TypeOK /\ Once /\ Reviewable /\ InReview(h)
  BY DEF Inv, InReview
<1>2. /\ stream' = stream /\ queue' = queue /\ req' = req /\ pc' = pc /\ msg' = msg /\ result' = result
  BY DEF SaveRecord, SaveRow
<1>3. PICK entry : entry = review.entry
  OBVIOUS
<1>4. /\ entry \in Entries /\ entry.status = "completed" /\ entry.review # "none" /\ entry.review \in Reviews
  BY <1>1, <1>3 DEF TypeOK, Reviewable, Entries
<1>5. /\ row' \in [Requests -> Entries] /\ rec' \in [Requests -> Entries] /\ failures' \in Nat
      /\ \A s \in Requests : s # h => row'[s] = row[s] /\ rec'[s] = rec[s]
      /\ row'[h].status \in {row[h].status, "completed"}
      /\ rec'[h] \in {rec[h], entry}
  <2>1. CASE SaveRecord
    <3>1. PICK saved : saved = [rec EXCEPT ![h] = entry]
      OBVIOUS
    <3>2. row' = row /\ rec' \in {rec, saved} /\ failures' \in {failures, failures + 1}
      BY <1>3, <2>1, <3>1 DEF SaveRecord, Failure
    <3>3. QED  BY <1>1, <1>4, <3>1, <3>2 DEF TypeOK
  <2>2. CASE SaveRow
    <3>1. rec' = rec /\ TryUpdateRow(h, entry.status, entry.review) /\ entry.status \in Statuses
      BY <1>3, <1>4, <2>2 DEF SaveRow, Statuses, Terminal
    <3>2. QED  BY <1>1, <1>4, <3>1, RowFacts DEF TypeOK
  <2>3. QED  BY <2>1, <2>2
<1>6. review' # NoReview => review'.of = h /\ review'.entry = entry /\ review' \in [of : Requests, phase : {"save", "row"}, entry : Entries]
  <2>1. review \in [of : Requests, phase : {"save", "row"}, entry : Entries]
    BY <1>1 DEF TypeOK
  <2>2. review' \in {NoReview, [review EXCEPT !.phase = "row"]}
    BY DEF SaveRecord, SaveRow
  <2>3. QED  BY <1>3, <2>1, <2>2
<1>7. TypeOK'
  BY <1>1, <1>2, <1>5, <1>6 DEF TypeOK
<1>8. \A s \in Requests : s # h => (InReview(s)' <=> InReview(s))
  BY <1>6 DEF InReview
<1>9. ~Unreviewed(h) /\ Unbegun(h)
  BY <1>1 DEF Unreviewed, Once
<1>10. Unbegun(h)'
  BY <1>2, <1>9 DEF Unbegun
<1>11. Clean(h) => Clean(h)'
  <2> SUFFICES ASSUME Clean(h) PROVE Clean(h)'
    OBVIOUS
  <2>1. msg = h => pc \notin Early /\ pc \notin Wrong
    BY <1>9 DEF Unbegun, Clean, Agreeing
  <2>2. msg # h => row[h].status = "completed" /\ row'[h].status = "completed"
    BY <1>1, <1>5 DEF Clean, Agreeing, Agree
  <2>3. Agreeing(h)'
    BY <1>2, <1>4, <1>5, <2>1, <2>2 DEF Clean, Agreeing, Agree, Early
  <2>4. Traced(h)' /\ Announced(h)'
    BY <1>1, <1>2, <1>5 DEF Clean, Traced, Announced, Terminal
  <2>5. QED  BY <2>3, <2>4 DEF Clean
<1>12. rec'[h].review # "none" => rec'[h].status = "completed"
  BY <1>1, <1>4, <1>5 DEF Reviewable
<1>13. review' # NoReview => review'.entry.status = "completed" /\ review'.entry.review # "none"
  BY <1>4, <1>6
<1>14. QED
  BY <1>1, <1>2, <1>5, <1>7, <1>8, <1>10, <1>11, <1>12, <1>13, ApiFrame DEF Once

-----------------------------------------------------------------------------
(* The count.                                                              *)

\* A step is counted, and spoils one request at most.
LEMMA StepKeeps ==
    ASSUME Inv, [Next]_vars
    PROVE  Inv' /\ \E x : CleanKept(x)
<1>1. ASSUME NEW h \in Requests, Record(h) \/ ApiStep(h) \/ RecordExpires(h) \/ \E d \in Decisions : Decide(h, d)
      PROVE  Inv' /\ \E x : CleanKept(x)
  BY <1>1, RecordStep, StoreRequestStep, PushStep, MarkEnqueueFailedStep, RecordExpiresStep, DecideStep
     DEF ApiStep
<1>2. CASE SaveRecord \/ SaveRow
  <2>1. review # NoReview
    BY <1>2 DEF SaveRecord, SaveRow
  <2>2. PICK h : h = review.of
    OBVIOUS
  <2>3. h \in Requests
    BY <2>1, <2>2 DEF Inv, TypeOK
  <2>4. QED  BY <1>2, <2>1, <2>2, <2>3, SaveStep
<1>3. CASE StartApi \/ Pop \/ PopRaises
  BY <1>3, IdleStep
<1>4. CASE ApiCrash
  BY <1>4, CrashStep
<1>5. CASE Load \/ RowStarted \/ Work \/ RowEnds \/ \E m \in Marks : StoreMark(m) \/ PublishMark(m)
  <2>1. pc \notin Idle
    BY <1>5, MarkIs DEF Load, RowStarted, Work, RowEnds, StoreMark, PublishMark, Idle
  <2>2. PICK h : h = msg
    OBVIOUS
  <2>3. h \in Requests
    BY <2>1, <2>2 DEF Inv, TypeOK
  <2>4. QED
    BY <1>5, <2>2, <2>3, LoadStep, RowStartedStep, WorkStep, RowEndsStep, StoreMarkStep, PublishMarkStep
<1>6. CASE UNCHANGED vars
  <2>1. Inv'
    BY <1>6 DEF vars, Inv, TypeOK, Once, Unbegun, Reviewable, Unreviewed, InReview, Absent
  <2>2. ASSUME NEW r \in Requests, Clean(r) PROVE Clean(r)'
    BY <1>6, <2>2 DEF vars, Clean, Agreeing, Agree, Traced, Announced, Unreviewed, InReview
  <2>3. QED  BY <2>1, <2>2 DEF CleanKept
<1>7. QED  BY <1>1, <1>2, <1>3, <1>4, <1>5, <1>6 DEF Next, ThreadStep

LEMMA FailuresGrow ==
    ASSUME [Next]_vars
    PROVE  failures' = failures \/ failures' = failures + 1
  BY DEF Next, vars, Record, ApiStep, StoreRequest, Push, MarkEnqueueFailed, RecordExpires, Decide,
         SaveRecord, SaveRow, StartApi, PopRaises, ThreadStep, Pop, Load, RowStarted, Work, RowEnds,
         StoreMark, PublishMark, ApiCrash, TryUpdateRow, Failure

LEMMA CountStep ==
    ASSUME Inv, SuspectsCostFailures, [Next]_vars
    PROVE  SuspectsCostFailures'
<1>1. PICK x : CleanKept(x)
  BY StepKeeps
<1>2. /\ IsFiniteSet(Suspect) /\ Cardinality(Suspect) \in Nat
      /\ Cardinality(Suspect) <= failures /\ failures \in Nat
  BY FS_CardinalityType DEF SuspectsCostFailures, Inv, TypeOK
<1>3. CASE failures' = failures
  <2>1. Suspect' \subseteq Suspect
    BY <1>1, <1>3 DEF CleanKept, Suspect
  <2>2. IsFiniteSet(Suspect') /\ Cardinality(Suspect') <= Cardinality(Suspect)
    BY <1>2, <2>1, FS_Subset
  <2>3. Cardinality(Suspect') \in Nat
    BY <2>2, FS_CardinalityType
  <2>4. Cardinality(Suspect') <= failures'
    BY <1>2, <1>3, <2>2, <2>3
  <2>5. QED  BY <2>2, <2>4 DEF SuspectsCostFailures
<1>4. CASE failures' = failures + 1
  <2>1. Suspect' \subseteq Suspect \cup {x}
    BY <1>1 DEF CleanKept, Suspect
  <2>2. /\ IsFiniteSet(Suspect \cup {x})
        /\ Cardinality(Suspect \cup {x}) = IF x \in Suspect THEN Cardinality(Suspect) ELSE Cardinality(Suspect) + 1
    BY <1>2, FS_AddElement
  <2>3. IsFiniteSet(Suspect') /\ Cardinality(Suspect') <= Cardinality(Suspect \cup {x})
    BY <2>1, <2>2, FS_Subset
  <2>4. Cardinality(Suspect') \in Nat
    BY <2>3, FS_CardinalityType
  <2>5. Cardinality(Suspect') <= failures'
    BY <1>2, <1>4, <2>2, <2>3, <2>4
  <2>6. QED  BY <2>3, <2>5 DEF SuspectsCostFailures
<1>5. QED  BY <1>3, <1>4, FailuresGrow

LEMMA InitInvariant == Init => IInv
<1> SUFFICES ASSUME Init PROVE IInv
  OBVIOUS
<1>1. /\ row = [r \in Requests |-> [status |-> "absent", review |-> "none"]] /\ rec = row
      /\ stream = [r \in Requests |-> {}] /\ queue = <<>> /\ req = [r \in Requests |-> "new"]
      /\ pc = "down" /\ msg = NoRequest /\ result = "none" /\ review = NoReview /\ failures = 0
  BY DEF Init
<1>2. [status |-> "absent", review |-> "none"] \in Entries
  BY DEF Entries, Statuses, Reviews
<1>3. \A r \in Requests : row[r].status = "absent" /\ rec[r].status = "absent" /\ rec[r].review = "none" /\ req[r] = "new"
  BY <1>1
<1>4. TypeOK
  BY <1>1, <1>2 DEF TypeOK, Idle, Reviews
<1>5. ToSet(queue) = {} /\ IsInjective(queue)
  BY <1>1 DEF ToSet, IsInjective
<1>6. NoRequest \notin Requests
  BY DraftAssumption
<1>7. Once
  BY <1>1, <1>3, <1>5, <1>6 DEF Once, Unbegun, Unreviewed, InReview, Absent, Early
<1>8. Reviewable
  BY <1>1, <1>3 DEF Reviewable
<1>9. \A r \in Requests : Clean(r)
  BY <1>1, <1>3, <1>6 DEF Clean, Agreeing, Agree, Traced, Announced, InReview, Terminal
<1>10. Suspect = {}
  BY <1>9 DEF Suspect
<1>11. SuspectsCostFailures
  <2>1. IsFiniteSet({}) /\ Cardinality({}) = 0
    BY FS_EmptySet
  <2>2. QED  BY <1>1, <1>10, <2>1 DEF SuspectsCostFailures
<1>12. QED  BY <1>4, <1>7, <1>8, <1>11 DEF IInv, Inv

\* The invariant above, through every step of the handlers, of the board
\* decisions, of the thread and of a crash.
THEOREM Invariant == Spec => []IInv
<1>1. IInv /\ [Next]_vars => IInv'
  BY StepKeeps, CountStep DEF IInv
<1>2. QED  BY <1>1, InitInvariant, PTL DEF Spec

\* A set of requests that are not clean has failures members at most.
LEMMA Bounded ==
    ASSUME IInv, NEW S, S \subseteq Suspect
    PROVE  Cardinality(S) <= failures
<1>1. /\ IsFiniteSet(Suspect) /\ Cardinality(Suspect) \in Nat
      /\ Cardinality(Suspect) <= failures /\ failures \in Nat
  BY FS_CardinalityType DEF IInv, SuspectsCostFailures, Inv, TypeOK
<1>2. IsFiniteSet(S) /\ Cardinality(S) <= Cardinality(Suspect)
  BY <1>1, FS_Subset
<1>3. Cardinality(S) \in Nat
  BY <1>2, FS_CardinalityType
<1>4. QED  BY <1>1, <1>2, <1>3

\* For every number of requests, the row and the record of a settled request
\* differ for one request per failed call or crash at most, although the two
\* stores are written apart and a board decision writes back what it read.
THEOREM StoresAgree == Spec => []StoresDivergeByFailures
<1>1. IInv => StoresDivergeByFailures
  <2> SUFFICES ASSUME IInv PROVE StoresDivergeByFailures
    OBVIOUS
  <2> DEFINE settled == {r \in Requests :
                 /\ msg # r /\ (review # NoReview => review.of # r)
                 /\ req[r] \in {"accepted", "failed", "lost"}
                 /\ ~Absent(r)}
             diverged == {r \in settled : row[r].status # rec[r].status}
  <2>1. diverged \subseteq Suspect
    BY DEF Suspect, Clean, Agreeing, Agree, Absent
  <2>2. Cardinality(diverged) <= failures
    BY <2>1, Bounded
  <2>3. QED  BY <2>2 DEF StoresDivergeByFailures
<1>2. QED  BY <1>1, Invariant, PTL

\* For every number of requests, an accepted job that is neither queued nor
\* handled and has no final row costs a failed call or a crash: BRPOP takes
\* the job before anything is recorded of it.
THEOREM DraftsTraced == Spec => []LostDraftCostsAFailure
<1>1. IInv => LostDraftCostsAFailure
  <2> SUFFICES ASSUME IInv PROVE LostDraftCostsAFailure
    OBVIOUS
  <2> DEFINE lost == {r \in Requests :
                 /\ req[r] = "accepted" /\ row[r].status \notin Terminal
                 /\ r \notin ToSet(queue) \cup {msg}}
  <2>1. lost \subseteq Suspect
    BY DEF Suspect, Clean, Traced
  <2>2. Cardinality(lost) <= failures
    BY <2>1, Bounded
  <2>3. QED  BY <2>2 DEF LostDraftCostsAFailure
<1>2. QED  BY <1>1, Invariant, PTL

\* For every number of requests, a final record whose event stream has no
\* final event costs a failed call or a crash, also when a board decision
\* brings back a record that expired.
THEOREM FinalAnnounced == Spec => []FinalRecordIsAnnounced
<1>1. IInv => FinalRecordIsAnnounced
  <2> SUFFICES ASSUME IInv PROVE FinalRecordIsAnnounced
    OBVIOUS
  <2> DEFINE silent == {r \in Requests :
                 /\ rec[r].status \in Terminal /\ msg # r
                 /\ (review # NoReview => review.of # r)
                 /\ stream[r] \cap Terminal = {}}
  <2>1. silent \subseteq Suspect
    BY DEF Suspect, Clean, Announced
  <2>2. Cardinality(silent) <= failures
    BY <2>1, Bounded
  <2>3. QED  BY <2>2 DEF FinalRecordIsAnnounced
<1>2. QED  BY <1>1, Invariant, PTL
=============================================================================
