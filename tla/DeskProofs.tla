----------------------------- MODULE DeskProofs -----------------------------
(***************************************************************************)
(* What a user keeps at hand, for any applications, jobs and requests: the *)
(* list says what happened, a bulk press does all it says, and what is     *)
(* folded or filtered away is counted.                                     *)
(***************************************************************************)
EXTENDS MCDesk, FiniteSetTheorems, SequenceTheorems, TLAPS

----------------------------------------------------------------------------
(* Entries put into a timeline.                                            *)

\* What stands where after an insertion before place n + 1.
Inserted(f, g, n, m, e) ==
  /\ \A i \in 1..n : g[i] = f[i]
  /\ g[n + 1] = e
  /\ \A i \in (n + 1)..m : g[i + 1] = f[i]

LEMMA InsertAtIs ==
  ASSUME NEW D, NEW t \in Seq(D), NEW n \in Nat, n <= Len(t), NEW e \in D
  PROVE  /\ InsertAt(t, n + 1, e) \in Seq(D)
         /\ Len(InsertAt(t, n + 1, e)) = Len(t) + 1
         /\ Inserted(t, InsertAt(t, n + 1, e), n, Len(t), e)
<1> DEFINE A == SubSeq(t, 1, n)
           C == SubSeq(t, n + 1, Len(t))
           B == A \o <<e>>
<1>1. A \in Seq(D) /\ Len(A) = n /\ \A i \in 1..n : A[i] = t[i]
  OBVIOUS
<1>2. C \in Seq(D) /\ Len(C) = Len(t) - n /\ \A i \in 1..(Len(t) - n) : C[i] = t[n + i]
  OBVIOUS
<1>3. InsertAt(t, n + 1, e) = B \o C
  <2>1. (n + 1) - 1 = n
    OBVIOUS
  <2>2. InsertAt(t, n + 1, e) = SubSeq(t, 1, (n + 1) - 1) \o <<e>> \o C
    BY DEF InsertAt
  <2> QED BY <2>1, <2>2
<1> HIDE DEF A, C
<1>4. <<e>> \in Seq(D) /\ Len(<<e>>) = 1 /\ <<e>>[1] = e
  OBVIOUS
<1>5. B \in Seq(D) /\ Len(B) = n + 1 /\ (\A i \in 1..n : B[i] = t[i]) /\ B[n + 1] = e
  BY <1>1, <1>4
<1> HIDE DEF B
<1> DEFINE T == B \o C
<1>6. T \in Seq(D) /\ Len(T) = Len(t) + 1
  <2>1. Len(t) \in Nat /\ Len(C) = Len(t) - n /\ Len(B) = n + 1
    BY <1>2, <1>5
  <2>2. T \in Seq(D)
    BY <1>2, <1>5
  <2>3. Len(T) = Len(B) + Len(C)
    BY <1>2, <1>5, ConcatProperties
  <2> QED BY <2>1, <2>2, <2>3
<1>7. \A i \in 1..(n + 1) : T[i] = B[i]
  <2> SUFFICES ASSUME NEW i \in 1..(n + 1) PROVE T[i] = B[i]
    OBVIOUS
  <2>1. i \in 1..Len(B)
    BY <1>5
  <2> QED BY <1>2, <1>5, <2>1
<1>8. \A i \in (n + 1)..Len(t) : T[i + 1] = t[i]
  <2> SUFFICES ASSUME NEW i \in (n + 1)..Len(t) PROVE T[i + 1] = t[i]
    OBVIOUS
  <2>1. i - n \in 1..(Len(t) - n) /\ i + 1 = (n + 1) + (i - n)
    OBVIOUS
  <2>2. T[i + 1] = C[i - n]
    BY <1>2, <1>5, <2>1
  <2> QED BY <1>2, <2>1, <2>2
<1> HIDE DEF T
<1>9. InsertAt(t, n + 1, e) = T
  BY <1>3 DEF T
<1>10. Inserted(t, T, n, Len(t), e)
  BY <1>5, <1>7, <1>8 DEF Inserted
<1> QED BY <1>6, <1>9, <1>10

\* How often a value stands among the first so many.
Times(f, m, v) == Cardinality({i \in 1..m : f[i] = v})

LEMMA InsertedCounts ==
  ASSUME NEW f, NEW g, NEW m \in Nat, NEW n \in Nat, n <= m, NEW e, Inserted(f, g, n, m, e), NEW v
  PROVE  Times(g, m + 1, v) = Times(f, m, v) + (IF e = v THEN 1 ELSE 0)
<1> DEFINE A == {i \in 1..m : f[i] = v}
           B == {i \in 1..(m + 1) : g[i] = v}
           C == B \ {n + 1}
           h == [i \in A |-> IF i <= n THEN i ELSE i + 1]
<1>1. IsFiniteSet(A) /\ Cardinality(A) \in Nat
  <2>1. IsFiniteSet(1..m) /\ A \in SUBSET (1..m)
    BY FS_Interval
  <2>2. IsFiniteSet(A)
    BY <2>1, FS_Subset
  <2> QED BY <2>2, FS_CardinalityType
<1>2. h \in [A -> C]
  BY DEF Inserted
<1>3. \A i, k \in A : h[i] = h[k] => i = k
  OBVIOUS
<1>4. \A k \in C : \E i \in A : h[i] = k
  <2> SUFFICES ASSUME NEW k \in C PROVE \E i \in A : h[i] = k
    OBVIOUS
  <2>1. CASE k <= n
    BY <2>1 DEF Inserted
  <2>2. CASE k > n
    <3>1. k - 1 \in (n + 1)..m /\ (k - 1) + 1 = k
      BY <2>2
    <3>2. k - 1 \in A
      BY <3>1 DEF Inserted
    <3>3. h[k - 1] = k
      BY <3>1, <3>2
    <3> QED BY <3>2, <3>3
  <2> QED BY <2>1, <2>2
<1>5. ExistsBijection(A, C)
  <2> HIDE DEF A, C, h
  <2> QED BY <1>2, <1>3, <1>4 DEF ExistsBijection, Bijection, Injection, Surjection, IsInjective
<1>6. IsFiniteSet(C) /\ Cardinality(C) = Cardinality(A)
  <2> HIDE DEF A, C
  <2> QED BY <1>1, <1>5, FS_Bijection
<1>7. B = IF e = v THEN C \union {n + 1} ELSE C
  BY DEF Inserted
<1>8. n + 1 \notin C
  OBVIOUS
<1> HIDE DEF A, B, C
<1>9. Cardinality(B) = Cardinality(A) + (IF e = v THEN 1 ELSE 0)
  <2>1. Cardinality(C \union {n + 1}) = Cardinality(C) + 1
    BY <1>6, <1>8, FS_AddElement
  <2> QED BY <1>1, <1>6, <1>7, <2>1
<1> QED BY <1>9 DEF Times, A, B

----------------------------------------------------------------------------
(* The rows of the list.                                                   *)

ListRows == [there : BOOLEAN, job : BoardJobs \union {None}, status : Statuses, archived : BOOLEAN,
             updated : Nat, hasAd : BOOLEAN, reading : Reads, required : BOOLEAN, score : RowScores]

\* A read fails only of an ad that is there.
ReadHasAd(r) == r.reading = "failed" => r.hasAd

RowsInv == /\ app \in [Apps -> ListRows] /\ acted \in [Apps -> Nat] /\ now \in Nat
           /\ \A a \in Apps : ReadHasAd(app[a])

\* A row whose reading or score moves, or its activity, and nothing else.
Kept(r, n) == /\ n \in ListRows /\ ReadHasAd(n)
              /\ n.there = r.there /\ n.job = r.job /\ n.status = r.status /\ n.archived = r.archived

\* What the reads, the scores and the notes do to the rows.
Touched ==
  /\ RowsInv'
  /\ \A a \in Apps : Kept(app[a], app'[a])
  /\ \A a \in Apps : app[a].updated = acted[a] => app'[a].updated = acted'[a]

LEMMA AbsentIsARow ==
  /\ Absent \in ListRows
  /\ Absent.there = FALSE /\ Absent.archived = FALSE /\ Absent.job = None /\ Absent.updated = 0
  /\ Absent.status = "interested" /\ Absent.reading = "none" /\ Absent.hasAd = FALSE
BY DEF Absent, ListRows, Statuses, Reads, Unscored, RowScores, Numbers

\* A row of which a field or two are written.
Dated(r, t) == [r EXCEPT !.updated = t]

LEMMA UpdatedRow ==
  ASSUME NEW r \in ListRows, NEW t, t \in Nat, NEW n, n = Dated(r, t)
  PROVE  /\ n \in ListRows /\ n.updated = t /\ n.there = r.there /\ n.job = r.job
         /\ n.status = r.status /\ n.archived = r.archived
         /\ n.hasAd = r.hasAd /\ n.reading = r.reading /\ n.score = r.score
BY DEF ListRows, Dated

LEMMA ArchivedRow ==
  ASSUME NEW r \in ListRows, NEW yes \in BOOLEAN, NEW n, n = [r EXCEPT !.archived = yes]
  PROVE  /\ n \in ListRows /\ n.archived = yes /\ n.there = r.there /\ n.job = r.job
         /\ n.status = r.status /\ n.updated = r.updated
         /\ n.hasAd = r.hasAd /\ n.reading = r.reading /\ n.score = r.score
BY DEF ListRows

LEMMA StatusRow ==
  ASSUME NEW r \in ListRows, NEW to \in Statuses, NEW n, n = [r EXCEPT !.status = to]
  PROVE  /\ n \in ListRows /\ n.status = to /\ n.there = r.there /\ n.job = r.job
         /\ n.archived = r.archived
         /\ n.hasAd = r.hasAd /\ n.reading = r.reading /\ n.score = r.score
BY DEF ListRows

LEMMA ReadingRow ==
  ASSUME NEW r \in ListRows, NEW reading \in Reads, NEW n, n = [r EXCEPT !.reading = reading]
  PROVE  /\ n \in ListRows /\ n.reading = reading /\ n.there = r.there /\ n.job = r.job
         /\ n.status = r.status /\ n.archived = r.archived /\ n.hasAd = r.hasAd
         /\ n.updated = r.updated /\ n.score = r.score
BY DEF ListRows

LEMMA ReadRow ==
  ASSUME NEW r \in ListRows, NEW n, n = [r EXCEPT !.reading = "done", !.required = TRUE]
  PROVE  n \in ListRows /\ Kept(r, n)
BY DEF ListRows, Kept, ReadHasAd, Reads

LEMMA AdRow ==
  ASSUME NEW r \in ListRows, NEW reading \in Reads, NEW n,
         n = [r EXCEPT !.hasAd = TRUE, !.reading = reading]
  PROVE  Kept(r, n)
BY DEF ListRows, Kept, ReadHasAd

LEMMA ScoreRow ==
  ASSUME NEW r \in ListRows, NEW score \in RowScores, NEW n, n = [r EXCEPT !.score = score]
  PROVE  /\ n \in ListRows /\ n.reading = r.reading /\ n.there = r.there /\ n.job = r.job
         /\ n.status = r.status /\ n.archived = r.archived /\ n.hasAd = r.hasAd
         /\ n.updated = r.updated /\ n.score = score
BY DEF ListRows

LEMMA StateRow ==
  ASSUME NEW r \in ListRows, NEW n, n = [r EXCEPT !.score.state = "scoring"]
  PROVE  /\ n \in ListRows /\ n.reading = r.reading /\ n.there = r.there /\ n.job = r.job
         /\ n.status = r.status /\ n.archived = r.archived /\ n.hasAd = r.hasAd
         /\ n.updated = r.updated /\ n.score.state = "scoring"
<1> DEFINE score == [r.score EXCEPT !.state = "scoring"]
<1>1. r.score \in RowScores
  BY DEF ListRows
<1>2. score \in RowScores /\ score.state = "scoring"
  BY <1>1 DEF RowScores
<1>3. n = [r EXCEPT !.score = score]
  OBVIOUS
<1> HIDE DEF score
<1>4. /\ n \in ListRows /\ n.reading = r.reading /\ n.there = r.there /\ n.job = r.job
      /\ n.status = r.status /\ n.archived = r.archived /\ n.hasAd = r.hasAd
      /\ n.updated = r.updated /\ n.score = score
  BY <1>2, <1>3 DEF ListRows
<1> QED BY <1>2, <1>4

\* The two ways a row is written: by one request, and by a bulk press.
LEMMA MovedTouches ==
  ASSUME RowsInv, NEW a \in Apps, NEW row, Kept(app[a], row), Moved(a, row), now' = now
  PROVE  Touched
<1> DEFINE n == [row EXCEPT !.updated = now]
<1>2. app' = [app EXCEPT ![a] = n] /\ acted' = [acted EXCEPT ![a] = now]
  BY DEF Moved
<1>0. n = Dated(row, now)
  BY DEF Dated
<1> HIDE DEF n
<1>1. Kept(app[a], n) /\ n.updated = now
  BY <1>0, UpdatedRow DEF Kept, RowsInv, ReadHasAd
<1>3. /\ \A b \in Apps : app'[b] = IF b = a THEN n ELSE app[b]
      /\ \A b \in Apps : acted'[b] = IF b = a THEN now ELSE acted[b]
      /\ app' \in [Apps -> ListRows] /\ acted' \in [Apps -> Nat]
  BY <1>1, <1>2 DEF RowsInv, Kept
<1>4. \A b \in Apps : Kept(app[b], app'[b])
  BY <1>1, <1>3 DEF RowsInv, Kept
<1>5. RowsInv'
  BY <1>3, <1>4 DEF RowsInv, Kept
<1> QED BY <1>1, <1>3, <1>4, <1>5 DEF Touched

PressedRow(r, n, m) ==
  [n EXCEPT !.updated = IF n.reading # r.reading THEN m ELSE n.updated]

LEMMA PressTouches ==
  ASSUME RowsInv, NEW T, T \subseteq Apps, NEW f,
         \A a \in T : Kept(app[a], f[a]) /\ f[a].updated = app[a].updated,
         \A a \in T : app'[a] = PressedRow(app[a], f[a], now),
         \A a \in Apps \ T : app'[a] = app[a],
         app' = [a \in Apps |-> app'[a]],
         acted' = [a \in Apps |-> IF app'[a].updated # app[a].updated THEN now ELSE acted[a]],
         now' = now
  PROVE  /\ Touched
         /\ \A a \in T : app'[a].reading = f[a].reading /\ app'[a].score = f[a].score
         /\ \A a \in Apps \ T : app'[a] = app[a]
<1>1. ASSUME NEW a \in T
      PROVE  /\ Kept(app[a], app'[a]) /\ app'[a].updated \in {now, app[a].updated}
             /\ app'[a].reading = f[a].reading /\ app'[a].score = f[a].score
  <2>1. f[a] \in ListRows /\ Kept(app[a], f[a]) /\ f[a].updated \in Nat /\ app[a].updated = f[a].updated
    BY DEF Kept, ListRows
  <2> DEFINE t == IF f[a].reading # app[a].reading THEN now ELSE f[a].updated
             n == [f[a] EXCEPT !.updated = t]
  <2>2. app'[a] = n
    BY DEF PressedRow
  <2>3. t \in Nat /\ t \in {now, app[a].updated}
    BY <2>1 DEF RowsInv
  <2>0. n = Dated(f[a], t)
    BY DEF Dated
  <2> HIDE DEF t, n
  <2>4. /\ n \in ListRows /\ n.updated = t /\ n.there = f[a].there /\ n.job = f[a].job
        /\ n.status = f[a].status /\ n.archived = f[a].archived
        /\ n.hasAd = f[a].hasAd /\ n.reading = f[a].reading /\ n.score = f[a].score
    BY <2>0, <2>1, <2>3, UpdatedRow
  <2> QED BY <2>1, <2>2, <2>3, <2>4 DEF Kept, ReadHasAd
<1>2. \A a \in Apps \ T : app'[a] = app[a]
  OBVIOUS
<1>3. \A a \in Apps : Kept(app[a], app'[a]) /\ app'[a].updated \in {now, app[a].updated}
  BY <1>1, <1>2 DEF RowsInv, Kept
<1>4. acted' = [a \in Apps |-> acted'[a]]
  OBVIOUS
<1>5. \A a \in Apps : acted'[a] = IF app'[a].updated # app[a].updated THEN now ELSE acted[a]
  OBVIOUS
<1>6. app' \in [Apps -> ListRows] /\ acted' \in [Apps -> Nat]
  BY <1>3, <1>4, <1>5 DEF Kept, RowsInv
<1>7. RowsInv'
  BY <1>3, <1>6 DEF RowsInv, Kept
<1> QED BY <1>1, <1>2, <1>3, <1>5, <1>7 DEF Touched

----------------------------------------------------------------------------
(* The requests between their read and their write.                        *)

RequestRows == [kind : {"none", "status", "track"}, app : Apps \union {None},
                from : Statuses \union {None}, to : Statuses \union {None},
                job : BoardJobs \union {None}, place : Nat, after : SUBSET Requests]

\* A request is none, of an application, or of a job.
RequestRow(q) ==
  /\ q \in RequestRows
  /\ \/ q = NoRequest
     \/ q.kind = "status" /\ q.app \in Apps /\ q.to \in Statuses /\ q.job = None
     \/ q.kind = "track" /\ q.app = None /\ q.job \in BoardJobs

RequestsInv == request \in [Requests -> RequestRows] /\ \A p \in Requests : RequestRow(request[p])

\* Of two changes of one application under way each knows which began first; unless one
\* overtook another, each is to be the newest entry but for those of them.
ChangesOf(a) ==
  \A p \in Changing(a) :
    /\ app[a].there
    /\ request[p].place <= Len(timeline[a])
    /\ request[p].after \subseteq Changing(a)
    /\ \A q \in Changing(a) : p = q \/ p \in request[q].after \/ q \in request[p].after
    /\ a \notin overtaken => request[p].place = Len(timeline[a])

\* The timeline against what was.
EntriesOf(a) == [i \in DOMAIN timeline[a] |-> timeline[a][i].to]
LineOf(a) ==
  app[a].there =>
    /\ Len(had[a]) = Len(timeline[a])
    /\ \A v \in Statuses : Times(EntriesOf(a), Len(timeline[a]), v) = Times(had[a], Len(had[a]), v)
    /\ a \notin overtaken => EntriesOf(a) = had[a] /\ app[a].status = Last(had[a]) /\ had[a] # <<>>

TimelineInv ==
  /\ timeline \in [Apps -> Seq(Events)] /\ had \in [Apps -> Seq(Statuses)]
  /\ \A a \in Apps : ChangesOf(a) /\ LineOf(a)

\* A job with one live application at most, and a press of Track only where it has none.
JobOf(k) ==
  /\ \A a, b \in FindLiveByBoardJob(k) : a = b
  /\ \A p \in Requests : request[p].job = k =>
       FindLiveByBoardJob(k) = {} /\ \A q \in Requests : request[q].job = k => p = q
JobsInv == \A k \in BoardJobs \ doubled : JobOf(k)

\* What Undo would put back is what the archive by rule added.
BannerInv ==
  /\ banner.ids \subseteq Apps
  /\ banner.ids # {} /\ ~ banner.picked =>
       banner.ids \cap before = {} /\ Archived = before \union banner.ids

ListInv == RowsInv /\ ActivityIsProgress /\ RequestsInv /\ TimelineInv /\ JobsInv /\ BannerInv

LEMMA NoRequestIs ==
  /\ RequestRow(NoRequest) /\ NoRequest.kind = "none" /\ NoRequest.app = None
  /\ NoRequest.job = None /\ NoRequest.after = {}
BY DEF RequestRow, NoRequest, RequestRows

\* A new request.
StatusRequest(a, from, to, place, after) ==
  [NoRequest EXCEPT !.kind = "status", !.app = a, !.from = from, !.to = to, !.place = place,
                    !.after = after]

LEMMA TrackRequested ==
  ASSUME NEW k \in BoardJobs
  PROVE  LET q == [NoRequest EXCEPT !.kind = "track", !.job = k]
         IN RequestRow(q) /\ q.kind = "track" /\ q.app = None /\ q.job = k /\ q # NoRequest
<1> DEFINE q == [NoRequest EXCEPT !.kind = "track", !.job = k]
<1>1. q = [kind |-> "track", app |-> None, from |-> None, to |-> None, job |-> k,
           place |-> 0, after |-> {}]
  <2> DEFINE base == NoRequest
             nobody == {}
  <2>1. base = [kind |-> "none", app |-> None, from |-> None, to |-> None, job |-> None,
                place |-> 0, after |-> nobody]
    BY DEF NoRequest
  <2>2. q = [base EXCEPT !.kind = "track", !.job = k]
    OBVIOUS
  <2> HIDE DEF base, nobody, q
  <2>3. q = [kind |-> "track", app |-> None, from |-> None, to |-> None, job |-> k,
             place |-> 0, after |-> nobody]
    BY <2>1, <2>2
  <2> QED BY <2>3 DEF nobody
<1> HIDE DEF q
<1>2. q \in RequestRows /\ q.kind = "track" /\ q.app = None /\ q.job = k
  BY <1>1 DEF RequestRows
<1>3. q # NoRequest
  BY <1>2, NoRequestIs
<1> QED BY <1>2, <1>3 DEF RequestRow, q

LEMMA StatusRequested ==
  ASSUME NEW a \in Apps, NEW from \in Statuses, NEW to \in Statuses, NEW place, place \in Nat,
         NEW after \in SUBSET Requests, NEW q, q = StatusRequest(a, from, to, place, after)
  PROVE  /\ RequestRow(q) /\ q.kind = "status" /\ q.app = a /\ q.to = to /\ q.job = None
         /\ q.place = place /\ q.after = after /\ q # NoRequest
<1>1. q = [kind |-> "status", app |-> a, from |-> from, to |-> to, job |-> None,
           place |-> place, after |-> after]
  <2> DEFINE base == NoRequest
             nobody == {}
  <2>1. base = [kind |-> "none", app |-> None, from |-> None, to |-> None, job |-> None,
                place |-> 0, after |-> nobody]
    BY DEF NoRequest
  <2>2. q = [base EXCEPT !.kind = "status", !.app = a, !.from = from, !.to = to,
                         !.place = place, !.after = after]
    BY DEF StatusRequest
  <2> HIDE DEF base, nobody
  <2> QED BY <2>1, <2>2
<1>2. /\ q \in RequestRows /\ q.kind = "status" /\ q.app = a /\ q.to = to /\ q.job = None
      /\ q.place = place /\ q.after = after
  BY <1>1 DEF RequestRows
<1>3. q # NoRequest
  BY <1>2, NoRequestIs
<1> QED BY <1>2, <1>3 DEF RequestRow

\* A step that only touches rows.
LEMMA TouchedKeeps ==
  ASSUME ListInv, Touched, UNCHANGED <<timeline, request, banner, before, had, doubled, overtaken>>
  PROVE  ListInv'
<1>1. /\ \A a \in Apps : /\ app'[a].there = app[a].there /\ app'[a].job = app[a].job
                         /\ app'[a].status = app[a].status /\ app'[a].archived = app[a].archived
      /\ RowsInv'
  BY DEF Touched, Kept
<1>2. There' = There /\ Live' = Live /\ Archived' = Archived
  BY <1>1 DEF There, Live, Archived
<1>3. \A k : FindLiveByBoardJob(k)' = FindLiveByBoardJob(k)
  BY <1>1, <1>2 DEF FindLiveByBoardJob, Live, There
<1>4. ActivityIsProgress'
  BY <1>2 DEF ListInv, ActivityIsProgress, There, Touched
<1>5. RequestsInv' /\ JobsInv' /\ BannerInv'
  BY <1>2, <1>3 DEF ListInv, RequestsInv, JobsInv, JobOf, BannerInv
<1>6. \A a \in Apps : Changing(a)' = Changing(a) /\ EntriesOf(a)' = EntriesOf(a)
  BY DEF Changing, EntriesOf
<1>7. TimelineInv'
  BY <1>1, <1>6 DEF ListInv, TimelineInv, ChangesOf, LineOf
<1> QED BY <1>1, <1>4, <1>5, <1>7 DEF ListInv

\* What reads and scores do to the rows, one by one and in bulk.
LEMMA EnqueuesKeep ==
  ASSUME NEW r \in ListRows, ReadHasAd(r)
  PROVE  /\ Kept(r, EnqueueRead(r)) /\ EnqueueRead(r).updated = r.updated
         /\ EnqueueRead(r).reading = IF r.hasAd THEN "pending" ELSE r.reading
         /\ Kept(r, EnqueueScore(r)) /\ EnqueueScore(r).updated = r.updated
         /\ EnqueueScore(r).reading = r.reading
         /\ EnqueueScore(r).score.state =
              IF r.score.state \in {"scoring", "retrying"} THEN r.score.state ELSE "scoring"
<1>1. "pending" \in Reads
  BY DEF Reads
<1>2. Kept(r, r)
  BY DEF Kept
<1>3. /\ Kept(r, EnqueueRead(r)) /\ EnqueueRead(r).updated = r.updated
      /\ EnqueueRead(r).reading = IF r.hasAd THEN "pending" ELSE r.reading
  <2> DEFINE n == [r EXCEPT !.reading = "pending"]
  <2>1. n = [r EXCEPT !.reading = "pending"]
    OBVIOUS
  <2>2. EnqueueRead(r) = IF r.hasAd THEN n ELSE r
    BY DEF EnqueueRead
  <2> HIDE DEF n
  <2>3. Kept(r, n) /\ n.updated = r.updated /\ n.reading = "pending"
    BY <1>1, <2>1, ReadingRow DEF Kept, ReadHasAd
  <2> QED BY <1>2, <2>2, <2>3
<1>4. /\ Kept(r, EnqueueScore(r)) /\ EnqueueScore(r).updated = r.updated
      /\ EnqueueScore(r).reading = r.reading
      /\ EnqueueScore(r).score.state =
           IF r.score.state \in {"scoring", "retrying"} THEN r.score.state ELSE "scoring"
  <2> DEFINE n == [r EXCEPT !.score.state = "scoring"]
  <2>1. n = [r EXCEPT !.score.state = "scoring"]
    OBVIOUS
  <2>2. EnqueueScore(r) = IF r.score.state \in {"scoring", "retrying"} THEN r ELSE n
    BY DEF EnqueueScore
  <2> HIDE DEF n
  <2>3. Kept(r, n) /\ n.updated = r.updated /\ n.reading = r.reading /\ n.score.state = "scoring"
    BY <2>1, StateRow DEF Kept, ReadHasAd
  <2> QED BY <1>2, <2>2, <2>3
<1> QED BY <1>3, <1>4

LEMMA RetryPressKeeps ==
  ASSUME NEW r \in ListRows, ReadHasAd(r)
  PROVE  /\ Kept(r, RetryPress(r)) /\ RetryPress(r).updated = r.updated
         /\ r.reading = "failed" => RetryPress(r).reading = "pending"
         /\ r.reading # "failed" => /\ RetryPress(r).reading = r.reading
                                    /\ RetryPress(r).score.state \in {"scoring", "retrying"}
                                    /\ r.score.state = "failed" => RetryPress(r).score.state = "scoring"
BY EnqueuesKeep DEF RetryPress, ReadHasAd

LEMMA ScoresPressTouches ==
  ASSUME RowsInv, NEW T, T \subseteq Apps, Press(T, EnqueueScore)
  PROVE  Touched
<1> DEFINE f == [a \in Apps |-> EnqueueScore(app[a])]
<1>1. \A a \in T : Kept(app[a], EnqueueScore(app[a])) /\ EnqueueScore(app[a]).updated = app[a].updated
  BY EnqueuesKeep DEF RowsInv
<1>2. \A a \in T : app'[a] = PressedRow(app[a], EnqueueScore(app[a]), now)
  BY DEF Press, PressedRow
<1>3. /\ \A a \in Apps \ T : app'[a] = app[a]
      /\ app' = [a \in Apps |-> app'[a]]
      /\ acted' = [a \in Apps |-> IF app'[a].updated # app[a].updated THEN now ELSE acted[a]]
      /\ now' = now
  BY DEF Press
<1>4. \A a \in T : f[a] = EnqueueScore(app[a])
  OBVIOUS
<1> HIDE DEF f
<1>5. \A a \in T : app'[a] = PressedRow(app[a], f[a], now)
  BY <1>2, <1>4
<1>6. \A a \in T : Kept(app[a], f[a]) /\ f[a].updated = app[a].updated
  BY <1>1, <1>4
<1>7. /\ Touched
      /\ \A a \in T : app'[a].reading = f[a].reading /\ app'[a].score = f[a].score
  BY <1>3, <1>5, <1>6, PressTouches
<1> QED BY <1>7

LEMMA RetryPressTouches ==
  ASSUME RowsInv, NEW T, T \subseteq Apps, Press(T, RetryPress)
  PROVE  /\ Touched
         /\ \A a \in T : app'[a].reading = RetryPress(app[a]).reading
                         /\ app'[a].score = RetryPress(app[a]).score
         /\ \A a \in Apps \ T : app'[a] = app[a]
<1> DEFINE f == [a \in Apps |-> RetryPress(app[a])]
<1>1. \A a \in T : Kept(app[a], RetryPress(app[a])) /\ RetryPress(app[a]).updated = app[a].updated
  BY RetryPressKeeps DEF RowsInv
<1>2. \A a \in T : app'[a] = PressedRow(app[a], RetryPress(app[a]), now)
  BY DEF Press, PressedRow
<1>3. /\ \A a \in Apps \ T : app'[a] = app[a]
      /\ app' = [a \in Apps |-> app'[a]]
      /\ acted' = [a \in Apps |-> IF app'[a].updated # app[a].updated THEN now ELSE acted[a]]
      /\ now' = now
  BY DEF Press
<1>4. \A a \in T : f[a] = RetryPress(app[a])
  OBVIOUS
<1> HIDE DEF f
<1>5. \A a \in T : app'[a] = PressedRow(app[a], f[a], now)
  BY <1>2, <1>4
<1>6. \A a \in T : Kept(app[a], f[a]) /\ f[a].updated = app[a].updated
  BY <1>1, <1>4
<1>7. /\ Touched
      /\ \A a \in T : app'[a].reading = f[a].reading /\ app'[a].score = f[a].score
  BY <1>3, <1>5, <1>6, PressTouches
<1> QED BY <1>3, <1>4, <1>7

\* One row moved, as each of these does.
LEMMA ReadsTouch ==
  ASSUME RowsInv, NEW a \in Apps,
         \/ UpdateNotes(a) \/ ExtractAgain(a) \/ AttachAd(a) \/ DescriptionFails(a)
         \/ (\E hasKey \in BOOLEAN : DescriptionArrives(a, hasKey))
         \/ (\E ok \in BOOLEAN : ReadEnds(a, ok))
  PROVE  Touched
<1> DEFINE r == app[a]
<1>1. r \in ListRows /\ ReadHasAd(r) /\ Kept(r, r)
  BY DEF RowsInv, Kept
<1>2. {"pending", "failed", "unavailable", "done"} \subseteq Reads
  BY DEF Reads
<1>3. ASSUME NEW n, Kept(r, n), Moved(a, n), now' = now PROVE Touched
  BY <1>3, MovedTouches
<1>4. CASE UpdateNotes(a)
  BY <1>1, <1>3, <1>4 DEF UpdateNotes
<1>5. CASE ExtractAgain(a)
  BY <1>1, <1>3, <1>5, EnqueuesKeep DEF ExtractAgain
<1>6. CASE AttachAd(a)
  <2> DEFINE n == [r EXCEPT !.hasAd = TRUE, !.reading = "pending"]
  <2>1. Kept(r, n)
    BY <1>1, <1>2, AdRow
  <2>2. Moved(a, n) /\ now' = now
    BY <1>6 DEF AttachAd
  <2> HIDE DEF n
  <2> QED BY <1>3, <2>1, <2>2
<1>7. CASE DescriptionFails(a)
  <2> DEFINE n == [r EXCEPT !.reading = "unavailable"]
  <2>0. n = [r EXCEPT !.reading = "unavailable"]
    OBVIOUS
  <2>2. Moved(a, n) /\ now' = now
    BY <1>7 DEF DescriptionFails
  <2> HIDE DEF n
  <2>1. Kept(r, n)
    BY <1>1, <1>2, <2>0, ReadingRow DEF Kept, ReadHasAd
  <2> QED BY <1>3, <2>1, <2>2
<1>8. ASSUME NEW hasKey \in BOOLEAN, DescriptionArrives(a, hasKey) PROVE Touched
  <2> DEFINE reading == IF hasKey THEN "pending" ELSE "failed"
             n == [r EXCEPT !.hasAd = TRUE, !.reading = reading]
  <2>1. reading \in Reads
    BY <1>2
  <2>2. Moved(a, n) /\ now' = now
    BY <1>8 DEF DescriptionArrives
  <2>0. n = [r EXCEPT !.hasAd = TRUE, !.reading = reading]
    OBVIOUS
  <2> HIDE DEF reading, n
  <2>3. Kept(r, n)
    BY <1>1, <2>0, <2>1, AdRow
  <2> QED BY <1>3, <2>2, <2>3
<1>9. ASSUME NEW ok \in BOOLEAN, ReadEnds(a, ok) PROVE Touched
  <2> DEFINE failed == [r EXCEPT !.reading = "failed"]
             read == [r EXCEPT !.reading = "done", !.required = TRUE]
             chained == [read EXCEPT !.score.state = "scoring"]
  <2>1. r.hasAd /\ now' = now /\ (Moved(a, failed) \/ Moved(a, read) \/ Moved(a, chained))
    BY <1>9 DEF ReadEnds
  <2>0. /\ failed = [r EXCEPT !.reading = "failed"]
        /\ read = [r EXCEPT !.reading = "done", !.required = TRUE]
    OBVIOUS
  <2>a. chained = [read EXCEPT !.score.state = "scoring"]
    OBVIOUS
  <2> HIDE DEF failed, read, chained
  <2>2. Kept(r, failed)
    BY <1>1, <1>2, <2>0, <2>1, ReadingRow DEF Kept, ReadHasAd
  <2>3. Kept(r, read) /\ read \in ListRows
    BY <1>1, <2>0, ReadRow
  <2>4. Kept(read, chained)
    BY <2>3, <2>a, StateRow DEF Kept, ReadHasAd
  <2>5. Kept(r, chained)
    BY <2>3, <2>4 DEF Kept
  <2> QED BY <1>3, <2>1, <2>2, <2>3, <2>5
<1> QED BY <1>4, <1>5, <1>6, <1>7, <1>8, <1>9

LEMMA ScoreEndsTouches ==
  ASSUME RowsInv, NEW a \in Apps, NEW state \in {"done", "retrying", "failed"},
         NEW want \in Numbers \union {None}, NEW could \in Numbers \union {None},
         ScoreEnds(a, state, want, could)
  PROVE  Touched
<1> DEFINE r == app[a]
           score == IF state = "done" THEN [state |-> "done", want |-> want, could |-> could]
                    ELSE [r.score EXCEPT !.state = state]
           n == [r EXCEPT !.score = score]
<1>1. r \in ListRows /\ ReadHasAd(r) /\ r.score \in RowScores
  BY DEF RowsInv, ListRows
<1>2. score \in RowScores
  BY <1>1 DEF RowScores
<1>3. app' = [app EXCEPT ![a] = n] /\ acted' = acted /\ now' = now
  <2>1. app' = [app EXCEPT ![a].score = score]
    BY DEF ScoreEnds, RowsInv
  <2> HIDE DEF score
  <2> QED BY <2>1 DEF ScoreEnds, history, RowsInv
<1>0. n = [r EXCEPT !.score = score]
  OBVIOUS
<1> HIDE DEF score, n
<1>4. Kept(r, n) /\ n.updated = r.updated
  BY <1>0, <1>1, <1>2, ScoreRow DEF Kept, ReadHasAd
<1>5. /\ \A b \in Apps : app'[b] = IF b = a THEN n ELSE app[b]
      /\ app' \in [Apps -> ListRows]
  BY <1>3, <1>4 DEF RowsInv, Kept
<1>6. \A b \in Apps : Kept(app[b], app'[b])
  BY <1>4, <1>5 DEF RowsInv, Kept
<1>7. RowsInv'
  BY <1>3, <1>5, <1>6 DEF RowsInv, Kept
<1> QED BY <1>3, <1>4, <1>5, <1>6, <1>7 DEF Touched

----------------------------------------------------------------------------
(* Archiving and bringing back.                                            *)

\* A step that leaves the rows where they are in the timelines.
LEMMA TimelinesStand ==
  ASSUME ListInv, UNCHANGED <<timeline, request, had, overtaken>>,
         \A a \in Apps : app'[a].there = app[a].there /\ app'[a].status = app[a].status
  PROVE  TimelineInv' /\ RequestsInv' /\ There' = There
<1>1. \A a \in Apps : Changing(a)' = Changing(a) /\ EntriesOf(a)' = EntriesOf(a)
  BY DEF Changing, EntriesOf
<1>2. \A a \in Apps : ChangesOf(a)' /\ LineOf(a)'
  <2> SUFFICES ASSUME NEW a \in Apps PROVE ChangesOf(a)' /\ LineOf(a)'
    OBVIOUS
  <2>1. ChangesOf(a) /\ LineOf(a)
    BY DEF ListInv, TimelineInv
  <2>2. /\ app'[a].there = app[a].there /\ app'[a].status = app[a].status
        /\ timeline' = timeline /\ request' = request /\ had' = had /\ overtaken' = overtaken
        /\ Changing(a)' = Changing(a) /\ EntriesOf(a)' = EntriesOf(a)
    BY <1>1
  <2>3. ChangesOf(a)'
    BY <2>1, <2>2 DEF ChangesOf
  <2>4. LineOf(a)'
    BY <2>1, <2>2 DEF LineOf
  <2> QED BY <2>3, <2>4
<1>3. TimelineInv'
  BY <1>2 DEF ListInv, TimelineInv
<1> QED BY <1>3 DEF ListInv, RequestsInv, There

LEMMA SetArchivedIs ==
  ASSUME RowsInv, NEW T, NEW yes \in BOOLEAN, SetArchived(T, yes), UNCHANGED <<acted, now>>
  PROVE  /\ RowsInv'
         /\ \A a \in Apps : /\ app'[a].there = app[a].there /\ app'[a].job = app[a].job
                            /\ app'[a].status = app[a].status /\ app'[a].updated = app[a].updated
                            /\ app'[a].archived = IF a \in T THEN yes ELSE app[a].archived
<1>1. \A a \in Apps : app'[a] = IF a \in T THEN [app[a] EXCEPT !.archived = yes] ELSE app[a]
  BY DEF SetArchived
<1>2. app' = [a \in Apps |-> app'[a]]
  BY DEF SetArchived
<1>3. \A a \in Apps : /\ app'[a] \in ListRows /\ ReadHasAd(app'[a])
                      /\ app'[a].there = app[a].there /\ app'[a].job = app[a].job
                      /\ app'[a].status = app[a].status /\ app'[a].updated = app[a].updated
                      /\ app'[a].archived = IF a \in T THEN yes ELSE app[a].archived
  <2> SUFFICES ASSUME NEW a \in Apps
               PROVE  /\ app'[a] \in ListRows /\ ReadHasAd(app'[a])
                      /\ app'[a].there = app[a].there /\ app'[a].job = app[a].job
                      /\ app'[a].status = app[a].status /\ app'[a].updated = app[a].updated
                      /\ app'[a].archived = IF a \in T THEN yes ELSE app[a].archived
    OBVIOUS
  <2>1. app[a] \in ListRows /\ ReadHasAd(app[a])
    BY DEF RowsInv
  <2>2. CASE a \in T
    <3>1. app'[a] = [app[a] EXCEPT !.archived = yes]
      BY <1>1, <2>2
    <3> QED BY <2>1, <2>2, <3>1, ArchivedRow DEF ReadHasAd
  <2> QED BY <1>1, <2>1, <2>2
<1> QED BY <1>2, <1>3 DEF RowsInv

LEMMA ArchiveKeeps ==
  ASSUME ListInv, NEW T, T \subseteq There, NEW yes \in BOOLEAN, SetArchived(T, yes),
         UNCHANGED <<timeline, request, now, acted, had, overtaken>>,
         doubled' = IF yes THEN doubled ELSE doubled \union {app[a].job : a \in T},
         BannerInv'
  PROVE  ListInv'
<1>1. /\ RowsInv'
      /\ \A a \in Apps : /\ app'[a].there = app[a].there /\ app'[a].job = app[a].job
                         /\ app'[a].status = app[a].status /\ app'[a].updated = app[a].updated
                         /\ app'[a].archived = IF a \in T THEN yes ELSE app[a].archived
  BY SetArchivedIs DEF ListInv
<1>2. TimelineInv' /\ RequestsInv' /\ There' = There
  BY <1>1, TimelinesStand
<1>3. ActivityIsProgress'
  BY <1>1, <1>2 DEF ListInv, ActivityIsProgress, There
<1>4. \A k \in BoardJobs \ doubled' : FindLiveByBoardJob(k)' \subseteq FindLiveByBoardJob(k)
  <2> SUFFICES ASSUME NEW k \in BoardJobs \ doubled', NEW a \in Apps,
                      app'[a].there, ~ app'[a].archived, app'[a].job = k
               PROVE  ~ app[a].archived
    BY <1>1 DEF FindLiveByBoardJob, Live, There
  <2>1. CASE yes
    BY <1>1, <2>1
  <2>2. CASE ~ yes
    <3>1. a \notin T
      BY <1>1, <2>2
    <3> QED BY <1>1, <3>1
  <2> QED BY <2>1, <2>2
<1>5. JobsInv'
  <2> SUFFICES ASSUME NEW k \in BoardJobs \ doubled' PROVE JobOf(k)'
    BY DEF JobsInv
  <2>1. k \in BoardJobs \ doubled /\ JobOf(k)
    BY DEF ListInv, JobsInv
  <2> QED BY <1>4, <2>1 DEF JobOf
<1> QED BY <1>1, <1>2, <1>3, <1>5 DEF ListInv

LEMMA ListKeeps ==
  ASSUME ListInv, NEW a \in Apps, ArchiveOne(a) \/ Unarchive(a)
  PROVE  ListInv'
<1>1. banner' = NoBanner
  BY DEF ArchiveOne, Unarchive, Stale
<1>2. BannerInv'
  BY <1>1 DEF BannerInv, NoBanner
<1>3. {a} \subseteq There
  BY DEF ArchiveOne, Unarchive
<1>4. CASE ArchiveOne(a)
  BY <1>2, <1>3, <1>4, ArchiveKeeps DEF ArchiveOne
<1>5. CASE Unarchive(a)
  BY <1>2, <1>3, <1>5, ArchiveKeeps DEF Unarchive, Restored
<1> QED BY <1>4, <1>5

LEMMA BulkUnarchiveKeeps ==
  ASSUME ListInv, NEW T, BulkUnarchive(T)
  PROVE  ListInv'
<1>1. banner' = NoBanner
  BY DEF BulkUnarchive, Stale
<1>2. BannerInv'
  BY <1>1 DEF BannerInv, NoBanner
<1> QED BY <1>2, ArchiveKeeps DEF BulkUnarchive, Restored

LEMMA ArchiveManyKeeps ==
  ASSUME ListInv, NEW T, T \subseteq There, NEW picked \in BOOLEAN, ArchiveMany(T, picked),
         ~ picked => T \subseteq Live
  PROVE  ListInv'
<1>1. /\ SetArchived(T, TRUE) /\ banner' = [ids |-> T, picked |-> picked] /\ before' = Archived
      /\ UNCHANGED <<timeline, request, now, acted, had, doubled, overtaken>>
  BY DEF ArchiveMany
<1>2. \A a \in Apps : /\ app'[a].there = app[a].there
                      /\ app'[a].archived = IF a \in T THEN TRUE ELSE app[a].archived
  BY <1>1, SetArchivedIs DEF ListInv
<1>3. Archived' = Archived \union T
  BY <1>2 DEF Archived, Live, There
<1>4. ~ picked => T \cap Archived = {}
  BY DEF Archived
<1>5. T \subseteq Apps
  BY DEF There
<1>6. banner'.ids = T /\ banner'.picked = picked
  BY <1>1
<1>7. BannerInv'
  BY <1>1, <1>3, <1>4, <1>5, <1>6 DEF BannerInv
<1> QED BY <1>1, <1>7, ArchiveKeeps

----------------------------------------------------------------------------
(* Adding an application, by hand or from a job.                           *)

LEMMA CreatedIs ==
  ASSUME RowsInv, NEW a \in Apps, NEW row \in ListRows, ReadHasAd(row), CreateApplication(a, row),
         now' = now
  PROVE  /\ RowsInv'
         /\ app'[a].there /\ app'[a].job = row.job /\ app'[a].status = row.status
         /\ app'[a].archived = row.archived /\ app'[a].updated = acted'[a]
         /\ \A b \in Apps : b # a => app'[b] = app[b] /\ acted'[b] = acted[b]
<1> DEFINE m == [row EXCEPT !.there = TRUE]
           n == [m EXCEPT !.updated = now]
<1>1. /\ m \in ListRows /\ m.there /\ m.job = row.job /\ m.status = row.status
      /\ m.archived = row.archived /\ m.hasAd = row.hasAd /\ m.reading = row.reading
  BY DEF ListRows
<1>2. app' = [app EXCEPT ![a] = n] /\ acted' = [acted EXCEPT ![a] = now]
  BY DEF CreateApplication, Moved
<1>0. n = Dated(m, now)
  BY DEF Dated
<1> HIDE DEF m, n
<1>3. /\ n \in ListRows /\ n.updated = now /\ n.there = m.there /\ n.job = m.job
      /\ n.status = m.status /\ n.archived = m.archived /\ n.hasAd = m.hasAd /\ n.reading = m.reading
  <2>1. m \in ListRows /\ now \in Nat
    BY <1>1 DEF RowsInv
  <2> QED BY <1>0, <2>1 DEF ListRows, Dated
<1>4. /\ app'[a] = n /\ acted'[a] = now
      /\ \A b \in Apps : b # a => app'[b] = app[b] /\ acted'[b] = acted[b]
      /\ app' \in [Apps -> ListRows] /\ acted' \in [Apps -> Nat]
  BY <1>2, <1>3 DEF RowsInv
<1>5. RowsInv'
  BY <1>1, <1>3, <1>4 DEF RowsInv, ReadHasAd
<1> QED BY <1>1, <1>3, <1>4, <1>5

LEMMA CreateKeeps ==
  ASSUME ListInv, NEW a \in Apps, NEW row \in ListRows, ReadHasAd(row), CreateApplication(a, row),
         ~ row.archived, RequestsInv', JobsInv', \A b \in Apps : Changing(b)' = Changing(b),
         \A p \in Requests : request[p].app \in Apps => request'[p] = request[p],
         UNCHANGED <<banner, now, before, overtaken>>
  PROVE  ListInv'
<1>1. /\ RowsInv'
      /\ app'[a].there /\ app'[a].job = row.job /\ app'[a].status = row.status
      /\ app'[a].archived = row.archived /\ app'[a].updated = acted'[a]
      /\ \A b \in Apps : b # a => app'[b] = app[b] /\ acted'[b] = acted[b]
  BY CreatedIs DEF ListInv
<1>2. ~ app[a].there
  BY DEF CreateApplication, There
<1>3. There' = There \union {a}
  BY <1>1 DEF There
<1>4. ActivityIsProgress'
  BY <1>1, <1>3 DEF ListInv, ActivityIsProgress, There
<1>5. Archived' = Archived
  BY <1>1, <1>2 DEF Archived, Live, There
<1>6. BannerInv'
  BY <1>5 DEF ListInv, BannerInv
<1>7. row.status \in Statuses
  BY DEF ListRows
<1>8. /\ timeline' = [timeline EXCEPT ![a] = <<[from |-> None, to |-> row.status]>>]
      /\ had' = [had EXCEPT ![a] = <<row.status>>]
  BY DEF CreateApplication
<1>9. timeline' \in [Apps -> Seq(Events)] /\ had' \in [Apps -> Seq(Statuses)]
  <2>1. [from |-> None, to |-> row.status] \in Events
    BY <1>7 DEF Events
  <2>2. <<[from |-> None, to |-> row.status]>> \in Seq(Events) /\ <<row.status>> \in Seq(Statuses)
    BY <1>7, <2>1
  <2> QED BY <1>8, <2>2 DEF ListInv, TimelineInv
<1>10. ASSUME NEW b \in Apps PROVE ChangesOf(b)' /\ LineOf(b)'
  <2>1. ChangesOf(b) /\ LineOf(b)
    BY DEF ListInv, TimelineInv
  <2>2. CASE b = a
    <3>1. Changing(b) = {}
      BY <1>2, <2>1, <2>2 DEF ChangesOf
    <3>2. ChangesOf(b)'
      BY <3>1 DEF ChangesOf
    <3>3. timeline'[b] = <<[from |-> None, to |-> row.status]>> /\ had'[b] = <<row.status>>
      BY <1>8, <2>2 DEF ListInv, TimelineInv
    <3>4. Len(timeline'[b]) = 1 /\ Len(had'[b]) = 1 /\ had'[b] # <<>> /\ Last(had'[b]) = row.status
      BY <3>3 DEF Last
    <3>5. EntriesOf(b)' = had'[b]
      <4>1. DOMAIN timeline'[b] = 1..1 /\ timeline'[b][1].to = row.status
        BY <3>3
      <4>2. EntriesOf(b)' = [i \in 1..1 |-> row.status]
        BY <4>1 DEF EntriesOf
      <4>3. <<row.status>> = [i \in 1..1 |-> row.status]
        OBVIOUS
      <4> QED BY <3>3, <4>2, <4>3
    <3>6. LineOf(b)'
      BY <1>1, <2>2, <3>4, <3>5 DEF LineOf
    <3> QED BY <3>2, <3>6
  <2>3. CASE b # a
    <3>1. timeline'[b] = timeline[b] /\ had'[b] = had[b] /\ app'[b] = app[b]
      BY <1>1, <1>8, <2>3 DEF ListInv, TimelineInv
    <3>2. EntriesOf(b)' = EntriesOf(b)
      BY <3>1 DEF EntriesOf
    <3>3. \A p \in Changing(b) : request'[p] = request[p]
      BY DEF Changing
    <3>4. ChangesOf(b)'
      BY <2>1, <3>1, <3>3 DEF ChangesOf
    <3>5. LineOf(b)'
      BY <2>1, <3>1, <3>2 DEF LineOf
    <3> QED BY <3>4, <3>5
  <2> QED BY <2>2, <2>3
<1>11. TimelineInv'
  BY <1>9, <1>10 DEF TimelineInv
<1> QED BY <1>1, <1>4, <1>6, <1>11 DEF ListInv

\* The live rows of a job, one more.
LEMMA CreatedLive ==
  ASSUME RowsInv, NEW a \in Apps, NEW row \in ListRows, ReadHasAd(row), CreateApplication(a, row),
         ~ row.archived, now' = now, NEW k
  PROVE  FindLiveByBoardJob(k)' = IF row.job = k THEN FindLiveByBoardJob(k) \union {a}
                                  ELSE FindLiveByBoardJob(k)
<1>1. /\ app'[a].there /\ app'[a].job = row.job /\ ~ app'[a].archived
      /\ \A b \in Apps : b # a => app'[b] = app[b]
  BY CreatedIs
<1>2. ~ app[a].there
  BY DEF CreateApplication, There
<1> QED BY <1>1, <1>2 DEF FindLiveByBoardJob, Live, There

\* The rows that are made.
LEMMA MadeRows ==
  /\ \A reading \in Reads : LET n == [Absent EXCEPT !.hasAd = TRUE, !.reading = reading]
                            IN n \in ListRows /\ ReadHasAd(n) /\ n.job = None /\ ~ n.archived
                               /\ n.status = "interested"
  /\ \A k \in BoardJobs : LET n == [Absent EXCEPT !.job = k, !.reading = "pending"]
                          IN n \in ListRows /\ ReadHasAd(n) /\ n.job = k /\ ~ n.archived
                             /\ n.status = "interested"
<1>1. /\ Absent \in ListRows /\ Absent.job = None /\ ~ Absent.archived
      /\ Absent.status = "interested"
  BY AbsentIsARow
<1>2. ASSUME NEW r \in ListRows, NEW reading \in Reads, NEW n,
             n = [r EXCEPT !.hasAd = TRUE, !.reading = reading]
      PROVE  n \in ListRows /\ ReadHasAd(n) /\ n.job = r.job /\ n.archived = r.archived
             /\ n.status = r.status
  BY <1>2 DEF ListRows, ReadHasAd
<1>3. ASSUME NEW r \in ListRows, NEW k \in BoardJobs, NEW n,
             n = [r EXCEPT !.job = k, !.reading = "pending"]
      PROVE  n \in ListRows /\ ReadHasAd(n) /\ n.job = k /\ n.archived = r.archived
             /\ n.status = r.status
  BY <1>3 DEF ListRows, ReadHasAd, Reads
<1>4. ASSUME NEW reading \in Reads
      PROVE  LET n == [Absent EXCEPT !.hasAd = TRUE, !.reading = reading]
             IN n \in ListRows /\ ReadHasAd(n) /\ n.job = None /\ ~ n.archived
                /\ n.status = "interested"
  <2> DEFINE n == [Absent EXCEPT !.hasAd = TRUE, !.reading = reading]
  <2>1. n = [Absent EXCEPT !.hasAd = TRUE, !.reading = reading]
    OBVIOUS
  <2> HIDE DEF n
  <2>4. Absent \in ListRows
    BY <1>1
  <2>2. n \in ListRows /\ ReadHasAd(n) /\ n.job = Absent.job /\ n.archived = Absent.archived
        /\ n.status = Absent.status
    BY <2>1, <2>4 DEF ListRows, ReadHasAd
  <2>3. n \in ListRows /\ ReadHasAd(n) /\ n.job = None /\ ~ n.archived /\ n.status = "interested"
    BY <1>1, <2>2
  <2> QED BY <2>3 DEF n
<1>5. ASSUME NEW k \in BoardJobs
      PROVE  LET n == [Absent EXCEPT !.job = k, !.reading = "pending"]
             IN n \in ListRows /\ ReadHasAd(n) /\ n.job = k /\ ~ n.archived
                /\ n.status = "interested"
  <2> DEFINE n == [Absent EXCEPT !.job = k, !.reading = "pending"]
  <2>1. n = [Absent EXCEPT !.job = k, !.reading = "pending"]
    OBVIOUS
  <2> HIDE DEF n
  <2>4. Absent \in ListRows
    BY <1>1
  <2>2. n \in ListRows /\ ReadHasAd(n) /\ n.job = k /\ n.archived = Absent.archived
        /\ n.status = Absent.status
    BY <2>1, <2>4 DEF ListRows, ReadHasAd, Reads
  <2>3. n \in ListRows /\ ReadHasAd(n) /\ n.job = k /\ ~ n.archived /\ n.status = "interested"
    BY <1>1, <2>2
  <2> QED BY <2>3 DEF n
<1> QED BY <1>4, <1>5

LEMMA PasteAdKeeps ==
  ASSUME ListInv, NEW a \in Apps, NEW hasKey \in BOOLEAN, PasteAd(a, hasKey)
  PROVE  ListInv'
<1> DEFINE reading == IF hasKey THEN "pending" ELSE "failed"
           row == [Absent EXCEPT !.hasAd = TRUE, !.reading = reading]
<1>1. reading \in Reads
  BY DEF Reads
<1>2. CreateApplication(a, row) /\ UNCHANGED <<request, banner, now, before, doubled, overtaken>>
  BY DEF PasteAd
<1>3. row \in ListRows /\ ReadHasAd(row) /\ row.job = None /\ ~ row.archived
  <2> HIDE DEF reading
  <2> QED BY <1>1, MadeRows
<1> HIDE DEF reading, row
<1>4. \A k \in BoardJobs : FindLiveByBoardJob(k)' = FindLiveByBoardJob(k)
  <2> SUFFICES ASSUME NEW k \in BoardJobs
               PROVE  FindLiveByBoardJob(k)' = FindLiveByBoardJob(k)
    OBVIOUS
  <2>1. row.job # k
    BY <1>3, NoneAssumption
  <2> QED BY <1>2, <1>3, <2>1, CreatedLive DEF ListInv
<1>5. JobsInv'
  BY <1>2, <1>4 DEF ListInv, JobsInv, JobOf
<1>6. RequestsInv' /\ \A b \in Apps : Changing(b)' = Changing(b)
  BY <1>2 DEF ListInv, RequestsInv, Changing
<1> QED BY <1>2, <1>3, <1>5, <1>6, CreateKeeps

\* A request that is over, and one that begins.
LEMMA NoRequestJob == \A p \in Requests : request[p] = NoRequest => request[p].app = None /\ request[p].job = None
BY NoRequestIs

LEMMA FinishTrackKeeps ==
  ASSUME ListInv, NEW p \in Requests, NEW a \in Apps, FinishTrack(p, a)
  PROVE  ListInv'
<1> DEFINE k == request[p].job
           row == [Absent EXCEPT !.job = k, !.reading = "pending"]
<1>1. RequestRow(request[p]) /\ request[p].kind = "track"
  BY DEF ListInv, RequestsInv, FinishTrack
<1>2. k \in BoardJobs /\ request[p].app = None
  BY <1>1, NoRequestIs DEF RequestRow
<1>3. CreateApplication(a, row) /\ UNCHANGED <<banner, now, before, doubled, overtaken>>
  BY DEF FinishTrack
<1>4. row \in ListRows /\ ReadHasAd(row) /\ row.job = k /\ ~ row.archived
  <2> HIDE DEF k
  <2> QED BY <1>2, MadeRows
<1>5. \A q \in Requests : request'[q] = IF q = p THEN NoRequest ELSE request[q]
  BY DEF FinishTrack, ListInv, RequestsInv
<1>6. RequestsInv'
  <2>1. \A q \in Requests : RequestRow(request'[q])
    BY <1>5, NoRequestIs DEF ListInv, RequestsInv
  <2>2. request' = [q \in Requests |-> request'[q]]
    BY DEF FinishTrack, ListInv, RequestsInv
  <2> QED BY <2>1, <2>2 DEF RequestsInv, RequestRow
<1>7. \A b \in Apps : Changing(b)' = Changing(b)
  BY <1>2, <1>5, NoRequestIs, NoneAssumption DEF Changing
<1> HIDE DEF row
<1>8. ASSUME NEW i \in BoardJobs
      PROVE  FindLiveByBoardJob(i)' = IF i = k THEN FindLiveByBoardJob(i) \union {a}
                                      ELSE FindLiveByBoardJob(i)
  BY <1>3, <1>4, CreatedLive DEF ListInv
<1>9. JobsInv'
  <2> SUFFICES ASSUME NEW i \in BoardJobs \ doubled PROVE JobOf(i)'
    BY <1>3 DEF JobsInv
  <2>1. JobOf(i)
    BY DEF ListInv, JobsInv
  <2>2. \A q \in Requests : request'[q].job = i => q # p /\ request'[q] = request[q]
    BY <1>5, NoRequestIs, NoneAssumption
  <2>3. CASE i = k
    <3>1. FindLiveByBoardJob(i) = {} /\ \A q \in Requests : request[q].job = i => q = p
      BY <2>1, <2>3 DEF JobOf
    <3>2. FindLiveByBoardJob(i)' = {a}
      BY <1>8, <2>3, <3>1
    <3>3. \A q \in Requests : request'[q].job # i
      BY <2>2, <3>1
    <3> QED BY <3>2, <3>3 DEF JobOf
  <2>4. CASE i # k
    <3>1. FindLiveByBoardJob(i)' = FindLiveByBoardJob(i)
      BY <1>8, <2>4
    <3> QED BY <2>1, <2>2, <3>1 DEF JobOf
  <2> QED BY <2>3, <2>4
<1>10. \A q \in Requests : request[q].app \in Apps => request'[q] = request[q]
  BY <1>2, <1>5, NoneAssumption
<1> HIDE DEF k
<1> QED BY <1>3, <1>4, <1>6, <1>7, <1>9, <1>10, CreateKeeps

----------------------------------------------------------------------------
(* Requests begin.                                                         *)

\* A step of the requests alone.
LEMMA RowsStand ==
  ASSUME ListInv, UNCHANGED <<app, banner, before, acted, now>>
  PROVE  RowsInv' /\ ActivityIsProgress' /\ BannerInv' /\ There' = There
         /\ \A k : FindLiveByBoardJob(k)' = FindLiveByBoardJob(k)
<1>1. There' = There /\ Live' = Live /\ Archived' = Archived
  BY DEF There, Live, Archived
<1>2. \A k : FindLiveByBoardJob(k)' = FindLiveByBoardJob(k)
  BY <1>1 DEF FindLiveByBoardJob
<1> QED BY <1>1, <1>2 DEF ListInv, RowsInv, ActivityIsProgress, BannerInv

LEMMA TrackKeeps ==
  ASSUME ListInv, NEW p \in Requests, NEW k \in BoardJobs, Track(p, k)
  PROVE  ListInv'
<1> DEFINE n == [NoRequest EXCEPT !.kind = "track", !.job = k]
<1>1. RequestRow(n) /\ n.app = None /\ n.job = k
  BY TrackRequested
<1>2. \A q \in Requests : request'[q] = IF q = p THEN n ELSE request[q]
  BY DEF Track, ListInv, RequestsInv
<1>3. /\ request[p] = NoRequest /\ FindLiveByBoardJob(k) = {}
      /\ doubled' = IF \E q \in Requests : request[q].job = k THEN doubled \union {k} ELSE doubled
      /\ UNCHANGED <<app, timeline, banner, now, before, acted, had, overtaken>>
  BY DEF Track
<1>a. request' = [q \in Requests |-> request'[q]]
  BY DEF Track, ListInv, RequestsInv
<1> HIDE DEF n
<1>4. request[p].app = None /\ request[p].job = None
  BY <1>3, NoRequestIs
<1>5. RequestsInv'
  <2>1. \A q \in Requests : RequestRow(request'[q])
    BY <1>1, <1>2 DEF ListInv, RequestsInv
  <2> QED BY <1>a, <2>1 DEF RequestsInv, RequestRow
<1>6. /\ RowsInv' /\ ActivityIsProgress' /\ BannerInv'
      /\ \A i : FindLiveByBoardJob(i)' = FindLiveByBoardJob(i)
  BY <1>3, RowsStand
<1>7. JobsInv'
  <2> SUFFICES ASSUME NEW i \in BoardJobs \ doubled' PROVE JobOf(i)'
    BY DEF JobsInv
  <2>1. i \in BoardJobs \ doubled
    BY <1>3
  <2>2. JobOf(i)
    BY <2>1 DEF ListInv, JobsInv
  <2>3. CASE i = k
    <3>1. \A q \in Requests : request[q].job # k
      BY <1>3, <2>3
    <3>2. \A q \in Requests : request'[q].job = i => q = p
      BY <1>2, <2>3, <3>1
    <3>3. FindLiveByBoardJob(i)' = {}
      BY <1>3, <1>6, <2>3
    <3> QED BY <3>2, <3>3 DEF JobOf
  <2>4. CASE i # k
    <3>1. \A q \in Requests : request'[q].job = i => request[q].job = i
      BY <1>1, <1>2, <2>4
    <3> QED BY <1>6, <2>2, <3>1 DEF JobOf
  <2> QED BY <2>3, <2>4
<1>8. TimelineInv'
  <2>1. \A b \in Apps : Changing(b)' = Changing(b) /\ EntriesOf(b)' = EntriesOf(b)
    BY <1>1, <1>2, <1>3, <1>4, NoneAssumption DEF Changing, EntriesOf
  <2>2. \A b \in Apps : \A q \in Changing(b) : request'[q] = request[q]
    BY <1>2, <1>4, NoneAssumption DEF Changing
  <2>3. ASSUME NEW b \in Apps PROVE ChangesOf(b)' /\ LineOf(b)'
    <3>1. ChangesOf(b) /\ LineOf(b)
      BY DEF ListInv, TimelineInv
    <3>2. ChangesOf(b)'
      BY <1>3, <2>1, <2>2, <3>1 DEF ChangesOf
    <3>3. LineOf(b)'
      BY <1>3, <2>1, <3>1 DEF LineOf
    <3> QED BY <3>2, <3>3
  <2> QED BY <1>3, <2>3 DEF ListInv, TimelineInv
<1> QED BY <1>5, <1>6, <1>7, <1>8 DEF ListInv

LEMMA ChangeStatusKeeps ==
  ASSUME ListInv, NEW p \in Requests, NEW a \in Apps, NEW to \in Statuses, ChangeStatus(p, a, to)
  PROVE  ListInv'
<1> DEFINE from == app[a].status
           place == Len(timeline[a])
           after == Changing(a)
           n == StatusRequest(a, from, to, place, after)
<1>1. from \in Statuses /\ place \in Nat /\ after \in SUBSET Requests
  BY DEF ListInv, RowsInv, ListRows, TimelineInv, Changing
<1>2. RequestRow(n) /\ n.app = a /\ n.job = None /\ n.place = place /\ n.after = after
  <2>1. n = StatusRequest(a, from, to, place, after)
    OBVIOUS
  <2> HIDE DEF from, place, after, n
  <2> QED BY <1>1, <2>1, StatusRequested
<1>3. \A q \in Requests : request'[q] = IF q = p THEN n ELSE request[q]
  BY DEF StatusRequest, ChangeStatus, ListInv, RequestsInv
<1>4. /\ request[p] = NoRequest /\ app[a].there
      /\ UNCHANGED <<app, timeline, banner, now, before, acted, had, doubled, overtaken>>
  BY DEF ChangeStatus, history, There
<1>a. request' = [q \in Requests |-> request'[q]]
  BY DEF ChangeStatus, ListInv, RequestsInv
<1> HIDE DEF n
<1>5. request[p].app = None /\ request[p].job = None
  BY <1>4, NoRequestIs
<1>6. RequestsInv'
  <2>1. \A q \in Requests : RequestRow(request'[q])
    BY <1>2, <1>3 DEF ListInv, RequestsInv
  <2> QED BY <1>a, <2>1 DEF RequestsInv, RequestRow
<1>7. /\ RowsInv' /\ ActivityIsProgress' /\ BannerInv'
      /\ \A i : FindLiveByBoardJob(i)' = FindLiveByBoardJob(i)
  BY <1>4, RowsStand
<1>8. JobsInv'
  <2>1. \A q \in Requests : request'[q].job = request[q].job
    BY <1>2, <1>3, <1>5
  <2> QED BY <1>4, <1>7, <2>1 DEF ListInv, JobsInv, JobOf
<1>9. TimelineInv'
  <2>1. ASSUME NEW b \in Apps PROVE ChangesOf(b)' /\ LineOf(b)'
    <3>1. ChangesOf(b) /\ LineOf(b)
      BY DEF ListInv, TimelineInv
    <3>2. EntriesOf(b)' = EntriesOf(b)
      BY <1>4 DEF EntriesOf
    <3>3. LineOf(b)'
      BY <1>4, <3>1, <3>2 DEF LineOf
    <3>4. p \notin Changing(b)
      BY <1>5, NoneAssumption DEF Changing
    <3>5. \A q \in Changing(b) : request'[q] = request[q]
      BY <1>3, <3>4 DEF Changing
    <3>6. CASE b = a
      <4>1. Changing(b)' = Changing(b) \union {p}
        BY <1>2, <1>3, <3>6 DEF Changing
      <4>2. request'[p].place = Len(timeline[b]) /\ request'[p].after = Changing(b)
        BY <1>2, <1>3, <3>6
      <4>3. Len(timeline[b]) \in Nat
        BY DEF ListInv, TimelineInv
      <4> QED BY <1>4, <3>1, <3>3, <3>4, <3>5, <3>6, <4>1, <4>2, <4>3 DEF ChangesOf
    <3>7. CASE b # a
      <4>1. Changing(b)' = Changing(b)
        BY <1>2, <1>3, <1>5, <3>4, <3>7 DEF Changing
      <4> QED BY <1>4, <3>1, <3>3, <3>5, <4>1 DEF ChangesOf
    <3> QED BY <3>6, <3>7
  <2> QED BY <1>4, <2>1 DEF ListInv, TimelineInv
<1> QED BY <1>6, <1>7, <1>8, <1>9 DEF ListInv

----------------------------------------------------------------------------
(* A change of status is written.                                          *)

\* A request for which another is over.
Later(r, place, after) == [r EXCEPT !.place = place, !.after = after]

LEMMA RequestAfter ==
  ASSUME NEW r, RequestRow(r), NEW p, p \in r.after, NEW place, place = r.place + 1,
         NEW after, after = r.after \ {p}, NEW n, n = Later(r, place, after)
  PROVE  /\ RequestRow(n) /\ n.app = r.app /\ n.job = r.job
         /\ n.place = place /\ n.after = after
<1>1. r \in RequestRows
  BY DEF RequestRow
<1>2. r.place \in Nat /\ r.after \in SUBSET Requests
  BY <1>1 DEF RequestRows
<1>3. place \in Nat /\ after \in SUBSET Requests
  BY <1>2
<1>5. /\ n \in RequestRows /\ n.kind = r.kind /\ n.app = r.app /\ n.to = r.to /\ n.job = r.job
      /\ n.place = place /\ n.after = after
  BY <1>1, <1>3 DEF RequestRows, Later
<1>6. r # NoRequest
  BY NoRequestIs
<1>7. RequestRow(n)
  BY <1>5, <1>6 DEF RequestRow
<1> QED BY <1>5, <1>7

\* What is written of the application, of its timeline and of the requests.
LEMMA StatusWritten ==
  ASSUME ListInv, NEW p \in Requests, FinishStatus(p)
  PROVE  LET a == request[p].app
             entry == [from |-> request[p].from, to |-> request[p].to]
         IN /\ a \in Apps /\ request[p].to \in Statuses /\ entry \in Events
            /\ request[p].job = None /\ app[a].there
            /\ RowsInv'
            /\ app'[a].updated = acted'[a] /\ app'[a].status = request[p].to
            /\ \A b \in Apps : /\ app'[b].there = app[b].there /\ app'[b].job = app[b].job
                               /\ app'[b].archived = app[b].archived
                               /\ b # a => app'[b] = app[b] /\ acted'[b] = acted[b]
            /\ timeline' = [timeline EXCEPT ![a] =
                              InsertAt(timeline[a], request[p].place + 1, entry)]
            /\ had' = [had EXCEPT ![a] = Append(had[a], request[p].to)]
            /\ overtaken' = IF request[p].after # {} THEN overtaken \union {a} ELSE overtaken
<1> DEFINE a == request[p].app
           to == request[p].to
           r == app[a]
           m == [r EXCEPT !.status = to]
           n == [m EXCEPT !.updated = now]
<1>1. RequestRow(request[p]) /\ request[p].kind = "status"
  BY DEF ListInv, RequestsInv, FinishStatus, WriteStatus
<1>2. a \in Apps /\ to \in Statuses /\ request[p].job = None
  BY <1>1, NoRequestIs DEF RequestRow
<1>3. [from |-> request[p].from, to |-> to] \in Events
  <2>1. request[p].from \in Statuses \union {None}
    BY <1>1 DEF RequestRow, RequestRows
  <2> QED BY <1>2, <2>1 DEF Events
<1>4. app[a].there
  <2>1. p \in Changing(a)
    BY DEF Changing
  <2> QED BY <1>2, <2>1 DEF ListInv, TimelineInv, ChangesOf
<1>5. /\ app' = [app EXCEPT ![a] = n] /\ acted' = [acted EXCEPT ![a] = now] /\ now' = now
      /\ timeline' = [timeline EXCEPT ![a] =
           InsertAt(timeline[a], request[p].place + 1, [from |-> request[p].from, to |-> to])]
      /\ had' = [had EXCEPT ![a] = Append(had[a], to)]
      /\ overtaken' = IF request[p].after # {} THEN overtaken \union {a} ELSE overtaken
  BY DEF FinishStatus, WriteStatus, Moved
<1>6. r \in ListRows /\ ReadHasAd(r) /\ now \in Nat
  BY <1>2 DEF ListInv, RowsInv
<1>7. m = [r EXCEPT !.status = to] /\ n = Dated(m, now)
  BY DEF Dated
<1> HIDE DEF r, m, n
<1>8. /\ m \in ListRows /\ m.status = to /\ m.there = r.there /\ m.job = r.job
      /\ m.archived = r.archived /\ m.hasAd = r.hasAd /\ m.reading = r.reading
  BY <1>2, <1>6, <1>7, StatusRow
<1>9. /\ n \in ListRows /\ n.updated = now /\ n.there = r.there /\ n.job = r.job
      /\ n.status = to /\ n.archived = r.archived /\ n.hasAd = r.hasAd /\ n.reading = r.reading
  <2>1. m \in ListRows /\ now \in Nat /\ n = Dated(m, now)
    BY <1>6, <1>7, <1>8
  <2>2. /\ n \in ListRows /\ n.updated = now /\ n.there = m.there /\ n.job = m.job
        /\ n.status = m.status /\ n.archived = m.archived /\ n.hasAd = m.hasAd
        /\ n.reading = m.reading
    BY <2>1 DEF ListRows, Dated
  <2> QED BY <1>8, <2>2
<1>10. /\ \A b \in Apps : app'[b] = IF b = a THEN n ELSE app[b]
       /\ \A b \in Apps : acted'[b] = IF b = a THEN now ELSE acted[b]
       /\ app' \in [Apps -> ListRows] /\ acted' \in [Apps -> Nat]
  BY <1>2, <1>5, <1>6, <1>9 DEF ListInv, RowsInv
<1>11. RowsInv'
  BY <1>5, <1>6, <1>9, <1>10 DEF ListInv, RowsInv, ReadHasAd
<1>12. r = app[a]
  BY DEF r
<1>13. \A b \in Apps : /\ app'[b].there = app[b].there /\ app'[b].job = app[b].job
                       /\ app'[b].archived = app[b].archived
                       /\ b # a => app'[b] = app[b] /\ acted'[b] = acted[b]
  BY <1>9, <1>10, <1>12
<1>14. app'[a].updated = acted'[a] /\ app'[a].status = to
  BY <1>2, <1>9, <1>10
<1> QED BY <1>2, <1>3, <1>4, <1>5, <1>11, <1>13, <1>14

LEMMA RequestsWritten ==
  ASSUME ListInv, NEW p \in Requests, FinishStatus(p)
  PROVE  /\ request' \in [Requests -> RequestRows]
         /\ request'[p] = NoRequest
         /\ \A q \in Requests :
              q # p => /\ RequestRow(request'[q]) /\ request'[q].app = request[q].app
                       /\ request'[q].job = request[q].job
                       /\ request'[q].after = request[q].after \ {p}
                       /\ request'[q].place = IF p \in request[q].after THEN request[q].place + 1
                                              ELSE request[q].place
                       /\ p \notin request[q].after => request'[q] = request[q]
<1>1. request' = [q \in Requests |->
         IF q = p THEN NoRequest
         ELSE IF p \in request[q].after
              THEN [request[q] EXCEPT !.place = request[q].place + 1,
                                      !.after = request[q].after \ {p}]
         ELSE request[q]]
  BY DEF FinishStatus, WriteStatus
<1>2. request'[p] = NoRequest
  BY <1>1
<1>3. ASSUME NEW q \in Requests, q # p
      PROVE  /\ RequestRow(request'[q]) /\ request'[q].app = request[q].app
             /\ request'[q].job = request[q].job
             /\ request'[q].after = request[q].after \ {p}
             /\ request'[q].place = IF p \in request[q].after THEN request[q].place + 1
                                    ELSE request[q].place
             /\ p \notin request[q].after => request'[q] = request[q]
  <2>1. RequestRow(request[q])
    BY DEF ListInv, RequestsInv
  <2>2. CASE p \in request[q].after
    <3> DEFINE r == request[q]
               place == r.place + 1
               after == r.after \ {p}
               n == [r EXCEPT !.place = place, !.after = after]
    <3>1. request'[q] = n
      BY <1>1, <1>3, <2>2
    <3>2. n = Later(r, place, after)
      BY DEF Later
    <3>3. place = r.place + 1 /\ after = r.after \ {p} /\ RequestRow(r) /\ p \in r.after
      BY <2>1, <2>2
    <3> HIDE DEF n, place, after, r
    <3>4. /\ RequestRow(n) /\ n.app = r.app /\ n.job = r.job
          /\ n.place = place /\ n.after = after
      BY <3>2, <3>3, RequestAfter
    <3> QED BY <2>2, <3>1, <3>3, <3>4 DEF r
  <2>3. CASE p \notin request[q].after
    <3>1. request'[q] = request[q]
      BY <1>1, <1>3, <2>3
    <3>2. request[q].after = request[q].after \ {p}
      BY <2>1, <2>3 DEF RequestRow, RequestRows
    <3> QED BY <2>1, <2>3, <3>1, <3>2
  <2> QED BY <2>2, <2>3
<1>4. \A q \in Requests : request'[q] \in RequestRows
  BY <1>2, <1>3, NoRequestIs DEF RequestRow
<1>5. request' = [q \in Requests |-> request'[q]]
  BY <1>1
<1> QED BY <1>2, <1>3, <1>4, <1>5

\* An entry put into a timeline, and one more status at the end of what was had.
Tos(t) == [i \in DOMAIN t |-> t[i].to]

\* Timeline t becomes t2 and what was had h becomes h2; and what that keeps.
Writes(t, h, n, e, t2, h2) ==
  /\ t \in Seq(Events) /\ h \in Seq(Statuses) /\ n \in Nat /\ n <= Len(t) /\ e \in Events
  /\ Len(h) = Len(t) /\ t2 = InsertAt(t, n + 1, e) /\ h2 = Append(h, e.to)
Agree(t, h, t2, h2) ==
  \A v : Times(Tos(t), Len(t), v) = Times(h, Len(h), v)
           => Times(Tos(t2), Len(t2), v) = Times(h2, Len(h2), v)

LEMMA EntryCounts ==
  ASSUME NEW t, NEW h, NEW n, NEW e, NEW t2, NEW h2, Writes(t, h, n, e, t2, h2)
  PROVE  /\ t2 \in Seq(Events) /\ h2 \in Seq(Statuses)
         /\ Len(t2) = Len(t) + 1 /\ Len(h2) = Len(h) + 1
         /\ Agree(t, h, t2, h2)
         /\ n = Len(t) /\ Tos(t) = h => Tos(t2) = h2
         /\ h2 # <<>> /\ Last(h2) = e.to
<1> DEFINE f == Tos(t)
           g == Tos(t2)
<1>0. /\ t \in Seq(Events) /\ h \in Seq(Statuses) /\ n \in Nat /\ n <= Len(t) /\ e \in Events
      /\ Len(h) = Len(t) /\ t2 = InsertAt(t, n + 1, e) /\ h2 = Append(h, e.to)
  BY DEF Writes
<1>1. /\ t2 \in Seq(Events) /\ Len(t2) = Len(t) + 1 /\ Inserted(t, t2, n, Len(t), e)
  BY <1>0, InsertAtIs
<1>2. e.to \in Statuses
  BY <1>0 DEF Events
<1>3. /\ h2 \in Seq(Statuses) /\ Len(h2) = Len(h) + 1 /\ h2[Len(h) + 1] = e.to
      /\ \A i \in 1..Len(h) : h2[i] = h[i]
  <2>1. h \in Seq(Statuses) /\ h2 = Append(h, e.to)
    BY <1>0
  <2> HIDE DEF f, g
  <2>2. h2 \in Seq(Statuses) /\ Len(h2) = Len(h) + 1
    BY <1>2, <2>1
  <2>3. h2[Len(h) + 1] = e.to /\ \A i \in 1..Len(h) : h2[i] = h[i]
    BY <1>2, <2>1
  <2> QED BY <2>2, <2>3
<1>4. Len(t) \in Nat /\ DOMAIN t = 1..Len(t) /\ DOMAIN t2 = 1..(Len(t) + 1)
  BY <1>0, <1>1
<1>5. (\A i \in 1..Len(t) : f[i] = t[i].to) /\ \A i \in 1..(Len(t) + 1) : g[i] = t2[i].to
  BY <1>4 DEF Tos
<1> HIDE DEF f, g
<1>6. Inserted(f, g, n, Len(t), e.to)
  <2>1. g[n + 1] = e.to
    BY <1>0, <1>1, <1>4, <1>5 DEF Inserted
  <2>2. ASSUME NEW i \in 1..n PROVE g[i] = f[i]
    <3>1. i \in 1..Len(t) /\ i \in 1..(Len(t) + 1)
      BY <1>0, <1>4
    <3>2. t2[i] = t[i]
      BY <1>1 DEF Inserted
    <3> QED BY <1>5, <3>1, <3>2
  <2>3. ASSUME NEW i \in (n + 1)..Len(t) PROVE g[i + 1] = f[i]
    <3>1. i \in 1..Len(t) /\ i + 1 \in 1..(Len(t) + 1)
      BY <1>0, <1>4
    <3>2. t2[i + 1] = t[i]
      BY <1>1 DEF Inserted
    <3> QED BY <1>5, <3>1, <3>2
  <2> QED BY <2>1, <2>2, <2>3 DEF Inserted
<1>7. Inserted(h, h2, Len(t), Len(t), e.to)
  BY <1>0, <1>3, <1>4 DEF Inserted
<1>8. ASSUME NEW v, Times(f, Len(t), v) = Times(h, Len(h), v)
      PROVE  Times(g, Len(t2), v) = Times(h2, Len(h2), v)
  <2> DEFINE m == Len(t)
             to == e.to
  <2>1. m \in Nat /\ n \in Nat /\ n <= m /\ Inserted(f, g, n, m, to) /\ Inserted(h, h2, m, m, to) /\ m <= m
    BY <1>0, <1>4, <1>6, <1>7
  <2>2. Times(f, m, v) = Times(h, m, v) /\ Len(t2) = m + 1 /\ Len(h2) = m + 1
    BY <1>0, <1>1, <1>3, <1>8
  <2> HIDE DEF m, to
  <2>3. Times(g, m + 1, v) = Times(f, m, v) + (IF to = v THEN 1 ELSE 0)
    BY <2>1, InsertedCounts
  <2>4. Times(h2, m + 1, v) = Times(h, m, v) + (IF to = v THEN 1 ELSE 0)
    BY <2>1, InsertedCounts
  <2> QED BY <2>2, <2>3, <2>4
<1>9. n = Len(t) /\ f = h => g = h2
  <2> SUFFICES ASSUME n = Len(t), f = h PROVE g = h2
    OBVIOUS
  <2>0. n = Len(t) /\ f = h
    OBVIOUS
  <2>1. ASSUME NEW i \in 1..(Len(t) + 1) PROVE g[i] = h2[i]
    <3>1. CASE i = Len(t) + 1
      BY <1>0, <1>3, <1>6, <2>0, <3>1 DEF Inserted
    <3>2. CASE i # Len(t) + 1
      <4>1. i \in 1..Len(t)
        BY <1>4, <3>2
      <4>2. g[i] = f[i]
        BY <1>6, <2>0, <4>1 DEF Inserted
      <4> QED BY <1>0, <1>3, <2>0, <4>1, <4>2
    <3> QED BY <3>1, <3>2
  <2>2. g = [i \in 1..(Len(t) + 1) |-> g[i]]
    BY <1>4 DEF Tos, g
  <2>3. h2 = [i \in 1..(Len(t) + 1) |-> h2[i]]
    BY <1>0, <1>3
  <2> QED BY <2>1, <2>2, <2>3
<1>10. h2 # <<>> /\ Last(h2) = e.to
  BY <1>0, <1>3 DEF Last
<1>11. Agree(t, h, t2, h2)
  BY <1>8 DEF Agree, f, g
<1> QED BY <1>1, <1>3, <1>9, <1>10, <1>11 DEF f, g

\* The changes under way of an application, when one of them is written.
LEMMA ChangesWritten ==
  ASSUME ListInv, NEW p \in Requests, FinishStatus(p), NEW b \in Apps
  PROVE  ChangesOf(b)' /\ LineOf(b)'
<1> DEFINE a == request[p].app
           e == [from |-> request[p].from, to |-> request[p].to]
<1>1. /\ a \in Apps /\ e \in Events /\ app[a].there /\ app'[a].status = e.to
      /\ \A c \in Apps : app'[c].there = app[c].there /\ (c # a => app'[c] = app[c])
      /\ timeline' = [timeline EXCEPT ![a] = InsertAt(timeline[a], request[p].place + 1, e)]
      /\ had' = [had EXCEPT ![a] = Append(had[a], e.to)]
      /\ overtaken' = IF request[p].after # {} THEN overtaken \union {a} ELSE overtaken
  BY StatusWritten
<1>2. /\ request'[p].app = None
      /\ \A q \in Requests :
           q # p => /\ request'[q].app = request[q].app
                    /\ request'[q].after = request[q].after \ {p}
                    /\ request'[q].place = IF p \in request[q].after THEN request[q].place + 1
                                           ELSE request[q].place
                    /\ p \notin request[q].after => request'[q] = request[q]
  BY RequestsWritten, NoRequestIs
<1>3. /\ \A c \in Apps : ChangesOf(c) /\ LineOf(c)
      /\ timeline \in [Apps -> Seq(Events)] /\ had \in [Apps -> Seq(Statuses)]
  BY DEF ListInv, TimelineInv
<1>4. \A c \in Apps : c # a => timeline'[c] = timeline[c] /\ had'[c] = had[c]
  BY <1>1, <1>3
<1>5. p \in Changing(a)
  BY DEF Changing
<1>6. request[p].place \in Nat
  BY DEF ListInv, RequestsInv, RequestRows
<1>7. Changing(b)' = Changing(b) \ {p}
  BY <1>2, NoneAssumption DEF Changing
<1> HIDE DEF a, e
<1>8. CASE b # a
  <2>1. p \notin Changing(b)
    BY <1>8 DEF Changing, a
  <2>2. \A q \in Changing(b) : q # p /\ q \in Requests /\ p \notin request[q].after
    BY <1>3, <2>1 DEF ChangesOf, Changing
  <2>3. \A q \in Changing(b) : request'[q] = request[q]
    BY <1>2, <2>2
  <2>4. Changing(b)' = Changing(b)
    BY <1>7, <2>1
  <2>5. timeline'[b] = timeline[b] /\ had'[b] = had[b] /\ app'[b] = app[b]
    BY <1>1, <1>4, <1>8
  <2>6. b \notin overtaken' <=> b \notin overtaken
    BY <1>1, <1>8
  <2>7. EntriesOf(b)' = EntriesOf(b)
    BY <2>5 DEF EntriesOf
  <2>8. ChangesOf(b)'
    <3>1. ChangesOf(b)
      BY <1>3
    <3>2. SUFFICES ASSUME NEW q \in Changing(b)
                   PROVE  /\ app'[b].there
                          /\ request'[q].place <= Len(timeline'[b])
                          /\ request'[q].after \subseteq Changing(b)
                          /\ \A r \in Changing(b) :
                               q = r \/ q \in request'[r].after \/ r \in request'[q].after
                          /\ b \notin overtaken' => request'[q].place = Len(timeline'[b])
      BY <2>4 DEF ChangesOf
    <3>3. request'[q] = request[q] /\ \A r \in Changing(b) : request'[r] = request[r]
      BY <2>3
    <3>4. app'[b].there /\ request'[q].place <= Len(timeline'[b])
      BY <2>5, <3>1, <3>3 DEF ChangesOf
    <3>5. request'[q].after \subseteq Changing(b)
      BY <3>1, <3>3 DEF ChangesOf
    <3>6. ASSUME NEW r \in Changing(b)
          PROVE  q = r \/ q \in request'[r].after \/ r \in request'[q].after
      BY <3>1, <3>3 DEF ChangesOf
    <3>7. b \notin overtaken' => request'[q].place = Len(timeline'[b])
      BY <2>5, <2>6, <3>1, <3>3 DEF ChangesOf
    <3> QED BY <3>4, <3>5, <3>6, <3>7
  <2>9. LineOf(b)'
    <3>1. LineOf(b)
      BY <1>3
    <3> QED BY <2>5, <2>6, <2>7, <3>1 DEF LineOf
  <2> QED BY <2>8, <2>9
<1>9. CASE b = a
  <2> DEFINE t == timeline[a]
             h == had[a]
             n == request[p].place
             t2 == timeline'[a]
             h2 == had'[a]
             f == EntriesOf(b)
             g == EntriesOf(b)'
  <2>1. t2 = InsertAt(t, n + 1, e) /\ h2 = Append(h, e.to)
    BY <1>1, <1>3
  <2>2. ChangesOf(a) /\ LineOf(a)
    BY <1>1, <1>3
  <2>3. n \in Nat /\ n <= Len(t) /\ (a \notin overtaken => n = Len(t))
    BY <1>5, <1>6, <2>2 DEF ChangesOf
  <2>4. /\ Len(h) = Len(t)
        /\ \A v \in Statuses : Times(f, Len(t), v) = Times(h, Len(h), v)
        /\ a \notin overtaken => f = h
    BY <1>1, <1>9, <2>2 DEF LineOf
  <2>5. t \in Seq(Events) /\ h \in Seq(Statuses)
    BY <1>1, <1>3
  <2>6. f = Tos(t) /\ g = Tos(t2)
    BY <1>9 DEF EntriesOf, Tos
  <2> HIDE DEF t, h, n, t2, h2, f, g
  <2>7. /\ t2 \in Seq(Events) /\ h2 \in Seq(Statuses)
        /\ Len(t2) = Len(t) + 1 /\ Len(h2) = Len(h) + 1
        /\ Agree(t, h, t2, h2)
        /\ n = Len(t) /\ Tos(t) = h => Tos(t2) = h2
        /\ h2 # <<>> /\ Last(h2) = e.to
    <3>1. Writes(t, h, n, e, t2, h2)
      BY <1>1, <2>1, <2>3, <2>4, <2>5 DEF Writes
    <3> QED BY <3>1, EntryCounts
  <2>a. \A v \in Statuses : Times(g, Len(t2), v) = Times(h2, Len(h2), v)
    BY <2>4, <2>6, <2>7 DEF Agree
  <2>b. a \notin overtaken => g = h2
    BY <2>3, <2>4, <2>6, <2>7
  <2>8. a \notin overtaken' => a \notin overtaken /\ request[p].after = {}
    BY <1>1
  <2>9. LineOf(b)'
    <3>1. Len(had'[b]) = Len(timeline'[b])
      BY <1>9, <2>4, <2>7 DEF t2, h2
    <3>2. \A v \in Statuses : Times(EntriesOf(b)', Len(timeline'[b]), v) = Times(had'[b], Len(had'[b]), v)
      BY <1>9, <2>a DEF t2, h2, g
    <3>3. b \notin overtaken' => EntriesOf(b)' = had'[b] /\ app'[b].status = Last(had'[b]) /\ had'[b] # <<>>
      BY <1>1, <1>9, <2>7, <2>8, <2>b DEF h2, g
    <3> QED BY <3>1, <3>2, <3>3 DEF LineOf
  <2>10. ChangesOf(b)'
    <3>1. Len(timeline'[b]) = Len(t) + 1 /\ Len(t) \in Nat
      BY <1>9, <2>5, <2>7 DEF t2
    <3>2. \A q \in Changing(b)' : q \in Changing(a) /\ q # p /\ q \in Requests
      BY <1>7, <1>9 DEF Changing
    <3>3. \A q \in Changing(a) : request[q].place \in Nat /\ request[q].place <= Len(t)
      BY <2>2 DEF ChangesOf, Changing, ListInv, RequestsInv, RequestRows, t
    <3>4. app'[b].there
      BY <1>1, <1>9
    <3>5. ASSUME NEW q \in Changing(b)'
          PROVE  /\ request'[q].place <= Len(timeline'[b])
                 /\ request'[q].after \subseteq Changing(b)'
                 /\ b \notin overtaken' => request'[q].place = Len(timeline'[b])
      <4>1. q \in Changing(a) /\ q # p /\ q \in Requests
        BY <3>2
      <4>2. request[q].after \subseteq Changing(a)
        BY <2>2, <4>1 DEF ChangesOf
      <4>3. request'[q].after \subseteq Changing(b)'
        BY <1>2, <1>7, <1>9, <4>1, <4>2
      <4>4. request'[q].place <= Len(timeline'[b])
        BY <1>2, <3>1, <3>3, <4>1
      <4>5. ASSUME b \notin overtaken' PROVE request'[q].place = Len(timeline'[b])
        <5>1. a \notin overtaken /\ request[p].after = {}
          BY <1>9, <2>8, <4>5
        <5>2. p \in request[q].after
          BY <1>5, <2>2, <4>1, <5>1 DEF ChangesOf
        <5>3. request[q].place = Len(t)
          BY <2>2, <4>1, <5>1 DEF ChangesOf, t
        <5> QED BY <1>2, <3>1, <4>1, <5>2, <5>3
      <4> QED BY <4>3, <4>4, <4>5
    <3>6. ASSUME NEW q \in Changing(b)', NEW c \in Changing(b)', q # c
          PROVE  q \in request'[c].after \/ c \in request'[q].after
      <4>1. q \in request[c].after \/ c \in request[q].after
        BY <2>2, <3>2, <3>6 DEF ChangesOf
      <4> QED BY <1>2, <3>2, <4>1
    <3> QED BY <3>4, <3>5, <3>6 DEF ChangesOf
  <2> QED BY <2>9, <2>10
<1> QED BY <1>8, <1>9

LEMMA FinishStatusKeeps ==
  ASSUME ListInv, NEW p \in Requests, FinishStatus(p)
  PROVE  ListInv'
<1> DEFINE a == request[p].app
<1>1. /\ a \in Apps /\ request[p].job = None /\ app[a].there /\ RowsInv'
      /\ app'[a].updated = acted'[a] /\ request[p].to \in Statuses
      /\ \A b \in Apps : /\ app'[b].there = app[b].there /\ app'[b].job = app[b].job
                         /\ app'[b].archived = app[b].archived
                         /\ b # a => app'[b] = app[b] /\ acted'[b] = acted[b]
      /\ [from |-> request[p].from, to |-> request[p].to] \in Events
      /\ timeline' = [timeline EXCEPT ![a] =
           InsertAt(timeline[a], request[p].place + 1,
                    [from |-> request[p].from, to |-> request[p].to])]
      /\ had' = [had EXCEPT ![a] = Append(had[a], request[p].to)]
  BY StatusWritten
<1>2. UNCHANGED <<banner, now, before, doubled>>
  BY DEF FinishStatus, WriteStatus
<1>3. There' = There /\ Live' = Live /\ Archived' = Archived
  BY <1>1 DEF There, Live, Archived
<1>4. \A k : FindLiveByBoardJob(k)' = FindLiveByBoardJob(k)
  BY <1>1, <1>3 DEF FindLiveByBoardJob, Live, There
<1>5. ActivityIsProgress'
  BY <1>1, <1>3 DEF ListInv, ActivityIsProgress, There
<1>6. BannerInv'
  BY <1>2, <1>3 DEF ListInv, BannerInv
<1>7. /\ request' \in [Requests -> RequestRows] /\ request'[p] = NoRequest
      /\ \A q \in Requests : q # p => RequestRow(request'[q]) /\ request'[q].job = request[q].job
  BY RequestsWritten
<1>8. RequestsInv'
  BY <1>7, NoRequestIs DEF RequestsInv
<1>9. JobsInv'
  <2>1. \A q \in Requests : request'[q].job = request[q].job
    BY <1>1, <1>7, NoRequestIs
  <2> QED BY <1>2, <1>4, <2>1 DEF ListInv, JobsInv, JobOf
<1>10. timeline' \in [Apps -> Seq(Events)] /\ had' \in [Apps -> Seq(Statuses)]
  <2> DEFINE t == timeline[a]
             n == request[p].place
             e == [from |-> request[p].from, to |-> request[p].to]
             t2 == InsertAt(t, n + 1, e)
  <2>1. t \in Seq(Events) /\ had[a] \in Seq(Statuses)
    BY <1>1 DEF ListInv, TimelineInv
  <2>2. n \in Nat /\ n <= Len(t)
    <3>1. p \in Changing(a)
      BY DEF Changing
    <3>2. ChangesOf(a)
      BY <1>1 DEF ListInv, TimelineInv
    <3> QED BY <3>1, <3>2 DEF ChangesOf, ListInv, RequestsInv, RequestRows
  <2>3. t2 \in Seq(Events)
    <3>1. e \in Events
      BY <1>1
    <3> HIDE DEF t, n, e
    <3> QED BY <2>1, <2>2, <3>1, InsertAtIs
  <2>4. Append(had[a], request[p].to) \in Seq(Statuses)
    BY <1>1, <2>1
  <2>5. timeline' = [timeline EXCEPT ![a] = t2]
    BY <1>1
  <2> HIDE DEF t2
  <2> QED BY <1>1, <2>3, <2>4, <2>5 DEF ListInv, TimelineInv
<1>11. TimelineInv'
  BY <1>10, ChangesWritten DEF TimelineInv
<1> QED BY <1>1, <1>5, <1>6, <1>8, <1>9, <1>11 DEF ListInv

LEMMA DayKeeps ==
  ASSUME ListInv, Day
  PROVE  ListInv'
<1>1. UNCHANGED <<app, timeline, request, banner, before, acted, had, doubled, overtaken>>
  BY DEF Day, history
<1>2. now' \in Nat
  BY DEF Day, ListInv, RowsInv
<1>3. Touched
  BY <1>1, <1>2 DEF Touched, ListInv, RowsInv, Kept
<1> QED BY <1>1, <1>3, TouchedKeeps

----------------------------------------------------------------------------
(* The list, always.                                                       *)

\* Nothing under way.
LEMMA IdleInv ==
  ASSUME request = [p \in Requests |-> NoRequest], banner = NoBanner
  PROVE  /\ RequestsInv /\ BannerInv /\ (\A a \in Apps : Changing(a) = {})
         /\ \A p \in Requests, k \in BoardJobs : request[p].job # k
<1>1. \A p \in Requests : request[p] = NoRequest
  OBVIOUS
<1>2. \A a \in Apps : Changing(a) = {}
  BY <1>1, NoRequestIs, NoneAssumption DEF Changing
<1>3. \A p \in Requests, k \in BoardJobs : request[p].job # k
  BY <1>1, NoRequestIs, NoneAssumption
<1>4. RequestsInv
  BY <1>1, NoRequestIs DEF RequestsInv, RequestRow
<1>5. BannerInv
  BY DEF BannerInv, NoBanner
<1> QED BY <1>2, <1>3, <1>4, <1>5

LEMMA TrackerStarts ==
  ASSUME TrackerInit
  PROVE  ListInv
<1>1. /\ RequestsInv /\ BannerInv /\ (\A a \in Apps : Changing(a) = {})
      /\ \A p \in Requests, k \in BoardJobs : request[p].job # k
  BY IdleInv DEF TrackerInit
<1>2. RowsInv
  BY AbsentIsARow DEF TrackerInit, RowsInv, ReadHasAd
<1>3. \A a \in Apps : ~ app[a].there
  BY AbsentIsARow DEF TrackerInit
<1>4. There = {}
  BY <1>3 DEF There
<1>5. ActivityIsProgress
  BY <1>4 DEF ActivityIsProgress
<1>6. JobsInv
  BY <1>1, <1>4 DEF JobsInv, JobOf, FindLiveByBoardJob, Live
<1>7. timeline \in [Apps -> Seq(Events)] /\ had \in [Apps -> Seq(Statuses)]
  BY DEF TrackerInit
<1>8. TimelineInv
  BY <1>1, <1>3, <1>7 DEF TimelineInv, ChangesOf, LineOf
<1> QED BY <1>1, <1>2, <1>5, <1>6, <1>8 DEF ListInv

LEMMA TrackedStarts ==
  ASSUME NEW a \in Apps, NEW k \in BoardJobs, TrackedOne(a, k)
  PROVE  ListInv
<1> DEFINE row == [Absent EXCEPT !.there = TRUE, !.job = k, !.reading = "pending"]
<1>1. /\ RequestsInv /\ BannerInv /\ (\A b \in Apps : Changing(b) = {})
      /\ \A p \in Requests, i \in BoardJobs : request[p].job # i
  BY IdleInv DEF TrackedOne
<1>2. /\ row \in ListRows /\ ReadHasAd(row) /\ row.there /\ row.updated = 0
      /\ row.status = "interested"
  <2>1. ASSUME NEW r \in ListRows, NEW n, n = [r EXCEPT !.there = TRUE, !.job = k, !.reading = "pending"]
        PROVE  n \in ListRows /\ ReadHasAd(n) /\ n.there /\ n.updated = r.updated
               /\ n.status = r.status
    BY <2>1 DEF ListRows, ReadHasAd, Reads
  <2>2. row = [Absent EXCEPT !.there = TRUE, !.job = k, !.reading = "pending"]
    OBVIOUS
  <2> HIDE DEF row
  <2> QED BY <2>1, <2>2, AbsentIsARow
<1>3. /\ app = [b \in Apps |-> IF b = a THEN row ELSE Absent]
      /\ timeline = [b \in Apps |-> IF b = a THEN <<[from |-> None, to |-> "interested"]>> ELSE <<>>]
      /\ had = [b \in Apps |-> IF b = a THEN <<"interested">> ELSE <<>>]
      /\ acted = [b \in Apps |-> 0] /\ now = 0
  BY DEF TrackedOne
<1> HIDE DEF row
<1>4. RowsInv
  BY <1>2, <1>3, AbsentIsARow DEF RowsInv, ReadHasAd
<1>5. There = {a}
  BY <1>2, <1>3, AbsentIsARow DEF There
<1>6. ActivityIsProgress
  BY <1>2, <1>3, <1>5 DEF ActivityIsProgress
<1>7. \A i \in BoardJobs : FindLiveByBoardJob(i) \subseteq {a}
  BY <1>5 DEF FindLiveByBoardJob, Live
<1>8. JobsInv
  BY <1>1, <1>7 DEF JobsInv, JobOf
<1>9. [from |-> None, to |-> "interested"] \in Events /\ "interested" \in Statuses
  BY DEF Events, Statuses
<1>10. timeline \in [Apps -> Seq(Events)] /\ had \in [Apps -> Seq(Statuses)]
  <2>1. <<[from |-> None, to |-> "interested"]>> \in Seq(Events) /\ <<"interested">> \in Seq(Statuses)
    BY <1>9
  <2> QED BY <1>3, <2>1
<1>11. ASSUME NEW b \in Apps PROVE ChangesOf(b) /\ LineOf(b)
  <2>1. ChangesOf(b)
    BY <1>1 DEF ChangesOf
  <2>2. CASE b # a
    <3>1. ~ app[b].there
      BY <1>5, <2>2 DEF There
    <3> QED BY <2>1, <3>1 DEF LineOf
  <2>3. CASE b = a
    <3>1. timeline[b] = <<[from |-> None, to |-> "interested"]>> /\ had[b] = <<"interested">>
      BY <1>3, <2>3
    <3>2. /\ Len(timeline[b]) = 1 /\ Len(had[b]) = 1 /\ had[b] # <<>>
          /\ Last(had[b]) = "interested" /\ app[b].status = "interested"
      BY <1>2, <1>3, <2>3, <3>1 DEF Last
    <3>3. EntriesOf(b) = had[b]
      <4>1. DOMAIN timeline[b] = 1..1 /\ timeline[b][1].to = "interested"
        BY <3>1
      <4>2. EntriesOf(b) = [i \in 1..1 |-> "interested"]
        BY <4>1 DEF EntriesOf
      <4>3. <<"interested">> = [i \in 1..1 |-> "interested"]
        OBVIOUS
      <4> QED BY <3>1, <4>2, <4>3
    <3> QED BY <2>1, <3>2, <3>3 DEF LineOf
  <2> QED BY <2>2, <2>3
<1>12. TimelineInv
  BY <1>10, <1>11 DEF TimelineInv
<1> QED BY <1>1, <1>4, <1>6, <1>8, <1>12 DEF ListInv

LEMMA MCStarts == ASSUME MCInit PROVE ListInv
BY TrackerStarts, TrackedStarts DEF MCInit

LEMMA RowsNextKeeps ==
  ASSUME ListInv, RowsNext
  PROVE  ListInv'
<1>1. ASSUME NEW a \in Apps, UpdateNotes(a) PROVE ListInv'
  <2>1. Touched
    BY <1>1, ReadsTouch DEF ListInv
  <2> QED BY <1>1, <2>1, TouchedKeeps DEF UpdateNotes
<1> QED BY <1>1, TrackKeeps, FinishTrackKeeps, ChangeStatusKeeps, FinishStatusKeeps, DayKeeps
        DEF RowsNext

LEMMA ScoresNextKeeps ==
  ASSUME ListInv, ScoresNext
  PROVE  ListInv'
<1>1. ASSUME Touched, UNCHANGED <<timeline, request, banner, before, had, doubled, overtaken>>
      PROVE  ListInv'
  BY <1>1, TouchedKeeps
<1>2. RowsInv
  BY DEF ListInv
<1>3. ASSUME NEW T, T \subseteq Apps, Press(T, EnqueueScore) PROVE ListInv'
  <2>1. Touched
    BY <1>2, <1>3, ScoresPressTouches
  <2> QED BY <1>1, <1>3, <2>1 DEF Press
<1>4. ASSUME NEW a \in Apps PROVE
        /\ ExtractAgain(a) => ListInv'
        /\ AttachAd(a) => ListInv'
        /\ DescriptionFails(a) => ListInv'
  BY <1>1, <1>2, ReadsTouch DEF ExtractAgain, AttachAd, DescriptionFails
<1>5. ASSUME NEW a \in Apps, NEW hasKey \in BOOLEAN, DescriptionArrives(a, hasKey) PROVE ListInv'
  <2>1. Touched
    BY <1>2, <1>5, ReadsTouch
  <2> QED BY <1>1, <1>5, <2>1 DEF DescriptionArrives
<1>6. ASSUME NEW a \in Apps, NEW ok \in BOOLEAN, ReadEnds(a, ok) PROVE ListInv'
  <2>1. Touched
    BY <1>2, <1>6, ReadsTouch
  <2> QED BY <1>1, <1>6, <2>1 DEF ReadEnds
<1>7. ASSUME NEW a \in Apps, ScoreApplication(a) PROVE ListInv'
  BY <1>3, <1>7 DEF ScoreApplication
<1>8. ASSUME NEW a \in Apps, NEW state \in {"done", "retrying", "failed"},
             NEW want \in Numbers \union {None}, NEW could \in Numbers \union {None},
             ScoreEnds(a, state, want, could)
      PROVE  ListInv'
  <2>1. Touched
    BY <1>2, <1>8, ScoreEndsTouches
  <2>2. UNCHANGED <<timeline, request, banner, before, had, doubled, overtaken>>
    BY <1>8 DEF ScoreEnds, history
  <2> QED BY <1>1, <2>1, <2>2
<1>9. ASSUME NEW T \in SUBSET Apps, RescoreConfirm(T) PROVE ListInv'
  <2>1. Eligible(T) \subseteq Apps /\ Press(Eligible(T), EnqueueScore)
    BY <1>9 DEF RescoreConfirm, Eligible
  <2> QED BY <1>3, <2>1
<1>10. ASSUME RetryFailed PROVE ListInv'
  <2>1. RetryReads \union RetryScores \subseteq Apps /\ Press(RetryReads \union RetryScores, RetryPress)
    BY <1>10 DEF RetryFailed, RetryReads, RetryScores, Live, There
  <2>2. Touched
    BY <1>2, <2>1, RetryPressTouches
  <2>3. UNCHANGED <<timeline, request, banner, before, had, doubled, overtaken>>
    BY <2>1 DEF Press
  <2> QED BY <1>1, <2>2, <2>3
<1> QED BY <1>4, <1>5, <1>6, <1>7, <1>8, <1>9, <1>10 DEF ScoresNext

LEMMA ListNextKeeps ==
  ASSUME ListInv, ListNext
  PROVE  ListInv'
<1>1. ASSUME NEW T \in SUBSET Apps, BulkArchive(T) PROVE ListInv'
  BY <1>1, ArchiveManyKeeps DEF BulkArchive
<1>2. ASSUME Undo PROVE ListInv'
  BY <1>2, BulkUnarchiveKeeps DEF Undo
<1>3. ASSUME NEW rule \in Rules, ArchiveByRule(rule) PROVE ListInv'
  <2> DEFINE T == {a \in Live : Matches(a, rule)}
  <2>1. T \subseteq Live /\ T \subseteq There /\ ArchiveMany(T, FALSE)
    BY <1>3 DEF ArchiveByRule, Live
  <2> HIDE DEF T
  <2> QED BY <2>1, ArchiveManyKeeps
<1> QED BY <1>1, <1>2, <1>3, PasteAdKeeps, ListKeeps, BulkUnarchiveKeeps DEF ListNext

LEMMA StillKeeps ==
  ASSUME ListInv, UNCHANGED trackerVars
  PROVE  ListInv'
<1>1. UNCHANGED <<app, timeline, request, banner, now, before, acted, had, doubled, overtaken>>
  BY DEF trackerVars
<1>2. Touched
  BY <1>1 DEF Touched, ListInv, RowsInv, Kept
<1> QED BY <1>1, <1>2, TouchedKeeps

LEMMA MCKeeps ==
  ASSUME ListInv, [MCNext]_MCVars
  PROVE  ListInv'
<1>1. CASE MCNext
  BY <1>1, RowsNextKeeps, ScoresNextKeeps, ListNextKeeps, StillKeeps DEF MCNext
<1>2. CASE UNCHANGED MCVars
  BY <1>2, StillKeeps DEF MCVars
<1> QED BY <1>1, <1>2

\* What the invariant says of the list.
LEMMA ListSays ==
  ASSUME ListInv
  PROVE  ListIsTrue
<1>1. TimelineIsComplete
  <2> SUFFICES ASSUME NEW a \in There
               PROVE  /\ \A v \in Statuses :
                           Cardinality({i \in DOMAIN EntriesOf(a) : EntriesOf(a)[i] = v})
                             = Cardinality({i \in DOMAIN had[a] : had[a][i] = v})
                      /\ a \notin overtaken =>
                           EntriesOf(a) = had[a] /\ app[a].status = Last(EntriesOf(a))
    BY DEF TimelineIsComplete, EntriesOf
  <2>1. a \in Apps /\ app[a].there
    BY DEF There
  <2>2. LineOf(a)
    BY <2>1 DEF ListInv, TimelineInv
  <2>3. timeline[a] \in Seq(Events) /\ had[a] \in Seq(Statuses)
    BY <2>1 DEF ListInv, TimelineInv
  <2>4. DOMAIN EntriesOf(a) = 1..Len(timeline[a])
    BY <2>3 DEF EntriesOf
  <2>5. DOMAIN had[a] = 1..Len(had[a])
    BY <2>3
  <2> QED BY <2>1, <2>2, <2>4, <2>5 DEF LineOf, Times
<1>2. OneLivePerJob
  <2> SUFFICES ASSUME NEW k \in BoardJobs \ doubled PROVE Cardinality(FindLiveByBoardJob(k)) <= 1
    BY DEF OneLivePerJob
  <2>1. \A a, b \in FindLiveByBoardJob(k) : a = b
    BY DEF ListInv, JobsInv, JobOf
  <2>2. CASE FindLiveByBoardJob(k) = {}
    BY <2>2, FS_EmptySet
  <2>3. CASE FindLiveByBoardJob(k) # {}
    <3>1. PICK a \in FindLiveByBoardJob(k) : TRUE
      BY <2>3
    <3>2. FindLiveByBoardJob(k) = {a}
      BY <2>1, <3>1
    <3> QED BY <3>2, FS_Singleton
  <2> QED BY <2>2, <2>3
<1> QED BY <1>1, <1>2 DEF ListInv, ListIsTrue

\* The list says what happened: every status an application has had is in its timeline as
\* often as it had it, and in order unless a change overtook another; only what moves an
\* application forward counts as activity; and of a job one application is live, unless it
\* was brought back or two presses overlapped.
THEOREM ListTrue == MCSpec => []ListIsTrue
<1>1. MCInit => ListInv
  BY MCStarts
<1>2. ListInv /\ [MCNext]_MCVars => ListInv'
  BY MCKeeps
<1>3. ListInv => ListIsTrue
  BY ListSays
<1> QED BY <1>1, <1>2, <1>3, PTL DEF MCSpec

----------------------------------------------------------------------------
(* A bulk press, whole.                                                    *)

LEMMA UndoWhole ==
  ASSUME ListInv, Undo, ~ banner.picked
  PROVE  Archived' = before
<1> DEFINE T == {a \in banner.ids : app[a].archived}
<1>1. BulkUnarchive(T) /\ banner.ids # {}
  BY DEF Undo
<1>2. banner.ids \subseteq Apps /\ banner.ids \cap before = {} /\ Archived = before \union banner.ids
  BY <1>1 DEF ListInv, BannerInv
<1>3. T = banner.ids
  BY <1>2 DEF Archived, Live, There
<1> HIDE DEF T
<1>4. \A a \in Apps : /\ app'[a].there = app[a].there
                      /\ app'[a].archived = IF a \in T THEN FALSE ELSE app[a].archived
  BY <1>1, SetArchivedIs DEF BulkUnarchive, ListInv
<1>5. Archived' = Archived \ T
  BY <1>4 DEF Archived, Live, There
<1> QED BY <1>2, <1>3, <1>5

LEMMA RetryWhole ==
  ASSUME ListInv, RetryFailed
  PROVE  /\ \A a \in RetryReads \union RetryScores :
              "pending" = app'[a].reading \/ "scoring" = app'[a].score.state
         /\ \A a \in (RetryReads \union RetryScores)' :
              app'[a].reading = "pending" /\ a \in RetryReads
<1> DEFINE T == RetryReads \union RetryScores
<1>1. T \subseteq Apps /\ Press(T, RetryPress)
  BY DEF RetryFailed, RetryReads, RetryScores, Live, There
<1>2. RowsInv
  BY DEF ListInv
<1>3. /\ \A a \in T : a \in Live /\ (app[a].reading = "failed" \/ app[a].score.state = "failed")
      /\ \A a \in T : app[a].reading = "failed" => a \in RetryReads
      /\ \A a \in Live \ T : app[a].reading # "failed" /\
           (app[a].score.state = "failed" => app[a].reading = "unavailable")
  BY DEF RetryReads, RetryScores
<1> HIDE DEF T
<1>4. /\ Touched
      /\ \A a \in T : app'[a].reading = RetryPress(app[a]).reading
                      /\ app'[a].score = RetryPress(app[a]).score
      /\ \A a \in Apps \ T : app'[a] = app[a]
  BY <1>1, <1>2, RetryPressTouches
<1>5. ASSUME NEW a \in T
      PROVE  /\ app[a].reading = "failed" => app'[a].reading = "pending"
             /\ app[a].reading # "failed" => /\ app'[a].reading = app[a].reading
                                             /\ app'[a].score.state = "scoring"
  <2>1. app[a] \in ListRows /\ ReadHasAd(app[a])
    BY <1>1, <1>2 DEF RowsInv
  <2> QED BY <1>3, <1>4, <2>1, RetryPressKeeps
<1>6. Live' = Live /\ Live \subseteq Apps
  BY <1>4 DEF Touched, Kept, Live, There
<1>7. ASSUME NEW a \in (RetryReads \union RetryScores)'
      PROVE  app'[a].reading = "pending" /\ a \in RetryReads
  <2>1. a \in Live /\ a \in Apps
        /\ (app'[a].reading = "failed"
            \/ (app'[a].score.state = "failed" /\ app'[a].reading \notin {"failed", "unavailable"}))
    BY <1>6 DEF RetryReads, RetryScores
  <2>2. CASE a \in T
    BY <1>3, <1>5, <2>1, <2>2
  <2>3. CASE a \notin T
    BY <1>3, <1>4, <2>1, <2>3
  <2> QED BY <2>2, <2>3
<1>8. \A a \in T : "pending" = app'[a].reading \/ "scoring" = app'[a].score.state
  BY <1>5
<1> QED BY <1>7, <1>8 DEF T

\* A bulk press does all it says: Undo of an archive by rule puts back exactly what was
\* live, and "Retry everything that failed" leaves nothing it counted as it was.
THEOREM BulkWhole == MCSpec => BulkIsWhole
<1> DEFINE A == (Undo /\ ~ banner.picked) => Archived' = before
           B == RetryFailed =>
                  /\ \A a \in RetryReads \union RetryScores :
                       "pending" = app'[a].reading \/ "scoring" = app'[a].score.state
                  /\ \A a \in (RetryReads \union RetryScores)' :
                       app'[a].reading = "pending" /\ a \in RetryReads
<1>1. MCInit => ListInv
  BY MCStarts
<1>2. ListInv /\ [MCNext]_MCVars => ListInv'
  BY MCKeeps
<1>3. ListInv /\ [MCNext]_MCVars => [A]_trackerVars
  BY UndoWhole
<1>4. ListInv /\ [MCNext]_MCVars => [B]_trackerVars
  BY RetryWhole
<1> HIDE DEF A, B
<1>5. MCSpec => [][A]_trackerVars
  BY <1>1, <1>2, <1>3, PTL DEF MCSpec
<1>6. MCSpec => [][B]_trackerVars
  BY <1>1, <1>2, <1>4, PTL DEF MCSpec
<1>7. MCSpec => UndoPutsBackRule
  BY <1>5 DEF UndoPutsBackRule, A
<1>8. MCSpec => RetryRetriesAll
  BY <1>6 DEF RetryRetriesAll, B
<1> QED BY <1>7, <1>8 DEF BulkIsWhole

----------------------------------------------------------------------------
(* The saved filter.                                                       *)

\* What becomes of a job, in terms of its parts.
LEMMA Passes ==
  ASSUME NEW job, NEW f, NEW unstated, NEW exceptions, NEW heavy
  PROVE  LET verdict == Evaluate(job, f, unstated, exceptions, heavy)
             located == LocationPasses(f.location, job)
             excepted == \E rule \in exceptions : ExceptionMatches(rule, job)
         IN /\ verdict \in Passing
                 <=> TitlePasses(f, job)
                     /\ (\/ located /\ WorkplacePasses(f, job, heavy)
                         \/ excepted
                         \/ located /\ IsUnstated(f, job) /\ unstated)
            /\ verdict \in Passing \union {"hidden_unstated"}
                 <=> TitlePasses(f, job)
                     /\ (\/ located /\ WorkplacePasses(f, job, heavy)
                         \/ excepted
                         \/ located /\ IsUnstated(f, job))
            /\ ~ TitlePasses(f, job) => verdict = "excluded"
BY DEF Evaluate, Passing

\* "Show them" asks the same, but of a job that does not say where it is done.
LEMMA ShowThem ==
  ASSUME NEW f \in Saved, NEW g, g = WithUnknownWorkplace(f), NEW job \in Job, NEW heavy \in BOOLEAN
  PROVE  /\ TitlePasses(g, job) <=> TitlePasses(f, job)
         /\ g.location = f.location
         /\ IsUnstated(g, job) <=> IsUnstated(f, job)
         /\ WorkplacePasses(g, job, heavy)
              <=> WorkplacePasses(f, job, heavy) \/ IsUnstated(f, job)
<1>1. ~ f.unknown_shown
  BY DEF Saved
<1>2. CASE f.mode # "custom"
  <2>1. g = [f EXCEPT !.unknown_shown = TRUE]
    BY <1>2 DEF WithUnknownWorkplace
  <2>2. /\ g.mode = f.mode /\ g.workplaces = f.workplaces /\ g.includes = f.includes
        /\ g.excludes = f.excludes /\ g.location = f.location /\ g.unknown_shown
    BY <2>1 DEF Saved
  <2> QED BY <1>1, <1>2, <2>2 DEF TitlePasses, IsUnstated, WorkplacePasses
<1>3. CASE f.mode = "custom" /\ f.workplaces = {}
  <2>1. g = f
    BY <1>3 DEF WithUnknownWorkplace
  <2> QED BY <1>3, <2>1 DEF WorkplacePasses
<1>4. CASE f.mode = "custom" /\ f.workplaces # {}
  <2>1. g = [f EXCEPT !.workplaces = f.workplaces \union {"unknown"}]
    BY <1>4 DEF WithUnknownWorkplace
  <2>2. /\ g.mode = f.mode /\ g.workplaces = f.workplaces \union {"unknown"}
        /\ g.includes = f.includes /\ g.excludes = f.excludes /\ g.location = f.location
    BY <2>1 DEF Saved
  <2> QED BY <1>4, <2>2 DEF TitlePasses, IsUnstated, WorkplacePasses
<1> QED BY <1>2, <1>3, <1>4

LEMMA RemoteFriendly ==
  ASSUME NEW f \in Saved, f.mode = "remote_only", NEW g, g = [f EXCEPT !.mode = "remote_friendly"],
         NEW job \in Job, NEW heavy \in BOOLEAN
  PROVE  /\ TitlePasses(g, job) <=> TitlePasses(f, job)
         /\ g.location = f.location
         /\ IsUnstated(g, job) <=> IsUnstated(f, job)
         /\ WorkplacePasses(f, job, heavy) => WorkplacePasses(g, job, heavy)
<1>1. /\ g.mode = "remote_friendly" /\ g.workplaces = f.workplaces /\ g.includes = f.includes
      /\ g.excludes = f.excludes /\ g.location = f.location /\ g.unknown_shown = f.unknown_shown
  BY DEF Saved
<1> QED BY <1>1 DEF TitlePasses, IsUnstated, WorkplacePasses

\* For every filter that can be saved, every job and every set of exceptions.
LEMMA FilterHonest ==
  ASSUME NEW f \in Saved, NEW job \in Job, NEW unstated \in BOOLEAN, NEW heavy \in BOOLEAN,
         NEW exceptions
  PROVE  Honest(f, job, unstated, heavy, exceptions)
<1> DEFINE g == WithUnknownWorkplace(f)
           h == [f EXCEPT !.mode = "remote_friendly"]
           verdict == Evaluate(job, f, unstated, exceptions, heavy)
           shown == Evaluate(job, g, unstated, exceptions, heavy)
           friendly == Evaluate(job, h, unstated, exceptions, heavy)
<1>1. g = WithUnknownWorkplace(f) /\ h = [f EXCEPT !.mode = "remote_friendly"]
  OBVIOUS
<1> HIDE DEF g, h
<1>2. shown \in Passing <=> verdict \in Passing \union {"hidden_unstated"}
  <2>1. /\ TitlePasses(g, job) <=> TitlePasses(f, job)
        /\ g.location = f.location
        /\ IsUnstated(g, job) <=> IsUnstated(f, job)
        /\ WorkplacePasses(g, job, heavy)
             <=> WorkplacePasses(f, job, heavy) \/ IsUnstated(f, job)
    BY <1>1, ShowThem
  <2> QED BY <2>1, Passes
<1>3. f.mode = "remote_only" /\ verdict \in Passing => friendly \in Passing
  <2> SUFFICES ASSUME f.mode = "remote_only", verdict \in Passing PROVE friendly \in Passing
    OBVIOUS
  <2>1. /\ TitlePasses(h, job) <=> TitlePasses(f, job)
        /\ h.location = f.location
        /\ IsUnstated(h, job) <=> IsUnstated(f, job)
        /\ WorkplacePasses(f, job, heavy) => WorkplacePasses(h, job, heavy)
    BY <1>1, RemoteFriendly
  <2> QED BY <2>1, Passes
<1>4. ~ TitlePasses(f, job) => verdict = "excluded"
  BY Passes
<1> QED BY <1>2, <1>3, <1>4 DEF Honest, g, h

----------------------------------------------------------------------------
(* The remembered order of a table.                                        *)

Orders == [key : S!Keys, dir : {"asc", "desc"}]

\* A tab shows an order, and what its link promised is what its address says.
TabShows(w) ==
  /\ w.open => w.shown \in Orders
  /\ w.promised # None => w.promised \in Orders /\ w.query = w.promised /\ w.shown = w.promised

TablesInv ==
  /\ table \in DOMAIN S!Specs
  /\ window = [w \in Windows |-> window[w]] /\ \A w \in Windows : TabShows(window[w])
  /\ S!SavedIsAnOrder

\* Each column starts its own way, and the default is a column.
LEMMA ColumnsAre ==
  ASSUME table \in DOMAIN S!Specs
  PROVE  /\ \A k \in S!Keys : S!Columns[k] \in {"asc", "desc"}
         /\ S!DefaultSort \in Orders
<1>1. table \in {"applications", "jobs", "boards", "changes", "cvs"}
  BY DEF S!Specs
<1>2. CASE table = "applications"
  <2>1. S!Specs[table] = S!ApplicationsSpec
    BY <1>2 DEF S!Specs
  <2> QED BY <2>1 DEF S!ApplicationsSpec, S!SortSpec, S!Keys, S!Columns, S!DefaultSort, Orders
<1>3. CASE table = "jobs"
  <2>1. S!Specs[table] = S!JobsSpec
    BY <1>3 DEF S!Specs
  <2> QED BY <2>1 DEF S!JobsSpec, S!SortSpec, S!Keys, S!Columns, S!DefaultSort, Orders
<1>4. CASE table = "boards"
  <2>1. S!Specs[table] = S!BoardsSpec
    BY <1>4 DEF S!Specs
  <2> QED BY <2>1 DEF S!BoardsSpec, S!SortSpec, S!Keys, S!Columns, S!DefaultSort, Orders
<1>5. CASE table = "changes"
  <2>1. S!Specs[table] = S!ChangesSpec
    BY <1>5 DEF S!Specs
  <2> QED BY <2>1 DEF S!ChangesSpec, S!SortSpec, S!Keys, S!Columns, S!DefaultSort, Orders
<1>6. CASE table = "cvs"
  <2>1. S!Specs[table] = S!CvsSpec
    BY <1>6 DEF S!Specs
  <2> QED BY <2>1 DEF S!CvsSpec, S!SortSpec, S!Keys, S!Columns, S!DefaultSort, Orders
<1> QED BY <1>1, <1>2, <1>3, <1>4, <1>5, <1>6

\* Whatever an address says, what is shown is an order; and an order says itself.
LEMMA ParsedIs ==
  ASSUME table \in DOMAIN S!Specs
  PROVE  /\ \A raw : S!ParseSort(raw) \in Orders
         /\ \A raw \in Orders : S!ParseSort(raw) = raw /\ S!ResolveSort(raw) = raw /\ raw # None
         /\ \A raw : S!ResolveSort(raw) \in Orders
         /\ \A shown : \A k \in S!Keys : S!HeaderQuery(shown, k) \in Orders
<1>1. /\ \A k \in S!Keys : S!Columns[k] \in {"asc", "desc"}
      /\ S!DefaultSort \in Orders
  BY ColumnsAre
<1>2. ASSUME NEW raw PROVE S!ParseSort(raw) \in Orders
  BY <1>1 DEF S!ParseSort, Orders
<1>3. ASSUME NEW raw \in Orders PROVE raw # None
  BY NoneAssumption DEF Orders, S!Keys, S!Columns
<1>4. ASSUME NEW raw \in Orders PROVE S!ParseSort(raw) = raw
  <2>1. raw.key \in S!Keys /\ raw.dir \in {"asc", "desc"} /\ raw # None
    BY <1>3 DEF Orders
  <2>2. S!ParseSort(raw) = [key |-> raw.key, dir |-> raw.dir]
    BY <2>1 DEF S!ParseSort
  <2>3. raw = [key |-> raw.key, dir |-> raw.dir]
    BY DEF Orders
  <2> QED BY <2>2, <2>3
<1>5. ASSUME NEW shown, NEW k \in S!Keys PROVE S!HeaderQuery(shown, k) \in Orders
  BY <1>1 DEF S!HeaderQuery, S!NextDirection, S!Opposite, Orders
<1> QED BY <1>2, <1>3, <1>4, <1>5 DEF S!ResolveSort

\* A request for the page.
LEMMA GetKeeps ==
  ASSUME TablesInv, NEW w \in Windows, NEW query, NEW promised, NEW kept,
         S!Get(w, query, promised, kept),
         promised # None => promised \in Orders /\ query = promised
  PROVE  TablesInv'
<1> DEFINE t == [shown |-> S!ResolveSort(query), query |-> query, open |-> TRUE,
                 promised |-> promised, kept |-> kept]
<1>1. /\ table' = table /\ window' = [window EXCEPT ![w] = t]
      /\ saved' = IF query = None THEN saved ELSE S!ResolveSort(query)
  BY DEF S!Get
<1>2. table \in DOMAIN S!Specs
  BY DEF TablesInv
<1>3. /\ S!ResolveSort(query) \in Orders
      /\ promised # None => S!ResolveSort(query) = promised
  BY <1>2, ParsedIs
<1>4. TabShows(t)
  BY <1>3 DEF TabShows
<1> HIDE DEF t
<1>5. Orders' = Orders
  BY <1>1 DEF Orders, S!Keys, S!Columns, S!Specs
<1>6. \A v \in Windows : window'[v] = IF v = w THEN t ELSE window[v]
  BY <1>1 DEF TablesInv
<1>7. \A v \in Windows : TabShows(window'[v])
  BY <1>4, <1>6 DEF TablesInv
<1>8. \A v \in Windows : TabShows(window[v])'
  BY <1>5, <1>7 DEF TabShows
<1>9. S!SavedIsAnOrder'
  <2>1. saved' = saved \/ saved' \in Orders
    BY <1>1, <1>3
  <2>2. S!Keys' = S!Keys
    BY <1>1 DEF S!Keys, S!Columns, S!Specs
  <2> QED BY <2>1, <2>2 DEF TablesInv, S!SavedIsAnOrder, Orders
<1>10. (table \in DOMAIN S!Specs)'
  BY <1>1, <1>2 DEF S!Specs
<1>11. window' = [v \in Windows |-> window'[v]]
  BY <1>1 DEF TablesInv
<1> QED BY <1>8, <1>9, <1>10, <1>11 DEF TablesInv

LEMMA TablesKeep ==
  ASSUME TablesInv, S!TablesNext
  PROVE  TablesInv'
<1>0. table \in DOMAIN S!Specs /\ \A w \in Windows : TabShows(window[w])
  BY DEF TablesInv
<1>1. ASSUME NEW w \in Windows, S!Visit(w) PROVE TablesInv'
  BY <1>1, GetKeeps DEF S!Visit
<1>2. ASSUME NEW w \in Windows, S!ClickStatus(w) PROVE TablesInv'
  BY <1>2, GetKeeps DEF S!ClickStatus
<1>3. ASSUME NEW w \in Windows, S!Reload(w) PROVE TablesInv'
  BY <1>0, <1>3, GetKeeps DEF S!Reload, TabShows
<1>4. ASSUME NEW w \in Windows, NEW k \in S!Keys, S!ClickHeader(w, k) PROVE TablesInv'
  <2> DEFINE query == S!HeaderQuery(window[w].shown, k)
  <2>1. query \in Orders
    BY <1>0, ParsedIs
  <2>2. S!Get(w, query, query, None)
    BY <1>4 DEF S!ClickHeader, S!HeaderQuery
  <2> HIDE DEF query
  <2> QED BY <2>1, <2>2, GetKeeps
<1>5. ASSUME NEW w \in Windows, NEW raw, S!TypeAddress(w, raw) PROVE TablesInv'
  BY <1>5, GetKeeps DEF S!TypeAddress
<1> QED BY <1>1, <1>2, <1>3, <1>4, <1>5 DEF S!TablesNext

LEMMA TablesStart ==
  ASSUME S!TablesInit
  PROVE  TablesInv
<1>1. /\ S!NoWindow.promised = None /\ ~ S!NoWindow.open
  BY DEF S!NoWindow
<1>2. TabShows(S!NoWindow)
  BY <1>1 DEF TabShows
<1>3. /\ window = [w \in Windows |-> S!NoWindow] /\ table \in DOMAIN S!Specs
      /\ saved \in {None, [key |-> "gone", dir |-> "asc"]}
  BY DEF S!TablesInit
<1>4. S!SavedIsAnOrder
  BY <1>3 DEF S!SavedIsAnOrder
<1>5. window = [w \in Windows |-> window[w]] /\ \A w \in Windows : TabShows(window[w])
  BY <1>2, <1>3
<1> QED BY <1>3, <1>4, <1>5 DEF TablesInv

LEMMA TablesSay ==
  ASSUME TablesInv
  PROVE  S!ClickDoesWhatItSays /\ S!SavedIsAnOrder
BY DEF TablesInv, TabShows, S!ClickDoesWhatItSays

----------------------------------------------------------------------------
(* The panels that fold.                                                   *)

\* What a page draws, and a panel as it stands on one.
DrawnSet == [open : BOOLEAN, default : BOOLEAN, marker : SUBSET Entries]
TabSet == [drawn : DrawnSet, shown : SUBSET (Entries \X Nat)]

\* All that is shown is of before now.
Past(shown) == \A e \in shown : e[2] < clock

\* A row that is there, or is coming.
EntryInv(e) == e \in F!Entry /\ e.made < clock /\ e.changed < clock
Coming(r) == coming[r] # None => EntryInv(coming[r]) /\ coming[r].status # "absent"

\* The rows, of which no two were made at once; an ad is one row.
Kin(r) == content[r].status # "absent" /\ coming[r] # None => coming[r].made = content[r].made
Apart(r, q) ==
  /\ content[r].status # "absent" /\ content[q].status # "absent" => content[r].made # content[q].made
  /\ content[r].status # "absent" /\ coming[q] # None => content[r].made # coming[q].made
  /\ coming[r] # None /\ content[q].status # "absent" => coming[r].made # content[q].made
  /\ coming[r] # None /\ coming[q] # None => coming[r].made # coming[q].made
  /\ kind = "ad" => \/ content[r].status = "absent" /\ coming[r] = None
                    \/ content[q].status = "absent" /\ coming[q] = None

EntriesInv ==
  /\ clock \in Nat \ {0}
  /\ content = [r \in Entries |-> content[r]] /\ coming = [r \in Entries |-> coming[r]]
  /\ \A r \in Entries : EntryInv(content[r]) /\ Coming(r) /\ Kin(r)
  /\ \A r \in Entries : content[r].status = "absent" => content[r] = F!NoEntry
  /\ \A r, q \in Entries : r # q => Apart(r, q)

\* The pages and what they post.
PostInv(p) ==
  /\ post[p] \in Seq(F!Toggled)
  /\ \A i \in 1..Len(post[p]) : Past(post[p][i].shown)
TabInv(p) == tab[p] # None => tab[p] \in TabSet /\ Past(tab[p].shown)
PagesInv ==
  /\ tab = [p \in Tabs |-> tab[p]] /\ post = [p \in Tabs |-> post[p]]
  /\ \A p \in Tabs : TabInv(p) /\ PostInv(p)

\* What is remembered is of after all that was seen.
SeenInv ==
  /\ seen \subseteq Entries \X Nat /\ Past(seen)
  /\ choice # None => \A e \in seen : e[2] <= choice.last_opened_at

FoldsInv == EntriesInv /\ PagesInv /\ SeenInv /\ (choice # None => choice.is_open \in BOOLEAN /\ choice.last_opened_at \in Nat) /\ kind \in F!Kinds

\* A panel's times are of rows that are there.
LEMMA PanelIs ==
  ASSUME kind \in F!Kinds, NEW c
  PROVE  /\ DOMAIN F!PanelOf(c).times \subseteq F!There(c)
         /\ \A r \in DOMAIN F!PanelOf(c).times :
              F!PanelOf(c).times[r] \in {c[r].made, c[r].changed}
<1> DEFINE P == F!PanelOf(c)
           Good(times) == /\ DOMAIN times \subseteq F!There(c)
                          /\ \A r \in DOMAIN times : times[r] \in {c[r].made, c[r].changed}
<1>1. ASSUME NEW T, T \subseteq F!There(c)
      PROVE  Good(F!Made(c, T)) /\ Good(F!Changed(c, T))
  BY <1>1 DEF F!Made, F!Changed
<1>2. \A d, f, times : F!Panel(d, f, times).times = times
  BY DEF F!Panel
<1>3. F!Latest(c) \subseteq F!There(c) /\ \A T : F!Are(c, T) \subseteq F!There(c)
  BY DEF F!Latest, F!Are
<1> DEFINE L == F!Latest(c)
           D == F!Are(c, {"done"})
           W == F!There(c)
<1>4. \E T \in SUBSET W : P.times = F!Made(c, T) \/ P.times = F!Changed(c, T)
  <2>1. L \subseteq W /\ D \subseteq W /\ L \intersect D \subseteq W /\ W \ L \subseteq W /\ {} \subseteq W
    BY <1>3
  <2>2. CASE kind = "ad"
    <3>1. P = F!AdSection(c)
      BY <2>2 DEF F!PanelOf
    <3>2. F!AdSection(c).times = F!Changed(c, L \intersect D)
      BY DEF F!AdSection, F!Panel
    <3> QED BY <2>1, <3>1, <3>2
  <2>3. CASE kind = "score"
    <3>1. P = F!ScoreSection(c)
      BY <2>3 DEF F!PanelOf
    <3>2. F!ScoreSection(c).times = F!Changed(c, L)
      BY DEF F!ScoreSection, F!Panel
    <3> QED BY <2>1, <3>1, <3>2
  <2>4. CASE kind \in {"constraints", "levers"}
    <3>1. P = F!ScoreDetailSection(c)
      BY <2>4 DEF F!PanelOf
    <3>2. F!ScoreDetailSection(c).times = F!Made(c, {})
      BY DEF F!ScoreDetailSection, F!Panel
    <3> QED BY <2>1, <3>1, <3>2
  <2>5. CASE kind = "pushbacks"
    <3>1. P.times = F!Made(c, W \ L)
      BY <1>2, <2>5 DEF F!PanelOf, F!PushbacksSection
    <3> QED BY <2>1, <3>1
  <2>6. CASE kind = "questions"
    <3>1. P.times = F!Changed(c, D)
      BY <1>2, <2>6 DEF F!PanelOf, F!QuestionsSection
    <3> QED BY <2>1, <3>1
  <2>7. CASE kind \in {"status", "notes", "requirements", "generate", "cv", "document", "draft", "stated"}
    <3>1. \/ P = F!StatusSection(c)
          \/ P = F!NotesSection(c)
          \/ P = F!RequirementsSection(c)
          \/ P = F!GenerateSection(c)
          \/ P = F!DraftSection(c)
          \/ P = F!StatedSection(c)
      BY <2>7 DEF F!PanelOf, F!CvSection, F!CvDocumentSection
    <3>2. /\ F!StatusSection(c).times = F!Made(c, {})
          /\ F!NotesSection(c).times = F!Made(c, {})
          /\ F!RequirementsSection(c).times = F!Made(c, {})
          /\ F!GenerateSection(c).times = F!Made(c, {})
          /\ F!DraftSection(c).times = F!Made(c, {})
          /\ F!StatedSection(c).times = F!Made(c, {})
      BY DEF F!StatusSection, F!NotesSection, F!RequirementsSection, F!GenerateSection, F!DraftSection, F!StatedSection, F!Panel
    <3> QED BY <2>1, <3>1, <3>2
  <2>8. CASE kind = "timeline"
    <3>1. P.times = F!Made(c, W)
      BY <1>2, <2>8 DEF F!PanelOf, F!TimelineSection
    <3> QED BY <2>1, <3>1
  <2>9. CASE kind \in {"history", "versions"}
    <3>1. P.times = F!Made(c, W \ L)
      BY <1>2, <2>9 DEF F!PanelOf, F!HistorySection, F!VersionsSection
    <3> QED BY <2>1, <3>1
  <2>10. CASE kind = "capabilities"
    <3>1. P.times = F!Changed(c, L)
      BY <1>2, <2>10 DEF F!PanelOf, F!CapabilitiesSection
    <3> QED BY <2>1, <3>1
  <2> QED BY <2>2, <2>3, <2>4, <2>5, <2>6, <2>7, <2>8, <2>9, <2>10 DEF F!Kinds
<1> HIDE DEF P
<1>5. PICK T \in SUBSET W : P.times = F!Made(c, T) \/ P.times = F!Changed(c, T)
  BY <1>4
<1>6. Good(P.times)
  BY <1>1, <1>5
<1> QED BY <1>6 DEF P

\* A panel as it is drawn, and what it shows.
LEMMA DrawnIs ==
  ASSUME FoldsInv
  PROVE  /\ F!Resolve(F!PanelOf(content), choice) \in DrawnSet
         /\ F!Shown(content) \subseteq Entries \X Nat
         /\ Past(F!Shown(content))
         /\ \A r \in DOMAIN F!PanelOf(content).times : F!PanelOf(content).times[r] \in Nat
<1> DEFINE P == F!PanelOf(content)
<1>1. /\ DOMAIN P.times \subseteq F!There(content)
      /\ \A r \in DOMAIN P.times : P.times[r] \in {content[r].made, content[r].changed}
  BY PanelIs DEF FoldsInv
<1> HIDE DEF P
<1>2. F!There(content) \subseteq Entries
  BY DEF F!There
<1>3. \A r \in DOMAIN P.times : r \in Entries /\ P.times[r] \in Nat /\ P.times[r] < clock
  <2> SUFFICES ASSUME NEW r \in DOMAIN P.times
               PROVE  r \in Entries /\ P.times[r] \in Nat /\ P.times[r] < clock
    OBVIOUS
  <2>1. r \in Entries
    BY <1>1, <1>2
  <2>2. EntryInv(content[r])
    BY <2>1 DEF FoldsInv, EntriesInv
  <2> QED BY <1>1, <2>1, <2>2 DEF EntryInv, F!Entry
<1>4. F!Shown(content) = {<<r, P.times[r]>> : r \in DOMAIN P.times}
  BY DEF F!Shown, P
<1>5. F!Shown(content) \subseteq Entries \X Nat /\ Past(F!Shown(content))
  BY <1>3, <1>4 DEF Past
<1>6. F!Marker(choice, P.times) \subseteq Entries
  BY <1>3 DEF F!Marker
<1>7. F!Resolve(P, choice) \in DrawnSet
  BY <1>6 DEF F!Resolve, DrawnSet
<1> QED BY <1>3, <1>5, <1>7 DEF P

\* Time passes, and what is of before now stays so.
LEMMA LaterPast ==
  ASSUME FoldsInv, clock' = clock \/ clock' = clock + 1
  PROVE  /\ clock' \in Nat \ {0}
         /\ \A shown : shown \subseteq Entries \X Nat /\ Past(shown) => \A e \in shown : e[2] < clock'
         /\ \A e : EntryInv(e) => e.made < clock' /\ e.changed < clock'
  BY DEF FoldsInv, EntriesInv, Past, EntryInv, F!Entry

LEMMA SeenLater ==
  ASSUME FoldsInv, clock' = clock \/ clock' = clock + 1, UNCHANGED <<choice, seen, kind>>
  PROVE  /\ SeenInv' /\ (choice # None => choice.is_open \in BOOLEAN /\ choice.last_opened_at \in Nat)'
         /\ kind' \in F!Kinds
BY LaterPast DEF FoldsInv, SeenInv, Past

LEMMA PagesLater ==
  ASSUME FoldsInv, clock' = clock \/ clock' = clock + 1, UNCHANGED tab, UNCHANGED post
  PROVE  PagesInv'
<1>1. ASSUME NEW p \in Tabs PROVE TabInv(p)' /\ PostInv(p)'
  <2>1. TabInv(p) /\ PostInv(p)
    BY DEF FoldsInv, PagesInv
  <2>2. TabInv(p)'
    BY <2>1, LaterPast DEF TabInv, Past, TabSet
  <2>3. ASSUME NEW i \in 1..Len(post[p]) PROVE \A e \in post[p][i].shown : e[2] < clock'
    <3>1. post[p][i] \in F!Toggled /\ Past(post[p][i].shown)
      BY <2>1 DEF PostInv
    <3>2. post[p][i].shown \subseteq Entries \X Nat
      BY <3>1 DEF F!Toggled
    <3> QED BY <3>1, <3>2, LaterPast
  <2>4. PostInv(p)'
    BY <2>1, <2>3 DEF PostInv, Past
  <2> QED BY <2>2, <2>4
<1> QED BY <1>1 DEF FoldsInv, PagesInv

LEMMA EntriesLater ==
  ASSUME FoldsInv, clock' = clock \/ clock' = clock + 1, UNCHANGED <<content, coming, kind>>
  PROVE  EntriesInv'
<1>1. ASSUME NEW r \in Entries PROVE EntryInv(content[r])' /\ Coming(r)' /\ Kin(r)'
  <2>1. EntryInv(content[r]) /\ Coming(r) /\ Kin(r)
    BY DEF FoldsInv, EntriesInv
  <2>2. EntryInv(content[r])'
    BY <2>1, LaterPast DEF EntryInv, F!Entry
  <2>3. Coming(r)'
    BY <2>1, LaterPast DEF EntryInv, F!Entry, Coming
  <2> QED BY <2>1, <2>2, <2>3 DEF Kin
<1>2. \A r, q \in Entries : r # q => Apart(r, q)'
  BY DEF FoldsInv, EntriesInv, Apart
<1> QED BY <1>1, <1>2, LaterPast DEF FoldsInv, EntriesInv, F!NoEntry

----------------------------------------------------------------------------
(* The rows of a panel are written.                                        *)

LEMMA WriteKeeps ==
  ASSUME FoldsInv, NEW r \in Entries, NEW status, F!Write(r, status)
  PROVE  FoldsInv'
<1> DEFINE made == IF content[r] = F!NoEntry THEN clock ELSE content[r].made
           n == [status |-> status, changed |-> clock, made |-> made]
<1>1. /\ coming[r] = None /\ status \in F!Follows(content[r].status)
      /\ kind = "ad" => \A q \in Entries \ {r} : content[q] = F!NoEntry /\ coming[q] = None
      /\ coming' = [coming EXCEPT ![r] = n] /\ clock' = clock + 1
      /\ UNCHANGED <<kind, content, choice, tab, post, seen>>
  BY DEF F!Write
<1>2. /\ clock \in Nat /\ EntryInv(content[r])
      /\ content[r].status = "absent" => content[r] = F!NoEntry
      /\ \A q \in Entries : q # r => Apart(r, q) /\ Apart(q, r)
      /\ \A q \in Entries : EntryInv(content[q]) /\ Coming(q) /\ Kin(q)
  BY DEF FoldsInv, EntriesInv
<1>3. F!NoEntry.status = "absent"
  BY DEF F!NoEntry
<1>4. status \in {"pending", "done", "failed"}
  <2>1. content[r].status \in {"absent", "pending", "failed", "done"}
    BY <1>2 DEF EntryInv, F!Entry
  <2> QED BY <1>1, <2>1 DEF F!Follows
<1>5. /\ made \in Nat /\ made < clock + 1
      /\ content[r].status # "absent" => made = content[r].made
      /\ content[r].status = "absent" => made = clock
  BY <1>2, <1>3 DEF EntryInv, F!Entry
<1> HIDE DEF made
<1>6. n.status = status /\ n.made = made /\ n.changed = clock /\ n \in F!Entry
  BY <1>2, <1>4, <1>5 DEF F!Entry
<1> HIDE DEF n
<1>7. \A q \in Entries : coming'[q] = IF q = r THEN n ELSE coming[q]
  BY <1>1 DEF FoldsInv, EntriesInv
<1>8. ASSUME NEW q \in Entries PROVE EntryInv(content[q])' /\ Coming(q)' /\ Kin(q)'
  <2>1. EntryInv(content[q]) /\ Coming(q) /\ Kin(q)
    BY <1>2
  <2>2. EntryInv(content[q])'
    BY <1>1, <2>1, LaterPast DEF EntryInv, F!Entry
  <2>3. CASE q = r
    <3>1. coming'[q] = n
      BY <1>7, <2>3
    <3>2. Coming(q)'
      BY <1>1, <1>2, <1>4, <1>5, <1>6, <3>1 DEF Coming, EntryInv, F!Entry
    <3>3. Kin(q)'
      BY <1>1, <1>5, <1>6, <2>3, <3>1 DEF Kin
    <3> QED BY <2>2, <3>2, <3>3
  <2>4. CASE q # r
    <3>1. coming'[q] = coming[q]
      BY <1>7, <2>4
    <3>2. Coming(q)'
      BY <1>1, <2>1, <3>1, LaterPast DEF Coming, EntryInv, F!Entry
    <3>3. Kin(q)'
      BY <1>1, <2>1, <3>1 DEF Kin
    <3> QED BY <2>2, <3>2, <3>3
  <2> QED BY <2>3, <2>4
<1>9. ASSUME NEW q \in Entries, q # r PROVE Apart(r, q)' /\ Apart(q, r)'
  <2>1. Apart(r, q) /\ Apart(q, r) /\ EntryInv(content[q]) /\ Coming(q) /\ Kin(q)
    BY <1>2, <1>9
  <2>2. coming'[r] = n /\ coming'[q] = coming[q] /\ n.made = made /\ content' = content /\ kind' = kind
    BY <1>1, <1>6, <1>7, <1>9
  <2>3. content[q].status # "absent" => content[q].made # made
    BY <1>2, <1>5, <2>1 DEF Apart, EntryInv, F!Entry
  <2>4. coming[q] # None => coming[q].made # made
    BY <1>2, <1>5, <2>1 DEF Apart, Coming, EntryInv, F!Entry
  <2>5. kind = "ad" => content[q].status = "absent" /\ coming[q] = None
    BY <1>1, <1>3, <1>9
  <2> QED BY <2>1, <2>2, <2>3, <2>4, <2>5 DEF Apart
<1>10. ASSUME NEW q \in Entries, NEW s \in Entries, q # s PROVE Apart(q, s)'
  <2>1. CASE q = r \/ s = r
    BY <1>9, <1>10, <2>1
  <2>2. CASE q # r /\ s # r
    <3>1. Apart(q, s)
      BY <1>10 DEF FoldsInv, EntriesInv
    <3>2. coming'[q] = coming[q] /\ coming'[s] = coming[s]
      BY <1>7, <2>2
    <3> QED BY <1>1, <3>1, <3>2 DEF Apart
  <2> QED BY <2>1, <2>2
<1>11. coming' = [q \in Entries |-> coming'[q]]
  BY <1>1 DEF FoldsInv, EntriesInv
<1>12. EntriesInv'
  BY <1>1, <1>8, <1>10, <1>11, LaterPast DEF FoldsInv, EntriesInv, F!NoEntry
<1>13. PagesInv'
  BY <1>1, PagesLater
<1> QED BY <1>1, <1>12, <1>13, SeenLater DEF FoldsInv

LEMMA CommitKeeps ==
  ASSUME FoldsInv, NEW r \in Entries, F!Commit(r)
  PROVE  FoldsInv'
<1>1. /\ coming[r] # None
      /\ content' = [content EXCEPT ![r] = coming[r]] /\ coming' = [coming EXCEPT ![r] = None]
      /\ UNCHANGED <<kind, choice, tab, post, seen, clock>>
  BY DEF F!Commit
<1>2. /\ \A q \in Entries : content'[q] = IF q = r THEN coming[r] ELSE content[q]
      /\ \A q \in Entries : coming'[q] = IF q = r THEN None ELSE coming[q]
      /\ content' = [q \in Entries |-> content'[q]] /\ coming' = [q \in Entries |-> coming'[q]]
  BY <1>1 DEF FoldsInv, EntriesInv
<1>3. /\ \A q \in Entries : EntryInv(content[q]) /\ Coming(q) /\ Kin(q)
      /\ \A q \in Entries : content[q].status = "absent" => content[q] = F!NoEntry
      /\ \A q, s \in Entries : q # s => Apart(q, s)
  BY DEF FoldsInv, EntriesInv
<1>4. EntryInv(coming[r]) /\ coming[r].status # "absent"
  BY <1>1, <1>3 DEF Coming
<1>5. ASSUME NEW q \in Entries
      PROVE  /\ EntryInv(content[q])' /\ Coming(q)' /\ Kin(q)'
             /\ content'[q].status = "absent" => content'[q] = F!NoEntry
  <2>1. CASE q = r
    <3>1. content'[q] = coming[r] /\ coming'[q] = None
      BY <1>2, <2>1
    <3> QED BY <1>1, <1>4, <3>1 DEF EntryInv, F!Entry, Coming, Kin
  <2>2. CASE q # r
    <3>1. content'[q] = content[q] /\ coming'[q] = coming[q]
      BY <1>2, <2>2
    <3>2. EntryInv(content[q]) /\ Coming(q) /\ Kin(q)
      BY <1>3
    <3> QED BY <1>1, <1>3, <3>1, <3>2 DEF EntryInv, F!Entry, Coming, Kin
  <2> QED BY <2>1, <2>2
<1>6. ASSUME NEW q \in Entries, NEW s \in Entries, q # s PROVE Apart(q, s)'
  <2>1. Apart(q, s)
    BY <1>3, <1>6
  <2>2. CASE q = r
    <3>1. content'[q] = coming[q] /\ coming'[q] = None /\ content'[s] = content[s] /\ coming'[s] = coming[s]
      BY <1>2, <1>6, <2>2
    <3> QED BY <1>1, <2>1, <2>2, <3>1 DEF Apart
  <2>3. CASE s = r
    <3>1. content'[s] = coming[s] /\ coming'[s] = None /\ content'[q] = content[q] /\ coming'[q] = coming[q]
      BY <1>2, <1>6, <2>3
    <3> QED BY <1>1, <2>1, <2>3, <3>1 DEF Apart
  <2>4. CASE q # r /\ s # r
    <3>1. content'[s] = content[s] /\ coming'[s] = coming[s] /\ content'[q] = content[q] /\ coming'[q] = coming[q]
      BY <1>2, <2>4
    <3> QED BY <1>1, <2>1, <3>1 DEF Apart
  <2> QED BY <2>2, <2>3, <2>4
<1>7. EntriesInv'
  BY <1>1, <1>2, <1>5, <1>6, LaterPast DEF EntriesInv, F!NoEntry
<1> QED BY <1>1, <1>7, PagesLater, SeenLater DEF FoldsInv

----------------------------------------------------------------------------
(* A panel on the user's pages.                                            *)

LEMMA RenderKeeps ==
  ASSUME FoldsInv, NEW p \in Tabs, F!Render(p)
  PROVE  FoldsInv'
<1> DEFINE drawn == F!Resolve(F!PanelOf(content), choice)
           shown == F!Shown(content)
           t == [drawn |-> drawn, shown |-> shown]
           told == [open |-> TRUE, default |-> drawn.default, byHand |-> FALSE, shown |-> shown]
<1>1. /\ tab' = [tab EXCEPT ![p] = t]
      /\ post' = [post EXCEPT ![p] = <<>>] \/ post' = [post EXCEPT ![p] = <<told>>]
      /\ UNCHANGED <<kind, content, coming, choice, seen, clock>>
  BY DEF F!Render
<1>2. drawn \in DrawnSet /\ shown \subseteq Entries \X Nat /\ Past(shown)
  BY DrawnIs
<1> HIDE DEF drawn, shown
<1>3. t \in TabSet /\ t.shown = shown
  BY <1>2 DEF TabSet
<1>4. told \in F!Toggled /\ told.shown = shown
  BY <1>2 DEF DrawnSet, F!Toggled
<1> HIDE DEF t, told
<1>5. /\ \A q \in Tabs : tab'[q] = IF q = p THEN t ELSE tab[q]
      /\ \A q \in Tabs : q # p => post'[q] = post[q]
      /\ post'[p] = <<>> \/ post'[p] = <<told>>
      /\ tab' = [q \in Tabs |-> tab'[q]] /\ post' = [q \in Tabs |-> post'[q]]
  BY <1>1 DEF FoldsInv, PagesInv
<1>6. ASSUME NEW q \in Tabs PROVE TabInv(q)' /\ PostInv(q)'
  <2>1. TabInv(q) /\ PostInv(q)
    BY DEF FoldsInv, PagesInv
  <2>2. TabInv(q)'
    BY <1>1, <1>2, <1>3, <1>5, <2>1 DEF TabInv, Past
  <2>3. CASE q # p
    BY <1>1, <1>5, <2>1, <2>2, <2>3 DEF PostInv, Past
  <2>4. CASE q = p
    <3>1. CASE post'[p] = <<>>
      <4>1. PostInv(q)'
        BY <2>4, <3>1 DEF PostInv
      <4> QED BY <2>2, <4>1
    <3>2. CASE post'[p] = <<told>>
      <4>1. post'[q] \in Seq(F!Toggled) /\ Len(post'[q]) = 1 /\ post'[q][1] = told
        BY <1>4, <2>4, <3>2
      <4>2. \A i \in 1..Len(post'[q]) : \A e \in post'[q][i].shown : e[2] < clock'
        BY <1>1, <1>2, <1>4, <4>1 DEF Past
      <4>3. PostInv(q)'
        BY <4>1, <4>2 DEF PostInv, Past
      <4> QED BY <2>2, <4>3
    <3> QED BY <1>5, <3>1, <3>2
  <2> QED BY <2>3, <2>4
<1>7. PagesInv'
  BY <1>5, <1>6 DEF PagesInv
<1> QED BY <1>1, <1>7, EntriesLater, SeenLater DEF FoldsInv

\* A panel whose `toggle` fired.
Flipped(t) == [t EXCEPT !.drawn.open = ~ t.drawn.open]

LEMMA FlippedIs ==
  ASSUME NEW t \in TabSet
  PROVE  Flipped(t) \in TabSet /\ Flipped(t).shown = t.shown
<1> DEFINE d == [t.drawn EXCEPT !.open = ~ t.drawn.open]
<1>1. t.drawn \in DrawnSet
  BY DEF TabSet
<1>2. d \in DrawnSet
  BY <1>1 DEF DrawnSet
<1>3. Flipped(t) = [t EXCEPT !.drawn = d]
  BY DEF Flipped
<1> HIDE DEF d
<1> QED BY <1>2, <1>3 DEF TabSet

LEMMA ToggleKeeps ==
  ASSUME FoldsInv, NEW p \in Tabs, F!Toggle(p)
  PROVE  FoldsInv'
<1> DEFINE told == [open |-> ~ tab[p].drawn.open, default |-> tab[p].drawn.default, byHand |-> TRUE,
                    shown |-> tab[p].shown]
           t == Flipped(tab[p])
<1>1. /\ tab[p] # None
      /\ tab' = [tab EXCEPT ![p] = t]
      /\ post' = [post EXCEPT ![p] = Append(post[p], told)]
      /\ UNCHANGED <<kind, content, coming, choice, seen, clock>>
  <2>1. tab' = [tab EXCEPT ![p] = t]
    BY DEF F!Toggle, Flipped, FoldsInv, PagesInv
  <2> QED BY <2>1 DEF F!Toggle
<1>2. tab[p] \in TabSet /\ Past(tab[p].shown) /\ PostInv(p)
  BY <1>1 DEF FoldsInv, PagesInv, TabInv
<1>3. told \in F!Toggled /\ told.shown = tab[p].shown
  BY <1>2 DEF TabSet, DrawnSet, F!Toggled
<1>4. t \in TabSet /\ t.shown = tab[p].shown
  BY <1>2, FlippedIs
<1> HIDE DEF t, told
<1>5. /\ \A q \in Tabs : tab'[q] = IF q = p THEN t ELSE tab[q]
      /\ \A q \in Tabs : post'[q] = IF q = p THEN Append(post[p], told) ELSE post[q]
      /\ tab' = [q \in Tabs |-> tab'[q]] /\ post' = [q \in Tabs |-> post'[q]]
  BY <1>1 DEF FoldsInv, PagesInv
<1>6. ASSUME NEW q \in Tabs PROVE TabInv(q)' /\ PostInv(q)'
  <2>1. TabInv(q) /\ PostInv(q)
    BY DEF FoldsInv, PagesInv
  <2>2. TabInv(q)'
    BY <1>1, <1>2, <1>4, <1>5, <2>1 DEF TabInv, Past
  <2>3. CASE q # p
    BY <1>1, <1>5, <2>1, <2>2, <2>3 DEF PostInv, Past
  <2>4. CASE q = p
    <3> DEFINE s == post[p]
    <3>1. s \in Seq(F!Toggled) /\ \A i \in 1..Len(s) : Past(s[i].shown)
      BY <1>2 DEF PostInv
    <3>2. post'[q] = Append(s, told)
      BY <1>5, <2>4
    <3> HIDE DEF s
    <3>3. /\ post'[q] \in Seq(F!Toggled) /\ Len(post'[q]) = Len(s) + 1
          /\ post'[q][Len(s) + 1] = told /\ \A i \in 1..Len(s) : post'[q][i] = s[i]
      BY <1>3, <3>1, <3>2
    <3>4. \A i \in 1..Len(post'[q]) : Past(post'[q][i].shown)
      <4> SUFFICES ASSUME NEW i \in 1..Len(post'[q]) PROVE Past(post'[q][i].shown)
        OBVIOUS
      <4>1. CASE i \in 1..Len(s)
        BY <3>1, <3>3, <4>1
      <4>2. CASE i = Len(s) + 1
        BY <1>2, <1>3, <3>3, <4>2
      <4> QED BY <3>1, <3>3, <4>1, <4>2
    <3>5. PostInv(q)'
      BY <1>1, <3>3, <3>4 DEF PostInv, Past
    <3> QED BY <2>2, <3>5
  <2> QED BY <2>3, <2>4
<1>7. PagesInv'
  BY <1>5, <1>6 DEF PagesInv
<1> QED BY <1>1, <1>7, EntriesLater, SeenLater DEF FoldsInv

\* The first post of a page is handled, or lost.
LEMMA PostGone ==
  ASSUME FoldsInv, NEW p \in Tabs, post[p] # <<>>, post' = [post EXCEPT ![p] = Tail(post[p])],
         UNCHANGED tab, clock' = clock \/ clock' = clock + 1
  PROVE  /\ PagesInv' /\ Head(post[p]) \in F!Toggled /\ Past(Head(post[p]).shown)
<1> DEFINE s == post[p]
<1>1. s \in Seq(F!Toggled) /\ (\A i \in 1..Len(s) : Past(s[i].shown)) /\ s # <<>>
  BY DEF FoldsInv, PagesInv, PostInv
<1>2. /\ \A q \in Tabs : post'[q] = IF q = p THEN Tail(s) ELSE post[q]
      /\ post' = [q \in Tabs |-> post'[q]] /\ tab' = [q \in Tabs |-> tab'[q]]
  BY DEF FoldsInv, PagesInv
<1>3. Head(post[p]) = Head(s)
  OBVIOUS
<1> HIDE DEF s
<1>4. Head(s) \in F!Toggled /\ Past(Head(s).shown)
  <2>1. Len(s) \in Nat /\ Len(s) >= 1 /\ Head(s) = s[1] /\ s[1] \in F!Toggled
    BY <1>1
  <2> QED BY <1>1, <2>1
<1>5. /\ Tail(s) \in Seq(F!Toggled)
      /\ \A i \in 1..Len(Tail(s)) : i + 1 \in 1..Len(s) /\ Tail(s)[i] = s[i + 1]
  BY <1>1
<1>6. \A q \in Tabs : /\ TabInv(q) /\ post'[q] \in Seq(F!Toggled)
                      /\ \A i \in 1..Len(post'[q]) : Past(post'[q][i].shown)
  <2> SUFFICES ASSUME NEW q \in Tabs
               PROVE  /\ TabInv(q) /\ post'[q] \in Seq(F!Toggled)
                      /\ \A i \in 1..Len(post'[q]) : Past(post'[q][i].shown)
    OBVIOUS
  <2>1. TabInv(q) /\ PostInv(q)
    BY DEF FoldsInv, PagesInv
  <2>2. CASE q = p
    <3>1. post'[q] = Tail(s)
      BY <1>2, <2>2
    <3>2. \A i \in 1..Len(Tail(s)) : Past(Tail(s)[i].shown)
      BY <1>1, <1>5
    <3> QED BY <1>5, <2>1, <3>1, <3>2
  <2>3. CASE q # p
    BY <1>2, <2>1, <2>3 DEF PostInv
  <2> QED BY <2>2, <2>3
<1>7. ASSUME NEW q \in Tabs PROVE TabInv(q)' /\ PostInv(q)'
  <2>1. TabInv(q)'
    BY <1>6, LaterPast DEF TabInv, Past, TabSet
  <2>2. ASSUME NEW i \in 1..Len(post'[q]) PROVE \A e \in post'[q][i].shown : e[2] < clock'
    <3>0. post'[q] \in Seq(F!Toggled) /\ Past(post'[q][i].shown)
      BY <1>6
    <3>1. post'[q][i] \in F!Toggled
      BY <3>0
    <3>2. post'[q][i].shown \subseteq Entries \X Nat
      BY <3>1 DEF F!Toggled
    <3> QED BY <3>0, <3>2, LaterPast
  <2>3. PostInv(q)'
    BY <1>6, <2>2 DEF PostInv, Past
  <2> QED BY <2>1, <2>3
<1>8. PagesInv'
  BY <1>2, <1>7 DEF PagesInv
<1> QED BY <1>3, <1>4, <1>8

LEMMA LosePostKeeps ==
  ASSUME FoldsInv, NEW p \in Tabs, F!LosePost(p)
  PROVE  FoldsInv'
<1>1. /\ post[p] # <<>> /\ post' = [post EXCEPT ![p] = Tail(post[p])]
      /\ UNCHANGED <<kind, content, coming, choice, tab, seen, clock>>
  BY DEF F!LosePost
<1> QED BY <1>1, PostGone, EntriesLater, SeenLater DEF FoldsInv

\* What is remembered from now on.
LEMMA RecordKeeps ==
  ASSUME FoldsInv, NEW p \in Tabs, F!RecordSectionToggle(p)
  PROVE  FoldsInv'
<1> DEFINE told == Head(post[p])
<1>1. /\ post[p] # <<>> /\ post' = [post EXCEPT ![p] = Tail(post[p])]
      /\ choice' = F!RecordToggle(choice, told.open, told.default)
      /\ seen' = seen \union told.shown /\ clock' = clock + 1
      /\ UNCHANGED <<kind, content, coming, tab>>
  BY DEF F!RecordSectionToggle
<1>2. PagesInv' /\ told \in F!Toggled /\ Past(told.shown)
  BY <1>1, PostGone
<1> HIDE DEF told
<1>3. clock \in Nat
  BY DEF FoldsInv, EntriesInv
<1>4. choice'.is_open = told.open /\ choice'.last_opened_at = clock
  BY <1>1 DEF F!RecordToggle
<1>5. choice'.is_open \in BOOLEAN /\ choice'.last_opened_at \in Nat
  BY <1>2, <1>3, <1>4 DEF F!Toggled
<1>6. told.shown \subseteq Entries \X Nat /\ seen \subseteq Entries \X Nat /\ Past(seen)
  BY <1>2 DEF F!Toggled, FoldsInv, SeenInv
<1>7. seen' \subseteq Entries \X Nat /\ \A e \in seen' : e[2] \in Nat /\ e[2] < clock
  BY <1>1, <1>2, <1>6 DEF Past
<1>8. SeenInv'
  BY <1>1, <1>3, <1>4, <1>7 DEF SeenInv, Past
<1>9. EntriesInv'
  BY <1>1, EntriesLater
<1> QED BY <1>1, <1>2, <1>5, <1>8, <1>9 DEF FoldsInv

LEMMA FoldsKeep ==
  ASSUME FoldsInv, F!SectionsNext
  PROVE  FoldsInv'
BY WriteKeeps, CommitKeeps, RenderKeeps, ToggleKeeps, RecordKeeps, LosePostKeeps
   DEF F!SectionsNext

LEMMA FoldsStart ==
  ASSUME F!SectionsInit
  PROVE  FoldsInv
<1>1. /\ kind \in F!Kinds /\ clock = 1 /\ seen = {} /\ choice = None
      /\ content = [r \in Entries |-> F!NoEntry] /\ coming = [r \in Entries |-> None]
      /\ tab = [p \in Tabs |-> None] /\ post = [p \in Tabs |-> <<>>]
  BY DEF F!SectionsInit
<1>2. /\ F!NoEntry \in F!Entry /\ F!NoEntry.made = 0 /\ F!NoEntry.changed = 0
      /\ F!NoEntry.status = "absent"
  BY DEF F!NoEntry, F!Entry
<1>3. \A r \in Entries : content[r] = F!NoEntry /\ coming[r] = None
  BY <1>1
<1>4. EntriesInv
  BY <1>1, <1>2, <1>3 DEF EntriesInv, EntryInv, Coming, Kin, Apart
<1>5. \A p \in Tabs : TabInv(p) /\ PostInv(p)
  BY <1>1 DEF TabInv, PostInv
<1>6. PagesInv
  BY <1>1, <1>5 DEF PagesInv
<1>7. SeenInv
  BY <1>1 DEF SeenInv, Past
<1> QED BY <1>1, <1>4, <1>6, <1>7 DEF FoldsInv

\* A badge counts no row that was looked at, and a run under way is on the screen.
LEMMA FoldsSay ==
  ASSUME FoldsInv
  PROVE  F!SeenIsNotNews /\ F!RunsAreOnScreen
<1> DEFINE P == F!PanelOf(content)
<1>1. F!SeenIsNotNews
  <2> SUFFICES ASSUME NEW r \in F!Resolve(P, choice).marker
               PROVE  <<r, P.times[r]>> \notin seen
    BY DEF F!SeenIsNotNews
  <2>1. \A e \in DOMAIN P.times : P.times[e] \in Nat
    BY DrawnIs
  <2> HIDE DEF P
  <2>2. r \in F!Marker(choice, P.times)
    BY DEF F!Resolve
  <2>3. choice # None /\ r \in DOMAIN P.times /\ P.times[r] > choice.last_opened_at
    BY <2>2 DEF F!Marker
  <2>4. \A e \in seen : e[2] <= choice.last_opened_at
    BY <2>3 DEF FoldsInv, SeenInv
  <2>5. choice.last_opened_at \in Nat /\ P.times[r] \in Nat
    BY <2>1, <2>3 DEF FoldsInv
  <2>6. <<r, P.times[r]>>[2] = P.times[r]
    OBVIOUS
  <2> QED BY <2>3, <2>4, <2>5, <2>6
<1>2. F!RunsAreOnScreen
  <2> SUFFICES ASSUME kind \in {"ad", "score", "questions", "generate", "cv", "document", "capabilities"},
                      NEW r \in F!Latest(content), content[r].status = "pending"
               PROVE  P.forced
    BY DEF F!RunsAreOnScreen, F!Resolve
  <2>1. r \in Entries /\ r \in F!There(content) /\ r \in F!Are(content, {"pending"})
    BY DEF F!Latest, F!There, F!Are
  <2>2. CASE kind \in {"ad", "score"}
    <3>1. \A q \in F!Latest(content) : q = r
      <4> SUFFICES ASSUME NEW q \in F!Latest(content), q # r PROVE FALSE
        OBVIOUS
      <4>1. q \in Entries /\ q \in F!There(content) /\ content[q].status # "absent"
        BY DEF F!Latest, F!There
      <4>2. content[q].made <= content[r].made /\ content[r].made <= content[q].made
        BY <2>1, <4>1 DEF F!Latest
      <4>3. EntryInv(content[q]) /\ EntryInv(content[r]) /\ Apart(q, r)
        BY <2>1, <4>1 DEF FoldsInv, EntriesInv
      <4>4. content[q].made # content[r].made
        BY <4>1, <4>3 DEF Apart
      <4> QED BY <4>2, <4>3, <4>4 DEF EntryInv, F!Entry
    <3>2. F!Latest(content) \intersect F!Are(content, {"done"}) = {}
      BY <3>1 DEF F!Are
    <3>3. F!AdSection(content).forced /\ F!ScoreSection(content).forced
      BY <3>2 DEF F!AdSection, F!ScoreSection, F!Panel
    <3>4. P = F!AdSection(content) \/ P = F!ScoreSection(content)
      BY <2>2 DEF F!PanelOf
    <3> QED BY <3>3, <3>4
  <2>3. CASE kind = "questions"
    <3>1. r \in F!Are(content, {"pending", "failed"})
      BY <2>1 DEF F!Are
    <3>2. F!QuestionsSection(content).forced
      BY <3>1 DEF F!QuestionsSection, F!Panel
    <3>3. P = F!QuestionsSection(content)
      BY <2>3 DEF F!PanelOf
    <3> QED BY <3>2, <3>3
  <2>4. CASE kind \in {"generate", "cv", "document"}
    <3>1. F!GenerateSection(content).forced
      BY <2>1 DEF F!GenerateSection, F!Panel
    <3>2. P = F!GenerateSection(content)
      BY <2>4 DEF F!PanelOf, F!CvSection, F!CvDocumentSection
    <3> QED BY <3>1, <3>2
  <2>5. CASE kind = "capabilities"
    <3>1. F!CapabilitiesSection(content).forced
      BY <2>1 DEF F!CapabilitiesSection, F!Panel
    <3>2. P = F!CapabilitiesSection(content)
      BY <2>5 DEF F!PanelOf
    <3> QED BY <3>1, <3>2
  <2> QED BY <2>2, <2>3, <2>4, <2>5
<1> QED BY <1>1, <1>2

----------------------------------------------------------------------------
(* The order of rows.                                                      *)

\* One key goes before another; and one place, in a list of keys.
Precedes(v, w, dir) == v # None /\ (w = None \/ (dir = "asc" /\ v < w) \/ (dir = "desc" /\ v > w))
Goes(keys, dir, i, k) ==
  Precedes(keys[i], keys[k], dir) \/ (~ Precedes(keys[k], keys[i], dir) /\ i < k)

\* What goes before is a strict order, of any two places.
LEMMA GoesIsAnOrder ==
  ASSUME NEW n \in Nat, NEW keys \in [1..n -> Nat \union {None}], NEW dir \in {"asc", "desc"}
  PROVE  /\ \A i \in 1..n : ~ Goes(keys, dir, i, i)
         /\ \A i, k \in 1..n : i = k \/ Goes(keys, dir, i, k) \/ Goes(keys, dir, k, i)
         /\ \A h, i, k \in 1..n : Goes(keys, dir, h, i) /\ Goes(keys, dir, i, k) => Goes(keys, dir, h, k)
<1>0. None \notin Nat
  BY NoneAssumption
<1>1. \A v, w \in Nat \union {None} :
         /\ ~ Precedes(v, v, dir)
         /\ ~ (Precedes(v, w, dir) /\ Precedes(w, v, dir))
  BY <1>0 DEF Precedes
<1>2. \A v, w, t \in Nat \union {None} :
         /\ Precedes(v, w, dir) /\ Precedes(w, t, dir) => Precedes(v, t, dir)
         /\ Precedes(v, w, dir) /\ ~ Precedes(t, w, dir) => Precedes(v, t, dir)
         /\ ~ Precedes(w, v, dir) /\ Precedes(w, t, dir) => Precedes(v, t, dir)
         /\ ~ Precedes(w, v, dir) /\ ~ Precedes(t, w, dir) => ~ Precedes(t, v, dir)
  BY <1>0 DEF Precedes
<1>3. \A i \in 1..n : keys[i] \in Nat \union {None} /\ i \in Nat
  OBVIOUS
<1>4. \A i \in 1..n : ~ Goes(keys, dir, i, i)
  <2> SUFFICES ASSUME NEW i \in 1..n PROVE ~ Goes(keys, dir, i, i)
    OBVIOUS
  <2>1. ~ Precedes(keys[i], keys[i], dir)
    BY <1>1, <1>3
  <2>2. ~ (i < i)
    BY <1>3
  <2> QED BY <2>1, <2>2 DEF Goes
<1>5. \A i, k \in 1..n : i = k \/ Goes(keys, dir, i, k) \/ Goes(keys, dir, k, i)
  <2> SUFFICES ASSUME NEW i \in 1..n, NEW k \in 1..n, i < k
               PROVE  Goes(keys, dir, i, k) \/ Goes(keys, dir, k, i)
    BY <1>3
  <2> QED BY DEF Goes
<1>6. ASSUME NEW h \in 1..n, NEW i \in 1..n, NEW k \in 1..n,
             Goes(keys, dir, h, i), Goes(keys, dir, i, k)
      PROVE  Goes(keys, dir, h, k)
  <2>1. h < i /\ i < k => h < k
    BY <1>3
  <2> QED BY <1>1, <1>2, <1>3, <1>6, <2>1 DEF Goes
<1> QED BY <1>4, <1>5, <1>6

LEMMA CountingKeys == \A A : S!Cardinality(A) = Cardinality(A)
BY DEF S!Cardinality, Cardinality, S!ExistsBijection, ExistsBijection, S!Bijection, Bijection,
   S!Injection, Injection, S!Surjection, Surjection, S!IsInjective, IsInjective

\* Places in the order of their keys.
InOrder(at, n, keys, dir) ==
  /\ at \in [1..n -> 1..n]
  /\ \A k \in 1..n : \E m \in 1..n : at[m] = k
  /\ \A i, k \in 1..n : i < k => Goes(keys, dir, at[i], at[k])

\* Every place is taken once, by what goes after those before it.
LEMMA SortedIs ==
  ASSUME NEW n \in Nat, NEW keys \in [1..n -> Nat \union {None}], NEW dir \in {"asc", "desc"}
  PROVE  InOrder(S!Sorted(keys, dir), n, keys, dir)
<1> DEFINE first(k) == {i \in 1..n : Goes(keys, dir, i, k)}
           place == [k \in 1..n |-> Cardinality(first(k)) + 1]
           at == S!Sorted(keys, dir)
<1>1. IsFiniteSet(1..n) /\ Cardinality(1..n) = n
  BY FS_Interval
<1>2. ASSUME NEW k \in 1..n
      PROVE  IsFiniteSet(first(k)) /\ Cardinality(first(k)) \in 0..(n - 1) /\ k \notin first(k)
  <2>1. first(k) \in SUBSET (1..n) /\ k \notin first(k)
    BY GoesIsAnOrder
  <2>2. IsFiniteSet(first(k)) /\ Cardinality(first(k)) <= n /\ Cardinality(first(k)) \in Nat
    BY <1>1, <2>1, FS_Subset, FS_CardinalityType
  <2>3. Cardinality(first(k)) # n
    BY <1>1, <2>1, FS_Subset
  <2> QED BY <2>1, <2>2, <2>3
<1>3. ASSUME NEW i \in 1..n, NEW k \in 1..n, Goes(keys, dir, i, k)
      PROVE  Cardinality(first(i)) < Cardinality(first(k))
  <2>1. first(i) \in SUBSET first(k) /\ i \in first(k)
    BY <1>3, GoesIsAnOrder
  <2>2. first(i) # first(k)
    BY <1>2, <2>1
  <2>3. Cardinality(first(i)) <= Cardinality(first(k)) /\ Cardinality(first(i)) # Cardinality(first(k))
    BY <1>2, <2>1, <2>2, FS_Subset
  <2> HIDE DEF first
  <2> QED BY <1>2, <2>3
<1> HIDE DEF first
<1>4. place \in [1..n -> 1..n]
  BY <1>2
<1>5. \A i, k \in 1..n : Goes(keys, dir, i, k) => place[i] < place[k]
  BY <1>2, <1>3
<1> HIDE DEF place
<1>6. \A i, k \in 1..n : place[i] = place[k] => i = k
  <2> SUFFICES ASSUME NEW i \in 1..n, NEW k \in 1..n, i # k PROVE place[i] # place[k]
    OBVIOUS
  <2>1. Goes(keys, dir, i, k) \/ Goes(keys, dir, k, i)
    BY GoesIsAnOrder
  <2>2. place[i] \in Nat /\ place[k] \in Nat
    BY <1>4
  <2> QED BY <1>5, <2>1, <2>2
<1>7. place \in Surjection(1..n, 1..n)
  <2>1. place \in Injection(1..n, 1..n)
    BY <1>4, <1>6 DEF Injection, IsInjective
  <2> QED BY <1>1, <2>1, FS_Injection
<1>8. \A m \in 1..n : \E k \in 1..n : place[k] = m
  BY <1>7 DEF Surjection
<1>9. at = [m \in 1..n |-> CHOOSE k \in 1..n : place[k] = m]
  <2>1. DOMAIN keys = 1..n
    OBVIOUS
  <2>2. \A k \in 1..n : place[k] = S!Cardinality({i \in 1..n : Goes(keys, dir, i, k)}) + 1
    BY CountingKeys DEF place, first
  <2>3. at = [m \in 1..n |-> CHOOSE k \in 1..n : S!Cardinality({i \in 1..n : Goes(keys, dir, i, k)}) + 1 = m]
    BY <2>1 DEF S!Sorted, Goes, Precedes
  <2> QED BY <2>2, <2>3
<1> HIDE DEF at
<1>10. \A m \in 1..n : at[m] \in 1..n /\ place[at[m]] = m
  BY <1>8, <1>9
<1>11. at \in [1..n -> 1..n]
  BY <1>9, <1>10
<1>12. \A k \in 1..n : \E m \in 1..n : at[m] = k
  <2> SUFFICES ASSUME NEW k \in 1..n PROVE at[place[k]] = k
    BY <1>4
  <2>1. place[k] \in 1..n
    BY <1>4
  <2> QED BY <1>6, <1>10, <2>1
<1>13. ASSUME NEW i \in 1..n, NEW k \in 1..n, i < k
       PROVE  Goes(keys, dir, at[i], at[k])
  <2>1. at[i] \in 1..n /\ at[k] \in 1..n /\ place[at[i]] = i /\ place[at[k]] = k
    BY <1>10
  <2>2. at[i] # at[k]
    BY <1>13, <2>1
  <2>3. ~ Goes(keys, dir, at[k], at[i])
    <3>1. k \in Nat /\ i \in Nat /\ ~ (k < i)
      BY <1>13
    <3> QED BY <1>5, <2>1, <3>1
  <2> QED BY <2>1, <2>2, <2>3, GoesIsAnOrder
<1>14. InOrder(at, n, keys, dir)
  BY <1>11, <1>12, <1>13 DEF InOrder
<1> QED BY <1>14 DEF at

\* A row, of which a column may have nothing.
Sortable == [id : Nat, could_get : Nat \union {None}, want_it : Nat \union {None}, tie : Nat]
Tied(newest) == IF newest THEN "desc" ELSE "asc"

\* However many rows there are, one column orders them.
LEMMA OneColumnOrders ==
  ASSUME NEW rows \in Seq(Sortable), NEW newest \in BOOLEAN,
         NEW sort \in [key : {"could_get", "want_it"}, dir : {"asc", "desc"}]
  PROVE  S!SortedByOneColumn(rows, sort, newest)
<1> DEFINE n == Len(rows)
           other == IF sort.key = "want_it" THEN "could_get" ELSE "want_it"
           bare == [i \in DOMAIN rows |-> [rows[i] EXCEPT ![other] = None]]
           ties == [i \in 1..n |-> rows[i].tie]
           column == [i \in 1..n |-> rows[i][sort.key]]
           p == S!Sorted(ties, Tied(newest))
           by == [i \in 1..n |-> column[p[i]]]
           q == S!Sorted(by, sort.dir)
           out == S!SortRows(rows, sort, newest)
           blanked == S!SortRows(bare, sort, newest)
<1>1. /\ n \in Nat /\ DOMAIN rows = 1..n
      /\ \A i \in 1..n : rows[i] \in Sortable
      /\ sort.dir \in {"asc", "desc"} /\ sort.key \in {"could_get", "want_it"}
  OBVIOUS
<1>2. Tied(newest) \in {"asc", "desc"} /\ ties \in [1..n -> Nat] /\ ties \in [1..n -> Nat \union {None}]
  BY <1>1 DEF Tied, Sortable
<1>3. column \in [1..n -> Nat \union {None}]
  BY <1>1 DEF Sortable
<1>4. /\ \A i \in 1..n : rows[i].tie = ties[i] /\ rows[i][sort.key] = column[i]
      /\ DOMAIN bare = 1..n
      /\ \A i \in 1..n : bare[i].id = rows[i].id /\ bare[i].tie = ties[i] /\ bare[i][sort.key] = column[i]
  <2>1. \A row \in Sortable :
          LET blank == [row EXCEPT ![other] = None]
          IN blank.id = row.id /\ blank.tie = row.tie /\ blank[sort.key] = row[sort.key]
    BY <1>1 DEF Sortable
  <2> QED BY <1>1, <2>1
<1> HIDE DEF bare, ties, column, n
<1>5. InOrder(p, n, ties, Tied(newest))
  BY <1>1, <1>2, SortedIs
<1> HIDE DEF p
<1>5a. /\ p \in [1..n -> 1..n]
       /\ \A k \in 1..n : \E m \in 1..n : p[m] = k
       /\ \A i, k \in 1..n : i < k => Goes(ties, Tied(newest), p[i], p[k])
  BY <1>5 DEF InOrder
<1>6. by \in [1..n -> Nat \union {None}]
  BY <1>3, <1>5a
<1> HIDE DEF by
<1>7. InOrder(q, n, by, sort.dir)
  BY <1>1, <1>6, SortedIs
<1> HIDE DEF q
<1>7a. /\ q \in [1..n -> 1..n]
       /\ \A k \in 1..n : \E m \in 1..n : q[m] = k
       /\ \A i, k \in 1..n : i < k => Goes(by, sort.dir, q[i], q[k])
  BY <1>7 DEF InOrder
\* Only the ties and the column decide.
<1>8. ASSUME NEW r, DOMAIN r = 1..n,
             \A i \in 1..n : r[i].tie = ties[i] /\ r[i][sort.key] = column[i]
      PROVE  S!SortRows(r, sort, newest) = [m \in 1..n |-> r[p[q[m]]]]
  <2> DEFINE base == S!Base(r, newest)
  <2>1. [i \in DOMAIN r |-> r[i].tie] = ties
    BY <1>2, <1>8
  <2>2. base = S!Stable(r, ties, Tied(newest))
    BY <2>1 DEF S!Base, Tied
  <2>3. base = [m \in 1..n |-> r[p[m]]]
    BY <1>8, <2>2 DEF S!Stable, p
  <2> HIDE DEF base
  <2>4. [i \in DOMAIN base |-> base[i][sort.key]] = by
    <3>1. \A i \in 1..n : base[i][sort.key] = column[p[i]]
      BY <1>5a, <1>8, <2>3
    <3> QED BY <2>3, <3>1 DEF by
  <2>5. S!SortRows(r, sort, newest) = S!Stable(base, by, sort.dir)
    BY <2>4 DEF S!SortRows, base
  <2>6. S!Stable(base, by, sort.dir) = [m \in 1..n |-> base[q[m]]]
    BY <2>3 DEF S!Stable, q
  <2> QED BY <1>7a, <2>3, <2>5, <2>6
<1>9. out = [m \in 1..n |-> rows[p[q[m]]]] /\ blanked = [m \in 1..n |-> bare[p[q[m]]]]
  BY <1>1, <1>4, <1>8
<1> HIDE DEF out, blanked
<1>10. \A i \in 1..n : q[i] \in 1..n /\ p[q[i]] \in 1..n /\ by[q[i]] = column[p[q[i]]]
  BY <1>5a, <1>7a DEF by
<1>11. DOMAIN out = 1..n /\ \A i \in 1..n : out[i] = rows[p[q[i]]] /\ blanked[i].id = out[i].id
  BY <1>4, <1>9, <1>10
<1>12. Len(out) = Len(rows)
  <2>1. out \in Seq(Sortable) /\ DOMAIN out = DOMAIN rows
    BY <1>1, <1>9, <1>10
  <2> QED BY <2>1 DEF n
<1>13. S!ToSet(out) = S!ToSet(rows)
  <2>1. \A k \in 1..n : \E i \in 1..n : out[i] = rows[k]
    <3> SUFFICES ASSUME NEW k \in 1..n PROVE \E i \in 1..n : out[i] = rows[k]
      OBVIOUS
    <3>1. PICK m \in 1..n : p[m] = k
      BY <1>5a
    <3>2. PICK i \in 1..n : q[i] = m
      BY <1>7a
    <3> QED BY <1>11, <3>1, <3>2
  <2>2. \A i \in 1..n : \E k \in 1..n : out[i] = rows[k]
    BY <1>10, <1>11
  <2>3. S!ToSet(out) = {out[i] : i \in 1..n} /\ S!ToSet(rows) = {rows[i] : i \in 1..n}
    BY <1>1, <1>11 DEF S!ToSet
  <2>4. {out[i] : i \in 1..n} \subseteq {rows[i] : i \in 1..n}
    BY <2>2
  <2>5. {rows[i] : i \in 1..n} \subseteq {out[i] : i \in 1..n}
    BY <2>1
  <2> QED BY <2>3, <2>4, <2>5
<1>14. ASSUME NEW i \in DOMAIN out, NEW k \in DOMAIN out, i < k
       PROVE  LET v == out[i][sort.key]
                  w == out[k][sort.key]
              IN /\ v = None => w = None
                 /\ w # None => IF sort.dir = "asc" THEN v <= w ELSE v >= w
                 /\ v = w => IF Tied(newest) = "asc" THEN out[i].tie <= out[k].tie
                                                     ELSE out[i].tie >= out[k].tie
  <2> DEFINE v == by[q[i]]
             w == by[q[k]]
             s == ties[p[q[i]]]
             t == ties[p[q[k]]]
  <2>1. i \in 1..n /\ k \in 1..n
    BY <1>11
  <2>2. v = out[i][sort.key] /\ w = out[k][sort.key] /\ s = out[i].tie /\ t = out[k].tie
    BY <1>4, <1>10, <1>11, <2>1
  <2>3. v \in Nat \union {None} /\ w \in Nat \union {None} /\ s \in Nat /\ t \in Nat
    BY <1>2, <1>6, <1>10, <2>1
  <2>4. None \notin Nat
    BY NoneAssumption
  <2>5. Goes(by, sort.dir, q[i], q[k])
    BY <1>7a, <1>14, <2>1
  <2>6. Precedes(v, w, sort.dir) \/ (~ Precedes(w, v, sort.dir) /\ q[i] < q[k])
    BY <2>5 DEF Goes
  <2>7. q[i] < q[k] => Precedes(s, t, Tied(newest)) \/ ~ Precedes(t, s, Tied(newest))
    BY <1>5a, <1>10, <2>1 DEF Goes
  <2> HIDE DEF v, w, s, t
  <2>8. v = None => w = None
    BY <2>3, <2>4, <2>6 DEF Precedes
  <2>9. w # None => IF sort.dir = "asc" THEN v <= w ELSE v >= w
    BY <1>1, <2>3, <2>4, <2>6 DEF Precedes
  <2>10. v = w => q[i] < q[k]
    BY <2>3, <2>4, <2>6 DEF Precedes
  <2>11. v = w => IF Tied(newest) = "asc" THEN s <= t ELSE s >= t
    <3>1. s # None /\ t # None
      BY <2>3, <2>4
    <3> QED BY <1>2, <2>3, <2>7, <2>10, <3>1 DEF Precedes
  <2> QED BY <2>2, <2>8, <2>9, <2>11
<1>15. ASSUME NEW i \in DOMAIN out, NEW k \in DOMAIN out, i < k
       PROVE  LET tied == IF newest THEN "desc" ELSE "asc"
              IN out[i][sort.key] = out[k][sort.key] =>
                   IF tied = "asc" THEN out[i].tie <= out[k].tie ELSE out[i].tie >= out[k].tie
  BY <1>14, <1>15 DEF Tied
<1> QED BY <1>11, <1>12, <1>13, <1>14, <1>15 DEF S!SortedByOneColumn, out, blanked, bare, other

----------------------------------------------------------------------------
(* What the screen hides is counted.                                       *)

ScreenInv ==
  /\ FoldsInv /\ TablesInv
  /\ mode \in {"rows", "scores", "filter", "order", "folds", "tables"}
  /\ mode = "filter" => asked \in Asked
  /\ mode = "order" => asked \in Order

LEMMA ScreenStarts == ASSUME MCInit PROVE ScreenInv
<1>1. FoldsInv
  BY FoldsStart DEF MCInit, FoldIdle
<1>2. TablesInv
  BY TablesStart DEF MCInit, SortIdle
<1> QED BY <1>1, <1>2 DEF MCInit, ScreenInv

LEMMA FoldsStill ==
  ASSUME FoldsInv, UNCHANGED foldVars
  PROVE  FoldsInv'
<1>1. UNCHANGED <<kind, content, coming, choice, tab, post, seen, clock>>
  BY DEF foldVars
<1> QED BY <1>1, EntriesLater, PagesLater, SeenLater DEF FoldsInv

LEMMA TablesStill ==
  ASSUME TablesInv, UNCHANGED sortVars
  PROVE  TablesInv'
<1>1. UNCHANGED <<table, saved, window>>
  BY DEF sortVars
<1>2. Orders' = Orders /\ S!Keys' = S!Keys
  BY <1>1 DEF Orders, S!Keys, S!Columns, S!Specs
<1>3. \A w \in Windows : TabShows(window[w])'
  BY <1>1, <1>2 DEF TablesInv, TabShows
<1>4. S!SavedIsAnOrder' /\ (table \in DOMAIN S!Specs)'
  BY <1>1, <1>2 DEF TablesInv, S!SavedIsAnOrder, S!Specs
<1> QED BY <1>1, <1>3, <1>4 DEF TablesInv

LEMMA ScreenKeeps ==
  ASSUME ScreenInv, [MCNext]_MCVars
  PROVE  ScreenInv'
<1>1. UNCHANGED <<mode, asked>>
  BY DEF MCNext, MCVars
<1>2. F!SectionsNext \/ UNCHANGED foldVars
  BY DEF MCNext, MCVars
<1>3. S!TablesNext \/ UNCHANGED sortVars
  BY DEF MCNext, MCVars
<1>4. FoldsInv' /\ TablesInv'
  BY <1>2, <1>3, FoldsKeep, FoldsStill, TablesKeep, TablesStill DEF ScreenInv
<1> QED BY <1>1, <1>4 DEF ScreenInv, Asked, Sets, Order, Row

LEMMA ScreenSays ==
  ASSUME ScreenInv
  PROVE  ScreenIsHonest
<1>1. ASSUME mode = "filter"
      PROVE  Honest(asked.f, asked.job, asked.unstated, asked.heavy, asked.exceptions)
  <2>1. asked \in Asked
    BY <1>1 DEF ScreenInv
  <2>2. asked.f \in Saved /\ asked.job \in Job /\ asked.unstated \in BOOLEAN /\ asked.heavy \in BOOLEAN
    BY <2>1 DEF Asked
  <2> QED BY <2>2, FilterHonest
<1>2. S!ClickDoesWhatItSays /\ S!SavedIsAnOrder
  BY TablesSay DEF ScreenInv
<1>3. F!SeenIsNotNews /\ F!RunsAreOnScreen
  BY FoldsSay DEF ScreenInv
<1>4. ASSUME mode = "order"
      PROVE  S!SortedByOneColumn(asked.rows, asked.sort, asked.newest)
  <2>1. asked \in Order
    BY <1>4 DEF ScreenInv
  <2>2. /\ asked.sort \in [key : {"could_get", "want_it"}, dir : {"asc", "desc"}]
        /\ asked.newest \in BOOLEAN
        /\ \E a \in Row(1), b \in Row(2), c \in Row(3) : asked.rows = <<a, b, c>>
    BY <2>1 DEF Order
  <2>3. \A n \in 1..3 : Row(n) \subseteq Sortable
    BY DEF Row, Sortable
  <2>4. asked.rows \in Seq(Sortable)
    BY <2>2, <2>3
  <2> QED BY <2>2, <2>4, OneColumnOrders
<1> QED BY <1>1, <1>2, <1>3, <1>4 DEF ScreenIsHonest

\* What is hidden is counted and "show them" shows it, a table is in the order of one
\* column, a header shows the order it said it would, and a folded panel hides no run
\* under way and counts as new nothing looked at.
THEOREM ScreenHonest == MCSpec => []ScreenIsHonest
<1>1. MCInit => ScreenInv
  BY ScreenStarts
<1>2. ScreenInv /\ [MCNext]_MCVars => ScreenInv'
  BY ScreenKeeps
<1>3. ScreenInv => ScreenIsHonest
  BY ScreenSays
<1> QED BY <1>1, <1>2, <1>3, PTL DEF MCSpec
=============================================================================
