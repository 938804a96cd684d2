---------------------------- MODULE WorkerProofs ----------------------------
(***************************************************************************)
(* What Worker guarantees for any number of tasks, users, workers and      *)
(* threads, any attempt limit and any delays.  First what rests on Prompt: *)
(* no task is in two hands, and the workers implement TaskLifecycle.  Then *)
(* what the workers cannot lose and cannot exceed: no row is left running  *)
(* unaccounted for, no free thread is forgotten or promised twice, and     *)
(* racing workers overshoot the per-user cap and the maintenance backlog   *)
(* by no more than their number.                                           *)
(***************************************************************************)
EXTENDS MCWorker, FiniteSetTheorems, TLAPS

----------------------------------------------------------------------------
(* What each statement makes of a row.                                     *)

\* The ranges of Row's fields hold the values the statements write.
LEMMA RowRanges ==
  /\ 0 \in (-Horizon)..MaxDelay
  /\ 0..MaxDelay \subseteq (-Horizon)..MaxDelay
  /\ 0 \in 0..VisibilityTimeout
  /\ ParkDelay \in 0..MaxDelay
  /\ MaxAttempts \in Nat
BY QueueAssumption

\* A claim of a pending row with an attempt left spends one attempt.
LEMMA ClaimedRow ==
  ASSUME NEW r \in Row, r.attempts < MaxAttempts
  PROVE  /\ Claimed(r) \in Row
         /\ Claimed(r).status = "running"
         /\ Claimed(r).attempts = r.attempts + 1
         /\ Claimed(r).age = 0
<1>1. r.attempts + 1 \in 0..MaxAttempts
  BY RowRanges DEF Row
<1> QED BY <1>1, RowRanges DEF Row, Claimed, Unfinished

\* Success and giving up end a row and leave its attempts alone.
LEMMA EndedRow ==
  ASSUME NEW r \in Row
  PROVE  /\ Succeeded(r) \in Row /\ Succeeded(r).status = "succeeded"
         /\ Succeeded(r).attempts = r.attempts
         /\ GivenUp(r) \in Row /\ GivenUp(r).status = "failed"
         /\ GivenUp(r).attempts = r.attempts
<1>1. /\ Succeeded(r) \in Row /\ Succeeded(r).status = "succeeded"
      /\ Succeeded(r).attempts = r.attempts
  BY RowRanges DEF Row, Succeeded, Terminal
<1>2. /\ GivenUp(r) \in Row /\ GivenUp(r).status = "failed"
      /\ GivenUp(r).attempts = r.attempts
  BY RowRanges DEF Row, GivenUp, Terminal, Notes
<1> QED BY <1>1, <1>2

\* A requeued row is pending, with the attempts it had.
LEMMA RequeuedRow ==
  ASSUME NEW r \in Row, NEW delay \in 0..MaxDelay, NEW note \in Notes
  PROVE  /\ Requeued(r, delay, note) \in Row
         /\ Requeued(r, delay, note).status = "pending"
         /\ Requeued(r, delay, note).attempts = r.attempts
<1>1. delay \in (-Horizon)..MaxDelay
  BY RowRanges
<1> QED BY <1>1, RowRanges DEF Row, Requeued, Unfinished

\* A released row is pending, with one attempt back.
LEMMA RefundedRow ==
  ASSUME NEW r \in Row, NEW delay \in 0..MaxDelay, NEW note \in Notes,
         r.attempts >= 1
  PROVE  /\ Refunded(r, delay, note) \in Row
         /\ Refunded(r, delay, note).status = "pending"
         /\ Refunded(r, delay, note).attempts = r.attempts - 1
<1> DEFINE q == Requeued(r, delay, note)
<1>1. q \in Row /\ q.status = "pending" /\ q.attempts = r.attempts
  BY RequeuedRow
<1>2. q.attempts - 1 \in 0..MaxAttempts
  BY <1>1, RowRanges DEF Row
<1>3. Refunded(r, delay, note) = [q EXCEPT !.attempts = @ - 1]
  BY DEF Refunded
<1> HIDE DEF q
<1> QED BY <1>1, <1>2, <1>3 DEF Row

\* A tick moves nothing but the clocks, and those within their bounds.
LEMMA OlderRow ==
  ASSUME NEW r \in Row
  PROVE  /\ Older(r) \in Row
         /\ Older(r).status = r.status
         /\ Older(r).attempts = r.attempts
         /\ r.age + 1 < VisibilityTimeout => Older(r).age < VisibilityTimeout
         /\ r.status \notin Unfinished => Older(r) = r
<1>1. CASE r.status = "pending" /\ r.wait > -Horizon
  BY <1>1, QueueAssumption DEF Row, Older, Unfinished, Terminal
<1>2. CASE /\ ~ (r.status = "pending" /\ r.wait > -Horizon)
           /\ r.status = "running" /\ r.age < VisibilityTimeout
  BY <1>2, QueueAssumption DEF Row, Older, Unfinished, Terminal
<1>3. CASE /\ ~ (r.status = "pending" /\ r.wait > -Horizon)
           /\ ~ (r.status = "running" /\ r.age < VisibilityTimeout)
  <2>1. Older(r) = r
    BY <1>3 DEF Older
  <2> QED BY <2>1, QueueAssumption DEF Row
<1> QED BY <1>1, <1>2, <1>3

\* The retry delay never exceeds the cap.
LEMMA RetryDelayType == \A n : RetryDelay(n) \in 0..MaxDelay
BY QueueAssumption, WorkerAssumption DEF RetryDelay

----------------------------------------------------------------------------
(* What each statement makes of the table.                                 *)

\* A waiting row has an attempt left, a running one has spent at least one.
Sound(r) ==
  /\ r.status = "pending" => r.attempts < MaxAttempts
  /\ r.status = "running" => r.attempts >= 1

RowInv == RowTypeOK /\ \A t \in Tasks : Sound(row[t])

\* A row that exists has every column.
LEMMA PresentRow ==
  ASSUME RowTypeOK, NEW t \in Tasks, Exists(t)
  PROVE  row[t] \in Row
BY DEF RowTypeOK, Exists, Absent

\* A new row is pending and unspent; the rows already there are untouched.
LEMMA EnqueueRows ==
  ASSUME RowInv, NEW u \in Users, NEW k \in Kinds, NEW delay \in 0..MaxDelay,
         Enqueue(u, k, delay)
  PROVE  /\ RowInv'
         /\ \A t \in Tasks : Exists(t) => row'[t] = row[t]
         /\ \A t \in Tasks : row'[t] # row[t] =>
              row'[t].status = "pending" /\ row'[t].attempts = 0
<1>1. PICK t \in Tasks :
        /\ ~ Exists(t)
        /\ row' = [row EXCEPT ![t] =
             [status |-> "pending", user |-> u, kind |-> k, attempts |-> 0,
              wait |-> delay, age |-> 0, note |-> "other"]]
  BY DEF Enqueue
<1> DEFINE new == [status |-> "pending", user |-> u, kind |-> k, attempts |-> 0,
                   wait |-> delay, age |-> 0, note |-> "other"]
<1>2. new \in Row
  <2>1. 0 \in 0..MaxAttempts /\ delay \in (-Horizon)..MaxDelay
    BY RowRanges
  <2> QED BY <2>1, RowRanges DEF Row, Unfinished, Notes
<1>3. Sound(new)
  BY QueueAssumption DEF Sound
<1>4. new.status = "pending" /\ new.attempts = 0
  OBVIOUS
<1>5. row' = [row EXCEPT ![t] = new]
  BY <1>1
<1> HIDE DEF new
<1> QED BY <1>1, <1>2, <1>3, <1>4, <1>5 DEF RowInv, RowTypeOK

\* A claim moves exactly the rows it chose, which were waiting.
LEMMA ClaimRows ==
  ASSUME RowInv, NEW S \in SUBSET Tasks, \A t \in S : Pending(t), Claim(S)
  PROVE  /\ RowInv'
         /\ \A t \in Tasks \ S : row'[t] = row[t]
         /\ \A t \in S : /\ row'[t].status = "running"
                         /\ row'[t].attempts = row[t].attempts + 1
                         /\ row'[t].age = 0
                         /\ row[t].attempts \in 0..MaxAttempts
                         /\ row[t].attempts < MaxAttempts
<1>1. \A t \in S : row[t] \in Row /\ row[t].attempts < MaxAttempts
  BY PresentRow DEF RowInv, Pending, Exists, Sound
<1>2. \A t \in S : row'[t] = Claimed(row[t])
  BY DEF Claim
<1>3. \A t \in Tasks \ S : row'[t] = row[t]
  BY DEF Claim
<1>4. \A t \in S : /\ row'[t] \in Row
                   /\ row'[t].status = "running"
                   /\ row'[t].attempts = row[t].attempts + 1
                   /\ row'[t].age = 0
  BY <1>1, <1>2, ClaimedRow
<1>5. \A t \in S : row[t].attempts \in 0..MaxAttempts
  BY <1>1 DEF Row
<1>6. \A t \in Tasks : row'[t] \in Row \union {Absent}
  BY <1>3, <1>4 DEF RowInv, RowTypeOK
<1>7. \A t \in Tasks : Sound(row'[t])
  BY <1>3, <1>4, <1>5, RowRanges DEF RowInv, Sound
<1>8. RowTypeOK'
  BY <1>6 DEF Claim, RowTypeOK
<1> QED BY <1>1, <1>3, <1>4, <1>5, <1>7, <1>8 DEF RowInv

\* Releasing a delivered row puts it back and touches no other.
LEMMA ReleaseRows ==
  ASSUME RowInv, NEW t \in Tasks, Running(t), NEW delay \in 0..MaxDelay,
         NEW note \in Notes, Release(t, delay, note)
  PROVE  /\ RowInv'
         /\ \A s \in Tasks \ {t} : row'[s] = row[s]
         /\ row'[t].status = "pending" /\ row'[t].attempts = row[t].attempts - 1
         /\ row[t].attempts >= 1
<1>1. row[t] \in Row /\ row[t].attempts >= 1 /\ row[t].attempts \in 0..MaxAttempts
  BY PresentRow DEF RowInv, Running, Exists, Sound, Row
<1> DEFINE r == Refunded(row[t], delay, note)
<1>2. r \in Row /\ r.status = "pending" /\ r.attempts = row[t].attempts - 1
  BY <1>1, RefundedRow
<1>3. row' = [row EXCEPT ![t] = r]
  BY DEF Release
<1> HIDE DEF r
<1>4. Sound(r)
  BY <1>1, <1>2, RowRanges DEF Sound
<1> QED BY <1>1, <1>2, <1>3, <1>4 DEF RowInv, RowTypeOK

\* The reclaim sweep moves stale rows only.
LEMMA ReclaimRows ==
  ASSUME RowInv, ReclaimStale
  PROVE  /\ RowInv'
         /\ \A t \in Tasks : ~ Stale(t) => row'[t] = row[t]
         /\ \A t \in Tasks : Stale(t) =>
              /\ row'[t].status \in {"pending", "failed"}
              /\ row'[t].attempts = row[t].attempts
              /\ row'[t].status = "pending" => row[t].attempts < MaxAttempts
<1>1. \A t \in Tasks : ~ Stale(t) => row'[t] = row[t]
  BY DEF ReclaimStale
<1>2. ASSUME NEW t \in Tasks, Stale(t)
      PROVE  /\ row'[t] \in Row
             /\ row'[t].status \in {"pending", "failed"}
             /\ row'[t].attempts = row[t].attempts
             /\ row'[t].status = "pending" => row[t].attempts < MaxAttempts
  <2>1. row[t] \in Row /\ row[t].attempts \in 0..MaxAttempts
    BY <1>2, PresentRow DEF RowInv, Stale, Running, Exists, Row
  <2>2. CASE row[t].attempts >= MaxAttempts
    <3>1. row'[t] = GivenUp(row[t])
      BY <1>2, <2>2 DEF ReclaimStale, Exhausted
    <3> QED BY <2>1, <3>1, EndedRow
  <2>3. CASE ~ (row[t].attempts >= MaxAttempts)
    <3>1. row'[t] = Requeued(row[t], 0, "other")
      BY <1>2, <2>3 DEF ReclaimStale, Exhausted
    <3>2. 0 \in 0..MaxDelay /\ "other" \in Notes
      BY QueueAssumption DEF Notes
    <3>3. row[t].attempts < MaxAttempts
      BY <2>1, <2>3, RowRanges
    <3> QED BY <2>1, <3>1, <3>2, <3>3, RequeuedRow
  <2> QED BY <2>2, <2>3
<1>3. \A t \in Tasks : row'[t] \in Row \union {Absent}
  BY <1>1, <1>2 DEF RowInv, RowTypeOK
<1>4. \A t \in Tasks : Sound(row'[t])
  BY <1>1, <1>2 DEF RowInv, Sound
<1>5. RowTypeOK'
  BY <1>3 DEF ReclaimStale, RowTypeOK
<1> QED BY <1>1, <1>2, <1>4, <1>5 DEF RowInv

\* Parking releases the refused row and delays, without moving, waiting rows.
LEMMA ParkRows ==
  ASSUME RowInv, NEW t \in Tasks, Running(t), Park(t)
  PROVE  /\ RowInv'
         /\ \A s \in Tasks \ {t} : ~ Pending(s) => row'[s] = row[s]
         /\ \A s \in Tasks \ {t} : /\ row'[s].status = row[s].status
                                   /\ Pending(s) => row'[s].attempts = row[s].attempts
         /\ row'[t].status = "pending" /\ row'[t].attempts = row[t].attempts - 1
         /\ row[t].attempts >= 1
<1>1. row[t] \in Row /\ row[t].attempts >= 1 /\ row[t].attempts \in 0..MaxAttempts
  BY PresentRow DEF RowInv, Running, Exists, Sound, Row
<1>2. row'[t] = Refunded(row[t], ParkDelay, "parked")
  BY DEF Park
<1>3. /\ row'[t] \in Row
      /\ row'[t].status = "pending"
      /\ row'[t].attempts = row[t].attempts - 1
  BY <1>1, <1>2, RefundedRow, RowRanges DEF Notes
<1>4. \A s \in Tasks \ {t} : s \notin ParkedWith(t) => row'[s] = row[s]
  BY DEF Park
<1>5. ASSUME NEW s \in ParkedWith(t)
      PROVE  /\ row'[s] \in Row
             /\ row'[s].status = "pending"
             /\ row'[s].attempts = row[s].attempts
  <2>1. s \in Tasks \ {t} /\ row[s] \in Row /\ row[s].status = "pending"
    BY PresentRow DEF ParkedWith, RowInv, Pending, Exists
  <2>2. row'[s] = [row[s] EXCEPT !.wait = ParkDelay, !.note = "parked"]
    BY <2>1 DEF Park
  <2>3. ParkDelay \in (-Horizon)..MaxDelay /\ "parked" \in Notes
    BY RowRanges DEF Notes
  <2> QED BY <2>1, <2>2, <2>3 DEF Row
<1>6. \A s \in ParkedWith(t) : s \in Tasks /\ s # t /\ Pending(s)
  BY DEF ParkedWith
<1>7. \A s \in Tasks : row'[s] \in Row \union {Absent}
  BY <1>3, <1>4, <1>5 DEF RowInv, RowTypeOK
<1>8. Sound(row'[t])
  BY <1>1, <1>3, RowRanges DEF Sound
<1>9. \A s \in Tasks \ {t} : Sound(row'[s])
  BY <1>4, <1>5, <1>6 DEF RowInv, Sound, Pending
<1>10. RowTypeOK'
  BY <1>7 DEF Park, RowTypeOK
<1>11. RowInv'
  BY <1>8, <1>9, <1>10 DEF RowInv
<1>12. \A s \in Tasks \ {t} : ~ Pending(s) => row'[s] = row[s]
  BY <1>4, <1>6
<1>13. \A s \in Tasks \ {t} : /\ row'[s].status = row[s].status
                              /\ Pending(s) => row'[s].attempts = row[s].attempts
  BY <1>4, <1>5, <1>6 DEF Pending
<1> QED BY <1>1, <1>3, <1>11, <1>12, <1>13

\* Whatever a delivery's outcome, its row leaves `running`: ended, or waiting
\* with its attempt kept (if one is left) or refunded.  No other row leaves
\* its status, and none that is not waiting changes at all.
LEMMA OutcomeRows ==
  ASSUME RowInv, NEW t \in Tasks, Running(t), NEW attempt, NEW result,
         result = "retry" => row[t].attempts < MaxAttempts,
         Outcome(t, attempt, result)
  PROVE  /\ RowInv'
         /\ \A s \in Tasks \ {t} : ~ Pending(s) => row'[s] = row[s]
         /\ \A s \in Tasks \ {t} : /\ row'[s].status = row[s].status
                                   /\ Pending(s) => row'[s].attempts = row[s].attempts
         /\ \/ /\ row'[t].status \in Terminal
               /\ row'[t].attempts = row[t].attempts
            \/ /\ row'[t].status = "pending"
               /\ row[t].attempts < MaxAttempts
               /\ row'[t].attempts = row[t].attempts
            \/ /\ row'[t].status = "pending"
               /\ row[t].attempts >= 1
               /\ row'[t].attempts = row[t].attempts - 1
<1>1. row[t] \in Row /\ row[t].attempts \in 0..MaxAttempts
  BY PresentRow DEF RowInv, Running, Exists, Row
<1>2. ASSUME NEW r \in Row, row' = [row EXCEPT ![t] = r], Sound(r)
      PROVE  /\ RowInv'
             /\ row'[t] = r
             /\ \A s \in Tasks \ {t} : row'[s] = row[s]
  BY <1>2 DEF RowInv, RowTypeOK
<1>3. CASE MarkSucceeded(t)
  <2> DEFINE r == Succeeded(row[t])
  <2>1. row' = [row EXCEPT ![t] = r]
    BY <1>3 DEF MarkSucceeded
  <2>2. r \in Row /\ r.status \in Terminal /\ r.attempts = row[t].attempts
    BY <1>1, EndedRow DEF Terminal
  <2> HIDE DEF r
  <2>3. Sound(r)
    BY <2>2 DEF Sound, Terminal
  <2> QED BY <1>2, <2>1, <2>2, <2>3
<1>4. CASE FailPermanently(t)
  <2> DEFINE r == GivenUp(row[t])
  <2>1. row' = [row EXCEPT ![t] = r]
    BY <1>4 DEF FailPermanently
  <2>2. r \in Row /\ r.status \in Terminal /\ r.attempts = row[t].attempts
    BY <1>1, EndedRow DEF Terminal
  <2> HIDE DEF r
  <2>3. Sound(r)
    BY <2>2 DEF Sound, Terminal
  <2> QED BY <1>2, <2>1, <2>2, <2>3
<1>5. CASE result \in Readings /\ MarkFailed(t, result = "exhausted", RetryDelay(attempt))
  <2>1. CASE result = "exhausted"
    <3> DEFINE r == GivenUp(row[t])
    <3>1. row' = [row EXCEPT ![t] = r]
      BY <1>5, <2>1 DEF MarkFailed
    <3>2. r \in Row /\ r.status \in Terminal /\ r.attempts = row[t].attempts
      BY <1>1, EndedRow DEF Terminal
    <3> HIDE DEF r
    <3>3. Sound(r)
      BY <3>2 DEF Sound, Terminal
    <3> QED BY <1>2, <3>1, <3>2, <3>3
  <2>2. CASE result = "retry"
    <3> DEFINE r == Requeued(row[t], RetryDelay(attempt), "other")
    <3>1. row' = [row EXCEPT ![t] = r]
      BY <1>5, <2>2 DEF MarkFailed
    <3>2. r \in Row /\ r.status = "pending" /\ r.attempts = row[t].attempts
      BY <1>1, RequeuedRow, RetryDelayType DEF Notes
    <3>3. row[t].attempts < MaxAttempts
      BY <2>2
    <3> HIDE DEF r
    <3>4. Sound(r)
      BY <3>2, <3>3 DEF Sound
    <3> QED BY <1>2, <3>1, <3>2, <3>3, <3>4
  <2> QED BY <1>5, <2>1, <2>2 DEF Readings
<1>6. CASE Park(t)
  BY <1>6, ParkRows
<1> QED BY <1>3, <1>4, <1>5, <1>6 DEF Outcome

\* "Retry now" changes when parked rows are due and nothing else of them.
LEMMA ResumeRows ==
  ASSUME RowInv, NEW u \in Users, ResumeParked(u)
  PROVE  /\ RowInv'
         /\ \A t \in Tasks : ~ Pending(t) => row'[t] = row[t]
         /\ \A t \in Tasks : /\ row'[t].status = row[t].status
                             /\ Pending(t) => row'[t].attempts = row[t].attempts
<1>1. ASSUME NEW t \in Tasks, Pending(t)
      PROVE  /\ row'[t] \in Row
             /\ row'[t].status = "pending"
             /\ row'[t].attempts = row[t].attempts
  <2>1. row[t] \in Row /\ row[t].status = "pending"
    BY <1>1, PresentRow DEF RowInv, Pending, Exists
  <2>2. row'[t] = row[t] \/ row'[t] = [row[t] EXCEPT !.wait = 0]
    BY DEF ResumeParked
  <2> QED BY <2>1, <2>2, RowRanges DEF Row
<1>2. \A t \in Tasks : ~ Pending(t) => row'[t] = row[t]
  BY DEF ResumeParked, IsParked
<1>3. \A t \in Tasks : row'[t] \in Row \union {Absent} /\ Sound(row'[t])
  BY <1>1, <1>2 DEF RowInv, RowTypeOK, Sound, Pending
<1>4. RowInv'
  BY <1>3 DEF RowInv, RowTypeOK, ResumeParked
<1> QED BY <1>1, <1>2, <1>4 DEF Pending

\* Time moves clocks only, and no clock of a row that has ended.
LEMMA TickRows ==
  ASSUME RowInv, row' = [t \in Tasks |-> Older(row[t])]
  PROVE  /\ RowInv'
         /\ \A t \in Tasks : /\ row'[t].status = row[t].status
                             /\ Exists(t) => row'[t].attempts = row[t].attempts
                             /\ row[t].age + 1 < VisibilityTimeout /\ Exists(t)
                                  => row'[t].age < VisibilityTimeout
                             /\ row[t].status \notin Unfinished => row'[t] = row[t]
<1>1. \A t \in Tasks : row'[t] = Older(row[t])
  OBVIOUS
<1>2. \A t \in Tasks : ~ Exists(t) => row[t] = Absent
  BY DEF RowInv, RowTypeOK, Row, Exists, Unfinished, Terminal
<1>3. Older(Absent) = Absent
  BY DEF Older, Absent
<1>4. \A t \in Tasks : Exists(t) =>
        /\ row'[t] \in Row
        /\ row'[t].status = row[t].status
        /\ row'[t].attempts = row[t].attempts
        /\ row[t].age + 1 < VisibilityTimeout => row'[t].age < VisibilityTimeout
        /\ row[t].status \notin Unfinished => row'[t] = row[t]
  BY <1>1, OlderRow, PresentRow DEF RowInv
<1>5. \A t \in Tasks : row'[t] \in Row \union {Absent} /\ Sound(row'[t])
  BY <1>1, <1>2, <1>3, <1>4 DEF RowInv, Sound
<1>6. RowInv'
  BY <1>5 DEF RowInv, RowTypeOK
<1> QED BY <1>1, <1>2, <1>3, <1>4, <1>6

----------------------------------------------------------------------------
(* The inductive invariant.  Safety of the claims rests on who holds what: *)
(* a delivery, in the loop's hand or on a thread, owns its row (running,   *)
(* under its attempt, not stale), no two deliveries share a task, and what *)
(* an open claim has locked is waiting and nobody else's.                  *)

ProcTypeOK ==
  /\ loop \in [Workers -> {"top", "recur", "insert", "select", "commit",
                           "submit", "wait", "drain", "down"}]
  /\ free \in [Workers -> 0..Cardinality(Slots)]
  /\ plan \in [Workers -> SUBSET Tasks]
  /\ passed \in [Workers -> SUBSET Tasks]
  /\ hand \in [Workers -> SUBSET Delivery]
  /\ job \in [Workers -> [Slots -> Job \union {Idle}]]
  /\ wake \in [Workers -> BOOLEAN]
  /\ stop \in [Workers -> BOOLEAN]
  /\ reclaimIn \in [Workers -> 0..ReclaimInterval]
  /\ killSwitch \in BOOLEAN
  /\ refusing \subseteq Users
  /\ orphaned \subseteq Tasks

Owned(t, a) ==
  /\ row[t].status = "running"
  /\ row[t].attempts = a
  /\ row[t].age < VisibilityTimeout

HandOwns == \A w \in Workers : \A d \in hand[w] : Owned(d.task, d.attempt)

JobOwns == \A w \in Workers, s \in Slots :
             Busy(w, s) => /\ Owned(job[w][s].task, job[w][s].attempt)
                           /\ job[w][s].phase = "retry"
                                => job[w][s].attempt < MaxAttempts

HandApart == \A v, w \in Workers : \A d \in hand[v], e \in hand[w] :
               d.task = e.task => v = w

HandJobApart == \A v, w \in Workers : \A d \in hand[v], s \in Slots :
                  Busy(w, s) => job[w][s].task # d.task

JobApart == \A v, w \in Workers, r, s \in Slots :
              Busy(v, r) /\ Busy(w, s) /\ job[v][r].task = job[w][s].task
                => v = w /\ r = s

PlanWaits == \A w \in Workers : \A t \in plan[w] : Pending(t)

PlanApart == \A v, w \in Workers : v # w => plan[v] \intersect plan[w] = {}

PlanAtCommit == \A w \in Workers : loop[w] # "commit" => plan[w] = {}

HandAtSubmit == \A w \in Workers : loop[w] # "submit" => hand[w] = {}

DeliveryInv ==
  /\ HandOwns /\ JobOwns
  /\ HandApart /\ HandJobApart /\ JobApart
  /\ PlanWaits /\ PlanApart /\ PlanAtCommit /\ HandAtSubmit

IInv == RowInv /\ ProcTypeOK /\ DeliveryInv

\* A present thread is Idle or has a job.
LEMMA JobShape ==
  ASSUME ProcTypeOK, NEW w \in Workers, NEW s \in Slots
  PROVE  /\ Busy(w, s) => job[w][s] \in Job
         /\ ~ Busy(w, s) => job[w][s] = Idle
         /\ Busy(w, s) => job[w][s].task \in Tasks
         /\ Busy(w, s) => job[w][s].attempt \in 0..MaxAttempts
<1>1. job[w][s] \in Job \union {Idle}
  BY DEF ProcTypeOK
<1>2. ASSUME job[w][s] \in Job
      PROVE  job[w][s].phase # "idle" /\ job[w][s].task \in Tasks
             /\ job[w][s].attempt \in 0..MaxAttempts
  BY <1>2 DEF Job, Results, Readings
<1>3. Idle.phase = "idle"
  BY DEF Idle
<1> QED BY <1>1, <1>2, <1>3 DEF Busy

\* Deliveries in hand name tasks.
LEMMA HandShape ==
  ASSUME ProcTypeOK, NEW w \in Workers, NEW d \in hand[w]
  PROVE  d \in Delivery /\ d.task \in Tasks /\ d.attempt \in 0..MaxAttempts
BY DEF ProcTypeOK, Delivery

\* If the deliveries stay as they are and their rows stay theirs, the claims
\* on them stand.
LEMMA OwnsStand ==
  ASSUME ProcTypeOK, HandOwns, JobOwns, UNCHANGED <<hand, job>>,
         \A t \in Tasks, a \in 0..MaxAttempts : Owned(t, a) => Owned(t, a)'
  PROVE  HandOwns' /\ JobOwns'
<1>1. HandOwns'
  BY HandShape DEF HandOwns
<1>2. JobOwns'
  BY JobShape DEF JobOwns, Busy
<1> QED BY <1>1, <1>2

\* Who holds what depends on hands and threads alone.
LEMMA ApartStand ==
  ASSUME UNCHANGED <<hand, job>>, HandApart, HandJobApart, JobApart
  PROVE  HandApart' /\ HandJobApart' /\ JobApart'
BY DEF HandApart, HandJobApart, JobApart, Busy

\* A claim's rows keep waiting if no row that waits moves.
LEMMA PlanStands ==
  ASSUME ProcTypeOK, PlanWaits, PlanApart, UNCHANGED plan,
         \A t \in Tasks : Pending(t) => Pending(t)'
  PROVE  PlanWaits' /\ PlanApart'
BY DEF ProcTypeOK, PlanWaits, PlanApart

----------------------------------------------------------------------------
(* Each step of the loop thread keeps the invariant.                       *)

\* The sweep takes no row a delivery owns: those are not stale.
LEMMA TopStep ==
  ASSUME IInv, NEW w \in Workers, Top(w)
  PROVE  IInv'
<1> USE DEF IInv, DeliveryInv
<1>1. /\ RowInv'
      /\ \A t \in Tasks : ~ Stale(t) => row'[t] = row[t]
  BY ReclaimRows DEF Top, RowInv, RowTypeOK
<1>2. ProcTypeOK'
  <2>1. ReclaimInterval \in 0..ReclaimInterval
    BY WorkerAssumption
  <2> QED BY <2>1 DEF Top, Goto, Orphan, ProcTypeOK
<1>3. \A t \in Tasks, a \in 0..MaxAttempts : Owned(t, a) => Owned(t, a)'
  <2>1. \A t \in Tasks, a \in 0..MaxAttempts : Owned(t, a) => ~ Stale(t)
    BY QueueAssumption, PresentRow
       DEF Owned, Stale, RowInv, Exists, Row
  <2> QED BY <1>1, <2>1 DEF Owned
<1>4. \A t \in Tasks : Pending(t) => Pending(t)'
  BY <1>1 DEF Stale, Running, Pending
<1>5. HandOwns' /\ JobOwns'
  BY <1>3, OwnsStand DEF Top
<1>6. HandApart' /\ HandJobApart' /\ JobApart'
  BY ApartStand DEF Top
<1>7. PlanWaits' /\ PlanApart'
  BY <1>4, PlanStands DEF Top
<1>8. PlanAtCommit' /\ HandAtSubmit'
  BY DEF Top, Goto, PlanAtCommit, HandAtSubmit, ProcTypeOK
<1> QED BY <1>1, <1>2, <1>5, <1>6, <1>7, <1>8

\* A step that leaves rows, deliveries and claims alone, and the loop outside
\* the two places a claim is in progress.
LEMMA QuietStep ==
  ASSUME IInv, ProcTypeOK', UNCHANGED <<row, plan, hand, job>>,
         PlanAtCommit', HandAtSubmit'
  PROVE  IInv'
<1> USE DEF IInv, DeliveryInv
<1>1. RowInv'
  BY DEF RowInv, RowTypeOK
<1>2. \A t \in Tasks, a \in 0..MaxAttempts : Owned(t, a) => Owned(t, a)'
  BY DEF Owned
<1>3. \A t \in Tasks : Pending(t) => Pending(t)'
  BY DEF Pending
<1> QED BY <1>1, <1>2, <1>3, OwnsStand, ApartStand, PlanStands

\* enqueue_unique only reads.
LEMMA RecurStep ==
  ASSUME IInv, NEW w \in Workers, Recur(w)
  PROVE  IInv'
<1>1. ProcTypeOK'
  BY DEF IInv, Recur, Goto, ProcTypeOK
<1>2. PlanAtCommit' /\ HandAtSubmit'
  BY DEF IInv, DeliveryInv, Recur, Goto, PlanAtCommit, HandAtSubmit, ProcTypeOK
<1> QED BY <1>1, <1>2, QuietStep DEF Recur

\* Waking up from the poll only moves the loop.
LEMMA WaitStep ==
  ASSUME IInv, NEW w \in Workers, Wait(w)
  PROVE  IInv'
<1>1. 0 \in 0..Cardinality(Slots)
  BY WorkerAssumption, FS_CardinalityType
<1>2. ProcTypeOK'
  BY <1>1 DEF IInv, Wait, Goto, ProcTypeOK
<1>3. PlanAtCommit' /\ HandAtSubmit'
  BY DEF IInv, DeliveryInv, Wait, Goto, PlanAtCommit, HandAtSubmit, ProcTypeOK
<1> QED BY <1>2, <1>3, QuietStep DEF Wait

\* Exit leaves no delivery behind: its threads are idle.
LEMMA ExitStep ==
  ASSUME IInv, NEW w \in Workers, Exit(w)
  PROVE  IInv'
<1>1. 0 \in 0..ReclaimInterval
  BY WorkerAssumption
<1>2. ProcTypeOK'
  BY <1>1 DEF IInv, Exit, Goto, ProcTypeOK
<1>3. PlanAtCommit' /\ HandAtSubmit'
  BY DEF IInv, DeliveryInv, Exit, Goto, PlanAtCommit, HandAtSubmit, ProcTypeOK
<1> QED BY <1>2, <1>3, QuietStep DEF Exit

\* A new row, where there was none, concerns no delivery and no claim.
LEMMA NewRowStep ==
  ASSUME IInv, NEW u \in Users, NEW k \in Kinds, NEW delay \in 0..MaxDelay,
         Enqueue(u, k, delay), ProcTypeOK', UNCHANGED <<plan, hand, job>>,
         PlanAtCommit', HandAtSubmit'
  PROVE  IInv'
<1> USE DEF IInv, DeliveryInv
<1>1. RowInv' /\ \A t \in Tasks : Exists(t) => row'[t] = row[t]
  BY EnqueueRows
<1>2. \A t \in Tasks, a \in 0..MaxAttempts : Owned(t, a) => Owned(t, a)'
  BY <1>1 DEF Owned, Exists
<1>3. \A t \in Tasks : Pending(t) => Pending(t)'
  BY <1>1 DEF Pending, Exists
<1> QED BY <1>1, <1>2, <1>3, OwnsStand, ApartStand, PlanStands

\* A maintenance row is inserted beside the rows there are.
LEMMA InsertStep ==
  ASSUME IInv, NEW w \in Workers, Insert(w)
  PROVE  IInv'
<1>1. ProcTypeOK'
  BY DEF IInv, Insert, Goto, ProcTypeOK
<1>2. PlanAtCommit' /\ HandAtSubmit'
  BY DEF IInv, DeliveryInv, Insert, Goto, PlanAtCommit, HandAtSubmit, ProcTypeOK
<1>3. CASE Enqueue(System, Recurring, 0)
  <2>1. System \in Users /\ Recurring \in Kinds /\ 0 \in 0..MaxDelay
    BY QueueAssumption, WorkerAssumption DEF Kinds
  <2> QED BY <1>1, <1>2, <1>3, <2>1, NewRowStep DEF Insert
<1>4. CASE UNCHANGED row
  BY <1>1, <1>2, <1>4, QuietStep DEF Insert
<1> QED BY <1>3, <1>4 DEF Insert

\* How many threads are busy never exceeds how many there are.
LEMMA InFlightBound ==
  ASSUME NEW w \in Workers
  PROVE  /\ Cardinality(Slots) \in Nat
         /\ InFlight(w) \in 0..Cardinality(Slots)
         /\ Cardinality(Slots) - InFlight(w) \in 0..Cardinality(Slots)
<1> DEFINE B == {s \in Slots : Busy(w, s)}
<1>1. B \subseteq Slots
  OBVIOUS
<1>2. /\ IsFiniteSet(B) /\ Cardinality(B) <= Cardinality(Slots)
      /\ Cardinality(Slots) \in Nat
  BY <1>1, WorkerAssumption, FS_Subset, FS_CardinalityType
<1>3. Cardinality(B) \in Nat
  BY <1>2, FS_CardinalityType
<1>4. InFlight(w) = Cardinality(B)
  BY DEF InFlight
<1> HIDE DEF B
<1> QED BY <1>2, <1>3, <1>4

\* The claim's SELECT takes waiting rows no other claim has locked.
LEMMA ClaimSetRows ==
  ASSUME NEW kinds, NEW limit, NEW locked
  PROVE  \A t \in ClaimSet(kinds, limit, locked) :
           t \in Tasks /\ Pending(t) /\ t \notin locked
BY DEF ClaimSet, Window, First, Candidates

\* The SELECT takes its locks and writes nothing.
LEMMA SelectStep ==
  ASSUME IInv, NEW w \in Workers, Select(w)
  PROVE  IInv'
<1> USE DEF IInv, DeliveryInv
<1> DEFINE slots == Cardinality(Slots) - InFlight(w)
           chosen == ClaimSet(RunnableKinds, slots, Locked)
<1>1. slots \in 0..Cardinality(Slots)
  BY InFlightBound
<1>2. \A t \in chosen : t \in Tasks /\ Pending(t) /\ t \notin Locked
  BY ClaimSetRows
<1>3. /\ loop[w] = "select" /\ UNCHANGED <<row, hand, job>>
      /\ \/ /\ plan' = [plan EXCEPT ![w] = chosen]
            /\ Goto(w, "commit")
            /\ UNCHANGED free
         \/ /\ Goto(w, "wait")
            /\ free' = [free EXCEPT ![w] = slots]
            /\ UNCHANGED plan
  BY DEF Select
<1>4. /\ UNCHANGED <<wake, stop, reclaimIn, killSwitch, refusing, orphaned>>
      /\ \/ UNCHANGED passed
         \/ \E rest \in SUBSET Tasks : passed' = [passed EXCEPT ![w] = rest]
  BY DEF Select, Window, First, Candidates
<1> HIDE DEF slots, chosen
<1>5. ProcTypeOK'
  <2>1. passed' \in [Workers -> SUBSET Tasks]
    BY <1>4 DEF ProcTypeOK
  <2>2. /\ loop' \in [Workers -> {"top", "recur", "insert", "select", "commit",
                                 "submit", "wait", "drain", "down"}]
        /\ free' \in [Workers -> 0..Cardinality(Slots)]
    <3>1. CASE Goto(w, "commit") /\ UNCHANGED free
      BY <3>1 DEF Goto, ProcTypeOK
    <3>2. CASE Goto(w, "wait") /\ free' = [free EXCEPT ![w] = slots]
      BY <1>1, <3>2 DEF Goto, ProcTypeOK
    <3> QED BY <1>3, <3>1, <3>2
  <2>3. plan' \in [Workers -> SUBSET Tasks]
    BY <1>2, <1>3 DEF ProcTypeOK
  <2> QED BY <1>3, <1>4, <2>1, <2>2, <2>3 DEF ProcTypeOK
<1>6. HandOwns' /\ JobOwns'
  BY <1>3, OwnsStand DEF Owned
<1>7. HandApart' /\ HandJobApart' /\ JobApart'
  BY <1>3, ApartStand
<1>8. PlanWaits'
  BY <1>2, <1>3 DEF PlanWaits, Pending, ProcTypeOK
<1>9. PlanApart'
  <2>1. \A v \in Workers : plan[v] \intersect chosen = {}
    BY <1>2 DEF Locked
  <2>2. plan \in [Workers -> SUBSET Tasks]
    BY DEF ProcTypeOK
  <2>3. \A v \in Workers : plan'[v] = plan[v] \/ (v = w /\ plan'[v] = chosen)
    BY <1>3, <2>2
  <2> QED BY <2>1, <2>3 DEF PlanApart
<1>10. PlanAtCommit' /\ HandAtSubmit'
  BY <1>3 DEF Goto, PlanAtCommit, HandAtSubmit, ProcTypeOK
<1>11. RowInv'
  BY <1>3 DEF RowInv, RowTypeOK
<1> QED BY <1>5, <1>6, <1>7, <1>8, <1>9, <1>10, <1>11

\* The claim's UPDATE: its rows were waiting, so nobody held them; other
\* deliveries' rows are not among them, and other claims' neither.
LEMMA ClaimStep ==
  ASSUME IInv, NEW w \in Workers, Claim(plan[w])
  PROVE  /\ RowInv'
         /\ \A t \in Tasks, a \in 0..MaxAttempts : Owned(t, a) => Owned(t, a)'
         /\ \A t \in plan[w] :
              /\ t \in Tasks
              /\ row[t].attempts + 1 \in 0..MaxAttempts
              /\ \A a : a = row[t].attempts + 1 => Owned(t, a)'
              /\ \A a \in 0..MaxAttempts : ~ Owned(t, a)
         /\ \A v \in Workers \ {w} : \A t \in plan[v] : Pending(t)'
<1> USE DEF IInv, DeliveryInv
<1>1. plan[w] \in SUBSET Tasks /\ \A t \in plan[w] : Pending(t)
  BY DEF ProcTypeOK, PlanWaits
<1>2. /\ RowInv'
      /\ \A t \in Tasks \ plan[w] : row'[t] = row[t]
      /\ \A t \in plan[w] : /\ row'[t].status = "running"
                            /\ row'[t].attempts = row[t].attempts + 1
                            /\ row'[t].age = 0
                            /\ row[t].attempts \in 0..MaxAttempts
                            /\ row[t].attempts < MaxAttempts
  BY <1>1, ClaimRows
<1>3. \A t \in plan[w] : \A a \in 0..MaxAttempts : ~ Owned(t, a)
  BY <1>1 DEF Owned, Pending
<1>4. \A t \in Tasks, a \in 0..MaxAttempts : Owned(t, a) => Owned(t, a)'
  BY <1>2, <1>3 DEF Owned
<1>5. \A t \in plan[w] : /\ row[t].attempts + 1 \in 0..MaxAttempts
                         /\ \A a : a = row[t].attempts + 1 => Owned(t, a)'
  BY <1>2, QueueAssumption DEF Owned
<1>6. \A v \in Workers \ {w} : \A t \in plan[v] : Pending(t)'
  BY <1>2 DEF PlanApart, PlanWaits, Pending, ProcTypeOK
<1> QED BY <1>1, <1>2, <1>3, <1>4, <1>5, <1>6

\* The claim: its rows become this worker's deliveries, and no one else's.
LEMMA CommitStep ==
  ASSUME IInv, NEW w \in Workers, Commit(w)
  PROVE  IInv'
<1> USE DEF IInv, DeliveryInv
<1> DEFINE new == {[task |-> t, attempt |-> row[t].attempts + 1] : t \in plan[w]}
<1>1. /\ loop[w] = "commit" /\ Goto(w, "submit")
      /\ hand' = [hand EXCEPT ![w] = new]
      /\ plan' = [plan EXCEPT ![w] = {}]
      /\ passed' = [passed EXCEPT ![w] = {}]
      /\ UNCHANGED <<job, free, wake, stop, reclaimIn, killSwitch, refusing, orphaned>>
  BY DEF Commit
<1>2. /\ RowInv'
      /\ \A t \in Tasks, a \in 0..MaxAttempts : Owned(t, a) => Owned(t, a)'
      /\ \A t \in plan[w] :
           /\ t \in Tasks
           /\ row[t].attempts + 1 \in 0..MaxAttempts
           /\ \A a : a = row[t].attempts + 1 => Owned(t, a)'
           /\ \A a \in 0..MaxAttempts : ~ Owned(t, a)
      /\ \A v \in Workers \ {w} : \A t \in plan[v] : Pending(t)'
  BY ClaimStep DEF Commit
<1>3. \A d \in new : /\ d \in Delivery
                     /\ d.task \in plan[w]
                     /\ Owned(d.task, d.attempt)'
  BY <1>2 DEF Delivery
<1> HIDE DEF new
<1>4. ProcTypeOK'
  BY <1>1, <1>3 DEF Goto, ProcTypeOK
<1>5. /\ hand'[w] = new
      /\ \A v \in Workers \ {w} : hand'[v] = hand[v]
      /\ job' = job
  BY <1>1 DEF ProcTypeOK
<1>6. HandOwns'
  <2>1. ASSUME NEW v \in Workers, NEW d \in hand'[v]
        PROVE  Owned(d.task, d.attempt)'
    <3>1. CASE v = w
      BY <1>3, <1>5, <2>1, <3>1
    <3>2. CASE v # w
      BY <1>2, <1>5, <2>1, <3>2, HandShape DEF HandOwns
    <3> QED BY <3>1, <3>2
  <2> QED BY <2>1 DEF HandOwns
<1>7. JobOwns'
  BY <1>2, <1>5, JobShape DEF JobOwns, Busy
<1>8. \A v \in Workers : \A d \in hand[v] : d.task \notin plan[w]
  BY <1>2, HandShape DEF HandOwns
<1>9. \A v \in Workers, s \in Slots : Busy(v, s) => job[v][s].task \notin plan[w]
  BY <1>2, JobShape DEF JobOwns
<1>10. HandApart'
  BY <1>3, <1>5, <1>8 DEF HandApart
<1>11. HandJobApart'
  <2>1. ASSUME NEW v \in Workers, NEW x \in Workers, NEW d \in hand'[v],
               NEW s \in Slots, Busy(x, s)
        PROVE  job[x][s].task # d.task
    <3>1. CASE v = w
      BY <1>3, <1>5, <1>9, <2>1, <3>1
    <3>2. CASE v # w
      BY <1>5, <2>1, <3>2 DEF HandJobApart
    <3> QED BY <3>1, <3>2
  <2> QED BY <1>5, <2>1 DEF HandJobApart, Busy
<1>12. JobApart'
  BY <1>5 DEF JobApart, Busy
<1>13. PlanWaits' /\ PlanApart' /\ PlanAtCommit' /\ HandAtSubmit'
  BY <1>1, <1>2 DEF PlanWaits, PlanApart, PlanAtCommit, HandAtSubmit,
                    Goto, ProcTypeOK
<1> QED BY <1>2, <1>4, <1>6, <1>7, <1>10, <1>11, <1>12, <1>13

\* A claim nobody hears of: its rows run with no delivery.
LEMMA CommitUnacknowledgedStep ==
  ASSUME IInv, NEW w \in Workers, CommitUnacknowledged(w)
  PROVE  IInv'
<1> USE DEF IInv, DeliveryInv
<1>1. /\ loop[w] = "commit" /\ Goto(w, "top")
      /\ plan' = [plan EXCEPT ![w] = {}]
      /\ passed' = [passed EXCEPT ![w] = {}]
      /\ Orphan(plan[w])
      /\ UNCHANGED <<hand, job, free, wake, stop, reclaimIn, killSwitch, refusing>>
  BY DEF CommitUnacknowledged
<1>2. /\ RowInv'
      /\ \A t \in Tasks, a \in 0..MaxAttempts : Owned(t, a) => Owned(t, a)'
      /\ \A v \in Workers \ {w} : \A t \in plan[v] : Pending(t)'
  BY ClaimStep DEF CommitUnacknowledged
<1>3. ProcTypeOK'
  BY <1>1 DEF Goto, Orphan, ProcTypeOK
<1>4. HandOwns' /\ JobOwns'
  BY <1>1, <1>2, OwnsStand
<1>5. HandApart' /\ HandJobApart' /\ JobApart'
  BY <1>1, ApartStand
<1>6. PlanWaits' /\ PlanApart' /\ PlanAtCommit' /\ HandAtSubmit'
  BY <1>1, <1>2 DEF PlanWaits, PlanApart, PlanAtCommit, HandAtSubmit,
                    Goto, ProcTypeOK
<1> QED BY <1>2, <1>3, <1>4, <1>5, <1>6

\* A poll that fails lets its locks go.
LEMMA PollFailsStep ==
  ASSUME IInv, NEW w \in Workers, PollFails(w)
  PROVE  IInv'
<1> USE DEF IInv, DeliveryInv
<1>1. /\ loop[w] \in {"recur", "insert", "select", "commit"} /\ Goto(w, "top")
      /\ plan' = [plan EXCEPT ![w] = {}]
      /\ passed' = [passed EXCEPT ![w] = {}]
      /\ UNCHANGED <<row, hand, job, free, wake, stop, reclaimIn, killSwitch,
                     refusing, orphaned>>
  BY DEF PollFails
<1>2. ProcTypeOK'
  BY <1>1 DEF Goto, ProcTypeOK
<1>3. HandOwns' /\ JobOwns'
  BY <1>1, OwnsStand DEF Owned
<1>4. HandApart' /\ HandJobApart' /\ JobApart'
  BY <1>1, ApartStand
<1>5. PlanWaits' /\ PlanApart' /\ PlanAtCommit' /\ HandAtSubmit'
  BY <1>1 DEF PlanWaits, PlanApart, PlanAtCommit, HandAtSubmit,
              Pending, Goto, ProcTypeOK
<1>6. RowInv'
  BY <1>1 DEF RowInv, RowTypeOK
<1> QED BY <1>2, <1>3, <1>4, <1>5, <1>6

\* A delivery moves from the hand to an idle thread.
LEMMA SubmitStep ==
  ASSUME IInv, NEW w \in Workers, Submit(w)
  PROVE  IInv'
<1> USE DEF IInv, DeliveryInv
<1>1. CASE hand[w] = {}
  <2>1. ProcTypeOK'
    BY <1>1 DEF Submit, Goto, ProcTypeOK
  <2>2. PlanAtCommit' /\ HandAtSubmit'
    BY <1>1 DEF Submit, Goto, PlanAtCommit, HandAtSubmit, ProcTypeOK
  <2> QED BY <1>1, <2>1, <2>2, QuietStep DEF Submit
<1>2. CASE hand[w] # {}
  <2>1. PICK d \in hand[w], s \in Slots :
          /\ ~ Busy(w, s)
          /\ hand' = [hand EXCEPT ![w] = @ \ {d}]
          /\ job' = [job EXCEPT ![w][s] = [task |-> d.task,
                       attempt |-> d.attempt, phase |-> "submitted"]]
          /\ UNCHANGED loop
    BY <1>2 DEF Submit
  <2>2. UNCHANGED <<row, free, plan, passed, wake, stop, reclaimIn, killSwitch,
                    refusing, orphaned>>
    BY DEF Submit
  <2> DEFINE new == [task |-> d.task, attempt |-> d.attempt, phase |-> "submitted"]
  <2>3. /\ new \in Job /\ new.task = d.task /\ new.attempt = d.attempt
        /\ new.phase # "retry"
    BY HandShape DEF Job
  <2>4. job' = [job EXCEPT ![w][s] = new]
    BY <2>1
  <2> HIDE DEF new
  <2>5. /\ job'[w][s] = new
        /\ \A v \in Workers, r \in Slots : <<v, r>> # <<w, s>> => job'[v][r] = job[v][r]
        /\ hand'[w] = hand[w] \ {d}
        /\ \A v \in Workers \ {w} : hand'[v] = hand[v]
    BY <2>1, <2>4 DEF ProcTypeOK
  <2>6. ProcTypeOK'
    BY <2>1, <2>2, <2>3, <2>4 DEF ProcTypeOK
  <2>7. \A v \in Workers : hand'[v] \subseteq hand[v]
    BY <2>5
  <2>8. \A v \in Workers : d \notin hand'[v]
    BY <2>1, <2>5, <2>7 DEF HandApart
  <2>9. \A v \in Workers : \A e \in hand'[v] : e.task # d.task
    <3>1. ASSUME NEW v \in Workers, NEW e \in hand'[v], e.task = d.task
          PROVE  FALSE
      <4>1. v = w
        BY <2>7, <3>1 DEF HandApart
      <4>2. e \in Delivery /\ d \in Delivery
        BY <2>7, <3>1, HandShape
      <4>3. e.attempt = d.attempt
        BY <2>7, <3>1, <4>1 DEF HandOwns, Owned
      <4>4. e = d
        BY <3>1, <4>2, <4>3 DEF Delivery
      <4> QED BY <2>8, <3>1, <4>4
    <3> QED BY <3>1
  <2>10. HandOwns'
    BY <2>2, <2>7 DEF HandOwns, Owned
  <2>11. JobOwns'
    <3>1. Owned(d.task, d.attempt)
      BY DEF HandOwns
    <3> QED BY <2>2, <2>3, <2>5, <3>1 DEF JobOwns, Owned, Busy
  <2>12. HandApart'
    BY <2>7 DEF HandApart
  <2>13. HandJobApart'
    BY <2>3, <2>5, <2>7, <2>9 DEF HandJobApart, Busy
  <2>14. JobApart'
    <3>1. \A v \in Workers, r \in Slots : Busy(v, r) => job[v][r].task # d.task
      BY DEF HandJobApart
    <3> QED BY <2>3, <2>5, <3>1 DEF JobApart, Busy
  <2>15. PlanWaits' /\ PlanApart' /\ PlanAtCommit' /\ HandAtSubmit'
    <3>1. loop[w] = "submit" /\ UNCHANGED loop
      BY <2>1 DEF Submit
    <3> QED BY <2>2, <2>5, <3>1 DEF PlanWaits, PlanApart, PlanAtCommit,
                                   HandAtSubmit, Pending
  <2>16. RowInv'
    BY <2>2 DEF RowInv, RowTypeOK
  <2> QED BY <2>6, <2>10, <2>11, <2>12, <2>13, <2>14, <2>15, <2>16
<1> QED BY <1>1, <1>2

----------------------------------------------------------------------------
(* Each step of a pool thread, of a process and of the environment.        *)

\* A thread lets go of its delivery.  Its row may move; a row that another
\* delivery owns may not, and a waiting row stays waiting.
LEMMA LetGoStep ==
  ASSUME IInv, NEW w \in Workers, NEW s \in Slots, Busy(w, s), RowInv',
         \A t \in Tasks \ {job[w][s].task} :
           /\ row'[t].status = row[t].status
           /\ ~ Pending(t) => row'[t] = row[t],
         \A t \in Tasks : Pending(t) => Pending(t)',
         job' = [job EXCEPT ![w][s] = Idle],
         UNCHANGED <<loop, plan, hand>>, ProcTypeOK'
  PROVE  IInv'
<1> USE DEF IInv, DeliveryInv
<1>1. /\ job'[w][s] = Idle
      /\ \A v \in Workers, r \in Slots : <<v, r>> # <<w, s>> => job'[v][r] = job[v][r]
  BY DEF ProcTypeOK
<1>2. ~ Busy(w, s)'
  BY <1>1 DEF Busy, Idle
<1>3. \A v \in Workers, r \in Slots :
        Busy(v, r)' => /\ Busy(v, r)
                       /\ job'[v][r] = job[v][r]
                       /\ job[v][r].task # job[w][s].task
  BY <1>1, <1>2 DEF Busy, JobApart
<1>4. \A t \in Tasks \ {job[w][s].task}, a \in 0..MaxAttempts :
        Owned(t, a) => Owned(t, a)'
  BY DEF Owned, Pending
<1>5. HandOwns'
  BY <1>4, HandShape DEF HandOwns, HandJobApart
<1>6. JobOwns'
  BY <1>3, <1>4, JobShape DEF JobOwns
<1>7. HandApart' /\ HandJobApart' /\ JobApart'
  BY <1>3 DEF HandApart, HandJobApart, JobApart
<1>8. PlanWaits' /\ PlanApart'
  BY PlanStands
<1>9. PlanAtCommit' /\ HandAtSubmit'
  BY DEF PlanAtCommit, HandAtSubmit
<1> QED BY <1>5, <1>6, <1>7, <1>8, <1>9

\* A busy thread's row is running, by its own claim on it.
LEMMA BusyRuns ==
  ASSUME IInv, NEW w \in Workers, NEW s \in Slots, Busy(w, s)
  PROVE  /\ job[w][s].task \in Tasks
         /\ Running(job[w][s].task)
         /\ row[job[w][s].task].attempts = job[w][s].attempt
BY JobShape DEF IInv, DeliveryInv, JobOwns, Owned, Running

\* A thread that moves on within its delivery disturbs nothing.
LEMMA PhaseStep ==
  ASSUME IInv, NEW w \in Workers, NEW s \in Slots, Busy(w, s),
         NEW p \in {"handling"} \union Results \union Readings,
         p = "retry" => job[w][s].attempt < MaxAttempts,
         job' = [job EXCEPT ![w][s].phase = p],
         UNCHANGED <<row, loop, free, plan, passed, hand, wake, stop, reclaimIn,
                     killSwitch, refusing>>,
         orphaned' \subseteq Tasks
  PROVE  IInv'
<1> USE DEF IInv, DeliveryInv
<1> DEFINE new == [job[w][s] EXCEPT !.phase = p]
<1>1. job[w][s] \in Job
  BY JobShape
<1>2. /\ new \in Job /\ new.task = job[w][s].task
      /\ new.attempt = job[w][s].attempt
  BY <1>1 DEF Job
<1>3. job' = [job EXCEPT ![w][s] = new]
  OBVIOUS
<1> HIDE DEF new
<1>4. /\ job'[w][s] = new
      /\ \A v \in Workers, r \in Slots : <<v, r>> # <<w, s>> => job'[v][r] = job[v][r]
  BY <1>3 DEF ProcTypeOK
<1>5. \A v \in Workers, r \in Slots :
        Busy(v, r)' => /\ Busy(v, r)
                       /\ job'[v][r].task = job[v][r].task
                       /\ job'[v][r].attempt = job[v][r].attempt
  BY <1>2, <1>4 DEF Busy
<1>6. ProcTypeOK'
  <2>1. job' \in [Workers -> [Slots -> Job \union {Idle}]]
    <3> DEFINE own == [job[w] EXCEPT ![s] = new]
    <3>1. own \in [Slots -> Job \union {Idle}]
      BY <1>2 DEF ProcTypeOK
    <3>2. job' = [job EXCEPT ![w] = own]
      BY <1>3
    <3> HIDE DEF own
    <3> QED BY <3>1, <3>2 DEF ProcTypeOK
  <2> QED BY <2>1 DEF ProcTypeOK
<1>7. RowInv'
  BY DEF RowInv, RowTypeOK
<1>8. HandOwns'
  BY DEF HandOwns, Owned
<1>9. JobOwns'
  BY <1>5 DEF JobOwns, Owned
<1>10. HandApart' /\ HandJobApart' /\ JobApart'
  BY <1>5 DEF HandApart, HandJobApart, JobApart
<1>11. PlanWaits' /\ PlanApart' /\ PlanAtCommit' /\ HandAtSubmit'
  BY DEF PlanWaits, PlanApart, PlanAtCommit, HandAtSubmit, Pending
<1> QED BY <1>6, <1>7, <1>8, <1>9, <1>10, <1>11

\* Dispatch either lets the row go, released, or enters the handler.
LEMMA DispatchStep ==
  ASSUME IInv, NEW w \in Workers, NEW s \in Slots, Dispatch(w, s)
  PROVE  IInv'
<1> DEFINE t == job[w][s].task
<1>1. Busy(w, s) /\ t \in Tasks /\ Running(t)
  BY BusyRuns DEF Dispatch, Busy
<1>2. orphaned' \subseteq Tasks
  BY DEF Dispatch, Orphan, IInv, ProcTypeOK
<1>3. CASE SwitchedOff(t)
  <2>1. Release(t, RefuseDelay, "other") /\ GiveBack(w, s)
    BY <1>3 DEF Dispatch
  <2>2. RefuseDelay \in 0..MaxDelay /\ "other" \in Notes
    BY WorkerAssumption DEF Notes
  <2>3. /\ RowInv'
        /\ \A x \in Tasks \ {t} : row'[x] = row[x]
    BY <1>1, <2>1, <2>2, ReleaseRows DEF IInv
  <2>4. \A x \in Tasks : Pending(x) => Pending(x)'
    BY <1>1, <2>3 DEF Pending, Running
  <2>5. ProcTypeOK'
    BY <1>2, <2>1 DEF Dispatch, GiveBack, IInv, ProcTypeOK
  <2> QED BY <1>1, <2>1, <2>3, <2>4, <2>5, LetGoStep DEF Dispatch, GiveBack
<1>4. CASE ~ SwitchedOff(t)
  <2>1. job' = [job EXCEPT ![w][s].phase = "handling"] /\ UNCHANGED <<row, wake>>
    BY <1>4 DEF Dispatch
  <2> QED BY <1>1, <1>2, <2>1, PhaseStep DEF Dispatch
<1> QED BY <1>3, <1>4

\* A handler's result is written on its thread only.
LEMMA HandlerReturnsStep ==
  ASSUME IInv, NEW w \in Workers, NEW s \in Slots, HandlerReturns(w, s)
  PROVE  IInv'
<1>1. Busy(w, s)
  BY DEF HandlerReturns, Busy
<1>2. PICK p \in Results : job' = [job EXCEPT ![w][s].phase = p]
  BY DEF HandlerReturns
<1>3. orphaned' \subseteq Tasks
  BY DEF HandlerReturns, IInv, ProcTypeOK
<1>4. p # "retry"
  BY DEF Results
<1> QED BY <1>1, <1>2, <1>3, <1>4, PhaseStep DEF HandlerReturns

\* What mark_failed reads of its own row is the delivery's attempt.
LEMMA ReadAttemptsStep ==
  ASSUME IInv, NEW w \in Workers, NEW s \in Slots, ReadAttempts(w, s)
  PROVE  IInv'
<1> DEFINE p == IF Exhausted(job[w][s].task) THEN "exhausted" ELSE "retry"
<1>1. Busy(w, s)
  BY DEF ReadAttempts, Busy
<1>2. p \in Readings /\ job' = [job EXCEPT ![w][s].phase = p]
  BY DEF ReadAttempts, Readings
<1>3. p = "retry" => job[w][s].attempt < MaxAttempts
  BY <1>1, BusyRuns, JobShape, RowRanges DEF Exhausted, IInv
<1>4. orphaned' \subseteq Tasks
  BY DEF ReadAttempts, IInv, ProcTypeOK
<1> HIDE DEF p
<1> QED BY <1>1, <1>2, <1>3, <1>4, PhaseStep DEF ReadAttempts

\* Recording an outcome lets the row go.
LEMMA RecordStep ==
  ASSUME IInv, NEW w \in Workers, NEW s \in Slots, Record(w, s)
  PROVE  IInv'
<1> DEFINE t == job[w][s].task
<1>1. Busy(w, s) /\ t \in Tasks /\ Running(t)
  BY BusyRuns DEF Record, Busy, Results, Readings
<1>2. /\ Outcome(t, job[w][s].attempt, job[w][s].phase) /\ GiveBack(w, s)
      /\ job[w][s].phase = "retry" => row[t].attempts < MaxAttempts
  BY <1>1, BusyRuns DEF Record, IInv, DeliveryInv, JobOwns
<1>3. /\ RowInv'
      /\ \A x \in Tasks \ {t} : ~ Pending(x) => row'[x] = row[x]
      /\ \A x \in Tasks \ {t} : row'[x].status = row[x].status
  BY <1>1, <1>2, OutcomeRows DEF IInv
<1>4. \A x \in Tasks : Pending(x) => Pending(x)'
  BY <1>1, <1>3 DEF Pending, Running
<1>5. ProcTypeOK'
  BY <1>2 DEF Record, GiveBack, Orphan, IInv, ProcTypeOK
<1> QED BY <1>1, <1>2, <1>3, <1>4, <1>5, LetGoStep DEF Record, GiveBack

\* An outcome that is lost leaves the row running, with no delivery.
LEMMA RecordFailsStep ==
  ASSUME IInv, NEW w \in Workers, NEW s \in Slots, RecordFails(w, s)
  PROVE  IInv'
<1>1. Busy(w, s) /\ job[w][s].task \in Tasks
  BY BusyRuns DEF RecordFails, Busy, Results, Readings
<1>2. ProcTypeOK'
  BY <1>1 DEF RecordFails, GiveBack, Orphan, IInv, ProcTypeOK
<1>3. RowInv'
  BY DEF RecordFails, IInv, RowInv, RowTypeOK
<1>4. \A x \in Tasks : Pending(x) => Pending(x)'
  BY DEF RecordFails, Pending
<1> QED BY <1>1, <1>2, <1>3, <1>4, LetGoStep DEF RecordFails, GiveBack

\* SIGTERM sets two flags.
LEMMA RequestStopStep ==
  ASSUME IInv, NEW w \in Workers, RequestStop(w)
  PROVE  IInv'
<1>1. ProcTypeOK'
  BY DEF IInv, RequestStop, ProcTypeOK
<1>2. PlanAtCommit' /\ HandAtSubmit'
  BY DEF IInv, DeliveryInv, RequestStop, PlanAtCommit, HandAtSubmit
<1> QED BY <1>1, <1>2, QuietStep DEF RequestStop

\* A restarted process begins with nothing in hand.
LEMMA RestartStep ==
  ASSUME IInv, NEW w \in Workers, Restart(w)
  PROVE  IInv'
<1>1. ProcTypeOK'
  BY DEF IInv, Restart, Goto, ProcTypeOK
<1>2. PlanAtCommit' /\ HandAtSubmit'
  BY DEF IInv, DeliveryInv, Restart, Goto, PlanAtCommit, HandAtSubmit, ProcTypeOK
<1> QED BY <1>1, <1>2, QuietStep DEF Restart

\* A crash only lets go.
LEMMA CrashStep ==
  ASSUME IInv, NEW w \in Workers, Crash(w)
  PROVE  IInv'
<1> USE DEF IInv, DeliveryInv
<1> DEFINE none == [s \in Slots |-> Idle]
<1>1. /\ hand' = [hand EXCEPT ![w] = {}]
      /\ job' = [job EXCEPT ![w] = none]
      /\ plan' = [plan EXCEPT ![w] = {}]
      /\ Goto(w, "down")
      /\ UNCHANGED row
  BY DEF Crash
<1>2. none \in [Slots -> Job \union {Idle}] /\ \A s \in Slots : none[s].phase = "idle"
  BY DEF Idle
<1> HIDE DEF none
<1>3. HeldBy(w) \subseteq Tasks
  BY JobShape, HandShape DEF HeldBy
<1>4. ProcTypeOK'
  <2>1. 0 \in 0..ReclaimInterval /\ 0 \in 0..Cardinality(Slots)
    BY WorkerAssumption, FS_CardinalityType
  <2> QED BY <1>1, <1>2, <1>3, <2>1 DEF Crash, Goto, Orphan, ProcTypeOK
<1>5. /\ \A v \in Workers : hand'[v] \subseteq hand[v]
      /\ \A v \in Workers : plan'[v] \subseteq plan[v]
      /\ hand'[w] = {} /\ plan'[w] = {}
      /\ \A v \in Workers, s \in Slots :
           Busy(v, s)' => Busy(v, s) /\ job'[v][s] = job[v][s]
  BY <1>1, <1>2 DEF ProcTypeOK, Busy
<1>6. HandOwns' /\ JobOwns'
  BY <1>1, <1>5 DEF HandOwns, JobOwns, Owned
<1>7. HandApart' /\ HandJobApart' /\ JobApart'
  BY <1>5 DEF HandApart, HandJobApart, JobApart
<1>8. PlanWaits' /\ PlanApart'
  BY <1>1, <1>5 DEF PlanWaits, PlanApart, Pending
<1>9. PlanAtCommit' /\ HandAtSubmit'
  BY <1>1, <1>5 DEF PlanAtCommit, HandAtSubmit, Goto, ProcTypeOK
<1>10. RowInv'
  BY <1>1 DEF RowInv, RowTypeOK
<1> QED BY <1>4, <1>6, <1>7, <1>8, <1>9, <1>10

\* A request's new row is nobody's delivery.
LEMMA RequestEnqueuesStep ==
  ASSUME IInv, NEW u \in Users, NEW k \in Kinds, RequestEnqueues(u, k)
  PROVE  IInv'
<1>1. PICK delay \in EnqueueDelays : Enqueue(u, k, delay)
  BY DEF RequestEnqueues
<1>2. delay \in 0..MaxDelay
  BY WorkerAssumption
<1>3. ProcTypeOK' /\ PlanAtCommit' /\ HandAtSubmit'
  BY DEF IInv, DeliveryInv, RequestEnqueues, procVars, ProcTypeOK,
         PlanAtCommit, HandAtSubmit
<1> QED BY <1>1, <1>2, <1>3, NewRowStep DEF RequestEnqueues, procVars

\* Resuming parked rows moves waiting rows only.
LEMMA RetryNowStep ==
  ASSUME IInv, NEW u \in Users, RetryNow(u)
  PROVE  IInv'
<1> USE DEF IInv, DeliveryInv
<1>1. /\ RowInv'
      /\ \A t \in Tasks : ~ Pending(t) => row'[t] = row[t]
      /\ \A t \in Tasks : row'[t].status = row[t].status
  BY ResumeRows DEF RetryNow
<1>2. UNCHANGED <<procVars, killSwitch, refusing, orphaned>>
  BY DEF RetryNow
<1>3. ProcTypeOK' /\ PlanAtCommit' /\ HandAtSubmit'
  BY <1>2 DEF procVars, ProcTypeOK, PlanAtCommit, HandAtSubmit
<1>4. \A t \in Tasks, a \in 0..MaxAttempts : Owned(t, a) => Owned(t, a)'
  BY <1>1 DEF Owned, Pending
<1>5. \A t \in Tasks : Pending(t) => Pending(t)'
  BY <1>1 DEF Pending
<1> QED BY <1>1, <1>2, <1>3, <1>4, <1>5, OwnsStand, ApartStand, PlanStands
        DEF procVars

\* The kill switch is a flag.
LEMMA ThrowSwitchStep ==
  ASSUME IInv, ThrowSwitch
  PROVE  IInv'
<1>1. ProcTypeOK' /\ PlanAtCommit' /\ HandAtSubmit'
  BY DEF IInv, DeliveryInv, ThrowSwitch, procVars, ProcTypeOK,
         PlanAtCommit, HandAtSubmit
<1> QED BY <1>1, QuietStep DEF ThrowSwitch, procVars

\* An account that changes its mind touches no row.
LEMMA AccountChangesStep ==
  ASSUME IInv, NEW u \in Users, AccountChanges(u)
  PROVE  IInv'
<1>1. refusing' \subseteq Users
  BY DEF IInv, AccountChanges, ProcTypeOK
<1>2. ProcTypeOK' /\ PlanAtCommit' /\ HandAtSubmit'
  BY <1>1 DEF IInv, DeliveryInv, AccountChanges, procVars, ProcTypeOK,
              PlanAtCommit, HandAtSubmit
<1> QED BY <1>2, QuietStep DEF AccountChanges, procVars

\* The one step that leans on Prompt: time does not make an owned row stale.
LEMMA TickStep ==
  ASSUME Prompt, IInv, Tick
  PROVE  IInv'
<1> USE DEF IInv, DeliveryInv
<1>1. /\ RowInv'
      /\ \A t \in Tasks :
           /\ row'[t].status = row[t].status
           /\ Exists(t) => row'[t].attempts = row[t].attempts
           /\ row[t].age + 1 < VisibilityTimeout /\ Exists(t)
                => row'[t].age < VisibilityTimeout
  BY TickRows DEF Tick
<1>2. \A w \in Workers : reclaimIn'[w] \in 0..ReclaimInterval
  BY WorkerAssumption DEF Tick, ProcTypeOK
<1>3. ProcTypeOK'
  BY <1>2 DEF Tick, ProcTypeOK
<1>4. ASSUME NEW t \in Held, NEW a, t \in Tasks, Owned(t, a)
      PROVE  Owned(t, a)'
  <2>1. Running(t) /\ Exists(t)
    BY <1>4 DEF Owned, Running, Exists
  <2>2. row[t].age + 1 < VisibilityTimeout
    BY <2>1 DEF Tick
  <2> QED BY <1>1, <1>4, <2>1, <2>2 DEF Owned
<1>5. HandOwns'
  BY <1>4, HandShape DEF Tick, HandOwns, Held, HeldBy
<1>6. JobOwns'
  BY <1>4, JobShape DEF Tick, JobOwns, Held, HeldBy, Busy
<1>7. HandApart' /\ HandJobApart' /\ JobApart'
  BY ApartStand DEF Tick
<1>8. PlanWaits' /\ PlanApart'
  BY <1>1, PlanStands DEF Tick, Pending
<1>9. PlanAtCommit' /\ HandAtSubmit'
  BY DEF Tick, PlanAtCommit, HandAtSubmit
<1> QED BY <1>1, <1>3, <1>5, <1>6, <1>7, <1>8, <1>9

\* The invariant holds of an empty queue and fresh workers.
LEMMA InitInv ==
  ASSUME Init
  PROVE  IInv
<1>1. RowInv
  BY DEF Init, RowInv, RowTypeOK, Sound, Absent
<1>2. ProcTypeOK
  <2>1. 0 \in 0..ReclaimInterval /\ 0 \in 0..Cardinality(Slots)
    BY WorkerAssumption, FS_CardinalityType
  <2> QED BY <2>1 DEF Init, ProcTypeOK
<1>3. \A w \in Workers : hand[w] = {} /\ plan[w] = {} /\ \A s \in Slots : ~ Busy(w, s)
  BY DEF Init, Busy, Idle
<1>4. DeliveryInv
  BY <1>3 DEF DeliveryInv, HandOwns, JobOwns, HandApart, HandJobApart, JobApart,
              PlanWaits, PlanApart, PlanAtCommit, HandAtSubmit
<1> QED BY <1>1, <1>2, <1>4 DEF IInv

\* The invariant survives a step that changes nothing.
LEMMA StutterInv ==
  ASSUME IInv, UNCHANGED vars
  PROVE  IInv'
<1>1. ProcTypeOK' /\ PlanAtCommit' /\ HandAtSubmit'
  BY DEF IInv, DeliveryInv, vars, procVars, ProcTypeOK, PlanAtCommit, HandAtSubmit
<1> QED BY <1>1, QuietStep DEF vars, procVars

\* Every step preserves the invariant, within the visibility timeout.
LEMMA NextInv ==
  ASSUME Prompt, IInv, Next
  PROVE  IInv'
<1>1. ASSUME NEW w \in Workers, LoopStep(w) \/ LoopFails(w) \/ ProcessStep(w)
      PROVE  IInv'
  BY <1>1, TopStep, RecurStep, InsertStep, SelectStep, CommitStep, SubmitStep,
     WaitStep, ExitStep, PollFailsStep, CommitUnacknowledgedStep,
     RequestStopStep, CrashStep, RestartStep
     DEF LoopStep, LoopFails, ProcessStep
<1>2. ASSUME NEW w \in Workers, NEW s \in Slots, ThreadStep(w, s) \/ RecordFails(w, s)
      PROVE  IInv'
  BY <1>2, DispatchStep, HandlerReturnsStep, ReadAttemptsStep, RecordStep,
     RecordFailsStep
     DEF ThreadStep
<1>3. CASE Environment
  BY <1>3, RequestEnqueuesStep, RetryNowStep, AccountChangesStep,
     ThrowSwitchStep, TickStep DEF Environment
<1> QED BY <1>1, <1>2, <1>3 DEF Next

\* The invariant holds throughout, whenever handlers keep within the
\* visibility timeout.
THEOREM Invariance ==
  ASSUME Prompt
  PROVE  Spec => []IInv
<1>1. Init => IInv
  BY InitInv
<1>2. IInv /\ [Next]_vars => IInv'
  BY NextInv, StutterInv
<1> QED BY <1>1, <1>2, PTL DEF Spec

----------------------------------------------------------------------------
(* What the invariant gives.                                               *)

\* Every reachable state is well typed (Worker!TypeOK).
THEOREM TypeCorrect ==
  ASSUME Prompt
  PROVE  Spec => []TypeOK
<1>1. IInv => TypeOK
  BY DEF IInv, RowInv, ProcTypeOK, TypeOK
<1> QED BY <1>1, Invariance, PTL

\* If a task is in some hand, it is in one, and on no thread.
LEMMA HandAlone ==
  ASSUME IInv, NEW t \in Tasks, NEW x \in InHand(t)
  PROVE  InHand(t) = {x} /\ OnThread(t) = {}
<1> USE DEF IInv, DeliveryInv
<1>1. /\ x \in Workers \X Delivery /\ x[2] \in hand[x[1]] /\ x[2].task = t
      /\ x[1] \in Workers
  BY DEF InHand
<1>2. ASSUME NEW y \in InHand(t)
      PROVE  y = x
  <2>1. /\ y \in Workers \X Delivery /\ y[2] \in hand[y[1]] /\ y[2].task = t
        /\ y[1] \in Workers
    BY DEF InHand
  <2>2. y[1] = x[1]
    BY <1>1, <2>1 DEF HandApart
  <2>3. y[2].attempt = x[2].attempt
    BY <1>1, <2>1 DEF HandOwns, Owned
  <2>4. y[2] = x[2]
    BY <1>1, <2>1, <2>3 DEF Delivery
  <2> QED BY <1>1, <2>1, <2>2, <2>4
<1>3. OnThread(t) = {}
  BY <1>1 DEF OnThread, HandJobApart
<1> QED BY <1>2, <1>3

\* If a task is on some thread, it is on one, and in no hand.
LEMMA ThreadAlone ==
  ASSUME IInv, NEW t \in Tasks, NEW x \in OnThread(t)
  PROVE  OnThread(t) = {x} /\ InHand(t) = {}
<1> USE DEF IInv, DeliveryInv
<1>1. /\ x \in Workers \X Slots /\ x[1] \in Workers /\ x[2] \in Slots
      /\ Busy(x[1], x[2]) /\ job[x[1]][x[2]].task = t
  BY DEF OnThread
<1>2. ASSUME NEW y \in OnThread(t)
      PROVE  y = x
  <2>1. /\ y \in Workers \X Slots /\ y[1] \in Workers /\ y[2] \in Slots
        /\ Busy(y[1], y[2]) /\ job[y[1]][y[2]].task = t
    BY DEF OnThread
  <2>2. y[1] = x[1] /\ y[2] = x[2]
    BY <1>1, <2>1 DEF JobApart
  <2> QED BY <1>1, <2>1, <2>2
<1>3. InHand(t) = {}
  BY <1>1 DEF InHand, HandJobApart
<1> QED BY <1>2, <1>3

\* The deliveries of a task alive at once: none, or one and its row running.
LEMMA LiveDeliveries ==
  ASSUME IInv, NEW t \in Tasks
  PROVE  \/ Cardinality(InHand(t)) = 0 /\ Cardinality(OnThread(t)) = 0
         \/ /\ Cardinality(InHand(t)) + Cardinality(OnThread(t)) = 1
            /\ Running(t)
<1>1. Cardinality({}) = 0 /\ \A x : Cardinality({x}) = 1
  BY FS_EmptySet, FS_Singleton
<1>2. CASE InHand(t) = {} /\ OnThread(t) = {}
  BY <1>1, <1>2
<1>3. CASE InHand(t) # {}
  <2>1. PICK x : x \in InHand(t)
    BY <1>3
  <2>2. Running(t)
    BY <2>1 DEF IInv, DeliveryInv, InHand, HandOwns, Owned, Running
  <2>3. InHand(t) = {x} /\ OnThread(t) = {}
    BY <2>1, HandAlone
  <2>4. Cardinality(InHand(t)) = 1 /\ Cardinality(OnThread(t)) = 0
    BY <1>1, <2>3
  <2> QED BY <2>2, <2>4
<1>4. CASE OnThread(t) # {}
  <2>1. PICK x : x \in OnThread(t)
    BY <1>4
  <2>2. Running(t)
    BY <2>1 DEF IInv, DeliveryInv, OnThread, JobOwns, Owned, Running
  <2>3. OnThread(t) = {x} /\ InHand(t) = {}
    BY <2>1, ThreadAlone
  <2>4. Cardinality(InHand(t)) = 0 /\ Cardinality(OnThread(t)) = 1
    BY <1>1, <2>3
  <2> QED BY <2>2, <2>4
<1> QED BY <1>2, <1>3, <1>4

\* Attempts are never overspent, nor refunded below the deliveries alive
\* (Worker!AttemptsBounded).
THEOREM AttemptsStayBounded ==
  ASSUME Prompt
  PROVE  Spec => []AttemptsBounded
<1>1. ASSUME IInv
      PROVE  AttemptsBounded
  <2>1. ASSUME NEW t \in Tasks, Exists(t)
        PROVE  /\ Pending(t) => row[t].attempts < MaxAttempts
               /\ row[t].attempts >= Cardinality(InHand(t)) + Cardinality(OnThread(t))
    <3>1. row[t].attempts \in 0..MaxAttempts
      BY <1>1, <2>1, PresentRow DEF IInv, RowInv, Row
    <3>2. Sound(row[t])
      BY <1>1 DEF IInv, RowInv
    <3> QED BY <1>1, <3>1, <3>2, LiveDeliveries, RowRanges
            DEF Sound, Pending, Running
  <2> QED BY <2>1 DEF AttemptsBounded
<1> QED BY <1>1, Invariance, PTL

\* No task is ever in two hands, and its row is its delivery's
\* (Worker!OneDelivery).
THEOREM DeliveredOnce ==
  ASSUME Prompt
  PROVE  Spec => []OneDelivery
<1>1. ASSUME IInv
      PROVE  OneDelivery
  <2> USE DEF IInv, DeliveryInv
  <2>1. ASSUME NEW t \in Tasks
        PROVE  Cardinality(InHand(t)) + Cardinality(OnThread(t)) <= 1
    BY <1>1, LiveDeliveries
  <2>2. ASSUME NEW t \in Tasks, t \in Held
        PROVE  Running(t) /\ ~ Stale(t)
    <3>1. PICK a : Owned(t, a)
      BY <1>1, <2>2 DEF Held, HeldBy, HandOwns, JobOwns
    <3>2. Running(t)
      BY <3>1 DEF Owned, Running
    <3>3. row[t].age \in 0..VisibilityTimeout
      BY <1>1, <3>2, PresentRow DEF RowInv, Running, Exists, Row
    <3> QED BY <3>1, <3>2, <3>3, QueueAssumption DEF Owned, Stale
  <2>3. ASSUME NEW t \in Tasks, NEW w \in Workers, NEW d \in hand[w], d.task = t
        PROVE  d.attempt = row[t].attempts
    BY <1>1, <2>3 DEF HandOwns, Owned
  <2>4. ASSUME NEW t \in Tasks, NEW w \in Workers, NEW s \in Slots,
               Busy(w, s), job[w][s].task = t
        PROVE  job[w][s].attempt = row[t].attempts
    BY <1>1, <2>4 DEF JobOwns, Owned
  <2> QED BY <2>1, <2>2, <2>3, <2>4 DEF OneDelivery
<1> QED BY <1>1, Invariance, PTL
----------------------------------------------------------------------------
(* Every step of the workers is a move of the lifecycle or a stutter, so a *)
(* task that has ended stays ended.                                        *)

\* What a step may do to one row, in the lifecycle's terms.
RowMoves(t) ==
  \/ /\ row'[t].status = row[t].status
     /\ Exists(t) => row'[t].attempts = row[t].attempts
     /\ row[t].status \in Terminal => row'[t] = row[t]
  \/ ~ Exists(t) /\ row'[t].status = "pending" /\ row'[t].attempts = 0
  \/ /\ t \notin Handling /\ Pending(t) /\ row'[t].status = "running"
     /\ row[t].attempts < MaxAttempts
     /\ row'[t].attempts = row[t].attempts + 1
  \/ /\ t \notin Handling /\ Running(t) /\ row'[t].status = "pending"
     /\ \/ row[t].attempts < MaxAttempts /\ row'[t].attempts = row[t].attempts
        \/ row[t].attempts >= 1 /\ row'[t].attempts = row[t].attempts - 1
  \/ /\ t \notin Handling /\ Running(t) /\ row'[t].status \in Terminal
     /\ row'[t].attempts = row[t].attempts

\* A step moves rows, or changes which handlers run: begins one or ends some.
Effect ==
  \/ (\A t \in Tasks : RowMoves(t)) /\ Handling' = Handling
  \/ row' = row /\ Handling' \subseteq Handling
  \/ /\ row' = row
     /\ \E t \in Tasks : /\ Running(t) /\ t \notin Handling
                         /\ Handling' = Handling \union {t}

----------------------------------------------------------------------------
(* Every step is an Effect.                                                *)

\* A task being handled is running and not stale.
LEMMA HandledRuns ==
  ASSUME IInv, NEW t \in Handling
  PROVE  t \in Tasks /\ Running(t) /\ ~ Stale(t)
<1>1. t \in Tasks
  BY DEF Handling
<1>2. PICK w \in Workers, s \in Slots : Busy(w, s) /\ job[w][s].task = t
  BY DEF Handling, Busy
<1>3. Owned(t, job[w][s].attempt)
  BY <1>2 DEF IInv, DeliveryInv, JobOwns
<1>4. Running(t)
  BY <1>3 DEF Owned, Running
<1>5. row[t].age \in 0..VisibilityTimeout
  BY <1>1, <1>4, PresentRow DEF IInv, RowInv, Running, Exists, Row
<1> QED BY <1>1, <1>3, <1>4, <1>5, QueueAssumption DEF Owned, Stale

\* A thread at another phase does not have its task handled elsewhere.
LEMMA NotHandled ==
  ASSUME IInv, NEW w \in Workers, NEW s \in Slots, Busy(w, s),
         job[w][s].phase # "handling"
  PROVE  job[w][s].task \notin Handling
<1>1. ASSUME NEW v \in Workers, NEW r \in Slots,
             job[v][r].phase = "handling", job[v][r].task = job[w][s].task
      PROVE  FALSE
  <2>1. Busy(v, r)
    BY <1>1 DEF Busy
  <2>2. v = w /\ r = s
    BY <1>1, <2>1 DEF IInv, DeliveryInv, JobApart
  <2> QED BY <1>1, <2>2
<1> QED BY <1>1 DEF Handling

\* With the threads as they were, so is the set of running handlers.
LEMMA SameJobs ==
  ASSUME job' = job
  PROVE  Handling' = Handling
BY DEF Handling

\* A row left alone moves, trivially.
LEMMA SameRow ==
  ASSUME NEW t \in Tasks, row'[t] = row[t]
  PROVE  RowMoves(t)
BY DEF RowMoves

\* The reclaim sweep moves rows whose handlers are gone.
LEMMA TopEffect ==
  ASSUME IInv, NEW w \in Workers, Top(w)
  PROVE  Effect
<1>1. CASE row' = row
  BY <1>1, SameJobs DEF Top, Effect
<1>2. CASE ReclaimStale
  <2>1. /\ \A t \in Tasks : ~ Stale(t) => row'[t] = row[t]
        /\ \A t \in Tasks : Stale(t) =>
             /\ row'[t].status \in {"pending", "failed"}
             /\ row'[t].attempts = row[t].attempts
             /\ row'[t].status = "pending" => row[t].attempts < MaxAttempts
    BY <1>2, ReclaimRows DEF IInv
  <2>2. \A t \in Tasks : Stale(t) => RowMoves(t)
    BY <2>1, HandledRuns DEF RowMoves, Stale, Terminal
  <2>3. \A t \in Tasks : RowMoves(t)
    BY <2>1, <2>2, SameRow
  <2> QED BY <2>3, SameJobs DEF Top, Effect
<1> QED BY <1>1, <1>2 DEF Top

\* A claim moves waiting rows to running, one attempt each.
LEMMA ClaimEffect ==
  ASSUME IInv, NEW w \in Workers, Claim(plan[w])
  PROVE  \A t \in Tasks : RowMoves(t)
<1>1. plan[w] \in SUBSET Tasks /\ \A t \in plan[w] : Pending(t)
  BY DEF IInv, DeliveryInv, ProcTypeOK, PlanWaits
<1>2. /\ \A t \in Tasks \ plan[w] : row'[t] = row[t]
      /\ \A t \in plan[w] : /\ row'[t].status = "running"
                            /\ row'[t].attempts = row[t].attempts + 1
                            /\ row[t].attempts < MaxAttempts
  BY <1>1, ClaimRows DEF IInv
<1>3. \A t \in plan[w] : t \notin Handling
  BY <1>1, HandledRuns DEF Pending, Running
<1>4. \A t \in plan[w] : RowMoves(t)
  BY <1>1, <1>2, <1>3 DEF RowMoves
<1> QED BY <1>2, <1>4, SameRow

\* A new row is posted, and the others are kept.
LEMMA EnqueueEffect ==
  ASSUME IInv, NEW u \in Users, NEW k \in Kinds, NEW delay \in 0..MaxDelay,
         Enqueue(u, k, delay)
  PROVE  \A t \in Tasks : RowMoves(t)
<1>1. /\ \A t \in Tasks : Exists(t) => row'[t] = row[t]
      /\ \A t \in Tasks : row'[t] # row[t] =>
           row'[t].status = "pending" /\ row'[t].attempts = 0
  BY EnqueueRows DEF IInv
<1> QED BY <1>1, SameRow DEF RowMoves

\* The maintenance insert posts a row, or none when the table is full.
LEMMA InsertEffect ==
  ASSUME IInv, NEW w \in Workers, Insert(w)
  PROVE  Effect
<1>1. CASE Enqueue(System, Recurring, 0)
  <2>1. System \in Users /\ Recurring \in Kinds /\ 0 \in 0..MaxDelay
    BY QueueAssumption, WorkerAssumption DEF Kinds
  <2> QED BY <1>1, <2>1, EnqueueEffect, SameJobs DEF Insert, Effect
<1>2. CASE UNCHANGED row
  BY <1>2, SameJobs DEF Insert, Effect
<1> QED BY <1>1, <1>2 DEF Insert

\* Giving a delivery to a thread, or taking one off it that was not being
\* handled, leaves the handlers running as they were.
LEMMA JobUpdate ==
  ASSUME IInv, NEW w \in Workers, NEW s \in Slots, NEW new,
         job' = [job EXCEPT ![w][s] = new]
  PROVE  /\ job'[w][s] = new
         /\ \A v \in Workers, r \in Slots : <<v, r>> # <<w, s>> => job'[v][r] = job[v][r]
BY DEF IInv, ProcTypeOK

\* A thread that is in a handler neither before nor after is quiet.
LEMMA QuietThread ==
  ASSUME IInv, NEW w \in Workers, NEW s \in Slots, NEW new,
         job' = [job EXCEPT ![w][s] = new],
         job[w][s].phase # "handling", new.phase # "handling"
  PROVE  Handling' = Handling
BY JobUpdate DEF Handling

\* Handing a delivery to a thread starts no handler yet.
LEMMA SubmitEffect ==
  ASSUME IInv, NEW w \in Workers, Submit(w)
  PROVE  Effect
<1>1. row' = row
  BY DEF Submit
<1>2. CASE job' = job
  BY <1>1, <1>2, SameJobs DEF Effect
<1>3. CASE hand[w] # {}
  <2>1. PICK d \in hand[w], s \in Slots :
          /\ ~ Busy(w, s)
          /\ job' = [job EXCEPT ![w][s] = [task |-> d.task,
                       attempt |-> d.attempt, phase |-> "submitted"]]
    BY <1>3 DEF Submit
  <2> DEFINE new == [task |-> d.task, attempt |-> d.attempt, phase |-> "submitted"]
  <2>2. job' = [job EXCEPT ![w][s] = new] /\ new.phase = "submitted"
    BY <2>1
  <2> HIDE DEF new
  <2>3. job[w][s].phase = "idle"
    BY <2>1 DEF Busy
  <2> QED BY <1>1, <2>2, <2>3, QuietThread DEF Effect
<1> QED BY <1>2, <1>3 DEF Submit

\* A thread past its handler gives its slot back quietly.
LEMMA GiveBackQuiet ==
  ASSUME IInv, NEW w \in Workers, NEW s \in Slots, GiveBack(w, s),
         job[w][s].phase # "handling"
  PROVE  Handling' = Handling
<1>1. job' = [job EXCEPT ![w][s] = Idle] /\ Idle.phase # "handling"
  BY DEF GiveBack, Idle
<1> QED BY <1>1, QuietThread

\* Dispatch begins a handler, or releases a row no handler runs.
LEMMA DispatchEffect ==
  ASSUME IInv, NEW w \in Workers, NEW s \in Slots, Dispatch(w, s)
  PROVE  Effect
<1> DEFINE t == job[w][s].task
<1>1. /\ Busy(w, s) /\ t \in Tasks /\ Running(t)
      /\ job[w][s].phase = "submitted" /\ t \notin Handling
  BY BusyRuns, NotHandled DEF Dispatch, Busy
<1>2. CASE SwitchedOff(t)
  <2>1. Release(t, RefuseDelay, "other") /\ GiveBack(w, s)
    BY <1>2 DEF Dispatch
  <2>2. RefuseDelay \in 0..MaxDelay /\ "other" \in Notes
    BY WorkerAssumption DEF Notes
  <2>3. /\ \A x \in Tasks \ {t} : row'[x] = row[x]
        /\ row'[t].status = "pending" /\ row'[t].attempts = row[t].attempts - 1
        /\ row[t].attempts >= 1
    BY <1>1, <2>1, <2>2, ReleaseRows DEF IInv
  <2>4. RowMoves(t)
    BY <1>1, <2>3 DEF RowMoves
  <2>5. \A x \in Tasks : RowMoves(x)
    BY <2>3, <2>4, SameRow
  <2>6. Handling' = Handling
    BY <1>1, <2>1, GiveBackQuiet
  <2> QED BY <2>5, <2>6 DEF Effect
<1>3. CASE ~ SwitchedOff(t)
  <2>1. job' = [job EXCEPT ![w][s].phase = "handling"] /\ row' = row
    BY <1>3 DEF Dispatch
  <2> DEFINE new == [job[w][s] EXCEPT !.phase = "handling"]
  <2>2. job[w][s] \in Job
    BY <1>1, JobShape DEF IInv
  <2>3. new.phase = "handling" /\ new.task = t
    BY <2>2 DEF Job
  <2>4. job' = [job EXCEPT ![w][s] = new]
    BY <2>1
  <2> HIDE DEF new
  <2>5. /\ job'[w][s] = new
        /\ \A v \in Workers, r \in Slots : <<v, r>> # <<w, s>> => job'[v][r] = job[v][r]
    BY <2>4 DEF IInv, ProcTypeOK
  <2>6. \A x \in Tasks : x \in Handling' <=> x \in Handling \/ x = t
    BY <1>1, <2>3, <2>5 DEF Handling
  <2>7. Handling \subseteq Tasks /\ Handling' \subseteq Tasks
    BY DEF Handling
  <2>8. Handling' = Handling \union {t}
    BY <1>1, <2>6, <2>7
  <2> QED BY <1>1, <2>1, <2>8 DEF Effect
<1> QED BY <1>2, <1>3

\* A handler that returns ends one activity and moves no row.
LEMMA HandlerReturnsEffect ==
  ASSUME IInv, NEW w \in Workers, NEW s \in Slots, HandlerReturns(w, s)
  PROVE  Effect
<1>1. PICK p \in Results : job' = [job EXCEPT ![w][s].phase = p]
  BY DEF HandlerReturns
<1> DEFINE new == [job[w][s] EXCEPT !.phase = p]
<1>2. job[w][s] \in Job
  BY JobShape DEF HandlerReturns, Busy, IInv
<1>3. new.phase # "handling"
  BY <1>2 DEF Job, Results
<1>4. job' = [job EXCEPT ![w][s] = new]
  BY <1>1
<1> HIDE DEF new
<1>5. Handling' \subseteq Handling
  BY <1>3, <1>4, JobUpdate DEF Handling
<1> QED BY <1>5 DEF HandlerReturns, Effect

\* mark_failed's read is made after the handler has returned, and moves no row.
LEMMA ReadAttemptsEffect ==
  ASSUME IInv, NEW w \in Workers, NEW s \in Slots, ReadAttempts(w, s)
  PROVE  Effect
<1>1. PICK p \in Readings : job' = [job EXCEPT ![w][s].phase = p]
  BY DEF ReadAttempts, Readings
<1> DEFINE new == [job[w][s] EXCEPT !.phase = p]
<1>2. job[w][s] \in Job
  BY JobShape DEF ReadAttempts, Busy, IInv
<1>3. new.phase # "handling"
  BY <1>2 DEF Job, Readings
<1>4. job' = [job EXCEPT ![w][s] = new]
  BY <1>1
<1> HIDE DEF new
<1>5. Handling' \subseteq Handling
  BY <1>3, <1>4, JobUpdate DEF Handling
<1> QED BY <1>5 DEF ReadAttempts, Effect

\* Recording moves the row of a handler that has ended.
LEMMA RecordEffect ==
  ASSUME IInv, NEW w \in Workers, NEW s \in Slots, Record(w, s)
  PROVE  Effect
<1> DEFINE t == job[w][s].task
<1>1. /\ Busy(w, s) /\ t \in Tasks /\ Running(t)
      /\ job[w][s].phase # "handling" /\ t \notin Handling
  BY BusyRuns, NotHandled DEF Record, Busy, Results, Readings
<1>2. /\ Outcome(t, job[w][s].attempt, job[w][s].phase) /\ GiveBack(w, s)
      /\ job[w][s].phase = "retry" => row[t].attempts < MaxAttempts
  BY <1>1, BusyRuns DEF Record, IInv, DeliveryInv, JobOwns
<1>3. /\ \A x \in Tasks \ {t} : ~ Pending(x) => row'[x] = row[x]
      /\ \A x \in Tasks \ {t} : /\ row'[x].status = row[x].status
                                /\ Pending(x) => row'[x].attempts = row[x].attempts
      /\ \/ row'[t].status \in Terminal /\ row'[t].attempts = row[t].attempts
         \/ /\ row'[t].status = "pending"
            /\ row[t].attempts < MaxAttempts
            /\ row'[t].attempts = row[t].attempts
         \/ /\ row'[t].status = "pending"
            /\ row[t].attempts >= 1
            /\ row'[t].attempts = row[t].attempts - 1
  BY <1>1, <1>2, OutcomeRows DEF IInv
<1>4. RowMoves(t)
  BY <1>1, <1>3 DEF RowMoves
<1>5. \A x \in Tasks \ {t} : RowMoves(x)
  BY <1>3 DEF RowMoves, Pending, Terminal
<1>6. Handling' = Handling
  BY <1>1, <1>2, GiveBackQuiet
<1> QED BY <1>4, <1>5, <1>6 DEF Effect

\* A lost outcome moves no row.
LEMMA RecordFailsEffect ==
  ASSUME IInv, NEW w \in Workers, NEW s \in Slots, RecordFails(w, s)
  PROVE  Effect
<1>1. job[w][s].phase # "handling"
  BY DEF RecordFails, Results, Readings
<1>2. Handling' = Handling
  BY <1>1, GiveBackQuiet DEF RecordFails
<1> QED BY <1>2 DEF RecordFails, Effect

\* A crash ends handlers and moves no row.
LEMMA CrashEffect ==
  ASSUME IInv, NEW w \in Workers, Crash(w)
  PROVE  Effect
<1> DEFINE none == [s \in Slots |-> Idle]
<1>1. job' = [job EXCEPT ![w] = none] /\ row' = row
  BY DEF Crash
<1>2. \A s \in Slots : none[s].phase = "idle"
  BY DEF Idle
<1> HIDE DEF none
<1>3. Handling' \subseteq Handling
  BY <1>1, <1>2 DEF Handling, IInv, ProcTypeOK
<1> QED BY <1>1, <1>3 DEF Effect

\* Requests and the clock move no row whose handler runs.
LEMMA EnvironmentEffect ==
  ASSUME IInv, Environment
  PROVE  Effect
<1>1. job' = job
  BY DEF Environment, RequestEnqueues, RetryNow, AccountChanges, ThrowSwitch,
         Tick, procVars
<1>2. ASSUME NEW u \in Users, NEW k \in Kinds, RequestEnqueues(u, k)
      PROVE  \A t \in Tasks : RowMoves(t)
  <2>1. PICK delay \in EnqueueDelays : Enqueue(u, k, delay)
    BY <1>2 DEF RequestEnqueues
  <2>2. delay \in 0..MaxDelay
    BY WorkerAssumption
  <2> QED BY <2>1, <2>2, EnqueueEffect
<1>3. ASSUME NEW u \in Users, RetryNow(u)
      PROVE  \A t \in Tasks : RowMoves(t)
  <2>1. /\ \A t \in Tasks : ~ Pending(t) => row'[t] = row[t]
        /\ \A t \in Tasks : /\ row'[t].status = row[t].status
                            /\ Pending(t) => row'[t].attempts = row[t].attempts
    BY <1>3, ResumeRows DEF RetryNow, IInv
  <2> QED BY <2>1 DEF RowMoves, Pending, Terminal
<1>4. ASSUME Tick
      PROVE  \A t \in Tasks : RowMoves(t)
  <2>1. \A t \in Tasks : /\ row'[t].status = row[t].status
                         /\ Exists(t) => row'[t].attempts = row[t].attempts
                         /\ row[t].status \notin Unfinished => row'[t] = row[t]
    BY <1>4, TickRows DEF Tick, IInv
  <2> QED BY <2>1 DEF RowMoves, Terminal, Unfinished
<1>5. ASSUME UNCHANGED row
      PROVE  \A t \in Tasks : RowMoves(t)
  BY <1>5, SameRow
<1>6. \A t \in Tasks : RowMoves(t)
  BY <1>2, <1>3, <1>4, <1>5 DEF Environment, ThrowSwitch, AccountChanges
<1> QED BY <1>1, <1>6, SameJobs DEF Effect

\* Every step has one of the three effects the lifecycle knows.
LEMMA NextEffect ==
  ASSUME IInv, [Next]_vars
  PROVE  Effect
<1>1. ASSUME NEW w \in Workers, Recur(w) \/ Select(w) \/ Wait(w) \/ Exit(w)
                  \/ PollFails(w) \/ RequestStop(w) \/ Restart(w)
      PROVE  row' = row /\ job' = job
  BY <1>1 DEF Recur, Select, Wait, Exit, PollFails, RequestStop, Restart
<1>2. ASSUME NEW w \in Workers, Commit(w) \/ CommitUnacknowledged(w)
      PROVE  Effect
  <2>1. Claim(plan[w]) /\ job' = job
    BY <1>2 DEF Commit, CommitUnacknowledged
  <2> QED BY <2>1, ClaimEffect, SameJobs DEF Effect
<1>3. ASSUME UNCHANGED vars
      PROVE  row' = row /\ job' = job
  BY <1>3 DEF vars, procVars
<1>4. ASSUME row' = row, job' = job
      PROVE  Effect
  BY <1>4, SameJobs DEF Effect
<1>5. ASSUME NEW w \in Workers, LoopStep(w) \/ LoopFails(w) \/ ProcessStep(w)
      PROVE  Effect
  BY <1>1, <1>2, <1>4, <1>5, TopEffect, InsertEffect, SubmitEffect, CrashEffect
     DEF LoopStep, LoopFails, ProcessStep
<1>6. ASSUME NEW w \in Workers, NEW s \in Slots, ThreadStep(w, s) \/ RecordFails(w, s)
      PROVE  Effect
  BY <1>6, DispatchEffect, HandlerReturnsEffect, ReadAttemptsEffect, RecordEffect,
     RecordFailsEffect
     DEF ThreadStep
<1> QED BY <1>3, <1>4, <1>5, <1>6, EnvironmentEffect DEF Next

----------------------------------------------------------------------------
(* Effects are moves of the lifecycle.                                     *)

\* Row moves with the handlers standing are a Move of the lifecycle.
LEMMA MoveMaps ==
  ASSUME IInv, IInv', \A t \in Tasks : RowMoves(t), Handling' = Handling
  PROVE  Life!Move
<1>1. ASSUME NEW t \in Tasks
      PROVE  \/ Life!Kept(t)
             \/ Life!Posted(t)
             \/ /\ t \notin Handling
                /\ \/ Life!HandedOut(t) \/ Life!TakenBack(t)
                   \/ Life!Refused(t) \/ Life!Ended(t)
  <2>1. RowMoves(t)
    OBVIOUS
  <2>2. CASE /\ row'[t].status = row[t].status
             /\ Exists(t) => row'[t].attempts = row[t].attempts
    BY <2>2 DEF Life!Kept, Exists
  <2>3. CASE ~ Exists(t) /\ row'[t].status = "pending" /\ row'[t].attempts = 0
    BY <2>3 DEF Life!Posted, Exists
  <2>4. CASE /\ t \notin Handling /\ Pending(t) /\ row'[t].status = "running"
             /\ row[t].attempts < MaxAttempts
             /\ row'[t].attempts = row[t].attempts + 1
    BY <2>4 DEF Life!HandedOut, Exists, Pending
  <2>5. CASE /\ t \notin Handling /\ Running(t) /\ row'[t].status = "pending"
             /\ row[t].attempts < MaxAttempts /\ row'[t].attempts = row[t].attempts
    BY <2>5 DEF Life!TakenBack, Exists, Running
  <2>6. CASE /\ t \notin Handling /\ Running(t) /\ row'[t].status = "pending"
             /\ row[t].attempts >= 1 /\ row'[t].attempts = row[t].attempts - 1
    <3>1. row[t].attempts \in 0..MaxAttempts
      BY <2>6, PresentRow DEF IInv, RowInv, Running, Exists, Row
    <3>2. row[t].attempts > 0
      BY <2>6, <3>1, RowRanges
    <3> QED BY <2>6, <3>2 DEF Life!Refused, Exists, Running
  <2>7. CASE /\ t \notin Handling /\ Running(t) /\ row'[t].status \in Terminal
             /\ row'[t].attempts = row[t].attempts
    BY <2>7 DEF Life!Ended, Life!Settled, Exists, Running, Terminal
  <2> QED BY <2>1, <2>2, <2>3, <2>4, <2>5, <2>6, <2>7 DEF RowMoves
<1> QED BY <1>1 DEF Life!Move

\* Each effect is a step of the lifecycle.
LEMMA StepMaps ==
  ASSUME IInv, IInv', Effect
  PROVE  Life!LifeNext
<1>1. CASE (\A t \in Tasks : RowMoves(t)) /\ Handling' = Handling
  BY <1>1, MoveMaps DEF Life!LifeNext
<1>2. ASSUME row' = row
      PROVE  \A t \in Tasks : Life!Kept(t)
  BY <1>2 DEF Life!Kept, Exists
<1>3. CASE row' = row /\ Handling' \subseteq Handling
  BY <1>2, <1>3 DEF Life!LifeNext, Life!End
<1>4. CASE /\ row' = row
           /\ \E t \in Tasks : /\ Running(t) /\ t \notin Handling
                               /\ Handling' = Handling \union {t}
  <2>1. PICK t \in Tasks : /\ Running(t) /\ t \notin Handling
                           /\ Handling' = Handling \union {t}
    BY <1>4
  <2>2. Life!Begin(t)
    BY <1>2, <1>4, <2>1 DEF Life!Begin, Running
  <2> QED BY <2>2 DEF Life!LifeNext
<1> QED BY <1>1, <1>3, <1>4 DEF Effect

\* The workers implement the lifecycle the queue promises (Worker!Implements).
THEOREM WorkerImplementsLifecycle ==
  ASSUME Prompt
  PROVE  Spec => Implements
<1>1. Init => Life!LifeInit
  <2>1. ASSUME Init
        PROVE  /\ \A t \in Tasks : ~ Exists(t) /\ row[t].status = "absent"
               /\ Handling = {}
    BY <2>1 DEF Init, Exists, Absent, Handling, Idle
  <2> QED BY <2>1 DEF Life!LifeInit
<1>2. IInv /\ IInv' /\ [Next]_vars => [Life!LifeNext]_(Life!lifeVars)
  BY NextEffect, StepMaps
<1>3. Spec => []IInv
  BY Invariance
<1> QED BY <1>1, <1>2, <1>3, PTL DEF Spec, Implements, Life!LifeSpec

\* A row that has succeeded or failed is never written again
\* (Worker!FinishedStaysFinished).
THEOREM FinishedIsFinal ==
  ASSUME Prompt
  PROVE  Spec => FinishedStaysFinished
<1>1. ASSUME IInv, [Next]_vars, NEW t \in Tasks, row[t].status \in Terminal
      PROVE  row'[t] = row[t]
  <2>1. Effect
    BY <1>1, NextEffect
  <2>2. RowMoves(t) => row'[t] = row[t]
    BY <1>1 DEF RowMoves, Terminal, Exists, Pending, Running
  <2> QED BY <2>1, <2>2 DEF Effect
<1>2. IInv /\ [Next]_vars =>
        [\A t \in Tasks : row[t].status \in Terminal => row'[t] = row[t]]_vars
  BY <1>1
<1> QED BY <1>2, Invariance, PTL DEF Spec, FinishedStaysFinished

----------------------------------------------------------------------------
(* Running rows are accounted for, with or without Prompt: who holds a row *)
(* is all this needs, not how long.                                        *)

\* The tables this is about are functions, whatever their values; and a row, even
\* one that is absent, has a status.
RowsShaped == /\ row = [t \in Tasks |-> row[t]]
              /\ \A t \in Tasks : "status" \in DOMAIN row[t]

Shaped ==
  /\ RowsShaped
  /\ loop = [w \in Workers |-> loop[w]]
  /\ hand = [w \in Workers |-> hand[w]]
  /\ job = [w \in Workers |-> [s \in Slots |-> job[w][s]]]

\* The loop has deliveries in hand only between claim and submission, or it would
\* drop them at the next claim.
AccountInv == Shaped /\ HandAtSubmit /\ RunningIsAccounted

\* Each statement keeps a row a row, and only a claim starts it.
LEMMA RowKeepsShape ==
  ASSUME NEW r, "status" \in DOMAIN r
  PROVE  /\ "status" \in DOMAIN Claimed(r)
         /\ "status" \in DOMAIN Succeeded(r) /\ Succeeded(r).status = "succeeded"
         /\ "status" \in DOMAIN GivenUp(r) /\ GivenUp(r).status = "failed"
         /\ \A delay, note :
              /\ "status" \in DOMAIN Requeued(r, delay, note)
              /\ Requeued(r, delay, note).status = "pending"
              /\ "status" \in DOMAIN Refunded(r, delay, note)
              /\ Refunded(r, delay, note).status = "pending"
         /\ \A x : /\ "status" \in DOMAIN [r EXCEPT !.wait = x]
                   /\ [r EXCEPT !.wait = x].status = r.status
         /\ \A x, n : /\ "status" \in DOMAIN [r EXCEPT !.wait = x, !.note = n]
                      /\ [r EXCEPT !.wait = x, !.note = n].status = r.status
         /\ "status" \in DOMAIN Older(r) /\ Older(r).status = r.status
<1>1. /\ "status" \in DOMAIN Claimed(r)
      /\ "status" \in DOMAIN Succeeded(r) /\ Succeeded(r).status = "succeeded"
      /\ "status" \in DOMAIN GivenUp(r) /\ GivenUp(r).status = "failed"
  BY DEF Claimed, Succeeded, GivenUp
<1>2. ASSUME NEW delay, NEW note
      PROVE  /\ "status" \in DOMAIN Requeued(r, delay, note)
             /\ Requeued(r, delay, note).status = "pending"
             /\ "status" \in DOMAIN Refunded(r, delay, note)
             /\ Refunded(r, delay, note).status = "pending"
  <2> DEFINE q == Requeued(r, delay, note)
  <2>1. "status" \in DOMAIN q /\ q.status = "pending"
    BY DEF Requeued
  <2>2. Refunded(r, delay, note) = [q EXCEPT !.attempts = @ - 1]
    BY DEF Refunded
  <2> HIDE DEF q
  <2>3. /\ "status" \in DOMAIN [q EXCEPT !.attempts = @ - 1]
        /\ [q EXCEPT !.attempts = @ - 1].status = "pending"
    BY <2>1
  <2> QED BY <2>1, <2>2, <2>3 DEF q
<1>3. "status" \in DOMAIN Older(r) /\ Older(r).status = r.status
  BY DEF Older
<1> QED BY <1>1, <1>2, <1>3

\* A worker's loop or one of its threads holds t.
HoldsTask(w, t) ==
  \/ \E d \in hand[w] : d.task = t
  \/ \E s \in Slots : Busy(w, s) /\ job[w][s].task = t

\* Being held is being held by some worker.
LEMMA HeldBySome == \A t : t \in Held <=> \E w \in Workers : HoldsTask(w, t)
BY DEF Held, HeldBy, HoldsTask

\* The same of the next state.
LEMMA HeldBySomeNext == \A t : t \in Held' <=> \E w \in Workers : HoldsTask(w, t)'
BY DEF Held, HeldBy, HoldsTask

\* Rows stay accounted for while none begins to run, and none is let go of but to
\* the orphans.
LEMMA AccountedStays ==
  ASSUME RunningIsAccounted,
         \A t \in Tasks : Running(t)' => Running(t),
         \A t \in Tasks : Running(t)' /\ t \in orphaned => t \in orphaned',
         \A t \in Tasks, w \in Workers :
           Running(t)' /\ HoldsTask(w, t) => t \in Held' \union orphaned'
  PROVE  RunningIsAccounted'
<1> SUFFICES ASSUME NEW t \in Tasks, Running(t)'
             PROVE  t \in Held' \union orphaned'
  BY DEF RunningIsAccounted
<1>1. t \in Held \union orphaned
  BY DEF RunningIsAccounted
<1> QED BY <1>1, HeldBySome

\* A step that leaves hands, threads and orphans alone and starts no row.
LEMMA AccountedUntouched ==
  ASSUME RunningIsAccounted, UNCHANGED <<hand, job, orphaned>>,
         \A t \in Tasks : Running(t)' => Running(t)
  PROVE  RunningIsAccounted'
<1>1. \A t \in Tasks, w \in Workers : HoldsTask(w, t) => HoldsTask(w, t)'
  BY DEF HoldsTask, Busy
<1> QED BY <1>1, HeldBySomeNext, AccountedStays

\* The sweep and the loop's own bookkeeping start nothing.
LEMMA TopAccounts ==
  ASSUME AccountInv, NEW w \in Workers, Top(w)
  PROVE  AccountInv'
<1> USE DEF AccountInv
<1>1. \A t \in Tasks : Running(t)' => Running(t)
  <2>1. CASE UNCHANGED row
    BY <2>1 DEF Running
  <2>2. CASE ReclaimStale
    BY <2>2, RowKeepsShape DEF ReclaimStale, Stale, Running, Shaped, RowsShaped
  <2> QED BY <2>1, <2>2 DEF Top
<1>2. \A t \in Tasks : Running(t)' /\ t \in orphaned => t \in orphaned'
  BY DEF Top, Orphan, Running
<1>3. \A t \in Tasks, v \in Workers : HoldsTask(v, t) => HoldsTask(v, t)'
  BY DEF Top, HoldsTask, Busy
<1>4. RunningIsAccounted'
  BY <1>1, <1>2, <1>3, HeldBySomeNext, AccountedStays
<1>5. RowsShaped'
  <2>1. CASE UNCHANGED row
    BY <2>1 DEF Shaped, RowsShaped
  <2>2. CASE ReclaimStale
    BY <2>2, RowKeepsShape DEF ReclaimStale, Shaped, RowsShaped
  <2> QED BY <2>1, <2>2 DEF Top
<1>6. Shaped'
  BY <1>5 DEF Top, Goto, Shaped
<1>7. HandAtSubmit'
  BY DEF Top, Goto, Shaped, HandAtSubmit
<1> QED BY <1>4, <1>6, <1>7

\* A step of the loop that claims and submits nothing.
LEMMA LoopAccounts ==
  ASSUME AccountInv, NEW w \in Workers, loop[w] # "submit",
         NEW pc, Goto(w, pc), UNCHANGED <<row, hand, job, orphaned>>
  PROVE  AccountInv'
<1> USE DEF AccountInv
<1>1. RunningIsAccounted'
  BY AccountedUntouched DEF Running
<1>2. Shaped'
  BY DEF Goto, Shaped, RowsShaped
<1>3. HandAtSubmit'
  BY DEF Goto, Shaped, HandAtSubmit
<1> QED BY <1>1, <1>2, <1>3

\* A step outside the loop that leaves hands, threads and orphans alone.
LEMMA OutsideAccounts ==
  ASSUME AccountInv, UNCHANGED <<loop, hand, job, orphaned>>,
         RowsShaped',
         \A t \in Tasks : Running(t)' => Running(t)
  PROVE  AccountInv'
<1> USE DEF AccountInv
<1>1. RunningIsAccounted'
  BY AccountedUntouched
<1> QED BY <1>1 DEF Shaped, HandAtSubmit

\* A new row waits.
LEMMA EnqueueStarts ==
  ASSUME Shaped, NEW u, NEW k, NEW delay, Enqueue(u, k, delay)
  PROVE  /\ RowsShaped'
         /\ \A t \in Tasks : Running(t)' => Running(t)
<1> DEFINE new == [status |-> "pending", user |-> u, kind |-> k, attempts |-> 0,
                   wait |-> delay, age |-> 0, note |-> "other"]
<1>1. PICK t \in Tasks : row' = [row EXCEPT ![t] = new]
  BY DEF Enqueue
<1>2. new.status = "pending" /\ "status" \in DOMAIN new
  OBVIOUS
<1> HIDE DEF new
<1> QED BY <1>1, <1>2 DEF Shaped, RowsShaped, Running

\* A maintenance row is inserted beside the others.
LEMMA InsertAccounts ==
  ASSUME AccountInv, NEW w \in Workers, Insert(w)
  PROVE  AccountInv'
<1> USE DEF AccountInv
<1>1. /\ RowsShaped'
      /\ \A t \in Tasks : Running(t)' => Running(t)
  <2>1. CASE Enqueue(System, Recurring, 0)
    BY <2>1, EnqueueStarts
  <2>2. CASE UNCHANGED row
    BY <2>2 DEF Shaped, RowsShaped, Running
  <2> QED BY <2>1, <2>2 DEF Insert
<1>2. RunningIsAccounted'
  BY <1>1, AccountedUntouched DEF Insert
<1>3. Shaped'
  BY <1>1 DEF Insert, Goto, Shaped
<1>4. HandAtSubmit'
  BY DEF Insert, Goto, Shaped, HandAtSubmit
<1> QED BY <1>2, <1>3, <1>4

\* What a claim starts is what it planned.
LEMMA ClaimStarts ==
  ASSUME Shaped, NEW w \in Workers, Claim(plan[w])
  PROVE  /\ RowsShaped'
         /\ \A t \in Tasks : Running(t)' => Running(t) \/ t \in plan[w]
BY RowKeepsShape DEF Claim, Running, Shaped, RowsShaped

\* ... and what a claim took, its worker has in hand.
LEMMA CommitAccounts ==
  ASSUME AccountInv, NEW w \in Workers, Commit(w)
  PROVE  AccountInv'
<1> USE DEF AccountInv
<1> DEFINE new == {[task |-> t, attempt |-> row[t].attempts + 1] : t \in plan[w]}
<1>1. /\ Claim(plan[w]) /\ Goto(w, "submit") /\ hand' = [hand EXCEPT ![w] = new]
      /\ hand[w] = {} /\ UNCHANGED <<job, orphaned>>
  BY DEF Commit, HandAtSubmit
<1>2. \A t \in plan[w] : \E d \in new : d.task = t
  <2> SUFFICES ASSUME NEW t \in plan[w]
               PROVE  \E d \in new : d.task = t
    OBVIOUS
  <2>1. [task |-> t, attempt |-> row[t].attempts + 1] \in new
    OBVIOUS
  <2> QED BY <2>1
<1> HIDE DEF new
<1>3. \A t \in plan[w] : HoldsTask(w, t)'
  BY <1>1, <1>2 DEF HoldsTask, Shaped, RowsShaped
<1>4. \A t \in Tasks, v \in Workers : HoldsTask(v, t) => HoldsTask(v, t)'
  BY <1>1 DEF HoldsTask, Busy, Shaped, RowsShaped
<1>5. RunningIsAccounted'
  <2> SUFFICES ASSUME NEW t \in Tasks, Running(t)'
               PROVE  t \in Held' \union orphaned'
    BY DEF RunningIsAccounted
  <2>1. CASE t \in plan[w]
    BY <1>3, <2>1, HeldBySomeNext
  <2>2. CASE Running(t)
    BY <1>1, <1>4, <2>2, HeldBySome, HeldBySomeNext DEF RunningIsAccounted
  <2> QED BY <1>1, <2>1, <2>2, ClaimStarts
<1>6. Shaped'
  BY <1>1, ClaimStarts DEF Goto, Shaped
<1>7. HandAtSubmit'
  BY <1>1 DEF Goto, Shaped, HandAtSubmit
<1> QED BY <1>5, <1>6, <1>7

\* A claim nobody hears of makes orphans of its rows.
LEMMA CommitUnacknowledgedAccounts ==
  ASSUME AccountInv, NEW w \in Workers, CommitUnacknowledged(w)
  PROVE  AccountInv'
<1> USE DEF AccountInv
<1>1. /\ Claim(plan[w]) /\ Goto(w, "top") /\ Orphan(plan[w])
      /\ UNCHANGED <<hand, job>> /\ loop[w] = "commit"
  BY DEF CommitUnacknowledged
<1>2. \A t \in Tasks, v \in Workers : HoldsTask(v, t) => HoldsTask(v, t)'
  BY <1>1 DEF HoldsTask, Busy
<1>3. \A t \in orphaned \union plan[w] : Running(t)' => t \in orphaned'
  BY <1>1 DEF Orphan, Running
<1>4. RunningIsAccounted'
  <2> SUFFICES ASSUME NEW t \in Tasks, Running(t)'
               PROVE  t \in Held' \union orphaned'
    BY DEF RunningIsAccounted
  <2>1. CASE t \in plan[w]
    BY <1>3, <2>1
  <2>2. CASE Running(t)
    BY <1>2, <1>3, <2>2, HeldBySome, HeldBySomeNext DEF RunningIsAccounted
  <2> QED BY <1>1, <2>1, <2>2, ClaimStarts
<1>5. Shaped'
  BY <1>1, ClaimStarts DEF Goto, Shaped
<1>6. HandAtSubmit'
  BY <1>1 DEF Goto, Shaped, HandAtSubmit
<1> QED BY <1>4, <1>5, <1>6

\* A delivery passes from the hand to an idle thread.
LEMMA SubmitAccounts ==
  ASSUME AccountInv, NEW w \in Workers, Submit(w)
  PROVE  AccountInv'
<1> USE DEF AccountInv
<1>1. CASE hand[w] = {}
  <2>1. RunningIsAccounted'
    BY <1>1, AccountedUntouched DEF Submit, Running
  <2>2. Shaped'
    BY <1>1 DEF Submit, Goto, Shaped, RowsShaped
  <2>3. HandAtSubmit'
    BY <1>1 DEF Submit, Goto, Shaped, HandAtSubmit
  <2> QED BY <2>1, <2>2, <2>3
<1>2. CASE hand[w] # {}
  <2> DEFINE new(d) == [task |-> d.task, attempt |-> d.attempt, phase |-> "submitted"]
  <2>1. PICK d \in hand[w], s \in Slots :
          /\ ~ Busy(w, s)
          /\ hand' = [hand EXCEPT ![w] = @ \ {d}]
          /\ job' = [job EXCEPT ![w][s] = new(d)]
          /\ UNCHANGED loop
    BY <1>2 DEF Submit
  <2>2. new(d).task = d.task /\ new(d).phase # "idle"
    OBVIOUS
  <2> HIDE DEF new
  <2>3. UNCHANGED <<row, orphaned>>
    BY DEF Submit
  <2>4. /\ hand'[w] = hand[w] \ {d}
        /\ \A v \in Workers \ {w} : hand'[v] = hand[v]
        /\ job'[w][s] = new(d)
        /\ \A v \in Workers, r \in Slots : <<v, r>> # <<w, s>> => job'[v][r] = job[v][r]
    BY <2>1 DEF Shaped, RowsShaped
  <2>5. ASSUME NEW t \in Tasks, NEW v \in Workers, HoldsTask(v, t)
        PROVE  HoldsTask(v, t)'
    <3>1. CASE \E e \in hand[v] : e.task = t
      BY <2>2, <2>4, <3>1 DEF HoldsTask, Busy
    <3>2. CASE \E r \in Slots : Busy(v, r) /\ job[v][r].task = t
      BY <2>1, <2>4, <3>2 DEF HoldsTask, Busy
    <3> QED BY <2>5, <3>1, <3>2 DEF HoldsTask
  <2>6. RunningIsAccounted'
    BY <2>3, <2>5, HeldBySomeNext, AccountedStays DEF Running
  <2>7. Shaped'
    BY <2>1, <2>3 DEF Shaped, RowsShaped
  <2>8. HandAtSubmit'
    BY <2>1, <2>4 DEF Submit, HandAtSubmit
  <2> QED BY <2>6, <2>7, <2>8
<1> QED BY <1>1, <1>2

\* A thread that goes on with its task still has it.
LEMMA PhaseAccounts ==
  ASSUME AccountInv, NEW w \in Workers, NEW s \in Slots, Busy(w, s),
         NEW p, p # "idle", job' = [job EXCEPT ![w][s].phase = p],
         UNCHANGED <<row, loop, hand>>,
         \A t \in Tasks : Running(t)' /\ t \in orphaned => t \in orphaned'
  PROVE  AccountInv'
<1> USE DEF AccountInv
<1>1. \A v \in Workers, r \in Slots :
        Busy(v, r) => Busy(v, r)' /\ job'[v][r].task = job[v][r].task
  <2> SUFFICES ASSUME NEW v \in Workers, NEW r \in Slots, Busy(v, r)
               PROVE  Busy(v, r)' /\ job'[v][r].task = job[v][r].task
    OBVIOUS
  <2>1. CASE v = w /\ r = s
    <3>1. job'[w][s] = [job[w][s] EXCEPT !.phase = p]
      BY DEF Shaped, RowsShaped
    <3> QED BY <2>1, <3>1 DEF Busy
  <2>2. CASE ~ (v = w /\ r = s)
    <3>1. job'[v][r] = job[v][r]
      BY <2>2 DEF Shaped, RowsShaped
    <3> QED BY <3>1 DEF Busy
  <2> QED BY <2>1, <2>2
<1>2. \A t \in Tasks, v \in Workers : HoldsTask(v, t) => HoldsTask(v, t)'
  BY <1>1 DEF HoldsTask
<1>3. RunningIsAccounted'
  BY <1>2, HeldBySomeNext, AccountedStays DEF Running
<1>4. Shaped'
  BY DEF Shaped, RowsShaped
<1> QED BY <1>3, <1>4 DEF HandAtSubmit

\* A thread that lets go leaves its row ended, waiting or an orphan.
LEMMA GiveBackAccounts ==
  ASSUME AccountInv, NEW w \in Workers, NEW s \in Slots, GiveBack(w, s),
         UNCHANGED <<loop, hand>>, RowsShaped',
         \A t \in Tasks : Running(t)' => Running(t),
         \A t \in Tasks : Running(t)' /\ t \in orphaned => t \in orphaned',
         \A t \in Tasks : t = job[w][s].task /\ Running(t)' => t \in orphaned'
  PROVE  AccountInv'
<1> USE DEF AccountInv
<1>1. \A v \in Workers, r \in Slots : <<v, r>> # <<w, s>> => job'[v][r] = job[v][r]
  BY DEF GiveBack, Shaped, RowsShaped
<1>2. ASSUME NEW t \in Tasks, NEW v \in Workers, Running(t)', HoldsTask(v, t)
      PROVE  t \in Held' \union orphaned'
  <2>1. CASE \E e \in hand[v] : e.task = t
    BY <2>1, HeldBySomeNext DEF HoldsTask
  <2>2. CASE \E r \in Slots : Busy(v, r) /\ job[v][r].task = t
    <3>1. PICK r \in Slots : Busy(v, r) /\ job[v][r].task = t
      BY <2>2
    <3>2. CASE v = w /\ r = s
      <4>1. t = job[w][s].task
        BY <3>1, <3>2
      <4> QED BY <1>2, <4>1
    <3>3. CASE ~ (v = w /\ r = s)
      <4>1. job'[v][r] = job[v][r]
        BY <1>1, <3>3
      <4>2. Busy(v, r)' /\ job'[v][r].task = t
        BY <3>1, <4>1 DEF Busy
      <4> QED BY <4>2, HeldBySomeNext DEF HoldsTask
    <3> QED BY <3>2, <3>3
  <2> QED BY <1>2, <2>1, <2>2 DEF HoldsTask
<1>3. RunningIsAccounted'
  BY <1>2, AccountedStays
<1>4. Shaped'
  <2>1. RowsShaped' /\ loop' = [v \in Workers |-> loop'[v]] /\ hand' = [v \in Workers |-> hand'[v]]
    BY DEF Shaped
  <2>2. job = [v \in Workers |-> [r \in Slots |-> job[v][r]]] /\ job' = [job EXCEPT ![w][s] = Idle]
    BY DEF GiveBack, Shaped
  <2>3. job' = [v \in Workers |-> IF v = w THEN [job[v] EXCEPT ![s] = Idle] ELSE job[v]]
    BY <2>2
  <2>4. \A v \in Workers : job[v] = [r \in Slots |-> job[v][r]]
    BY <2>2
  <2>5. \A v \in Workers : job'[v] = [r \in Slots |-> job'[v][r]]
    BY <2>3, <2>4
  <2>6. job' = [v \in Workers |-> job'[v]]
    BY <2>3
  <2>7. job' = [v \in Workers |-> [r \in Slots |-> job'[v][r]]]
    BY <2>5, <2>6
  <2> QED BY <2>1, <2>7 DEF Shaped
<1> QED BY <1>3, <1>4 DEF HandAtSubmit

\* What an outcome does to rows starts none, and stops its own.
LEMMA OutcomeStarts ==
  ASSUME Shaped, NEW t, NEW attempt, NEW result, Outcome(t, attempt, result)
  PROVE  /\ RowsShaped'
         /\ \A x \in Tasks : Running(x)' => Running(x) /\ x # t
<1> USE DEF Shaped, RowsShaped, Running
<1>1. CASE MarkSucceeded(t)
  BY <1>1, RowKeepsShape DEF MarkSucceeded
<1>2. CASE MarkFailed(t, result = "exhausted", RetryDelay(attempt))
  <2>1. CASE result = "exhausted"
    BY <1>2, <2>1, RowKeepsShape DEF MarkFailed
  <2>2. CASE result # "exhausted"
    BY <1>2, <2>2, RowKeepsShape DEF MarkFailed
  <2> QED BY <2>1, <2>2
<1>3. CASE FailPermanently(t)
  BY <1>3, RowKeepsShape DEF FailPermanently
<1>4. CASE Park(t)
  BY <1>4, RowKeepsShape DEF Park, ParkedWith, Pending
<1> QED BY <1>1, <1>2, <1>3, <1>4 DEF Outcome

\* A released row waits.
LEMMA DispatchAccounts ==
  ASSUME AccountInv, NEW w \in Workers, NEW s \in Slots, Dispatch(w, s)
  PROVE  AccountInv'
<1> USE DEF AccountInv
<1> DEFINE t == job[w][s].task
<1>1. \A x \in Tasks : Running(x)' /\ x \in orphaned => x \in orphaned'
  BY DEF Dispatch, Orphan, Running
<1>2. CASE SwitchedOff(t)
  <2>1. Release(t, RefuseDelay, "other") /\ GiveBack(w, s)
    BY <1>2 DEF Dispatch
  <2>2. /\ RowsShaped'
        /\ \A x \in Tasks : Running(x)' => Running(x) /\ x # t
    <3> HIDE DEF t
    <3> QED BY <2>1, RowKeepsShape DEF Release, Shaped, RowsShaped, Running
  <2> QED BY <1>1, <2>1, <2>2, GiveBackAccounts DEF Dispatch
<1>3. CASE ~ SwitchedOff(t)
  BY <1>1, <1>3, PhaseAccounts DEF Dispatch, Busy
<1> QED BY <1>2, <1>3

\* A recorded row runs no more.
LEMMA RecordAccounts ==
  ASSUME AccountInv, NEW w \in Workers, NEW s \in Slots, Record(w, s)
  PROVE  AccountInv'
<1> USE DEF AccountInv
<1>1. /\ RowsShaped'
      /\ \A x \in Tasks : Running(x)' => Running(x) /\ x # job[w][s].task
  BY OutcomeStarts DEF Record
<1>2. \A x \in Tasks : Running(x)' /\ x \in orphaned => x \in orphaned'
  BY DEF Record, Orphan, Running
<1> QED BY <1>1, <1>2, GiveBackAccounts DEF Record

\* An outcome that cannot be recorded makes an orphan.
LEMMA RecordFailsAccounts ==
  ASSUME AccountInv, NEW w \in Workers, NEW s \in Slots, RecordFails(w, s)
  PROVE  AccountInv'
<1> USE DEF AccountInv
<1>1. GiveBack(w, s) /\ UNCHANGED <<row, loop, hand>> /\ Orphan({job[w][s].task})
  BY DEF RecordFails
<1>2. \A x \in orphaned \union {job[w][s].task} : Running(x)' => x \in orphaned'
  BY <1>1 DEF Orphan, Running
<1>3. RowsShaped' /\ \A x \in Tasks : Running(x)' => Running(x)
  BY <1>1 DEF Shaped, RowsShaped, Running
<1> QED BY <1>1, <1>2, <1>3, GiveBackAccounts

\* Everything a killed worker held is orphaned.
LEMMA CrashAccounts ==
  ASSUME AccountInv, NEW w \in Workers, Crash(w)
  PROVE  AccountInv'
<1> USE DEF AccountInv
<1>1. /\ UNCHANGED row /\ Orphan(HeldBy(w)) /\ Goto(w, "down")
      /\ hand' = [hand EXCEPT ![w] = {}]
      /\ job' = [job EXCEPT ![w] = [s \in Slots |-> Idle]]
  BY DEF Crash
<1>2. \A t \in orphaned \union HeldBy(w) : Running(t)' => t \in orphaned'
  BY <1>1 DEF Orphan, Running
<1>3. \A t : HoldsTask(w, t) => t \in HeldBy(w)
  BY DEF HoldsTask, HeldBy
<1>4. \A v \in Workers \ {w} : hand'[v] = hand[v] /\ job'[v] = job[v]
  BY <1>1 DEF Shaped, RowsShaped
<1>5. \A t : \A v \in Workers \ {w} : HoldsTask(v, t) => HoldsTask(v, t)'
  BY <1>4 DEF HoldsTask, Busy
<1>6. RunningIsAccounted'
  BY <1>1, <1>2, <1>3, <1>5, HeldBySomeNext, AccountedStays DEF Running
<1>7. Shaped'
  BY <1>1 DEF Goto, Shaped, RowsShaped
<1>8. HandAtSubmit'
  BY <1>1 DEF Goto, Shaped, RowsShaped, HandAtSubmit
<1> QED BY <1>6, <1>7, <1>8

\* Requests, the operator, the account and the clock start no row.
LEMMA EnvironmentAccounts ==
  ASSUME AccountInv, Environment
  PROVE  AccountInv'
<1> USE DEF AccountInv
<1>1. ASSUME NEW u, NEW k, RequestEnqueues(u, k)
      PROVE  AccountInv'
  BY <1>1, EnqueueStarts, OutsideAccounts DEF RequestEnqueues, procVars
<1>2. ASSUME NEW u, RetryNow(u)
      PROVE  AccountInv'
  <2>1. /\ RowsShaped'
        /\ \A t \in Tasks : Running(t)' => Running(t)
    BY <1>2, RowKeepsShape DEF RetryNow, ResumeParked, Shaped, RowsShaped, Running
  <2> QED BY <1>2, <2>1, OutsideAccounts DEF RetryNow, procVars
<1>3. CASE UNCHANGED <<row, procVars, orphaned>>
  BY <1>3, OutsideAccounts DEF procVars, Shaped, RowsShaped, Running
<1>4. CASE Tick
  <2>1. /\ RowsShaped'
        /\ \A t \in Tasks : Running(t)' => Running(t)
    BY <1>4, RowKeepsShape DEF Tick, Shaped, RowsShaped, Running
  <2> QED BY <1>4, <2>1, OutsideAccounts DEF Tick
<1> QED BY <1>1, <1>2, <1>3, <1>4 DEF Environment, ThrowSwitch, AccountChanges
\* Every step keeps running rows accounted for.
LEMMA NextAccounts ==
  ASSUME AccountInv, [Next]_vars
  PROVE  AccountInv'
<1>1. ASSUME NEW w \in Workers, LoopStep(w) \/ LoopFails(w)
      PROVE  AccountInv'
  <2>1. CASE Recur(w) \/ Select(w) \/ Wait(w) \/ Exit(w) \/ PollFails(w)
    BY <2>1, LoopAccounts DEF Recur, Select, Wait, Exit, PollFails
  <2> QED BY <1>1, <2>1, TopAccounts, InsertAccounts, CommitAccounts, SubmitAccounts,
             CommitUnacknowledgedAccounts DEF LoopStep, LoopFails
<1>2. ASSUME NEW w \in Workers, ProcessStep(w)
      PROVE  AccountInv'
  <2>1. CASE RequestStop(w)
    BY <2>1, OutsideAccounts DEF RequestStop, AccountInv, Shaped, RowsShaped, Running
  <2>2. CASE Restart(w)
    BY <2>2, LoopAccounts DEF Restart
  <2> QED BY <1>2, <2>1, <2>2, CrashAccounts DEF ProcessStep
<1>3. ASSUME NEW w \in Workers, NEW s \in Slots, ThreadStep(w, s) \/ RecordFails(w, s)
      PROVE  AccountInv'
  <2>1. CASE HandlerReturns(w, s)
    <3>1. PICK p \in Results : job' = [job EXCEPT ![w][s].phase = p]
      BY <2>1 DEF HandlerReturns
    <3>2. p # "idle"
      BY DEF Results
    <3> QED BY <2>1, <3>1, <3>2, PhaseAccounts DEF HandlerReturns, Busy
  <2>2. CASE ReadAttempts(w, s)
    <3> DEFINE p == IF Exhausted(job[w][s].task) THEN "exhausted" ELSE "retry"
    <3>1. p # "idle"
      OBVIOUS
    <3>2. job' = [job EXCEPT ![w][s].phase = p]
      BY <2>2 DEF ReadAttempts
    <3>3. /\ Busy(w, s) /\ UNCHANGED <<row, loop, hand>>
          /\ \A t \in Tasks : t \in orphaned => t \in orphaned'
      BY <2>2 DEF ReadAttempts, Busy
    <3> HIDE DEF p
    <3> QED BY <3>1, <3>2, <3>3, PhaseAccounts
  <2> QED BY <1>3, <2>1, <2>2, DispatchAccounts, RecordAccounts, RecordFailsAccounts
          DEF ThreadStep
<1>4. CASE UNCHANGED vars
  BY <1>4, OutsideAccounts DEF vars, procVars, AccountInv, Shaped, RowsShaped, Running
<1> QED BY <1>1, <1>2, <1>3, <1>4, EnvironmentAccounts DEF Next

\* A running row is worked on or known to be orphaned, however long deliveries last
\* and whatever fails (Worker!RunningIsAccounted).
THEOREM RunningAccounted == Spec => []RunningIsAccounted
<1>1. Init => AccountInv
  <2> SUFFICES ASSUME Init
               PROVE  AccountInv
    OBVIOUS
  <2>1. Shaped
    BY DEF Init, Shaped, RowsShaped, Absent
  <2>2. HandAtSubmit
    BY DEF Init, HandAtSubmit
  <2>3. RunningIsAccounted
    BY DEF Init, Absent, Running, RunningIsAccounted
  <2> QED BY <2>1, <2>2, <2>3 DEF AccountInv
<1>2. AccountInv /\ [Next]_vars => AccountInv'
  BY NextAccounts
<1>3. AccountInv => RunningIsAccounted
  BY DEF AccountInv
<1> QED BY <1>1, <1>2, <1>3, PTL DEF Spec

----------------------------------------------------------------------------
(* Free threads are used: what a worker has planned, claimed and started   *)
(* fits its pool, and it sleeps on no slot given back unseen.              *)

\* Of a finite set of rows in queue order, at most n come first.
LEMMA FirstBound ==
  ASSUME NEW S \in SUBSET Tasks, \A t \in S : row[t].wait \in Int, NEW n \in Nat
  PROVE  IsFiniteSet(First(S, n)) /\ Cardinality(First(S, n)) <= n
<1> DEFINE Ahead(t) == {s \in S : Before(s, t)}
           F == First(S, n)
           place == [t \in F |-> Cardinality(Ahead(t))]
<1>1. IsFiniteSet(S) /\ F \subseteq S
  BY QueueAssumption, FS_Subset DEF First
<1>2. \A t \in S : IsFiniteSet(Ahead(t)) /\ Cardinality(Ahead(t)) \in Nat
  BY <1>1, FS_Subset, FS_CardinalityType
<1>3. \A s, t \in S : s # t => Before(s, t) \/ Before(t, s)
  <2>1. \A t \in S : t \in Nat /\ row[t].wait \in Int
    BY QueueAssumption
  <2> QED BY <2>1 DEF Before
<1>4. ASSUME NEW r \in S, NEW s \in S, NEW t \in S, Before(r, s), Before(s, t)
      PROVE  Before(r, t)
  <2>1. r \in Nat /\ s \in Nat /\ t \in Nat
    BY QueueAssumption
  <2>2. row[r].wait \in Int /\ row[s].wait \in Int /\ row[t].wait \in Int
    OBVIOUS
  <2> QED BY <1>4, <2>1, <2>2 DEF Before
<1>5. \A t \in S : ~ Before(t, t)
  <2>1. \A t \in S : t \in Nat /\ row[t].wait \in Int
    BY QueueAssumption
  <2> QED BY <2>1 DEF Before
<1>6. ASSUME NEW s \in S, NEW t \in S, Before(s, t)
      PROVE  Cardinality(Ahead(s)) < Cardinality(Ahead(t))
  <2>1. Ahead(s) \subseteq Ahead(t)
    BY <1>4, <1>6
  <2>2. s \in Ahead(t) /\ s \notin Ahead(s)
    BY <1>5, <1>6
  <2>3. IsFiniteSet(Ahead(s)) /\ IsFiniteSet(Ahead(t))
    BY <1>2
  <2> HIDE DEF Ahead
  <2>4. /\ Cardinality(Ahead(s)) <= Cardinality(Ahead(t))
        /\ Cardinality(Ahead(s)) # Cardinality(Ahead(t))
    BY <2>1, <2>2, <2>3, FS_Subset
  <2> QED BY <1>2, <2>4
<1>7. \A t \in F : Cardinality(Ahead(t)) < n
  BY DEF First
<1> HIDE DEF Ahead
<1>8. place \in Injection(F, 0..(n - 1))
  <2>1. place \in [F -> 0..(n - 1)]
    BY <1>1, <1>2, <1>7
  <2>2. ASSUME NEW s \in F, NEW t \in F, s # t
        PROVE  place[s] # place[t]
    BY <1>1, <1>2, <1>3, <1>6, <2>2
  <2> QED BY <2>1, <2>2 DEF Injection, IsInjective
<1>9. IsFiniteSet(0..(n - 1)) /\ Cardinality(0..(n - 1)) = n
  BY FS_Interval
<1> HIDE DEF place, F
<1>10. IsFiniteSet(F) /\ Cardinality(F) <= n
  BY <1>8, <1>9, FS_Injection
<1> QED BY <1>10 DEF F

\* What a worker has in hand is finite, so that it can be counted.
HandFinite == \A w \in Workers : IsFiniteSet(hand[w])

SlotsInv == HandFinite /\ FreeThreadsAreUsed

\* The busy threads of a worker, and how many.
BusyOf(w) == {s \in Slots : Busy(w, s)}

\* Threads can be counted, and none is busy twice.
LEMMA BusyCount ==
  ASSUME NEW w
  PROVE  /\ IsFiniteSet(BusyOf(w)) /\ InFlight(w) = Cardinality(BusyOf(w))
         /\ InFlight(w) \in Nat /\ InFlight(w) <= Cardinality(Slots)
         /\ Cardinality(Slots) \in Nat
<1>1. BusyOf(w) \subseteq Slots
  BY DEF BusyOf
<1>2. /\ IsFiniteSet(BusyOf(w)) /\ Cardinality(BusyOf(w)) <= Cardinality(Slots)
  BY <1>1, WorkerAssumption, FS_Subset
<1> QED BY <1>2, WorkerAssumption, FS_CardinalityType DEF BusyOf, InFlight

\* The same of the next state.
LEMMA BusyCountNext ==
  ASSUME NEW w
  PROVE  /\ IsFiniteSet(BusyOf(w)') /\ InFlight(w)' = Cardinality(BusyOf(w)')
         /\ InFlight(w)' \in Nat /\ InFlight(w)' <= Cardinality(Slots)
<1>1. BusyOf(w)' \subseteq Slots
  BY DEF BusyOf
<1>2. /\ IsFiniteSet(BusyOf(w)') /\ Cardinality(BusyOf(w)') <= Cardinality(Slots)
  BY <1>1, WorkerAssumption, FS_Subset
<1> QED BY <1>2, WorkerAssumption, FS_CardinalityType DEF BusyOf, InFlight

\* A claim's rows can be counted.
LEMMA PlanFinite ==
  ASSUME ProcTypeOK, NEW w \in Workers
  PROVE  IsFiniteSet(plan[w])
BY QueueAssumption, FS_Subset DEF ProcTypeOK

\* A step that takes nothing on, and wakes, or is not watched by, any worker whose
\* threads it frees.
LEMMA SlotsStay ==
  ASSUME ProcTypeOK, SlotsInv,
         \A v \in Workers : /\ plan'[v] \subseteq plan[v] /\ hand'[v] \subseteq hand[v]
                            /\ BusyOf(v)' \subseteq BusyOf(v),
         \A v \in Workers : \/ loop'[v] # "wait"
                            \/ wake'[v]
                            \/ /\ loop'[v] = loop[v] /\ wake'[v] = wake[v]
                               /\ free'[v] = free[v] /\ BusyOf(v)' = BusyOf(v)
  PROVE  SlotsInv'
<1>1. HandFinite'
  BY FS_Subset DEF SlotsInv, HandFinite
<1>2. NoMissedWake'
  <2> SUFFICES ASSUME NEW v \in Workers, loop'[v] = "wait", ~ wake'[v]
               PROVE  free'[v] = Cardinality(Slots) - InFlight(v)'
    BY DEF NoMissedWake
  <2>1. loop[v] = "wait" /\ ~ wake[v] /\ free'[v] = free[v] /\ BusyOf(v)' = BusyOf(v)
    OBVIOUS
  <2>2. InFlight(v)' = InFlight(v)
    BY <2>1, BusyCount, BusyCountNext
  <2> QED BY <2>1, <2>2 DEF SlotsInv, FreeThreadsAreUsed, NoMissedWake
<1>3. ClaimsFitSlots'
  <2> SUFFICES ASSUME NEW v \in Workers
               PROVE  Cardinality(plan'[v]) + Cardinality(hand'[v]) + InFlight(v)'
                        <= Cardinality(Slots)
    BY DEF ClaimsFitSlots
  <2>1. IsFiniteSet(plan[v]) /\ IsFiniteSet(hand[v])
    BY PlanFinite DEF SlotsInv, HandFinite
  <2>2. /\ Cardinality(plan'[v]) <= Cardinality(plan[v])
        /\ Cardinality(hand'[v]) <= Cardinality(hand[v])
        /\ IsFiniteSet(plan'[v]) /\ IsFiniteSet(hand'[v])
    BY <2>1, FS_Subset
  <2>3. Cardinality(BusyOf(v)') <= Cardinality(BusyOf(v))
    BY BusyCount, FS_Subset
  <2>4. /\ Cardinality(plan[v]) \in Nat /\ Cardinality(plan'[v]) \in Nat
        /\ Cardinality(hand[v]) \in Nat /\ Cardinality(hand'[v]) \in Nat
    BY <2>1, <2>2, FS_CardinalityType
  <2>5. InFlight(v)' \in Nat /\ InFlight(v) \in Nat /\ InFlight(v)' <= InFlight(v)
        /\ Cardinality(Slots) \in Nat
    BY <2>3, BusyCount, BusyCountNext
  <2>6. Cardinality(plan[v]) + Cardinality(hand[v]) + InFlight(v) <= Cardinality(Slots)
    BY DEF SlotsInv, FreeThreadsAreUsed, ClaimsFitSlots
  <2> QED BY <2>2, <2>4, <2>5, <2>6
<1> QED BY <1>1, <1>2, <1>3 DEF SlotsInv, FreeThreadsAreUsed

\* The other workers are as they were.
OthersStay(w) ==
  \A v \in Workers \ {w} :
    /\ plan'[v] = plan[v] /\ hand'[v] = hand[v] /\ job'[v] = job[v]
    /\ loop'[v] = loop[v] /\ wake'[v] = wake[v] /\ free'[v] = free[v]

\* Then one worker's step is judged by that worker.
LEMMA SlotsOfOne ==
  ASSUME ProcTypeOK, SlotsInv, NEW w \in Workers, OthersStay(w),
         IsFiniteSet(hand'[w]),
         Cardinality(plan'[w]) + Cardinality(hand'[w]) + InFlight(w)' <= Cardinality(Slots),
         loop'[w] = "wait" => free'[w] = Cardinality(Slots) - InFlight(w)'
  PROVE  SlotsInv'
<1>1. \A v \in Workers \ {w} : InFlight(v)' = InFlight(v)
  BY DEF OthersStay, InFlight, Busy
<1> QED BY <1>1 DEF OthersStay, SlotsInv, HandFinite, FreeThreadsAreUsed,
                    NoMissedWake, ClaimsFitSlots

\* The SELECT takes no more rows than there are free threads; with none to take the
\* count it read is what the loop sleeps on.
LEMMA SelectSlots ==
  ASSUME IInv, SlotsInv, NEW w \in Workers, Select(w)
  PROVE  SlotsInv'
<1> USE DEF IInv, DeliveryInv
<1> DEFINE slots == Cardinality(Slots) - InFlight(w)
           chosen == ClaimSet(RunnableKinds, slots, Locked)
<1>1. /\ loop[w] = "select" /\ UNCHANGED <<hand, job, wake>>
      /\ \/ /\ plan' = [plan EXCEPT ![w] = chosen]
            /\ Goto(w, "commit") /\ UNCHANGED free
         \/ /\ Goto(w, "wait") /\ free' = [free EXCEPT ![w] = slots]
            /\ UNCHANGED plan
  BY DEF Select
<1>2. slots \in Nat /\ slots + InFlight(w) = Cardinality(Slots) /\ InFlight(w)' = InFlight(w)
  <2>1. InFlight(w)' = InFlight(w)
    BY <1>1 DEF InFlight, Busy
  <2> QED BY <2>1, BusyCount
<1>3. Cardinality(chosen) <= slots
  <2> DEFINE S == Candidates(RunnableKinds, Locked)
  <2>1. S \subseteq Tasks /\ \A t \in S : row[t].wait \in Int
    BY PresentRow, QueueAssumption DEF Candidates, RowInv, Pending, Exists, Row
  <2>2. chosen \subseteq First(S, slots)
    BY DEF ClaimSet, Window
  <2> HIDE DEF S, slots, chosen
  <2>3. IsFiniteSet(First(S, slots)) /\ Cardinality(First(S, slots)) <= slots
    BY <1>2, <2>1, FirstBound
  <2>4. /\ Cardinality(chosen) <= Cardinality(First(S, slots)) /\ IsFiniteSet(chosen)
    BY <2>2, <2>3, FS_Subset
  <2> QED BY <1>2, <2>3, <2>4, FS_CardinalityType
<1>4. IsFiniteSet(chosen) /\ IsFiniteSet(plan[w])
  <2>1. chosen \subseteq Tasks
    BY ClaimSetRows
  <2> QED BY <2>1, PlanFinite, QueueAssumption, FS_Subset
<1> HIDE DEF slots, chosen
<1>5. plan[w] = {} /\ hand[w] = {} /\ Cardinality({}) = 0
  BY <1>1, FS_EmptySet DEF PlanAtCommit, HandAtSubmit
<1>6. OthersStay(w)
  BY <1>1 DEF Goto, ProcTypeOK, OthersStay
<1>7. IsFiniteSet(hand'[w]) /\ Cardinality(hand'[w]) = 0
  BY <1>1, <1>5, FS_EmptySet
<1>8. Cardinality(plan'[w]) + Cardinality(hand'[w]) + InFlight(w)' <= Cardinality(Slots)
  <2>1. Cardinality(plan'[w]) <= slots
    <3>1. plan'[w] = chosen \/ plan'[w] = {}
      BY <1>1, <1>5 DEF ProcTypeOK
    <3> QED BY <1>2, <1>3, <1>5, <3>1
  <2>2. Cardinality(plan'[w]) \in Nat
    BY <1>1, <1>4, FS_CardinalityType DEF ProcTypeOK
  <2> QED BY <1>2, <1>7, <2>1, <2>2, BusyCount
<1>9. loop'[w] = "wait" => free'[w] = slots
  BY <1>1 DEF Goto, ProcTypeOK
<1>10. slots = Cardinality(Slots) - InFlight(w)'
  BY <1>2 DEF slots
<1> QED BY <1>6, <1>7, <1>8, <1>9, <1>10, SlotsOfOne

\* A claim has in hand what it had planned.
LEMMA CommitSlots ==
  ASSUME IInv, SlotsInv, NEW w \in Workers, Commit(w)
  PROVE  SlotsInv'
<1> USE DEF IInv, DeliveryInv
<1> DEFINE delivery(t) == [task |-> t, attempt |-> row[t].attempts + 1]
           new == {delivery(t) : t \in plan[w]}
           made == [t \in plan[w] |-> delivery(t)]
<1>1. /\ hand' = [hand EXCEPT ![w] = new] /\ plan' = [plan EXCEPT ![w] = {}]
      /\ Goto(w, "submit") /\ UNCHANGED <<job, wake, free>> /\ hand[w] = {}
  BY DEF Commit, HandAtSubmit
<1>2. IsFiniteSet(new) /\ Cardinality(new) <= Cardinality(plan[w])
  <2>1. made \in Surjection(plan[w], new)
    BY DEF Surjection
  <2> HIDE DEF made, new
  <2> QED BY <2>1, PlanFinite, FS_Surjection
<1> HIDE DEF new, made
<1>3. OthersStay(w)
  BY <1>1 DEF Goto, ProcTypeOK, OthersStay
<1>4. /\ hand'[w] = new /\ plan'[w] = {} /\ loop'[w] # "wait"
      /\ InFlight(w)' = InFlight(w) /\ Cardinality({}) = 0
  BY <1>1, FS_EmptySet DEF Goto, ProcTypeOK, InFlight, Busy
<1>5. Cardinality(plan[w]) + Cardinality(hand[w]) + InFlight(w) <= Cardinality(Slots)
  BY DEF SlotsInv, FreeThreadsAreUsed, ClaimsFitSlots
<1>6. Cardinality(plan[w]) \in Nat /\ Cardinality(new) \in Nat /\ InFlight(w) \in Nat
      /\ Cardinality(Slots) \in Nat
  BY <1>2, PlanFinite, BusyCount, FS_CardinalityType
<1>7. Cardinality(plan'[w]) + Cardinality(hand'[w]) + InFlight(w)' <= Cardinality(Slots)
  BY <1>1, <1>2, <1>4, <1>5, <1>6
<1> QED BY <1>2, <1>3, <1>4, <1>7, SlotsOfOne

\* A delivery in hand becomes a busy thread.
LEMMA SubmitSlots ==
  ASSUME IInv, SlotsInv, NEW w \in Workers, Submit(w)
  PROVE  SlotsInv'
<1> USE DEF IInv, DeliveryInv
<1>1. CASE hand[w] = {}
  <2>1. /\ \A v \in Workers : BusyOf(v)' = BusyOf(v)
        /\ UNCHANGED <<plan, hand, wake, free>> /\ Goto(w, "top")
    BY <1>1 DEF Submit, BusyOf, Busy
  <2>2. loop'[w] = "top" /\ \A v \in Workers \ {w} : loop'[v] = loop[v]
    BY <2>1 DEF Goto, ProcTypeOK
  <2> QED BY <2>1, <2>2, SlotsStay
<1>2. CASE hand[w] # {}
  <2>1. PICK d \in hand[w], s \in Slots :
          /\ ~ Busy(w, s)
          /\ hand' = [hand EXCEPT ![w] = @ \ {d}]
          /\ job' = [job EXCEPT ![w][s] = [task |-> d.task,
                       attempt |-> d.attempt, phase |-> "submitted"]]
          /\ UNCHANGED loop
    BY <1>2 DEF Submit
  <2>2. UNCHANGED <<plan, wake, free>> /\ loop[w] = "submit"
    BY DEF Submit
  <2>3. /\ hand'[w] = hand[w] \ {d} /\ job'[w][s].phase = "submitted"
        /\ \A r \in Slots \ {s} : job'[w][r] = job[w][r]
    BY <2>1 DEF ProcTypeOK
  <2>4. BusyOf(w)' = BusyOf(w) \union {s} /\ s \notin BusyOf(w)
    BY <2>1, <2>3 DEF BusyOf, Busy
  <2>5. InFlight(w)' = InFlight(w) + 1
    BY <2>4, BusyCount, BusyCountNext, FS_AddElement
  <2>6. IsFiniteSet(hand[w])
    BY DEF SlotsInv, HandFinite
  <2>7. IsFiniteSet(hand'[w]) /\ Cardinality(hand'[w]) = Cardinality(hand[w]) - 1
    BY <2>3, <2>6, FS_RemoveElement
  <2>8. Cardinality(plan[w]) + Cardinality(hand[w]) + InFlight(w) <= Cardinality(Slots)
    BY DEF SlotsInv, FreeThreadsAreUsed, ClaimsFitSlots
  <2>9. /\ Cardinality(plan[w]) \in Nat /\ Cardinality(hand[w]) \in Nat
        /\ InFlight(w) \in Nat /\ Cardinality(Slots) \in Nat
    BY <2>6, PlanFinite, BusyCount, FS_CardinalityType
  <2>10. Cardinality(plan'[w]) + Cardinality(hand'[w]) + InFlight(w)' <= Cardinality(Slots)
    BY <2>2, <2>5, <2>7, <2>8, <2>9
  <2>11. OthersStay(w)
    BY <2>1, <2>2 DEF ProcTypeOK, OthersStay
  <2> QED BY <2>1, <2>2, <2>7, <2>10, <2>11, SlotsOfOne
<1> QED BY <1>1, <1>2

\* A thread that goes on, or that gives its slot back and wakes the loop.
LEMMA ThreadSlots ==
  ASSUME ProcTypeOK, SlotsInv, NEW w \in Workers, NEW s \in Slots, Busy(w, s),
         UNCHANGED <<loop, free, plan, hand>>,
         \/ GiveBack(w, s)
         \/ \E p : p # "idle" /\ job' = [job EXCEPT ![w][s].phase = p] /\ UNCHANGED wake
  PROVE  SlotsInv'
<1>1. CASE GiveBack(w, s)
  <2>1. \A v \in Workers : BusyOf(v)' \subseteq BusyOf(v)
    BY <1>1 DEF GiveBack, BusyOf, Busy, Idle, ProcTypeOK
  <2>2. wake'[w] /\ \A v \in Workers \ {w} : wake'[v] = wake[v] /\ BusyOf(v)' = BusyOf(v)
    BY <1>1 DEF GiveBack, BusyOf, Busy, ProcTypeOK
  <2> QED BY <2>1, <2>2, SlotsStay
<1>2. ASSUME NEW p, p # "idle", job' = [job EXCEPT ![w][s].phase = p], UNCHANGED wake
      PROVE  SlotsInv'
  <2>1. \A v \in Workers, r \in Slots : Busy(v, r)' = Busy(v, r)
    <3> SUFFICES ASSUME NEW v \in Workers, NEW r \in Slots
                 PROVE  Busy(v, r)' = Busy(v, r)
      OBVIOUS
    <3>1. CASE v = w /\ r = s
      <4>1. job[w][s] \in Job
        BY JobShape
      <4>2. job'[w][s] = [job[w][s] EXCEPT !.phase = p]
        BY <1>2 DEF ProcTypeOK
      <4>3. job'[w][s].phase = p
        BY <4>1, <4>2 DEF Job
      <4> QED BY <1>2, <3>1, <4>3 DEF Busy
    <3>2. CASE ~ (v = w /\ r = s)
      <4>1. job'[v][r] = job[v][r]
        BY <1>2, <3>2 DEF ProcTypeOK
      <4> QED BY <4>1 DEF Busy
    <3> QED BY <3>1, <3>2
  <2>2. \A v \in Workers : BusyOf(v)' = BusyOf(v)
    BY <2>1 DEF BusyOf
  <2> QED BY <1>2, <2>2, SlotsStay
<1> QED BY <1>1, <1>2

\* Every step keeps free threads used.
LEMMA NextSlots ==
  ASSUME IInv, SlotsInv, [Next]_vars
  PROVE  SlotsInv'
<1>0. ProcTypeOK
  BY DEF IInv
<1>1. ASSUME NEW w \in Workers,
             \/ Top(w) \/ Recur(w) \/ Insert(w) \/ Wait(w) \/ Exit(w) \/ PollFails(w)
             \/ CommitUnacknowledged(w) \/ RequestStop(w) \/ Restart(w)
      PROVE  SlotsInv'
  <2>1. UNCHANGED <<hand, job>>
    BY <1>1 DEF Top, Recur, Insert, Wait, Exit, PollFails, CommitUnacknowledged,
                RequestStop, Restart
  <2>2. \A v \in Workers : BusyOf(v)' = BusyOf(v)
    BY <2>1 DEF BusyOf, Busy
  <2>3. \A v \in Workers : plan'[v] \subseteq plan[v]
    BY <1>0, <1>1 DEF Top, Recur, Insert, Wait, Exit, PollFails, CommitUnacknowledged,
                      RequestStop, Restart, ProcTypeOK
  <2>4. \A v \in Workers \ {w} : /\ loop'[v] = loop[v] /\ wake'[v] = wake[v]
                                 /\ free'[v] = free[v]
    BY <1>0, <1>1 DEF Top, Recur, Insert, Wait, Exit, PollFails, CommitUnacknowledged,
                      RequestStop, Restart, Goto, ProcTypeOK
  <2>5. loop'[w] # "wait" \/ wake'[w]
    BY <1>0, <1>1 DEF Top, Recur, Insert, Wait, Exit, PollFails, CommitUnacknowledged,
                      RequestStop, Restart, Goto, ProcTypeOK
  <2> QED BY <1>0, <2>1, <2>2, <2>3, <2>4, <2>5, SlotsStay
<1>2. ASSUME NEW w \in Workers, Crash(w)
      PROVE  SlotsInv'
  <2>1. \A v \in Workers : /\ plan'[v] \subseteq plan[v] /\ hand'[v] \subseteq hand[v]
                           /\ BusyOf(v)' \subseteq BusyOf(v)
    BY <1>0, <1>2 DEF Crash, BusyOf, Busy, Idle, ProcTypeOK
  <2>2. \A v \in Workers : \/ loop'[v] # "wait"
                           \/ /\ loop'[v] = loop[v] /\ wake'[v] = wake[v]
                              /\ free'[v] = free[v] /\ BusyOf(v)' = BusyOf(v)
    BY <1>0, <1>2 DEF Crash, Goto, BusyOf, Busy, ProcTypeOK
  <2> QED BY <1>0, <2>1, <2>2, SlotsStay
<1>3. ASSUME NEW w \in Workers, NEW s \in Slots, ThreadStep(w, s) \/ RecordFails(w, s)
      PROVE  SlotsInv'
  <2>1. Busy(w, s) /\ UNCHANGED <<loop, free, plan, hand>>
    BY <1>3 DEF ThreadStep, Dispatch, HandlerReturns, ReadAttempts, Record, RecordFails,
                Results, Readings, Busy
  <2>2. \/ GiveBack(w, s)
        \/ \E p : p # "idle" /\ job' = [job EXCEPT ![w][s].phase = p] /\ UNCHANGED wake
    <3>1. CASE Dispatch(w, s)
      BY <3>1 DEF Dispatch
    <3>2. CASE HandlerReturns(w, s)
      BY <3>2 DEF HandlerReturns, Results
    <3>3. CASE ReadAttempts(w, s)
      BY <3>3 DEF ReadAttempts
    <3>4. CASE Record(w, s) \/ RecordFails(w, s)
      BY <3>4 DEF Record, RecordFails
    <3> QED BY <1>3, <3>1, <3>2, <3>3, <3>4 DEF ThreadStep
  <2> QED BY <1>0, <2>1, <2>2, ThreadSlots
<1>4. CASE Environment \/ UNCHANGED vars
  <2>1. UNCHANGED <<loop, wake, free, plan, hand, job>>
    BY <1>4 DEF Environment, RequestEnqueues, RetryNow, AccountChanges, ThrowSwitch,
                Tick, procVars, vars
  <2>2. \A v \in Workers : BusyOf(v)' = BusyOf(v)
    BY <2>1 DEF BusyOf, Busy
  <2> QED BY <1>0, <2>1, <2>2, SlotsStay
<1> QED BY <1>1, <1>2, <1>3, <1>4, SelectSlots, CommitSlots, SubmitSlots
        DEF Next, LoopStep, LoopFails, ProcessStep

\* The loop never sleeps on a slot that freed after it counted, and never takes a
\* row it has no thread for (Worker!NoMissedWake, Worker!ClaimsFitSlots).
THEOREM FreeThreadsUsed ==
  ASSUME Prompt
  PROVE  Spec => []FreeThreadsAreUsed
<1>1. Init => SlotsInv
  <2> SUFFICES ASSUME Init
               PROVE  SlotsInv
    OBVIOUS
  <2>1. \A w \in Workers : plan[w] = {} /\ hand[w] = {} /\ BusyOf(w) = {} /\ loop[w] # "wait"
    BY DEF Init, BusyOf, Busy, Idle
  <2>2. IsFiniteSet({}) /\ Cardinality({}) = 0
    BY FS_EmptySet
  <2>3. \A w \in Workers : InFlight(w) = 0 /\ Cardinality(Slots) \in Nat
    BY <2>1, <2>2, BusyCount
  <2>4. HandFinite
    BY <2>1, <2>2 DEF HandFinite
  <2>5. ClaimsFitSlots
    <3>1. \A w \in Workers : Cardinality(plan[w]) = 0 /\ Cardinality(hand[w]) = 0
      BY <2>1, <2>2
    <3> QED BY <2>3, <3>1 DEF ClaimsFitSlots
  <2>6. NoMissedWake
    BY <2>1 DEF NoMissedWake
  <2> QED BY <2>4, <2>5, <2>6 DEF SlotsInv, FreeThreadsAreUsed
<1>2. IInv /\ SlotsInv /\ [Next]_vars => SlotsInv'
  BY NextSlots
<1>3. SlotsInv => FreeThreadsAreUsed
  BY DEF SlotsInv
<1> QED BY <1>1, <1>2, <1>3, Invariance, PTL DEF Spec

----------------------------------------------------------------------------
(* What racing workers may overshoot.  The cap: a claim counts the rows    *)
(* that run, not the rows other open claims are about to start, so each    *)
(* open claim may add a cap's worth of its own.  Maintenance rows: each    *)
(* worker past the check of enqueue_unique may add one.                    *)

\* User u's rows in the open claims of the workers V, and those running.
PlannedOf(V, u) == {t \in Tasks : row[t].user = u /\ \E v \in V : t \in plan[v]}
RunningRows(u) == {t \in Tasks : Running(t) /\ row[t].user = u}

\* A cap's worth for each of the workers V.
CapOf(V) == PerUserLimit * Cardinality(V)

\* The open claims of any set of workers take a cap's worth each at most, and
\* with what runs already a cap's worth for every worker there is.
CapInv ==
  /\ \A u \in Users, V \in SUBSET Workers :
       Cardinality(PlannedOf(V, u)) <= CapOf(V)
  /\ \A u \in Users : Cardinality(RunningRows(u)) + Cardinality(PlannedOf(Workers, u))
                        <= CapOf(Workers)

\* The backlog of maintenance rows, and the workers about to add to it; only the
\* workers add to it, as the system user.
Backlog == {t \in Tasks : row[t].status \in Unfinished /\ row[t].kind = Recurring}
Inserting == {w \in Workers : loop[w] = "insert"}

BacklogInv ==
  /\ Cardinality(Backlog) + Cardinality(Inserting) <= Cardinality(Workers)
  /\ \A t \in Tasks : Exists(t) /\ row[t].kind = Recurring => row[t].user = System

\* Rows can be counted.
LEMMA RowsFinite ==
  ASSUME NEW S \in SUBSET Tasks
  PROVE  IsFiniteSet(S) /\ Cardinality(S) \in Nat
BY QueueAssumption, FS_Subset, FS_CardinalityType

\* A row that exists keeps its owner and its kind.
KeepsOwner == \A t \in Tasks : Exists(t) =>
  Exists(t)' /\ row'[t].user = row[t].user /\ row'[t].kind = row[t].kind

\* With one worker more, there is one cap's worth more.
LEMMA CapAdds ==
  ASSUME IsFiniteSet(Workers), NEW V \in SUBSET Workers
  PROVE  /\ CapOf(V) \in Nat
         /\ \A w \in V : CapOf(V) = CapOf(V \ {w}) + PerUserLimit
<1>1. IsFiniteSet(V) /\ Cardinality(V) \in Nat
  BY FS_Subset, FS_CardinalityType
<1>2. \A w \in V : Cardinality(V \ {w}) = Cardinality(V) - 1
  BY <1>1, FS_RemoveElement
<1> QED BY <1>1, <1>2, QueueAssumption DEF CapOf

\* Fewer rows run and fewer are planned: both bounds stand.
LEMMA CapStays ==
  ASSUME ProcTypeOK, CapInv, IsFiniteSet(Workers), PlanWaits, KeepsOwner,
         \A t \in Tasks : Running(t)' => Running(t),
         \A v \in Workers : plan'[v] \subseteq plan[v]
  PROVE  CapInv'
<1>1. \A u \in Users, V \in SUBSET Workers : PlannedOf(V, u)' \subseteq PlannedOf(V, u)
  BY DEF PlannedOf, PlanWaits, Pending, Exists, KeepsOwner
<1>2. \A u \in Users : RunningRows(u)' \subseteq RunningRows(u)
  BY DEF RunningRows, Running, Exists, KeepsOwner
<1>3. \A u \in Users, V \in SUBSET Workers :
        /\ Cardinality(PlannedOf(V, u)') <= Cardinality(PlannedOf(V, u))
        /\ Cardinality(PlannedOf(V, u)') \in Nat /\ Cardinality(PlannedOf(V, u)) \in Nat
  <2>1. \A u \in Users, V \in SUBSET Workers : PlannedOf(V, u) \subseteq Tasks
    BY DEF PlannedOf
  <2> HIDE DEF PlannedOf
  <2> QED BY <1>1, <2>1, RowsFinite, FS_Subset
<1>4. \A u \in Users :
        /\ Cardinality(RunningRows(u)') <= Cardinality(RunningRows(u))
        /\ Cardinality(RunningRows(u)') \in Nat /\ Cardinality(RunningRows(u)) \in Nat
  <2>1. \A u \in Users : RunningRows(u) \subseteq Tasks
    BY DEF RunningRows
  <2> QED BY <1>2, <2>1, RowsFinite, FS_Subset
<1>5. \A V \in SUBSET Workers : CapOf(V) \in Nat
  BY CapAdds
<1>6. ASSUME NEW u \in Users, NEW V \in SUBSET Workers
      PROVE  Cardinality(PlannedOf(V, u)') <= CapOf(V)
  <2>1. Cardinality(PlannedOf(V, u)) <= CapOf(V)
    BY DEF CapInv
  <2> QED BY <1>3, <1>5, <2>1
<1>7. ASSUME NEW u \in Users
      PROVE  Cardinality(RunningRows(u)') + Cardinality(PlannedOf(Workers, u)')
               <= CapOf(Workers)
  <2>1. Cardinality(RunningRows(u)) + Cardinality(PlannedOf(Workers, u))
          <= CapOf(Workers)
    BY DEF CapInv
  <2> QED BY <1>3, <1>4, <1>5, <2>1
<1> QED BY <1>6, <1>7 DEF CapInv

\* One claim's rows and the running ones of their user are within the cap.
LEMMA ClaimWithinCap ==
  ASSUME RowInv, NEW kinds, NEW limit, NEW locked, NEW u \in Users
  PROVE  LET mine == {t \in ClaimSet(kinds, limit, locked) : row[t].user = u}
         IN  /\ Cardinality(mine) <= PerUserLimit
             /\ mine # {} => Cardinality(RunningRows(u)) + Cardinality(mine) <= PerUserLimit
<1> DEFINE window == Window(kinds, limit, locked)
           chosen == ClaimSet(kinds, limit, locked)
           S == {t \in window : row[t].user = u}
           mine == {t \in chosen : row[t].user = u}
           n == PerUserLimit - RunningOf(u)
<1>1. S \subseteq Tasks /\ \A t \in S : row[t].wait \in Int
  BY PresentRow, QueueAssumption
     DEF Window, First, Candidates, RowInv, Pending, Exists, Row
<1>2. \A t \in mine : t \in S /\ RunningOf(u) < PerUserLimit
  BY DEF ClaimSet, Window, First, Candidates
<1>3. RunningOf(u) = Cardinality(RunningRows(u)) /\ RunningOf(u) \in Nat
  BY RowsFinite DEF RunningRows, RunningOf
<1>4. CASE mine = {}
  BY <1>4, FS_EmptySet, QueueAssumption
<1>5. CASE mine # {}
  <2>1. n \in Nat
    BY <1>2, <1>3, <1>5, QueueAssumption
  <2>2. mine \subseteq First(S, n)
    <3> SUFFICES ASSUME NEW t \in mine
                 PROVE  t \in First(S, n)
      OBVIOUS
    <3> DEFINE ahead == {s \in window : row[s].user = row[t].user /\ Before(s, t)}
               before == {s \in S : Before(s, t)}
    <3>1. RunningOf(row[t].user) + Cardinality(ahead) < PerUserLimit /\ row[t].user = u
      BY DEF ClaimSet
    <3>2. ahead = before
      BY <3>1
    <3>3. Cardinality(before) \in Nat
      BY <1>1, RowsFinite
    <3> HIDE DEF ahead, before
    <3>4. Cardinality(before) < n
      BY <1>3, <3>1, <3>2, <3>3, QueueAssumption
    <3> QED BY <1>2, <3>4 DEF First, before
  <2> HIDE DEF S, n, mine
  <2>3. IsFiniteSet(First(S, n)) /\ Cardinality(First(S, n)) <= n
    BY <1>1, <2>1, FirstBound
  <2>4. Cardinality(mine) <= n /\ Cardinality(mine) \in Nat
    BY <2>1, <2>2, <2>3, FS_Subset, FS_CardinalityType
  <2> QED BY <1>3, <2>4, QueueAssumption DEF n, mine
<1> QED BY <1>4, <1>5

\* A union has no more members than its parts together.
LEMMA UnionBound ==
  ASSUME NEW A, NEW B, IsFiniteSet(A), IsFiniteSet(B)
  PROVE  Cardinality(A \union B) <= Cardinality(A) + Cardinality(B)
<1>1. Cardinality(A \union B) = Cardinality(A) + Cardinality(B) - Cardinality(A \intersect B)
  BY FS_Union
<1>2. /\ Cardinality(A) \in Nat /\ Cardinality(B) \in Nat
      /\ Cardinality(A \intersect B) \in Nat
  BY FS_Intersection, FS_CardinalityType
<1> QED BY <1>1, <1>2

\* An open claim adds its own rows to those planned; no row moves.
LEMMA SelectCap ==
  ASSUME IInv, CapInv, IsFiniteSet(Workers), NEW w \in Workers, Select(w)
  PROVE  CapInv'
<1> USE DEF IInv, DeliveryInv
<1> DEFINE chosen == ClaimSet(RunnableKinds, Cardinality(Slots) - InFlight(w), Locked)
           mine(u) == {t \in chosen : row[t].user = u}
<1>1. /\ loop[w] = "select" /\ UNCHANGED row
      /\ plan' = plan \/ plan' = [plan EXCEPT ![w] = chosen]
  BY DEF Select
<1>2. CASE plan' = plan
  BY <1>1, <1>2 DEF CapInv, PlannedOf, RunningRows, Running
<1>3. CASE plan' = [plan EXCEPT ![w] = chosen]
  <2>1. plan[w] = {}
    BY <1>1 DEF PlanAtCommit
  <2>2. \A u \in Users : /\ mine(u) \subseteq Tasks
                         /\ Cardinality(mine(u)) <= PerUserLimit
                         /\ mine(u) # {} => Cardinality(RunningRows(u)) + Cardinality(mine(u))
                                              <= PerUserLimit
    <3> SUFFICES ASSUME NEW u \in Users
                 PROVE  /\ mine(u) \subseteq Tasks
                        /\ Cardinality(mine(u)) <= PerUserLimit
                        /\ mine(u) # {} => Cardinality(RunningRows(u)) + Cardinality(mine(u))
                                             <= PerUserLimit
      OBVIOUS
    <3>1. mine(u) \subseteq Tasks
      BY ClaimSetRows
    <3>2. /\ Cardinality(mine(u)) <= PerUserLimit
          /\ mine(u) # {} => Cardinality(RunningRows(u)) + Cardinality(mine(u))
                               <= PerUserLimit
      BY ClaimWithinCap
    <3> QED BY <3>1, <3>2
  <2>3. chosen \subseteq Tasks
    BY ClaimSetRows
  <2> HIDE DEF chosen
  <2>4. /\ plan'[w] = chosen /\ \A v \in Workers \ {w} : plan'[v] = plan[v]
    BY <1>3 DEF ProcTypeOK
  <2>5. ASSUME NEW u \in Users, NEW V \in SUBSET Workers
        PROVE  /\ w \notin V => PlannedOf(V, u)' = PlannedOf(V, u)
               /\ w \in V => PlannedOf(V, u)' = PlannedOf(V \ {w}, u) \union mine(u)
    <3>1. CASE w \notin V
      BY <1>1, <2>4, <3>1 DEF PlannedOf
    <3>2. CASE w \in V
      <4>1. PlannedOf(V, u)' \subseteq PlannedOf(V \ {w}, u) \union mine(u)
        BY <1>1, <2>4, <3>2 DEF PlannedOf
      <4>2. PlannedOf(V \ {w}, u) \union mine(u) \subseteq PlannedOf(V, u)'
        BY <1>1, <2>3, <2>4, <3>2 DEF PlannedOf
      <4> QED BY <3>2, <4>1, <4>2
    <3> QED BY <3>1, <3>2
  <2>6. \A u \in Users, V \in SUBSET Workers :
          /\ IsFiniteSet(PlannedOf(V, u)) /\ Cardinality(PlannedOf(V, u)) \in Nat
          /\ IsFiniteSet(PlannedOf(V, u)') /\ Cardinality(PlannedOf(V, u)') \in Nat
    BY RowsFinite DEF PlannedOf
  <2>7. \A u \in Users : /\ IsFiniteSet(mine(u)) /\ Cardinality(mine(u)) \in Nat
                         /\ Cardinality(RunningRows(u)) \in Nat
                         /\ RunningRows(u)' = RunningRows(u)
    BY <1>1, <2>2, RowsFinite DEF RunningRows, Running
  <2> HIDE DEF mine
  <2>8. ASSUME NEW u \in Users, NEW V \in SUBSET Workers, w \in V
        PROVE  /\ Cardinality(PlannedOf(V, u)')
                    <= Cardinality(PlannedOf(V \ {w}, u)) + Cardinality(mine(u))
               /\ Cardinality(PlannedOf(V \ {w}, u)) \in Nat
               /\ Cardinality(PlannedOf(V \ {w}, u)) <= CapOf(V \ {w})
               /\ CapOf(V \ {w}) \in Nat /\ CapOf(V) = CapOf(V \ {w}) + PerUserLimit
    <3>1. V \ {w} \in SUBSET Workers
      OBVIOUS
    <3>2. /\ Cardinality(PlannedOf(V \ {w}, u)) <= CapOf(V \ {w})
          /\ CapOf(V \ {w}) \in Nat /\ CapOf(V) = CapOf(V \ {w}) + PerUserLimit
      BY <2>8, <3>1, CapAdds DEF CapInv
    <3> DEFINE A == PlannedOf(V \ {w}, u)
               B == mine(u)
    <3>3. IsFiniteSet(A) /\ IsFiniteSet(B) /\ PlannedOf(V, u)' = A \union B
      BY <2>5, <2>6, <2>7, <2>8, <3>1
    <3> HIDE DEF A, B
    <3>4. Cardinality(A \union B) <= Cardinality(A) + Cardinality(B)
      BY <3>3, UnionBound
    <3>5. Cardinality(A) \in Nat
      BY <3>3, FS_CardinalityType
    <3> QED BY <3>2, <3>3, <3>4, <3>5 DEF A, B
  <2>9. ASSUME NEW u \in Users, NEW V \in SUBSET Workers
        PROVE  Cardinality(PlannedOf(V, u)') <= CapOf(V)
    <3>1. CASE w \notin V
      BY <2>5, <3>1 DEF CapInv
    <3>2. CASE w \in V
      <4>1. /\ Cardinality(PlannedOf(V, u)')
                 <= Cardinality(PlannedOf(V \ {w}, u)) + Cardinality(mine(u))
            /\ Cardinality(PlannedOf(V \ {w}, u)) \in Nat
            /\ Cardinality(PlannedOf(V \ {w}, u)) <= CapOf(V \ {w})
            /\ CapOf(V \ {w}) \in Nat /\ CapOf(V) = CapOf(V \ {w}) + PerUserLimit
        BY <2>8, <3>2
      <4>2. Cardinality(PlannedOf(V, u)') \in Nat
        BY <2>6
      <4>3. Cardinality(mine(u)) <= PerUserLimit /\ Cardinality(mine(u)) \in Nat
        BY <2>2, <2>7
      <4> QED BY <4>1, <4>2, <4>3, QueueAssumption
    <3> QED BY <3>1, <3>2
  <2>10. ASSUME NEW u \in Users
         PROVE  Cardinality(RunningRows(u)') + Cardinality(PlannedOf(Workers, u)')
                  <= CapOf(Workers)
    <3>1. CASE mine(u) = {}
      <4>1. PlannedOf(Workers, u)' = PlannedOf(Workers, u)
        BY <2>1, <2>5, <3>1 DEF PlannedOf
      <4> QED BY <2>7, <4>1 DEF CapInv
    <3>2. CASE mine(u) # {}
      <4>1. Cardinality(RunningRows(u)) + Cardinality(mine(u)) <= PerUserLimit
        BY <2>2, <3>2
      <4>2. /\ Cardinality(PlannedOf(Workers, u)')
                 <= Cardinality(PlannedOf(Workers \ {w}, u)) + Cardinality(mine(u))
            /\ Cardinality(PlannedOf(Workers \ {w}, u)) \in Nat
            /\ Cardinality(PlannedOf(Workers \ {w}, u)) <= CapOf(Workers \ {w})
            /\ CapOf(Workers \ {w}) \in Nat
            /\ CapOf(Workers) = CapOf(Workers \ {w}) + PerUserLimit
        BY <2>8
      <4>3. Cardinality(PlannedOf(Workers, u)') \in Nat
        BY <2>6
      <4>4. /\ Cardinality(mine(u)) \in Nat /\ Cardinality(RunningRows(u)) \in Nat
            /\ RunningRows(u)' = RunningRows(u)
        BY <2>7
      <4> QED BY <4>1, <4>2, <4>3, <4>4, QueueAssumption
    <3> QED BY <3>1, <3>2
  <2> QED BY <2>9, <2>10 DEF CapInv
<1> QED BY <1>1, <1>2, <1>3

\* A claim turns planned rows into running ones.
LEMMA ClaimCap ==
  ASSUME IInv, CapInv, IsFiniteSet(Workers), NEW w \in Workers, Claim(plan[w]),
         plan' = [plan EXCEPT ![w] = {}], KeepsOwner
  PROVE  CapInv'
<1> USE DEF IInv, DeliveryInv
<1>1. /\ plan'[w] = {} /\ \A v \in Workers \ {w} : plan'[v] = plan[v]
      /\ \A t \in Tasks : Running(t)' => Running(t) \/ t \in plan[w]
      /\ \A v \in Workers : \A t \in plan[v] : t \in Tasks /\ Exists(t)
  BY DEF ProcTypeOK, Claim, Running, PlanWaits, Pending, Exists
<1>2. ASSUME NEW u \in Users, NEW V \in SUBSET Workers
      PROVE  Cardinality(PlannedOf(V, u)') <= CapOf(V)
  <2>1. PlannedOf(V, u)' \subseteq PlannedOf(V, u)
    BY <1>1 DEF PlannedOf, KeepsOwner
  <2>2. PlannedOf(V, u) \subseteq Tasks
    BY DEF PlannedOf
  <2>3. /\ Cardinality(PlannedOf(V, u)') <= Cardinality(PlannedOf(V, u))
        /\ Cardinality(PlannedOf(V, u)') \in Nat /\ Cardinality(PlannedOf(V, u)) \in Nat
    BY <2>1, <2>2, RowsFinite, FS_Subset
  <2>4. Cardinality(PlannedOf(V, u)) <= CapOf(V)
    BY DEF CapInv
  <2>5. CapOf(V) \in Nat
    BY CapAdds
  <2> QED BY <2>3, <2>4, <2>5
<1>3. ASSUME NEW u \in Users
      PROVE  Cardinality(RunningRows(u)') + Cardinality(PlannedOf(Workers, u)')
               <= CapOf(Workers)
  <2> DEFINE R == RunningRows(u)
             P == PlannedOf(Workers, u)
             own == PlannedOf({w}, u)
             rest == PlannedOf(Workers \ {w}, u)
             R2 == RunningRows(u)'
             P2 == PlannedOf(Workers, u)'
  <2>1. R2 \subseteq R \union own
    BY <1>1 DEF RunningRows, PlannedOf, Running, Exists, KeepsOwner
  <2>2. P2 \subseteq rest
    BY <1>1 DEF PlannedOf, KeepsOwner
  <2>3. P = own \union rest /\ own \intersect rest = {}
    BY DEF PlannedOf, PlanApart
  <2>4. /\ R \subseteq Tasks /\ own \subseteq Tasks /\ rest \subseteq Tasks
        /\ P2 \subseteq Tasks /\ R2 \subseteq Tasks
    BY DEF RunningRows, PlannedOf
  <2>5. Cardinality(R) + Cardinality(P) <= CapOf(Workers)
    BY DEF CapInv
  <2> HIDE DEF R, P, own, rest, R2, P2
  <2>6. /\ IsFiniteSet(R) /\ IsFiniteSet(own) /\ IsFiniteSet(rest)
        /\ Cardinality(R) \in Nat /\ Cardinality(own) \in Nat /\ Cardinality(rest) \in Nat
        /\ Cardinality(R2) \in Nat /\ Cardinality(P2) \in Nat
    BY <2>4, RowsFinite
  <2>7. Cardinality(P2) <= Cardinality(rest)
    BY <2>2, <2>6, FS_Subset
  <2>8. Cardinality(P) = Cardinality(own) + Cardinality(rest)
    <3>1. Cardinality(own \union rest)
            = Cardinality(own) + Cardinality(rest) - Cardinality(own \intersect rest)
      BY <2>6, FS_Union
    <3>2. Cardinality(own \intersect rest) = 0
      BY <2>3, FS_EmptySet
    <3> QED BY <2>3, <2>6, <3>1, <3>2
  <2>9. Cardinality(R2) <= Cardinality(R) + Cardinality(own)
    <3>1. /\ IsFiniteSet(R \union own)
          /\ Cardinality(R \union own) <= Cardinality(R) + Cardinality(own)
      BY <2>6, UnionBound, FS_Union
    <3>2. Cardinality(R2) <= Cardinality(R \union own) /\ Cardinality(R \union own) \in Nat
      BY <2>1, <3>1, FS_Subset, FS_CardinalityType
    <3> QED BY <2>6, <3>1, <3>2
  <2>10. CapOf(Workers) \in Nat
    BY CapAdds
  <2>11. Cardinality(R2) + Cardinality(P2) <= CapOf(Workers)
    BY <2>5, <2>6, <2>7, <2>8, <2>9, <2>10
  <2> QED BY <2>11 DEF R2, P2
<1> QED BY <1>2, <1>3 DEF CapInv

----------------------------------------------------------------------------
(* What a step may do to the rows, as far as both bounds care.             *)

\* No row is new, none comes back from its end, and none changes hands.
Steady ==
  /\ KeepsOwner
  /\ \A t \in Tasks : ~ Exists(t) => row'[t] = row[t]
  /\ \A t \in Tasks : row'[t].status \in Unfinished => row[t].status \in Unfinished

\* None begins to run.
StartsNone == \A t \in Tasks : Running(t)' => Running(t)

\* What a statement writes into a row that exists.
LEMMA RowOwner ==
  ASSUME NEW r \in Row
  PROVE  /\ Claimed(r).user = r.user /\ Claimed(r).kind = r.kind
         /\ Claimed(r).status = "running"
         /\ Succeeded(r).user = r.user /\ Succeeded(r).kind = r.kind
         /\ Succeeded(r).status = "succeeded"
         /\ GivenUp(r).user = r.user /\ GivenUp(r).kind = r.kind
         /\ GivenUp(r).status = "failed"
         /\ \A delay, note :
              /\ Requeued(r, delay, note).user = r.user
              /\ Requeued(r, delay, note).kind = r.kind
              /\ Requeued(r, delay, note).status = "pending"
              /\ Refunded(r, delay, note).user = r.user
              /\ Refunded(r, delay, note).kind = r.kind
              /\ Refunded(r, delay, note).status = "pending"
         /\ \A x : /\ [r EXCEPT !.wait = x].user = r.user
                   /\ [r EXCEPT !.wait = x].kind = r.kind
                   /\ [r EXCEPT !.wait = x].status = r.status
         /\ \A x, n : /\ [r EXCEPT !.wait = x, !.note = n].user = r.user
                      /\ [r EXCEPT !.wait = x, !.note = n].kind = r.kind
                      /\ [r EXCEPT !.wait = x, !.note = n].status = r.status
         /\ Older(r).user = r.user /\ Older(r).kind = r.kind /\ Older(r).status = r.status
         /\ r.status \in {"pending", "running", "succeeded", "failed"}
<1> USE DEF Row, Unfinished, Terminal
<1>1. /\ Claimed(r).user = r.user /\ Claimed(r).kind = r.kind
      /\ Claimed(r).status = "running"
      /\ Succeeded(r).user = r.user /\ Succeeded(r).kind = r.kind
      /\ Succeeded(r).status = "succeeded"
      /\ GivenUp(r).user = r.user /\ GivenUp(r).kind = r.kind
      /\ GivenUp(r).status = "failed"
  BY DEF Claimed, Succeeded, GivenUp
<1>2. \A delay, note :
        /\ Requeued(r, delay, note).user = r.user
        /\ Requeued(r, delay, note).kind = r.kind
        /\ Requeued(r, delay, note).status = "pending"
  BY DEF Requeued
<1>3. \A delay, note :
        /\ Refunded(r, delay, note).user = r.user
        /\ Refunded(r, delay, note).kind = r.kind
        /\ Refunded(r, delay, note).status = "pending"
  BY DEF Refunded, Requeued
<1>4. Older(r).user = r.user /\ Older(r).kind = r.kind /\ Older(r).status = r.status
  BY DEF Older
<1> QED BY <1>1, <1>2, <1>3, <1>4

\* A row that exists has every column, and one that does not is Absent.
LEMMA RowThere ==
  ASSUME RowInv, NEW t \in Tasks
  PROVE  /\ Exists(t) => row[t] \in Row
         /\ ~ Exists(t) => row[t] = Absent /\ row[t].status \notin Unfinished
         /\ row \in [Tasks -> Row \union {Absent}]
<1>1. row[t] \in Row => row[t].status # "absent"
  BY DEF Row, Unfinished, Terminal
<1> QED BY <1>1, PresentRow DEF RowInv, RowTypeOK, Exists, Absent, Unfinished

\* A table left alone is steady.
LEMMA SteadyTable ==
  ASSUME UNCHANGED row
  PROVE  Steady /\ StartsNone
BY DEF Steady, StartsNone, KeepsOwner, Exists, Running

\* A table is steady when each of its rows is.
LEMMA SteadyRows ==
  ASSUME RowInv,
         \A t \in Tasks : \/ row'[t] = row[t]
                          \/ /\ Exists(t)
                             /\ row'[t].user = row[t].user /\ row'[t].kind = row[t].kind
                             /\ row'[t].status # "absent"
                             /\ row'[t].status \in Unfinished => row[t].status \in Unfinished
  PROVE  Steady
BY DEF Steady, KeepsOwner, Exists

\* The reclaim sweep is steady.
LEMMA ReclaimSteady ==
  ASSUME RowInv, ReclaimStale
  PROVE  Steady /\ StartsNone
<1>1. ASSUME NEW t \in Tasks, Stale(t)
      PROVE  /\ Exists(t)
             /\ row'[t].user = row[t].user /\ row'[t].kind = row[t].kind
             /\ row'[t].status \in {"pending", "failed"} /\ row[t].status \in Unfinished
  <2>1. row[t] \in Row /\ Exists(t) /\ row[t].status = "running"
    BY <1>1, RowThere DEF Stale, Running, Exists
  <2>2. \/ row'[t] = GivenUp(row[t])
        \/ row'[t] = Requeued(row[t], 0, "other")
    BY <1>1 DEF ReclaimStale
  <2> QED BY <2>1, <2>2, RowOwner DEF Unfinished
<1>2. \A t \in Tasks : ~ Stale(t) => row'[t] = row[t]
  BY DEF ReclaimStale
<1>3. Steady
  BY <1>1, <1>2, SteadyRows
<1>4. StartsNone
  BY <1>1, <1>2 DEF StartsNone, Running
<1> QED BY <1>3, <1>4

\* A claim is steady, though it starts rows.
LEMMA ClaimSteady ==
  ASSUME RowInv, NEW S \in SUBSET Tasks, \A t \in S : Pending(t), Claim(S)
  PROVE  Steady
<1>1. ASSUME NEW t \in S
      PROVE  /\ Exists(t) /\ row[t].status \in Unfinished
             /\ row'[t].user = row[t].user /\ row'[t].kind = row[t].kind
             /\ row'[t].status = "running"
  <2>1. row[t] \in Row /\ Exists(t) /\ row'[t] = Claimed(row[t]) /\ row[t].status = "pending"
    BY RowThere DEF Pending, Exists, Claim
  <2> QED BY <2>1, RowOwner DEF Unfinished
<1>2. \A t \in Tasks \ S : row'[t] = row[t]
  BY DEF Claim
<1> QED BY <1>1, <1>2, SteadyRows

\* A delivery's release is steady.
LEMMA ReleaseSteady ==
  ASSUME RowInv, NEW t \in Tasks, Running(t), NEW delay, NEW note, Release(t, delay, note)
  PROVE  Steady /\ StartsNone
<1>1. row[t] \in Row /\ Exists(t) /\ row[t].status \in Unfinished
  BY RowThere DEF Running, Exists, Unfinished
<1> DEFINE r == Refunded(row[t], delay, note)
<1>2. row' = [row EXCEPT ![t] = r] /\ r.user = row[t].user /\ r.kind = row[t].kind
      /\ r.status = "pending"
  BY <1>1, RowOwner DEF Release
<1> HIDE DEF r
<1>3. row'[t] = r /\ \A s \in Tasks \ {t} : row'[s] = row[s]
  BY <1>2, RowThere
<1>4. Steady
  BY <1>1, <1>2, <1>3, SteadyRows
<1>5. StartsNone
  BY <1>2, <1>3 DEF StartsNone, Running
<1> QED BY <1>4, <1>5

\* So is whatever outcome is recorded of it.
LEMMA OutcomeSteady ==
  ASSUME RowInv, NEW t \in Tasks, Running(t), NEW attempt, NEW result,
         Outcome(t, attempt, result)
  PROVE  Steady /\ StartsNone
<1>1. row[t] \in Row /\ Exists(t) /\ row[t].status \in Unfinished
  BY RowThere DEF Running, Exists, Unfinished
<1>2. ASSUME NEW r, row' = [row EXCEPT ![t] = r], r.user = row[t].user, r.kind = row[t].kind,
             r.status \in {"pending", "succeeded", "failed"}
      PROVE  Steady /\ StartsNone
  <2>1. row'[t] = r /\ \A s \in Tasks \ {t} : row'[s] = row[s]
    BY <1>2, RowThere
  <2>2. Steady
    BY <1>1, <1>2, <2>1, SteadyRows
  <2>3. StartsNone
    BY <1>2, <2>1 DEF StartsNone, Running
  <2> QED BY <2>2, <2>3
<1>3. CASE MarkSucceeded(t)
  <2> DEFINE r == Succeeded(row[t])
  <2>1. row' = [row EXCEPT ![t] = r]
    BY <1>3 DEF MarkSucceeded
  <2>2. r.user = row[t].user /\ r.kind = row[t].kind /\ r.status = "succeeded"
    BY <1>1, RowOwner
  <2> HIDE DEF r
  <2> QED BY <1>2, <2>1, <2>2
<1>4. CASE MarkFailed(t, result = "exhausted", RetryDelay(attempt))
  <2> DEFINE delay == RetryDelay(attempt)
             r == IF result = "exhausted" THEN GivenUp(row[t])
                  ELSE Requeued(row[t], delay, "other")
  <2>1. row' = [row EXCEPT ![t] = r]
    BY <1>4 DEF MarkFailed
  <2> HIDE DEF delay
  <2>2. /\ r.user = row[t].user /\ r.kind = row[t].kind
        /\ r.status \in {"pending", "failed"}
    BY <1>1, RowOwner
  <2> HIDE DEF r
  <2> QED BY <1>2, <2>1, <2>2
<1>5. CASE FailPermanently(t)
  <2> DEFINE r == GivenUp(row[t])
  <2>1. row' = [row EXCEPT ![t] = r]
    BY <1>5 DEF FailPermanently
  <2>2. r.user = row[t].user /\ r.kind = row[t].kind /\ r.status = "failed"
    BY <1>1, RowOwner
  <2> HIDE DEF r
  <2> QED BY <1>2, <2>1, <2>2
<1>6. CASE Park(t)
  <2>1. row'[t] = Refunded(row[t], ParkDelay, "parked")
    BY <1>6 DEF Park
  <2>2. /\ row'[t].user = row[t].user /\ row'[t].kind = row[t].kind
        /\ row'[t].status = "pending"
    BY <1>1, <2>1, RowOwner
  <2>3. ASSUME NEW s \in Tasks \ {t}
        PROVE  \/ row'[s] = row[s]
               \/ /\ Exists(s) /\ row'[s].user = row[s].user /\ row'[s].kind = row[s].kind
                  /\ row'[s].status = "pending" /\ row[s].status = "pending"
    <3>1. CASE s \notin ParkedWith(t)
      BY <1>6, <3>1 DEF Park
    <3>2. CASE s \in ParkedWith(t)
      <4>1. row'[s] = [row[s] EXCEPT !.wait = ParkDelay, !.note = "parked"]
        BY <1>6, <3>2 DEF Park
      <4>2. row[s].status = "pending" /\ Exists(s) /\ row[s] \in Row
        BY <3>2, RowThere DEF ParkedWith, Pending, Exists
      <4> QED BY <4>1, <4>2, RowOwner
    <3> QED BY <3>1, <3>2
  <2>4. Steady
    BY <1>1, <2>2, <2>3, SteadyRows DEF Unfinished
  <2>5. StartsNone
    BY <2>2, <2>3 DEF StartsNone, Running
  <2> QED BY <2>4, <2>5
<1> QED BY <1>3, <1>4, <1>5, <1>6 DEF Outcome

\* "Retry now" and the clock move dates only.
LEMMA DatesSteady ==
  ASSUME RowInv,
         \A t \in Tasks : \/ row'[t] = row[t]
                          \/ IsParked(t) /\ row'[t] = [row[t] EXCEPT !.wait = 0]
                          \/ row'[t] = Older(row[t])
  PROVE  Steady /\ StartsNone
<1>1. ASSUME NEW t \in Tasks
      PROVE  \/ row'[t] = row[t]
             \/ /\ Exists(t) /\ row'[t].user = row[t].user /\ row'[t].kind = row[t].kind
                /\ row'[t].status = row[t].status
  <2>1. CASE Exists(t)
    <3>1. row[t] \in Row
      BY <2>1, RowThere
    <3>2. /\ LET r == [row[t] EXCEPT !.wait = 0]
             IN  r.user = row[t].user /\ r.kind = row[t].kind /\ r.status = row[t].status
          /\ LET r == Older(row[t])
             IN  r.user = row[t].user /\ r.kind = row[t].kind /\ r.status = row[t].status
      BY <3>1, RowOwner
    <3> QED BY <2>1, <3>2
  <2>2. CASE ~ Exists(t)
    <3>1. row[t].status = "absent"
      BY <2>2 DEF Exists
    <3>2. ~ IsParked(t) /\ Older(row[t]) = row[t]
      BY <3>1 DEF IsParked, Pending, Older
    <3> QED BY <3>2
  <2> QED BY <2>1, <2>2
<1>2. Steady
  BY <1>1, SteadyRows DEF Exists
<1>3. StartsNone
  BY <1>1 DEF StartsNone, Running
<1> QED BY <1>2, <1>3

\* A new row waits, and the rows already there are untouched.
LEMMA EnqueueAdds ==
  ASSUME RowInv, NEW u, NEW k, NEW delay, Enqueue(u, k, delay)
  PROVE  /\ KeepsOwner /\ StartsNone
         /\ \E t \in Tasks : /\ ~ Exists(t) /\ row'[t].user = u /\ row'[t].kind = k
                             /\ \A s \in Tasks \ {t} : row'[s] = row[s]
<1> DEFINE New == [status |-> "pending", user |-> u, kind |-> k, attempts |-> 0,
                   wait |-> delay, age |-> 0, note |-> "other"]
<1>1. PICK t \in Tasks : ~ Exists(t) /\ row' = [row EXCEPT ![t] = New]
  BY DEF Enqueue
<1>2. New.status = "pending" /\ New.user = u /\ New.kind = k
  OBVIOUS
<1> HIDE DEF New
<1>3. row'[t] = New /\ \A s \in Tasks \ {t} : row'[s] = row[s]
  BY <1>1, RowThere
<1>4. KeepsOwner
  BY <1>1, <1>3 DEF KeepsOwner, Exists
<1>5. StartsNone
  BY <1>2, <1>3 DEF StartsNone, Running
<1> QED BY <1>1, <1>2, <1>3, <1>4, <1>5

\* A steady step with nobody new past the check adds no maintenance row.
LEMMA BacklogStays ==
  ASSUME BacklogInv, IsFiniteSet(Workers), Steady, Inserting' \subseteq Inserting
  PROVE  BacklogInv'
<1>1. Backlog' \subseteq Backlog
  BY DEF Backlog, Steady, KeepsOwner, Exists, Unfinished
<1>2. Backlog \subseteq Tasks /\ Inserting \subseteq Workers
  BY DEF Backlog, Inserting
<1>3. /\ Cardinality(Backlog') <= Cardinality(Backlog)
      /\ Cardinality(Backlog') \in Nat /\ Cardinality(Backlog) \in Nat
  BY <1>1, <1>2, RowsFinite, FS_Subset
<1>4. /\ Cardinality(Inserting') <= Cardinality(Inserting)
      /\ Cardinality(Inserting') \in Nat /\ Cardinality(Inserting) \in Nat
  BY <1>2, FS_Subset, FS_CardinalityType
<1>5. Cardinality(Workers) \in Nat
  BY FS_CardinalityType
<1>6. \A t \in Tasks : Exists(t)' /\ row'[t].kind = Recurring => row'[t].user = System
  BY DEF BacklogInv, Steady, KeepsOwner, Exists
<1>7. Cardinality(Backlog') + Cardinality(Inserting') <= Cardinality(Workers)
  <2>1. Cardinality(Backlog) + Cardinality(Inserting) <= Cardinality(Workers)
    BY DEF BacklogInv
  <2> QED BY <1>3, <1>4, <1>5, <2>1
<1> QED BY <1>6, <1>7 DEF BacklogInv

\* A worker passes the check only while no maintenance row is unfinished.
LEMMA RecurBacklog ==
  ASSUME IInv, BacklogInv, IsFiniteSet(Workers), NEW w \in Workers, Recur(w)
  PROVE  BacklogInv'
<1>1. CASE Goto(w, "select")
  <2>1. Inserting' \subseteq Inserting
    BY <1>1 DEF Inserting, Goto, IInv, ProcTypeOK
  <2>2. Steady
    BY SteadyTable DEF Recur
  <2> QED BY <2>1, <2>2, BacklogStays
<1>2. CASE ~ Queued(System, Recurring)
  <2>1. Backlog' = {}
    BY <1>2 DEF Recur, Backlog, Queued, BacklogInv, Exists, Unfinished
  <2>2. Inserting' \subseteq Workers
    BY DEF Inserting
  <2>3. /\ Cardinality(Backlog') = 0
        /\ Cardinality(Inserting') <= Cardinality(Workers)
        /\ Cardinality(Inserting') \in Nat
    BY <2>1, <2>2, FS_Subset, FS_CardinalityType, FS_EmptySet
  <2>4. \A t \in Tasks : Exists(t)' /\ row'[t].kind = Recurring => row'[t].user = System
    BY DEF Recur, BacklogInv, Exists
  <2> QED BY <2>3, <2>4 DEF BacklogInv
<1> QED BY <1>1, <1>2 DEF Recur

\* A worker past the check adds one maintenance row, and is past it no longer.
LEMMA InsertBacklog ==
  ASSUME IInv, BacklogInv, IsFiniteSet(Workers), NEW w \in Workers, Insert(w)
  PROVE  BacklogInv'
<1>1. Inserting' = Inserting \ {w} /\ w \in Inserting
  BY DEF Insert, Inserting, Goto, IInv, ProcTypeOK
<1>2. IsFiniteSet(Inserting) /\ Cardinality(Inserting) \in Nat
  BY FS_Subset, FS_CardinalityType DEF Inserting
<1>3. Cardinality(Inserting') = Cardinality(Inserting) - 1
  BY <1>1, <1>2, FS_RemoveElement
<1>4. CASE UNCHANGED row
  BY <1>1, <1>4, SteadyTable, BacklogStays
<1>5. CASE Enqueue(System, Recurring, 0)
  <2>1. PICK t \in Tasks : /\ ~ Exists(t) /\ row'[t].user = System /\ row'[t].kind = Recurring
                           /\ \A s \in Tasks \ {t} : row'[s] = row[s]
    BY <1>5, EnqueueAdds DEF IInv
  <2>2. Backlog' \subseteq Backlog \union {t}
    BY <2>1 DEF Backlog
  <2>3. IsFiniteSet(Backlog) /\ Cardinality(Backlog) \in Nat
    BY RowsFinite DEF Backlog
  <2>4. /\ IsFiniteSet(Backlog \union {t})
        /\ Cardinality(Backlog \union {t}) <= Cardinality(Backlog) + 1
        /\ Cardinality(Backlog \union {t}) \in Nat
    <3>1. /\ IsFiniteSet(Backlog \union {t})
          /\ Cardinality(Backlog \union {t}) = IF t \in Backlog THEN Cardinality(Backlog)
                                                ELSE Cardinality(Backlog) + 1
      BY <2>3, FS_AddElement
    <3>2. Cardinality(Backlog \union {t}) \in Nat
      BY <3>1, FS_CardinalityType
    <3> HIDE DEF Backlog
    <3> QED BY <2>3, <3>1, <3>2
  <2>5. Cardinality(Backlog') <= Cardinality(Backlog) + 1 /\ Cardinality(Backlog') \in Nat
    BY <2>2, <2>3, <2>4, FS_Subset, FS_CardinalityType
  <2>6. \A s \in Tasks : Exists(s)' /\ row'[s].kind = Recurring => row'[s].user = System
    BY <2>1 DEF BacklogInv, Exists
  <2>7. Cardinality(Backlog) + Cardinality(Inserting) <= Cardinality(Workers)
    BY DEF BacklogInv
  <2>8. Cardinality(Workers) \in Nat
    BY FS_CardinalityType
  <2>9. Cardinality(Backlog') + Cardinality(Inserting') <= Cardinality(Workers)
    BY <1>2, <1>3, <2>3, <2>5, <2>7, <2>8
  <2> QED BY <2>6, <2>9 DEF BacklogInv
<1> QED BY <1>4, <1>5 DEF Insert

\* Requests add rows of other kinds only.
LEMMA RequestBacklog ==
  ASSUME IInv, BacklogInv, IsFiniteSet(Workers), NEW u \in Users, NEW k \in Kinds \ {Recurring},
         RequestEnqueues(u, k)
  PROVE  BacklogInv'
<1>1. PICK delay \in EnqueueDelays : Enqueue(u, k, delay)
  BY DEF RequestEnqueues
<1>2. PICK t \in Tasks : /\ ~ Exists(t) /\ row'[t].kind = k
                         /\ \A s \in Tasks \ {t} : row'[s] = row[s]
  BY <1>1, EnqueueAdds DEF IInv
<1>3. Backlog' = Backlog
  BY <1>2 DEF Backlog, Exists, Unfinished
<1>4. Inserting' = Inserting
  BY DEF RequestEnqueues, procVars, Inserting
<1>5. \A s \in Tasks : Exists(s)' /\ row'[s].kind = Recurring => row'[s].user = System
  BY <1>2 DEF BacklogInv, Exists
<1> QED BY <1>3, <1>4, <1>5 DEF BacklogInv

----------------------------------------------------------------------------
(* Every step, for both bounds.                                            *)

OverInv == CapInv /\ BacklogInv

\* What leaves rows steady, starts none and opens no claim keeps both.
LEMMA QuietOver ==
  ASSUME IInv, OverInv, IsFiniteSet(Workers), Steady, StartsNone,
         \A v \in Workers : plan'[v] \subseteq plan[v], Inserting' \subseteq Inserting
  PROVE  OverInv'
<1>1. CapInv'
  BY CapStays DEF IInv, DeliveryInv, OverInv, Steady, StartsNone
<1>2. BacklogInv'
  BY BacklogStays DEF OverInv
<1> QED BY <1>1, <1>2 DEF OverInv

\* The loop thread.
LEMMA LoopOver ==
  ASSUME IInv, OverInv, IsFiniteSet(Workers), NEW w \in Workers,
         LoopStep(w) \/ LoopFails(w) \/ ProcessStep(w)
  PROVE  OverInv'
<1> USE DEF IInv, DeliveryInv
<1>1. CASE Recur(w) \/ Insert(w)
  <2>1. KeepsOwner /\ StartsNone
    <3>1. CASE UNCHANGED row
      BY <3>1, SteadyTable DEF Steady
    <3>2. CASE Enqueue(System, Recurring, 0)
      BY <3>2, EnqueueAdds
    <3> QED BY <1>1, <3>1, <3>2 DEF Recur, Insert
  <2>2. UNCHANGED plan
    BY <1>1 DEF Recur, Insert
  <2>3. CapInv'
    BY <2>1, <2>2, CapStays DEF OverInv, StartsNone
  <2> QED BY <1>1, <2>3, RecurBacklog, InsertBacklog DEF OverInv
<1>2. CASE Select(w)
  <2>1. Inserting' \subseteq Inserting /\ UNCHANGED row
    BY <1>2 DEF Select, Inserting, Goto, ProcTypeOK
  <2> QED BY <1>2, <2>1, SelectCap, SteadyTable, BacklogStays DEF OverInv
<1>3. CASE Commit(w) \/ CommitUnacknowledged(w)
  <2>1. /\ Claim(plan[w]) /\ plan' = [plan EXCEPT ![w] = {}] /\ Inserting' \subseteq Inserting
    BY <1>3 DEF Commit, CommitUnacknowledged, Inserting, Goto, ProcTypeOK
  <2>2. Steady
    BY <2>1, ClaimSteady DEF PlanWaits, ProcTypeOK
  <2> QED BY <2>1, <2>2, ClaimCap, BacklogStays DEF OverInv, Steady
<1>4. CASE \/ Top(w) \/ Submit(w) \/ Wait(w) \/ Exit(w) \/ PollFails(w)
           \/ ProcessStep(w)
  <2>1. Inserting' \subseteq Inserting
    BY <1>4 DEF Top, Submit, Wait, Exit, PollFails, ProcessStep, RequestStop, Crash,
                Restart, Inserting, Goto, ProcTypeOK
  <2>2. \A v \in Workers : plan'[v] \subseteq plan[v]
    BY <1>4 DEF Top, Submit, Wait, Exit, PollFails, ProcessStep, RequestStop, Crash,
                Restart, ProcTypeOK
  <2>3. UNCHANGED row \/ ReclaimStale
    BY <1>4 DEF Top, Submit, Wait, Exit, PollFails, ProcessStep, RequestStop, Crash, Restart
  <2>4. Steady /\ StartsNone
    BY <2>3, SteadyTable, ReclaimSteady
  <2> QED BY <2>1, <2>2, <2>4, QuietOver
<1> QED BY <1>1, <1>2, <1>3, <1>4 DEF LoopStep, LoopFails

\* The pool.
LEMMA ThreadOver ==
  ASSUME Prompt, IInv, OverInv, IsFiniteSet(Workers), NEW w \in Workers, NEW s \in Slots,
         ThreadStep(w, s) \/ RecordFails(w, s)
  PROVE  OverInv'
<1>1. UNCHANGED <<loop, plan>>
  BY DEF ThreadStep, Dispatch, HandlerReturns, ReadAttempts, Record, RecordFails
<1> DEFINE t == job[w][s].task
<1>2. Busy(w, s) => t \in Tasks /\ Running(t)
  BY JobShape DEF IInv, DeliveryInv, JobOwns, Owned, Running
<1>3. Steady /\ StartsNone
  <2>1. CASE UNCHANGED row
    BY <2>1, SteadyTable
  <2>2. CASE Busy(w, s) /\ Release(t, RefuseDelay, "other")
    BY <1>2, <2>2, ReleaseSteady DEF IInv
  <2>3. CASE Busy(w, s) /\ Outcome(t, job[w][s].attempt, job[w][s].phase)
    BY <1>2, <2>3, OutcomeSteady DEF IInv
  <2> QED BY <2>1, <2>2, <2>3 DEF ThreadStep, Dispatch, HandlerReturns, ReadAttempts,
             Record, RecordFails, Busy, Results, Readings
<1> QED BY <1>1, <1>3, QuietOver DEF Inserting

\* Requests, the operator, the account and the clock.
LEMMA EnvironmentOver ==
  ASSUME IInv, OverInv, IsFiniteSet(Workers), Environment \/ UNCHANGED vars
  PROVE  OverInv'
<1>1. UNCHANGED <<loop, plan>>
  BY DEF Environment, RequestEnqueues, RetryNow, AccountChanges, ThrowSwitch, Tick, procVars,
         vars
<1>2. ASSUME NEW u \in Users, NEW k \in Kinds \ {Recurring}, RequestEnqueues(u, k)
      PROVE  OverInv'
  <2>1. KeepsOwner /\ StartsNone
    BY <1>2, EnqueueAdds DEF RequestEnqueues, IInv
  <2> QED BY <1>1, <1>2, <2>1, CapStays, RequestBacklog
          DEF OverInv, StartsNone, IInv, DeliveryInv
<1>3. CASE \/ \E u \in Users : RetryNow(u) \/ AccountChanges(u)
           \/ ThrowSwitch \/ Tick \/ UNCHANGED vars
  <2>1. ASSUME NEW v \in Tasks
        PROVE  \/ row'[v] = row[v]
               \/ IsParked(v) /\ row'[v] = [row[v] EXCEPT !.wait = 0]
               \/ row'[v] = Older(row[v])
    BY <1>3 DEF RetryNow, ResumeParked, AccountChanges, ThrowSwitch, Tick, vars
  <2>2. Steady /\ StartsNone
    BY <2>1, DatesSteady DEF IInv
  <2> QED BY <1>1, <2>2, QuietOver DEF Inserting
<1> QED BY <1>2, <1>3 DEF Environment

\* Racing workers never start more than a cap's worth each, nor leave more
\* maintenance rows unfinished than there are workers (Worker!CapHolds,
\* Worker!RecurringBounded).
THEOREM OvershootIsBounded ==
  ASSUME Prompt, IsFiniteSet(Workers)
  PROVE  Spec => []OvershootBounded
<1>1. Init => OverInv
  <2> SUFFICES ASSUME Init
               PROVE  OverInv
    OBVIOUS
  <2>1. \A t \in Tasks : row[t] = Absent /\ row[t].status = "absent"
    BY DEF Init, Absent
  <2>2. /\ Backlog = {} /\ Inserting = {}
        /\ \A u \in Users : RunningRows(u) = {}
        /\ \A u \in Users, V \in SUBSET Workers : PlannedOf(V, u) = {}
    BY <2>1 DEF Init, Backlog, Inserting, RunningRows, PlannedOf, Running, Unfinished
  <2>3. Cardinality({}) = 0
    BY FS_EmptySet
  <2>4. \A V \in SUBSET Workers : CapOf(V) \in Nat
    BY CapAdds
  <2>5. Cardinality(Workers) \in Nat
    BY FS_CardinalityType
  <2>6. CapInv
    <3>1. \A u \in Users : /\ Cardinality(RunningRows(u)) = 0
                           /\ \A V \in SUBSET Workers : Cardinality(PlannedOf(V, u)) = 0
      BY <2>2, <2>3
    <3>2. \A V \in SUBSET Workers : 0 <= CapOf(V)
      BY <2>4
    <3>3. Workers \in SUBSET Workers
      OBVIOUS
    <3> HIDE DEF RunningRows, PlannedOf
    <3>4. \A u \in Users, V \in SUBSET Workers : Cardinality(PlannedOf(V, u)) <= CapOf(V)
      BY <3>1, <3>2
    <3>5. ASSUME NEW u \in Users
          PROVE  Cardinality(RunningRows(u)) + Cardinality(PlannedOf(Workers, u))
                   <= CapOf(Workers)
      <4>1. /\ Cardinality(RunningRows(u)) = 0 /\ Cardinality(PlannedOf(Workers, u)) = 0
            /\ 0 <= CapOf(Workers)
        BY <3>1, <3>2, <3>3
      <4> QED BY <4>1
    <3> QED BY <3>4, <3>5 DEF CapInv
  <2>7. BacklogInv
    BY <2>1, <2>2, <2>3, <2>5 DEF BacklogInv, Exists
  <2> QED BY <2>6, <2>7 DEF OverInv
<1>2. IInv /\ OverInv /\ [Next]_vars => OverInv'
  BY LoopOver, ThreadOver, EnvironmentOver DEF Next
<1>3. OverInv => OvershootBounded
  <2> SUFFICES ASSUME OverInv
               PROVE  OvershootBounded
    OBVIOUS
  <2>1. CapHolds
    <3> SUFFICES ASSUME NEW u \in Users
                 PROVE  RunningOf(u) <= PerUserLimit * Cardinality(Workers)
      BY DEF CapHolds
    <3>1. RunningOf(u) = Cardinality(RunningRows(u)) /\ Cardinality(RunningRows(u)) \in Nat
      BY RowsFinite DEF RunningOf, RunningRows
    <3>2. Cardinality(PlannedOf(Workers, u)) \in Nat
      BY RowsFinite DEF PlannedOf
    <3>3. Cardinality(RunningRows(u)) + Cardinality(PlannedOf(Workers, u)) <= CapOf(Workers)
      BY DEF OverInv, CapInv
    <3>4. CapOf(Workers) \in Nat
      BY CapAdds
    <3>5. RunningOf(u) <= CapOf(Workers)
      BY <3>1, <3>2, <3>3, <3>4
    <3> QED BY <3>5 DEF CapOf
  <2>2. RecurringBounded
    <3>1. Cardinality(Backlog) \in Nat /\ Cardinality(Inserting) \in Nat
      BY RowsFinite, FS_Subset, FS_CardinalityType DEF Backlog, Inserting
    <3>2. Cardinality(Backlog) + Cardinality(Inserting) <= Cardinality(Workers)
      BY DEF OverInv, BacklogInv
    <3>3. Cardinality(Workers) \in Nat
      BY FS_CardinalityType
    <3>4. Cardinality(Backlog) <= Cardinality(Workers)
      BY <3>1, <3>2, <3>3
    <3> QED BY <3>4 DEF Backlog, RecurringBounded
  <2> QED BY <2>1, <2>2 DEF OvershootBounded
<1> QED BY <1>1, <1>2, <1>3, Invariance, PTL DEF Spec
=============================================================================
