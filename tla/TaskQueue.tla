----------------------------- MODULE TaskQueue -----------------------------
(***************************************************************************)
(* The background job queue: the `tasks` table and the statements that     *)
(* move its rows (packages/core/src/jfl_core/storage/tasks.py).  Every     *)
(* operator below is one method of PostgresTaskRepository (a request's     *)
(* side) or PostgresTaskQueue (the worker's side), as an action on `row`.  *)
(* Which transaction runs when, and who holds a row lock meanwhile, is the *)
(* business of the modules that use this one (Worker).                     *)
(*                                                                         *)
(* Timestamps are kept relative to now, in ticks, so that the state space  *)
(* is finite without bounding the clock:                                   *)
(*   row[t].wait   scheduled_at - now, saturating at -Horizon (overdue);   *)
(*   row[t].age    now - started_at of a running row, saturating at        *)
(*                 VisibilityTimeout (past it, every age is "stale").      *)
(* Both are columns nothing reads outside `pending` and `running`, so they *)
(* are zero elsewhere.                                                     *)
(***************************************************************************)
EXTENDS Integers, FiniteSets

CONSTANTS
  Tasks,             \* row ids; created_at orders rows as their ids
  Users,             \* the tenants
  ModelKinds,        \* kinds registered calls_model=True
  PlainKinds,        \* kinds registered calls_model=False
  MaxAttempts,       \* tasks.max_attempts (DEFAULT_MAX_ATTEMPTS)
  PerUserLimit,      \* WorkerSettings.per_user_concurrency
  VisibilityTimeout, \* WorkerSettings.visibility_timeout, in ticks
  ParkDelay,         \* WorkerSettings.park_delay, in ticks
  MaxDelay,          \* the longest any row is scheduled ahead, in ticks
  Horizon            \* how far an overdue row's lateness is remembered

Kinds == ModelKinds \union PlainKinds

ASSUME QueueAssumption ==
  /\ Tasks \subseteq Nat
  /\ IsFiniteSet(Tasks)
  /\ ModelKinds \intersect PlainKinds = {}
  /\ MaxAttempts \in Nat \ {0}
  /\ PerUserLimit \in Nat \ {0}
  /\ VisibilityTimeout \in Nat \ {0}
  /\ MaxDelay \in Nat
  /\ Horizon \in Nat
  /\ ParkDelay \in 0..MaxDelay

VARIABLE row         \* row[t]: the `tasks` row with id t, or Absent

Unfinished == {"pending", "running"}          \* UNFINISHED_STATUSES
Terminal   == {"succeeded", "failed"}

\* last_error, as far as a query reads it: resume_parked and count_parked
\* look for PARKED_NOTE_PREFIX, everything else is text for a person.
Notes == {"parked", "other"}

Row == [status: Unfinished \union Terminal, user: Users, kind: Kinds,
        attempts: 0..MaxAttempts, wait: (-Horizon)..MaxDelay,
        age: 0..VisibilityTimeout, note: Notes]

Absent == [status |-> "absent"]

Pending(t) == row[t].status = "pending"
Running(t) == row[t].status = "running"
Exists(t)  == row[t].status # "absent"

\* How many of user u's rows are `running`: the scalar subquery of claim.
RunningOf(u) == Cardinality({t \in Tasks : Running(t) /\ row[t].user = u})

----------------------------------------------------------------------------
(* What each statement writes into one row.                                *)

Claimed(r) ==
  [r EXCEPT !.status = "running", !.attempts = @ + 1, !.wait = 0, !.age = 0]

Succeeded(r) == [r EXCEPT !.status = "succeeded", !.wait = 0, !.age = 0]

GivenUp(r) ==
  [r EXCEPT !.status = "failed", !.wait = 0, !.age = 0, !.note = "other"]

Requeued(r, delay, note) ==
  [r EXCEPT !.status = "pending", !.wait = delay, !.age = 0, !.note = note]

Refunded(r, delay, note) ==
  [Requeued(r, delay, note) EXCEPT !.attempts = @ - 1]

----------------------------------------------------------------------------
(* PostgresTaskRepository: what a request may do.                          *)

\* enqueue: a new pending row.  Ids are handed out in created_at order.
Enqueue(u, k, delay) ==
  \E t \in Tasks :
    /\ ~ Exists(t)
    /\ \A s \in Tasks : s < t => Exists(s)
    /\ row' = [row EXCEPT ![t] =
         [status |-> "pending", user |-> u, kind |-> k, attempts |-> 0,
          wait |-> delay, age |-> 0, note |-> "other"]]

\* A wrong Queued: a running one does not count.
QueuedPending(u, k) ==
  \E t \in Tasks : Pending(t) /\ row[t].user = u /\ row[t].kind = k

\* enqueue_unique's read: is one of this kind already pending or running?
Queued(u, k) ==
  \E t \in Tasks :
    row[t].status \in Unfinished /\ row[t].user = u /\ row[t].kind = k

IsParked(t) == Pending(t) /\ row[t].note = "parked"

\* resume_parked: this user's parked rows become due now.
ResumeParked(u) ==
  row' = [t \in Tasks |->
            IF IsParked(t) /\ row[t].user = u
            THEN [row[t] EXCEPT !.wait = 0] ELSE row[t]]

----------------------------------------------------------------------------
(* PostgresTaskQueue: what the worker may do.                              *)

\* The queue order: scheduled_at, then created_at.
Before(s, t) ==
  \/ row[s].wait < row[t].wait
  \/ row[s].wait = row[t].wait /\ s < t

First(S, n) == {t \in S : Cardinality({s \in S : Before(s, t)}) < n}

\* A wrong Candidates: locked rows are read, not stepped over.
CandidatesUnlocked(kinds, locked) ==
  {t \in Tasks : Pending(t) /\ row[t].kind \in kinds /\ row[t].wait <= 0
                 /\ RunningOf(row[t].user) < PerUserLimit}

\* claim's candidates: due rows of the wanted kinds whose user is below the
\* cap, stepping over rows another transaction has locked (SKIP LOCKED).
Candidates(kinds, locked) ==
  {t \in Tasks \ locked :
     /\ Pending(t)
     /\ row[t].kind \in kinds
     /\ row[t].wait <= 0
     /\ RunningOf(row[t].user) < PerUserLimit}

\* The rows a claim of at most `limit` locks, and those of them it takes.  The
\* cap is applied again over the window, in order: a single claim could
\* otherwise hand one user several rows past it.
Window(kinds, limit, locked) == First(Candidates(kinds, locked), limit)

ClaimSet(kinds, limit, locked) ==
  LET window == Window(kinds, limit, locked)
      ahead(t) == {s \in window : row[s].user = row[t].user /\ Before(s, t)}
  IN  {t \in window :
         RunningOf(row[t].user) + Cardinality(ahead(t)) < PerUserLimit}

\* claim's UPDATE: an attempt is spent at claim time, not at failure time.
Claim(S) ==
  row' = [t \in Tasks |-> IF t \in S THEN Claimed(row[t]) ELSE row[t]]

MarkSucceeded(t) == row' = [row EXCEPT ![t] = Succeeded(@)]

\* mark_failed, whose SELECT comes first and takes no lock: what it read then
\* decides between giving up and another try.
Exhausted(t) == row[t].attempts >= MaxAttempts

MarkFailed(t, exhausted, delay) ==
  row' = [row EXCEPT ![t] =
            IF exhausted THEN GivenUp(@) ELSE Requeued(@, delay, "other")]

FailPermanently(t) == row' = [row EXCEPT ![t] = GivenUp(@)]

Release(t, delay, note) == row' = [row EXCEPT ![t] = Refunded(@, delay, note)]

\* A wrong ParkedWith: whatever state the user's other rows are in.
ParkedWithAny(t) ==
  {s \in Tasks \ {t} : Exists(s) /\ row[s].user = row[t].user
                        /\ row[s].kind \in ModelKinds /\ row[s].wait < ParkDelay}

\* The rows park_user_tasks moves along with t, once t itself is released.
ParkedWith(t) ==
  {s \in Tasks \ {t} :
     /\ Pending(s)
     /\ row[s].user = row[t].user
     /\ row[s].kind \in ModelKinds
     /\ row[s].wait < ParkDelay}

\* Worker._park's one transaction: release, then park_user_tasks.
Park(t) ==
  row' = [s \in Tasks |->
            IF s = t THEN Refunded(row[s], ParkDelay, "parked")
            ELSE IF s \in ParkedWith(t)
                 THEN [row[s] EXCEPT !.wait = ParkDelay, !.note = "parked"]
                 ELSE row[s]]

\* A wrong Stale: a tick early.
StaleEarly(t) == Running(t) /\ row[t].age + 1 >= VisibilityTimeout

Stale(t) == Running(t) /\ row[t].age >= VisibilityTimeout

\* Two wrong ReclaimStale: exhausted rows are requeued too; or they are left alone.

ReclaimRequeuesAll ==
  row' = [t \in Tasks |->
            IF Stale(t) THEN Requeued(row[t], 0, "other") ELSE row[t]]

ReclaimSkipsExhausted ==
  row' = [t \in Tasks |->
            IF Stale(t) /\ row[t].attempts < MaxAttempts
            THEN Requeued(row[t], 0, "other") ELSE row[t]]

\* reclaim_stale: back to pending, or failed once the attempts are gone.
ReclaimStale ==
  row' = [t \in Tasks |->
            IF ~ Stale(t) THEN row[t]
            ELSE IF Exhausted(t)
                 THEN GivenUp(row[t])
                 ELSE Requeued(row[t], 0, "other")]

\* One tick of every clock a row carries.
Older(r) ==
  CASE r.status = "pending" /\ r.wait > -Horizon -> [r EXCEPT !.wait = @ - 1]
    [] r.status = "running" /\ r.age < VisibilityTimeout ->
         [r EXCEPT !.age = @ + 1]
    [] OTHER -> r

RowTypeOK == row \in [Tasks -> Row \union {Absent}]
============================================================================
