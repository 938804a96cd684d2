------------------------------- MODULE Worker -------------------------------
(***************************************************************************)
(* The worker process (packages/worker/src/jfl_worker/runner.py) over the  *)
(* queue of TaskQueue: one loop thread per worker that maintains, claims   *)
(* and submits, a pool of threads that dispatch what was claimed and       *)
(* record the outcome, the kill switch, graceful shutdown, and the crashes *)
(* that make delivery at-least-once.                                       *)
(*                                                                         *)
(* Each action is one transaction (queue.py: a scope is one transaction)   *)
(* or one step of a thread between two of them.  A claim is two actions,   *)
(* its SELECT ... FOR UPDATE and its UPDATE with the commit, because other *)
(* workers, pool threads and requests run in between and meet its locks.   *)
(***************************************************************************)
EXTENDS TaskQueue

CONSTANTS
  Workers,         \* worker processes (one is deployed; SKIP LOCKED allows more)
  Slots,           \* the pool's threads: WorkerSettings.concurrency of them
  System,          \* WorkerSettings.system_user_id, owner of maintenance work
  Recurring,       \* a maintenance kind (session purge, feed-mark purge, board
                   \* pass, digest pass: the loop treats the four alike)
  RetryBase, RetryCap,  \* WorkerSettings.retry_base, retry_cap, in ticks
  RefuseDelay,     \* WorkerSettings.kill_switch_retry_delay, in ticks
  ReclaimInterval, \* WorkerSettings.reclaim_interval, in ticks
  EnqueueDelays,   \* how far ahead requests schedule new tasks
  Disturbances,    \* which of AllDisturbances a run explores (a bound)
  Prompt           \* TRUE: no delivery lasts as long as the visibility timeout,
                   \* the premise settings.py states for its default

\* The worker killed; the database away; SIGTERM; the kill switch thrown; an
\* Anthropic account that starts or stops refusing; "Retry now" pressed.
AllDisturbances == {"crash", "outage", "stop", "switch", "account", "retry"}

ASSUME WorkerAssumption ==
  /\ IsFiniteSet(Slots)
  /\ Slots # {}
  /\ System \in Users
  /\ Recurring \in PlainKinds
  /\ RetryBase \in Nat
  /\ RetryCap \in 0..MaxDelay
  /\ RefuseDelay \in 0..MaxDelay
  /\ ReclaimInterval \in Nat
  /\ EnqueueDelays \subseteq 0..MaxDelay
  /\ Disturbances \subseteq AllDisturbances
  /\ Prompt \in BOOLEAN

VARIABLES
  loop,        \* loop[w]: where w's loop thread is
  free,        \* free[w]: while it waits, the free slots it counted before
  plan,        \* plan[w]: the rows its open claim transaction will take
  passed,      \* passed[w]: those it locked too, and passed over for the cap
  hand,        \* hand[w]: deliveries claimed and not yet given to the pool
  job,         \* job[w][s]: what thread s of w's pool is doing
  wake,        \* wake[w]: the _wake event
  stop,        \* stop[w]: the _stop event
  reclaimIn,   \* reclaimIn[w]: ticks until _next_reclaim_at
  killSwitch,  \* JFL_DISABLE_MODEL_CALLS
  refusing,    \* the users whose Anthropic account refuses calls
  orphaned     \* history: running rows whose delivery died or was not recorded

procVars == <<loop, free, plan, passed, hand, job, wake, stop, reclaimIn>>
vars == <<row, procVars, killSwitch, refusing, orphaned>>

----------------------------------------------------------------------------
Delivery == [task: Tasks, attempt: 0..MaxAttempts]

Results == {"ok", "error", "permanent", "blocked"}

\* What mark_failed has read of an "error" before it writes.
Readings == {"retry", "exhausted"}

Job == [task: Tasks, attempt: 0..MaxAttempts,
        phase: {"submitted", "handling"} \union Results \union Readings]

Idle == [phase |-> "idle"]

Busy(w, s) == job[w][s].phase # "idle"

InFlight(w) == Cardinality({s \in Slots : Busy(w, s)})

\* The tasks some thread of w answers for: in hand, or on a pool thread.
HeldBy(w) ==
  {d.task : d \in hand[w]} \union
  {job[w][s].task : s \in {x \in Slots : Busy(w, x)}}

Held == UNION {HeldBy(w) : w \in Workers}

Locked == UNION {plan[w] \union passed[w] : w \in Workers}

RunnableKinds == IF killSwitch THEN PlainKinds ELSE Kinds

\* retry_base * 2^(attempts - 1), capped.
RetryDelay(attempts) ==
  LET seconds == RetryBase * 2 ^ (attempts - 1)
  IN  IF seconds \in 0..RetryCap THEN seconds ELSE RetryCap

\* The history variable after a step that abandons `lost`: a row stops being
\* an orphan when anything moves it out of `running`.
Orphan(lost) == orphaned' = {t \in orphaned \union lost : row'[t].status = "running"}

Goto(w, pc) == loop' = [loop EXCEPT ![w] = pc]

----------------------------------------------------------------------------
(* The loop thread: run_forever and _claim_and_submit.                     *)

\* The `while` test, then the first half of an iteration: the wake event is
\* cleared before anything is counted, and the reclaim sweep runs when due.
Top(w) ==
  /\ loop[w] = "top"
  /\ IF stop[w]
     THEN /\ Goto(w, "drain")
          /\ UNCHANGED <<row, wake, reclaimIn>>
     ELSE /\ Goto(w, "recur")
          /\ wake' = [wake EXCEPT ![w] = FALSE]
          /\ IF reclaimIn[w] = 0
             THEN /\ ReclaimStale
                  /\ reclaimIn' = [reclaimIn EXCEPT ![w] = ReclaimInterval]
             ELSE UNCHANGED <<row, reclaimIn>>
  /\ Orphan({})
  /\ UNCHANGED <<free, plan, passed, hand, job, stop, killSwitch, refusing>>

\* _enqueue_recurring, when one is due: enqueue_unique's read.
Recur(w) ==
  /\ loop[w] = "recur"
  /\ \/ Goto(w, "select")
     \/ ~ Queued(System, Recurring) /\ Goto(w, "insert")
  /\ UNCHANGED <<row, free, plan, passed, hand, job, wake, stop, reclaimIn,
                 killSwitch, refusing, orphaned>>

\* enqueue_unique's insert, which reads nothing again.  A full table (the
\* bound on Tasks) leaves it out.
Insert(w) ==
  /\ loop[w] = "insert"
  /\ Goto(w, "select")
  /\ \/ Enqueue(System, Recurring, 0)
     \/ (\A t \in Tasks : Exists(t)) /\ UNCHANGED row
  /\ UNCHANGED <<free, plan, passed, hand, job, wake, stop, reclaimIn,
                 killSwitch, refusing, orphaned>>

\* Count the free slots, read the switch, and open the claim: the SELECT ...
\* FOR UPDATE SKIP LOCKED.  With no slot or no row there is nothing to claim.
Select(w) ==
  LET slots == Cardinality(Slots) - InFlight(w)
      window == Window(RunnableKinds, slots, Locked)
      chosen == ClaimSet(RunnableKinds, slots, Locked)
  IN  /\ loop[w] = "select"
      /\ IF slots > 0 /\ chosen # {}
         THEN /\ plan' = [plan EXCEPT ![w] = chosen]
              /\ passed' = [passed EXCEPT ![w] = window \ chosen]
              /\ Goto(w, "commit")
              /\ UNCHANGED free
         ELSE /\ Goto(w, "wait")
              /\ free' = [free EXCEPT ![w] = slots]
              /\ UNCHANGED <<plan, passed>>
      /\ UNCHANGED <<row, hand, job, wake, stop, reclaimIn,
                     killSwitch, refusing, orphaned>>

\* The claim's UPDATE and its commit, before any handler runs.
Commit(w) ==
  /\ loop[w] = "commit"
  /\ Claim(plan[w])
  /\ hand' = [hand EXCEPT ![w] =
       {[task |-> t, attempt |-> row[t].attempts + 1] : t \in plan[w]}]
  /\ plan' = [plan EXCEPT ![w] = {}]
  /\ passed' = [passed EXCEPT ![w] = {}]
  /\ Goto(w, "submit")
  /\ UNCHANGED <<free, job, wake, stop, reclaimIn, killSwitch, refusing, orphaned>>

\* Each claimed task to a pool thread, even if a stop arrived in between; then
\* straight back to the top, because something was claimed.
Submit(w) ==
  /\ loop[w] = "submit"
  /\ IF hand[w] = {}
     THEN Goto(w, "top") /\ UNCHANGED <<hand, job>>
     ELSE \E d \in hand[w], s \in Slots :
            /\ ~ Busy(w, s)
            /\ hand' = [hand EXCEPT ![w] = @ \ {d}]
            /\ job' = [job EXCEPT ![w][s] = [task |-> d.task,
                         attempt |-> d.attempt, phase |-> "submitted"]]
            /\ UNCHANGED loop
  /\ UNCHANGED <<row, free, plan, passed, wake, stop, reclaimIn,
                 killSwitch, refusing, orphaned>>

\* A wrong Wait: the wake event is cleared here, after the slots were counted.
WaitAfterClear(w) ==
  /\ loop[w] = "wait"
  /\ IF wake[w]
     THEN wake' = [wake EXCEPT ![w] = FALSE] /\ UNCHANGED <<loop, free>>
     ELSE /\ Goto(w, "top")
          /\ free' = [free EXCEPT ![w] = 0]
          /\ UNCHANGED wake
  /\ UNCHANGED <<row, plan, passed, hand, job, stop, reclaimIn,
                 killSwitch, refusing, orphaned>>

\* _wake.wait(poll_interval): set, or timed out.
Wait(w) ==
  /\ loop[w] = "wait"
  /\ Goto(w, "top")
  /\ free' = [free EXCEPT ![w] = 0]
  /\ UNCHANGED <<row, plan, passed, hand, job, wake, stop, reclaimIn,
                 killSwitch, refusing, orphaned>>

\* The database is away during the poll: the open transaction rolls back and
\* the loop begins again after error_backoff.
PollFails(w) ==
  /\ "outage" \in Disturbances
  /\ loop[w] \in {"recur", "insert", "select", "commit"}
  /\ plan' = [plan EXCEPT ![w] = {}]
  /\ passed' = [passed EXCEPT ![w] = {}]
  /\ Goto(w, "top")
  /\ UNCHANGED <<row, free, hand, job, wake, stop, reclaimIn,
                 killSwitch, refusing, orphaned>>

\* ... or goes away as the claim commits: the rows are running and the loop,
\* which saw an exception, never submits them.
CommitUnacknowledged(w) ==
  /\ "outage" \in Disturbances
  /\ loop[w] = "commit"
  /\ Claim(plan[w])
  /\ Orphan(plan[w])
  /\ plan' = [plan EXCEPT ![w] = {}]
  /\ passed' = [passed EXCEPT ![w] = {}]
  /\ Goto(w, "top")
  /\ UNCHANGED <<free, hand, job, wake, stop, reclaimIn, killSwitch, refusing>>

\* A wrong Exit: the process does not wait for its threads.
ExitAtOnce(w) ==
  /\ loop[w] = "drain"
  /\ Goto(w, "down")
  /\ job' = [job EXCEPT ![w] = [s \in Slots |-> Idle]]
  /\ wake' = [wake EXCEPT ![w] = FALSE]
  /\ stop' = [stop EXCEPT ![w] = FALSE]
  /\ reclaimIn' = [reclaimIn EXCEPT ![w] = 0]
  /\ UNCHANGED <<row, free, plan, passed, hand, killSwitch, refusing, orphaned>>

\* _drain: the process ends once every thread has finished and recorded.
Exit(w) ==
  /\ loop[w] = "drain"
  /\ \A s \in Slots : ~ Busy(w, s)
  /\ Goto(w, "down")
  /\ wake' = [wake EXCEPT ![w] = FALSE]
  /\ stop' = [stop EXCEPT ![w] = FALSE]
  /\ reclaimIn' = [reclaimIn EXCEPT ![w] = 0]
  /\ UNCHANGED <<row, free, plan, passed, hand, job, killSwitch, refusing, orphaned>>

----------------------------------------------------------------------------
(* A pool thread: _run_task and _dispatch.                                 *)

\* The thread gives its slot back and wakes the loop.
GiveBack(w, s) ==
  /\ job' = [job EXCEPT ![w][s] = Idle]
  /\ wake' = [wake EXCEPT ![w] = TRUE]

SwitchedOff(t) == killSwitch /\ row[t].kind \in ModelKinds

\* The kill switch is read again at the moment of spending: a model task met
\* with the switch on is released, not failed.
Dispatch(w, s) ==
  LET t == job[w][s].task
  IN  /\ job[w][s].phase = "submitted"
      /\ IF SwitchedOff(t)
         THEN /\ t \notin Locked
              /\ Release(t, RefuseDelay, "other")
              /\ GiveBack(w, s)
         ELSE /\ job' = [job EXCEPT ![w][s].phase = "handling"]
              /\ UNCHANGED <<row, wake>>
      /\ Orphan({})
      /\ UNCHANGED <<loop, free, plan, passed, hand, stop, reclaimIn,
                     killSwitch, refusing>>

\* The handler returns, or raises; AccountBlockedError only from a model kind
\* whose user's account refused the call.
HandlerReturns(w, s) ==
  LET t == job[w][s].task
  IN  /\ job[w][s].phase = "handling"
      /\ \E result \in Results :
           /\ result = "blocked" =>
                row[t].kind \in ModelKinds /\ row[t].user \in refusing
           /\ job' = [job EXCEPT ![w][s].phase = result]
      /\ UNCHANGED <<row, loop, free, plan, passed, hand, wake, stop, reclaimIn,
                     killSwitch, refusing, orphaned>>

\* mark_failed's SELECT.  Its UPDATE is a step of its own: under READ COMMITTED
\* a sweep and a claim can commit in between.
ReadAttempts(w, s) ==
  /\ job[w][s].phase = "error"
  /\ job' = [job EXCEPT ![w][s].phase =
       IF Exhausted(job[w][s].task) THEN "exhausted" ELSE "retry"]
  /\ UNCHANGED <<row, loop, free, plan, passed, hand, wake, stop, reclaimIn,
                 killSwitch, refusing, orphaned>>

\* What the outcome does to the row: mark_succeeded, mark_failed with the
\* backoff, fail_permanently, or park.  The row's status is not looked at.
Outcome(t, attempt, result) ==
  \/ result = "ok" /\ MarkSucceeded(t)
  \/ result \in Readings /\ MarkFailed(t, result = "exhausted", RetryDelay(attempt))
  \/ result = "permanent" /\ FailPermanently(t)
  \/ result = "blocked" /\ Park(t) /\ ParkedWith(t) \intersect Locked = {}

\* The outcome is recorded, waiting for any row lock in its way.
Record(w, s) ==
  LET j == job[w][s]
  IN  /\ j.phase \in (Results \ {"error"}) \union Readings
      /\ j.task \notin Locked
      /\ Outcome(j.task, j.attempt, j.phase)
      /\ GiveBack(w, s)
      /\ Orphan({})
      /\ UNCHANGED <<loop, free, plan, passed, hand, stop, reclaimIn,
                     killSwitch, refusing>>

\* ... or cannot be, nor can a release: the row is left `running` for the
\* reclaim sweep.
RecordFails(w, s) ==
  /\ "outage" \in Disturbances
  /\ \/ job[w][s].phase \in Results \union Readings
     \/ job[w][s].phase = "submitted" /\ SwitchedOff(job[w][s].task)
  /\ GiveBack(w, s)
  /\ UNCHANGED <<row, loop, free, plan, passed, hand, stop, reclaimIn,
                 killSwitch, refusing>>
  /\ Orphan({job[w][s].task})

----------------------------------------------------------------------------
(* What happens to a worker from outside.                                  *)

\* request_stop, from SIGTERM.
RequestStop(w) ==
  /\ "stop" \in Disturbances
  /\ loop[w] # "down"
  /\ ~ stop[w]
  /\ stop' = [stop EXCEPT ![w] = TRUE]
  /\ wake' = [wake EXCEPT ![w] = TRUE]
  /\ UNCHANGED <<row, loop, free, plan, passed, hand, job, reclaimIn,
                 killSwitch, refusing, orphaned>>

\* SIGKILL, or the host is lost: the process and its open transaction vanish.
Crash(w) ==
  /\ "crash" \in Disturbances
  /\ loop[w] # "down"
  /\ Goto(w, "down")
  /\ plan' = [plan EXCEPT ![w] = {}]
  /\ passed' = [passed EXCEPT ![w] = {}]
  /\ hand' = [hand EXCEPT ![w] = {}]
  /\ job' = [job EXCEPT ![w] = [s \in Slots |-> Idle]]
  /\ free' = [free EXCEPT ![w] = 0]
  /\ wake' = [wake EXCEPT ![w] = FALSE]
  /\ stop' = [stop EXCEPT ![w] = FALSE]
  /\ reclaimIn' = [reclaimIn EXCEPT ![w] = 0]
  /\ UNCHANGED <<row, killSwitch, refusing>>
  /\ Orphan(HeldBy(w))

\* The container comes back, with every maintenance ticker due at once.
Restart(w) ==
  /\ loop[w] = "down"
  /\ Goto(w, "top")
  /\ UNCHANGED <<row, free, plan, passed, hand, job, wake, stop, reclaimIn,
                 killSwitch, refusing, orphaned>>

----------------------------------------------------------------------------
(* Everyone else: requests, the operator, the user's account, the clock.   *)

RequestEnqueues(u, k) ==
  /\ \E delay \in EnqueueDelays : Enqueue(u, k, delay)
  /\ UNCHANGED <<procVars, killSwitch, refusing, orphaned>>

\* "Retry now", or a new key saved: the UPDATE waits for any claim holding
\* one of the parked rows.
RetryNow(u) ==
  /\ "retry" \in Disturbances
  /\ \E t \in Tasks : IsParked(t) /\ row[t].user = u /\ row[t].wait > 0
  /\ \A t \in Locked : ~ (IsParked(t) /\ row[t].user = u)
  /\ ResumeParked(u)
  /\ UNCHANGED <<procVars, killSwitch, refusing, orphaned>>

ThrowSwitch ==
  /\ "switch" \in Disturbances
  /\ killSwitch' = ~ killSwitch
  /\ UNCHANGED <<row, procVars, refusing, orphaned>>

AccountChanges(u) ==
  /\ "account" \in Disturbances
  /\ refusing' = IF u \in refusing THEN refusing \ {u} ELSE refusing \union {u}
  /\ UNCHANGED <<row, procVars, killSwitch, orphaned>>

\* Time passes.  Under Prompt, no delivery outlives the visibility timeout.
Tick ==
  /\ Prompt => \A t \in Held : Running(t) => row[t].age + 1 < VisibilityTimeout
  /\ row' = [t \in Tasks |-> Older(row[t])]
  /\ reclaimIn' = [w \in Workers |-> IF reclaimIn[w] > 0 THEN reclaimIn[w] - 1 ELSE 0]
  /\ <<row, reclaimIn>>' # <<row, reclaimIn>>
  /\ UNCHANGED <<loop, free, plan, passed, hand, job, wake, stop,
                 killSwitch, refusing, orphaned>>

----------------------------------------------------------------------------
Init ==
  /\ row = [t \in Tasks |-> Absent]
  /\ loop = [w \in Workers |-> "top"]
  /\ free = [w \in Workers |-> 0]
  /\ plan = [w \in Workers |-> {}]
  /\ passed = [w \in Workers |-> {}]
  /\ hand = [w \in Workers |-> {}]
  /\ job = [w \in Workers |-> [s \in Slots |-> Idle]]
  /\ wake = [w \in Workers |-> FALSE]
  /\ stop = [w \in Workers |-> FALSE]
  /\ reclaimIn = [w \in Workers |-> 0]
  /\ killSwitch = FALSE
  /\ refusing = {}
  /\ orphaned = {}

LoopStep(w) ==
  Top(w) \/ Recur(w) \/ Insert(w) \/ Select(w) \/ Commit(w) \/ Submit(w)
  \/ Wait(w) \/ Exit(w)

LoopFails(w) == PollFails(w) \/ CommitUnacknowledged(w)

ThreadStep(w, s) ==
  Dispatch(w, s) \/ HandlerReturns(w, s) \/ ReadAttempts(w, s) \/ Record(w, s)

ProcessStep(w) == RequestStop(w) \/ Crash(w) \/ Restart(w)

Environment ==
  \/ \E u \in Users \ {System}, k \in Kinds \ {Recurring} : RequestEnqueues(u, k)
  \/ \E u \in Users \ {System} : RetryNow(u) \/ AccountChanges(u)
  \/ ThrowSwitch
  \/ Tick

Next ==
  \/ \E w \in Workers : LoopStep(w) \/ LoopFails(w) \/ ProcessStep(w)
  \/ \E w \in Workers, s \in Slots : ThreadStep(w, s) \/ RecordFails(w, s)
  \/ Environment

Spec == Init /\ [][Next]_vars

\* Fairness.  Each thread runs when it can (weak fairness); a handler returns,
\* because every model call has a timeout; time passes; Docker restarts what
\* exited.  Strong fairness on the loop's steps is the one thing asked of
\* failures: crashes and outages may recur for ever, and may hit any step, but
\* not every single time that step is reached.
Fairness ==
  /\ SF_vars(Tick)
  /\ \A w \in Workers :
       /\ WF_vars(Restart(w))
       /\ SF_vars(Top(w)) /\ SF_vars(Recur(w)) /\ SF_vars(Insert(w))
       /\ SF_vars(Select(w)) /\ SF_vars(Commit(w)) /\ SF_vars(Submit(w))
       /\ WF_vars(Wait(w)) /\ WF_vars(Exit(w))
       /\ \A s \in Slots :
            /\ WF_vars(Dispatch(w, s))
            /\ WF_vars(HandlerReturns(w, s))
            /\ WF_vars(ReadAttempts(w, s) \/ Record(w, s) \/ RecordFails(w, s))

FairSpec == Spec /\ Fairness

----------------------------------------------------------------------------
(* Safety.                                                                 *)

\* Every variable has its type; that attempts never pass MaxAttempts is a claim
\* about Prompt deliveries only (see AttemptsBounded).
TypeOK ==
  /\ RowTypeOK
  /\ loop \in [Workers -> {"top", "recur", "insert", "select", "commit",
                           "submit", "wait", "drain", "down"}]
  /\ free \in [Workers -> 0..Cardinality(Slots)]
  /\ plan \in [Workers -> SUBSET Tasks]
  /\ passed \in [Workers -> SUBSET Tasks]
  /\ hand \in [Workers -> SUBSET Delivery]
  /\ job \in [Workers -> [Slots -> Job \union {Idle}]]
  /\ wake \in [Workers -> BOOLEAN]
  /\ stop \in [Workers -> BOOLEAN]
  /\ reclaimIn \in [Workers -> 0..ReclaimInterval]
  /\ killSwitch \in BOOLEAN
  /\ refusing \subseteq Users
  /\ orphaned \subseteq Tasks

\* The deliveries of task t alive in some worker.
InHand(t) == {x \in Workers \X Delivery : x[2] \in hand[x[1]] /\ x[2].task = t}
OnThread(t) ==
  {x \in Workers \X Slots : Busy(x[1], x[2]) /\ job[x[1]][x[2]].task = t}

\* An attempt is spent when a row is claimed and refunded only to the delivery
\* that was claimed, so however claims, refunds, reclaims and retries
\* interleave the count never falls below the deliveries still running: no
\* refund drives it negative (a CHECK of the table).  And a waiting row has an
\* attempt left, so a task that kills its worker every time runs out (tasks.py,
\* docstring) - given Prompt: mark_failed reads before it writes, and a late
\* one requeues a row whose last attempt was claimed in between.
AttemptsBounded ==
  \A t \in Tasks : Exists(t) =>
    /\ Prompt /\ Pending(t) => row[t].attempts < MaxAttempts
    /\ row[t].attempts >= Cardinality(InHand(t)) + Cardinality(OnThread(t))

\* While handlers keep within the visibility timeout, a task is never in two
\* hands: each delivery is the only one of its row, the row is `running` under
\* that very attempt, and the reclaim sweep does not see it as stale.
OneDelivery ==
  Prompt => \A t \in Tasks :
    /\ Cardinality(InHand(t)) + Cardinality(OnThread(t)) <= 1
    /\ t \in Held => Running(t) /\ ~ Stale(t)
    /\ \A w \in Workers : \A d \in hand[w] :
         d.task = t => d.attempt = row[t].attempts
    /\ \A w \in Workers, s \in Slots :
         Busy(w, s) /\ job[w][s].task = t => job[w][s].attempt = row[t].attempts

\* A `running` row is being worked on, or its worker died or could not record
\* it: polls, drains and outages otherwise leave no row behind.
RunningIsAccounted ==
  \A t \in Tasks : Running(t) => t \in Held \union orphaned

\* The loop never sleeps on a slot that freed after it counted: if it is
\* waiting and no wake-up is set, the count it polled with still stands.
NoMissedWake ==
  \A w \in Workers :
    loop[w] = "wait" /\ ~ wake[w] => free[w] = Cardinality(Slots) - InFlight(w)

\* A row is claimed only into a free slot, never to queue behind running ones:
\* what the loop has in hand or is about to claim always fits the idle threads.
ClaimsFitSlots ==
  \A w \in Workers :
    Cardinality(plan[w]) + Cardinality(hand[w]) + InFlight(w) <= Cardinality(Slots)

\* The per-user cap: hard with one worker; across workers the overshoot is
\* bounded by their number (claim, docstring), crashes and orphans included.
CapHolds ==
  \A u \in Users : RunningOf(u) <= PerUserLimit * Cardinality(Workers)

\* enqueue_unique is a duplicate suppressor, not a lock: workers that race can
\* each insert, but the backlog of a maintenance kind never grows past one row
\* per worker, however long nothing ran.
RecurringBounded ==
  Cardinality({t \in Tasks : row[t].status \in Unfinished
                             /\ row[t].kind = Recurring}) <= Cardinality(Workers)

\* A row that has succeeded or failed stays exactly as it is: "it never
\* disappears and it never retries again" (tasks.py, docstring).
FinishedStaysFinished ==
  [][\A t \in Tasks : row[t].status \in Terminal => row'[t] = row[t]]_vars

\* Giving up is final: "it never disappears and it never retries again"
\* (tasks.py, docstring), whatever a slow delivery still does to the row.
GivenUpNeverRetries ==
  [][\A t \in Tasks :
       row[t].status = "failed" => row'[t].status \notin Unfinished]_vars

\* After a refusal the user's queue is held so that "the next probe is one
\* call rather than one per queued task" (_park, docstring): of a user's
\* parked tasks, one at a time is tried.
OneProbe ==
  \A u \in Users :
    Cardinality({t \in Tasks : Running(t) /\ row[t].note = "parked"
                               /\ row[t].user = u}) <= 1

----------------------------------------------------------------------------
(* The promise the queue keeps: TaskLifecycle.                             *)

\* The tasks some thread is inside the handler of.
Handling ==
  {t \in Tasks : \E w \in Workers, s \in Slots :
     job[w][s].phase = "handling" /\ job[w][s].task = t}

Life == INSTANCE TaskLifecycle WITH
  status <- [t \in Tasks |-> row[t].status],
  tries  <- [t \in Tasks |-> IF Exists(t) THEN row[t].attempts ELSE 0],
  doing  <- Handling

\* Under Prompt, every run of the workers is one of TaskLifecycle: polls,
\* crashes, reclaims and retries show as its moves, and no task's handler runs
\* twice at once or is pulled from under its thread.
Implements == Life!LifeSpec

----------------------------------------------------------------------------
(* Liveness.                                                               *)

\* From some point on the operator has turned model calls back on, accounts
\* accept calls, and nobody asks the workers to stop.
Calm ==
  <>[](~ killSwitch /\ refusing = {} /\ \A w \in Workers : ~ stop[w])

\* Every task ends, in success or in a visible failure, though workers crash,
\* claims go unacknowledged and outcomes are not recorded again and again.
EveryTaskSettles ==
  Calm => \A t \in Tasks : Exists(t) ~> row[t].status \in Terminal
============================================================================
