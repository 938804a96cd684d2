------------------------------- MODULE Chain -------------------------------
(***************************************************************************)
(* "Write the CV" (routes/drafts.py): one button, and up to three tasks -  *)
(* read the ad, check its requirements against the user's facts, write.    *)
(* A press queues the first step that is missing, and each step queues the *)
(* next when it has succeeded (jfl_worker.chain).  Every step is a charge  *)
(* on the user's own key, any task may be delivered again, and the ad may  *)
(* be read again at any moment, which deletes what was checked before.     *)
(*                                                                         *)
(* One application with an ad attached.  The queue is what TaskLifecycle   *)
(* promises: a task is handed out MaxAttempts times, to one thread at a    *)
(* time.                                                                   *)
(***************************************************************************)
EXTENDS Integers, FiniteSets

CONSTANTS
  Tasks,        \* task ids, in created_at order; also the bound on requests
  MaxAttempts,  \* tasks.max_attempts
  Presses,      \* POST /drafts requests that may be in progress at once
  Requirements, \* what readings may find; an id is derived from its wording
  NoTask

ASSUME ChainAssumption ==
  /\ Tasks \subseteq Nat
  /\ IsFiniteSet(Tasks)
  /\ MaxAttempts \in Nat \ {0}
  /\ NoTask \notin Tasks

VARIABLES
  kind,      \* kind[t], status[t], tries[t]: task t in the queue
  status,
  tries,
  after,     \* payload "after": the task this one follows
  more,      \* payload "then": whether the steps after this one are named
  at,        \* at[t]: where the thread that has task t stands
  seen,      \* seen[t]: the requirements a check put to the model
  reading,   \* applications.extraction_status
  required,  \* the job's requirements
  coverage,  \* requirement_coverage: <<task, requirement>>
  drafts,    \* the tasks with a stored draft or CV (trace_id)
  press      \* press[p]: the first step request p is about to queue

taskVars  == <<kind, status, tries, after, more>>
rowVars   == <<reading, required, coverage, drafts>>
chainVars == <<taskVars, at, seen, rowVars, press>>

Kinds == {"read", "check", "write"}
Unfinished == {"pending", "running"}

\* Waiting in the pool; in the handler, before a transaction or the model
\* call; or back from it with an outcome the runner has yet to record.
Handler  == {"start", "call", "finish", "next", "refuse", "exhaust"}
Outcomes == {"ok", "error", "permanent", "blocked"}

ChainTypeOK ==
  /\ kind \in [Tasks -> Kinds]
  /\ status \in [Tasks -> Unfinished \union {"absent", "succeeded", "failed"}]
  /\ tries \in [Tasks -> 0..MaxAttempts]
  /\ after \in [Tasks -> Tasks \union {NoTask}]
  /\ more \in [Tasks -> BOOLEAN]
  /\ at \in [Tasks -> {"none", "pool"} \union Handler \union Outcomes]
  /\ seen \in [Tasks -> SUBSET Requirements]
  /\ reading \in {"pending", "done", "failed"}
  /\ required \subseteq Requirements
  /\ coverage \subseteq Tasks \X required
  /\ drafts \subseteq Tasks
  /\ press \in [Presses -> Kinds \union {"none"}]

\* The ad was pasted and its reading failed: the worst place to press from.
ChainInit ==
  /\ kind = [t \in Tasks |-> "read"]          \* of no meaning while absent
  /\ status = [t \in Tasks |-> "absent"]
  /\ tries = [t \in Tasks |-> 0]
  /\ after = [t \in Tasks |-> NoTask]
  /\ more = [t \in Tasks |-> FALSE]
  /\ at = [t \in Tasks |-> "none"]
  /\ seen = [t \in Tasks |-> {}]
  /\ reading = "failed"
  /\ required = {} /\ coverage = {} /\ drafts = {}
  /\ press = [p \in Presses |-> "none"]

----------------------------------------------------------------------------
LastTry(t) == tries[t] >= MaxAttempts
Live(t) == status[t] \in Unfinished

NextId(t) ==
  /\ status[t] = "absent"
  /\ \A s \in Tasks : s < t => status[s] # "absent"

\* INSERT INTO tasks, with what its payload says of the chain.
Enqueue(k, follows, then) ==
  \E t \in Tasks :
    /\ NextId(t)
    /\ kind' = [kind EXCEPT ![t] = k]
    /\ status' = [status EXCEPT ![t] = "pending"]
    /\ after' = [after EXCEPT ![t] = follows]
    /\ more' = [more EXCEPT ![t] = then]
    /\ UNCHANGED tries

\* PostgresTaskRepository.follow_up.
Followed(t) == \E s \in Tasks : status[s] # "absent" /\ after[s] = t

\* What `then` names after a step of each kind, and whether more comes after.
NextKind(k) == IF k = "read" THEN "check" ELSE "write"

AdRead == required # {} \/ reading = "done"

\* latest_coverage
Covered == {pair[2] : pair \in coverage}

----------------------------------------------------------------------------
(* Web requests.                                                           *)

\* _active_task: a reading does not count once the ad has been read.
Active == \E t \in Tasks : Live(t) /\ ~ (kind[t] = "read" /\ AdRead)

\* plan_steps: nothing in progress; the first step not done is where a press
\* starts.
InProgress == Active \/ (reading = "pending" /\ ~ AdRead)
FirstMissing == IF ~ AdRead THEN "read" ELSE IF Covered = {} THEN "check" ELSE "write"

\* request_draft looks at where the application is ...
LookAtSteps(p) ==
  /\ press[p] = "none"
  /\ ~ InProgress
  /\ press' = [press EXCEPT ![p] = FirstMissing]
  /\ UNCHANGED <<taskVars, at, seen, rowVars>>

\* ... and queues the first missing step, naming the rest in its payload.
QueueChain(p) ==
  /\ press[p] # "none"
  /\ press' = [press EXCEPT ![p] = "none"]
  /\ Enqueue(press[p], NoTask, press[p] # "write")
  /\ reading' = IF press[p] = "read" THEN "pending" ELSE reading
  /\ UNCHANGED <<at, seen, required, coverage, drafts>>

\* "Read it again" and "check against your facts again": no chain, no guard.
ReadAgain ==
  /\ Enqueue("read", NoTask, FALSE)
  /\ reading' = "pending"
  /\ UNCHANGED <<at, seen, required, coverage, drafts, press>>

CheckCoverageNow ==
  /\ Enqueue("check", NoTask, FALSE)
  /\ UNCHANGED <<at, seen, rowVars, press>>

----------------------------------------------------------------------------
(* The three handlers.                                                     *)

Go(t, from, to) == at[t] = from /\ at' = [at EXCEPT ![t] = to]

\* claim_extraction: an ad that was read already is a prerequisite met.
StartRead(t) ==
  /\ kind[t] = "read"
  /\ Go(t, "start", IF reading = "done" THEN "next" ELSE "call")
  /\ UNCHANGED <<taskVars, seen, rowVars, press>>

\* coverage_run_exists
HasRun(t) == \E q \in Requirements : <<t, q>> \in coverage

\* A wrong AlreadyChecked: only the chained case is looked at.
AlreadyCheckedByOther(t) ==
  after[t] # NoTask /\ required # {} /\ required \subseteq Covered

\* This task has rows already, or - in a chain only - something
\* else has checked every requirement meanwhile.
AlreadyChecked(t) ==
  \/ HasRun(t)
  \/ after[t] # NoTask /\ required # {} /\ required \subseteq Covered

\* A wrong StartCheck: a step already done ends the chain.
StartCheckEnds(t) ==
  /\ kind[t] = "check"
  /\ Go(t, "start", IF AlreadyChecked(t) THEN "ok" ELSE "call")
  /\ UNCHANGED <<taskVars, seen, rowVars, press>>

StartCheck(t) ==
  /\ kind[t] = "check"
  /\ Go(t, "start", IF AlreadyChecked(t) THEN "next" ELSE "call")
  /\ UNCHANGED <<taskVars, seen, rowVars, press>>

\* version_for_trace, list_drafts: written on an earlier delivery.
StartWrite(t) ==
  /\ kind[t] = "write"
  /\ Go(t, "start", IF t \in drafts THEN "ok" ELSE "call")
  /\ UNCHANGED <<taskVars, seen, rowVars, press>>

\* What a step refuses to run without, as its generator reads it.
Missing(t) == \/ kind[t] \in {"check", "write"} /\ required = {}
              \/ kind[t] = "write" /\ Covered = {}

\* The stored key, then the model call: an answer, a failure no retry changes
\* (a key that is missing or cannot be unsealed, a refusal), one it may, or the
\* account's.  Without its prerequisites a step fails before the call.
Call(t) ==
  /\ \/ Go(t, "call", "finish") /\ ~ Missing(t)
     \/ Go(t, "call", "refuse")
     \/ /\ Go(t, "call", IF kind[t] = "read" /\ LastTry(t) THEN "exhaust" ELSE "error")
        /\ ~ Missing(t)
     \/ Go(t, "call", "blocked") /\ ~ Missing(t)
  /\ seen' = [seen EXCEPT ![t] = IF kind[t] = "check" THEN required ELSE {}]
  /\ UNCHANGED <<taskVars, rowVars, press>>

\* add_job and finish_extraction, in one transaction: new requirements, or
\* none; the coverage rows on the old ones go with them (ON DELETE CASCADE).
FinishRead(t) ==
  /\ kind[t] = "read"
  /\ Go(t, "finish", "next")
  /\ required' \in SUBSET Requirements
  /\ coverage' = {}
  /\ reading' = "done"
  /\ UNCHANGED <<taskVars, seen, drafts, press>>

\* record_coverage: its foreign keys refuse rows on requirements that were
\* replaced during the call.
FinishCheck(t) ==
  /\ kind[t] = "check"
  /\ IF seen[t] \subseteq required
     THEN Go(t, "finish", "next") /\ coverage' = coverage \union ({t} \X seen[t])
     ELSE Go(t, "finish", "error") /\ UNCHANGED coverage
  /\ UNCHANGED <<taskVars, seen, reading, required, drafts, press>>

\* The draft or the CV version, with the task's id as its trace.
FinishWrite(t) ==
  /\ kind[t] = "write"
  /\ Go(t, "finish", "ok")
  /\ drafts' = drafts \union {t}
  /\ UNCHANGED <<taskVars, seen, reading, required, coverage, press>>

\* A wrong QueueNext: never asks whether the next step is queued already.
QueueNextAlways(t) ==
  /\ Go(t, "next", "ok")
  /\ IF more[t]
     THEN Enqueue(NextKind(kind[t]), t, NextKind(kind[t]) # "write")
     ELSE UNCHANGED taskVars
  /\ UNCHANGED <<seen, rowVars, press>>

\* queue_next, in a transaction of its own after the step's.
QueueNext(t) ==
  /\ Go(t, "next", "ok")
  /\ IF more[t] /\ ~ Followed(t)
     THEN Enqueue(NextKind(kind[t]), t, NextKind(kind[t]) # "write")
     ELSE UNCHANGED taskVars
  /\ UNCHANGED <<seen, rowVars, press>>

\* A failure no retry fixes, or a reading's last; only a reading has a row to record it on.
Refuse(t) ==
  /\ Go(t, "refuse", "permanent") \/ Go(t, "exhaust", "error")
  /\ reading' = IF kind[t] = "read" THEN "failed" ELSE reading
  /\ UNCHANGED <<taskVars, seen, required, coverage, drafts, press>>

----------------------------------------------------------------------------
(* The queue and the runner, as TaskLifecycle has them.                    *)

Claim(t) ==
  /\ status[t] = "pending"
  /\ status' = [status EXCEPT ![t] = "running"]
  /\ tries' = [tries EXCEPT ![t] = @ + 1]
  /\ at' = [at EXCEPT ![t] = "start"]
  /\ UNCHANGED <<kind, after, more, seen, rowVars, press>>

\* What the runner records of an outcome; what a reclaim does with a task
\* whose process died is the same as for an error.
Ends(t, outcome) ==
  /\ status' = [status EXCEPT ![t] =
       CASE outcome = "ok" -> "succeeded"
         [] outcome = "permanent" \/ (outcome = "error" /\ LastTry(t)) -> "failed"
         [] OTHER -> "pending"]
  /\ tries' = IF outcome = "blocked" THEN [tries EXCEPT ![t] = @ - 1] ELSE tries

Leave(t) == /\ at' = [at EXCEPT ![t] = "none"]
            /\ seen' = [seen EXCEPT ![t] = {}]

Record(t) ==
  /\ at[t] \in Outcomes
  /\ Ends(t, at[t])
  /\ Leave(t)
  /\ UNCHANGED <<kind, after, more, rowVars, press>>

\* The process dies with the task wherever it stands and the task is reclaimed,
\* or a transaction fails and the runner records that: the same for the rows.
Lose(t) ==
  /\ at[t] # "none"
  /\ Ends(t, "error")
  /\ Leave(t)
  /\ UNCHANGED <<kind, after, more, rowVars, press>>

----------------------------------------------------------------------------
ChainNext ==
  \/ ReadAgain \/ CheckCoverageNow
  \/ \E p \in Presses : LookAtSteps(p) \/ QueueChain(p)
  \/ \E t \in Tasks :
       \/ StartRead(t) \/ StartCheck(t) \/ StartWrite(t) \/ Call(t)
       \/ FinishRead(t) \/ FinishCheck(t) \/ FinishWrite(t)
       \/ QueueNext(t) \/ Refuse(t)
       \/ Claim(t) \/ Record(t) \/ Lose(t)

ChainSpec == ChainInit /\ [][ChainNext]_chainVars

----------------------------------------------------------------------------
(* What must hold.                                                         *)

\* "One press is one of each step, never two" (chain.py), however often a
\* step is delivered and wherever it was cut off: no task is followed twice.
OneOfEachStep ==
  \A s, t \in Tasks : after[s] = after[t] /\ after[s] # NoTask => s = t

\* A chain never goes quiet: a step that succeeded, whether it did its work,
\* found it done or was cut off between its work and the queueing, has the
\* step named after it queued.
ChainContinues ==
  \A t \in Tasks : status[t] = "succeeded" /\ more[t] => Followed(t)

\* A delivery of a task whose result is stored does not pay for it again -
\* unless the ad was read again, and a check's rows went with what they
\* were about.
PaidOnce ==
  \A t \in Tasks : at[t] \in {"call", "finish"} => t \notin drafts /\ ~ HasRun(t)

\* "A press while a step for this application is already running queues
\* nothing" (request_draft): no two presses are under way at once.
Steps(t) == {s \in Tasks : s = t \/ after[s] = t
                            \/ (after[s] # NoTask /\ after[after[s]] = t)}
UnderWay(t) == /\ status[t] # "absent" /\ after[t] = NoTask /\ more[t]
               /\ \E s \in Steps(t) : Live(s)

SecondPressWaits == Cardinality({t \in Tasks : UnderWay(t)}) <= 1
=============================================================================
