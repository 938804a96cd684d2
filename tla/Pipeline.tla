------------------------------ MODULE Pipeline ------------------------------
(***************************************************************************)
(* One application on its way from "added" to "scored": the ad is fetched  *)
(* from a watched board (handlers/description.py) or pasted, read into     *)
(* requirements by a model call (handlers/extraction.py), and scored by    *)
(* another (handlers/scoring.py).  Three parties write the same few rows:  *)
(* the web requests (routes/applications.py, routes/tracking.py), the      *)
(* worker threads running those handlers, and the queue, which may deliver *)
(* any task again.  A handler holds no transaction across its steps        *)
(* (except where said), so each of its transactions is an action here and  *)
(* anything may happen between two of them.                                *)
(*                                                                         *)
(* The queue is what TaskLifecycle promises, no more (QueueKept): which    *)
(* worker, which poll and which clock are Worker's business.               *)
(***************************************************************************)
EXTENDS Integers, FiniteSets

CONSTANTS
  Tasks,        \* task ids, in created_at order; also the bound on requests
  MaxAttempts,  \* tasks.max_attempts
  Ads,          \* the ad texts there are: a `jobs` id is derived from its text
  BoardAd,      \* the one the watched board publishes
  NoAd,         \* applications.job_id IS NULL
  MaxPresses,   \* how many Re-score requests may be in progress at once
  Faulty        \* whether processes die and transactions fail

ASSUME PipelineAssumption ==
  /\ Tasks \subseteq Nat
  /\ IsFiniteSet(Tasks)
  /\ MaxAttempts \in Nat \ {0}
  /\ BoardAd \in Ads
  /\ NoAd \notin Ads
  /\ MaxPresses \in Nat
  /\ Faulty \in BOOLEAN

VARIABLES
  kind,      \* kind[t]: what task t is for; a score task's id names its score
  status,    \* status[t], tries[t]: its row in the queue
  tries,
  at,        \* at[t]: where the thread that has task t stands
  claimed,   \* claimed[t]: the ad text a reading handler took at its start
  reading,   \* applications.extraction_status, and whether it has a code
  ad,        \* applications.job_id
  required,  \* the ads whose job has requirements stored
  score,     \* score[t]: the application_scores row task t was queued for
  pressing,  \* Re-score requests between their read and their insert
  hasKey,    \* whether the user has an API key stored
  cut        \* history: the tasks cut off in their last attempt

vars == <<kind, status, tries, at, claimed, reading, ad, required, score,
          pressing, hasKey, cut>>

taskVars  == <<kind, status, tries>>
rowVars   == <<reading, ad, required, score>>
queueVars == <<taskVars, pressing, hasKey, cut>>

Kinds == {"fetch", "read", "score"}
Unfinished == {"pending", "running"}

NoScore == [status |-> "none", noted |-> FALSE, chained |-> FALSE]

\* What a thread may be doing with its task: waiting in the pool, inside the
\* handler (before a transaction or the model call it is about to make), or
\* back from it with an outcome the runner has yet to record.
Handler  == {"start", "key", "inputs", "call", "finish", "chain", "keep",
             "note", "exhaust", "refuse", "after"}
Outcomes == {"ok", "error", "permanent", "blocked"}
Places   == {"none", "pool"} \union Handler \union Outcomes

Handling == {t \in Tasks : at[t] \in Handler}
Last(t)  == tries[t] >= MaxAttempts          \* ctx.is_last_attempt

TypeOK ==
  /\ kind \in [Tasks -> Kinds]
  /\ status \in [Tasks -> Unfinished \union {"absent", "succeeded", "failed"}]
  /\ tries \in [Tasks -> 0..MaxAttempts]
  /\ at \in [Tasks -> Places]
  /\ claimed \in [Tasks -> Ads \union {NoAd}]
  /\ reading \in [status: {"absent", "pending", "done", "failed"},
                  noted: BOOLEAN]
  /\ ad \in Ads \union {NoAd}
  /\ required \subseteq Ads
  /\ score \in [Tasks -> [status: {"none", "pending", "done", "failed"},
                          noted: BOOLEAN, chained: BOOLEAN]]
  /\ pressing \in 0..MaxPresses
  /\ hasKey \in BOOLEAN
  /\ cut \subseteq Tasks

Init ==
  /\ kind = [t \in Tasks |-> "read"]          \* of no meaning while absent
  /\ status = [t \in Tasks |-> "absent"]
  /\ tries = [t \in Tasks |-> 0]
  /\ at = [t \in Tasks |-> "none"]
  /\ claimed = [t \in Tasks |-> NoAd]
  /\ reading = [status |-> "absent", noted |-> FALSE]
  /\ ad = NoAd
  /\ required = {}
  /\ score = [t \in Tasks |-> NoScore]
  /\ pressing = 0
  /\ hasKey \in BOOLEAN
  /\ cut = {}

----------------------------------------------------------------------------
(* The rows.                                                               *)

Exists  == reading.status # "absent"
Waiting == [status |-> "pending", noted |-> FALSE]
Done    == [status |-> "done", noted |-> FALSE]
Failed  == [status |-> "failed", noted |-> TRUE]

\* The id the next row gets.
NextId(t) ==
  /\ status[t] = "absent"
  /\ \A s \in Tasks : s < t => status[s] # "absent"

Queue(t, k) ==
  /\ kind' = [kind EXCEPT ![t] = k]
  /\ status' = [status EXCEPT ![t] = "pending"]
  /\ tries' = [tries EXCEPT ![t] = 0]

\* A pending score and the task that is to run it, in one transaction.
QueueScore(t, chained) ==
  /\ Queue(t, "score")
  /\ score' = [score EXCEPT ![t] =
       [status |-> "pending", noted |-> FALSE, chained |-> chained]]

\* An UPDATE of a run's own status and error code.
SetRun(t, s, noted) ==
  score' = [score EXCEPT ![t] =
    [status |-> s, noted |-> noted, chained |-> score[t].chained]]

Scores == {t \in Tasks : score[t].status # "none"}

\* PostgresScoreRepository.latest is a pending one.
InFlight ==
  \E t \in Scores : score[t].status = "pending" /\ \A s \in Scores : s <= t

HasActive == \E t \in Scores : score[t].status # "failed"

\* finish_extraction has updated the application row and its transaction is
\* still open: other writers of that row wait, readers see it as it was.
Locked == \E t \in Tasks : at[t] \in {"chain", "keep"}

\* _fail of each handler: unconditional.
FailRow(t) ==
  IF kind[t] = "score"
  THEN /\ SetRun(t, "failed", TRUE)
       /\ UNCHANGED reading
  ELSE /\ ~ Locked
       /\ reading' = Failed
       /\ UNCHANGED score

\* A wrong NoteRow: without the guard on `pending`.
NoteAnyRow(t) ==
  IF kind[t] = "score"
  THEN SetRun(t, score[t].status, TRUE) /\ UNCHANGED reading
  ELSE ~ Locked /\ reading' = [reading EXCEPT !.noted = TRUE] /\ UNCHANGED score

\* note_extraction_retry and note_retry: only while the row is pending.
NoteRow(t) ==
  IF kind[t] = "score"
  THEN /\ SetRun(t, score[t].status, score[t].noted \/ score[t].status = "pending")
       /\ UNCHANGED reading
  ELSE /\ ~ Locked
       /\ reading' = [reading EXCEPT !.noted = @ \/ reading.status = "pending"]
       /\ UNCHANGED score

----------------------------------------------------------------------------
(* Web requests, each one transaction.                                     *)

\* POST /applications: without a key the read is not even queued.
CreateApplication ==
  /\ ~ Exists
  /\ ad' \in Ads
  /\ IF hasKey
     THEN reading' = Waiting /\ \E t \in Tasks : NextId(t) /\ Queue(t, "read")
     ELSE reading' = Failed /\ UNCHANGED taskVars
  /\ UNCHANGED <<at, claimed, required, score, pressing, hasKey, cut>>

\* POST /jobs/{id}/track: the ad is fetched by the worker, later.
TrackAsApplication ==
  /\ ~ Exists
  /\ reading' = Waiting
  /\ \E t \in Tasks : NextId(t) /\ Queue(t, "fetch")
  /\ UNCHANGED <<at, claimed, ad, required, score, pressing, hasKey, cut>>

\* POST /applications/{id}/extract: "Read it again", whatever the read's state.
ExtractAgain ==
  /\ Exists /\ ad # NoAd /\ ~ Locked
  /\ reading' = Waiting
  /\ \E t \in Tasks : NextId(t) /\ Queue(t, "read")
  /\ UNCHANGED <<at, claimed, ad, required, score, pressing, hasKey, cut>>

\* POST /applications/{id}/ad: paste the ad by hand.  Nothing here asks
\* whether an ad is attached already.
AttachAd ==
  /\ Exists /\ ~ Locked
  /\ ad' \in Ads
  /\ reading' = Waiting
  /\ \E t \in Tasks : NextId(t) /\ Queue(t, "read")
  /\ UNCHANGED <<at, claimed, required, score, pressing, hasKey, cut>>

\* POST /applications/{id}/score: looks for a run in flight ...
LookForRun ==
  /\ Exists
  /\ ~ InFlight
  /\ pressing < MaxPresses
  /\ pressing' = pressing + 1
  /\ UNCHANGED <<taskVars, at, claimed, rowVars, hasKey, cut>>

\* ... and queues one, in the same transaction but later.  The insert's
\* foreign key does not conflict with the lock finish_extraction holds.
InsertRun ==
  /\ pressing > 0
  /\ pressing' = pressing - 1
  /\ \E t \in Tasks : NextId(t) /\ QueueScore(t, FALSE)
  /\ UNCHANGED <<at, claimed, reading, ad, required, hasKey, cut>>

\* POST /settings: nothing in the program ever removes a stored key.
SaveKey ==
  /\ ~ hasKey
  /\ hasKey' = TRUE
  /\ UNCHANGED <<taskVars, at, claimed, rowVars, pressing, cut>>

----------------------------------------------------------------------------
(* The handlers, from the queue's Begin to their return.  Every step goes   *)
(* from one place to the next; Go says where, and what it leaves alone.     *)

Go(t, from, to) == at[t] = from /\ at' = [at EXCEPT ![t] = to]


\* claim_extraction: the ad text, unless there is none or it is read already.
StartRead(t) ==
  /\ kind[t] = "read"
  /\ IF ad = NoAd \/ reading.status = "done"
     THEN Go(t, "start", "after") /\ UNCHANGED claimed
     ELSE Go(t, "start", "key") /\ claimed' = [claimed EXCEPT ![t] = ad]
  /\ UNCHANGED <<queueVars, rowVars>>

\* The fetch handler looks for an attached ad once, before its HTTP requests;
\* the board or its job may be gone.
StartFetch(t) ==
  /\ kind[t] = "fetch"
  /\ IF ad # NoAd THEN Go(t, "start", "after")
     ELSE Go(t, "start", "call") \/ Go(t, "start", "refuse")
  /\ UNCHANGED <<queueVars, rowVars, claimed>>

\* A wrong StartScore: a run that is over is run again.
StartAnyScore(t) ==
  /\ kind[t] = "score"
  /\ Go(t, "start", "key")
  /\ UNCHANGED <<queueVars, rowVars, claimed>>

StartScore(t) ==
  /\ kind[t] = "score"
  /\ Go(t, "start", IF score[t].status = "pending" THEN "key" ELSE "after")
  /\ UNCHANGED <<queueVars, rowVars, claimed>>

\* The stored key, which may be missing or impossible to unseal.
LoadKey(t) ==
  /\ \/ Go(t, "key", "refuse")
     \/ /\ hasKey
        /\ Go(t, "key", IF kind[t] = "score" THEN "inputs" ELSE "call")
  /\ UNCHANGED <<queueVars, rowVars, claimed>>

\* No ad, or none read into requirements: nothing to score against.
ReadInputs(t) ==
  /\ Go(t, "inputs", IF ad \in required THEN "call" ELSE "refuse")
  /\ UNCHANGED <<queueVars, rowVars, claimed>>

\* A wrong Call: a retryable failure is taken for the last one too early or
\* too late (is_last_attempt off by one).
CallNeverLast(t) ==
  /\ \E result \in {"finish", "refuse", "note"} : Go(t, "call", result)
  /\ UNCHANGED <<queueVars, rowVars, claimed>>

\* The model call (HTTP requests, for a fetch): an answer, a failure no retry
\* can fix, a failure a retry may, or the account refused it.
Call(t) ==
  /\ \/ Go(t, "call", "finish")
     \/ Go(t, "call", "refuse")
     \/ Go(t, "call", IF Last(t) THEN "exhaust" ELSE "note")
     \/ kind[t] # "fetch" /\ Go(t, "call", "blocked")
  /\ UNCHANGED <<queueVars, rowVars, claimed>>

\* A wrong FinishRead: its transaction leaves the application row unlocked.
FinishReadUnlocked(t) ==
  /\ kind[t] = "read"
  /\ Go(t, "finish", IF HasActive THEN "keep" ELSE "chain")
  /\ UNCHANGED <<queueVars, rowVars, claimed>>

\* finish_extraction locks the application, then has_active is read.
FinishRead(t) ==
  /\ kind[t] = "read"
  /\ ~ Locked
  /\ Go(t, "finish", IF HasActive THEN "keep" ELSE "chain")
  /\ UNCHANGED <<queueVars, rowVars, claimed>>

\* ... and everything it wrote commits together: the requirements of the ad
\* it was given (there may be none), the read, and the first score.
CommitRead(t) ==
  /\ \/ Go(t, "keep", "after") /\ UNCHANGED <<taskVars, score>>
     \/ /\ Go(t, "chain", "after")
        /\ \E s \in Tasks : NextId(s) /\ QueueScore(s, TRUE)
  /\ reading' = Done
  /\ required' \in {required \union {claimed[t]}, required \ {claimed[t]}}
  /\ UNCHANGED <<claimed, ad, pressing, hasKey, cut>>

\* attach_job_ad with the text the board published, and its read queued
\* unless there is no key to read it with.
FinishFetch(t) ==
  /\ kind[t] = "fetch"
  /\ ~ Locked
  /\ Go(t, "finish", "after")
  /\ ad' = BoardAd
  /\ IF hasKey
     THEN reading' = Waiting /\ \E s \in Tasks : NextId(s) /\ Queue(s, "read")
     ELSE reading' = Failed /\ UNCHANGED taskVars
  /\ UNCHANGED <<claimed, required, score, pressing, hasKey, cut>>

\* mark_done: both scores in one write.
FinishScore(t) ==
  /\ kind[t] = "score"
  /\ Go(t, "finish", "after")
  /\ SetRun(t, "done", FALSE)
  /\ UNCHANGED <<queueVars, reading, ad, required, claimed>>

\* The failure is recorded on the row first, then raised.
Fail(t) ==
  /\ Go(t, "refuse", "permanent") \/ Go(t, "exhaust", "error")
  /\ FailRow(t)
  /\ UNCHANGED <<queueVars, ad, required, claimed>>

NoteRetry(t) ==
  /\ Go(t, "note", "error")
  /\ NoteRow(t)
  /\ UNCHANGED <<queueVars, ad, required, claimed>>

Return(t) ==
  /\ Go(t, "after", "ok")
  /\ UNCHANGED <<queueVars, rowVars, claimed>>

\* Nothing of this attempt gets to run any more; was it the last?
CutOff(t) == cut' = IF Last(t) THEN cut \union {t} ELSE cut

\* Any transaction may fail with something that is no GenerateError: the
\* handler ends there, and its row is told nothing.
Raise(t) ==
  /\ Faulty
  /\ at[t] \in Handler
  /\ at' = [at EXCEPT ![t] = "error"]
  /\ CutOff(t)
  /\ UNCHANGED <<taskVars, pressing, hasKey, rowVars, claimed>>

----------------------------------------------------------------------------
(* The queue and the runner, as TaskLifecycle has them.                    *)

\* What becomes of a task's row: only a park or a release changes its tries.
Becomes(t, s) == status' = [status EXCEPT ![t] = s]

GivenUp(t) == Becomes(t, "failed") /\ UNCHANGED tries

RetryOrGiveUp(t) ==
  IF Last(t) THEN GivenUp(t) ELSE Becomes(t, "pending") /\ UNCHANGED tries

\* Handed back with its try: released, or parked.
HandedBack(t) ==
  /\ Becomes(t, "pending")
  /\ tries' = [tries EXCEPT ![t] = @ - 1]

Claim(t) ==
  /\ status[t] = "pending"
  /\ Becomes(t, "running")
  /\ tries' = [tries EXCEPT ![t] = @ + 1]
  /\ at' = [at EXCEPT ![t] = "pool"]
  /\ UNCHANGED <<kind, claimed, rowVars, pressing, hasKey, cut>>

\* Shut down, or refused, before its handler started: the try is given back.
Release(t) ==
  /\ Go(t, "pool", "none")
  /\ HandedBack(t)
  /\ UNCHANGED <<kind, claimed, rowVars, pressing, hasKey, cut>>

Begin(t) ==
  /\ Go(t, "pool", "start")
  /\ UNCHANGED <<queueVars, rowVars, claimed>>

\* The thread is done with its task, and with what it knew of it.
Leave(t) ==
  /\ at' = [at EXCEPT ![t] = "none"]
  /\ claimed' = [claimed EXCEPT ![t] = NoAd]

\* The runner records what the handler came back with.
Record(t) ==
  /\ Leave(t)
  /\ \/ at[t] = "ok" /\ Becomes(t, "succeeded") /\ UNCHANGED tries
     \/ at[t] = "permanent" /\ GivenUp(t)
     \/ at[t] = "blocked" /\ HandedBack(t)
     \/ at[t] = "error" /\ RetryOrGiveUp(t)
  /\ UNCHANGED <<kind, rowVars, pressing, hasKey, cut>>

\* The process dies, or the runner could not record the outcome: the task
\* stays `running` with nobody on it, and what was not committed is gone.
Lose(t) ==
  /\ Faulty
  /\ at[t] # "none"
  /\ Leave(t)
  /\ CutOff(t)
  /\ UNCHANGED <<taskVars, pressing, hasKey, rowVars>>

\* A wrong ReclaimStale: a task whose handler is still running.
ReclaimLive(t) ==
  /\ status[t] = "running"
  /\ RetryOrGiveUp(t)
  /\ UNCHANGED <<kind, at, claimed, rowVars, pressing, hasKey, cut>>

ReclaimStale(t) ==
  /\ status[t] = "running"
  /\ at[t] = "none"
  /\ RetryOrGiveUp(t)
  /\ UNCHANGED <<kind, at, claimed, rowVars, pressing, hasKey, cut>>

----------------------------------------------------------------------------
Web == \/ CreateApplication \/ TrackAsApplication \/ ExtractAgain \/ AttachAd
       \/ LookForRun \/ InsertRun \/ SaveKey

Handle(t) == \/ StartRead(t) \/ StartFetch(t) \/ StartScore(t)
             \/ LoadKey(t) \/ ReadInputs(t) \/ Call(t)
             \/ FinishRead(t) \/ CommitRead(t) \/ FinishFetch(t) \/ FinishScore(t)
             \/ Fail(t) \/ NoteRetry(t) \/ Return(t) \/ Raise(t)

Deliver(t) == \/ Claim(t) \/ Release(t) \/ Begin(t) \/ Record(t)
              \/ Lose(t) \/ ReclaimStale(t)

Next == Web \/ \E t \in Tasks : Handle(t) \/ Deliver(t)

Spec == Init /\ [][Next]_vars

----------------------------------------------------------------------------
(* What must hold.                                                         *)

\* A page that says "reading" has the newest task asked for behind it, not
\* over, and one that says "scoring" its run's own task - unless that task was
\* cut off in its last attempt (killed, or its transaction failed) and could
\* not say so.  Older tasks, retries and redeliveries never settle the wait by
\* leaving it behind.
ReadTasks == {t \in Tasks : status[t] # "absent" /\ kind[t] # "score"}
Live(t)   == status[t] \in Unfinished

WaitingIsAccounted ==
  /\ reading.status = "pending" =>
       \E t \in ReadTasks : /\ Live(t) \/ t \in cut
                            /\ \A s \in ReadTasks : s <= t
  /\ \A t \in Scores : score[t].status = "pending" => Live(t) \/ t \in cut

\* The first score is queued by itself at most once: of the runs a read
\* chained, no two are other than failed, however many reads race (the
\* docstring of _chain_first_score).
FirstScoreOnce ==
  Cardinality({t \in Scores : score[t].chained /\ score[t].status # "failed"}) <= 1

\* A read that is done carries no error code: no sibling's late note about a
\* retry lands on it (note_extraction_retry).
DoneReadHasNoCode == reading.status = "done" => ~ reading.noted

\* A run's status moves from pending to done or failed once (scores.py's
\* docstring), though its task may be delivered again after that.
SettledOnce ==
  [][\A t \in Tasks : score[t].status \in {"done", "failed"} =>
                         score'[t] = score[t]]_vars

\* The queue this module assumes is the one Worker was shown to implement.
Life == INSTANCE TaskLifecycle WITH doing <- Handling

QueueKept == Life!LifeSpec

----------------------------------------------------------------------------
(* What the documentation says and the code does not keep.                 *)

\* "there is no state where a row sits `pending` with nothing queued to move
\* it" (routes/applications.py); "an exhausted ladder leaves the application in
\* exactly that terminal state instead of `pending` forever" (description.py).
PendingIsQueued == reading.status = "pending" => \E t \in ReadTasks : Live(t)

\* "A run already in flight is not duplicated" (_enqueue_rescore).
OneScoreInFlight ==
  Cardinality({t \in Scores : score[t].status = "pending"}) <= 1

\* The fetch leaves an ad the user pasted meanwhile alone: "finding `job_id`
\* already set is what tells it there is nothing left to do" (description.py).
FetchLeavesPastedAd ==
  [][\A t \in Tasks : FinishFetch(t) => ad = NoAd]_vars
=============================================================================
