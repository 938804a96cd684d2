---------------------------- MODULE PipelineProofs ---------------------------
(***************************************************************************)
(* What Pipeline guarantees for any number of tasks, attempts, ads and     *)
(* presses, processes dying or not.                                        *)
(***************************************************************************)
EXTENDS Pipeline, FiniteSetTheorems, TLAPS

----------------------------------------------------------------------------
(* The inductive invariant, in named parts.                                *)

\* A thread has a task only while the queue says `running`; a row handed out
\* has spent a try, and one that waits has a try left.
QueueInv ==
  \A t \in Tasks :
    /\ at[t] # "none" => status[t] = "running"
    /\ status[t] = "pending" => tries[t] < MaxAttempts
    /\ status[t] = "running" => tries[t] > 0
    /\ score[t].status # "none" <=> (status[t] # "absent" /\ kind[t] = "score")
    /\ at[t] \in {"chain", "keep"} => kind[t] = "read"

\* Past its first look, a scoring handler has a run that is still pending.
Running == {"key", "inputs", "call", "finish", "note", "exhaust", "refuse"}

RunInv ==
  \A t \in Tasks :
    kind[t] = "score" /\ at[t] \in Running => score[t].status = "pending"

\* The read: a done one has no code; nothing is there before the application;
\* a read task has an ad to read, and a reading thread has taken it.
Reading == {"key", "inputs", "call", "finish", "chain", "keep"}

ReadInv ==
  /\ reading.status = "done" => ~ reading.noted
  /\ reading.status = "absent" =>
       ad = NoAd /\ pressing = 0 /\ \A t \in Tasks : status[t] = "absent"
  /\ \A t \in Tasks : status[t] # "absent" /\ kind[t] = "read" => ad # NoAd
  /\ \A t \in Tasks : at[t] \in Reading /\ kind[t] = "read" => claimed[t] # NoAd

\* One transaction at a time holds the application row; while one is about
\* to queue the first score there is none, and there is never a second.
Holds(t) == at[t] \in {"chain", "keep"}
First(t) == score[t].chained /\ score[t].status \in {"pending", "done"}

FirstInv ==
  /\ \A s, t \in Tasks : Holds(s) /\ Holds(t) => s = t
  /\ \A s, t \in Tasks : at[t] = "chain" => ~ First(s)
  /\ \A s, t \in Tasks : First(s) /\ First(t) => s = t

\* Ids are handed out in order, so the newest task is the one with the last id.
OrderInv ==
  \A s, t \in Tasks : s < t /\ status[s] = "absent" => status[t] = "absent"

\* Task t still owes its row an answer: it is not over, its handler has not
\* given one, and what has happened to this try does not end it - or it was cut
\* off and never will.
Owes(t) ==
  \/ t \in cut
  \/ /\ Live(t)
     /\ at[t] \notin {"after", "ok", "permanent"}
     /\ Last(t) /\ status[t] = "running" => at[t] \notin {"none", "note", "error"}

\* The newest reading task: a fetch as long as there is no ad, then a read.
Newest(t) == t \in ReadTasks /\ \A s \in ReadTasks : s <= t

Awaited(t) ==
  IF kind[t] = "score" THEN score[t].status = "pending"
  ELSE reading.status = "pending" /\ kind[t] = IF ad = NoAd THEN "fetch" ELSE "read"

WaitInv ==
  /\ reading.status = "pending" =>
       \E t \in Tasks : Newest(t) /\ Awaited(t) /\ Owes(t)
  /\ \A t \in Tasks : score[t].status = "pending" => Owes(t)

IInv == TypeOK /\ QueueInv /\ RunInv /\ ReadInv /\ FirstInv /\ OrderInv /\ WaitInv

----------------------------------------------------------------------------
(* What the shared pieces of the actions do.                               *)

\* A new task takes a row that was absent: nobody has it, no run goes by its
\* name, and every other row is left alone.
LEMMA Posting ==
  ASSUME TypeOK, QueueInv, NEW s \in Tasks, NEW k \in Kinds,
         NextId(s), Queue(s, k)
  PROVE  /\ status[s] = "absent" /\ at[s] = "none" /\ score[s].status = "none"
         /\ kind' \in [Tasks -> Kinds]
         /\ status' \in [Tasks -> Unfinished \union {"absent", "succeeded", "failed"}]
         /\ tries' \in [Tasks -> 0..MaxAttempts]
         /\ kind'[s] = k /\ status'[s] = "pending" /\ tries'[s] < MaxAttempts
         /\ \A r \in Tasks : r # s =>
              kind'[r] = kind[r] /\ status'[r] = status[r] /\ tries'[r] = tries[r]
<1>1. status[s] = "absent" /\ at[s] = "none" /\ score[s].status = "none"
  BY DEF NextId, QueueInv
<1>2. kind' \in [Tasks -> Kinds] /\ kind'[s] = k
  BY DEF Queue, TypeOK
<1>3. /\ status' \in [Tasks -> Unfinished \union {"absent", "succeeded", "failed"}]
      /\ status'[s] = "pending"
  BY DEF Queue, TypeOK, Unfinished
<1>4. /\ tries' \in [Tasks -> 0..MaxAttempts]
      /\ tries'[s] < MaxAttempts
  BY PipelineAssumption DEF Queue, TypeOK
<1>5. \A r \in Tasks : r # s =>
         kind'[r] = kind[r] /\ status'[r] = status[r] /\ tries'[r] = tries[r]
  BY DEF Queue, TypeOK
<1> QED BY <1>1, <1>2, <1>3, <1>4, <1>5

\* Giving up, retrying and handing back keep the queue's own invariant: what
\* goes back to pending has a try left.
LEMMA Requeueing ==
  ASSUME TypeOK, QueueInv, NEW t \in Tasks, status[t] = "running",
         RetryOrGiveUp(t) \/ GivenUp(t) \/ HandedBack(t)
  PROVE  /\ status' \in [Tasks -> Unfinished \union {"absent", "succeeded", "failed"}]
         /\ tries' \in [Tasks -> 0..MaxAttempts]
         /\ status'[t] \in {"pending", "failed"}
         /\ status'[t] = "pending" => tries'[t] < MaxAttempts
         /\ \A r \in Tasks : r # t => status'[r] = status[r] /\ tries'[r] = tries[r]
<1>1. tries[t] \in 1..MaxAttempts
  BY PipelineAssumption DEF TypeOK, QueueInv
<1>2. CASE GivenUp(t)
  BY <1>2 DEF GivenUp, Becomes, TypeOK, Unfinished
<1>3. CASE RetryOrGiveUp(t) /\ ~ GivenUp(t)
  <2>1. tries[t] < MaxAttempts
    BY <1>1, <1>3, PipelineAssumption DEF RetryOrGiveUp, Last
  <2> QED BY <1>3, <2>1 DEF RetryOrGiveUp, Becomes, TypeOK, Unfinished
<1>4. CASE HandedBack(t)
  <2>1. tries[t] - 1 \in 0..MaxAttempts /\ tries[t] - 1 < MaxAttempts
    BY <1>1, PipelineAssumption
  <2>2. /\ tries' \in [Tasks -> 0..MaxAttempts]
        /\ tries'[t] < MaxAttempts
        /\ \A r \in Tasks : r # t => tries'[r] = tries[r]
    BY <1>4, <2>1 DEF HandedBack, TypeOK
  <2>3. /\ status' \in [Tasks -> Unfinished \union {"absent", "succeeded", "failed"}]
        /\ status'[t] = "pending"
        /\ \A r \in Tasks : r # t => status'[r] = status[r]
    BY <1>4 DEF HandedBack, Becomes, TypeOK, Unfinished
  <2> QED BY <2>2, <2>3
<1> QED BY <1>2, <1>3, <1>4

\* SetRun changes one run, and keeps its chained mark.
LEMMA RunSet ==
  ASSUME TypeOK, NEW t \in Tasks, NEW st \in {"none", "pending", "done", "failed"},
         NEW n \in BOOLEAN, SetRun(t, st, n)
  PROVE  /\ score' \in [Tasks -> [status: {"none", "pending", "done", "failed"},
                                  noted: BOOLEAN, chained: BOOLEAN]]
         /\ score'[t].status = st /\ score'[t].noted = n
         /\ score'[t].chained = score[t].chained
         /\ \A s \in Tasks : s # t => score'[s] = score[s]
<1>1. score[t].chained \in BOOLEAN
  BY DEF TypeOK
<1>2. [status |-> st, noted |-> n, chained |-> score[t].chained] \in
         [status: {"none", "pending", "done", "failed"}, noted: BOOLEAN, chained: BOOLEAN]
  BY <1>1
<1> QED BY <1>2 DEF SetRun, TypeOK

\* A new task is the last one; a reading task among them is the newest, and a
\* scoring one leaves the newest as it is.
LEMMA PostedLast ==
  ASSUME IInv, NEW s \in Tasks, NEW k \in Kinds, NextId(s), Queue(s, k)
  PROVE  /\ OrderInv'
         /\ k # "score" => Newest(s)'
<1>1. /\ kind'[s] = k /\ status'[s] = "pending"
      /\ \A r \in Tasks : r # s => kind'[r] = kind[r] /\ status'[r] = status[r]
  BY Posting DEF IInv
<1>2. \A r \in Tasks : r < s => status[r] # "absent"
  BY DEF NextId
<1>3. \A r \in Tasks : s < r => status[r] = "absent"
  BY DEF NextId, IInv, OrderInv
<1>4. OrderInv'
  BY <1>1, <1>2 DEF IInv, OrderInv
<1>5. \A r \in Tasks : status'[r] # "absent" => r <= s
  BY <1>1, <1>3, PipelineAssumption
<1> QED BY <1>1, <1>4, <1>5 DEF Newest, ReadTasks

\* Whoever says the application waits for a read or a fetch has just queued it.
LEMMA ReadPosted ==
  ASSUME IInv, NEW s \in Tasks, NEW k \in {"fetch", "read"},
         NextId(s), Queue(s, k), k = (IF ad' = NoAd THEN "fetch" ELSE "read"),
         reading' = Waiting, at'[s] = "none",
         \A r \in Tasks : kind[r] = "score" => at'[r] = at[r],
         UNCHANGED <<score, cut>>
  PROVE  WaitInv'
<1>1. /\ score[s].status = "none" /\ kind'[s] = k /\ status'[s] = "pending"
      /\ \A r \in Tasks : r # s => /\ kind'[r] = kind[r] /\ status'[r] = status[r]
                                   /\ tries'[r] = tries[r]
  BY Posting DEF IInv, Kinds
<1>2. Newest(s)'
  BY PostedLast DEF Kinds
<1>3. Awaited(s)' /\ Owes(s)'
  BY <1>1 DEF Waiting, Awaited, Owes, Live, Unfinished
<1>4. ASSUME NEW r \in Tasks, score'[r].status = "pending"
      PROVE  Owes(r)'
  <2>1. r # s /\ kind[r] = "score" /\ Owes(r)
    BY <1>1, <1>4 DEF IInv, QueueInv, WaitInv
  <2> QED BY <1>1, <2>1 DEF Owes, Live, Last
<1> QED BY <1>2, <1>3, <1>4 DEF WaitInv

\* A step that queues nothing leaves every awaited row with the task that owes
\* it, if that task still does.
LEMMA StillOwed ==
  ASSUME IInv, UNCHANGED <<taskVars, ad>>,
         reading'.status = "pending" => reading.status = "pending",
         \A r \in Tasks : score'[r].status = "pending" => score[r].status = "pending",
         \A r \in Tasks : Awaited(r) /\ Awaited(r)' /\ Owes(r) => Owes(r)'
  PROVE  WaitInv'
<1>1. ASSUME reading'.status = "pending"
      PROVE  \E t \in Tasks : Newest(t)' /\ Awaited(t)' /\ Owes(t)'
  <2>1. PICK t \in Tasks : Newest(t) /\ Awaited(t) /\ Owes(t)
    BY <1>1 DEF IInv, WaitInv
  <2>2. Newest(t)' /\ Awaited(t)'
    BY <1>1, <2>1 DEF Newest, Awaited, ReadTasks, taskVars
  <2> QED BY <2>1, <2>2
<1>2. ASSUME NEW t \in Tasks, score'[t].status = "pending"
      PROVE  Owes(t)'
  <2>1. kind[t] = "score" /\ score[t].status = "pending" /\ Owes(t)
    BY <1>2 DEF IInv, QueueInv, WaitInv
  <2>2. Awaited(t) /\ Awaited(t)'
    BY <1>2, <2>1 DEF Awaited, taskVars
  <2> QED BY <2>1, <2>2
<1> QED BY <1>1, <1>2 DEF WaitInv

----------------------------------------------------------------------------
(* Every step keeps it.                                                    *)

\* An application is added with its ad.
LEMMA CreateApplicationStep ==
  ASSUME IInv, CreateApplication
  PROVE  IInv'
<1>1. TypeOK'
  <2>1. reading' \in [status: {"absent", "pending", "done", "failed"}, noted: BOOLEAN]
    <3>1. reading' = Waiting \/ reading' = Failed
      BY Zenon DEF CreateApplication
    <3>2. CASE reading' = Waiting
      BY <3>2 DEF Waiting
    <3>3. CASE reading' = Failed
      BY <3>3 DEF Failed
    <3> QED BY <3>1, <3>2, <3>3
  <2>2. /\ kind' \in [Tasks -> Kinds]
        /\ status' \in [Tasks -> Unfinished \union {"absent", "succeeded", "failed"}]
        /\ tries' \in [Tasks -> 0..MaxAttempts]
    <3>1. CASE \E s \in Tasks : NextId(s) /\ Queue(s, "read")
      BY <3>1, Posting DEF IInv, Kinds
    <3>2. CASE UNCHANGED taskVars
      BY <3>2 DEF taskVars, IInv, TypeOK
    <3> QED BY <3>1, <3>2 DEF CreateApplication
  <2>3. ad' \in Ads \union {NoAd}
    BY DEF CreateApplication
  <2> QED BY <2>1, <2>2, <2>3 DEF CreateApplication, IInv, TypeOK
<1>2. QueueInv'
  <2>1. CASE hasKey
    <3>1. PICK s \in Tasks : NextId(s) /\ Queue(s, "read")
      BY <2>1 DEF CreateApplication
    <3> QED BY <3>1, Posting DEF CreateApplication, IInv, QueueInv, Kinds
  <2>2. CASE ~ hasKey
    BY <2>2 DEF CreateApplication, taskVars, IInv, QueueInv
  <2> QED BY <2>1, <2>2
<1>3. RunInv'
  BY DEF CreateApplication, Exists, Waiting, Failed, Queue, NextId, taskVars,
     IInv, TypeOK, QueueInv, RunInv, Running
<1>4. ReadInv'
  BY PipelineAssumption
  DEF CreateApplication, Exists, Waiting, Failed, Queue, NextId, taskVars,
     IInv, TypeOK, QueueInv, ReadInv, Reading
<1>5. FirstInv'
  BY DEF CreateApplication, Exists, Waiting, Failed, Queue, NextId, taskVars,
     IInv, TypeOK, QueueInv, RunInv, Running, FirstInv, Holds, First
<1>6. OrderInv'
  <2>1. CASE \E s \in Tasks : NextId(s) /\ Queue(s, "read")
    BY <2>1, PostedLast DEF Kinds
  <2>2. CASE UNCHANGED taskVars
    BY <2>2 DEF taskVars, IInv, OrderInv
  <2> QED BY <2>1, <2>2 DEF CreateApplication
<1>7. WaitInv'
  <2>1. CASE hasKey
    <3>1. PICK s \in Tasks : NextId(s) /\ Queue(s, "read")
      BY <2>1 DEF CreateApplication
    <3>2. at'[s] = "none" /\ ad' # NoAd
      BY <3>1, Posting, PipelineAssumption DEF CreateApplication, IInv, TypeOK, Kinds
    <3>3. \A r \in Tasks : kind[r] = "score" => at'[r] = at[r]
      BY DEF CreateApplication, IInv, TypeOK
    <3>4. reading' = Waiting /\ UNCHANGED <<score, cut>>
      BY <2>1 DEF CreateApplication
    <3> QED BY <3>1, <3>2, <3>3, <3>4, ReadPosted
  <2>2. CASE ~ hasKey
    <3>1. reading' = Failed /\ UNCHANGED <<taskVars, score, cut>>
      BY <2>2 DEF CreateApplication
    <3>2. \A r \in Tasks : kind[r] = "score" => at'[r] = at[r]
      BY DEF CreateApplication, IInv, TypeOK
    <3>3. ASSUME NEW r \in Tasks, score[r].status = "pending"
          PROVE  Owes(r)'
      BY <3>1, <3>2, <3>3 DEF taskVars, IInv, QueueInv, WaitInv, Owes, Live, Last
    <3> QED BY <3>1, <3>3 DEF Failed, WaitInv
  <2> QED BY <2>1, <2>2
<1> QED BY <1>1, <1>2, <1>3, <1>4, <1>5, <1>6, <1>7 DEF IInv

\* An application is added without one.
LEMMA TrackAsApplicationStep ==
  ASSUME IInv, TrackAsApplication
  PROVE  IInv'
<1>1. TypeOK'
  BY PipelineAssumption
  DEF TrackAsApplication, Exists, Waiting, Queue, NextId,
     IInv, TypeOK, QueueInv, Kinds, Unfinished, Places, Handler,
     Outcomes
<1>2. QueueInv'
  <2>1. PICK s \in Tasks : NextId(s) /\ Queue(s, "fetch")
    BY DEF TrackAsApplication
  <2> QED BY <2>1, Posting DEF TrackAsApplication, IInv, QueueInv, Kinds
<1>3. RunInv'
  BY DEF TrackAsApplication, Exists, Waiting, Queue, NextId,
     IInv, TypeOK, QueueInv, RunInv, Running
<1>4. ReadInv'
  BY DEF TrackAsApplication, Exists, Waiting, Queue, NextId,
     IInv, TypeOK, QueueInv, ReadInv, Reading
<1>5. FirstInv'
  BY DEF TrackAsApplication, Exists, Waiting, Queue, NextId,
     IInv, TypeOK, QueueInv, RunInv, Running, FirstInv, Holds, First
<1>6. OrderInv'
  BY DEF TrackAsApplication, Exists, Waiting, Queue, NextId,
     IInv, QueueInv, OrderInv
<1>7. WaitInv'
  <2>1. PICK s \in Tasks : NextId(s) /\ Queue(s, "fetch")
    BY DEF TrackAsApplication
  <2>2. at'[s] = "none" /\ ad' = NoAd
    BY <2>1, Posting, PipelineAssumption DEF TrackAsApplication, Exists, ReadInv, IInv, Kinds
  <2> QED BY <2>1, <2>2, ReadPosted DEF TrackAsApplication
<1> QED BY <1>1, <1>2, <1>3, <1>4, <1>5, <1>6, <1>7 DEF IInv

\* The ad is read again.
LEMMA ExtractAgainStep ==
  ASSUME IInv, ExtractAgain
  PROVE  IInv'
<1>1. TypeOK'
  BY PipelineAssumption
  DEF ExtractAgain, Exists, Waiting, Queue, NextId,
     IInv, TypeOK, QueueInv, Kinds, Unfinished, Places, Handler,
     Outcomes
<1>2. QueueInv'
  <2>1. PICK s \in Tasks : NextId(s) /\ Queue(s, "read")
    BY DEF ExtractAgain
  <2> QED BY <2>1, Posting DEF ExtractAgain, IInv, QueueInv, Kinds
<1>3. RunInv'
  BY DEF ExtractAgain, Exists, Waiting, Queue, NextId,
     IInv, TypeOK, QueueInv, RunInv, Running
<1>4. ReadInv'
  BY DEF ExtractAgain, Exists, Waiting, Queue, NextId,
     IInv, TypeOK, QueueInv, ReadInv, Reading
<1>5. FirstInv'
  BY DEF ExtractAgain, Exists, Waiting, Queue, NextId,
     IInv, TypeOK, QueueInv, RunInv, Running, FirstInv, Holds, First
<1>6. OrderInv'
  BY DEF ExtractAgain, Exists, Waiting, Queue, NextId,
     IInv, QueueInv, OrderInv
<1>7. WaitInv'
  <2>1. PICK s \in Tasks : NextId(s) /\ Queue(s, "read")
    BY DEF ExtractAgain
  <2>2. at'[s] = "none" /\ ad' # NoAd
    BY <2>1, Posting, PipelineAssumption DEF ExtractAgain, IInv, Kinds
  <2> QED BY <2>1, <2>2, ReadPosted DEF ExtractAgain
<1> QED BY <1>1, <1>2, <1>3, <1>4, <1>5, <1>6, <1>7 DEF IInv

\* An ad is pasted.
LEMMA AttachAdStep ==
  ASSUME IInv, AttachAd
  PROVE  IInv'
<1>1. TypeOK'
  BY PipelineAssumption
  DEF AttachAd, Exists, Waiting, Queue, NextId,
     IInv, TypeOK, QueueInv, Kinds, Unfinished, Places, Handler,
     Outcomes
<1>2. QueueInv'
  <2>1. PICK s \in Tasks : NextId(s) /\ Queue(s, "read")
    BY DEF AttachAd
  <2> QED BY <2>1, Posting DEF AttachAd, IInv, QueueInv, Kinds
<1>3. RunInv'
  BY DEF AttachAd, Exists, Waiting, Queue, NextId,
     IInv, TypeOK, QueueInv, RunInv, Running
<1>4. ReadInv'
  BY PipelineAssumption
  DEF AttachAd, Exists, Waiting, Queue, NextId,
     IInv, TypeOK, QueueInv, ReadInv, Reading
<1>5. FirstInv'
  BY DEF AttachAd, Exists, Waiting, Queue, NextId,
     IInv, TypeOK, QueueInv, RunInv, Running, FirstInv, Holds, First
<1>6. OrderInv'
  BY DEF AttachAd, Exists, Waiting, Queue, NextId,
     IInv, QueueInv, OrderInv
<1>7. WaitInv'
  <2>1. PICK s \in Tasks : NextId(s) /\ Queue(s, "read")
    BY DEF AttachAd
  <2>2. at'[s] = "none" /\ ad' # NoAd
    BY <2>1, Posting, PipelineAssumption DEF AttachAd, IInv, Kinds
  <2> QED BY <2>1, <2>2, ReadPosted DEF AttachAd
<1> QED BY <1>1, <1>2, <1>3, <1>4, <1>5, <1>6, <1>7 DEF IInv

\* A Re-score request finds no run in flight.
LEMMA LookForRunStep ==
  ASSUME IInv, LookForRun
  PROVE  IInv'
<1>1. TypeOK'
  BY PipelineAssumption
  DEF LookForRun, Exists, taskVars, rowVars,
     IInv, TypeOK, QueueInv, Kinds, Unfinished, Places, Handler,
     Outcomes
<1>2. QueueInv'
  BY DEF LookForRun, Exists, taskVars, rowVars,
     IInv, TypeOK, QueueInv
<1>3. RunInv'
  BY DEF LookForRun, Exists, taskVars, rowVars,
     IInv, TypeOK, QueueInv, RunInv, Running
<1>4. ReadInv'
  BY DEF LookForRun, Exists, taskVars, rowVars,
     IInv, TypeOK, QueueInv, ReadInv, Reading
<1>5. FirstInv'
  BY DEF LookForRun, Exists, taskVars, rowVars,
     IInv, TypeOK, QueueInv, RunInv, Running, FirstInv, Holds, First
<1>6. OrderInv'
  BY DEF LookForRun, Exists, taskVars, rowVars,
     IInv, QueueInv, OrderInv
<1>7. WaitInv'
  BY DEF LookForRun, Exists, taskVars, rowVars,
     IInv, TypeOK, QueueInv, RunInv, Running, ReadInv, OrderInv,
     WaitInv, Owes, Newest, Awaited, ReadTasks, Live, Last, Unfinished
<1> QED BY <1>1, <1>2, <1>3, <1>4, <1>5, <1>6, <1>7 DEF IInv

\* A Re-score request queues its run.
LEMMA InsertRunStep ==
  ASSUME IInv, InsertRun
  PROVE  IInv'
<1>1. TypeOK'
  BY PipelineAssumption
  DEF InsertRun, QueueScore, Queue, NextId,
     IInv, TypeOK, QueueInv, Kinds, Unfinished, Places, Handler,
     Outcomes
<1>2. QueueInv'
  <2>1. PICK s \in Tasks : NextId(s) /\ QueueScore(s, FALSE)
    BY DEF InsertRun
  <2>2. Queue(s, "score")
    BY <2>1 DEF QueueScore
  <2> QED BY <2>1, <2>2, Posting DEF InsertRun, QueueScore, IInv, QueueInv, TypeOK, Kinds
<1>3. RunInv'
  BY DEF InsertRun, QueueScore, Queue, NextId,
     IInv, TypeOK, QueueInv, RunInv, Running
<1>4. ReadInv'
  BY DEF InsertRun, QueueScore, Queue, NextId,
     IInv, TypeOK, QueueInv, ReadInv, Reading
<1>5. FirstInv'
  BY DEF InsertRun, QueueScore, Queue, NextId,
     IInv, TypeOK, QueueInv, RunInv, Running, FirstInv, Holds, First
<1>6. OrderInv'
  BY DEF InsertRun, QueueScore, Queue, NextId,
     IInv, QueueInv, OrderInv
<1>7. WaitInv'
  BY DEF InsertRun, QueueScore, Queue, NextId,
     IInv, TypeOK, QueueInv, RunInv, Running, ReadInv, OrderInv,
     WaitInv, Owes, Newest, Awaited, ReadTasks, Live, Last, Unfinished
<1> QED BY <1>1, <1>2, <1>3, <1>4, <1>5, <1>6, <1>7 DEF IInv

\* A key is stored.
LEMMA SaveKeyStep ==
  ASSUME IInv, SaveKey
  PROVE  IInv'
<1>1. TypeOK'
  BY PipelineAssumption
  DEF SaveKey, taskVars, rowVars,
     IInv, TypeOK, QueueInv, Kinds, Unfinished, Places, Handler,
     Outcomes
<1>2. QueueInv'
  BY DEF SaveKey, taskVars, rowVars,
     IInv, TypeOK, QueueInv
<1>3. RunInv'
  BY DEF SaveKey, taskVars, rowVars,
     IInv, TypeOK, QueueInv, RunInv, Running
<1>4. ReadInv'
  BY DEF SaveKey, taskVars, rowVars,
     IInv, TypeOK, QueueInv, ReadInv, Reading
<1>5. FirstInv'
  BY DEF SaveKey, taskVars, rowVars,
     IInv, TypeOK, QueueInv, RunInv, Running, FirstInv, Holds, First
<1>6. OrderInv'
  BY DEF SaveKey, taskVars, rowVars,
     IInv, QueueInv, OrderInv
<1>7. WaitInv'
  BY DEF SaveKey, taskVars, rowVars,
     IInv, TypeOK, QueueInv, RunInv, Running, ReadInv, OrderInv,
     WaitInv, Owes, Newest, Awaited, ReadTasks, Live, Last, Unfinished
<1> QED BY <1>1, <1>2, <1>3, <1>4, <1>5, <1>6, <1>7 DEF IInv

\* claim_extraction leaves with the ad, or finds nothing to do.
LEMMA StartReadStep ==
  ASSUME IInv, NEW t \in Tasks, StartRead(t)
  PROVE  IInv'
<1>1. TypeOK'
  BY PipelineAssumption
  DEF StartRead, Go, queueVars, taskVars, rowVars,
     IInv, TypeOK, QueueInv, Kinds, Unfinished, Places, Handler,
     Outcomes
<1>2. QueueInv'
  BY DEF StartRead, Go, queueVars, taskVars, rowVars,
     IInv, TypeOK, QueueInv
<1>3. RunInv'
  BY DEF StartRead, Go, queueVars, taskVars, rowVars,
     IInv, TypeOK, QueueInv, RunInv, Running
<1>4. ReadInv'
  BY DEF StartRead, Go, queueVars, taskVars, rowVars,
     IInv, TypeOK, QueueInv, ReadInv, Reading
<1>5. FirstInv'
  <2>1. \A r \in Tasks : at'[r] \in {"chain", "keep"} => at'[r] = at[r]
    BY DEF StartRead, Go, IInv, TypeOK
  <2>2. \A r \in Tasks : First(r)' => First(r)
    BY DEF StartRead, rowVars, First
  <2> QED BY <2>1, <2>2 DEF IInv, FirstInv, Holds
<1>6. OrderInv'
  BY DEF StartRead, Go, queueVars, taskVars, rowVars,
     IInv, QueueInv, OrderInv
<1>7. WaitInv'
  BY DEF StartRead, Go, queueVars, taskVars, rowVars,
     IInv, TypeOK, QueueInv, RunInv, Running, ReadInv, OrderInv,
     WaitInv, Owes, Newest, Awaited, ReadTasks, Live, Last, Unfinished
<1> QED BY <1>1, <1>2, <1>3, <1>4, <1>5, <1>6, <1>7 DEF IInv

\* The fetch looks for an ad already attached.
LEMMA StartFetchStep ==
  ASSUME IInv, NEW t \in Tasks, StartFetch(t)
  PROVE  IInv'
<1>1. TypeOK'
  BY PipelineAssumption
  DEF StartFetch, Go, queueVars, taskVars, rowVars,
     IInv, TypeOK, QueueInv, Kinds, Unfinished, Places, Handler,
     Outcomes
<1>2. QueueInv'
  BY DEF StartFetch, Go, queueVars, taskVars, rowVars,
     IInv, TypeOK, QueueInv
<1>3. RunInv'
  BY DEF StartFetch, Go, queueVars, taskVars, rowVars,
     IInv, TypeOK, QueueInv, RunInv, Running
<1>4. ReadInv'
  BY DEF StartFetch, Go, queueVars, taskVars, rowVars,
     IInv, TypeOK, QueueInv, ReadInv, Reading
<1>5. FirstInv'
  <2>1. \A r \in Tasks : at'[r] \in {"chain", "keep"} => at'[r] = at[r]
    BY DEF StartFetch, Go, IInv, TypeOK
  <2>2. \A r \in Tasks : First(r)' => First(r)
    BY DEF StartFetch, rowVars, First
  <2> QED BY <2>1, <2>2 DEF IInv, FirstInv, Holds
<1>6. OrderInv'
  BY DEF StartFetch, Go, queueVars, taskVars, rowVars,
     IInv, QueueInv, OrderInv
<1>7. WaitInv'
  <2>1. ASSUME NEW r \in Tasks, Awaited(r), Owes(r)
        PROVE  Owes(r)'
    <3>1. CASE r # t
      BY <2>1, <3>1 DEF StartFetch, Go, queueVars, taskVars, Owes, Live, Last, IInv, TypeOK
    <3>2. CASE r = t
      BY <2>1, <3>2 DEF StartFetch, Go, queueVars, taskVars, Owes, Live, Last,
         Awaited, IInv, TypeOK
    <3> QED BY <3>1, <3>2
  <2> QED BY <2>1, StillOwed DEF StartFetch, queueVars, rowVars
<1> QED BY <1>1, <1>2, <1>3, <1>4, <1>5, <1>6, <1>7 DEF IInv

\* Only a pending run goes on to be scored.
LEMMA StartScoreStep ==
  ASSUME IInv, NEW t \in Tasks, StartScore(t)
  PROVE  IInv'
<1>1. TypeOK'
  BY PipelineAssumption
  DEF StartScore, Go, queueVars, taskVars, rowVars,
     IInv, TypeOK, QueueInv, Kinds, Unfinished, Places, Handler,
     Outcomes
<1>2. QueueInv'
  BY DEF StartScore, Go, queueVars, taskVars, rowVars,
     IInv, TypeOK, QueueInv
<1>3. RunInv'
  BY DEF StartScore, Go, queueVars, taskVars, rowVars,
     IInv, TypeOK, QueueInv, RunInv, Running
<1>4. ReadInv'
  BY DEF StartScore, Go, queueVars, taskVars, rowVars,
     IInv, TypeOK, QueueInv, ReadInv, Reading
<1>5. FirstInv'
  BY DEF StartScore, Go, queueVars, taskVars, rowVars,
     IInv, TypeOK, QueueInv, RunInv, Running, FirstInv, Holds, First
<1>6. OrderInv'
  BY DEF StartScore, Go, queueVars, taskVars, rowVars,
     IInv, QueueInv, OrderInv
<1>7. WaitInv'
  BY DEF StartScore, Go, queueVars, taskVars, rowVars,
     IInv, TypeOK, QueueInv, RunInv, Running, ReadInv, OrderInv,
     WaitInv, Owes, Newest, Awaited, ReadTasks, Live, Last, Unfinished
<1> QED BY <1>1, <1>2, <1>3, <1>4, <1>5, <1>6, <1>7 DEF IInv

\* The key is there or it is not.
LEMMA LoadKeyStep ==
  ASSUME IInv, NEW t \in Tasks, LoadKey(t)
  PROVE  IInv'
<1>1. TypeOK'
  BY PipelineAssumption
  DEF LoadKey, Go, queueVars, taskVars, rowVars,
     IInv, TypeOK, QueueInv, Kinds, Unfinished, Places, Handler,
     Outcomes
<1>2. QueueInv'
  BY DEF LoadKey, Go, queueVars, taskVars, rowVars,
     IInv, TypeOK, QueueInv
<1>3. RunInv'
  BY DEF LoadKey, Go, queueVars, taskVars, rowVars,
     IInv, TypeOK, QueueInv, RunInv, Running
<1>4. ReadInv'
  BY DEF LoadKey, Go, queueVars, taskVars, rowVars,
     IInv, TypeOK, QueueInv, ReadInv, Reading
<1>5. FirstInv'
  <2>1. \A r \in Tasks : at'[r] \in {"chain", "keep"} => at'[r] = at[r]
    BY DEF LoadKey, Go, IInv, TypeOK
  <2>2. \A r \in Tasks : First(r)' => First(r)
    BY DEF LoadKey, rowVars, First
  <2> QED BY <2>1, <2>2 DEF IInv, FirstInv, Holds
<1>6. OrderInv'
  BY DEF LoadKey, Go, queueVars, taskVars, rowVars,
     IInv, QueueInv, OrderInv
<1>7. WaitInv'
  BY DEF LoadKey, Go, queueVars, taskVars, rowVars,
     IInv, TypeOK, QueueInv, RunInv, Running, ReadInv, OrderInv,
     WaitInv, Owes, Newest, Awaited, ReadTasks, Live, Last, Unfinished
<1> QED BY <1>1, <1>2, <1>3, <1>4, <1>5, <1>6, <1>7 DEF IInv

\* Requirements to score against, or none.
LEMMA ReadInputsStep ==
  ASSUME IInv, NEW t \in Tasks, ReadInputs(t)
  PROVE  IInv'
<1>1. TypeOK'
  BY PipelineAssumption
  DEF ReadInputs, Go, queueVars, taskVars, rowVars,
     IInv, TypeOK, QueueInv, Kinds, Unfinished, Places, Handler,
     Outcomes
<1>2. QueueInv'
  BY DEF ReadInputs, Go, queueVars, taskVars, rowVars,
     IInv, TypeOK, QueueInv
<1>3. RunInv'
  BY DEF ReadInputs, Go, queueVars, taskVars, rowVars,
     IInv, TypeOK, QueueInv, RunInv, Running
<1>4. ReadInv'
  <2>1. \A r \in Tasks : at'[r] \in Reading => at[r] \in Reading
    <3>1. at[t] \in Reading
      BY DEF ReadInputs, Go, Reading
    <3> QED BY <3>1 DEF ReadInputs, Go, IInv, TypeOK
  <2> QED BY <2>1 DEF ReadInputs, queueVars, taskVars, rowVars, IInv, ReadInv
<1>5. FirstInv'
  <2>1. \A r \in Tasks : at'[r] \in {"chain", "keep"} => at'[r] = at[r]
    BY DEF ReadInputs, Go, IInv, TypeOK
  <2>2. \A r \in Tasks : First(r)' => First(r)
    BY DEF ReadInputs, rowVars, First
  <2> QED BY <2>1, <2>2 DEF IInv, FirstInv, Holds
<1>6. OrderInv'
  BY DEF ReadInputs, Go, queueVars, taskVars, rowVars,
     IInv, QueueInv, OrderInv
<1>7. WaitInv'
  BY DEF ReadInputs, Go, queueVars, taskVars, rowVars,
     IInv, TypeOK, QueueInv, RunInv, Running, ReadInv, OrderInv,
     WaitInv, Owes, Newest, Awaited, ReadTasks, Live, Last, Unfinished
<1> QED BY <1>1, <1>2, <1>3, <1>4, <1>5, <1>6, <1>7 DEF IInv

\* The call comes back in one of four ways.
LEMMA CallStep ==
  ASSUME IInv, NEW t \in Tasks, Call(t)
  PROVE  IInv'
<1>1. TypeOK'
  BY PipelineAssumption
  DEF Call, Last, Go, queueVars, taskVars, rowVars,
     IInv, TypeOK, QueueInv, Kinds, Unfinished, Places, Handler,
     Outcomes
<1>2. QueueInv'
  BY DEF Call, Last, Go, queueVars, taskVars, rowVars,
     IInv, TypeOK, QueueInv
<1>3. RunInv'
  BY DEF Call, Last, Go, queueVars, taskVars, rowVars,
     IInv, TypeOK, QueueInv, RunInv, Running
<1>4. ReadInv'
  BY DEF Call, Last, Go, queueVars, taskVars, rowVars,
     IInv, TypeOK, QueueInv, ReadInv, Reading
<1>5. FirstInv'
  <2>1. \A r \in Tasks : Holds(r)' => Holds(r) /\ at'[r] = at[r]
    BY DEF Call, Last, Go, IInv, TypeOK, Holds
  <2>2. \A r \in Tasks : First(r)' <=> First(r)
    BY DEF Call, rowVars, First
  <2>3. \A r \in Tasks : at'[r] = "chain" => at[r] = "chain"
    BY <2>1 DEF Holds
  <2> QED BY <2>1, <2>2, <2>3 DEF IInv, FirstInv
<1>6. OrderInv'
  BY DEF Call, Last, Go, queueVars, taskVars, rowVars,
     IInv, QueueInv, OrderInv
<1>7. WaitInv'
  <2>1. ASSUME NEW r \in Tasks, Owes(r)
        PROVE  Owes(r)'
    <3>1. CASE r # t
      BY <2>1, <3>1 DEF Call, Go, queueVars, taskVars, Owes, Live, Last, IInv, TypeOK
    <3>2. CASE r = t
      <4>1. /\ at'[t] \in {"finish", "refuse", "exhaust", "note", "blocked"}
            /\ at'[t] = "note" => ~ Last(t)
        BY DEF Call, Go, IInv, TypeOK
      <4> QED BY <2>1, <3>2, <4>1 DEF Call, Go, queueVars, taskVars, Owes, Live, Last
    <3> QED BY <3>1, <3>2
  <2> QED BY <2>1, StillOwed DEF Call, queueVars, rowVars
<1> QED BY <1>1, <1>2, <1>3, <1>4, <1>5, <1>6, <1>7 DEF IInv

\* The lock on the application row is taken by one read at a time.
LEMMA FinishReadStep ==
  ASSUME IInv, NEW t \in Tasks, FinishRead(t)
  PROVE  IInv'
<1>1. TypeOK'
  BY PipelineAssumption
  DEF FinishRead, Go, queueVars, taskVars, rowVars,
     IInv, TypeOK, QueueInv, Kinds, Unfinished, Places, Handler,
     Outcomes
<1>2. QueueInv'
  BY DEF FinishRead, Go, queueVars, taskVars, rowVars,
     IInv, TypeOK, QueueInv
<1>3. RunInv'
  BY DEF FinishRead, Go, queueVars, taskVars, rowVars,
     IInv, TypeOK, QueueInv, RunInv, Running
<1>4. ReadInv'
  BY DEF FinishRead, Go, queueVars, taskVars, rowVars,
     IInv, TypeOK, QueueInv, ReadInv, Reading
<1>5. FirstInv'
  BY DEF FinishRead, Go, queueVars, taskVars, rowVars, Locked, HasActive,
     Scores,
     IInv, TypeOK, QueueInv, RunInv, Running, FirstInv, Holds, First
<1>6. OrderInv'
  BY DEF FinishRead, Go, queueVars, taskVars, rowVars,
     IInv, QueueInv, OrderInv
<1>7. WaitInv'
  BY DEF FinishRead, Go, queueVars, taskVars, rowVars,
     IInv, TypeOK, QueueInv, RunInv, Running, ReadInv, OrderInv,
     WaitInv, Owes, Newest, Awaited, ReadTasks, Live, Last, Unfinished
<1> QED BY <1>1, <1>2, <1>3, <1>4, <1>5, <1>6, <1>7 DEF IInv

\* The read and the first score commit together.
LEMMA CommitReadStep ==
  ASSUME IInv, NEW t \in Tasks, CommitRead(t)
  PROVE  IInv'
<1>1. TypeOK'
  <2>1. /\ at' \in [Tasks -> Places] /\ reading' = Done
        /\ required' \subseteq required \union {claimed[t]}
    BY DEF CommitRead, Go, IInv, TypeOK, Places, Handler
  <2>9. required' \subseteq Ads
    <3>1. at[t] \in Reading /\ kind[t] = "read"
      BY DEF CommitRead, Go, IInv, QueueInv, Reading
    <3>2. claimed[t] \in Ads
      BY <3>1 DEF IInv, TypeOK, ReadInv
    <3> QED BY <2>1, <3>2 DEF IInv, TypeOK
  <2>2. CASE at[t] = "chain"
    <3>1. PICK s \in Tasks : NextId(s) /\ QueueScore(s, TRUE)
      BY <2>2 DEF CommitRead, Go
    <3>2. Queue(s, "score")
      BY <3>1 DEF QueueScore
    <3>3. score' \in [Tasks -> [status: {"none", "pending", "done", "failed"},
                                noted: BOOLEAN, chained: BOOLEAN]]
      BY <3>1 DEF QueueScore, IInv, TypeOK
    <3> QED BY <2>1, <3>1, <3>2, <3>3, Posting, <2>9
          DEF CommitRead, Done, IInv, TypeOK, Kinds
  <2>3. CASE at[t] = "keep"
    BY <2>1, <2>3, <2>9 DEF CommitRead, Go, Done, taskVars, IInv, TypeOK
  <2> QED BY <2>2, <2>3 DEF CommitRead, Go
<1>2. QueueInv'
  <2>1. CASE at[t] = "chain"
    <3>1. PICK s \in Tasks : NextId(s) /\ QueueScore(s, TRUE)
      BY <2>1 DEF CommitRead, Go
    <3>2. Queue(s, "score") /\ s # t
      BY <2>1, <3>1 DEF QueueScore, NextId, IInv, QueueInv
    <3> QED BY <2>1, <3>1, <3>2, Posting
          DEF CommitRead, Go, QueueScore, IInv, QueueInv, TypeOK, Kinds
  <2>2. CASE at[t] = "keep"
    BY <2>2 DEF CommitRead, Go, taskVars, IInv, TypeOK, QueueInv
  <2> QED BY <2>1, <2>2 DEF CommitRead, Go
<1>3. RunInv'
  BY DEF CommitRead, Go, Done, QueueScore, Queue, NextId, taskVars,
     IInv, TypeOK, QueueInv, RunInv, Running
<1>4. ReadInv'
  BY DEF CommitRead, Go, Done, QueueScore, Queue, NextId, taskVars,
     IInv, TypeOK, QueueInv, ReadInv, Reading
<1>5. FirstInv'
  <2>1. \A r \in Tasks : at'[r] \in {"chain", "keep"} => at[r] \in {"chain", "keep"} /\ r # t
    BY DEF CommitRead, Go, IInv, TypeOK
  <2>2. at[t] \in {"chain", "keep"} /\ \A r \in Tasks : ~ Holds(r)'
    BY <2>1 DEF CommitRead, Go, IInv, FirstInv, Holds
  <2>3. CASE at[t] = "chain"
    <3>1. PICK s \in Tasks : QueueScore(s, TRUE)
      BY <2>3 DEF CommitRead, Go
    <3>2. \A r \in Tasks : r # s => score'[r] = score[r]
      BY <3>1 DEF QueueScore, IInv, TypeOK
    <3>3. \A r \in Tasks : ~ First(r)
      BY <2>3 DEF IInv, FirstInv
    <3>4. \A r \in Tasks : First(r)' => r = s
      BY <3>2, <3>3 DEF First
    <3> QED BY <2>2, <3>4 DEF FirstInv, Holds
  <2>4. CASE at[t] = "keep"
    BY <2>2, <2>4 DEF CommitRead, Go, IInv, FirstInv, Holds, First
  <2> QED BY <2>2, <2>3, <2>4
<1>6. OrderInv'
  <2>1. CASE \E s \in Tasks : NextId(s) /\ QueueScore(s, TRUE)
    BY <2>1, PostedLast DEF QueueScore, Kinds
  <2>2. CASE UNCHANGED taskVars
    BY <2>2 DEF taskVars, IInv, OrderInv
  <2> QED BY <2>1, <2>2 DEF CommitRead
<1>7. WaitInv'
  BY DEF CommitRead, Go, Done, QueueScore, Queue, NextId, taskVars,
     IInv, TypeOK, QueueInv, RunInv, Running, ReadInv, OrderInv,
     WaitInv, Owes, Newest, Awaited, ReadTasks, Live, Last, Unfinished
<1> QED BY <1>1, <1>2, <1>3, <1>4, <1>5, <1>6, <1>7 DEF IInv

\* The fetched ad is attached and a read of it queued.
LEMMA FinishFetchStep ==
  ASSUME IInv, NEW t \in Tasks, FinishFetch(t)
  PROVE  IInv'
<1>1. TypeOK'
  <2>1. reading' \in [status: {"absent", "pending", "done", "failed"}, noted: BOOLEAN]
    <3>1. reading' = Waiting \/ reading' = Failed
      BY Zenon DEF FinishFetch
    <3>2. CASE reading' = Waiting
      BY <3>2 DEF Waiting
    <3>3. CASE reading' = Failed
      BY <3>3 DEF Failed
    <3> QED BY <3>1, <3>2, <3>3
  <2>2. /\ kind' \in [Tasks -> Kinds]
        /\ status' \in [Tasks -> Unfinished \union {"absent", "succeeded", "failed"}]
        /\ tries' \in [Tasks -> 0..MaxAttempts]
    <3>1. CASE \E s \in Tasks : NextId(s) /\ Queue(s, "read")
      BY <3>1, Posting DEF IInv, Kinds
    <3>2. CASE UNCHANGED taskVars
      BY <3>2 DEF taskVars, IInv, TypeOK
    <3> QED BY <3>1, <3>2 DEF FinishFetch
  <2>3. ad' \in Ads \union {NoAd}
    BY PipelineAssumption DEF FinishFetch
  <2>4. at' \in [Tasks -> Places]
    BY DEF FinishFetch, Go, IInv, TypeOK, Places, Handler
  <2> QED BY <2>1, <2>2, <2>3, <2>4 DEF FinishFetch, IInv, TypeOK
<1>2. QueueInv'
  <2>1. CASE hasKey
    <3>1. PICK s \in Tasks : NextId(s) /\ Queue(s, "read")
      BY <2>1 DEF FinishFetch
    <3> QED BY <3>1, Posting DEF FinishFetch, Go, IInv, TypeOK, QueueInv, Kinds
  <2>2. CASE ~ hasKey
    BY <2>2 DEF FinishFetch, Go, taskVars, IInv, TypeOK, QueueInv
  <2> QED BY <2>1, <2>2
<1>3. RunInv'
  BY DEF FinishFetch, Go, Waiting, Failed, Queue, NextId, taskVars,
     IInv, TypeOK, QueueInv, RunInv, Running
<1>4. ReadInv'
  BY PipelineAssumption
  DEF FinishFetch, Go, Waiting, Failed, Queue, NextId, taskVars,
     IInv, TypeOK, QueueInv, ReadInv, Reading
<1>5. FirstInv'
  BY DEF FinishFetch, Go, Waiting, Failed, Queue, NextId, taskVars,
     IInv, TypeOK, QueueInv, RunInv, Running, FirstInv, Holds, First
<1>6. OrderInv'
  <2>1. CASE \E s \in Tasks : NextId(s) /\ Queue(s, "read")
    BY <2>1, PostedLast DEF Kinds
  <2>2. CASE UNCHANGED taskVars
    BY <2>2 DEF taskVars, IInv, OrderInv
  <2> QED BY <2>1, <2>2 DEF FinishFetch
<1>7. WaitInv'
  <2>1. CASE hasKey
    <3>1. PICK s \in Tasks : NextId(s) /\ Queue(s, "read")
      BY <2>1 DEF FinishFetch
    <3>2. at'[s] = "none" /\ ad' # NoAd
      BY <3>1, Posting, PipelineAssumption DEF FinishFetch, Go, IInv, TypeOK, Kinds
    <3>3. \A r \in Tasks : kind[r] = "score" => at'[r] = at[r]
      BY DEF FinishFetch, Go, IInv, TypeOK
    <3>4. reading' = Waiting /\ UNCHANGED <<score, cut>>
      BY <2>1 DEF FinishFetch
    <3> QED BY <3>1, <3>2, <3>3, <3>4, ReadPosted
  <2>2. CASE ~ hasKey
    <3>1. reading' = Failed /\ UNCHANGED <<taskVars, score, cut>>
      BY <2>2 DEF FinishFetch
    <3>2. \A r \in Tasks : kind[r] = "score" => at'[r] = at[r]
      BY DEF FinishFetch, Go, IInv, TypeOK
    <3>3. ASSUME NEW r \in Tasks, score[r].status = "pending"
          PROVE  Owes(r)'
      BY <3>1, <3>2, <3>3 DEF taskVars, IInv, QueueInv, WaitInv, Owes, Live, Last
    <3> QED BY <3>1, <3>3 DEF Failed, WaitInv
  <2> QED BY <2>1, <2>2
<1> QED BY <1>1, <1>2, <1>3, <1>4, <1>5, <1>6, <1>7 DEF IInv

\* A pending run becomes done.
LEMMA FinishScoreStep ==
  ASSUME IInv, NEW t \in Tasks, FinishScore(t)
  PROVE  IInv'
<1>1. TypeOK'
  BY PipelineAssumption
  DEF FinishScore, Go, SetRun, queueVars, taskVars,
     IInv, TypeOK, QueueInv, Kinds, Unfinished, Places, Handler,
     Outcomes
<1>2. QueueInv'
  BY DEF FinishScore, Go, SetRun, queueVars, taskVars,
     IInv, TypeOK, QueueInv
<1>3. RunInv'
  BY DEF FinishScore, Go, SetRun, queueVars, taskVars,
     IInv, TypeOK, QueueInv, RunInv, Running
<1>4. ReadInv'
  BY DEF FinishScore, Go, SetRun, queueVars, taskVars,
     IInv, TypeOK, QueueInv, ReadInv, Reading
<1>5. FirstInv'
  BY DEF FinishScore, Go, SetRun, queueVars, taskVars,
     IInv, TypeOK, QueueInv, RunInv, Running, FirstInv, Holds, First
<1>6. OrderInv'
  BY DEF FinishScore, Go, SetRun, queueVars, taskVars,
     IInv, QueueInv, OrderInv
<1>7. WaitInv'
  BY DEF FinishScore, Go, SetRun, queueVars, taskVars,
     IInv, TypeOK, QueueInv, RunInv, Running, ReadInv, OrderInv,
     WaitInv, Owes, Newest, Awaited, ReadTasks, Live, Last, Unfinished
<1> QED BY <1>1, <1>2, <1>3, <1>4, <1>5, <1>6, <1>7 DEF IInv

\* A handler gives its row up.
LEMMA FailStep ==
  ASSUME IInv, NEW t \in Tasks, Fail(t)
  PROVE  IInv'
<1>1. TypeOK'
  <2>1. at' \in [Tasks -> Places]
    BY DEF Fail, Go, IInv, TypeOK, Places, Handler, Outcomes
  <2>2. CASE kind[t] = "score"
    <3>1. SetRun(t, "failed", TRUE) /\ UNCHANGED reading
      BY <2>2 DEF Fail, FailRow
    <3> QED BY <2>1, <3>1, RunSet DEF Fail, queueVars, taskVars, IInv, TypeOK
  <2>3. CASE kind[t] # "score"
    <3>1. reading' \in [status: {"absent", "pending", "done", "failed"}, noted: BOOLEAN]
      <4>1. reading' = Failed
        BY <2>3 DEF Fail, FailRow
      <4> QED BY <4>1 DEF Failed
    <3>2. UNCHANGED score
      BY <2>3 DEF Fail, FailRow
    <3> QED BY <2>1, <3>1, <3>2 DEF Fail, queueVars, taskVars, IInv, TypeOK
  <2> QED BY <2>2, <2>3
<1>2. QueueInv'
  BY DEF Fail, Go, FailRow, SetRun, Failed, queueVars, taskVars,
     IInv, TypeOK, QueueInv
<1>3. RunInv'
  BY DEF Fail, Go, FailRow, SetRun, Failed, queueVars, taskVars,
     IInv, TypeOK, QueueInv, RunInv, Running
<1>4. ReadInv'
  BY DEF Fail, Go, FailRow, SetRun, Failed, queueVars, taskVars,
     IInv, TypeOK, QueueInv, ReadInv, Reading
<1>5. FirstInv'
  <2>1. \A r \in Tasks : at'[r] \in {"chain", "keep"} => at'[r] = at[r]
    BY DEF Fail, Go, IInv, TypeOK
  <2>2. \A r \in Tasks : First(r)' => First(r)
    BY DEF Fail, FailRow, SetRun, IInv, TypeOK, First
  <2> QED BY <2>1, <2>2 DEF IInv, FirstInv, Holds
<1>6. OrderInv'
  BY DEF Fail, Go, FailRow, SetRun, Failed, queueVars, taskVars,
     IInv, QueueInv, OrderInv
<1>7. WaitInv'
  <2>1. ASSUME NEW r \in Tasks, r # t, Owes(r)
        PROVE  Owes(r)'
    BY <2>1 DEF Fail, Go, queueVars, taskVars, Owes, Live, Last, IInv, TypeOK
  <2>2. \A r \in Tasks : score'[r].status = "pending" => score[r].status = "pending"
    BY DEF Fail, FailRow, SetRun, IInv, TypeOK
  <2>3. CASE kind[t] = "score"
    <3>1. ~ Awaited(t)'
      BY <2>3, RunSet DEF Fail, FailRow, queueVars, taskVars, Awaited, IInv
    <3>2. UNCHANGED reading
      BY <2>3 DEF Fail, FailRow
    <3> QED BY <2>1, <2>2, <3>1, <3>2, StillOwed DEF Fail, queueVars
  <2>4. CASE kind[t] # "score"
    <3>1. reading'.status = "failed"
      BY <2>4 DEF Fail, FailRow, Failed
    <3>2. ~ Awaited(t)'
      BY <2>4, <3>1 DEF Fail, queueVars, taskVars, Awaited
    <3> QED BY <2>1, <2>2, <3>1, <3>2, StillOwed DEF Fail, queueVars
  <2> QED BY <2>3, <2>4
<1> QED BY <1>1, <1>2, <1>3, <1>4, <1>5, <1>6, <1>7 DEF IInv

\* A handler notes a retry on its row.
LEMMA NoteRetryStep ==
  ASSUME IInv, NEW t \in Tasks, NoteRetry(t)
  PROVE  IInv'
<1>1. TypeOK'
  <2>1. at' \in [Tasks -> Places]
    BY DEF NoteRetry, Go, IInv, TypeOK, Places, Handler, Outcomes
  <2>2. CASE kind[t] = "score"
    <3>1. /\ SetRun(t, score[t].status, score[t].noted \/ score[t].status = "pending")
          /\ UNCHANGED reading
      BY <2>2 DEF NoteRetry, NoteRow
    <3>2. score[t].status \in {"none", "pending", "done", "failed"}
      BY DEF IInv, TypeOK
    <3>3. (score[t].noted \/ score[t].status = "pending") \in BOOLEAN
      OBVIOUS
    <3>4. score' \in [Tasks -> [status: {"none", "pending", "done", "failed"},
                                noted: BOOLEAN, chained: BOOLEAN]]
      <4>1. TypeOK
        BY DEF IInv
      <4> QED BY <3>1, <3>2, <3>3, <4>1, RunSet
    <3> QED BY <2>1, <3>1, <3>4 DEF NoteRetry, queueVars, taskVars, IInv, TypeOK
  <2>3. CASE kind[t] # "score"
    BY <2>1, <2>3 DEF NoteRetry, NoteRow, queueVars, taskVars, IInv, TypeOK
  <2> QED BY <2>2, <2>3
<1>2. QueueInv'
  BY DEF NoteRetry, Go, NoteRow, SetRun, queueVars, taskVars,
     IInv, TypeOK, QueueInv
<1>3. RunInv'
  BY DEF NoteRetry, Go, NoteRow, SetRun, queueVars, taskVars,
     IInv, TypeOK, QueueInv, RunInv, Running
<1>4. ReadInv'
  BY DEF NoteRetry, Go, NoteRow, SetRun, queueVars, taskVars,
     IInv, TypeOK, QueueInv, ReadInv, Reading
<1>5. FirstInv'
  <2>1. \A r \in Tasks : at'[r] \in {"chain", "keep"} => at'[r] = at[r]
    BY DEF NoteRetry, Go, IInv, TypeOK
  <2>2. \A r \in Tasks : First(r)' => First(r)
    BY DEF NoteRetry, NoteRow, SetRun, IInv, TypeOK, First
  <2> QED BY <2>1, <2>2 DEF IInv, FirstInv, Holds
<1>6. OrderInv'
  BY DEF NoteRetry, Go, NoteRow, SetRun, queueVars, taskVars,
     IInv, QueueInv, OrderInv
<1>7. WaitInv'
  BY DEF NoteRetry, Go, NoteRow, SetRun, queueVars, taskVars,
     IInv, TypeOK, QueueInv, RunInv, Running, ReadInv, OrderInv,
     WaitInv, Owes, Newest, Awaited, ReadTasks, Live, Last, Unfinished
<1> QED BY <1>1, <1>2, <1>3, <1>4, <1>5, <1>6, <1>7 DEF IInv

\* A handler returns.
LEMMA ReturnStep ==
  ASSUME IInv, NEW t \in Tasks, Return(t)
  PROVE  IInv'
<1>1. TypeOK'
  BY PipelineAssumption
  DEF Return, Go, queueVars, taskVars, rowVars,
     IInv, TypeOK, QueueInv, Kinds, Unfinished, Places, Handler,
     Outcomes
<1>2. QueueInv'
  BY DEF Return, Go, queueVars, taskVars, rowVars,
     IInv, TypeOK, QueueInv
<1>3. RunInv'
  BY DEF Return, Go, queueVars, taskVars, rowVars,
     IInv, TypeOK, QueueInv, RunInv, Running
<1>4. ReadInv'
  BY DEF Return, Go, queueVars, taskVars, rowVars,
     IInv, TypeOK, QueueInv, ReadInv, Reading
<1>5. FirstInv'
  BY DEF Return, Go, queueVars, taskVars, rowVars,
     IInv, TypeOK, QueueInv, RunInv, Running, FirstInv, Holds, First
<1>6. OrderInv'
  BY DEF Return, Go, queueVars, taskVars, rowVars,
     IInv, QueueInv, OrderInv
<1>7. WaitInv'
  BY DEF Return, Go, queueVars, taskVars, rowVars,
     IInv, TypeOK, QueueInv, RunInv, Running, ReadInv, OrderInv,
     WaitInv, Owes, Newest, Awaited, ReadTasks, Live, Last, Unfinished
<1> QED BY <1>1, <1>2, <1>3, <1>4, <1>5, <1>6, <1>7 DEF IInv

\* A handler is cut off by a failed transaction.
LEMMA RaiseStep ==
  ASSUME IInv, NEW t \in Tasks, Raise(t)
  PROVE  IInv'
<1>1. TypeOK'
  BY PipelineAssumption
  DEF Raise, CutOff, Last, taskVars, rowVars, Handler,
     IInv, TypeOK, QueueInv, Kinds, Unfinished, Places, Handler,
     Outcomes
<1>2. QueueInv'
  BY DEF Raise, CutOff, Last, taskVars, rowVars, Handler,
     IInv, TypeOK, QueueInv
<1>3. RunInv'
  BY DEF Raise, CutOff, Last, taskVars, rowVars, Handler,
     IInv, TypeOK, QueueInv, RunInv, Running
<1>4. ReadInv'
  BY DEF Raise, CutOff, Last, taskVars, rowVars, Handler,
     IInv, TypeOK, QueueInv, ReadInv, Reading
<1>5. FirstInv'
  BY DEF Raise, CutOff, Last, taskVars, rowVars, Handler,
     IInv, TypeOK, QueueInv, RunInv, Running, FirstInv, Holds, First
<1>6. OrderInv'
  BY DEF Raise, CutOff, Last, taskVars, rowVars, Handler,
     IInv, QueueInv, OrderInv
<1>7. WaitInv'
  BY DEF Raise, CutOff, Last, taskVars, rowVars, Handler,
     IInv, TypeOK, QueueInv, RunInv, Running, ReadInv, OrderInv,
     WaitInv, Owes, Newest, Awaited, ReadTasks, Live, Last, Unfinished
<1> QED BY <1>1, <1>2, <1>3, <1>4, <1>5, <1>6, <1>7 DEF IInv

\* A row is handed out.
LEMMA ClaimStep ==
  ASSUME IInv, NEW t \in Tasks, Claim(t)
  PROVE  IInv'
<1>1. TypeOK'
  BY PipelineAssumption
  DEF Claim, Becomes, rowVars,
     IInv, TypeOK, QueueInv, Kinds, Unfinished, Places, Handler,
     Outcomes
<1>2. QueueInv'
  BY DEF Claim, Becomes, rowVars,
     IInv, TypeOK, QueueInv
<1>3. RunInv'
  BY DEF Claim, Becomes, rowVars,
     IInv, TypeOK, QueueInv, RunInv, Running
<1>4. ReadInv'
  BY DEF Claim, Becomes, rowVars,
     IInv, TypeOK, QueueInv, ReadInv, Reading
<1>5. FirstInv'
  BY DEF Claim, Becomes, rowVars,
     IInv, TypeOK, QueueInv, RunInv, Running, FirstInv, Holds, First
<1>6. OrderInv'
  BY DEF Claim, Becomes, rowVars,
     IInv, QueueInv, OrderInv
<1>7. WaitInv'
  BY DEF Claim, Becomes, rowVars,
     IInv, TypeOK, QueueInv, RunInv, Running, ReadInv, OrderInv,
     WaitInv, Owes, Newest, Awaited, ReadTasks, Live, Last, Unfinished
<1> QED BY <1>1, <1>2, <1>3, <1>4, <1>5, <1>6, <1>7 DEF IInv

\* A row is handed back.
LEMMA ReleaseStep ==
  ASSUME IInv, NEW t \in Tasks, Release(t)
  PROVE  IInv'
<1>1. TypeOK'
  BY PipelineAssumption
  DEF Release, Go, HandedBack, Becomes, rowVars,
     IInv, TypeOK, QueueInv, Kinds, Unfinished, Places, Handler,
     Outcomes
<1>2. QueueInv'
  <2>1. status[t] = "running" /\ at' = [at EXCEPT ![t] = "none"]
    BY DEF Release, Go, IInv, QueueInv
  <2>2. HandedBack(t)
    BY DEF Release
  <2> QED BY <2>1, <2>2, Requeueing DEF Release, rowVars, IInv, TypeOK, QueueInv
<1>3. RunInv'
  BY DEF Release, Go, HandedBack, Becomes, rowVars,
     IInv, TypeOK, QueueInv, RunInv, Running
<1>4. ReadInv'
  BY DEF Release, Go, HandedBack, Becomes, rowVars,
     IInv, TypeOK, QueueInv, ReadInv, Reading
<1>5. FirstInv'
  BY DEF Release, Go, HandedBack, Becomes, rowVars,
     IInv, TypeOK, QueueInv, RunInv, Running, FirstInv, Holds, First
<1>6. OrderInv'
  BY DEF Release, Go, HandedBack, Becomes, rowVars,
     IInv, QueueInv, OrderInv
<1>7. WaitInv'
  BY DEF Release, Go, HandedBack, Becomes, rowVars,
     IInv, TypeOK, QueueInv, RunInv, Running, ReadInv, OrderInv,
     WaitInv, Owes, Newest, Awaited, ReadTasks, Live, Last, Unfinished
<1> QED BY <1>1, <1>2, <1>3, <1>4, <1>5, <1>6, <1>7 DEF IInv

\* A handler starts.
LEMMA BeginStep ==
  ASSUME IInv, NEW t \in Tasks, Begin(t)
  PROVE  IInv'
<1>1. TypeOK'
  BY PipelineAssumption
  DEF Begin, Go, queueVars, taskVars, rowVars,
     IInv, TypeOK, QueueInv, Kinds, Unfinished, Places, Handler,
     Outcomes
<1>2. QueueInv'
  BY DEF Begin, Go, queueVars, taskVars, rowVars,
     IInv, TypeOK, QueueInv
<1>3. RunInv'
  BY DEF Begin, Go, queueVars, taskVars, rowVars,
     IInv, TypeOK, QueueInv, RunInv, Running
<1>4. ReadInv'
  BY DEF Begin, Go, queueVars, taskVars, rowVars,
     IInv, TypeOK, QueueInv, ReadInv, Reading
<1>5. FirstInv'
  BY DEF Begin, Go, queueVars, taskVars, rowVars,
     IInv, TypeOK, QueueInv, RunInv, Running, FirstInv, Holds, First
<1>6. OrderInv'
  BY DEF Begin, Go, queueVars, taskVars, rowVars,
     IInv, QueueInv, OrderInv
<1>7. WaitInv'
  BY DEF Begin, Go, queueVars, taskVars, rowVars,
     IInv, TypeOK, QueueInv, RunInv, Running, ReadInv, OrderInv,
     WaitInv, Owes, Newest, Awaited, ReadTasks, Live, Last, Unfinished
<1> QED BY <1>1, <1>2, <1>3, <1>4, <1>5, <1>6, <1>7 DEF IInv

\* The runner records an outcome.
LEMMA RecordStep ==
  ASSUME IInv, NEW t \in Tasks, Record(t)
  PROVE  IInv'
<1>1. TypeOK'
  <2>1. /\ status[t] = "running"
        /\ at' \in [Tasks -> Places] /\ claimed' \in [Tasks -> Ads \union {NoAd}]
    BY DEF Record, Leave, IInv, TypeOK, QueueInv, Places
  <2>2. CASE at[t] = "ok"
    BY <2>1, <2>2 DEF Record, Becomes, rowVars, IInv, TypeOK
  <2>3. CASE at[t] # "ok"
    <3>1. RetryOrGiveUp(t) \/ GivenUp(t) \/ HandedBack(t)
      BY <2>3 DEF Record
    <3> QED BY <2>1, <3>1, Requeueing DEF Record, rowVars, IInv, TypeOK
  <2> QED BY <2>2, <2>3
<1>2. QueueInv'
  <2>1. status[t] = "running" /\ at' = [at EXCEPT ![t] = "none"]
    BY DEF Record, Leave, IInv, QueueInv
  <2>2. CASE at[t] = "ok"
    BY <2>1, <2>2 DEF Record, Becomes, rowVars, IInv, TypeOK, QueueInv
  <2>3. CASE at[t] # "ok"
    <3>1. RetryOrGiveUp(t) \/ GivenUp(t) \/ HandedBack(t)
      BY <2>3 DEF Record
    <3> QED BY <2>1, <3>1, Requeueing DEF Record, rowVars, IInv, TypeOK, QueueInv
  <2> QED BY <2>2, <2>3
<1>3. RunInv'
  BY DEF Record, Leave, GivenUp, RetryOrGiveUp, HandedBack, Becomes, Last, rowVars,
     IInv, TypeOK, QueueInv, RunInv, Running
<1>4. ReadInv'
  BY DEF Record, Leave, GivenUp, RetryOrGiveUp, HandedBack, Becomes, Last, rowVars,
     IInv, TypeOK, QueueInv, ReadInv, Reading
<1>5. FirstInv'
  BY DEF Record, Leave, GivenUp, RetryOrGiveUp, HandedBack, Becomes, Last, rowVars,
     IInv, TypeOK, QueueInv, RunInv, Running, FirstInv, Holds, First
<1>6. OrderInv'
  <2>1. status[t] # "absent"
    BY DEF Record, IInv, QueueInv
  <2>2. \A r \in Tasks : status'[r] = "absent" <=> status[r] = "absent"
    BY <2>1 DEF Record, Leave, RetryOrGiveUp, GivenUp, HandedBack, Becomes, IInv, TypeOK
  <2> QED BY <2>2 DEF IInv, OrderInv
<1>7. WaitInv'
  BY DEF Record, Leave, GivenUp, RetryOrGiveUp, HandedBack, Becomes, Last, rowVars,
     IInv, TypeOK, QueueInv, RunInv, Running, ReadInv, OrderInv,
     WaitInv, Owes, Newest, Awaited, ReadTasks, Live, Last, Unfinished
<1> QED BY <1>1, <1>2, <1>3, <1>4, <1>5, <1>6, <1>7 DEF IInv

\* A thread is gone.
LEMMA LoseStep ==
  ASSUME IInv, NEW t \in Tasks, Lose(t)
  PROVE  IInv'
<1>1. TypeOK'
  BY PipelineAssumption
  DEF Lose, CutOff, Last, Leave, taskVars, rowVars,
     IInv, TypeOK, QueueInv, Kinds, Unfinished, Places, Handler,
     Outcomes
<1>2. QueueInv'
  BY DEF Lose, CutOff, Last, Leave, taskVars, rowVars,
     IInv, TypeOK, QueueInv
<1>3. RunInv'
  BY DEF Lose, CutOff, Last, Leave, taskVars, rowVars,
     IInv, TypeOK, QueueInv, RunInv, Running
<1>4. ReadInv'
  BY DEF Lose, CutOff, Last, Leave, taskVars, rowVars,
     IInv, TypeOK, QueueInv, ReadInv, Reading
<1>5. FirstInv'
  BY DEF Lose, CutOff, Last, Leave, taskVars, rowVars,
     IInv, TypeOK, QueueInv, RunInv, Running, FirstInv, Holds, First
<1>6. OrderInv'
  BY DEF Lose, CutOff, Last, Leave, taskVars, rowVars,
     IInv, QueueInv, OrderInv
<1>7. WaitInv'
  BY DEF Lose, CutOff, Last, Leave, taskVars, rowVars,
     IInv, TypeOK, QueueInv, RunInv, Running, ReadInv, OrderInv,
     WaitInv, Owes, Newest, Awaited, ReadTasks, Live, Last, Unfinished
<1> QED BY <1>1, <1>2, <1>3, <1>4, <1>5, <1>6, <1>7 DEF IInv

\* The sweep finds a row with nobody on it.
LEMMA ReclaimStaleStep ==
  ASSUME IInv, NEW t \in Tasks, ReclaimStale(t)
  PROVE  IInv'
<1>1. TypeOK'
  BY Requeueing DEF ReclaimStale, rowVars, IInv, TypeOK
<1>2. QueueInv'
  BY Requeueing DEF ReclaimStale, rowVars, IInv, TypeOK, QueueInv
<1>3. RunInv'
  BY DEF ReclaimStale, GivenUp, RetryOrGiveUp, Becomes, Last, rowVars,
     IInv, TypeOK, QueueInv, RunInv, Running
<1>4. ReadInv'
  BY DEF ReclaimStale, GivenUp, RetryOrGiveUp, Becomes, Last, rowVars,
     IInv, TypeOK, QueueInv, ReadInv, Reading
<1>5. FirstInv'
  BY DEF ReclaimStale, GivenUp, RetryOrGiveUp, Becomes, Last, rowVars,
     IInv, TypeOK, QueueInv, RunInv, Running, FirstInv, Holds, First
<1>6. OrderInv'
  <2>1. status[t] # "absent"
    BY DEF ReclaimStale, IInv, QueueInv
  <2>2. \A r \in Tasks : status'[r] = "absent" <=> status[r] = "absent"
    BY <2>1 DEF ReclaimStale, Leave, RetryOrGiveUp, GivenUp, HandedBack, Becomes, IInv, TypeOK
  <2> QED BY <2>2 DEF IInv, OrderInv
<1>7. WaitInv'
  BY DEF ReclaimStale, GivenUp, RetryOrGiveUp, Becomes, Last, rowVars,
     IInv, TypeOK, QueueInv, RunInv, Running, ReadInv, OrderInv,
     WaitInv, Owes, Newest, Awaited, ReadTasks, Live, Last, Unfinished
<1> QED BY <1>1, <1>2, <1>3, <1>4, <1>5, <1>6, <1>7 DEF IInv

----------------------------------------------------------------------------
(* The invariant holds of every state.                                     *)

\* Before anybody has asked for anything there is nothing to account for.
LEMMA InitInv ==
  ASSUME Init
  PROVE  IInv
<1>1. TypeOK
  BY PipelineAssumption DEF Init, TypeOK, NoScore, Kinds, Places
<1>2. QueueInv /\ RunInv /\ ReadInv
  BY DEF Init, NoScore, QueueInv, RunInv, ReadInv, Running, Reading
<1>3. FirstInv /\ OrderInv /\ WaitInv
  BY DEF Init, NoScore, FirstInv, OrderInv, WaitInv, Holds, First
<1> QED BY <1>1, <1>2, <1>3 DEF IInv

\* A step that changes nothing keeps the invariant.
LEMMA StutterInv ==
  ASSUME IInv, UNCHANGED vars
  PROVE  IInv'
<1>1. TypeOK' /\ QueueInv'
  BY DEF vars, IInv, TypeOK, QueueInv
<1>2. RunInv' /\ ReadInv'
  BY DEF vars, IInv, RunInv, ReadInv
<1>3. FirstInv' /\ OrderInv'
  BY DEF vars, IInv, FirstInv, OrderInv, Holds, First
<1>4. WaitInv'
  BY DEF vars, IInv, WaitInv, Newest, Awaited, Owes, ReadTasks, Live, Last
<1> QED BY <1>1, <1>2, <1>3, <1>4 DEF IInv

LEMMA NextInv ==
  ASSUME IInv, [Next]_vars
  PROVE  IInv'
<1>1. ASSUME Web
      PROVE  IInv'
  BY <1>1, CreateApplicationStep, TrackAsApplicationStep, ExtractAgainStep,
     AttachAdStep, LookForRunStep, InsertRunStep, SaveKeyStep DEF Web
<1>2. ASSUME NEW t \in Tasks, Handle(t)
      PROVE  IInv'
  BY <1>2, StartReadStep, StartFetchStep, StartScoreStep, LoadKeyStep,
     ReadInputsStep, CallStep, FinishReadStep, CommitReadStep, FinishFetchStep,
     FinishScoreStep, FailStep, NoteRetryStep, ReturnStep, RaiseStep DEF Handle
<1>3. ASSUME NEW t \in Tasks, Deliver(t)
      PROVE  IInv'
  BY <1>3, ClaimStep, ReleaseStep, BeginStep, RecordStep, LoseStep,
     ReclaimStaleStep DEF Deliver
<1> QED BY <1>1, <1>2, <1>3, StutterInv DEF Next

\* Every state the program reaches satisfies the invariant.
THEOREM Invariance == Spec => []IInv
BY InitInv, NextInv, PTL DEF Spec

----------------------------------------------------------------------------
(* What it is for.                                                         *)

\* Every variable keeps to its type (Pipeline!TypeOK).
THEOREM TypeCorrect == Spec => []TypeOK
<1>1. IInv => TypeOK
  BY DEF IInv
<1> QED BY <1>1, Invariance, PTL

\* A row that says it waits has the newest task asked for behind it, unfinished
\* or cut off in its last attempt (Pipeline!WaitingIsAccounted).
THEOREM WaitingAccounted == Spec => []WaitingIsAccounted
<1>1. ASSUME IInv
      PROVE  WaitingIsAccounted
  <2>1. \A t \in Tasks : Owes(t) => Live(t) \/ t \in cut
    BY DEF Owes
  <2>2. ASSUME reading.status = "pending"
        PROVE  \E t \in ReadTasks : /\ Live(t) \/ t \in cut
                                    /\ \A s \in ReadTasks : s <= t
    <3>1. PICK t \in Tasks : Newest(t) /\ Owes(t)
      BY <1>1, <2>2 DEF IInv, WaitInv
    <3> QED BY <2>1, <3>1 DEF Newest
  <2>3. \A t \in Scores : score[t].status = "pending" => Live(t) \/ t \in cut
    BY <1>1, <2>1 DEF IInv, WaitInv, Scores
  <2> QED BY <2>2, <2>3 DEF WaitingIsAccounted
<1> QED BY <1>1, Invariance, PTL

\* A read that is done carries no error code (Pipeline!DoneReadHasNoCode).
THEOREM DoneReadClean == Spec => []DoneReadHasNoCode
<1>1. IInv => DoneReadHasNoCode
  BY DEF IInv, ReadInv, DoneReadHasNoCode
<1> QED BY <1>1, Invariance, PTL

\* A set whose members are all equal has at most one.
LEMMA AtMostOne ==
  ASSUME NEW S, \A x, y \in S : x = y
  PROVE  Cardinality(S) <= 1
<1>1. CASE S = {}
  <2>1. Cardinality(S) = 0
    BY <1>1, FS_EmptySet
  <2> QED BY <2>1
<1>2. CASE S # {}
  <2>1. PICK x : S = {x}
    BY <1>2
  <2>2. Cardinality(S) = 1
    BY <2>1, FS_Singleton
  <2> QED BY <2>2
<1> QED BY <1>1, <1>2

\* However many reads race, one first score at most (Pipeline!FirstScoreOnce).
THEOREM FirstScoreIsOnce == Spec => []FirstScoreOnce
<1>1. ASSUME IInv
      PROVE  FirstScoreOnce
  <2> DEFINE F == {t \in Scores : score[t].chained /\ score[t].status # "failed"}
  <2>1. \A t \in F : t \in Tasks /\ First(t)
    BY <1>1 DEF IInv, TypeOK, Scores, First
  <2>2. \A s, t \in F : s = t
    BY <1>1, <2>1 DEF IInv, FirstInv
  <2> HIDE DEF F
  <2>3. Cardinality(F) <= 1
    BY <2>2, AtMostOne
  <2> QED BY <2>3 DEF F, FirstScoreOnce
<1> QED BY <1>1, Invariance, PTL

\* What a handler writes to a run's row, it writes to a pending one.
LEMMA RunsWritten ==
  ASSUME IInv, NEW t \in Tasks, Fail(t) \/ NoteRetry(t) \/ FinishScore(t)
  PROVE  \A s \in Tasks : score[s].status \in {"done", "failed"} => score'[s] = score[s]
<1>1. \A s \in Tasks : s # t => score'[s] = score[s]
  BY DEF Fail, NoteRetry, FinishScore, FailRow, NoteRow, SetRun, IInv, TypeOK
<1>2. CASE kind[t] = "score"
  <2>1. at[t] \in Running
    BY DEF Fail, NoteRetry, FinishScore, Go, Running
  <2>2. score[t].status = "pending"
    BY <1>2, <2>1 DEF IInv, RunInv
  <2> QED BY <1>1, <2>2
<1>3. CASE kind[t] # "score"
  BY <1>3 DEF Fail, NoteRetry, FinishScore, FailRow, NoteRow
<1> QED BY <1>2, <1>3

\* A run's row is written when it is queued, and then while it is pending.
LEMMA RunsKept ==
  ASSUME IInv, [Next]_vars
  PROVE  \A s \in Tasks : score[s].status \in {"done", "failed"} => score'[s] = score[s]
<1> DEFINE K == \A s \in Tasks :
                  score[s].status \in {"done", "failed"} => score'[s] = score[s]
<1>1. ASSUME NEW s \in Tasks, NEW c \in BOOLEAN, NextId(s), QueueScore(s, c)
      PROVE  K
  <2>1. score[s].status = "none"
    BY <1>1 DEF NextId, IInv, QueueInv, TypeOK
  <2> QED BY <1>1, <2>1 DEF QueueScore, IInv, TypeOK
<1>2. ASSUME score' = score
      PROVE  K
  BY <1>2
<1>3. ASSUME Web
      PROVE  K
  <2>1. CASE InsertRun
    BY <1>1, <2>1 DEF InsertRun
  <2>2. CASE ~ InsertRun
    BY <1>2, <1>3, <2>2 DEF Web, CreateApplication, TrackAsApplication,
       ExtractAgain, AttachAd, LookForRun, SaveKey, rowVars
  <2> QED BY <2>1, <2>2
<1>4. ASSUME NEW t \in Tasks, Handle(t)
      PROVE  K
  <2>1. CASE CommitRead(t)
    BY <1>1, <1>2, <2>1 DEF CommitRead
  <2>2. CASE Fail(t) \/ NoteRetry(t) \/ FinishScore(t)
    BY <2>2, RunsWritten
  <2>3. CASE ~ (CommitRead(t) \/ Fail(t) \/ NoteRetry(t) \/ FinishScore(t))
    BY <1>2, <1>4, <2>3 DEF Handle, StartRead, StartFetch, StartScore, LoadKey,
       ReadInputs, Call, FinishRead, FinishFetch, Return, Raise, rowVars
  <2> QED BY <2>1, <2>2, <2>3
<1>5. ASSUME NEW t \in Tasks, Deliver(t)
      PROVE  K
  BY <1>2, <1>5 DEF Deliver, Claim, Release, Begin, Record, Lose, ReclaimStale,
     rowVars
<1>6. ASSUME UNCHANGED vars
      PROVE  K
  BY <1>2, <1>6 DEF vars
<1> QED BY <1>3, <1>4, <1>5, <1>6 DEF Next

\* A run leaves `pending` once: what is done or failed stays as it is, though
\* its task be delivered again (Pipeline!SettledOnce).
THEOREM ScoreSettlesOnce == Spec => SettledOnce
<1>1. IInv /\ [Next]_vars =>
        [\A t \in Tasks : score[t].status \in {"done", "failed"} =>
                            score'[t] = score[t]]_vars
  BY RunsKept
<1> QED BY <1>1, Invariance, PTL DEF Spec, SettledOnce

----------------------------------------------------------------------------
(* Pipeline treats its tasks as TaskLifecycle says a queue does: requests  *)
(* and finishing handlers only post new ones, handlers begin on a task     *)
(* handed out, and the queue moves none whose handler runs. With           *)
(* WorkerProofs, which shows that the workers give no less, it is why      *)
(* Pipeline need not know them.                                            *)

----------------------------------------------------------------------------
(* Which handlers run.                                                     *)

\* A step between two places inside a handler, or two outside, starts and
\* ends none.
LEMMA SameHandling ==
  ASSUME TypeOK, NEW t \in Tasks, NEW p,
         at' = [at EXCEPT ![t] = p], at[t] \in Handler <=> p \in Handler
  PROVE  Handling' = Handling
BY DEF Handling, TypeOK

\* A step out of a handler ends it.
LEMMA HandlingEnds ==
  ASSUME TypeOK, NEW t \in Tasks, NEW p, at' = [at EXCEPT ![t] = p], p \notin Handler
  PROVE  Handling' \subseteq Handling
BY DEF Handling, TypeOK

\* A step into one starts it.
LEMMA HandlingBegins ==
  ASSUME TypeOK, NEW t \in Tasks, NEW p, at' = [at EXCEPT ![t] = p], p \in Handler
  PROVE  Handling' = Handling \union {t}
BY DEF Handling, TypeOK

\* No handler runs on a task that is not handed out.
LEMMA HandledRuns ==
  ASSUME IInv, NEW t \in Handling
  PROVE  t \in Tasks /\ status[t] = "running"
BY DEF IInv, QueueInv, Handling, Handler

----------------------------------------------------------------------------
(* What becomes of the tasks.                                              *)

\* A step of the lifecycle that leaves the queue alone.
LEMMA Leaves ==
  ASSUME UNCHANGED taskVars, Handling' \subseteq Handling
  PROVE  Life!LifeNext
BY DEF taskVars, Life!LifeNext, Life!End, Life!Kept

\* A new task is a move.
LEMMA Posts ==
  ASSUME IInv, NEW s \in Tasks, NEW k \in Kinds, NextId(s), Queue(s, k),
         Handling' = Handling
  PROVE  Life!LifeNext
<1>1. Life!Posted(s)
  BY DEF NextId, Queue, IInv, TypeOK, Life!Posted
<1>2. \A r \in Tasks : r # s => Life!Kept(r)
  BY DEF Queue, IInv, TypeOK, Life!Kept
<1> QED BY <1>1, <1>2 DEF Life!LifeNext, Life!Move

\* What the queue does with a task handed out whose handler is not running.
LEMMA Moves ==
  ASSUME IInv, NEW t \in Tasks, status[t] = "running", t \notin Handling,
         Handling' = Handling,
         \/ GivenUp(t) \/ RetryOrGiveUp(t) \/ HandedBack(t)
         \/ Becomes(t, "succeeded") /\ UNCHANGED tries
  PROVE  Life!LifeNext
<1>1. tries[t] \in 1..MaxAttempts
  BY PipelineAssumption DEF IInv, TypeOK, QueueInv
<1>2. ASSUME NEW s \in {"succeeded", "failed"}, Becomes(t, s), UNCHANGED tries
      PROVE  Life!Ended(t)
  BY <1>2 DEF Becomes, IInv, TypeOK, Life!Ended, Life!Settled
<1>3. ASSUME Becomes(t, "pending"), UNCHANGED tries, ~ Last(t)
      PROVE  Life!TakenBack(t)
  BY <1>1, <1>3, PipelineAssumption DEF Becomes, Last, IInv, TypeOK, Life!TakenBack
<1>4. ASSUME HandedBack(t)
      PROVE  Life!Refused(t)
  BY <1>1, <1>4 DEF HandedBack, Becomes, IInv, TypeOK, Life!Refused
<1>5. Life!Ended(t) \/ Life!TakenBack(t) \/ Life!Refused(t)
  BY <1>2, <1>3, <1>4 DEF GivenUp, RetryOrGiveUp
<1>6. \A r \in Tasks : r # t => Life!Kept(r)
  BY DEF GivenUp, RetryOrGiveUp, HandedBack, Becomes, IInv, TypeOK, Life!Kept
<1> QED BY <1>5, <1>6 DEF Life!LifeNext, Life!Move

----------------------------------------------------------------------------
(* Every step is the lifecycle's.                                          *)

\* A request posts a task, or leaves the queue alone.
LEMMA WebMaps ==
  ASSUME IInv, Web
  PROVE  Life!LifeNext
<1>1. UNCHANGED at
  BY DEF Web, CreateApplication, TrackAsApplication, ExtractAgain, AttachAd,
     LookForRun, InsertRun, SaveKey
<1>2. Handling' = Handling
  BY <1>1 DEF Handling
<1>3. ASSUME NEW s \in Tasks, NEW k \in Kinds, NextId(s), Queue(s, k)
      PROVE  Life!LifeNext
  BY <1>2, <1>3, Posts
<1>4. ASSUME UNCHANGED taskVars
      PROVE  Life!LifeNext
  BY <1>2, <1>4, Leaves
<1> QED BY <1>3, <1>4 DEF Web, CreateApplication, TrackAsApplication, ExtractAgain,
             AttachAd, LookForRun, InsertRun, SaveKey, QueueScore, Kinds

\* A handler's step posts a task, or leaves the queue alone.
LEMMA HandleMaps ==
  ASSUME IInv, NEW t \in Tasks, Handle(t)
  PROVE  Life!LifeNext
<1>1. TypeOK
  BY DEF IInv
<1>2. at[t] \in Handler
  BY DEF Handle, StartRead, StartFetch, StartScore, LoadKey, ReadInputs, Call,
     FinishRead, CommitRead, FinishFetch, FinishScore, Fail, NoteRetry, Return,
     Raise, Go, Handler
<1>3. ASSUME CommitRead(t) \/ FinishFetch(t)
      PROVE  Handling' = Handling
  <2>1. at' = [at EXCEPT ![t] = "after"]
    BY <1>3 DEF CommitRead, FinishFetch, Go
  <2>2. "after" \in Handler
    BY DEF Handler
  <2> QED BY <1>1, <1>2, <2>1, <2>2, SameHandling
<1>4. ASSUME NEW s \in Tasks, NEW k \in Kinds, NextId(s), Queue(s, k),
             CommitRead(t) \/ FinishFetch(t)
      PROVE  Life!LifeNext
  BY <1>3, <1>4, Posts
<1>5. PICK p : at' = [at EXCEPT ![t] = p]
  BY DEF Handle, StartRead, StartFetch, StartScore, LoadKey, ReadInputs, Call,
     FinishRead, CommitRead, FinishFetch, FinishScore, Fail, NoteRetry, Return,
     Raise, Go
<1>6. Handling' \subseteq Handling
  BY <1>1, <1>2, <1>5, SameHandling, HandlingEnds
<1>7. ASSUME UNCHANGED taskVars
      PROVE  Life!LifeNext
  BY <1>6, <1>7, Leaves
<1>8. CASE CommitRead(t) \/ FinishFetch(t)
  BY <1>4, <1>7, <1>8 DEF CommitRead, FinishFetch, QueueScore, Kinds
<1>9. CASE ~ (CommitRead(t) \/ FinishFetch(t))
  <2>1. UNCHANGED taskVars
    BY <1>9 DEF Handle, StartRead, StartFetch, StartScore, LoadKey, ReadInputs,
       Call, FinishRead, FinishScore, Fail, NoteRetry, Return, Raise, queueVars
  <2> QED BY <1>7, <2>1
<1> QED BY <1>8, <1>9

\* The queue's steps are the lifecycle's.
LEMMA DeliverMaps ==
  ASSUME IInv, NEW t \in Tasks, Deliver(t)
  PROVE  Life!LifeNext
<1>1. TypeOK
  BY DEF IInv
<1>2. ASSUME NEW p, p \notin Handler, at[t] \notin Handler, at' = [at EXCEPT ![t] = p]
      PROVE  t \notin Handling /\ Handling' = Handling
  BY <1>1, <1>2, SameHandling DEF Handling
<1>3. "none" \notin Handler /\ "pool" \notin Handler /\ "start" \in Handler
  BY DEF Handler
<1>4. at[t] # "none" => status[t] = "running"
  BY DEF IInv, QueueInv
<1>5. CASE Claim(t)
  <2>1. at[t] = "none"
    BY <1>5 DEF Claim, IInv, QueueInv
  <2>2. t \notin Handling /\ Handling' = Handling
    BY <1>2, <1>3, <1>5, <2>1 DEF Claim
  <2>3. Life!HandedOut(t)
    BY <1>5, <1>1 DEF Claim, Becomes, IInv, TypeOK, QueueInv, Life!HandedOut
  <2>4. \A r \in Tasks : r # t => Life!Kept(r)
    BY <1>5, <1>1 DEF Claim, Becomes, TypeOK, Life!Kept
  <2> QED BY <2>2, <2>3, <2>4 DEF Life!LifeNext, Life!Move
<1>6. CASE Release(t)
  <2>1. at[t] = "pool" /\ at' = [at EXCEPT ![t] = "none"] /\ HandedBack(t)
    BY <1>6 DEF Release, Go
  <2> QED BY <1>2, <1>3, <1>4, <2>1, Moves
<1>7. CASE Begin(t)
  <2>1. at[t] = "pool" /\ at' = [at EXCEPT ![t] = "start"] /\ UNCHANGED taskVars
    BY <1>7 DEF Begin, Go, queueVars
  <2>2. t \notin Handling /\ Handling' = Handling \union {t}
    BY <1>1, <1>3, <2>1, HandlingBegins DEF Handling
  <2>3. Life!Begin(t)
    BY <1>4, <2>1, <2>2 DEF taskVars, Life!Begin, Life!Kept
  <2> QED BY <2>3 DEF Life!LifeNext
<1>8. CASE Record(t)
  <2>1. at[t] \notin Handler /\ at[t] # "none" /\ at' = [at EXCEPT ![t] = "none"]
    BY <1>8 DEF Record, Leave, Handler
  <2>2. t \notin Handling /\ Handling' = Handling
    BY <1>2, <1>3, <2>1
  <2> QED BY <1>4, <1>8, <2>1, <2>2, Moves DEF Record
<1>9. CASE Lose(t)
  <2>1. at' = [at EXCEPT ![t] = "none"] /\ UNCHANGED taskVars
    BY <1>9 DEF Lose, Leave, queueVars
  <2> QED BY <1>1, <1>3, <2>1, HandlingEnds, Leaves
<1>10. CASE ReclaimStale(t)
  <2>1. at[t] = "none" /\ at' = at /\ status[t] = "running"
    BY <1>10 DEF ReclaimStale
  <2>2. t \notin Handling /\ Handling' = Handling
    BY <1>3, <2>1 DEF Handling
  <2> QED BY <1>10, <2>1, <2>2, Moves DEF ReclaimStale
<1> QED BY <1>5, <1>6, <1>7, <1>8, <1>9, <1>10 DEF Deliver

\* The pipeline asks of its queue what TaskLifecycle promises, no more
\* (Pipeline!QueueKept).
THEOREM PipelineKeepsQueue == Spec => QueueKept
<1>1. Init => Life!LifeInit
  BY DEF Init, Handling, Handler, Life!LifeInit
<1>2. ASSUME IInv, UNCHANGED vars
      PROVE  UNCHANGED Life!lifeVars
  BY <1>2 DEF vars, Handling, Life!lifeVars
<1>3. IInv /\ [Next]_vars => [Life!LifeNext]_(Life!lifeVars)
  BY <1>2, WebMaps, HandleMaps, DeliverMaps DEF Next
<1> QED BY <1>1, <1>3, Invariance, PTL DEF Spec, QueueKept, Life!LifeSpec
=============================================================================
