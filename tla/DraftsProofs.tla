---------------------------- MODULE DraftsProofs ----------------------------
(***************************************************************************)
(* What drafting guarantees for any number of tasks, presses, requirements,*)
(* versions, words, corrections and picks: the chain's steps, the CV's     *)
(* verdicts and what corrections may do to a score.                        *)
(***************************************************************************)
EXTENDS MCDrafts, FiniteSetTheorems, WellFoundedInduction, TLAPS

----------------------------------------------------------------------------
(* The chain. A task that was never queued follows none; a thread has a    *)
(* task that runs, and a running one has spent a try; only a check has     *)
(* rows, only a writing a draft, and nothing comes after a writing; what   *)
(* is back from its work has had the next step queued.                     *)

TaskOK(t) ==
  /\ status[t] = "absent" => after[t] = NoTask /\ at[t] = "none" /\ tries[t] = 0
  /\ at[t] # "none" => status[t] = "running"
  /\ status[t] = "pending" => tries[t] < MaxAttempts
  /\ status[t] = "running" => tries[t] > 0
  /\ kind[t] = "write" => ~ more[t]
  /\ at[t] = "ok" => (more[t] => Followed(t))

RowsOK == /\ \A t \in drafts : kind[t] = "write" /\ status[t] # "absent"
          /\ \A pair \in coverage : kind[pair[1]] = "check" /\ status[pair[1]] # "absent"

ChainInv == /\ ChainTypeOK
            /\ \A t \in Tasks : TaskOK(t)
            /\ RowsOK
            /\ OneOfEachStep /\ ChainContinues /\ PaidOnce

LEMMA ChainStart == ChainInit => ChainInv
BY ChainAssumption DEF ChainInit, ChainInv, ChainTypeOK, TaskOK, RowsOK, OneOfEachStep,
     ChainContinues, PaidOnce, HasRun, Kinds

\* A task is queued once, and what was queued stays as it was.
Queued(t, k, follows, then) ==
  /\ status[t] = "absent"
  /\ kind' = [kind EXCEPT ![t] = k]
  /\ status' = [status EXCEPT ![t] = "pending"]
  /\ after' = [after EXCEPT ![t] = follows]
  /\ more' = [more EXCEPT ![t] = then]
  /\ tries' = tries

\* Queueing a step, after none or after one that is not followed yet, with whatever
\* the step's own move is.
LEMMA QueueStep ==
  ASSUME ChainInv, NEW t \in Tasks, NEW k \in Kinds, NEW follows \in Tasks \union {NoTask},
         NEW then \in BOOLEAN, Queued(t, k, follows, then),
         k = "write" => ~ then, follows # NoTask => ~ Followed(follows),
         UNCHANGED <<seen, required, coverage, drafts>>,
         reading' \in {"pending", "done", "failed"},
         press' \in [Presses -> Kinds \union {"none"}],
         \/ follows = NoTask /\ at' = at
         \/ /\ follows # NoTask /\ at[follows] = "next"
            /\ at' = [at EXCEPT ![follows] = "ok"]
  PROVE  ChainInv'
<1>1. /\ status[t] = "absent" /\ tries[t] = 0 /\ at[t] = "none"
      /\ after[t] = NoTask /\ follows # t
  BY ChainAssumption DEF ChainInv, ChainTypeOK, TaskOK, Queued
<1>2. ChainTypeOK'
  BY DEF ChainInv, ChainTypeOK, Queued, Unfinished, Handler, Outcomes
<1>3. \A s \in Tasks \ {t} : /\ kind'[s] = kind[s] /\ status'[s] = status[s]
                             /\ after'[s] = after[s] /\ more'[s] = more[s]
  BY DEF ChainInv, ChainTypeOK, Queued
<1>4. /\ kind'[t] = k /\ status'[t] = "pending" /\ after'[t] = follows /\ more'[t] = then
      /\ at'[t] = "none"
  BY <1>1 DEF ChainInv, ChainTypeOK, Queued
<1>5. \A s \in Tasks : Followed(s) => Followed(s)'
  BY <1>1, <1>3 DEF Followed
<1>6. follows # NoTask => Followed(follows)'
  BY <1>4 DEF Followed
<1>7. OneOfEachStep'
  <2> SUFFICES ASSUME NEW r \in Tasks, NEW s \in Tasks, after'[r] = after'[s],
                      after'[s] # NoTask, r # s
               PROVE  FALSE
    BY DEF OneOfEachStep
  <2>1. CASE r # t /\ s # t
    BY <1>3, <2>1 DEF ChainInv, OneOfEachStep
  <2>2. CASE r = t
    <3>1. after[s] = follows /\ status[s] # "absent"
      BY <1>3, <1>4, <2>2 DEF ChainInv, TaskOK
    <3> QED BY <1>4, <2>2, <3>1 DEF Followed
  <2>3. CASE s = t
    <3>1. after[r] = follows /\ status[r] # "absent"
      BY <1>3, <1>4, <2>3 DEF ChainInv, TaskOK
    <3> QED BY <1>4, <2>3, <3>1 DEF Followed
  <2> QED BY <2>1, <2>2, <2>3
<1>8. ChainContinues'
  BY <1>3, <1>4, <1>5 DEF ChainContinues, ChainInv
<1>9. \A s \in Tasks : TaskOK(s)'
  <2> SUFFICES ASSUME NEW s \in Tasks PROVE TaskOK(s)'
    OBVIOUS
  <2>1. CASE s = t
    <3>1. tries'[t] < MaxAttempts
      BY <1>1, ChainAssumption DEF Queued
    <3> QED BY <1>4, <2>1, <3>1 DEF TaskOK
  <2>2. CASE s # t
    <3>1. \/ at'[s] = at[s]
          \/ s = follows /\ s # NoTask /\ at'[s] = "ok" /\ at[s] = "next"
      BY DEF ChainInv, ChainTypeOK
    <3>2. TaskOK(s) /\ tries' = tries
      BY DEF ChainInv, Queued
    <3> QED BY <1>3, <1>5, <1>6, <2>2, <3>1, <3>2, ChainAssumption DEF TaskOK
  <2> QED BY <2>1, <2>2
<1>10. RowsOK'
  <2>1. \A s \in drafts : s \in Tasks /\ s # t
    BY <1>1 DEF ChainInv, RowsOK, ChainTypeOK
  <2>2. \A pair \in coverage : pair[1] \in Tasks /\ pair[1] # t
    BY <1>1 DEF ChainInv, RowsOK, ChainTypeOK
  <2> QED BY <1>3, <2>1, <2>2 DEF ChainInv, RowsOK
<1>11. PaidOnce'
  <2>1. \A s \in Tasks : at'[s] \in {"call", "finish"} => at[s] \in {"call", "finish"}
    BY DEF ChainInv, ChainTypeOK
  <2> QED BY <2>1 DEF PaidOnce, HasRun, ChainInv
<1> QED BY <1>2, <1>7, <1>8, <1>9, <1>10, <1>11 DEF ChainInv

LEMMA EnqueueQueues ==
  ASSUME NEW k, NEW follows, NEW then, Enqueue(k, follows, then)
  PROVE  \E t \in Tasks : Queued(t, k, follows, then)
BY DEF Enqueue, Queued, NextId

\* A thread's own move, with the rows as they are: to a call only if nothing of its
\* is stored, and back with "ok" only if the chain goes on.
LEMMA MoveStep ==
  ASSUME ChainInv, NEW t \in Tasks, NEW place \in Handler \union Outcomes,
         at[t] # "none", at' = [at EXCEPT ![t] = place],
         seen' \in [Tasks -> SUBSET Requirements],
         place \in {"call", "finish"} => t \notin drafts /\ ~ HasRun(t),
         place = "ok" => (more[t] => Followed(t)),
         reading' \in {"pending", "done", "failed"},
         UNCHANGED <<taskVars, required, coverage, drafts, press>>
  PROVE  ChainInv'
<1>1. \A s \in Tasks : at'[s] = IF s = t THEN place ELSE at[s]
  BY DEF ChainInv, ChainTypeOK
<1>2. \A s \in Tasks : (Followed(s)' <=> Followed(s)) /\ (HasRun(s)' <=> HasRun(s))
  BY DEF Followed, HasRun, taskVars
<1>3. ChainTypeOK'
  BY DEF ChainInv, ChainTypeOK, taskVars
<1>4. \A s \in Tasks : TaskOK(s)'
  BY <1>1, <1>2 DEF ChainInv, TaskOK, taskVars, Handler, Outcomes
<1>5. RowsOK' /\ OneOfEachStep' /\ ChainContinues'
  BY <1>2 DEF ChainInv, RowsOK, OneOfEachStep, ChainContinues, taskVars
<1>6. PaidOnce'
  BY <1>1, <1>2 DEF ChainInv, PaidOnce
<1> QED BY <1>3, <1>4, <1>5, <1>6 DEF ChainInv
\* The tasks stay, and each its place in the chain: only rows and places change.
LEMMA FinishStep ==
  ASSUME ChainInv, NEW t \in Tasks, at[t] = "finish",
         FinishRead(t) \/ FinishCheck(t) \/ FinishWrite(t)
  PROVE  ChainInv'
<1>1. UNCHANGED <<taskVars, press>> /\ seen' = seen
  BY DEF FinishRead, FinishCheck, FinishWrite
<1>2. \E place \in {"next", "error", "ok"} :
         /\ at' = [at EXCEPT ![t] = place]
         /\ place = "ok" => kind[t] = "write"
  BY DEF FinishRead, FinishCheck, FinishWrite, Go
<1>3. /\ t \notin drafts /\ ~ HasRun(t) /\ status[t] = "running"
      /\ kind[t] = "write" => ~ more[t]
  BY DEF ChainInv, PaidOnce, TaskOK
<1>4. PICK place \in {"next", "error", "ok"} :
         /\ at' = [at EXCEPT ![t] = place]
         /\ place = "ok" => kind[t] = "write"
  BY <1>2
<1>5. \A s \in Tasks : at'[s] = IF s = t THEN place ELSE at[s]
  BY <1>4 DEF ChainInv, ChainTypeOK
<1>6. \A s \in Tasks : Followed(s)' <=> Followed(s)
  BY <1>1 DEF Followed, taskVars
<1>7. /\ coverage' \subseteq coverage \union ({t} \X Requirements)
      /\ coverage' \subseteq Tasks \X required'
      /\ (coverage' \subseteq coverage \/ kind[t] = "check")
      /\ drafts' \subseteq drafts \union {t}
      /\ (drafts' = drafts \/ kind[t] = "write")
      /\ required' \subseteq Requirements /\ reading' \in {"pending", "done", "failed"}
  <2>1. CASE FinishRead(t)
    BY <2>1 DEF FinishRead, ChainInv, ChainTypeOK
  <2>2. CASE FinishCheck(t)
    BY <2>2 DEF FinishCheck, ChainInv, ChainTypeOK
  <2>3. CASE FinishWrite(t)
    BY <2>3 DEF FinishWrite, ChainInv, ChainTypeOK
  <2> QED BY <2>1, <2>2, <2>3
<1>8. ChainTypeOK'
  BY <1>1, <1>4, <1>7 DEF ChainInv, ChainTypeOK, taskVars, Outcomes, Handler
<1>9. \A s \in Tasks : TaskOK(s)'
  BY <1>1, <1>3, <1>4, <1>5, <1>6 DEF ChainInv, TaskOK, taskVars
<1>10. RowsOK'
  <2>1. \A s \in drafts' : kind[s] = "write" /\ status[s] # "absent"
    BY <1>3, <1>7 DEF ChainInv, RowsOK
  <2>2. ASSUME NEW pair \in coverage' PROVE kind[pair[1]] = "check" /\ status[pair[1]] # "absent"
    BY <1>3, <1>7 DEF ChainInv, RowsOK
  <2> QED BY <1>1, <2>1, <2>2 DEF RowsOK, taskVars
<1>11. OneOfEachStep' /\ ChainContinues'
  BY <1>1, <1>6 DEF ChainInv, OneOfEachStep, ChainContinues, taskVars
<1>12. PaidOnce'
  <2> SUFFICES ASSUME NEW s \in Tasks, at'[s] \in {"call", "finish"}
               PROVE  s \notin drafts' /\ ~ HasRun(s)'
    BY DEF PaidOnce
  <2>1. s # t /\ at[s] \in {"call", "finish"}
    BY <1>5
  <2>2. s \notin drafts /\ ~ HasRun(s)
    BY <2>1 DEF ChainInv, PaidOnce
  <2>3. \A q \in Requirements : <<s, q>> \in coverage' => <<s, q>> \in coverage
    BY <1>7, <2>1
  <2> QED BY <1>7, <2>1, <2>2, <2>3 DEF HasRun
<1> QED BY <1>8, <1>9, <1>10, <1>11, <1>12 DEF ChainInv

Settled == {"pending", "running", "succeeded", "failed"}

\* The row of a task that leaves its thread, or is handed to one.
Settles(t, st, n, place) ==
  /\ status' = [status EXCEPT ![t] = st] /\ tries' = [tries EXCEPT ![t] = n]
  /\ at' = [at EXCEPT ![t] = place] /\ seen' \in [Tasks -> SUBSET Requirements]
  /\ status[t] # "absent"
  /\ st = "pending" => n < MaxAttempts /\ place = "none"
  /\ st = "running" <=> place = "start"
  /\ st = "running" => n > 0
  /\ st = "succeeded" => (more[t] => Followed(t))

\* What the queue does with a task it hands out, or has an outcome of.
LEMMA QueueMove ==
  ASSUME ChainInv, NEW t \in Tasks, Claim(t) \/ Record(t) \/ Lose(t)
  PROVE  ChainInv'
<1>1. UNCHANGED <<kind, after, more, rowVars, press>>
  BY DEF Claim, Record, Lose
<1>2. /\ status \in [Tasks -> Unfinished \union {"absent", "succeeded", "failed"}]
      /\ tries \in [Tasks -> 0..MaxAttempts] /\ MaxAttempts \in Nat \ {0}
      /\ at \in [Tasks -> {"none", "pool"} \union Handler \union Outcomes]
      /\ seen \in [Tasks -> SUBSET Requirements] /\ TaskOK(t)
  BY ChainAssumption DEF ChainInv, ChainTypeOK
<1>3. \E st \in Settled, n \in 0..MaxAttempts, place \in {"none", "start"} :
         Settles(t, st, n, place)
  <2>1. CASE Claim(t)
    <3>1. /\ status' = [status EXCEPT ![t] = "running"]
          /\ tries' = [tries EXCEPT ![t] = tries[t] + 1]
          /\ at' = [at EXCEPT ![t] = "start"] /\ seen' = seen
          /\ status[t] = "pending" /\ tries[t] + 1 \in 0..MaxAttempts /\ tries[t] + 1 > 0
      BY <1>2, <2>1 DEF Claim, TaskOK
    <3>2. Settles(t, "running", tries[t] + 1, "start")
      BY <1>2, <3>1 DEF Settles
    <3> QED BY <3>1, <3>2 DEF Settled
  <2>2. ASSUME NEW outcome \in Outcomes, at[t] # "none", Ends(t, outcome), Leave(t),
               outcome = "ok" => at[t] = "ok"
        PROVE  \E st \in Settled, n \in 0..MaxAttempts, place \in {"none", "start"} :
                Settles(t, st, n, place)
    <3>1. /\ at' = [at EXCEPT ![t] = "none"] /\ seen' \in [Tasks -> SUBSET Requirements]
          /\ status[t] = "running" /\ tries[t] \in 1..MaxAttempts
      BY <1>2, <2>2 DEF Leave, TaskOK
    <3>2. tries = [tries EXCEPT ![t] = tries[t]]
      BY <1>2
    <3>3. CASE outcome = "ok"
      <4>1. Settles(t, "succeeded", tries[t], "none")
        BY <1>2, <2>2, <3>1, <3>2, <3>3 DEF Ends, TaskOK, Settles
      <4> QED BY <1>2, <4>1 DEF Settled
    <3>4. CASE outcome = "permanent" \/ (outcome = "error" /\ LastTry(t))
      <4>1. Settles(t, "failed", tries[t], "none")
        BY <1>2, <2>2, <3>1, <3>2, <3>4 DEF Ends, Settles
      <4> QED BY <1>2, <4>1 DEF Settled
    <3>5. CASE outcome = "error" /\ ~ LastTry(t)
      <4>1. Settles(t, "pending", tries[t], "none")
        BY <1>2, <2>2, <3>1, <3>2, <3>5 DEF Ends, LastTry, Settles
      <4> QED BY <1>2, <4>1 DEF Settled
    <3>6. CASE outcome = "blocked"
      <4>1. /\ status' = [status EXCEPT ![t] = "pending"]
            /\ tries' = [tries EXCEPT ![t] = tries[t] - 1]
            /\ tries[t] - 1 \in 0..MaxAttempts /\ tries[t] - 1 < MaxAttempts
        BY <2>2, <3>1, <3>6, <1>2 DEF Ends
      <4>2. Settles(t, "pending", tries[t] - 1, "none")
        BY <3>1, <4>1 DEF Settles
      <4> QED BY <4>1, <4>2 DEF Settled
    <3> QED BY <3>3, <3>4, <3>5, <3>6 DEF Outcomes
  <2>3. CASE Record(t)
    <3>1. at[t] \in Outcomes /\ at[t] # "none"
      BY <2>3 DEF Record, Outcomes
    <3> QED BY <2>2, <2>3, <3>1 DEF Record
  <2>4. CASE Lose(t)
    BY <2>2, <2>4 DEF Lose, Outcomes
  <2> QED BY <2>1, <2>3, <2>4
<1>4. PICK st \in Settled, n \in 0..MaxAttempts, place \in {"none", "start"} :
         Settles(t, st, n, place)
  BY <1>3
<1>5. \A s \in Tasks : /\ status'[s] = IF s = t THEN st ELSE status[s]
                       /\ tries'[s] = IF s = t THEN n ELSE tries[s]
                       /\ at'[s] = IF s = t THEN place ELSE at[s]
  BY <1>2, <1>4 DEF Settles
<1>6. \A s \in Tasks : Followed(s)' <=> Followed(s)
  BY <1>1, <1>4, <1>5 DEF Followed, Settles, Settled
<1>7. ChainTypeOK'
  BY <1>1, <1>4 DEF ChainInv, ChainTypeOK, rowVars, Unfinished, Handler, Settles, Settled
<1>8. \A s \in Tasks : TaskOK(s)'
  <2> SUFFICES ASSUME NEW s \in Tasks PROVE TaskOK(s)'
    OBVIOUS
  <2>1. TaskOK(s) /\ TaskOK(t)
    BY DEF ChainInv
  <2>2. CASE s = t
    BY <1>1, <1>4, <1>5, <1>6, <2>1, <2>2 DEF TaskOK, Settles, Settled
  <2>3. CASE s # t
    BY <1>1, <1>5, <1>6, <2>1, <2>3 DEF TaskOK
  <2> QED BY <2>2, <2>3
<1>9. RowsOK'
  <2>1. drafts \subseteq Tasks /\ \A pair \in coverage : pair[1] \in Tasks
    BY DEF ChainInv, ChainTypeOK
  <2> QED BY <1>1, <1>4, <1>5, <2>1 DEF ChainInv, RowsOK, rowVars, Settles, Settled
<1>10. OneOfEachStep' /\ ChainContinues'
  BY <1>1, <1>4, <1>5, <1>6 DEF ChainInv, OneOfEachStep, ChainContinues, Settles
<1>11. PaidOnce'
  BY <1>1, <1>4, <1>5 DEF ChainInv, PaidOnce, HasRun, rowVars, Settles
<1> QED BY <1>7, <1>8, <1>9, <1>10, <1>11 DEF ChainInv

LEMMA ChainStep == ChainInv /\ [ChainNext]_chainVars => ChainInv'
<1> SUFFICES ASSUME ChainInv, [ChainNext]_chainVars PROVE ChainInv'
  OBVIOUS
<1>1. ChainTypeOK
  BY DEF ChainInv
<1>2. ASSUME UNCHANGED chainVars PROVE ChainInv'
  <2>1. UNCHANGED <<kind, status, tries, after, more, at, seen, reading, required, coverage, drafts, press>>
    BY <1>2 DEF chainVars, taskVars, rowVars
  <2>2. ChainTypeOK' /\ RowsOK'
    BY <2>1 DEF ChainInv, ChainTypeOK, RowsOK
  <2>3. \A t \in Tasks : TaskOK(t)'
    BY <2>1 DEF ChainInv, TaskOK, Followed
  <2>4. OneOfEachStep' /\ ChainContinues' /\ PaidOnce'
    BY <2>1 DEF ChainInv, OneOfEachStep, ChainContinues, PaidOnce, HasRun, Followed
  <2> QED BY <2>2, <2>3, <2>4 DEF ChainInv
<1>3. CASE ReadAgain
  <2>1. PICK t \in Tasks : Queued(t, "read", NoTask, FALSE)
    BY <1>3, EnqueueQueues DEF ReadAgain
  <2> QED BY <1>1, <1>3, <2>1, QueueStep DEF ReadAgain, Kinds, ChainTypeOK
<1>4. CASE CheckCoverageNow
  <2>1. PICK t \in Tasks : Queued(t, "check", NoTask, FALSE)
    BY <1>4, EnqueueQueues DEF CheckCoverageNow
  <2> QED BY <1>1, <1>4, <2>1, QueueStep DEF CheckCoverageNow, Kinds, rowVars, ChainTypeOK
<1>5. ASSUME NEW p \in Presses, LookAtSteps(p) PROVE ChainInv'
  <2>1. press' \in [Presses -> Kinds \union {"none"}]
    BY <1>1, <1>5 DEF LookAtSteps, FirstMissing, Kinds, ChainTypeOK
  <2>2. UNCHANGED <<taskVars, at, seen, rowVars>>
    BY <1>5 DEF LookAtSteps
  <2>3. ChainTypeOK'
    BY <1>1, <2>1, <2>2 DEF ChainTypeOK, taskVars, rowVars
  <2> QED BY <2>2, <2>3 DEF taskVars, rowVars, ChainInv, TaskOK, RowsOK, OneOfEachStep,
         ChainContinues, PaidOnce, HasRun, Followed
<1>6. ASSUME NEW p \in Presses, QueueChain(p) PROVE ChainInv'
  <2>1. PICK t \in Tasks : Queued(t, press[p], NoTask, press[p] # "write")
    BY <1>6, EnqueueQueues DEF QueueChain
  <2>2. press[p] \in Kinds
    BY <1>1, <1>6 DEF QueueChain, ChainTypeOK
  <2>3. press' \in [Presses -> Kinds \union {"none"}] /\ reading' \in {"pending", "done", "failed"}
    BY <1>1, <1>6 DEF QueueChain, ChainTypeOK
  <2> QED BY <1>6, <2>1, <2>2, <2>3, QueueStep DEF QueueChain
<1>7. ASSUME NEW t \in Tasks, StartRead(t) \/ StartCheck(t) \/ StartWrite(t) PROVE ChainInv'
  <2>1. /\ t \in drafts => kind[t] = "write"
        /\ HasRun(t) => kind[t] = "check"
        /\ kind[t] = "write" => ~ more[t]
    BY DEF ChainInv, RowsOK, TaskOK, HasRun
  <2>2. \E place \in {"call", "next", "ok"} :
           /\ Go(t, "start", place)
           /\ place = "call" => t \notin drafts /\ ~ HasRun(t)
           /\ place = "ok" => kind[t] = "write"
    BY <1>7, <2>1 DEF StartRead, StartCheck, StartWrite, AlreadyChecked
  <2>3. PICK place \in {"call", "next", "ok"} :
           /\ Go(t, "start", place)
           /\ place = "call" => t \notin drafts /\ ~ HasRun(t)
           /\ place = "ok" => kind[t] = "write"
    BY <2>2
  <2>4. UNCHANGED <<taskVars, seen, rowVars, press>>
    BY <1>7 DEF StartRead, StartCheck, StartWrite
  <2> QED BY <1>1, <2>1, <2>3, <2>4, MoveStep
         DEF Go, Handler, Outcomes, rowVars, ChainTypeOK
<1>8. ASSUME NEW t \in Tasks, Call(t) PROVE ChainInv'
  <2>1. PICK place \in {"finish", "refuse", "exhaust", "error", "blocked"} : Go(t, "call", place)
    BY <1>8 DEF Call
  <2>2. seen' \in [Tasks -> SUBSET Requirements]
    BY <1>1, <1>8 DEF Call, ChainTypeOK
  <2>3. t \notin drafts /\ ~ HasRun(t)
    BY <2>1 DEF Go, ChainInv, PaidOnce
  <2>4. UNCHANGED <<taskVars, rowVars, press>>
    BY <1>8 DEF Call
  <2> QED BY <1>1, <2>1, <2>2, <2>3, <2>4, MoveStep
         DEF Go, Handler, Outcomes, rowVars, ChainTypeOK
<1>9. ASSUME NEW t \in Tasks, FinishRead(t) \/ FinishCheck(t) \/ FinishWrite(t) PROVE ChainInv'
  <2>1. at[t] = "finish"
    BY <1>9 DEF FinishRead, FinishCheck, FinishWrite, Go
  <2> QED BY <1>9, <2>1, FinishStep
<1>10. ASSUME NEW t \in Tasks, QueueNext(t) PROVE ChainInv'
  <2>1. at[t] = "next" /\ at' = [at EXCEPT ![t] = "ok"] /\ UNCHANGED <<seen, rowVars, press>>
    BY <1>10 DEF QueueNext, Go
  <2>2. CASE more[t] /\ ~ Followed(t)
    <3> DEFINE k == NextKind(kind[t])
    <3>1. PICK s \in Tasks : Queued(s, k, t, k # "write")
      BY <1>10, <2>2, EnqueueQueues DEF QueueNext
    <3>2. k \in Kinds
      BY DEF NextKind, Kinds
    <3> HIDE DEF k
    <3> QED BY <1>1, <2>1, <2>2, <3>1, <3>2, QueueStep, ChainAssumption DEF rowVars, ChainTypeOK
  <2>3. CASE ~ (more[t] /\ ~ Followed(t))
    <3>1. UNCHANGED taskVars
      BY <1>10, <2>3 DEF QueueNext
    <3> QED BY <1>1, <2>1, <2>3, <3>1, MoveStep DEF Outcomes, rowVars, ChainTypeOK
  <2> QED BY <2>2, <2>3
<1>11. ASSUME NEW t \in Tasks, Refuse(t) PROVE ChainInv'
  <2>1. PICK place \in {"permanent", "error"} :
           at[t] # "none" /\ at' = [at EXCEPT ![t] = place]
    BY <1>11 DEF Refuse, Go
  <2>2. reading' \in {"pending", "done", "failed"} /\ seen' = seen
    BY <1>1, <1>11 DEF Refuse, ChainTypeOK
  <2>3. UNCHANGED <<taskVars, required, coverage, drafts, press>>
    BY <1>11 DEF Refuse
  <2> QED BY <1>1, <2>1, <2>2, <2>3, MoveStep DEF Outcomes, ChainTypeOK
<1>12. ASSUME NEW t \in Tasks, Claim(t) \/ Record(t) \/ Lose(t) PROVE ChainInv'
  BY <1>12, QueueMove
<1> QED BY <1>2, <1>3, <1>4, <1>5, <1>6, <1>7, <1>8, <1>9, <1>10, <1>11, <1>12
       DEF ChainNext
----------------------------------------------------------------------------
(* The CV. Every stored line's verdict is on its own words, so whatever a  *)
(* request or a check makes of a stored document is again such a document; *)
(* a request and a check name a version that is there, a check lines that  *)
(* it has, and a thread past its first step has stored nothing.            *)

RequestRows == [what: {"none", "change", "check"}, base: Nat]

CheckRows == [status: {"absent", "pending", "running", "succeeded", "failed"},
              tries: 0..CheckTries,
              at: {"none", "start", "call", "latest", "save", "ok", "error", "permanent"},
              version: Nat, paths: SUBSET (1..MaxLines), base: Nat,
              found: SUBSET ((1..MaxLines) \X Wordings)]

DocumentOK(d) == /\ d \in Documents
                 /\ \A i \in DOMAIN d : d[i].judged \in {None, d[i].text}

VersionsOK(vs) ==
  /\ vs \in Seq(VersionRows) /\ Len(vs) <= MaxVersions
  /\ \A v \in 1..Len(vs) : vs[v].base < v /\ DocumentOK(vs[v].document)
  /\ \A u, v \in 1..Len(vs) : vs[u].trace = vs[v].trace /\ vs[u].trace # None => u = v

RequestOK(q, vs) == /\ q \in RequestRows
                    /\ q.base <= Len(vs)
                    /\ q.what # "none" => q.base > 0

CheckOK(t, c, vs) ==
  /\ c \in CheckRows /\ c.version <= Len(vs) /\ c.base <= Len(vs)
  /\ c.at # "none" => c.status = "running"
  /\ c.status = "pending" => c.tries < CheckTries
  /\ c.status # "absent" => /\ c.version > 0
                            /\ c.paths \subseteq DOMAIN vs[c.version].document
  /\ c.at = "save" => c.base > 0
  /\ c.at \in {"call", "latest", "save"} => \A v \in 1..Len(vs) : vs[v].trace # t

CvInv ==
  /\ VersionsOK(versions)
  /\ request \in [Requests -> RequestRows]
  /\ \A r \in Requests : RequestOK(request[r], versions)
  /\ check \in [CheckTasks -> CheckRows]
  /\ \A t \in CheckTasks : CheckOK(t, check[t], versions)

LEMMA CvStart == CvInit => CvInv
BY CvAssumption DEF CvInit, CvInv, VersionsOK, RequestOK, CheckOK, RequestRows, CheckRows,
     Idle, NoCheck

\* Documents: a sequence of at most MaxLines lines.
LEMMA DocumentLines ==
  ASSUME NEW d \in Documents
  PROVE  \E n \in 0..MaxLines : d \in [1..n -> Line] /\ DOMAIN d = 1..n
BY DEF Documents

LEMMA IsDocument ==
  ASSUME NEW n \in 0..MaxLines, NEW d \in [1..n -> Line],
         \A i \in 1..n : d[i].judged \in {None, d[i].text}
  PROVE  DocumentOK(d)
BY DEF Documents, DocumentOK

\* A stored version is a document whose verdicts are on its own words.
LEMMA StoredVersion ==
  ASSUME CvInv, NEW v \in 1..Len(versions)
  PROVE  /\ versions[v] \in VersionRows
         /\ DocumentOK(versions[v].document) /\ versions[v].base < v
BY DEF CvInv, VersionsOK

\* A generation's verdicts are on what it wrote.
LEMMA GeneratedOK ==
  ASSUME NEW n \in 0..MaxLines, NEW words \in [1..n -> Wordings]
  PROVE  DocumentOK(Generated(words))
<1>1. Generated(words) \in [1..n -> Line]
  BY DEF Generated, Line
<1>2. \A i \in 1..n : Generated(words)[i].judged = Generated(words)[i].text
  BY DEF Generated
<1> QED BY <1>1, <1>2, IsDocument

\* Verdicts land on the words they are about, whatever was found.
LEMMA WithVerdictsOK ==
  ASSUME NEW d, DocumentOK(d), NEW found
  PROVE  DocumentOK(WithVerdicts(d, found))
<1> DEFINE e == WithVerdicts(d, found)
<1>1. PICK n \in 0..MaxLines : d \in [1..n -> Line] /\ DOMAIN d = 1..n
  BY DocumentLines DEF DocumentOK
<1>2. e = [i \in 1..n |-> IF <<i, d[i].text>> \in found
                          THEN [d[i] EXCEPT !.judged = d[i].text] ELSE d[i]]
  BY <1>1 DEF WithVerdicts
<1> HIDE DEF e
<1>3. ASSUME NEW i \in 1..n
      PROVE  e[i] \in Line /\ e[i].judged \in {None, e[i].text}
  <2>1. d[i] \in Line /\ d[i].judged \in {None, d[i].text}
    BY <1>1 DEF DocumentOK
  <2>2. e[i] = IF <<i, d[i].text>> \in found THEN [d[i] EXCEPT !.judged = d[i].text] ELSE d[i]
    BY <1>2
  <2> QED BY <2>1, <2>2 DEF Line
<1>4. e \in [1..n -> Line]
  BY <1>2, <1>3
<1> QED BY <1>3, <1>4, IsDocument DEF e
\* Of the lines that are kept there is one at each place.
LEMMA NthKept ==
  ASSUME NEW n \in Nat, NEW kept \in SUBSET (1..n), NEW j \in 1..Cardinality(kept)
  PROVE  \E i \in kept : Cardinality({k \in kept : k <= i}) = j
<1> DEFINE upTo(i) == {k \in kept : k <= i}
           f == [i \in kept |-> Cardinality(upTo(i))]
           m == Cardinality(kept)
<1>1. IsFiniteSet(kept) /\ m \in Nat /\ \A i \in kept : i \in Nat
  <2>1. IsFiniteSet(1..n)
    BY FS_Interval
  <2>2. IsFiniteSet(kept)
    BY <2>1, FS_Subset
  <2> QED BY <2>2, FS_CardinalityType
<1>2. ASSUME NEW i \in kept
      PROVE  /\ IsFiniteSet(upTo(i)) /\ i \in upTo(i) /\ upTo(i) \subseteq kept
             /\ Cardinality(upTo(i)) \in 1..m
  <2>1. upTo(i) \in SUBSET kept /\ i \in upTo(i)
    OBVIOUS
  <2>2. IsFiniteSet(upTo(i)) /\ Cardinality(upTo(i)) <= m /\ Cardinality(upTo(i)) \in Nat
    BY <1>1, <2>1, FS_Subset, FS_CardinalityType
  <2>3. Cardinality(upTo(i)) # 0
    BY <2>1, <2>2, FS_EmptySet
  <2> QED BY <1>1, <2>1, <2>2, <2>3
<1>3. ASSUME NEW i \in kept, NEW k \in kept, i < k
      PROVE  Cardinality(upTo(i)) # Cardinality(upTo(k))
  <2>0. i \in Nat /\ k \in Nat /\ \A x \in kept : x \in Nat
    BY <1>1
  <2>1. /\ \A x \in upTo(i) : x \in upTo(k)
        /\ k \in upTo(k) /\ k \notin upTo(i)
    BY <1>3, <2>0
  <2>2. upTo(i) # upTo(k) /\ upTo(i) \in SUBSET upTo(k)
    BY <2>1
  <2> QED BY <1>2, <2>2, FS_Subset
<1>4. f \in [kept -> 1..m]
  BY <1>2
<1>5. \A i, k \in kept : f[i] = f[k] => i = k
  <2> SUFFICES ASSUME NEW i \in kept, NEW k \in kept, i # k
               PROVE  f[i] # f[k]
    OBVIOUS
  <2>1. i < k \/ k < i
    OBVIOUS
  <2>2. f[i] = Cardinality(upTo(i)) /\ f[k] = Cardinality(upTo(k))
    OBVIOUS
  <2> HIDE DEF f
  <2> QED BY <1>3, <2>1, <2>2
<1>6. IsFiniteSet(1..m) /\ Cardinality(1..m) = m
  BY <1>1, FS_Interval
<1>7. f \in Injection(kept, 1..m)
  BY <1>4, <1>5 DEF Injection, IsInjective
<1>8. f \in Surjection(kept, 1..m)
  <2> HIDE DEF f
  <2> QED BY <1>6, <1>7, FS_Injection
<1>9. PICK i \in kept : f[i] = j
  BY <1>8 DEF Surjection
<1> QED BY <1>9

\* An edit keeps a verdict only with its words, and emptied lines only go.
LEMMA ApplyEditsOK ==
  ASSUME NEW d, DocumentOK(d), NEW submitted \in [DOMAIN d -> Wordings \union {None}]
  PROVE  DocumentOK(ApplyEdits(d, submitted))
<1> DEFINE kept == {i \in DOMAIN d : submitted[i] # None}
           nth(j) == CHOOSE i \in kept : Cardinality({k \in kept : k <= i}) = j
           e == ApplyEdits(d, submitted)
           m == Cardinality(kept)
<1>1. PICK n \in 0..MaxLines : d \in [1..n -> Line] /\ DOMAIN d = 1..n
  BY DocumentLines DEF DocumentOK
<1>2. kept \in SUBSET (1..n) /\ n \in Nat
  BY <1>1
<1>3. m \in 0..MaxLines
  <2>1. IsFiniteSet(1..n) /\ Cardinality(1..n) = n
    BY <1>2, FS_Interval
  <2>2. IsFiniteSet(kept) /\ m <= n /\ m \in Nat
    BY <1>2, <2>1, FS_Subset, FS_CardinalityType
  <2> QED BY <1>2, <2>2, CvAssumption
<1>4. \A j \in 1..m : nth(j) \in kept
  BY <1>2, NthKept
<1>5. e = [j \in 1..m |-> Edited(d[nth(j)], submitted[nth(j)])]
  BY DEF ApplyEdits
<1>6. ASSUME NEW i \in kept
      PROVE  LET l == Edited(d[i], submitted[i]) IN l \in Line /\ l.judged \in {None, l.text}
  <2>1. i \in 1..n /\ submitted[i] \in Wordings
    BY <1>1
  <2>2. d[i] \in Line /\ d[i].judged \in {None, d[i].text}
    BY <1>1, <2>1 DEF DocumentOK
  <2> QED BY <2>1, <2>2 DEF Edited, Line
<1> HIDE DEF e, nth, kept
<1>7. \A j \in 1..m : e[j] \in Line /\ e[j].judged \in {None, e[j].text}
  BY <1>4, <1>5, <1>6
<1>8. e \in [1..m -> Line]
  BY <1>5, <1>7
<1>9. DocumentOK(e)
  BY <1>3, <1>7, <1>8, IsDocument
<1> QED BY <1>9 DEF e

----------------------------------------------------------------------------
\* A version is only ever added, so what named one still does.
LEMMA AddedVersion ==
  ASSUME CvInv, NEW d, DocumentOK(d), NEW trace \in CheckTasks \union {None},
         NEW base \in 0..Len(versions), AddVersion(d, trace, base)
  PROVE  /\ Len(versions') = Len(versions) + 1 /\ Len(versions) \in Nat
         /\ \A v \in 1..Len(versions) : versions'[v] = versions[v]
         /\ versions'[Len(versions) + 1].trace = trace
         /\ versions' \in Seq(VersionRows) /\ Len(versions') <= MaxVersions
         /\ \A v \in 1..Len(versions') : versions'[v].base < v /\ DocumentOK(versions'[v].document)
<1> DEFINE n == Len(versions)
           new == [document |-> d, trace |-> trace, base |-> base]
<1>1. versions \in Seq(VersionRows) /\ n \in Nat /\ n < MaxVersions /\ MaxVersions \in Nat
  BY CvAssumption DEF CvInv, VersionsOK, AddVersion, Latest
<1>2. new \in VersionRows
  BY <1>1 DEF VersionRows, DocumentOK
<1>3. versions' = Append(versions, new)
  BY DEF AddVersion
<1> HIDE DEF new
<1>4. /\ versions' \in Seq(VersionRows) /\ Len(versions') = n + 1
      /\ \A v \in 1..n : versions'[v] = versions[v]
      /\ versions'[n + 1] = new
  BY <1>1, <1>2, <1>3
<1>5. new.trace = trace /\ new.base = base /\ new.document = d
  BY DEF new
<1>6. \A v \in 1..(n + 1) : v \in 1..n \/ v = n + 1
  BY <1>1
<1>7. \A v \in 1..(n + 1) : versions'[v].base < v /\ DocumentOK(versions'[v].document)
  <2> SUFFICES ASSUME NEW v \in 1..(n + 1)
               PROVE  versions'[v].base < v /\ DocumentOK(versions'[v].document)
    OBVIOUS
  <2>1. CASE v \in 1..n
    BY <1>4, <2>1, StoredVersion
  <2>2. CASE v = n + 1
    BY <1>1, <1>4, <1>5, <2>2
  <2> QED BY <1>6, <2>1, <2>2
<1> QED BY <1>1, <1>4, <1>5, <1>7

\* A step adds a version or none; what it changes of requests and checks is as it
\* should be on the versions there are then, and what it leaves stays so.
Grows(trace) ==
  \E d, base : DocumentOK(d) /\ base \in 0..Len(versions) /\ AddVersion(d, trace, base)

LEMMA CvKeeps ==
  ASSUME CvInv,
         request' \in [Requests -> RequestRows],
         \A r \in Requests : request'[r] = request[r] \/ RequestOK(request'[r], versions'),
         check' \in [CheckTasks -> CheckRows],
         \A t \in CheckTasks : check'[t] = check[t] \/ CheckOK(t, check'[t], versions'),
         \/ UNCHANGED versions
         \/ Grows(None)
         \/ \E t \in CheckTasks : /\ Grows(t) /\ CheckOK(t, check'[t], versions')
                                  /\ \A v \in 1..Len(versions) : versions[v].trace # t
  PROVE  CvInv'
<1>1. CASE UNCHANGED versions
  BY <1>1 DEF CvInv
<1>2. ASSUME NEW trace \in CheckTasks \union {None}, Grows(trace),
             trace # None => /\ CheckOK(trace, check'[trace], versions')
                             /\ \A v \in 1..Len(versions) : versions[v].trace # trace
      PROVE  CvInv'
  <2> DEFINE n == Len(versions)
  <2>1. PICK d, base : DocumentOK(d) /\ base \in 0..n /\ AddVersion(d, trace, base)
    BY <1>2 DEF Grows
  <2>2. /\ Len(versions') = n + 1 /\ n \in Nat
        /\ \A v \in 1..n : versions'[v] = versions[v]
        /\ versions'[n + 1].trace = trace
        /\ versions' \in Seq(VersionRows) /\ Len(versions') <= MaxVersions
        /\ \A v \in 1..Len(versions') : versions'[v].base < v /\ DocumentOK(versions'[v].document)
    BY <2>1, AddedVersion
  <2>3. \A v \in 1..(n + 1) : v \in 1..n \/ v = n + 1
    BY <2>2
  <2>4. ASSUME NEW u \in 1..(n + 1), NEW v \in 1..(n + 1),
               versions'[u].trace = versions'[v].trace, versions'[u].trace # None
        PROVE  u = v
    <3>1. CASE u \in 1..n /\ v \in 1..n
      BY <2>2, <2>4, <3>1 DEF CvInv, VersionsOK
    <3>2. CASE u = n + 1 /\ v \in 1..n
      BY <1>2, <2>2, <2>4, <3>2
    <3>3. CASE u \in 1..n /\ v = n + 1
      BY <1>2, <2>2, <2>4, <3>3
    <3> QED BY <2>3, <3>1, <3>2, <3>3
  <2>5. VersionsOK(versions')
    BY <2>2, <2>4 DEF VersionsOK
  <2>6. ASSUME NEW r \in Requests PROVE RequestOK(request'[r], versions')
    <3>1. CASE request'[r] = request[r]
      BY <2>2, <3>1 DEF CvInv, RequestOK, RequestRows
    <3> QED BY <3>1
  <2>7. ASSUME NEW t \in CheckTasks PROVE CheckOK(t, check'[t], versions')
    <3>1. CASE check'[t] = check[t] /\ t # trace
      <4> DEFINE c == check[t]
      <4>1. CheckOK(t, c, versions)
        BY DEF CvInv
      <4>2. c \in CheckRows /\ c.version \in Nat /\ c.base \in Nat
        BY <4>1 DEF CheckOK, CheckRows
      <4> HIDE DEF c
      <4>3. c.version <= n + 1 /\ c.base <= n + 1
        BY <2>2, <4>1, <4>2 DEF CheckOK
      <4>4. c.status # "absent" => /\ c.version > 0
                                   /\ c.paths \subseteq DOMAIN versions'[c.version].document
        <5>1. c.status # "absent" => c.version \in 1..n
          BY <2>2, <4>1, <4>2 DEF CheckOK
        <5> QED BY <2>2, <4>1, <5>1 DEF CheckOK
      <4>5. c.at \in {"call", "latest", "save"} => \A v \in 1..(n + 1) : versions'[v].trace # t
        BY <2>2, <2>3, <3>1, <4>1 DEF CheckOK
      <4>6. CheckOK(t, c, versions')
        BY <2>2, <4>1, <4>2, <4>3, <4>4, <4>5 DEF CheckOK
      <4> QED BY <3>1, <4>6 DEF c
    <3>2. CASE t = trace
      BY <1>2, <3>2, CvAssumption
    <3> QED BY <3>1, <3>2
  <2> QED BY <2>5, <2>6, <2>7 DEF CvInv
<1> QED BY <1>1, <1>2

\* The check of one task, and a request, as they are.
LEMMA OneCheckOK ==
  ASSUME CvInv, NEW t \in CheckTasks
  PROVE  check[t] \in CheckRows /\ CheckOK(t, check[t], versions) /\ Len(versions) \in Nat
BY DEF CvInv, VersionsOK

\* A check moves while the versions and the requests stay.
LEMMA CheckMoves ==
  ASSUME CvInv, NEW t \in CheckTasks, NEW c \in CheckRows, CheckOK(t, c, versions),
         check' = [check EXCEPT ![t] = c], UNCHANGED <<versions, request>>
  PROVE  CvInv'
<1>1. check' \in [CheckTasks -> CheckRows]
  BY DEF CvInv
<1>2. \A s \in CheckTasks : check'[s] = check[s] \/ CheckOK(s, check'[s], versions')
  BY DEF CvInv
<1> QED BY <1>1, <1>2, CvKeeps DEF CvInv

\* A request moves, and a version may be added.
LEMMA RequestMoves ==
  ASSUME CvInv, NEW r \in Requests, NEW q \in RequestRows, RequestOK(q, versions'),
         request' = [request EXCEPT ![r] = q], UNCHANGED check,
         UNCHANGED versions \/ Grows(None)
  PROVE  CvInv'
<1>1. request' \in [Requests -> RequestRows]
  BY DEF CvInv
<1>2. \A s \in Requests : request'[s] = request[s] \/ RequestOK(request'[s], versions')
  BY DEF CvInv
<1> QED BY <1>1, <1>2, CvKeeps DEF CvInv
\* A version added to what is stored is one of the application's.
LEMMA GenerateStep ==
  ASSUME CvInv, Generate
  PROVE  CvInv'
<1>1. PICK words \in UNION {[1..n -> Wordings] : n \in 0..MaxLines} :
        AddVersion(Generated(words), None, Latest)
  BY DEF Generate
<1>2. PICK n \in 0..MaxLines : words \in [1..n -> Wordings]
  OBVIOUS
<1>3. Latest \in 0..Len(versions)
  BY DEF Latest, CvInv, VersionsOK
<1>4. DocumentOK(Generated(words))
  BY <1>2, GeneratedOK
<1>5. Grows(None)
  BY <1>1, <1>3, <1>4 DEF Grows
<1> QED BY <1>5, CvKeeps DEF CvInv, Generate

LEMMA RequestStep ==
  ASSUME CvInv, NEW r \in Requests, Open(r) \/ Save(r) \/ AskForCheck(r)
  PROVE  CvInv'
<1>1. /\ request[r] \in RequestRows /\ RequestOK(request[r], versions)
      /\ Len(versions) \in Nat
  BY DEF CvInv, VersionsOK
<1>2. CASE Open(r) \/ AskForCheck(r)
  <2>1. PICK what \in {"change", "check"} :
          request' = [request EXCEPT ![r] = [what |-> what, base |-> Latest]]
    BY <1>2 DEF Open, AskForCheck
  <2>2. Latest > 0 /\ UNCHANGED <<versions, check>>
    BY <1>2 DEF Open, AskForCheck
  <2>3. [what |-> what, base |-> Latest] \in RequestRows
    BY <1>1 DEF RequestRows, Latest
  <2>4. RequestOK([what |-> what, base |-> Latest], versions')
    BY <1>1, <2>2, <2>3 DEF RequestOK, Latest
  <2> QED BY <2>1, <2>2, <2>3, <2>4, RequestMoves
<1>3. CASE Save(r)
  <2> DEFINE base == request[r].base
             document == versions[base].document
  <2>1. base \in 1..Len(versions) /\ base \in 0..Len(versions)
    BY <1>1, <1>3 DEF Save, RequestOK, RequestRows
  <2>2. DocumentOK(document)
    BY <2>1, StoredVersion
  <2>3. request' = [request EXCEPT ![r] = Idle] /\ UNCHANGED check
    BY <1>3 DEF Save
  <2>4. \/ \E submitted \in [DOMAIN document -> Wordings \union {None}] :
             AddVersion(ApplyEdits(document, submitted), None, base)
        \/ AddVersion(document, None, base)
        \/ UNCHANGED versions
    BY <1>3 DEF Save
  <2> HIDE DEF document, base
  <2>5. UNCHANGED versions \/ Grows(None)
    <3>1. ASSUME NEW submitted \in [DOMAIN document -> Wordings \union {None}],
                 AddVersion(ApplyEdits(document, submitted), None, base)
          PROVE  Grows(None)
      <4>1. DocumentOK(ApplyEdits(document, submitted))
        BY <2>2, ApplyEditsOK
      <4> QED BY <2>1, <3>1, <4>1 DEF Grows
    <3>2. ASSUME AddVersion(document, None, base) PROVE Grows(None)
      BY <2>1, <2>2, <3>2 DEF Grows
    <3> QED BY <2>4, <3>1, <3>2
  <2>6. Idle \in RequestRows /\ Len(versions') \in Nat
    <3>1. CASE UNCHANGED versions
      BY <1>1, <3>1 DEF Idle, RequestRows
    <3>2. CASE Grows(None)
      <4>1. PICK d, b : DocumentOK(d) /\ b \in 0..Len(versions) /\ AddVersion(d, None, b)
        BY <3>2 DEF Grows
      <4>2. Len(versions') = Len(versions) + 1
        BY <4>1, AddedVersion
      <4> QED BY <1>1, <4>2 DEF Idle, RequestRows
    <3> QED BY <2>5, <3>1, <3>2
  <2>7. RequestOK(Idle, versions')
    BY <2>6 DEF RequestOK, Idle
  <2> QED BY <2>3, <2>5, <2>6, <2>7, RequestMoves
<1> QED BY <1>2, <1>3

\* The lines a check is asked for are lines of the version the page was made from.
LEMMA QueueCheckStep ==
  ASSUME CvInv, NEW r \in Requests, QueueCheck(r)
  PROVE  CvInv'
<1> DEFINE base == request[r].base
           paths == UncheckedEdits(versions[base].document)
           c == [NoCheck EXCEPT !.status = "pending", !.version = base, !.paths = paths]
<1>1. /\ request[r] \in RequestRows /\ RequestOK(request[r], versions)
      /\ Len(versions) \in Nat
  BY DEF CvInv, VersionsOK
<1>2. base \in 1..Len(versions)
  BY <1>1 DEF QueueCheck, RequestOK, RequestRows
<1>3. PICK t \in CheckTasks : check[t].status = "absent" /\ check' = [check EXCEPT ![t] = c]
  BY DEF QueueCheck
<1>4. versions' = versions /\ request' = [request EXCEPT ![r] = Idle]
  BY DEF QueueCheck
<1>5. DocumentOK(versions[base].document)
  BY <1>2, StoredVersion
<1>6. PICK n \in 0..MaxLines : DOMAIN versions[base].document = 1..n
  BY <1>5, DocumentLines DEF DocumentOK
<1>7. paths \subseteq DOMAIN versions[base].document /\ paths \subseteq 1..MaxLines
  BY <1>6, CvAssumption DEF UncheckedEdits
<1> HIDE DEF paths
<1>8. NoCheck \in CheckRows /\ base \in Nat
  BY <1>2, CvAssumption DEF NoCheck, CheckRows
<1>9. c \in CheckRows
  BY <1>7, <1>8 DEF CheckRows
<1>10. /\ c.status = "pending" /\ c.tries = 0 /\ c.at = "none" /\ c.version = base
       /\ c.paths = paths /\ c.base = 0
  BY <1>8 DEF NoCheck, CheckRows
<1> HIDE DEF c
<1>11. CheckOK(t, c, versions)
  BY <1>1, <1>2, <1>7, <1>9, <1>10, CvAssumption DEF CheckOK
<1>12. /\ Idle \in RequestRows /\ RequestOK(Idle, versions')
  BY <1>1, <1>4 DEF Idle, RequestRows, RequestOK
<1>13. /\ request' \in [Requests -> RequestRows]
       /\ \A s \in Requests : request'[s] = request[s] \/ RequestOK(request'[s], versions')
  BY <1>4, <1>12 DEF CvInv
<1>14. /\ check' \in [CheckTasks -> CheckRows]
       /\ \A s \in CheckTasks : check'[s] = check[s] \/ CheckOK(s, check'[s], versions')
  BY <1>3, <1>4, <1>9, <1>11 DEF CvInv
<1> QED BY <1>4, <1>13, <1>14, CvKeeps
\* A check's own steps.
LEMMA CheckStep ==
  ASSUME CvInv, NEW t \in CheckTasks,
         Deliver(t) \/ BeginCheck(t) \/ RecordCheck(t) \/ LoseCheck(t)
  PROVE  CvInv'
<1> DEFINE c == check[t]
<1>1. c \in CheckRows /\ CheckOK(t, c, versions) /\ Len(versions) \in Nat /\ CvInv
  BY OneCheckOK
<1>2. UNCHANGED <<versions, request>>
  BY DEF Deliver, BeginCheck, RecordCheck, LoseCheck
<1> HIDE DEF c
<1>3. CASE Deliver(t)
  <2> DEFINE d == [c EXCEPT !.status = "running", !.tries = c.tries + 1, !.at = "start"]
  <2>1. check' = [check EXCEPT ![t] = d] /\ c.status = "pending"
    BY <1>3 DEF Deliver, c
  <2>2. c.tries + 1 \in 0..CheckTries
    BY <1>1, <2>1, CvAssumption DEF CheckOK, CheckRows
  <2>3. d \in CheckRows
    BY <1>1, <2>2 DEF CheckRows
  <2>4. CheckOK(t, d, versions)
    BY <1>1, <2>1, <2>3 DEF CheckOK, CheckRows
  <2> QED BY <1>2, <2>1, <2>3, <2>4, CheckMoves
<1>4. CASE BeginCheck(t)
  <2> DEFINE place == IF Stored(t) THEN "ok" ELSE "call"
             d == [c EXCEPT !.at = place]
  <2>1. check' = [check EXCEPT ![t] = d] /\ c.at = "start"
    BY <1>4 DEF BeginCheck, Move, c
  <2>2. d \in CheckRows
    BY <1>1 DEF CheckRows
  <2>3. /\ d.status = c.status /\ d.tries = c.tries /\ d.version = c.version
        /\ d.base = c.base /\ d.paths = c.paths /\ d.at = place
    BY <1>1 DEF CheckRows
  <2>4. place = "call" => \A v \in 1..Len(versions) : versions[v].trace # t
    <3>1. DOMAIN versions = 1..Len(versions)
      BY <1>1 DEF CvInv, VersionsOK
    <3> QED BY <3>1 DEF Stored
  <2> HIDE DEF d
  <2>5. CheckOK(t, d, versions)
    BY <1>1, <2>1, <2>2, <2>3, <2>4 DEF CheckOK
  <2> QED BY <1>2, <2>1, <2>2, <2>5, CheckMoves
<1>5. ASSUME NEW st \in {"pending", "succeeded", "failed"}, Forget(t, st), c.at # "none",
             st = "pending" => c.tries < CheckTries
      PROVE  CvInv'
  <2> DEFINE d == [c EXCEPT !.status = st, !.at = "none", !.found = {}, !.base = 0]
  <2>1. check' = [check EXCEPT ![t] = d]
    BY <1>5 DEF Forget, c
  <2>2. d \in CheckRows
    BY <1>1 DEF CheckRows
  <2>3. CheckOK(t, d, versions)
    BY <1>1, <1>5, <2>2 DEF CheckOK, CheckRows
  <2> QED BY <1>2, <2>1, <2>2, <2>3, CheckMoves
<1>6. /\ AfterError(t) \in {"pending", "failed"}
      /\ AfterError(t) = "pending" => c.tries < CheckTries
  BY <1>1, CvAssumption DEF AfterError, CheckRows, c
<1>7. CASE RecordCheck(t)
  <2>1. c.at \in {"ok", "error", "permanent"}
    BY <1>7 DEF RecordCheck, c
  <2>2. CASE c.at = "ok"
    BY <1>5, <1>7, <2>2 DEF RecordCheck, c
  <2>3. CASE c.at = "permanent"
    BY <1>5, <1>7, <2>3 DEF RecordCheck, c
  <2>4. CASE c.at = "error"
    BY <1>5, <1>6, <1>7, <2>4 DEF RecordCheck, c
  <2> QED BY <2>1, <2>2, <2>3, <2>4
<1>8. CASE LoseCheck(t)
  BY <1>5, <1>6, <1>8 DEF LoseCheck, c
<1> QED BY <1>3, <1>4, <1>7, <1>8

LEMMA GateStep ==
  ASSUME CvInv, NEW t \in CheckTasks, CallGate(t) \/ ReadLatest(t)
  PROVE  CvInv'
<1> DEFINE c == check[t]
<1>1. c \in CheckRows /\ CheckOK(t, c, versions) /\ Len(versions) \in Nat /\ CvInv
  BY OneCheckOK
<1>2. UNCHANGED <<versions, request>> /\ c.at \in {"call", "latest"}
  BY DEF CallGate, ReadLatest
<1> HIDE DEF c
<1>3. ASSUME NEW place \in {"ok", "error", "permanent"}, Move(t, place)
      PROVE  CvInv'
  <2> DEFINE d == [c EXCEPT !.at = place]
  <2>1. check' = [check EXCEPT ![t] = d]
    BY <1>3 DEF Move, c
  <2>2. d \in CheckRows
    BY <1>1 DEF CheckRows
  <2>3. CheckOK(t, d, versions)
    BY <1>1, <1>2, <2>2 DEF CheckOK, CheckRows
  <2> QED BY <1>2, <2>1, <2>2, <2>3, CheckMoves
<1>4. CASE CallGate(t)
  <2> DEFINE document == versions[c.version].document
             put == {<<i, document[i].text>> : i \in c.paths}
  <2>1. c.version \in 1..Len(versions) /\ c.paths \subseteq DOMAIN document
    BY <1>1, <1>2 DEF CheckOK, CheckRows
  <2>2. document \in Documents
    BY <1>1, <2>1, StoredVersion DEF DocumentOK
  <2>3. PICK n \in 0..MaxLines : document \in [1..n -> Line] /\ DOMAIN document = 1..n
    BY <2>2, DocumentLines
  <2> HIDE DEF document
  <2>4. put \subseteq (1..MaxLines) \X Wordings
    <3> SUFFICES ASSUME NEW i \in c.paths
                 PROVE  <<i, document[i].text>> \in (1..MaxLines) \X Wordings
      OBVIOUS
    <3>1. i \in 1..n /\ i \in 1..MaxLines
      BY <1>1, <2>1, <2>3 DEF CheckRows
    <3>2. document[i] \in Line
      BY <2>3, <3>1
    <3> QED BY <3>1, <3>2 DEF Line
  <2> HIDE DEF put
  <2>5. ASSUME NEW found \in SUBSET put,
               check' = [check EXCEPT ![t] = [c EXCEPT !.at = "latest", !.found = found]]
        PROVE  CvInv'
    <3> DEFINE d == [c EXCEPT !.at = "latest", !.found = found]
    <3>1. d \in CheckRows
      BY <1>1, <2>4 DEF CheckRows
    <3>2. CheckOK(t, d, versions)
      BY <1>1, <1>2, <3>1 DEF CheckOK, CheckRows
    <3> QED BY <1>2, <2>5, <3>1, <3>2, CheckMoves
  <2> QED BY <1>3, <1>4, <2>5 DEF CallGate, c, document, put
<1>5. CASE ReadLatest(t)
  <2> DEFINE d == [c EXCEPT !.at = "save", !.base = Latest]
  <2>1. Move(t, "ok") \/ check' = [check EXCEPT ![t] = d]
    BY <1>5 DEF ReadLatest, c
  <2>2. CASE check' = [check EXCEPT ![t] = d]
    <3>1. d \in CheckRows
      BY <1>1 DEF CheckRows, Latest
    <3>2. Len(versions) > 0
      BY <1>1, <1>2 DEF CheckOK, CheckRows
    <3>3. CheckOK(t, d, versions)
      BY <1>1, <1>2, <3>1, <3>2 DEF CheckOK, CheckRows, Latest
    <3> QED BY <1>2, <2>2, <3>1, <3>3, CheckMoves
  <2> QED BY <1>3, <2>1, <2>2
<1> QED BY <1>4, <1>5

LEMMA SaveCheckedStep ==
  ASSUME CvInv, NEW t \in CheckTasks, SaveChecked(t)
  PROVE  CvInv'
<1> DEFINE c == check[t]
           base == check[t].base
           d == WithVerdicts(versions[base].document, check[t].found)
           e == [c EXCEPT !.at = "ok"]
<1>1. c \in CheckRows /\ CheckOK(t, c, versions) /\ Len(versions) \in Nat /\ CvInv
  BY OneCheckOK
<1>2. c.at = "save" /\ AddVersion(d, t, base) /\ check' = [check EXCEPT ![t] = e]
      /\ request' = request
  BY DEF SaveChecked, Move
<1>3. /\ base \in 1..Len(versions) /\ base \in 0..Len(versions)
      /\ \A v \in 1..Len(versions) : versions[v].trace # t
  BY <1>1, <1>2 DEF CheckOK, CheckRows
<1>4. DocumentOK(d)
  BY <1>3, StoredVersion, WithVerdictsOK
<1> HIDE DEF d, c, base
<1>5. /\ Len(versions') = Len(versions) + 1
      /\ \A v \in 1..Len(versions) : versions'[v] = versions[v]
  BY <1>2, <1>3, <1>4, AddedVersion
<1>6. /\ e \in CheckRows /\ e.status = c.status /\ e.tries = c.tries /\ e.at = "ok"
      /\ e.version = c.version /\ e.paths = c.paths /\ e.base = c.base
  BY <1>1 DEF CheckRows
<1> HIDE DEF e
<1>7. CheckOK(t, e, versions')
  <2>1. /\ c.version \in Nat /\ c.base \in Nat /\ c.version <= Len(versions)
        /\ c.base <= Len(versions) /\ c.status = "running" /\ c.version > 0
        /\ c.paths \subseteq DOMAIN versions[c.version].document
    BY <1>1, <1>2 DEF CheckOK, CheckRows
  <2>2. versions'[c.version] = versions[c.version]
    BY <1>1, <1>5, <2>1
  <2> QED BY <1>1, <1>5, <1>6, <2>1, <2>2 DEF CheckOK
<1>8. Grows(t)
  BY <1>2, <1>3, <1>4 DEF Grows
<1>9. /\ check' \in [CheckTasks -> CheckRows] /\ check'[t] = e
      /\ \A s \in CheckTasks : check'[s] = check[s] \/ CheckOK(s, check'[s], versions')
  BY <1>2, <1>6, <1>7 DEF CvInv
<1> QED BY <1>2, <1>3, <1>7, <1>8, <1>9, CvKeeps DEF CvInv

LEMMA CvStep == CvInv /\ [CvNext]_cvVars => CvInv'
<1> SUFFICES ASSUME CvInv, [CvNext]_cvVars PROVE CvInv'
  OBVIOUS
<1>1. ASSUME UNCHANGED cvVars PROVE CvInv'
  BY <1>1 DEF cvVars, CvInv
<1>2. ASSUME Generate PROVE CvInv'
  BY <1>2, GenerateStep
<1>3. ASSUME NEW r \in Requests, Open(r) \/ Save(r) \/ AskForCheck(r) \/ QueueCheck(r)
      PROVE  CvInv'
  BY <1>3, RequestStep, QueueCheckStep
<1>4. ASSUME NEW t \in CheckTasks,
             \/ Deliver(t) \/ BeginCheck(t) \/ CallGate(t) \/ ReadLatest(t)
             \/ SaveChecked(t) \/ RecordCheck(t) \/ LoseCheck(t)
      PROVE  CvInv'
  BY <1>4, CheckStep, GateStep, SaveCheckedStep
<1> QED BY <1>1, <1>2, <1>3, <1>4 DEF CvNext

\* What the invariant says of the versions.
LEMMA CvConclude ==
  ASSUME CvInv
  PROVE  CvTypeOK /\ VerdictIsOfTheseWords /\ CheckedOnce
<1>1. /\ versions \in Seq(VersionRows) /\ Len(versions) \in Nat
      /\ DOMAIN versions = 1..Len(versions) /\ Len(versions) <= MaxVersions
  BY DEF CvInv, VersionsOK
<1>2. CvTypeOK
  <2>1. \A v \in DOMAIN versions : versions[v].base < v
    BY <1>1, StoredVersion
  <2>2. \A r \in Requests : /\ request[r].what \in {"none", "change", "check"}
                            /\ request[r].base \in 0..Len(versions)
    BY <1>1 DEF CvInv, RequestOK, RequestRows
  <2>3. ASSUME NEW t \in CheckTasks
        PROVE  /\ check[t] \in CheckRows
               /\ check[t].version \in 0..Len(versions) /\ check[t].base \in 0..Len(versions)
    BY <1>1 DEF CvInv, CheckOK, CheckRows
  <2> QED BY <1>1, <2>1, <2>2, <2>3 DEF CvTypeOK, CheckRows
<1>3. VerdictIsOfTheseWords
  BY <1>1, StoredVersion DEF VerdictIsOfTheseWords, DocumentOK
<1>4. CheckedOnce
  <2> SUFFICES ASSUME NEW t \in CheckTasks
               PROVE  LET written == {v \in DOMAIN versions : versions[v].trace = t} IN
                      /\ written # {} => check[t].at \notin {"call", "latest", "save"}
                      /\ Cardinality(written) <= 1
    BY DEF CheckedOnce
  <2> DEFINE written == {v \in DOMAIN versions : versions[v].trace = t}
  <2>1. written # {} => check[t].at \notin {"call", "latest", "save"}
    BY <1>1 DEF CvInv, CheckOK
  <2>2. \A u, v \in written : u = v
    BY <1>1, CvAssumption DEF CvInv, VersionsOK
  <2>3. CASE written = {}
    <3>1. Cardinality(written) = 0
      BY <2>3, FS_EmptySet
    <3> QED BY <2>1, <3>1
  <2>4. ASSUME NEW v \in written PROVE Cardinality(written) = 1
    <3>1. written = {v}
      BY <2>2, <2>4
    <3> QED BY <3>1, FS_Singleton
  <2> QED BY <2>1, <2>3, <2>4
<1> QED BY <1>2, <1>3, <1>4
----------------------------------------------------------------------------
(* Sums over a set of rows. Among the subsets of a finite set for which    *)
(* something fails there is a least one, which takes the place of an       *)
(* induction: the sum is defined, is a number, and is no more than zero if *)
(* nothing summed is.                                                      *)

LEMMA LeastSubset ==
  ASSUME NEW S, IsFiniteSet(S), NEW B \in SUBSET (SUBSET S), B # {}
  PROVE  \E T \in B : \A U \in B : U \subseteq T => U = T
<1>1. B \subseteq FiniteSubsetsOf(S)
  BY FS_Subset DEF FiniteSubsetsOf
<1>2. PICK T \in B : \A U \in B : <<U, T>> \notin StrictSubsetOrdering(S)
  BY <1>1, FS_StrictSubsetOrderingWellFounded, WFMin
<1> QED BY <1>1, <1>2 DEF StrictSubsetOrdering

Some(s) == CHOOSE x \in s : TRUE

SumStep(f, g, s) == IF s = {} THEN 0 ELSE f[Some(s)].delta + g[s \ {Some(s)}]

IsSum(f, T, g) == g = [s \in SUBSET T |-> SumStep(f, g, s)]

Total(f, S) == P!MapThenSumSet(LAMBDA r : f[r].delta, S)

LEMMA SumUnique ==
  ASSUME NEW f, NEW T, IsFiniteSet(T), NEW U \in SUBSET T, NEW g, NEW h,
         IsSum(f, T, g), IsSum(f, U, h)
  PROVE  \A s \in SUBSET U : g[s] = h[s]
<1> DEFINE B == {s \in SUBSET U : g[s] # h[s]}
<1> SUFFICES ASSUME B # {} PROVE FALSE
  OBVIOUS
<1>1. IsFiniteSet(U) /\ B \in SUBSET (SUBSET U)
  BY FS_Subset
<1> HIDE DEF B
<1>2. PICK s \in B : \A r \in B : r \subseteq s => r = s
  BY <1>1, LeastSubset
<1>3. s \in SUBSET U /\ s \in SUBSET T /\ g[s] # h[s]
  BY DEF B
<1>4. g[s] = SumStep(f, g, s) /\ h[s] = SumStep(f, h, s)
  BY <1>3 DEF IsSum
<1>5. CASE s = {}
  BY <1>3, <1>4, <1>5 DEF SumStep
<1>6. CASE s # {}
  <2>1. Some(s) \in s
    BY <1>6 DEF Some
  <2>2. s \ {Some(s)} \in SUBSET U /\ s \ {Some(s)} \subseteq s /\ s \ {Some(s)} # s
    BY <1>3, <2>1
  <2>3. s \ {Some(s)} \notin B
    BY <1>2, <2>2
  <2>4. g[s \ {Some(s)}] = h[s \ {Some(s)}]
    BY <2>2, <2>3 DEF B
  <2> QED BY <1>3, <1>4, <1>6, <2>4 DEF SumStep
<1> QED BY <1>5, <1>6

LEMMA SumExists ==
  ASSUME NEW f, NEW S, IsFiniteSet(S)
  PROVE  \E g : IsSum(f, S, g)
<1> DEFINE B == {T \in SUBSET S : ~ \E g : IsSum(f, T, g)}
<1> SUFFICES ASSUME B # {} PROVE FALSE
  OBVIOUS
<1>0. B \in SUBSET (SUBSET S)
  OBVIOUS
<1>1. PICK T \in B : \A U \in B : U \subseteq T => U = T
  <2> HIDE DEF B
  <2> QED BY <1>0, LeastSubset
<1>2. T \in SUBSET S /\ ~ \E g : IsSum(f, T, g)
  OBVIOUS
<1>3. \A U \in SUBSET T : U # T => \E g : IsSum(f, U, g)
  BY <1>1, <1>2
<1> HIDE DEF B
<1> DEFINE G(U) == CHOOSE g : IsSum(f, U, g)
           h == [s \in SUBSET T |-> IF s = {} THEN 0
                   ELSE f[Some(s)].delta + G(s \ {Some(s)})[s \ {Some(s)}]]
<1>4. \A U \in SUBSET T : U # T => IsSum(f, U, G(U))
  BY <1>3
<1> HIDE DEF G
<1>5. ASSUME NEW V \in SUBSET T, V # T
      PROVE  h[V] = G(V)[V]
  <2>1. IsSum(f, V, G(V)) /\ IsFiniteSet(V)
    BY <1>2, <1>4, <1>5, FS_Subset
  <2>2. G(V)[V] = SumStep(f, G(V), V)
    BY <2>1 DEF IsSum
  <2>3. CASE V = {}
    BY <2>2, <2>3 DEF SumStep
  <2>4. CASE V # {}
    <3> DEFINE W == V \ {Some(V)}
    <3>1. Some(V) \in V
      BY <2>4 DEF Some
    <3>2. W \in SUBSET V /\ W \in SUBSET T /\ W # T
      BY <1>5, <3>1
    <3>3. IsSum(f, W, G(W))
      BY <1>4, <3>2
    <3>4. G(V)[W] = G(W)[W]
      BY <2>1, <3>2, <3>3, SumUnique
    <3>5. h[V] = f[Some(V)].delta + G(W)[W]
      BY <2>4
    <3>6. G(V)[V] = f[Some(V)].delta + G(V)[W]
      BY <2>2, <2>4 DEF SumStep
    <3> QED BY <3>4, <3>5, <3>6
  <2> QED BY <2>3, <2>4
<1>6. \A s \in SUBSET T : s # {} => h[s \ {Some(s)}] = G(s \ {Some(s)})[s \ {Some(s)}]
  <2> SUFFICES ASSUME NEW s \in SUBSET T, s # {}
               PROVE  h[s \ {Some(s)}] = G(s \ {Some(s)})[s \ {Some(s)}]
    OBVIOUS
  <2>1. Some(s) \in s
    BY DEF Some
  <2>2. s \ {Some(s)} \in SUBSET T /\ s \ {Some(s)} # T
    BY <2>1
  <2> HIDE DEF h
  <2> QED BY <1>5, <2>2
<1>7. IsSum(f, T, h)
  <2>1. \A s \in SUBSET T : h[s] = SumStep(f, h, s)
    <3> SUFFICES ASSUME NEW s \in SUBSET T PROVE h[s] = SumStep(f, h, s)
      OBVIOUS
    <3>1. h[s] = IF s = {} THEN 0 ELSE f[Some(s)].delta + G(s \ {Some(s)})[s \ {Some(s)}]
      OBVIOUS
    <3> HIDE DEF h
    <3> QED BY <1>6, <3>1 DEF SumStep
  <2>2. h = [s \in SUBSET T |-> h[s]]
    OBVIOUS
  <2> HIDE DEF h
  <2> QED BY <2>1, <2>2 DEF IsSum
<1> HIDE DEF h
<1> QED BY <1>2, <1>7

LEMMA TotalIs ==
  ASSUME NEW f, NEW S, IsFiniteSet(S),
         \A x \in S : f[x].delta \in Int
  PROVE  /\ Total(f, S) \in Int
         /\ (\A x \in S : f[x].delta <= 0) => Total(f, S) <= 0
<1> DEFINE sum == CHOOSE g : IsSum(f, S, g)
<1>1. Total(f, S) = sum[S]
  BY DEF Total, P!MapThenSumSet, P!MapThenFoldSet, IsSum, SumStep, Some
<1>2. IsSum(f, S, sum)
  BY SumExists
<1> HIDE DEF sum
<1>3. \A s \in SUBSET S : sum[s] = SumStep(f, sum, s)
  BY <1>2 DEF IsSum
<1>4. \A s \in SUBSET S : s # {} =>
        /\ Some(s) \in S /\ s \ {Some(s)} \in SUBSET S /\ s \ {Some(s)} # s
        /\ s \ {Some(s)} \subseteq s
  BY DEF Some
<1>5. \A s \in SUBSET S : sum[s] \in Int
  <2> DEFINE B == {s \in SUBSET S : sum[s] \notin Int}
  <2> SUFFICES ASSUME B # {} PROVE FALSE
    OBVIOUS
  <2>0. B \in SUBSET (SUBSET S)
    OBVIOUS
  <2> HIDE DEF B
  <2>1. PICK s \in B : \A r \in B : r \subseteq s => r = s
    BY <2>0, LeastSubset
  <2>2. s \in SUBSET S /\ sum[s] \notin Int
    BY DEF B
  <2>3. s # {} => s \ {Some(s)} \notin B
    BY <1>4, <2>1, <2>2
  <2>4. s # {} => sum[s \ {Some(s)}] \in Int /\ f[Some(s)].delta \in Int
    BY <1>4, <2>2, <2>3 DEF B
  <2>5. sum[s] = SumStep(f, sum, s)
    BY <1>3, <2>2
  <2>6. CASE s = {}
    BY <2>2, <2>5, <2>6 DEF SumStep
  <2>7. CASE s # {}
    BY <2>2, <2>4, <2>5, <2>7 DEF SumStep
  <2> QED BY <2>6, <2>7
<1>6. ASSUME \A x \in S : f[x].delta <= 0
      PROVE  \A s \in SUBSET S : sum[s] <= 0
  <2> DEFINE B == {s \in SUBSET S : ~ (sum[s] <= 0)}
  <2> SUFFICES ASSUME B # {} PROVE FALSE
    OBVIOUS
  <2>0. B \in SUBSET (SUBSET S)
    OBVIOUS
  <2> HIDE DEF B
  <2>1. PICK s \in B : \A r \in B : r \subseteq s => r = s
    BY <2>0, LeastSubset
  <2>2. s \in SUBSET S /\ ~ (sum[s] <= 0)
    BY DEF B
  <2>3. s # {} => s \ {Some(s)} \notin B
    BY <1>4, <2>1, <2>2
  <2>4. s # {} => /\ sum[s \ {Some(s)}] \in Int /\ sum[s \ {Some(s)}] <= 0
                  /\ f[Some(s)].delta \in Int /\ f[Some(s)].delta <= 0
    BY <1>4, <1>5, <1>6, <2>2, <2>3 DEF B
  <2>5. sum[s] = SumStep(f, sum, s)
    BY <1>3, <2>2
  <2>6. CASE s = {}
    BY <2>2, <2>5, <2>6 DEF SumStep
  <2>7. CASE s # {}
    BY <2>2, <2>4, <2>5, <2>7 DEF SumStep
  <2> QED BY <2>6, <2>7
<1> QED BY <1>1, <1>5, <1>6
----------------------------------------------------------------------------
(* Push-backs. A row and its reading with the task that reads it and the   *)
(* thread that has that, and a pick on a row: whoever is about to apply a  *)
(* reading to a row has it locked, finds it not applied yet unless it      *)
(* takes it back, and no claim to be able moves anything up.               *)

PushReadings == [kind: {"factual", "capability", "preference"}, direction: {"up", "down"}]

PushRows == [status: {"absent", "awaiting", "applied"}, text: Texts \union {None}, new: BOOLEAN,
             delta: Int, withdrawn: BOOLEAN, failed: BOOLEAN, origin: Rows \union {0}]

PushTasks == [status: {"absent", "pending", "running", "succeeded", "failed"}, tries: Nat]

PushThreads == [at: {"none", "call", "read", "refuse", "fail", "apply", "ok", "permanent", "error"},
                reading: PushReadings, new: BOOLEAN, delta: Int]

PushPicks == [at: {"none", "chosen", "apply"}, row: Rows \union {0}, was: PushRows,
              wasRead: PushReadings, chosen: PushReadings, delta: Int]

NeverLifts(read, delta) == read.kind = "capability" => delta <= 0

\* w, rd, k, h: row, reading, task and thread.
RowOK(w, rd, k, h) ==
  /\ w \in PushRows /\ rd \in PushReadings /\ k \in PushTasks /\ h \in PushThreads
  /\ w.status = "applied" => NeverLifts(rd, w.delta)
  /\ w.withdrawn => w.status = "applied"
  /\ k.status # "absent" => w.status # "absent"
  /\ h.at # "none" => k.status # "absent"
  /\ h.at = "apply" => w.status # "applied" /\ NeverLifts(h.reading, h.delta)

\* A pick x on a row, with that row w and its thread h.
PickOK(x, w, h) ==
  /\ w.status # "absent" /\ x.was.status # "absent" /\ ~ x.was.withdrawn
  /\ x.was.status = "applied" => w.status = "applied"
  /\ x.at = "apply" => NeverLifts(x.chosen, x.delta)
  /\ x.at = "apply" /\ x.was.status # "applied" => w.status # "applied"
  /\ x.at = "apply" => h.at # "apply"

PushTyped == /\ row \in [Rows -> PushRows] /\ readAs \in [Rows -> PushReadings]
             /\ task \in [Rows -> PushTasks] /\ thread \in [Rows -> PushThreads]
             /\ pick \in [Picks -> PushPicks]

PickHolds(p) ==
  pick[p].at # "none" => /\ pick[p].row \in Rows
                         /\ PickOK(pick[p], row[pick[p].row], thread[pick[p].row])

OneHolds == \A p, q \in Picks : /\ pick[p].at = "apply" /\ pick[q].at = "apply"
                                /\ pick[p].row = pick[q].row
                                => p = q

PushInv == /\ PushTyped
           /\ \A r \in Rows : RowOK(row[r], readAs[r], task[r], thread[r])
           /\ \A p \in Picks : PickHolds(p)
           /\ OneHolds

\* What was applied stays, but for being taken back once: the step of AppliedStays.
Kept(new, old) == new \in {old, [old EXCEPT !.withdrawn = TRUE]}

Stays(r) == row[r].status = "applied" => readAs'[r] = readAs[r] /\ Kept(row'[r], row[r])

LEMMA NoRows == /\ P!NoRow \in PushRows /\ P!Unread \in PushReadings
                /\ P!NoThread \in PushThreads /\ P!NoPick \in PushPicks
BY DEF P!NoRow, P!Unread, P!NoThread, P!NoPick, PushRows, PushReadings, PushThreads, PushPicks

LEMMA PushStart == P!PushInit => PushInv
<1> SUFFICES ASSUME P!PushInit PROVE PushInv
  OBVIOUS
<1>1. /\ row = [r \in Rows |-> P!NoRow] /\ readAs = [r \in Rows |-> P!Unread]
      /\ task = [r \in Rows |-> [status |-> "absent", tries |-> 0]]
      /\ thread = [r \in Rows |-> P!NoThread] /\ pick = [p \in Picks |-> P!NoPick]
  BY DEF P!PushInit
<1>2. [status |-> "absent", tries |-> 0] \in PushTasks
  BY DEF PushTasks
<1>3. PushTyped
  BY <1>1, <1>2, NoRows DEF PushTyped
<1>4. RowOK(P!NoRow, P!Unread, [status |-> "absent", tries |-> 0], P!NoThread)
  BY <1>2, NoRows DEF RowOK, P!NoRow, P!NoThread
<1>5. \A p \in Picks : pick[p].at = "none"
  BY <1>1 DEF P!NoPick
<1> QED BY <1>1, <1>3, <1>4, <1>5 DEF PushInv, PickHolds, OneHolds

\* Pushbacks' own counting is counting.
LEMMA CountingRows == \A S : P!Cardinality(S) = Cardinality(S)
BY DEF P!Cardinality, Cardinality, P!ExistsBijection, ExistsBijection, P!Bijection, Bijection,
   P!Injection, Injection, P!Surjection, Surjection, P!IsInjective, IsInjective

\* What a reading would move is a number, and a claim to be able moves nothing up.
LEMMA EffectIs ==
  ASSUME PushInv, NEW text, NEW read \in PushReadings, NEW new, NEW but,
         NEW sent \in Nat
  PROVE  /\ P!Effect(text, read, new, but, sent) \in Int
         /\ NeverLifts(read, P!Effect(text, read, new, but, sent))
<1> DEFINE dimension == P!Target(read.kind)
           C == P!Counted(dimension, but)
           n == Cardinality(C) + 3 * sent
           moved == P!DisplacementBut(dimension, but)
           fresh == new /\ ~ P!Restates(text, read, but)
<1>1. P!Effect(text, read, new, but, sent) = P!Decide(read.kind, read.direction, n, moved, fresh)
  BY CountingRows DEF P!Effect
<1>2. C \in SUBSET Rows
  BY DEF P!Counted
<1>3. IsFiniteSet(C) /\ n \in Nat
  BY <1>2, FS_Subset, FS_CardinalityType, PushAssumption
<1>4. \A r \in C : row[r].delta \in Int
  BY <1>2 DEF PushInv, PushTyped, PushRows
<1>5. moved = Total(row, C)
  BY DEF P!DisplacementBut, Total
<1>6. moved \in Int
  BY <1>3, <1>4, <1>5, TotalIs
<1> HIDE DEF C, n, moved, fresh
<1>7. read.kind \in {"factual", "capability", "preference"} /\ read.direction \in {"up", "down"}
  BY DEF PushReadings
<1>8. P!Preference(read.direction, n, moved, fresh) \in Int
  <2>1. P!Shrink(n) \in Int
    BY <1>3 DEF P!Shrink, P!Kappa, P!Point
  <2> DEFINE room == P!Most(P!MaxDisplacement - P!Sign(read.direction) * moved, 0)
             step == P!Least(IF fresh THEN P!Shrink(n) ELSE 0, room)
  <2>2. P!Sign(read.direction) \in {1, -1}
    BY DEF P!Sign
  <2>3. P!Sign(read.direction) * moved \in Int
    BY <1>6, <2>2
  <2>4. room \in Int
    BY <2>3 DEF P!Most, P!MaxDisplacement, P!Point
  <2>5. step \in Int
    BY <2>1, <2>4 DEF P!Least
  <2>6. P!Preference(read.direction, n, moved, fresh) = P!Sign(read.direction) * step
    BY DEF P!Preference
  <2> HIDE DEF step
  <2> QED BY <2>2, <2>5, <2>6
<1>9. /\ P!Decide(read.kind, read.direction, n, moved, fresh) \in Int
      /\ NeverLifts(read, P!Decide(read.kind, read.direction, n, moved, fresh))
  <2>1. CASE read.kind = "factual"
    BY <2>1 DEF P!Decide, NeverLifts
  <2>2. CASE read.kind = "capability"
    BY <2>2 DEF P!Decide, NeverLifts, P!Point
  <2>3. CASE read.kind = "preference"
    BY <1>8, <2>3 DEF P!Decide, NeverLifts
  <2> QED BY <1>7, <2>1, <2>2, <2>3
<1> QED BY <1>1, <1>9

\* A step of one row, with its task and thread, while picks stay; what it may do to
\* a row that is there, and to one that a pick has locked.
RowMoves(r, w, rd, k, h) ==
  /\ row' = [row EXCEPT ![r] = w] /\ readAs' = [readAs EXCEPT ![r] = rd]
  /\ task' = [task EXCEPT ![r] = k] /\ thread' = [thread EXCEPT ![r] = h]
  /\ UNCHANGED pick

Carries(r, w, rd) ==
  /\ row[r].status # "absent" => w.status # "absent"
  /\ row[r].status = "applied" => rd = readAs[r] /\ Kept(w, row[r])

LocksHold(r, w, h) ==
  \A p \in Picks : pick[p].at = "apply" /\ pick[p].row = r =>
    /\ w.status = row[r].status
    /\ h.at = "apply" => thread[r].at = "apply"

LEMMA OneRow ==
  ASSUME PushInv, NEW r \in Rows, NEW w, NEW rd, NEW k, NEW h,
         RowMoves(r, w, rd, k, h), RowOK(w, rd, k, h), Carries(r, w, rd), LocksHold(r, w, h)
  PROVE  PushInv' /\ \A s \in Rows : Stays(s)
<1> USE DEF RowMoves, Carries
<1>1. row[r] \in PushRows
  BY DEF PushInv, PushTyped
<1>2. row[r].status = "applied" => w.status = "applied"
  BY <1>1 DEF PushRows, Kept
<1>3. PushTyped'
  BY DEF PushInv, PushTyped, RowOK
<1>4. \A s \in Rows : /\ row'[s] = IF s = r THEN w ELSE row[s]
                      /\ readAs'[s] = IF s = r THEN rd ELSE readAs[s]
                      /\ task'[s] = IF s = r THEN k ELSE task[s]
                      /\ thread'[s] = IF s = r THEN h ELSE thread[s]
  BY DEF PushInv, PushTyped
<1>5. \A s \in Rows : RowOK(row[s], readAs[s], task[s], thread[s])'
  BY <1>4 DEF PushInv
<1>6. ASSUME NEW p \in Picks PROVE PickHolds(p)'
  <2> SUFFICES ASSUME pick[p].at # "none"
               PROVE  /\ pick[p].row \in Rows
                      /\ PickOK(pick[p], row'[pick[p].row], thread'[pick[p].row])
    BY DEF PickHolds
  <2>1. /\ pick[p].row \in Rows
        /\ PickOK(pick[p], row[pick[p].row], thread[pick[p].row])
    BY DEF PushInv, PickHolds
  <2>2. CASE pick[p].row # r
    BY <1>4, <2>1, <2>2
  <2>3. CASE pick[p].row = r
    BY <1>2, <1>4, <2>1, <2>3 DEF PickOK, LocksHold
  <2> QED BY <2>2, <2>3
<1>7. OneHolds'
  BY DEF PushInv, OneHolds
<1>8. \A s \in Rows : Stays(s)
  BY <1>4 DEF Stays, Kept
<1> QED BY <1>3, <1>5, <1>6, <1>7, <1>8 DEF PushInv

LEMMA KeptSame == \A w : Kept(w, w)
BY DEF Kept

\* A row with its reading, task and thread.
LEMMA PushTypes ==
  ASSUME PushInv, NEW r \in Rows
  PROVE  /\ RowOK(row[r], readAs[r], task[r], thread[r])
         /\ row = [row EXCEPT ![r] = row[r]] /\ readAs = [readAs EXCEPT ![r] = readAs[r]]
         /\ task = [task EXCEPT ![r] = task[r]] /\ thread = [thread EXCEPT ![r] = thread[r]]
BY DEF PushInv, PushTyped
\* A thread only moves, with or without the mark of a failure on its row.
LEMMA ThreadMoves ==
  ASSUME PushInv, NEW r \in Rows, NEW k \in PushTasks, NEW h \in PushThreads,
         task' = [task EXCEPT ![r] = k], thread' = [thread EXCEPT ![r] = h],
         UNCHANGED <<row, readAs, pick>>,
         k.status # "absent", row[r].status # "absent", h.at # "apply"
  PROVE  PushInv' /\ \A s \in Rows : Stays(s)
<1>1. RowOK(row[r], readAs[r], k, h)
  BY PushTypes DEF RowOK
<1>2. RowMoves(r, row[r], readAs[r], k, h)
  BY PushTypes DEF RowMoves
<1>3. Carries(r, row[r], readAs[r]) /\ LocksHold(r, row[r], h)
  BY KeptSame DEF Carries, LocksHold
<1> QED BY <1>1, <1>2, <1>3, OneRow

LEMMA ReadingStep ==
  ASSUME PushInv, NEW r \in Rows,
         \/ P!Deliver(r) \/ P!CallModel(r) \/ P!RecordOutcome(r) \/ P!Lose(r)
  PROVE  PushInv' /\ \A s \in Rows : Stays(s)
<1> DEFINE k == task[r]
           h == thread[r]
<1>1. /\ k \in PushTasks /\ h \in PushThreads /\ row[r] \in PushRows
      /\ k.status # "absent" => row[r].status # "absent"
      /\ h.at # "none" => k.status # "absent"
  BY PushTypes DEF RowOK
<1>2. UNCHANGED <<row, readAs, pick>> /\ task = [task EXCEPT ![r] = k]
  BY PushTypes DEF P!Deliver, P!CallModel, P!RecordOutcome, P!Lose, P!Settle, P!At
<1> HIDE DEF k, h
<1>3. CASE P!Deliver(r)
  <2> DEFINE place == IF row[r].status = "awaiting" THEN "call" ELSE "ok"
             k2 == [status |-> "running", tries |-> k.tries + 1]
             h2 == [h EXCEPT !.at = place]
  <2>1. k.status = "pending" /\ task' = [task EXCEPT ![r] = k2]
        /\ thread' = [thread EXCEPT ![r] = h2]
    BY <1>3 DEF P!Deliver, P!At, k, h
  <2>2. k2 \in PushTasks /\ k2.status = "running"
    BY <1>1 DEF PushTasks
  <2>3. h2 \in PushThreads /\ h2.at = place
    BY <1>1 DEF PushThreads
  <2> HIDE DEF k2, h2
  <2> QED BY <1>1, <1>2, <2>1, <2>2, <2>3, ThreadMoves
<1>4. CASE P!CallModel(r)
  <2>1. h.at = "call" /\ task' = task
    BY <1>4 DEF P!CallModel, P!At, h
  <2>2. \E h2 \in PushThreads : h2.at # "apply" /\ thread' = [thread EXCEPT ![r] = h2]
    <3>1. ASSUME NEW read \in P!Readings, NEW new \in BOOLEAN,
                 thread' = [thread EXCEPT ![r] =
                   [h EXCEPT !.at = "read", !.reading = read, !.new = new]]
          PROVE  <2>2
      <4>1. read \in PushReadings
        BY PushAssumption DEF P!Readings, P!Directions, PushReadings
      <4> DEFINE h2 == [h EXCEPT !.at = "read", !.reading = read, !.new = new]
      <4>2. h2 \in PushThreads /\ h2.at = "read"
        BY <1>1, <4>1 DEF PushThreads
      <4> QED BY <3>1, <4>2
    <3>2. ASSUME NEW place \in {"refuse", "fail"}, P!At(r, place)
          PROVE  <2>2
      <4> DEFINE h2 == [h EXCEPT !.at = place]
      <4>1. h2 \in PushThreads /\ h2.at = place
        BY <1>1 DEF PushThreads
      <4> QED BY <3>2, <4>1 DEF P!At, h
    <3> QED BY <1>4, <3>1, <3>2 DEF P!CallModel, h
  <2> QED BY <1>1, <1>2, <2>1, <2>2, ThreadMoves
<1>5. ASSUME NEW st \in {"pending", "succeeded", "failed"}, P!Settle(r, st), h.at # "none"
      PROVE  PushInv' /\ \A s \in Rows : Stays(s)
  <2> DEFINE k2 == [k EXCEPT !.status = st]
  <2>1. k2 \in PushTasks /\ k2.status = st
    BY <1>1 DEF PushTasks
  <2>2. task' = [task EXCEPT ![r] = k2] /\ thread' = [thread EXCEPT ![r] = P!NoThread]
    BY <1>5 DEF P!Settle, k
  <2>3. P!NoThread \in PushThreads /\ P!NoThread.at = "none"
    BY NoRows DEF P!NoThread
  <2> HIDE DEF k2
  <2> QED BY <1>1, <1>2, <1>5, <2>1, <2>2, <2>3, ThreadMoves
<1>6. P!AfterError(r) \in {"pending", "failed"}
  BY DEF P!AfterError
<1>7. CASE P!RecordOutcome(r)
  BY <1>5, <1>6, <1>7 DEF P!RecordOutcome, h
<1>8. CASE P!Lose(r)
  BY <1>5, <1>6, <1>8 DEF P!Lose, h
<1> QED BY <1>3, <1>4, <1>7, <1>8

LEMMA RecordPushbackStep ==
  ASSUME PushInv, NEW r \in Rows, P!RecordPushback(r)
  PROVE  PushInv' /\ \A s \in Rows : Stays(s)
<1>1. PICK text \in Texts :
        row' = [row EXCEPT ![r] =
          [P!NoRow EXCEPT !.status = "awaiting", !.text = text, !.origin = r]]
  BY DEF P!RecordPushback
<1> DEFINE w == [P!NoRow EXCEPT !.status = "awaiting", !.text = text, !.origin = r]
           k == [status |-> "pending", tries |-> 0]
<1>2. /\ row[r].status = "absent" /\ task' = [task EXCEPT ![r] = k]
      /\ UNCHANGED <<readAs, thread, pick>>
  BY DEF P!RecordPushback, P!NextRow
<1>3. /\ w \in PushRows /\ w.status = "awaiting" /\ ~ w.withdrawn
  BY NoRows DEF P!NoRow, PushRows
<1>4. k \in PushTasks
  BY DEF PushTasks
<1>5. thread[r].at = "none" /\ thread[r] \in PushThreads /\ readAs[r] \in PushReadings
  BY <1>2, PushTypes DEF RowOK
<1>6. RowOK(w, readAs[r], k, thread[r])
  BY <1>3, <1>4, <1>5 DEF RowOK
<1>7. ASSUME NEW p \in Picks, pick[p].at = "apply", pick[p].row = r
      PROVE  FALSE
  BY <1>2, <1>7 DEF PushInv, PickHolds, PickOK
<1> HIDE DEF w, k
<1>8. row' = [row EXCEPT ![r] = w]
  BY <1>1 DEF w
<1>9. RowMoves(r, w, readAs[r], k, thread[r])
  BY <1>2, <1>8, PushTypes DEF RowMoves
<1>10. Carries(r, w, readAs[r]) /\ LocksHold(r, w, thread[r])
  BY <1>2, <1>3, <1>7 DEF Carries, LocksHold
<1> QED BY <1>6, <1>9, <1>10, OneRow

\* A row that is nobody's but whose row it is: marked, withdrawn, or locked.
LEMMA MarkStep ==
  ASSUME PushInv, NEW r \in Rows, P!MarkFailed(r) \/ P!Withdraw(r)
  PROVE  PushInv' /\ \A s \in Rows : Stays(s)
<1> DEFINE old == row[r]
           h == thread[r]
<1>1. RowOK(old, readAs[r], task[r], h) /\ readAs = [readAs EXCEPT ![r] = readAs[r]]
      /\ task = [task EXCEPT ![r] = task[r]] /\ thread = [thread EXCEPT ![r] = h]
      /\ row = [row EXCEPT ![r] = old]
  BY PushTypes
<1>2. ~ P!Locked(r)
  BY DEF P!MarkFailed, P!Withdraw
<1>3. \A p \in Picks : ~ (pick[p].at = "apply" /\ pick[p].row = r)
  BY <1>2 DEF P!Locked
<1>4. h.at # "apply"
  BY <1>2 DEF P!Locked
<1> HIDE DEF old, h
<1>5. CASE P!MarkFailed(r)
  <2> DEFINE w == IF old.status = "applied" THEN old ELSE [old EXCEPT !.failed = TRUE]
             place == IF h.at = "refuse" THEN "permanent" ELSE "error"
             h2 == [h EXCEPT !.at = place]
  <2>1. row' = [row EXCEPT ![r] = w]
    BY <1>1, <1>5 DEF P!MarkFailed, old
  <2>2. thread' = [thread EXCEPT ![r] = h2] /\ UNCHANGED <<readAs, task, pick>>
        /\ h.at \in {"refuse", "fail"}
    BY <1>5 DEF P!MarkFailed, P!At, h
  <2>3. /\ w \in PushRows /\ w.status = old.status /\ w.withdrawn = old.withdrawn
        /\ w.delta = old.delta /\ (old.status = "applied" => Kept(w, old))
    BY <1>1 DEF RowOK, PushRows, Kept
  <2>4. h2 \in PushThreads /\ h2.at = place
    BY <1>1 DEF RowOK, PushThreads
  <2> HIDE DEF w, h2
  <2>5. RowOK(w, readAs[r], task[r], h2)
    BY <1>1, <2>2, <2>3, <2>4 DEF RowOK
  <2>6. RowMoves(r, w, readAs[r], task[r], h2)
    BY <1>1, <2>1, <2>2 DEF RowMoves
  <2>7. Carries(r, w, readAs[r]) /\ LocksHold(r, w, h2)
    BY <1>3, <2>3 DEF Carries, LocksHold, old
  <2> QED BY <2>5, <2>6, <2>7, OneRow
<1>6. CASE P!Withdraw(r)
  <2> DEFINE w == [old EXCEPT !.withdrawn = TRUE]
  <2>1. row' = [row EXCEPT ![r] = w] /\ UNCHANGED <<readAs, task, thread, pick>>
        /\ old.status = "applied"
    BY <1>6 DEF P!Withdraw, P!Counts, old
  <2>2. w \in PushRows /\ w.status = old.status /\ w.delta = old.delta /\ Kept(w, old)
    BY <1>1 DEF RowOK, PushRows, Kept
  <2> HIDE DEF w
  <2>3. RowOK(w, readAs[r], task[r], h)
    BY <1>1, <1>4, <2>1, <2>2 DEF RowOK
  <2>4. RowMoves(r, w, readAs[r], task[r], h)
    BY <1>1, <2>1 DEF RowMoves
  <2>5. Carries(r, w, readAs[r]) /\ LocksHold(r, w, h)
    BY <1>3, <2>1, <2>2 DEF Carries, LocksHold, old
  <2> QED BY <2>3, <2>4, <2>5, OneRow
<1> QED BY <1>5, <1>6

LEMMA ApplyStep ==
  ASSUME PushInv, NEW r \in Rows, P!BeginApply(r) \/ P!CommitApply(r)
  PROVE  PushInv' /\ \A s \in Rows : Stays(s)
<1> DEFINE old == row[r]
           h == thread[r]
<1>1. RowOK(old, readAs[r], task[r], h) /\ readAs = [readAs EXCEPT ![r] = readAs[r]]
      /\ task = [task EXCEPT ![r] = task[r]] /\ row = [row EXCEPT ![r] = old]
  BY PushTypes
<1> DEFINE done == [P!NoThread EXCEPT !.at = "ok"]
<1>2. done \in PushThreads /\ done.at = "ok"
  BY NoRows DEF PushThreads, P!NoThread
<1> HIDE DEF old, h, done
<1>3. CASE P!BeginApply(r)
  <2>1. PICK sent \in Sent : thread' = [thread EXCEPT ![r] =
          IF old.status = "applied" THEN done
          ELSE [h EXCEPT !.at = "apply", !.delta = P!Reread(r, sent)]]
    BY <1>3 DEF P!BeginApply, old, h, done
  <2>2. UNCHANGED <<row, readAs, task, pick>> /\ h.at = "read" /\ ~ P!Locked(r)
    BY <1>3 DEF P!BeginApply, h
  <2>3. \A p \in Picks : ~ (pick[p].at = "apply" /\ pick[p].row = r)
    BY <2>2 DEF P!Locked
  <2>4. task[r].status # "absent" /\ old.status # "absent" /\ h \in PushThreads /\ task[r] \in PushTasks
    BY <1>1, <2>2 DEF RowOK
  <2>5. CASE old.status = "applied"
    <3>1. task' = [task EXCEPT ![r] = task[r]] /\ thread' = [thread EXCEPT ![r] = done]
      BY <1>1, <2>1, <2>2, <2>5
    <3> QED BY <1>2, <2>2, <2>4, <3>1, ThreadMoves DEF old
  <2>6. CASE old.status # "applied"
    <3> DEFINE delta == P!Reread(r, sent)
               h2 == [h EXCEPT !.at = "apply", !.delta = delta]
    <3>1. h.reading \in PushReadings
      BY <2>4 DEF PushThreads
    <3>2. delta \in Int /\ NeverLifts(h.reading, delta)
      <4>1. sent \in Nat
        BY PushAssumption
      <4> QED BY <3>1, <4>1, EffectIs DEF P!Reread, h
    <3> HIDE DEF delta
    <3>3. h2 \in PushThreads /\ h2.at = "apply" /\ h2.delta = delta /\ h2.reading = h.reading
      BY <2>4, <3>2 DEF PushThreads
    <3>4. thread' = [thread EXCEPT ![r] = h2]
      BY <2>1, <2>6 DEF delta
    <3> HIDE DEF h2
    <3>5. RowOK(old, readAs[r], task[r], h2)
      BY <1>1, <2>4, <2>6, <3>2, <3>3 DEF RowOK
    <3>6. RowMoves(r, old, readAs[r], task[r], h2)
      BY <1>1, <2>2, <3>4 DEF RowMoves
    <3>7. Carries(r, old, readAs[r]) /\ LocksHold(r, old, h2)
      BY <2>3, <2>6 DEF Carries, LocksHold, old
    <3> QED BY <3>5, <3>6, <3>7, OneRow
  <2> QED BY <2>5, <2>6
<1>4. CASE P!CommitApply(r)
  <2> DEFINE w == P!Applied(r, h.reading, h.new, h.delta)
  <2>1. /\ h.at = "apply" /\ row' = [row EXCEPT ![r] = w] /\ readAs' = [readAs EXCEPT ![r] = h.reading]
        /\ thread' = [thread EXCEPT ![r] = done] /\ UNCHANGED <<task, pick>>
    BY <1>4 DEF P!CommitApply, h, done
  <2>2. h \in PushThreads /\ old \in PushRows /\ old.status # "applied"
        /\ NeverLifts(h.reading, h.delta) /\ task[r].status # "absent"
    BY <1>1, <2>1 DEF RowOK
  <2>3. /\ w \in PushRows /\ w.status = "applied" /\ w.delta = h.delta
    BY <2>2 DEF P!Applied, PushRows, PushThreads, old
  <2>4. h.reading \in PushReadings
    BY <2>2 DEF PushThreads
  <2> HIDE DEF w
  <2>5. RowOK(w, h.reading, task[r], done)
    BY <1>1, <1>2, <2>2, <2>3, <2>4 DEF RowOK
  <2>6. \A p \in Picks : ~ (pick[p].at = "apply" /\ pick[p].row = r)
    BY <2>1 DEF PushInv, PickHolds, PickOK, h
  <2>7. RowMoves(r, w, h.reading, task[r], done)
    BY <1>1, <2>1 DEF RowMoves
  <2>8. Carries(r, w, h.reading) /\ LocksHold(r, w, done)
    BY <2>2, <2>3, <2>6 DEF Carries, LocksHold, old
  <2> QED BY <2>5, <2>7, <2>8, OneRow
<1> QED BY <1>3, <1>4

\* Only a pick moves.
PickMoves(p, x) == pick' = [pick EXCEPT ![p] = x] /\ UNCHANGED <<row, readAs, task, thread>>

PickFits(p, x) ==
  /\ x \in PushPicks
  /\ x.at # "none" => /\ x.row \in Rows
                      /\ PickOK(x, row[x.row], thread[x.row])
  /\ x.at = "apply" => \A q \in Picks : ~ (pick[q].at = "apply" /\ pick[q].row = x.row)

LEMMA OnePick ==
  ASSUME PushInv, NEW p \in Picks, NEW x, PickMoves(p, x), PickFits(p, x)
  PROVE  PushInv' /\ \A s \in Rows : Stays(s)
<1> USE DEF PickMoves
<1>1. \A q \in Picks : pick'[q] = IF q = p THEN x ELSE pick[q]
  BY DEF PushInv, PushTyped
<1>2. PushTyped'
  BY DEF PushInv, PushTyped, PickFits
<1>3. \A s \in Rows : RowOK(row[s], readAs[s], task[s], thread[s])'
  BY DEF PushInv
<1>4. ASSUME NEW q \in Picks PROVE PickHolds(q)'
  <2> SUFFICES ASSUME pick'[q].at # "none"
               PROVE  /\ pick'[q].row \in Rows
                      /\ PickOK(pick'[q], row[pick'[q].row], thread[pick'[q].row])
    BY DEF PickHolds
  <2>1. CASE q = p
    BY <1>1, <2>1 DEF PickFits
  <2>2. CASE q # p
    BY <1>1, <2>2 DEF PushInv, PickHolds
  <2> QED BY <2>1, <2>2
<1>5. OneHolds'
  BY <1>1 DEF PushInv, OneHolds, PickFits
<1>6. \A s \in Rows : Stays(s)
  BY KeptSame DEF Stays
<1> QED BY <1>2, <1>3, <1>4, <1>5, <1>6 DEF PushInv

LEMMA BeforePickStep ==
  ASSUME PushInv, NEW p \in Picks,
         P!ChooseReading(p) \/ P!NothingToChange(p) \/ P!BeginPick(p)
  PROVE  PushInv' /\ \A s \in Rows : Stays(s)
<1>1. CASE P!ChooseReading(p)
  <2>1. PICK r \in Rows, chosen \in P!Readings :
          /\ row[r].status # "absent" /\ ~ row[r].withdrawn
          /\ pick' = [pick EXCEPT ![p] =
               [P!NoPick EXCEPT !.at = "chosen", !.row = r, !.was = row[r],
                                !.wasRead = readAs[r], !.chosen = chosen]]
    BY <1>1 DEF P!ChooseReading
  <2> DEFINE x == [P!NoPick EXCEPT !.at = "chosen", !.row = r, !.was = row[r],
                                   !.wasRead = readAs[r], !.chosen = chosen]
  <2>2. chosen \in PushReadings
    BY PushAssumption DEF P!Readings, P!Directions, PushReadings
  <2>3. row[r] \in PushRows /\ readAs[r] \in PushReadings
    BY PushTypes DEF RowOK
  <2>4. x \in PushPicks /\ x.at = "chosen" /\ x.row = r /\ x.was = row[r]
    BY <2>2, <2>3, NoRows DEF PushPicks, P!NoPick
  <2>5. PickMoves(p, x)
    BY <1>1, <2>1 DEF PickMoves, P!ChooseReading
  <2> HIDE DEF x
  <2>6. PickFits(p, x)
    BY <2>1, <2>4 DEF PickFits, PickOK
  <2> QED BY <2>5, <2>6, OnePick
<1>2. CASE P!NothingToChange(p)
  <2>1. PickMoves(p, P!NoPick)
    BY <1>2 DEF PickMoves, P!NothingToChange
  <2>2. PickFits(p, P!NoPick)
    BY NoRows DEF PickFits, P!NoPick
  <2> QED BY <2>1, <2>2, OnePick
<1>3. CASE P!BeginPick(p)
  <2> DEFINE y == pick[p]
             r == y.row
  <2>1. y \in PushPicks /\ y.at = "chosen" /\ ~ P!Locked(r)
        /\ (y.was.status # "applied" => row[r].status # "applied")
    BY <1>3 DEF P!BeginPick, PushInv, PushTyped
  <2>2. r \in Rows /\ PickOK(y, row[r], thread[r])
    BY <2>1 DEF PushInv, PickHolds
  <2>3. PICK sent \in Sent : pick' = [pick EXCEPT ![p] =
          [y EXCEPT !.at = "apply", !.delta = P!Effect(y.was.text, y.chosen, y.was.new, r, sent)]]
    BY <1>3 DEF P!BeginPick
  <2> DEFINE delta == P!Effect(y.was.text, y.chosen, y.was.new, r, sent)
             x == [y EXCEPT !.at = "apply", !.delta = delta]
  <2>4. y.chosen \in PushReadings
    BY <2>1 DEF PushPicks
  <2>5. delta \in Int /\ NeverLifts(y.chosen, delta)
    <3>1. sent \in Nat
      BY PushAssumption
    <3> QED BY <2>4, <3>1, EffectIs
  <2>6. thread[r].at # "apply" /\ \A q \in Picks : ~ (pick[q].at = "apply" /\ pick[q].row = r)
    BY <2>1 DEF P!Locked
  <2>7. PickMoves(p, x)
    BY <1>3, <2>3 DEF PickMoves, P!BeginPick
  <2> HIDE DEF delta, y
  <2>8. x \in PushPicks /\ x.at = "apply" /\ x.delta = delta /\ x.row = r /\ x.was = y.was
        /\ x.chosen = y.chosen
    BY <2>1, <2>5 DEF PushPicks
  <2> HIDE DEF x
  <2>9. PickOK(x, row[r], thread[r])
    BY <2>1, <2>2, <2>5, <2>6, <2>8 DEF PickOK
  <2>10. PickFits(p, x)
    BY <2>2, <2>6, <2>8, <2>9 DEF PickFits
  <2> QED BY <2>7, <2>10, OnePick
<1> QED BY <1>1, <1>2, <1>3

\* What the pick stores: the row s under the chosen reading, the row r it was about,
\* and the rest as they were.
PickStores(p, r, s, w, old, rd) ==
  /\ row' = [x \in Rows |-> IF x = s THEN w ELSE IF x = r THEN old ELSE row[x]]
  /\ readAs' = [readAs EXCEPT ![s] = rd]
  /\ pick' = [pick EXCEPT ![p] = P!NoPick]
  /\ UNCHANGED <<task, thread>>

LEMMA CommitPickIs ==
  ASSUME PushInv, NEW p \in Picks, P!CommitPick(p)
  PROVE  /\ pick[p].at = "apply"
         /\ \E s \in Rows :
              /\ IF pick[p].was.status = "applied" THEN row[s].status = "absent" ELSE s = pick[p].row
              /\ PickStores(p, pick[p].row, s,
                   [pick[p].was EXCEPT !.status = "applied", !.delta = pick[p].delta, !.failed = FALSE],
                   [row[pick[p].row] EXCEPT !.withdrawn = TRUE], pick[p].chosen)
<1>1. pick[p].at = "apply"
  BY DEF P!CommitPick
<1>2. PICK s \in Rows :
        /\ IF pick[p].was.status = "applied" THEN P!NextRow(s) ELSE s = pick[p].row
        /\ row' = [x \in Rows |->
             IF x = s
             THEN [pick[p].was EXCEPT !.status = "applied", !.delta = pick[p].delta, !.failed = FALSE]
             ELSE IF x = pick[p].row THEN [row[pick[p].row] EXCEPT !.withdrawn = TRUE]
             ELSE row[x]]
        /\ readAs' = [readAs EXCEPT ![s] = pick[p].chosen]
  BY DEF P!CommitPick
<1>3. pick' = [pick EXCEPT ![p] = P!NoPick] /\ UNCHANGED <<task, thread>>
  BY DEF P!CommitPick
<1>4. PickStores(p, pick[p].row, s,
        [pick[p].was EXCEPT !.status = "applied", !.delta = pick[p].delta, !.failed = FALSE],
        [row[pick[p].row] EXCEPT !.withdrawn = TRUE], pick[p].chosen)
  BY <1>2, <1>3 DEF PickStores
<1>5. IF pick[p].was.status = "applied" THEN row[s].status = "absent" ELSE s = pick[p].row
  BY <1>2 DEF P!NextRow
<1> QED BY <1>1, <1>4, <1>5

LEMMA CommitPickStep ==
  ASSUME PushInv, NEW p \in Picks, P!CommitPick(p)
  PROVE  PushInv' /\ \A s \in Rows : Stays(s)
<1> DEFINE y == pick[p]
           r == y.row
           w == [y.was EXCEPT !.status = "applied", !.delta = y.delta, !.failed = FALSE]
           old == [row[r] EXCEPT !.withdrawn = TRUE]
<1>1. y \in PushPicks /\ y.at = "apply"
  BY CommitPickIs DEF PushInv, PushTyped
<1>2. PICK s \in Rows :
        /\ IF y.was.status = "applied" THEN row[s].status = "absent" ELSE s = r
        /\ PickStores(p, r, s, w, old, y.chosen)
  BY CommitPickIs
<1>3. r \in Rows /\ PickOK(y, row[r], thread[r])
  BY <1>1 DEF PushInv, PickHolds
<1>4. \A q \in Picks : q # p => ~ (pick[q].at = "apply" /\ pick[q].row = r)
  BY <1>1 DEF PushInv, OneHolds
<1>5. \A q \in Picks : pick[q].at # "none" => /\ pick[q].row \in Rows
                                              /\ PickOK(pick[q], row[pick[q].row], thread[pick[q].row])
  BY DEF PushInv, PickHolds
<1>6. row[r] \in PushRows /\ \A x \in Rows : RowOK(row[x], readAs[x], task[x], thread[x])
  BY <1>3, PushTypes DEF RowOK
<1>7. \A q \in Picks : pick'[q] = IF q = p THEN P!NoPick ELSE pick[q]
  BY <1>2 DEF PickStores, PushInv, PushTyped
<1>8. \A x \in Rows : /\ row'[x] = IF x = s THEN w ELSE IF x = r THEN old ELSE row[x]
                      /\ readAs'[x] = IF x = s THEN y.chosen ELSE readAs[x]
                      /\ task'[x] = task[x] /\ thread'[x] = thread[x]
  BY <1>2 DEF PickStores, PushInv, PushTyped
<1>9. readAs' \in [Rows -> PushReadings] /\ task' = task /\ thread' = thread
      /\ pick' \in [Picks -> PushPicks] /\ DOMAIN row' = Rows
      /\ row' = [x \in Rows |-> row'[x]]
  <2>1. y.chosen \in PushReadings
    BY <1>1 DEF PushPicks
  <2> QED BY <1>2, <2>1, NoRows DEF PickStores, PushInv, PushTyped
<1>10. /\ y.was \in PushRows /\ y.delta \in Int /\ y.chosen \in PushReadings
  BY <1>1 DEF PushPicks
<1> HIDE DEF y
<1>11. /\ w \in PushRows /\ w.status = "applied" /\ w.delta = y.delta /\ w.withdrawn = y.was.withdrawn
  BY <1>10 DEF PushRows
<1>12. /\ old \in PushRows /\ old.status = row[r].status /\ old.delta = row[r].delta
       /\ Kept(old, row[r])
  BY <1>6 DEF PushRows, Kept
<1> HIDE DEF w, old, r
<1>13. CASE y.was.status = "applied"
  <2>1. row[s].status = "absent" /\ row[r].status = "applied" /\ s # r
    BY <1>2, <1>3, <1>13 DEF PickOK
  <2>2. task[s].status = "absent" /\ thread[s].at = "none"
    BY <1>6, <2>1 DEF RowOK
  <2>3. \A x \in Rows : RowOK(row'[x], readAs'[x], task'[x], thread'[x])
    <3> SUFFICES ASSUME NEW x \in Rows PROVE RowOK(row'[x], readAs'[x], task'[x], thread'[x])
      OBVIOUS
    <3>1. CASE x = s
      <4>1. RowOK(w, y.chosen, task[s], thread[s])
        BY <1>1, <1>3, <1>6, <1>10, <1>11, <2>2 DEF RowOK, PickOK
      <4> QED BY <1>8, <3>1, <4>1
    <3>2. CASE x = r
      <4>1. RowOK(old, readAs[r], task[r], thread[r])
        BY <1>6, <1>3, <1>12, <2>1 DEF RowOK
      <4> QED BY <1>8, <2>1, <3>2, <4>1
    <3>3. CASE x # s /\ x # r
      BY <1>6, <1>8, <3>3
    <3> QED BY <3>1, <3>2, <3>3
  <2>4. \A q \in Picks : PickHolds(q)'
    <3> SUFFICES ASSUME NEW q \in Picks, pick'[q].at # "none"
                 PROVE  /\ pick'[q].row \in Rows
                        /\ PickOK(pick'[q], row'[pick'[q].row], thread'[pick'[q].row])
      BY DEF PickHolds
    <3>1. q # p /\ pick'[q] = pick[q]
      BY <1>7 DEF P!NoPick
    <3>2. pick[q].row \in Rows /\ PickOK(pick[q], row[pick[q].row], thread[pick[q].row])
      BY <1>5, <3>1
    <3>3. pick[q].row # s
      BY <2>1, <3>2 DEF PickOK
    <3>4. row'[pick[q].row].status = row[pick[q].row].status
      BY <1>8, <1>12, <3>2, <3>3
    <3>5. thread'[pick[q].row] = thread[pick[q].row]
      BY <1>8, <3>2
    <3> QED BY <3>1, <3>2, <3>4, <3>5 DEF PickOK
  <2>5. \A x \in Rows : Stays(x)
    <3> SUFFICES ASSUME NEW x \in Rows, row[x].status = "applied"
                 PROVE  readAs'[x] = readAs[x] /\ Kept(row'[x], row[x])
      BY DEF Stays
    <3>1. x # s
      BY <2>1
    <3> QED BY <1>8, <1>12, <3>1, KeptSame
  <2>7. PushTyped'
    BY <1>9, <2>3 DEF PushInv, PushTyped, RowOK
  <2>8. OneHolds'
    BY <1>7 DEF PushInv, OneHolds, P!NoPick
  <2>9. \A x \in Rows : RowOK(row[x], readAs[x], task[x], thread[x])'
    BY <2>3
  <2> QED BY <2>4, <2>5, <2>7, <2>8, <2>9 DEF PushInv
<1>14. CASE y.was.status # "applied"
  <2>1. s = r /\ row[r].status \notin {"applied", "absent"} /\ thread[r].at # "apply"
    BY <1>1, <1>2, <1>3, <1>14 DEF PickOK
  <2>2. \A x \in Rows : RowOK(row'[x], readAs'[x], task'[x], thread'[x])
    <3> SUFFICES ASSUME NEW x \in Rows PROVE RowOK(row'[x], readAs'[x], task'[x], thread'[x])
      OBVIOUS
    <3>1. CASE x = r
      <4>1. RowOK(w, y.chosen, task[r], thread[r])
        BY <1>1, <1>3, <1>6, <1>10, <1>11, <2>1 DEF RowOK, PickOK
      <4> QED BY <1>8, <2>1, <3>1, <4>1
    <3>2. CASE x # r
      BY <1>6, <1>8, <2>1, <3>2
    <3> QED BY <3>1, <3>2
  <2>3. \A q \in Picks : PickHolds(q)'
    <3> SUFFICES ASSUME NEW q \in Picks, pick'[q].at # "none"
                 PROVE  /\ pick'[q].row \in Rows
                        /\ PickOK(pick'[q], row'[pick'[q].row], thread'[pick'[q].row])
      BY DEF PickHolds
    <3>1. q # p /\ pick'[q] = pick[q]
      BY <1>7 DEF P!NoPick
    <3>2. pick[q].row \in Rows /\ PickOK(pick[q], row[pick[q].row], thread[pick[q].row])
      BY <1>5, <3>1
    <3>3. CASE pick[q].row # r
      BY <1>8, <2>1, <3>1, <3>2, <3>3
    <3>4. CASE pick[q].row = r
      <4>1. pick[q].at # "apply"
        BY <1>4, <3>1, <3>4
      <4>2. row'[r].status = "applied"
        BY <1>3, <1>8, <1>11, <2>1
      <4> QED BY <1>3, <3>1, <3>2, <3>4, <4>1, <4>2 DEF PickOK
    <3> QED BY <3>3, <3>4
  <2>4. \A x \in Rows : Stays(x)
    <3> SUFFICES ASSUME NEW x \in Rows, row[x].status = "applied"
                 PROVE  readAs'[x] = readAs[x] /\ Kept(row'[x], row[x])
      BY DEF Stays
    <3>1. x # s /\ x # r
      BY <2>1
    <3> QED BY <1>8, <3>1, KeptSame
  <2>7. PushTyped'
    BY <1>9, <2>2 DEF PushInv, PushTyped, RowOK
  <2>8. OneHolds'
    BY <1>7 DEF PushInv, OneHolds, P!NoPick
  <2>9. \A x \in Rows : RowOK(row[x], readAs[x], task[x], thread[x])'
    BY <2>2
  <2> QED BY <2>3, <2>4, <2>7, <2>8, <2>9 DEF PushInv
<1> QED BY <1>13, <1>14

LEMMA PushStep ==
  ASSUME PushInv, [P!PushNext]_pushVars
  PROVE  PushInv' /\ \A s \in Rows : Stays(s)
<1>1. CASE UNCHANGED pushVars
  <2>1. PushInv'
    BY <1>1 DEF pushVars, PushInv, PushTyped, RowOK, PickHolds, PickOK, OneHolds
  <2>2. \A s \in Rows : Stays(s)
    BY <1>1, KeptSame DEF pushVars, Stays
  <2> QED BY <2>1, <2>2
<1>2. CASE P!PushNext
  <2>1. ASSUME NEW r \in Rows,
               \/ P!RecordPushback(r) \/ P!Withdraw(r)
               \/ P!Deliver(r) \/ P!CallModel(r) \/ P!MarkFailed(r)
               \/ P!BeginApply(r) \/ P!CommitApply(r) \/ P!RecordOutcome(r) \/ P!Lose(r)
        PROVE  PushInv' /\ \A s \in Rows : Stays(s)
    <3>1. CASE P!RecordPushback(r)
      BY <3>1, RecordPushbackStep
    <3>2. CASE P!MarkFailed(r) \/ P!Withdraw(r)
      BY <3>2, MarkStep
    <3>3. CASE P!Deliver(r) \/ P!CallModel(r) \/ P!RecordOutcome(r) \/ P!Lose(r)
      BY <3>3, ReadingStep
    <3>4. CASE P!BeginApply(r) \/ P!CommitApply(r)
      BY <3>4, ApplyStep
    <3> QED BY <2>1, <3>1, <3>2, <3>3, <3>4
  <2>2. ASSUME NEW p \in Picks,
               P!ChooseReading(p) \/ P!NothingToChange(p) \/ P!BeginPick(p) \/ P!CommitPick(p)
        PROVE  PushInv' /\ \A s \in Rows : Stays(s)
    <3>1. CASE P!ChooseReading(p) \/ P!NothingToChange(p) \/ P!BeginPick(p)
      BY <3>1, BeforePickStep
    <3>2. CASE P!CommitPick(p)
      BY <3>2, CommitPickStep
    <3> QED BY <2>2, <3>1, <3>2
  <2> QED BY <1>2, <2>1, <2>2 DEF P!PushNext
<1> QED BY <1>1, <1>2

----------------------------------------------------------------------------
(* What a score shows: the sum of what counts is a number, what counts     *)
(* against "could I get this" moves it nowhere but down, and both are      *)
(* clamped.                                                                *)

LEMMA SumsCounted ==
  ASSUME PushInv
  PROVE  /\ P!Displacements["want"] \in Int
         /\ P!Displacements["get"] \in Int /\ P!Displacements["get"] <= 0
<1>1. \A axis \in {"want", "get"} : P!Displacements[axis] = Total(row, P!Counted(axis, 0))
  BY DEF P!Displacements, P!DisplacementBut, Total
<1>2. \A axis \in {"want", "get"} :
        /\ IsFiniteSet(P!Counted(axis, 0))
        /\ \A r \in P!Counted(axis, 0) : row[r].delta \in Int
  <2> SUFFICES ASSUME NEW axis \in {"want", "get"}
               PROVE  /\ IsFiniteSet(P!Counted(axis, 0))
                      /\ \A r \in P!Counted(axis, 0) : row[r].delta \in Int
    OBVIOUS
  <2>1. P!Counted(axis, 0) \in SUBSET Rows
    BY DEF P!Counted
  <2>2. IsFiniteSet(P!Counted(axis, 0))
    BY <2>1, FS_Subset, PushAssumption
  <2> QED BY <2>1, <2>2 DEF PushInv, PushTyped, PushRows
<1>3. \A r \in P!Counted("get", 0) : row[r].delta <= 0
  <2> SUFFICES ASSUME NEW r \in P!Counted("get", 0) PROVE row[r].delta <= 0
    OBVIOUS
  <2>1. r \in Rows /\ row[r].status = "applied" /\ P!Target(readAs[r].kind) = "get"
    BY DEF P!Counted, P!Counts
  <2>2. readAs[r].kind = "capability"
    BY <2>1 DEF P!Target
  <2> QED BY <2>1, <2>2, PushTypes DEF RowOK, NeverLifts
<1>4. /\ Total(row, P!Counted("want", 0)) \in Int
      /\ Total(row, P!Counted("get", 0)) \in Int
      /\ Total(row, P!Counted("get", 0)) <= 0
  BY <1>2, <1>3, TotalIs
<1> QED BY <1>1, <1>4

LEMMA ShownFollows == ASSUME PushInv PROVE P!ShownIsBounded
<1> DEFINE wanted == P!AdjustmentFor(P!Displacements, "want")
           got == P!AdjustmentFor(P!Displacements, "get")
<1>1. wanted \in -2000..2000 /\ got \in -2000..0
  <2>1. P!MaxAdjustment = 2000
    BY DEF P!MaxAdjustment, P!Point
  <2>4. /\ wanted = P!Most(0 - 2000, P!Least(2000, P!Displacements["want"]))
        /\ got = P!Most(0 - 2000, P!Least(2000, P!Displacements["get"]))
    BY <2>1 DEF P!AdjustmentFor
  <2>5. /\ P!Displacements["want"] \in Int
        /\ P!Displacements["get"] \in Int /\ P!Displacements["get"] <= 0
    BY SumsCounted
  <2> HIDE DEF wanted, got
  <2> DEFINE a == P!Displacements["want"]
             b == P!Displacements["get"]
  <2>6. /\ a \in Int /\ wanted = P!Most(0 - 2000, P!Least(2000, a))
        /\ b \in Int /\ b <= 0 /\ got = P!Most(0 - 2000, P!Least(2000, b))
    BY <2>4, <2>5
  <2> HIDE DEF a, b
  <2>7. wanted \in -2000..2000
    BY <2>6 DEF P!Most, P!Least
  <2>8. got \in -2000..0
    BY <2>6 DEF P!Most, P!Least
  <2> QED BY <2>7, <2>8
<1> HIDE DEF wanted, got
<1>2. P!Rounded(wanted) \in -2..2
  BY <1>1 DEF P!Rounded
<1>3. P!Rounded(got) \in -2..0
  BY <1>1 DEF P!Rounded
<1>4. ASSUME NEW stored \in P!MinScore..P!MaxScore, NEW breach \in BOOLEAN
      PROVE  LET want == P!Displayed(stored, wanted, breach)
                 get  == P!Displayed(stored, got, FALSE)
             IN /\ want \in (stored - 2)..(stored + 2)
                /\ get \in (stored - 2)..stored
                /\ breach /\ want > stored => want <= P!BreachCeiling
  <2> DEFINE up == P!Rounded(wanted)
             down == P!Rounded(got)
  <2>1. up \in -2..2 /\ down \in -2..0 /\ stored \in 1..10
    BY <1>2, <1>3 DEF P!MinScore, P!MaxScore
  <2> HIDE DEF up, down
  <2>2. /\ P!Displayed(stored, wanted, breach) =
             LET moved == P!Most(1, P!Least(10, stored + up))
             IN IF breach THEN P!Least(moved, P!Most(2, stored)) ELSE moved
        /\ P!Displayed(stored, got, FALSE) = P!Most(1, P!Least(10, stored + down))
    BY DEF P!Displayed, P!MinScore, P!MaxScore, P!BreachCeiling, up, down
  <2> DEFINE moved == P!Most(1, P!Least(10, stored + up))
             lowered == P!Most(1, P!Least(10, stored + down))
  <2>3. moved \in (stored - 2)..(stored + 2) /\ lowered \in (stored - 2)..stored
    BY <2>1 DEF P!Most, P!Least
  <2> HIDE DEF moved, lowered
  <2>4. P!Least(moved, P!Most(2, stored)) \in (stored - 2)..(stored + 2)
        /\ (P!Least(moved, P!Most(2, stored)) > stored => P!Least(moved, P!Most(2, stored)) <= 2)
    BY <2>1, <2>3 DEF P!Most, P!Least
  <2>5. /\ P!Displayed(stored, wanted, breach) =
             IF breach THEN P!Least(moved, P!Most(2, stored)) ELSE moved
        /\ P!Displayed(stored, got, FALSE) = lowered
    BY <2>2 DEF moved, lowered
  <2>6. P!BreachCeiling = 2
    BY DEF P!BreachCeiling
  <2> QED BY <2>3, <2>4, <2>5, <2>6
<1> QED BY <1>4 DEF P!ShownIsBounded, wanted, got

----------------------------------------------------------------------------
(* One disagreement counts once, one pick at a time. A row that did not    *)
(* come out of the words typed into it was made by a pick, out of one that *)
(* was applied; and a pick that read an applied row is about the only one  *)
(* that counts of those words.                                             *)

OriginOK(r) ==
  row[r].status # "absent" =>
    /\ row[r].origin \in Rows
    /\ row[r].origin # r => row[r].status = "applied" /\ row[row[r].origin].status = "applied"

PickAlone(p) ==
  pick[p].at # "none" =>
    /\ pick[p].was.origin = row[pick[p].row].origin
    /\ pick[p].was.status = "applied" =>
         \A x \in Rows : P!Counts(x) /\ row[x].origin = pick[p].was.origin => x = pick[p].row

OriginInv == /\ \A r \in Rows : OriginOK(r)
             /\ P!OneReadingCounts
             /\ \A p \in Picks : PickAlone(p)

OnePickAtATime == \A p, q \in Picks : p = q

LEMMA OriginStart == P!PushInit => OriginInv
<1> SUFFICES ASSUME P!PushInit PROVE OriginInv
  OBVIOUS
<1>1. row = [r \in Rows |-> P!NoRow] /\ pick = [p \in Picks |-> P!NoPick]
  BY DEF P!PushInit
<1>2. \A r \in Rows : row[r].status = "absent"
  BY <1>1 DEF P!NoRow
<1>3. \A p \in Picks : pick[p].at = "none"
  BY <1>1 DEF P!NoPick
<1> QED BY <1>2, <1>3 DEF OriginInv, OriginOK, PickAlone, P!OneReadingCounts, P!Counts

\* The rows that are there stay as they were, or count no longer.
FewerCount == \A x \in Rows : /\ row'[x].status = row[x].status
                              /\ row'[x].origin = row[x].origin
                              /\ row[x].withdrawn => row'[x].withdrawn
                              /\ row'[x].withdrawn \in BOOLEAN

\* A pick ends, goes on, or reads a row that counts or waits.
PicksFollow ==
  \A p \in Picks :
    \/ pick'[p].at = "none"
    \/ pick[p].at # "none" /\ pick'[p].row = pick[p].row /\ pick'[p].was = pick[p].was
    \/ /\ pick'[p].row \in Rows /\ pick'[p].was = row[pick'[p].row]
       /\ ~ row[pick'[p].row].withdrawn

LEMMA FewerStep ==
  ASSUME PushInv, OriginInv, FewerCount, PicksFollow
  PROVE  OriginInv'
<1>1. \A x \in Rows : /\ row'[x].status = row[x].status
                      /\ row'[x].origin = row[x].origin
                      /\ P!Counts(x)' => P!Counts(x)
  BY DEF FewerCount, P!Counts
<1>2. ASSUME NEW r \in Rows PROVE OriginOK(r)'
  BY <1>1 DEF OriginInv, OriginOK
<1>3. (P!OneReadingCounts)'
  BY <1>1 DEF OriginInv, P!OneReadingCounts
<1>4. ASSUME NEW p \in Picks PROVE PickAlone(p)'
  <2>1. CASE pick'[p].at = "none"
    BY <2>1 DEF PickAlone
  <2>2. CASE pick[p].at # "none" /\ pick'[p].row = pick[p].row /\ pick'[p].was = pick[p].was
    <3>1. pick[p].row \in Rows
      BY <2>2 DEF PushInv, PickHolds
    <3> QED BY <1>1, <2>2, <3>1 DEF OriginInv, PickAlone
  <2>3. CASE /\ pick'[p].row \in Rows /\ pick'[p].was = row[pick'[p].row]
             /\ ~ row[pick'[p].row].withdrawn
    <3>1. pick'[p].was.status = "applied" => P!Counts(pick'[p].row)
      BY <2>3 DEF P!Counts
    <3> QED BY <1>1, <2>3, <3>1 DEF OriginInv, PickAlone, P!OneReadingCounts
  <2> QED BY <2>1, <2>2, <2>3 DEF PicksFollow
<1> QED BY <1>2, <1>3, <1>4 DEF OriginInv

\* One row r becomes w, typed just now or applied under its own words.
OneBecomes(r, w) ==
  /\ row'[r] = w /\ \A x \in Rows : x # r => row'[x] = row[x]
  /\ \A p \in Picks : pick'[p].at = "none" \/ pick'[p] = pick[p]
  /\ w.origin = r

LEMMA RecordedStep ==
  ASSUME PushInv, OriginInv, NEW r \in Rows, NEW w, OneBecomes(r, w),
         row[r].status = "absent", w.status = "awaiting"
  PROVE  OriginInv'
<1>1. \A x \in Rows : P!Counts(x)' => P!Counts(x) /\ x # r
  BY DEF OneBecomes, P!Counts
<1>2. \A x \in Rows : P!Counts(x)' => row'[x] = row[x]
  BY <1>1 DEF OneBecomes
<1>3. ASSUME NEW x \in Rows PROVE OriginOK(x)'
  BY DEF OneBecomes, OriginInv, OriginOK
<1>4. (P!OneReadingCounts)'
  BY <1>1, <1>2 DEF OriginInv, P!OneReadingCounts
<1>5. ASSUME NEW p \in Picks PROVE PickAlone(p)'
  <2>1. CASE pick'[p].at = "none"
    BY <2>1 DEF PickAlone
  <2>2. CASE pick'[p].at # "none"
    <3>1. pick'[p] = pick[p] /\ pick[p].at # "none"
      BY <2>2 DEF OneBecomes
    <3>2. pick[p].row \in Rows /\ row[pick[p].row].status # "absent"
      BY <3>1 DEF PushInv, PickHolds, PickOK
    <3>3. row'[pick[p].row] = row[pick[p].row]
      BY <3>2 DEF OneBecomes
    <3> QED BY <1>1, <1>2, <3>1, <3>3 DEF OriginInv, PickAlone
  <2> QED BY <2>1, <2>2
<1> QED BY <1>3, <1>4, <1>5 DEF OriginInv

LEMMA AppliedStep ==
  ASSUME PushInv, OriginInv, NEW r \in Rows, NEW w, OneBecomes(r, w),
         row[r].status = "awaiting", w.status = "applied"
  PROVE  OriginInv'
<1>1. ASSUME NEW x \in Rows, x # r, row[x].status # "absent" PROVE row[x].origin # r
  BY <1>1 DEF OriginInv, OriginOK
<1>2. \A x \in Rows : P!Counts(x)' => x = r \/ (P!Counts(x) /\ row'[x] = row[x])
  BY DEF OneBecomes, P!Counts
<1>3. \A x \in Rows : P!Counts(x) => row[x].status # "absent"
  BY DEF P!Counts
<1>4. ASSUME NEW x \in Rows PROVE OriginOK(x)'
  BY DEF OneBecomes, OriginInv, OriginOK
<1>5. (P!OneReadingCounts)'
  <2> SUFFICES ASSUME NEW x \in Rows, NEW y \in Rows, P!Counts(x)', P!Counts(y)',
                      row'[x].origin = row'[y].origin
               PROVE  x = y
    BY DEF P!OneReadingCounts
  <2> QED BY <1>1, <1>2, <1>3 DEF OriginInv, P!OneReadingCounts, OneBecomes
<1>6. ASSUME NEW p \in Picks PROVE PickAlone(p)'
  <2>1. CASE pick'[p].at = "none"
    BY <2>1 DEF PickAlone
  <2>2. CASE pick'[p].at # "none"
    <3>1. pick'[p] = pick[p] /\ pick[p].at # "none"
      BY <2>2 DEF OneBecomes
    <3>2. /\ pick[p].row \in Rows /\ row[pick[p].row].status # "absent"
          /\ pick[p].was.status = "applied" => row[pick[p].row].status = "applied"
      BY <3>1 DEF PushInv, PickHolds, PickOK
    <3>3. row'[pick[p].row].origin = row[pick[p].row].origin
      <4>1. CASE pick[p].row = r
        BY <3>2, <4>1 DEF OneBecomes, OriginInv, OriginOK
      <4>2. CASE pick[p].row # r
        BY <3>2, <4>2 DEF OneBecomes
      <4> QED BY <4>1, <4>2
    <3>4. pick[p].was.origin = row[pick[p].row].origin
      BY <3>1 DEF OriginInv, PickAlone
    <3>5. ASSUME pick[p].was.status = "applied", NEW x \in Rows, P!Counts(x)',
                 row'[x].origin = pick[p].was.origin
          PROVE  x = pick[p].row
      <4>1. pick[p].row # r
        BY <3>2, <3>5
      <4>2. x # r
        BY <1>1, <3>2, <3>4, <3>5, <4>1 DEF OneBecomes
      <4> QED BY <1>2, <3>1, <3>5, <4>2 DEF OriginInv, PickAlone
    <3> QED BY <3>1, <3>3, <3>4, <3>5 DEF PickAlone
  <2> QED BY <2>1, <2>2
<1> QED BY <1>4, <1>5, <1>6 DEF OriginInv

\* A pick takes an applied row r back and records its words as the row s.
LEMMA AgainStep ==
  ASSUME PushInv, OriginInv, OnePickAtATime, NEW p \in Picks, NEW s \in Rows, NEW w, NEW old,
         NEW rd, PickStores(p, pick[p].row, s, w, old, rd),
         pick[p].at # "none", pick[p].was.status = "applied", row[s].status = "absent",
         w.status = "applied", w.origin = pick[p].was.origin,
         old = [row[pick[p].row] EXCEPT !.withdrawn = TRUE]
  PROVE  OriginInv'
<1> DEFINE r == pick[p].row
<1>1. /\ r \in Rows /\ row[r].status = "applied" /\ row[r] \in PushRows
      /\ w.origin = row[r].origin
  BY PushTypes DEF PushInv, PickHolds, PickOK, RowOK, OriginInv, PickAlone
<1>2. old.status = "applied" /\ old.origin = row[r].origin /\ old.withdrawn
  BY <1>1 DEF PushRows
<1>3. \A x \in Rows : row'[x] = IF x = s THEN w ELSE IF x = r THEN old ELSE row[x]
  BY DEF PickStores
<1>4. \A x \in Rows : P!Counts(x) /\ row[x].origin = w.origin => x = r
  BY <1>1 DEF OriginInv, PickAlone
<1>5. \A q \in Picks : q = p
  BY DEF OnePickAtATime
<1>6. pick'[p].at = "none"
  BY DEF PickStores, PushInv, PushTyped, P!NoPick
<1>7. s # r
  BY <1>1
<1>8. row[r].origin \in Rows /\ row[row[r].origin].status = "applied"
  BY <1>1 DEF OriginInv, OriginOK
<1>9. \A x \in Rows : row[x].status = "applied" => row'[x].status = "applied"
  BY <1>1, <1>2, <1>3
<1> HIDE DEF r
<1>10. ASSUME NEW x \in Rows PROVE OriginOK(x)'
  <2>1. CASE x = s
    BY <1>1, <1>3, <1>8, <1>9, <2>1 DEF OriginOK
  <2>2. CASE x = r
    <3>1. row'[r] = old /\ row'[row[r].origin].status = "applied"
      BY <1>1, <1>3, <1>7, <1>8, <1>9
    <3>2. row'[r].origin = row[r].origin /\ row'[r].status = "applied"
      BY <1>2, <3>1
    <3> QED BY <1>8, <2>2, <3>1, <3>2 DEF OriginOK
  <2>3. CASE x # s /\ x # r
    <3>1. row'[x] = row[x]
      BY <1>3, <2>3
    <3>2. OriginOK(x)
      BY DEF OriginInv
    <3> QED BY <1>9, <3>1, <3>2 DEF OriginOK
  <2> QED BY <2>1, <2>2, <2>3
<1>11. \A x \in Rows : P!Counts(x)' => x = s \/ (P!Counts(x) /\ row'[x] = row[x] /\ x # r)
  BY <1>2, <1>3 DEF P!Counts
<1>12. (P!OneReadingCounts)'
  <2> SUFFICES ASSUME NEW x \in Rows, NEW y \in Rows, P!Counts(x)', P!Counts(y)',
                      row'[x].origin = row'[y].origin
               PROVE  x = y
    BY DEF P!OneReadingCounts
  <2>1. row'[s].origin = w.origin
    BY <1>3
  <2>2. CASE x = s \/ y = s
    BY <1>4, <1>11, <2>1, <2>2
  <2>3. CASE x # s /\ y # s
    BY <1>11, <2>3 DEF OriginInv, P!OneReadingCounts
  <2> QED BY <2>2, <2>3
<1>13. \A q \in Picks : PickAlone(q)'
  BY <1>5, <1>6 DEF PickAlone
<1> QED BY <1>10, <1>12, <1>13 DEF OriginInv

\* Nothing but a mark on rows that are there.
LEMMA OriginRowStep ==
  ASSUME PushInv, OriginInv, NEW r \in Rows,
         \/ P!Withdraw(r) \/ P!Deliver(r) \/ P!CallModel(r) \/ P!MarkFailed(r)
         \/ P!BeginApply(r) \/ P!RecordOutcome(r) \/ P!Lose(r)
  PROVE  OriginInv'
<1>1. pick' = pick
  BY DEF P!Withdraw, P!Deliver, P!CallModel, P!MarkFailed, P!BeginApply, P!RecordOutcome,
         P!Lose, P!Settle, P!At
<1>2. PicksFollow
  BY <1>1 DEF PicksFollow
<1>3. \A x \in Rows : row[x] \in PushRows
  BY DEF PushInv, PushTyped
<1>4. \/ row' = row
      \/ row' = [row EXCEPT ![r].failed = TRUE]
      \/ row' = [row EXCEPT ![r].withdrawn = TRUE]
  BY DEF P!Withdraw, P!Deliver, P!CallModel, P!MarkFailed, P!BeginApply, P!RecordOutcome,
         P!Lose, P!Settle, P!At
<1>5. FewerCount
  <2>1. CASE row' = row
    BY <1>3, <2>1 DEF FewerCount, PushRows
  <2>2. CASE row' = [row EXCEPT ![r].failed = TRUE]
    <3>1. \A x \in Rows : row'[x] = IF x = r THEN [row[x] EXCEPT !.failed = TRUE] ELSE row[x]
      BY <2>2 DEF PushInv, PushTyped
    <3> QED BY <1>3, <3>1 DEF FewerCount, PushRows
  <2>3. CASE row' = [row EXCEPT ![r].withdrawn = TRUE]
    <3>1. \A x \in Rows : row'[x] = IF x = r THEN [row[x] EXCEPT !.withdrawn = TRUE] ELSE row[x]
      BY <2>3 DEF PushInv, PushTyped
    <3> QED BY <1>3, <3>1 DEF FewerCount, PushRows
  <2> QED BY <1>4, <2>1, <2>2, <2>3
<1> QED BY <1>2, <1>5, FewerStep

LEMMA OriginRecordStep ==
  ASSUME PushInv, OriginInv, NEW r \in Rows, P!RecordPushback(r)
  PROVE  OriginInv'
<1>1. PICK text \in Texts :
        row' = [row EXCEPT ![r] =
          [P!NoRow EXCEPT !.status = "awaiting", !.text = text, !.origin = r]]
  BY DEF P!RecordPushback
<1> DEFINE w == [P!NoRow EXCEPT !.status = "awaiting", !.text = text, !.origin = r]
<1>2. w.status = "awaiting" /\ w.origin = r
  BY DEF P!NoRow
<1>3. pick' = pick /\ row[r].status = "absent" /\ row' = [row EXCEPT ![r] = w]
  BY <1>1 DEF P!RecordPushback, P!NextRow
<1> HIDE DEF w
<1>4. OneBecomes(r, w)
  BY <1>2, <1>3 DEF OneBecomes, PushInv, PushTyped
<1> QED BY <1>2, <1>3, <1>4, RecordedStep

LEMMA OriginCommitStep ==
  ASSUME PushInv, OriginInv, NEW r \in Rows, P!CommitApply(r)
  PROVE  OriginInv'
<1>1. RowOK(row[r], readAs[r], task[r], thread[r]) /\ thread[r].at = "apply"
  BY PushTypes DEF P!CommitApply
<1>2. row[r].status = "awaiting" /\ row[r] \in PushRows
  BY <1>1 DEF RowOK, PushRows
<1>3. row[r].origin = r
  BY <1>2 DEF OriginInv, OriginOK
<1> DEFINE w == P!Applied(r, thread[r].reading, thread[r].new, thread[r].delta)
<1>4. w.status = "applied" /\ w.origin = r
  BY <1>2, <1>3 DEF P!Applied, PushRows
<1>5. pick' = pick /\ row' = [row EXCEPT ![r] = w]
  BY DEF P!CommitApply
<1> HIDE DEF w
<1>6. OneBecomes(r, w)
  BY <1>4, <1>5 DEF OneBecomes, PushInv, PushTyped
<1> QED BY <1>2, <1>4, <1>6, AppliedStep

LEMMA OriginBeforePickStep ==
  ASSUME PushInv, OriginInv, NEW p \in Picks,
         P!ChooseReading(p) \/ P!NothingToChange(p) \/ P!BeginPick(p)
  PROVE  OriginInv'
<1>1. row' = row /\ \A x \in Rows : row[x] \in PushRows
  BY DEF P!ChooseReading, P!NothingToChange, P!BeginPick, PushInv, PushTyped
<1>2. FewerCount
  BY <1>1 DEF FewerCount, PushRows
<1>3. CASE P!ChooseReading(p)
  <2>1. PICK r \in Rows, chosen \in P!Readings :
          /\ ~ row[r].withdrawn
          /\ pick' = [pick EXCEPT ![p] =
               [P!NoPick EXCEPT !.at = "chosen", !.row = r, !.was = row[r],
                                !.wasRead = readAs[r], !.chosen = chosen]]
    BY <1>3 DEF P!ChooseReading
  <2> DEFINE x == [P!NoPick EXCEPT !.at = "chosen", !.row = r, !.was = row[r],
                                   !.wasRead = readAs[r], !.chosen = chosen]
  <2>2. x.row = r /\ x.was = row[r]
    BY DEF P!NoPick
  <2> HIDE DEF x
  <2>3. pick' = [pick EXCEPT ![p] = x] /\ P!ChooseReading(p)
    BY <1>3, <2>1 DEF x
  <2>4. \A q \in Picks : IF q = p THEN pick'[q] = x ELSE pick'[q] = pick[q]
    BY <2>3 DEF PushInv, PushTyped
  <2>5. \A q \in Picks : q # p /\ pick[q].at = "none" => pick'[q].at = "none"
    BY <2>4
  <2>6. PicksFollow
    BY <2>1, <2>2, <2>4, <2>5 DEF PicksFollow
  <2> QED BY <1>2, <2>6, FewerStep
<1>4. CASE P!NothingToChange(p)
  <2>1. \A q \in Picks : pick'[q] = IF q = p THEN P!NoPick ELSE pick[q]
    BY <1>4 DEF P!NothingToChange, PushInv, PushTyped
  <2>2. PicksFollow
    BY <2>1 DEF PicksFollow, P!NoPick
  <2> QED BY <1>2, <2>2, FewerStep
<1>5. CASE P!BeginPick(p)
  <2> DEFINE y == pick[p]
  <2>1. PICK delta :
          pick' = [pick EXCEPT ![p] = [y EXCEPT !.at = "apply", !.delta = delta]]
    BY <1>5 DEF P!BeginPick
  <2>2. y \in PushPicks /\ y.at = "chosen"
    BY <1>5 DEF P!BeginPick, PushInv, PushTyped
  <2> DEFINE x == [y EXCEPT !.at = "apply", !.delta = delta]
  <2>3. \A q \in Picks : pick'[q] = IF q = p THEN x ELSE pick[q]
    BY <2>1 DEF PushInv, PushTyped
  <2>4. x.row = y.row /\ x.was = y.was
    BY <2>2 DEF PushPicks
  <2> HIDE DEF x
  <2>5. PicksFollow
    BY <2>2, <2>3, <2>4 DEF PicksFollow
  <2> QED BY <1>2, <2>5, FewerStep
<1> QED BY <1>3, <1>4, <1>5

LEMMA OriginCommitPickStep ==
  ASSUME PushInv, OriginInv, OnePickAtATime, NEW p \in Picks, P!CommitPick(p)
  PROVE  OriginInv'
<1> DEFINE y == pick[p]
           r == y.row
           w == [y.was EXCEPT !.status = "applied", !.delta = y.delta, !.failed = FALSE]
           old == [row[r] EXCEPT !.withdrawn = TRUE]
<1>1. y \in PushPicks /\ y.at = "apply" /\ y.was.origin = row[r].origin
  BY CommitPickIs DEF PushInv, PushTyped, OriginInv, PickAlone
<1>2. PICK s \in Rows :
        /\ IF y.was.status = "applied" THEN row[s].status = "absent" ELSE s = r
        /\ PickStores(p, r, s, w, old, y.chosen)
  BY CommitPickIs
<1>3. r \in Rows /\ PickOK(y, row[r], thread[r]) /\ row[r] \in PushRows
  BY <1>1 DEF PushInv, PickHolds, PushTyped
<1>4. w.status = "applied" /\ w.origin = y.was.origin
  BY <1>1 DEF PushPicks, PushRows
<1>5. CASE y.was.status = "applied"
  <2>1. row[s].status = "absent" /\ y.at # "none"
    BY <1>1, <1>2, <1>5
  <2> HIDE DEF w
  <2> QED BY <1>2, <1>4, <1>5, <2>1, AgainStep
<1>6. CASE y.was.status # "applied"
  <2>1. s = r /\ row[r].status = "awaiting"
    BY <1>1, <1>2, <1>3, <1>6 DEF PickOK, PushRows
  <2>2. row[r].origin = r
    BY <1>3, <2>1 DEF OriginInv, OriginOK
  <2>3. w.origin = r
    BY <1>1, <1>4, <2>2
  <2>4. \A x \in Rows : row'[x] = IF x = r THEN w ELSE row[x]
    BY <1>2, <2>1 DEF PickStores
  <2>5. \A q \in Picks : pick'[q] = IF q = p THEN P!NoPick ELSE pick[q]
    BY <1>2 DEF PickStores, PushInv, PushTyped
  <2> HIDE DEF w, r
  <2>6. OneBecomes(r, w)
    BY <1>3, <2>3, <2>4, <2>5 DEF OneBecomes, P!NoPick
  <2> QED BY <1>3, <1>4, <2>1, <2>6, AppliedStep
<1> QED BY <1>5, <1>6

LEMMA OriginNext ==
  ASSUME PushInv, OriginInv, OnePickAtATime, [P!PushNext]_pushVars
  PROVE  OriginInv'
<1>1. CASE UNCHANGED pushVars
  <2>1. FewerCount
    BY <1>1 DEF pushVars, FewerCount, PushInv, PushTyped, PushRows
  <2>2. PicksFollow
    BY <1>1 DEF pushVars, PicksFollow
  <2> QED BY <2>1, <2>2, FewerStep
<1>2. CASE P!PushNext
  BY <1>2, OriginRowStep, OriginRecordStep, OriginCommitStep, OriginBeforePickStep,
     OriginCommitPickStep DEF P!PushNext
<1> QED BY <1>1, <1>2

----------------------------------------------------------------------------
(* The three together. A behaviour is of one of them, and a step of it     *)
(* leaves the other two alone.                                             *)

DraftsInv == ChainInv /\ CvInv /\ PushInv

\* A step of push-backs, of a behaviour about another part a stutter.
LEMMA PartStep ==
  ASSUME [MCNext]_MCVars
  PROVE  [ChainNext]_chainVars /\ [CvNext]_cvVars /\ [P!PushNext]_pushVars
BY DEF MCNext, MCVars

\* However often it is pressed, delivered and cut off: the invariant.
THEOREM DraftsInvariance == MCSpec => []DraftsInv
<1>1. MCInit => DraftsInv
  BY ChainStart, CvStart, PushStart DEF MCInit, DraftsInv
<1>2. DraftsInv /\ [MCNext]_MCVars => DraftsInv'
  BY PartStep, ChainStep, CvStep, PushStep DEF DraftsInv
<1> QED BY <1>1, <1>2, PTL DEF MCSpec

\* However often the chain is pressed, its tasks delivered and its workers lost
\* (handlers/coverage.py, chain.py): one task of each step, and on to the next
\* until one fails or the last is done.
THEOREM StepsOnce == MCSpec => []EveryStepOnce
<1>1. DraftsInv => EveryStepOnce
  BY DEF DraftsInv, ChainInv, EveryStepOnce
<1> QED BY <1>1, DraftsInvariance, PTL

\* A delivery of a task whose result is stored makes no paid call again: neither a
\* step of the chain nor the check of a version (handlers/cv_check.py).
THEOREM PaidForOnce == MCSpec => []NothingPaidTwice
<1>1. DraftsInv => NothingPaidTwice
  BY CvConclude DEF DraftsInv, ChainInv, NothingPaidTwice
<1> QED BY <1>1, DraftsInvariance, PTL

\* Whatever is edited, kept, moved and saved while a check reads an older version
\* (cv_edits.py, cv_edits_check.py): a stored verdict is on the words it stands at.
THEOREM VerdictsFollowWords == MCSpec => []VerdictIsOfTheseWords
<1>1. DraftsInv => VerdictIsOfTheseWords
  BY CvConclude DEF DraftsInv
<1> QED BY <1>1, DraftsInvariance, PTL

\* Any number of corrections, read and picked in any order (jfl_core.pushback): what
\* is shown is within two points, never lifts "could I get this", and never lifts a
\* number over a broken must-have.
THEOREM CorrectionsAreBounded == MCSpec => []ShownIsBounded
<1>1. DraftsInv => ShownIsBounded
  BY ShownFollows DEF DraftsInv, ShownIsBounded
<1> QED BY <1>1, DraftsInvariance, PTL

\* A reading that was applied stays as it was, but for being taken back once, in
\* whatever order deliveries and picks come (storage/pushbacks.py).
THEOREM AppliedIsHistory == MCSpec => P!AppliedStays
<1>1. DraftsInv /\ [MCNext]_MCVars =>
        [\A r \in Rows : row[r].status = "applied" =>
            /\ readAs'[r] = readAs[r]
            /\ row'[r] \in {row[r], [row[r] EXCEPT !.withdrawn = TRUE]}]_pushVars
  <2> SUFFICES ASSUME DraftsInv, [MCNext]_MCVars
               PROVE  \A r \in Rows : row[r].status = "applied" =>
                        /\ readAs'[r] = readAs[r]
                        /\ row'[r] \in {row[r], [row[r] EXCEPT !.withdrawn = TRUE]}
    OBVIOUS
  <2>1. \A r \in Rows : Stays(r)
    BY PartStep, PushStep DEF DraftsInv
  <2> QED BY <2>1 DEF Stays, Kept
<1> QED BY <1>1, DraftsInvariance, PTL DEF MCSpec, P!AppliedStays, P!pushVars, pushVars

\* One pick in progress at a time ("Not what I meant", routes/pushbacks.py): of the
\* readings of one disagreement at most one counts, and one that counts is taken
\* back by the user alone.
THEOREM DisagreementCountsOnce ==
  ASSUME OnePickAtATime PROVE MCSpec => OneReadingStays
<1>1. MCInit => OriginInv
  BY OriginStart DEF MCInit
<1>2. DraftsInv /\ OriginInv /\ [MCNext]_MCVars => OriginInv'
  BY PartStep, OriginNext DEF DraftsInv
<1>3. OriginInv => (about = "pushbacks" => P!OneReadingCounts)
  BY DEF OriginInv
<1>4. MCSpec => [](about = "pushbacks" => P!OneReadingCounts)
  BY <1>1, <1>2, <1>3, DraftsInvariance, PTL DEF MCSpec
<1> QED BY <1>4, AppliedIsHistory DEF OneReadingStays
=============================================================================
