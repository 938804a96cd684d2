---------------------------- MODULE AccountProofs ----------------------------
(***************************************************************************)
(* What suggested titles, answers to questions, the API key and sessions   *)
(* guarantee for any words, attempts, deliveries, keys, accounts and times.*)
(***************************************************************************)
EXTENDS MCAccount, Integers, TLAPS

----------------------------------------------------------------------------
(* Titles: the inductive invariant. But for the filter it is about one     *)
(* phrase at a time: its row r, its task k, the delivery h of that, and    *)
(* the tasks, the answers and the deaths s of its history.                 *)

Histories == [queued: 0..1, paid: Nat, died: Nat]

PhraseTypeOK(r, k, h, s) ==
  /\ r \in T!SuggestionRows
  /\ k \in [status: {"absent", "pending", "running", "succeeded", "failed"}, tries: 0..MaxTries]
  /\ h \in [at: {"none", "call", "answered"}, others: SUBSET T!Titles]
  /\ s \in Histories

\* A waiting task has a try left, and a running one has spent one; a phrase never
\* asked about has no task; a delivery has a task that runs and a phrase without its
\* answer; what was paid for was lost with a process, is in the thread's hands, or is
\* stored; and a phrase that waits is waited for.
PhraseOK(r, k, h, s) ==
  /\ k.status = "pending" => k.tries < MaxTries
  /\ k.status = "running" => k.tries > 0
  /\ r.status = "absent" => k.status = "absent" /\ s.queued = 0
  /\ h.at # "none" => k.status = "running" /\ r.status # "done"
  /\ h.at # "answered" /\ r.status # "done" => s.paid <= s.died
  /\ s.paid <= 1 + s.died
  /\ r.status = "pending" => k.status \in {"pending", "running"} \/ s.died > 0
  /\ k.status = "succeeded" => r.status = "done"

\* The filter, and one read for a press of "add these", is of chosen titles.
ChosenInv ==
  /\ wanted \subseteq T!Titles
  /\ saved.includes \subseteq wanted
  /\ \A a \in Accepts : accepting[a].at = "read" =>
       accepting[a].read # None /\ accepting[a].read.includes \subseteq wanted

TitlesInv ==
  /\ T!TitlesTypeOK /\ spent \in [T!Titles -> Histories]
  /\ ChosenInv
  /\ \A p \in T!Titles : PhraseOK(row[p], task[p], thread[p], spent[p])

\* What a call that answers, and a process that dies, add to a phrase's history.
LEMMA HistoryGrows ==
  ASSUME NEW s \in Histories
  PROVE  /\ [s EXCEPT !.paid = @ + 1] = [queued |-> s.queued, paid |-> s.paid + 1, died |-> s.died]
         /\ [s EXCEPT !.died = @ + 1] = [queued |-> s.queued, paid |-> s.paid, died |-> s.died + 1]
BY DEF Histories

LEMMA TitlesStart == T!TitlesInit => TitlesInv
BY TriesAssumption DEF T!TitlesInit, TitlesInv, T!TitlesTypeOK, T!JobFilters, T!Modes,
     T!SuggestionRows, T!NoRow, T!NoTask, T!Idle, T!NotAccepting, Histories, ChosenInv,
     PhraseOK

\* A phrase with its columns.
LEMMA PhraseTypes ==
  ASSUME TitlesInv, NEW p \in T!Titles
  PROVE  /\ PhraseTypeOK(row[p], task[p], thread[p], spent[p])
         /\ PhraseOK(row[p], task[p], thread[p], spent[p])
BY DEF TitlesInv, T!TitlesTypeOK, PhraseTypeOK

\* A step of one phrase keeps the invariant when it keeps that phrase's part.
LEMMA OnePhrase ==
  ASSUME TitlesInv, NEW p \in T!Titles, NEW r, NEW k, NEW h, NEW s,
         PhraseTypeOK(r, k, h, s), PhraseOK(r, k, h, s),
         row' = [row EXCEPT ![p] = r], task' = [task EXCEPT ![p] = k],
         thread' = [thread EXCEPT ![p] = h], spent' = [spent EXCEPT ![p] = s],
         UNCHANGED <<saved, hasKey, accepting, wanted>>
  PROVE  TitlesInv'
<1>1. T!TitlesTypeOK' /\ (spent \in [T!Titles -> Histories])'
  BY DEF TitlesInv, T!TitlesTypeOK, PhraseTypeOK
<1>2. ChosenInv'
  BY DEF TitlesInv, ChosenInv
<1>3. \A q \in T!Titles : PhraseOK(row'[q], task'[q], thread'[q], spent'[q])
  BY DEF TitlesInv, T!TitlesTypeOK
<1> QED BY <1>1, <1>2, <1>3 DEF TitlesInv

\* Phrases are queued at most once, whatever the filter says.
LEMMA EnqueueOK ==
  ASSUME TitlesInv, NEW S \in SUBSET T!Titles, T!EnqueueTitleSuggestions(S),
         UNCHANGED thread
  PROVE  /\ row' \in [T!Titles -> T!SuggestionRows]
         /\ task' \in [T!Titles -> [status: {"absent", "pending", "running", "succeeded", "failed"},
                                    tries: 0..MaxTries]]
         /\ spent' \in [T!Titles -> Histories]
         /\ \A q \in T!Titles : PhraseOK(row'[q], task'[q], thread'[q], spent'[q])
<1>1. ASSUME NEW q \in T!Titles
      PROVE  PhraseTypeOK(row'[q], task'[q], thread'[q], spent'[q])
             /\ PhraseOK(row'[q], task'[q], thread'[q], spent'[q])
  <2>1. PhraseTypeOK(row[q], task[q], thread[q], spent[q])
        /\ PhraseOK(row[q], task[q], thread[q], spent[q])
    BY PhraseTypes
  <2>2. CASE q \in T!NeverAsked(S)
    <3>1. row[q].status = "absent"
      BY <2>2 DEF T!NeverAsked
    <3>2. /\ row'[q] = [row[q] EXCEPT !.status = "pending"]
          /\ task'[q] = [status |-> "pending", tries |-> 0]
          /\ spent'[q] = [spent[q] EXCEPT !.queued = @ + 1]
      BY <2>2 DEF T!EnqueueTitleSuggestions
    <3> QED BY <2>1, <3>1, <3>2, TriesAssumption
         DEF PhraseTypeOK, PhraseOK, T!SuggestionRows, Histories
  <2>3. CASE q \notin T!NeverAsked(S)
    BY <2>1, <2>3 DEF T!EnqueueTitleSuggestions
  <2> QED BY <2>2, <2>3
<1>2. /\ row' = [q \in T!Titles |-> row'[q]]
      /\ task' = [q \in T!Titles |-> task'[q]]
      /\ spent' = [q \in T!Titles |-> spent'[q]]
  BY DEF T!EnqueueTitleSuggestions
<1> QED BY <1>1, <1>2 DEF PhraseTypeOK

LEMMA TitlesStep ==
  ASSUME TitlesInv, T!TitlesNext
  PROVE  TitlesInv'
<1> USE DEF T!SuggestionRows, Histories
<1>1. ASSUME NEW m \in T!Modes, NEW includes \in SUBSET T!Titles, T!SaveFilter(m, includes)
      PROVE  TitlesInv'
  <2>1. \/ T!EnqueueTitleSuggestions(includes)
        \/ UNCHANGED <<row, task, spent>>
    BY <1>1 DEF T!SaveFilter
  <2>2. /\ spent' \in [T!Titles -> Histories]
        /\ row' \in [T!Titles -> T!SuggestionRows]
        /\ task' \in [T!Titles -> [status: {"absent", "pending", "running", "succeeded", "failed"},
                                   tries: 0..MaxTries]]
        /\ \A q \in T!Titles : PhraseOK(row'[q], task'[q], thread'[q], spent'[q])
    BY <1>1, <2>1, EnqueueOK DEF T!SaveFilter, TitlesInv, T!TitlesTypeOK
  <2>3. T!TitlesTypeOK' /\ ChosenInv'
    BY <1>1, <2>2 DEF T!SaveFilter, TitlesInv, T!TitlesTypeOK, T!JobFilters, ChosenInv
  <2> QED BY <2>2, <2>3 DEF TitlesInv
<1>2. ASSUME T!SuggestMissing
      PROVE  TitlesInv'
  <2>1. saved.includes \in SUBSET T!Titles
    BY DEF TitlesInv, T!TitlesTypeOK, T!JobFilters
  <2>2. /\ spent' \in [T!Titles -> Histories]
        /\ row' \in [T!Titles -> T!SuggestionRows]
        /\ task' \in [T!Titles -> [status: {"absent", "pending", "running", "succeeded", "failed"},
                                   tries: 0..MaxTries]]
        /\ \A q \in T!Titles : PhraseOK(row'[q], task'[q], thread'[q], spent'[q])
    BY <1>2, <2>1, EnqueueOK DEF T!SuggestMissing
  <2>3. T!TitlesTypeOK' /\ ChosenInv'
    BY <1>2, <2>2 DEF T!SuggestMissing, TitlesInv, T!TitlesTypeOK, ChosenInv
  <2> QED BY <2>2, <2>3 DEF TitlesInv
<1>3. ASSUME T!KeyIsStored
      PROVE  TitlesInv'
  BY <1>3 DEF T!KeyIsStored, TitlesInv, T!TitlesTypeOK, ChosenInv
<1>4. ASSUME NEW a \in Accepts, NEW p \in T!Titles, NEW ticked \in SUBSET T!Titles,
             T!BeginAccept(a, p, ticked)
      PROVE  TitlesInv'
  <2>1. ChosenInv'
    BY <1>4, NoneAssumption DEF T!BeginAccept, TitlesInv, T!TitlesTypeOK, T!JobFilters, ChosenInv
  <2>2. T!TitlesTypeOK'
    BY <1>4 DEF T!BeginAccept, TitlesInv, T!TitlesTypeOK
  <2>3. \A q \in T!Titles : PhraseOK(row'[q], task'[q], thread'[q], spent'[q])
    BY <1>4 DEF T!BeginAccept, TitlesInv
  <2> QED BY <1>4, <2>1, <2>2, <2>3 DEF T!BeginAccept, TitlesInv
<1>5. ASSUME NEW a \in Accepts, T!CommitAccept(a)
      PROVE  TitlesInv'
  <2>1. /\ accepting[a].at = "read" /\ accepting[a].read \in T!JobFilters
        /\ accepting[a].ticked \subseteq T!Titles
        /\ accepting[a].read.includes \subseteq wanted
    BY <1>5 DEF T!CommitAccept, TitlesInv, T!TitlesTypeOK, ChosenInv
  <2>2. ChosenInv'
    BY <1>5, <2>1 DEF T!CommitAccept, TitlesInv, T!TitlesTypeOK, T!NotAccepting, ChosenInv
  <2>3. T!TitlesTypeOK'
    BY <1>5, <2>1 DEF T!CommitAccept, TitlesInv, T!TitlesTypeOK, T!JobFilters, T!Modes, T!NotAccepting
  <2> QED BY <1>5, <2>2, <2>3 DEF T!CommitAccept, TitlesInv
<1>6. ASSUME NEW p \in T!Titles
      PROVE  /\ T!Dismiss(p) \/ T!Answers(p) \/ T!Succeed(p) \/ T!Blocked(p) \/ T!Dies(p)
                  => TitlesInv'
             /\ \A answer \in SUBSET T!Titles : T!MarkDone(p, answer) => TitlesInv'
             /\ \A unsealed \in BOOLEAN : T!Claim(p, unsealed) => TitlesInv'
             /\ \A permanent \in BOOLEAN : T!CallFails(p, permanent) => TitlesInv'
  <2> DEFINE r == row[p]
             k == task[p]
             h == thread[p]
             s == spent[p]
             failed == [r EXCEPT !.status = "failed"]
             retried == [k EXCEPT !.status = IF k.tries < MaxTries THEN "pending" ELSE "failed"]
  <2>1. /\ PhraseTypeOK(r, k, h, s) /\ PhraseOK(r, k, h, s)
        /\ row \in [T!Titles -> T!SuggestionRows]
        /\ task \in [T!Titles -> [status: {"absent", "pending", "running", "succeeded", "failed"},
                                  tries: 0..MaxTries]]
        /\ thread \in [T!Titles -> [at: {"none", "call", "answered"}, others: SUBSET T!Titles]]
        /\ spent \in [T!Titles -> Histories]
    BY PhraseTypes DEF TitlesInv, T!TitlesTypeOK
  <2>2. /\ row = [row EXCEPT ![p] = r] /\ task = [task EXCEPT ![p] = k]
        /\ thread = [thread EXCEPT ![p] = h] /\ spent = [spent EXCEPT ![p] = s]
    BY <2>1
  <2>3. T!Idle \in [at: {"none", "call", "answered"}, others: SUBSET T!Titles] /\ T!Idle.at = "none"
    BY DEF T!Idle
  <2> USE TriesAssumption
  <2>4. CASE T!Dismiss(p)
    <3> DEFINE rNew == [r EXCEPT !.dismissed = TRUE]
    <3>1. PhraseTypeOK(rNew, k, h, s) /\ PhraseOK(rNew, k, h, s)
      BY <2>1 DEF PhraseTypeOK, PhraseOK
    <3>2. /\ row' = [row EXCEPT ![p] = rNew] /\ task' = [task EXCEPT ![p] = k]
          /\ thread' = [thread EXCEPT ![p] = h] /\ spent' = [spent EXCEPT ![p] = s]
          /\ UNCHANGED <<saved, hasKey, accepting, wanted>>
      BY <2>4, <2>1, <2>2 DEF T!Dismiss, T!DismissRow
    <3> QED BY <3>1, <3>2, OnePhrase
  <2>5. CASE T!Answers(p)
    <3> DEFINE hNew == [h EXCEPT !.at = "answered"]
               sNew == [s EXCEPT !.paid = @ + 1]
    <3>1. s.queued \in 0..1 /\ s.paid \in Nat /\ s.died \in Nat /\ s.paid <= s.died
      BY <2>1, <2>5 DEF PhraseTypeOK, PhraseOK, T!Answers
    <3>2. sNew = [queued |-> s.queued, paid |-> s.paid + 1, died |-> s.died]
      <4>1. s \in Histories
        BY <2>1 DEF PhraseTypeOK
      <4> HIDE DEF s
      <4> QED BY <4>1, HistoryGrows
    <3>3. hNew = [at |-> "answered", others |-> h.others]
      BY <2>1 DEF PhraseTypeOK
    <3>4. PhraseTypeOK(r, k, hNew, sNew)
      <4>1. r \in T!SuggestionRows /\ h.others \in SUBSET T!Titles
            /\ k \in [status: {"absent", "pending", "running", "succeeded", "failed"}, tries: 0..MaxTries]
        BY <2>1 DEF PhraseTypeOK
      <4>2. hNew \in [at: {"none", "call", "answered"}, others: SUBSET T!Titles]
        BY <3>3, <4>1
      <4>3. s.paid + 1 \in Nat /\ s.paid + 1 <= s.died + 1
        BY <3>1
      <4>4. sNew \in Histories
        BY <3>1, <3>2, <4>3 DEF Histories
      <4> QED BY <4>1, <4>2, <4>4 DEF PhraseTypeOK
    <3>5. PhraseOK(r, k, hNew, sNew)
      BY <2>1, <2>5, <3>1, <3>2, <3>3 DEF PhraseTypeOK, PhraseOK, T!Answers
    <3>6. PhraseTypeOK(r, k, hNew, sNew) /\ PhraseOK(r, k, hNew, sNew)
      BY <3>4, <3>5
    <3>7. /\ row' = [row EXCEPT ![p] = r] /\ task' = [task EXCEPT ![p] = k]
          /\ thread' = [thread EXCEPT ![p] = hNew] /\ spent' = [spent EXCEPT ![p] = sNew]
          /\ UNCHANGED <<saved, hasKey, accepting, wanted>>
      BY <2>5, <2>1, <2>2 DEF T!Answers
    <3> QED BY <3>6, <3>7, OnePhrase
  <2>6. CASE T!Succeed(p)
    <3> DEFINE kNew == [k EXCEPT !.status = "succeeded"]
    <3>1. PhraseTypeOK(r, kNew, h, s) /\ PhraseOK(r, kNew, h, s)
      BY <2>1, <2>3, <2>6 DEF PhraseTypeOK, PhraseOK, T!Succeed
    <3>2. /\ row' = [row EXCEPT ![p] = r] /\ task' = [task EXCEPT ![p] = kNew]
          /\ thread' = [thread EXCEPT ![p] = h] /\ spent' = [spent EXCEPT ![p] = s]
          /\ UNCHANGED <<saved, hasKey, accepting, wanted>>
      BY <2>6, <2>1, <2>2 DEF T!Succeed, T!Ends
    <3> QED BY <3>1, <3>2, OnePhrase
  <2>7. CASE T!Blocked(p)
    <3> DEFINE kNew == [status |-> "pending", tries |-> k.tries - 1]
    <3>1. PhraseTypeOK(r, kNew, T!Idle, s) /\ PhraseOK(r, kNew, T!Idle, s)
      BY <2>1, <2>3, <2>7 DEF PhraseTypeOK, PhraseOK, T!Blocked
    <3>2. /\ row' = [row EXCEPT ![p] = r] /\ task' = [task EXCEPT ![p] = kNew]
          /\ thread' = [thread EXCEPT ![p] = T!Idle] /\ spent' = [spent EXCEPT ![p] = s]
          /\ UNCHANGED <<saved, hasKey, accepting, wanted>>
      BY <2>7, <2>1, <2>2 DEF T!Blocked
    <3> QED BY <3>1, <3>2, OnePhrase
  <2>8. CASE T!Dies(p)
    <3> DEFINE sNew == [s EXCEPT !.died = @ + 1]
    <3>1. /\ s.queued \in 0..1 /\ s.paid \in Nat /\ s.died \in Nat
          /\ s.paid <= s.died + 1 /\ k.status = "running"
      BY <2>1, <2>8 DEF PhraseTypeOK, PhraseOK, T!Dies
    <3>2. sNew = [queued |-> s.queued, paid |-> s.paid, died |-> s.died + 1]
      <4>1. s \in Histories
        BY <2>1 DEF PhraseTypeOK
      <4> HIDE DEF s
      <4> QED BY <4>1, HistoryGrows
    <3>3. PhraseTypeOK(r, retried, T!Idle, sNew) /\ PhraseOK(r, retried, T!Idle, sNew)
      <4>1. /\ retried.status \in {"pending", "failed"} /\ retried.tries \in 0..MaxTries
            /\ retried.status = "pending" => retried.tries < MaxTries
            /\ retried \in [status: {"absent", "pending", "running", "succeeded", "failed"},
                            tries: 0..MaxTries]
        BY <2>1
      <4>2. /\ sNew.queued = s.queued /\ sNew.paid = s.paid /\ sNew.died > 0
            /\ sNew.paid <= sNew.died /\ sNew \in Histories
        BY <3>1, <3>2
      <4>3. r.status # "absent" /\ r \in T!SuggestionRows
        BY <2>1, <3>1 DEF PhraseOK
      <4> HIDE DEF retried, sNew, r
      <4>4. PhraseTypeOK(r, retried, T!Idle, sNew)
        BY <2>3, <4>1, <4>2, <4>3 DEF PhraseTypeOK
      <4>5. PhraseOK(r, retried, T!Idle, sNew)
        BY <2>3, <4>1, <4>2, <4>3 DEF PhraseOK
      <4> QED BY <4>4, <4>5
    <3>4. /\ row' = [row EXCEPT ![p] = r] /\ task' = [task EXCEPT ![p] = retried]
          /\ thread' = [thread EXCEPT ![p] = T!Idle] /\ spent' = [spent EXCEPT ![p] = sNew]
          /\ UNCHANGED <<saved, hasKey, accepting, wanted>>
      BY <2>8, <2>1, <2>2 DEF T!Dies, T!Retries, T!Ends
    <3> QED BY <3>3, <3>4, OnePhrase
  <2>9. ASSUME NEW answer \in SUBSET T!Titles, T!MarkDone(p, answer)
        PROVE  TitlesInv'
    <3>1. PICK offered \in T!Sanitise(answer, p, h.others) :
            row' = [row EXCEPT ![p] = [r EXCEPT !.status = "done", !.offered = offered]]
      BY <2>9, <2>1 DEF T!MarkDone
    <3>2. offered \in SUBSET T!Titles
      BY <2>9, <3>1 DEF T!Sanitise
    <3> DEFINE rNew == [r EXCEPT !.status = "done", !.offered = offered]
    <3>3. PhraseTypeOK(rNew, k, T!Idle, s) /\ PhraseOK(rNew, k, T!Idle, s)
      BY <2>1, <2>3, <2>9, <3>2 DEF PhraseTypeOK, PhraseOK, T!MarkDone
    <3>4. /\ row' = [row EXCEPT ![p] = rNew] /\ task' = [task EXCEPT ![p] = k]
          /\ thread' = [thread EXCEPT ![p] = T!Idle] /\ spent' = [spent EXCEPT ![p] = s]
          /\ UNCHANGED <<saved, hasKey, accepting, wanted>>
      BY <2>9, <2>1, <2>2, <3>1 DEF T!MarkDone
    <3> QED BY <3>3, <3>4, OnePhrase
  <2>10. ASSUME NEW unsealed \in BOOLEAN, T!Claim(p, unsealed)
         PROVE  TitlesInv'
    <3>1. h = T!Idle /\ k.status = "pending"
      BY <2>10 DEF T!Claim
    <3>2. CASE r.status = "done"
      <4> DEFINE kNew == [status |-> "succeeded", tries |-> k.tries + 1]
      <4>1. PhraseTypeOK(r, kNew, h, s) /\ PhraseOK(r, kNew, h, s)
        BY <2>1, <2>3, <3>1, <3>2 DEF PhraseTypeOK, PhraseOK
      <4>2. /\ row' = [row EXCEPT ![p] = r] /\ task' = [task EXCEPT ![p] = kNew]
            /\ thread' = [thread EXCEPT ![p] = h] /\ spent' = [spent EXCEPT ![p] = s]
            /\ UNCHANGED <<saved, hasKey, accepting, wanted>>
        BY <2>10, <2>1, <2>2, <3>2 DEF T!Claim, T!AlreadyAnswered
      <4> QED BY <4>1, <4>2, OnePhrase
    <3>3. CASE r.status # "done" /\ unsealed
      <4> DEFINE kNew == [status |-> "running", tries |-> k.tries + 1]
                 hNew == [at |-> "call", others |-> saved.includes \ {p}]
      <4>1. PhraseTypeOK(r, kNew, hNew, s) /\ PhraseOK(r, kNew, hNew, s)
        BY <2>1, <2>3, <3>1, <3>3 DEF PhraseTypeOK, PhraseOK, TitlesInv, T!TitlesTypeOK, T!JobFilters
      <4>2. /\ row' = [row EXCEPT ![p] = r] /\ task' = [task EXCEPT ![p] = kNew]
            /\ thread' = [thread EXCEPT ![p] = hNew] /\ spent' = [spent EXCEPT ![p] = s]
            /\ UNCHANGED <<saved, hasKey, accepting, wanted>>
        BY <2>10, <2>1, <2>2, <3>3 DEF T!Claim, T!AlreadyAnswered
      <4> QED BY <4>1, <4>2, OnePhrase
    <3>4. CASE r.status # "done" /\ ~unsealed
      <4> DEFINE kNew == [status |-> "failed", tries |-> k.tries + 1]
      <4>1. failed \in T!SuggestionRows /\ failed.status = "failed"
        BY <2>1 DEF PhraseTypeOK
      <4> HIDE DEF failed
      <4>3. PhraseTypeOK(failed, kNew, h, s) /\ PhraseOK(failed, kNew, h, s)
        BY <2>1, <2>3, <3>1, <3>4, <4>1 DEF PhraseTypeOK, PhraseOK
      <4>2. /\ row' = [row EXCEPT ![p] = failed] /\ task' = [task EXCEPT ![p] = kNew]
            /\ thread' = [thread EXCEPT ![p] = h] /\ spent' = [spent EXCEPT ![p] = s]
            /\ UNCHANGED <<saved, hasKey, accepting, wanted>>
        BY <2>10, <2>1, <2>2, <3>4 DEF T!Claim, T!AlreadyAnswered, T!MarkFailed, failed
      <4> QED BY <4>2, <4>3, OnePhrase
    <3> QED BY <3>2, <3>3, <3>4
  <2>11. ASSUME NEW permanent \in BOOLEAN, T!CallFails(p, permanent)
         PROVE  TitlesInv'
    <3> DEFINE kNew == IF permanent THEN [k EXCEPT !.status = "failed"] ELSE retried
    <3>1. PhraseTypeOK(failed, kNew, T!Idle, s) /\ PhraseOK(failed, kNew, T!Idle, s)
      BY <2>1, <2>3, <2>11 DEF PhraseTypeOK, PhraseOK, T!CallFails
    <3>2. /\ row' = [row EXCEPT ![p] = failed] /\ task' = [task EXCEPT ![p] = kNew]
          /\ thread' = [thread EXCEPT ![p] = T!Idle] /\ spent' = [spent EXCEPT ![p] = s]
          /\ UNCHANGED <<saved, hasKey, accepting, wanted>>
      BY <2>11, <2>1, <2>2 DEF T!CallFails, T!MarkFailed, T!Ends, T!Retries
    <3> QED BY <3>1, <3>2, OnePhrase
  <2> QED BY <2>4, <2>5, <2>6, <2>7, <2>8, <2>9, <2>10, <2>11
<1> QED BY <1>1, <1>2, <1>3, <1>4, <1>5, <1>6 DEF T!TitlesNext

LEMMA TitlesConclude ==
  ASSUME TitlesInv
  PROVE  T!OnlyChosenTitles /\ T!AskedOnce /\ T!WaitingHasTask
<1>1. \A p \in T!Titles : spent[p] \in Histories
  BY DEF TitlesInv
<1> QED BY <1>1 DEF TitlesInv, ChosenInv, PhraseOK, Histories, T!OnlyChosenTitles, T!AskedOnce, T!WaitingHasTask

----------------------------------------------------------------------------
(* The key.                                                                *)

\* A call in progress is with the stored key, unless that was saved while it ran; one
\* refused has raised the banner, unless another call went through since.
KeyInv ==
  /\ K!KeyTypeOK
  /\ \A t \in Works : work[t].at \in {"calling", "refused"} => call[t] = stored \/ t \in crossed
  /\ \A t \in Works : work[t].at = "refused" =>
       health # "ok" \/ refusal[t].since \/ t \in crossed
  /\ K!HeldByTheStoredKey /\ K!HeldUnderTheBanner

LEMMA KeyStart == K!KeyInit => KeyInv
BY DEF K!KeyInit, KeyInv, K!KeyTypeOK, K!HeldByTheStoredKey, K!HeldUnderTheBanner,
     K!Healths, K!AccountBlocks, K!TaskStates, K!Refusals

LEMMA KeyStep ==
  ASSUME KeyInv, K!KeyNext
  PROVE  KeyInv'
<1> USE DEF K!TaskStates, K!Refusals, K!Moves, K!HeldByTheStoredKey, K!HeldUnderTheBanner
<1>1. ASSUME NEW t \in Works, K!Enqueue(t)
      PROVE  KeyInv'
  BY <1>1 DEF KeyInv, K!KeyTypeOK, K!Enqueue
<1>2. ASSUME NEW t \in Works, K!Deliver(t)
      PROVE  KeyInv'
  BY <1>2 DEF KeyInv, K!KeyTypeOK, K!Deliver
<1>3. ASSUME NEW t \in Works, K!GoesThrough(t)
      PROVE  KeyInv'
  <2>1. K!KeyTypeOK'
    BY <1>3 DEF KeyInv, K!KeyTypeOK, K!GoesThrough, K!MarkOk, K!Healths
  <2>2. /\ \A s \in Works : refusal'[s].since /\ refusal'[s].of = refusal[s].of
                          /\ refusal'[s].crossed = refusal[s].crossed
        /\ work'[t].at = "called" /\ \A s \in Works \ {t} : work'[s] = work[s]
        /\ UNCHANGED <<stored, call, crossed>>
    BY <1>3 DEF KeyInv, K!KeyTypeOK, K!GoesThrough, K!MarkOk
  <2> QED BY <2>1, <2>2 DEF KeyInv
<1>4. ASSUME NEW t \in Works, K!HandlerEnds(t)
      PROVE  KeyInv'
  <2>1. CASE work' = [work EXCEPT ![t].at = "done"]
    BY <1>4, <2>1 DEF KeyInv, K!KeyTypeOK, K!HandlerEnds
  <2>2. CASE work' = [work EXCEPT ![t] = [at |-> "later", parked |-> FALSE]]
    BY <1>4, <2>2 DEF KeyInv, K!KeyTypeOK, K!HandlerEnds
  <2> QED BY <1>4, <2>1, <2>2 DEF K!HandlerEnds
<1>5. ASSUME NEW t \in Works, K!ParkForAccount(t)
      PROVE  KeyInv'
  <2>1. K!KeyTypeOK'
    BY <1>5 DEF KeyInv, K!KeyTypeOK, K!ParkForAccount
  <2>2. /\ \A s \in Works : refusal'[s].of = refusal[s].of
                          /\ refusal'[s].crossed = refusal[s].crossed
        /\ health' # "ok" /\ work[t].at = "calling" /\ work'[t].at = "refused"
        /\ \A s \in Works \ {t} : work'[s] = work[s]
        /\ UNCHANGED <<stored, call, crossed>>
    BY <1>5 DEF KeyInv, K!KeyTypeOK, K!ParkForAccount
  <2> QED BY <2>1, <2>2 DEF KeyInv
<1>6. ASSUME NEW t \in Works, K!ParkUserTasks(t)
      PROVE  KeyInv'
  <2>1. PICK others \in SUBSET {s \in Works \ {t} : K!Pending(s)} :
          /\ work' = [s \in Works |-> IF s = t \/ s \in others
                                      THEN [at |-> "later", parked |-> TRUE] ELSE work[s]]
          /\ refusal' = [s \in Works |->
               IF s = t \/ s \in others
               THEN [of |-> call[t], crossed |-> t \in crossed, since |-> refusal[t].since]
               ELSE refusal[s]]
    BY <1>6 DEF K!ParkUserTasks
  <2>2. /\ call[t] = stored \/ t \in crossed
        /\ health # "ok" \/ refusal[t].since \/ t \in crossed
        /\ UNCHANGED <<stored, account, health, call, crossed>>
    BY <1>6 DEF K!ParkUserTasks, KeyInv
  <2>3. K!KeyTypeOK'
    BY <2>1, <2>2 DEF KeyInv, K!KeyTypeOK
  <2>4. \A s \in Works : s = t \/ s \in others =>
          work'[s].at = "later" /\ refusal'[s].of = call[t]
          /\ refusal'[s].crossed = (t \in crossed) /\ refusal'[s].since = refusal[t].since
    BY <2>1
  <2>5. \A s \in Works : ~(s = t \/ s \in others) => work'[s] = work[s] /\ refusal'[s] = refusal[s]
    BY <2>1
  <2> QED BY <2>2, <2>3, <2>4, <2>5 DEF KeyInv
<1>7. ASSUME NEW t \in Works, K!DelayPasses(t)
      PROVE  KeyInv'
  BY <1>7 DEF KeyInv, K!KeyTypeOK, K!DelayPasses
<1>8. ASSUME NEW k \in Keys, K!SaveApiKey(k)
      PROVE  KeyInv'
  BY <1>8 DEF KeyInv, K!KeyTypeOK, K!SaveApiKey, K!ResumeParked, K!Parked, K!Pending, K!Healths
<1>9. ASSUME NEW k \in Keys, K!AccountChanges(k)
      PROVE  KeyInv'
  BY <1>9 DEF KeyInv, K!KeyTypeOK, K!AccountChanges, K!Healths, K!AccountBlocks
<1>10. ASSUME K!RetryParkedWork
      PROVE  KeyInv'
  BY <1>10 DEF KeyInv, K!KeyTypeOK, K!RetryParkedWork, K!ResumeParked, K!Parked, K!Pending
<1> QED BY <1>1, <1>2, <1>3, <1>4, <1>5, <1>6, <1>7, <1>8, <1>9, <1>10 DEF K!KeyNext

----------------------------------------------------------------------------
(* Answers.                                                                *)

DeliveryRows == [at: {"none", "first", "second", "answered", "written"},
                 of: Attempts \union {None}, text: A!Texts, gate: A!Texts, assessment: A!Texts]
TaskRows == [status: {"absent", "pending", "running", "succeeded", "failed"}, tries: Int]

\* A row r of an attempt for which its user wrote the text x.
RowOK(r, x) ==
  /\ r.gate \in {None, r.text}
  /\ r.status # "absent" => r.kind \in {"user", "draft"}
  /\ r.kind = "user" => r.text = x /\ x # None
  /\ r.status = "done" => /\ r.gate = r.text /\ r.text # None
                          /\ r.assessment = IF r.kind = "user" THEN r.text ELSE None

\* A delivery d of it: what the calls made of the text it has in hand.
DeliveryOK(d, r, x) ==
  /\ r.status # "absent"
  /\ r.kind = "user" =>
       /\ d.text = x
       /\ d.gate = IF d.at = "first" THEN None ELSE x
       /\ d.assessment = IF d.at \in {"first", "second"} THEN None ELSE x
  /\ r.kind = "draft" =>
       /\ d.at # "first" => d.text # None
       /\ d.gate = IF d.at \in {"first", "second"} THEN None ELSE d.text
       /\ d.assessment = None

Held(d) == delivery[d].at # "none"

\* Until its task is swept an attempt has one delivery at most, while its task runs.
SoleInv ==
  \A d \in Deliveries : Held(d) /\ delivery[d].of \notin swept =>
    /\ queued[delivery[d].of].status = "running"
    /\ delivery[d].at = "written" => attempt[delivery[d].of].status = "done"
    /\ \A e \in Deliveries : Held(e) /\ delivery[e].of = delivery[d].of => e = d

AnswersTypes ==
  /\ hasKey \in BOOLEAN /\ required \in BOOLEAN
  /\ attempt \in [Attempts -> A!AnswerRows]
  /\ queued \in [Attempts -> TaskRows]
  /\ delivery \in [Deliveries -> DeliveryRows]
  /\ wrote \in [Attempts -> A!Texts]
  /\ swept \subseteq Attempts

AnswersInv ==
  /\ AnswersTypes
  /\ \A a \in Attempts : /\ RowOK(attempt[a], wrote[a])
                         /\ attempt[a].status = "absent" => queued[a].status = "absent"
  /\ \A d \in Deliveries :
       /\ ~Held(d) => delivery[d] = A!NoDelivery
       /\ Held(d) => /\ delivery[d].of \in Attempts
                     /\ DeliveryOK(delivery[d], attempt[delivery[d].of], wrote[delivery[d].of])
  /\ SoleInv
  /\ A!WaitingHasTask

LEMMA AnswersStart == A!AnswersInit => AnswersInv
BY NoneAssumption DEF A!AnswersInit, AnswersInv, AnswersTypes, A!AnswerRows, A!Kinds, A!Texts,
     A!NoAnswer, A!Unqueued, A!NoDelivery, DeliveryRows, TaskRows, RowOK, Held, SoleInv,
     A!WaitingHasTask

\* A step of attempt a and delivery d: a's row, its task and the delivery are written
\* anew, and nothing else is.
LEMMA OneAnswer ==
  ASSUME AnswersInv, NEW a \in Attempts, NEW d \in Deliveries,
         NEW r \in A!AnswerRows, NEW k \in TaskRows, NEW h \in DeliveryRows,
         Held(d) => delivery[d].of = a, h.at # "none" => h.of = a,
         h.at = "none" => h = A!NoDelivery,
         attempt' = [attempt EXCEPT ![a] = r], queued' = [queued EXCEPT ![a] = k],
         delivery' = [delivery EXCEPT ![d] = h], UNCHANGED <<hasKey, required, wrote, swept>>,
         RowOK(r, wrote[a]), r.kind = attempt[a].kind, r.status # "absent",
         h.at # "none" => DeliveryOK(h, r, wrote[a]),
         a \notin swept =>
           /\ \A e \in Deliveries \ {d} : ~(Held(e) /\ delivery[e].of = a)
           /\ h.at # "none" => k.status = "running"
           /\ h.at = "written" => r.status = "done"
           /\ r.status = "pending" => k.status \in {"pending", "running"}
           /\ k.status = "succeeded" => r.status = "done"
  PROVE  AnswersInv'
<1>1. AnswersTypes'
  BY DEF AnswersInv, AnswersTypes
<1>2. \A b \in Attempts : /\ RowOK(attempt'[b], wrote'[b])
                          /\ attempt'[b].status = "absent" => queued'[b].status = "absent"
  BY DEF AnswersInv, AnswersTypes
<1>3. \A e \in Deliveries :
        /\ ~Held(e)' => delivery'[e] = A!NoDelivery
        /\ Held(e)' => /\ delivery'[e].of \in Attempts
                       /\ DeliveryOK(delivery'[e], attempt'[delivery'[e].of], wrote'[delivery'[e].of])
  BY DEF AnswersInv, AnswersTypes, Held, DeliveryOK
<1>4. SoleInv'
  BY DEF AnswersInv, AnswersTypes, SoleInv, Held
<1>5. (A!WaitingHasTask)'
  BY DEF AnswersInv, AnswersTypes, A!WaitingHasTask
<1> QED BY <1>1, <1>2, <1>3, <1>4, <1>5 DEF AnswersInv

LEMMA AnswersStep ==
  ASSUME AnswersInv, A!AnswersNext
  PROVE  AnswersInv'
<1>1. ASSUME A!SettingChanges
      PROVE  AnswersInv'
  BY <1>1 DEF A!SettingChanges, AnswersInv, AnswersTypes, SoleInv, Held, A!WaitingHasTask
<1>2. ASSUME NEW a \in Attempts, NEW kind \in A!Kinds, NEW text \in A!Texts,
             kind = "user" => text # None, A!Press(a, kind, text)
      PROVE  AnswersInv'
  <2> DEFINE r == [kind |-> kind, status |-> "pending", text |-> text, gate |-> None,
                   assessment |-> None]
             k == [status |-> "pending", tries |-> 0]
  <2>1. /\ attempt' = [attempt EXCEPT ![a] = r]
        /\ queued' = [queued EXCEPT ![a] = k]
        /\ wrote' = [wrote EXCEPT ![a] = text]
        /\ UNCHANGED <<hasKey, required, delivery, swept>>
        /\ attempt[a].status = "absent"
    BY <1>2 DEF A!Press
  <2>2. AnswersTypes'
    BY <2>1 DEF AnswersInv, AnswersTypes, A!AnswerRows, A!Texts, TaskRows
  <2>3. \A d \in Deliveries : Held(d) => delivery[d].of # a
    BY <2>1 DEF AnswersInv, DeliveryOK
  <2>4. RowOK(r, text)
    BY <1>2 DEF RowOK, A!Kinds
  <2>5. \A b \in Attempts : /\ RowOK(attempt'[b], wrote'[b])
                            /\ attempt'[b].status = "absent" => queued'[b].status = "absent"
    BY <2>1, <2>4 DEF AnswersInv, AnswersTypes
  <2>6. SoleInv'
    BY <2>1, <2>3 DEF AnswersInv, AnswersTypes, SoleInv, Held
  <2>7. (A!WaitingHasTask)'
    BY <2>1 DEF AnswersInv, AnswersTypes, A!WaitingHasTask
  <2>8. \A e \in Deliveries :
          /\ ~Held(e)' => delivery'[e] = A!NoDelivery
          /\ Held(e)' => /\ delivery'[e].of \in Attempts
                         /\ DeliveryOK(delivery'[e], attempt'[delivery'[e].of], wrote'[delivery'[e].of])
    BY <2>1, <2>3 DEF AnswersInv, AnswersTypes, Held
  <2> QED BY <2>2, <2>5, <2>6, <2>7, <2>8 DEF AnswersInv
<1>3. ASSUME NEW a \in Attempts, A!Sweep(a)
      PROVE  AnswersInv'
  <2>1. AnswersTypes'
    BY <1>3 DEF A!Sweep, AnswersInv, AnswersTypes, TaskRows, A!Again
  <2>2. SoleInv' /\ (A!WaitingHasTask)'
    BY <1>3 DEF A!Sweep, AnswersInv, AnswersTypes, SoleInv, Held, A!WaitingHasTask
  <2> QED BY <1>3, <2>1, <2>2 DEF A!Sweep, AnswersInv, AnswersTypes, Held
<1>4. ASSUME NEW d \in Deliveries, NEW a \in Attempts, A!Claim(d, a)
      PROVE  AnswersInv'
  <2> DEFINE r == attempt[a]
             h == delivery[d]
             failed == [r EXCEPT !.status = "failed"]
             k(status) == [status |-> status, tries |-> queued[a].tries + 1]
             begun == [at |-> "first", of |-> a, text |-> r.text, gate |-> None,
                       assessment |-> None]
  <2>1. /\ r \in A!AnswerRows /\ queued[a] \in TaskRows /\ h \in DeliveryRows
        /\ RowOK(r, wrote[a]) /\ r.status # "absent" /\ queued[a].status = "pending"
        /\ h = A!NoDelivery /\ ~Held(d)
        /\ a \notin swept => \A e \in Deliveries : ~(Held(e) /\ delivery[e].of = a)
    BY <1>4 DEF A!Claim, AnswersInv, AnswersTypes, Held, SoleInv, A!NoDelivery
  <2>2. /\ \A status \in {"succeeded", "failed", "running"} :
             /\ k(status) \in TaskRows
             /\ A!Claimed(a, status) => queued' = [queued EXCEPT ![a] = k(status)]
        /\ attempt = [attempt EXCEPT ![a] = r] /\ delivery = [delivery EXCEPT ![d] = h]
        /\ UNCHANGED <<hasKey, required, wrote, swept>>
    BY <2>1, <1>4 DEF AnswersInv, AnswersTypes, TaskRows, A!Claimed, A!Claim
  <2>3. CASE r.status = "done"
    <3> DEFINE kNew == k("succeeded")
    <3>1. A!Claimed(a, "succeeded") /\ UNCHANGED <<attempt, delivery>>
      BY <1>4, <2>3 DEF A!Claim
    <3>2. /\ attempt' = [attempt EXCEPT ![a] = r] /\ delivery' = [delivery EXCEPT ![d] = h]
          /\ queued' = [queued EXCEPT ![a] = kNew] /\ kNew \in TaskRows
      BY <2>2, <3>1
    <3>3. h.at = "none" /\ r.status # "pending" /\ kNew.status = "succeeded"
      BY <2>1, <2>3 DEF A!NoDelivery
    <3> HIDE DEF h, kNew
    <3> QED BY <2>1, <2>2, <2>3, <3>2, <3>3, OneAnswer
  <2>4. CASE r.status # "done" /\ A!CannotStart(a)
    <3> DEFINE kNew == k("failed")
    <3>1. A!Claimed(a, "failed") /\ A!MarkFailed(a) /\ UNCHANGED delivery
      BY <1>4, <2>4 DEF A!Claim
    <3>2. /\ attempt' = [attempt EXCEPT ![a] = failed] /\ delivery' = [delivery EXCEPT ![d] = h]
          /\ queued' = [queued EXCEPT ![a] = kNew] /\ kNew \in TaskRows
      BY <2>1, <2>2, <3>1 DEF A!MarkFailed, AnswersInv, AnswersTypes
    <3>3. /\ failed \in A!AnswerRows /\ RowOK(failed, wrote[a]) /\ failed.status = "failed"
          /\ failed.kind = attempt[a].kind
      BY <2>1 DEF A!AnswerRows, RowOK
    <3>4. h.at = "none" /\ kNew.status = "failed"
      BY <2>1 DEF A!NoDelivery
    <3> HIDE DEF h, kNew, failed
    <3> QED BY <2>1, <2>2, <3>2, <3>3, <3>4, OneAnswer
  <2>5. CASE r.status # "done" /\ ~A!CannotStart(a)
    <3> DEFINE kNew == k("running")
    <3>1. A!Claimed(a, "running") /\ UNCHANGED attempt /\ delivery' = [delivery EXCEPT ![d] = begun]
      BY <1>4, <2>5 DEF A!Claim
    <3>2. /\ attempt' = [attempt EXCEPT ![a] = r]
          /\ queued' = [queued EXCEPT ![a] = kNew] /\ kNew \in TaskRows
      BY <2>2, <3>1
    <3>3. /\ begun \in DeliveryRows /\ begun.at = "first" /\ begun.of = a
          /\ DeliveryOK(begun, r, wrote[a])
      BY <2>1 DEF A!AnswerRows, A!Texts, DeliveryRows, DeliveryOK, RowOK
    <3>4. kNew.status = "running"
      OBVIOUS
    <3>5. UNCHANGED <<hasKey, required, wrote, swept>> /\ r.kind = attempt[a].kind
      BY <1>4 DEF A!Claim
    <3> HIDE DEF begun, kNew, r
    <3> QED BY <2>1, <3>1, <3>2, <3>3, <3>4, <3>5, OneAnswer
  <2> QED BY <2>3, <2>4, <2>5
<1>5. ASSUME NEW d \in Deliveries, Held(d)
      PROVE  /\ A!FirstCall(d) \/ A!SecondCall(d) \/ A!MarkDone(d) \/ A!Complete(d)
                  \/ A!Blocked(d) \/ A!Dies(d) => AnswersInv'
             /\ \A permanent \in BOOLEAN : A!CallFails(d, permanent) => AnswersInv'
  <2> DEFINE a == delivery[d].of
             r == attempt[a]
             h == delivery[d]
             k == queued[a]
             x == wrote[a]
             failed == [r EXCEPT !.status = "failed"]
             over(status, tries) == [status |-> status, tries |-> tries]
  <2>1. /\ a \in Attempts /\ r \in A!AnswerRows /\ k \in TaskRows /\ h \in DeliveryRows
        /\ RowOK(r, x) /\ r.status # "absent" /\ DeliveryOK(h, r, x)
        /\ a \notin swept => /\ k.status = "running"
                             /\ h.at = "written" => r.status = "done"
                             /\ \A e \in Deliveries \ {d} : ~(Held(e) /\ delivery[e].of = a)
    BY <1>5 DEF AnswersInv, AnswersTypes, SoleInv, DeliveryOK
  <2>2. /\ attempt = [attempt EXCEPT ![a] = r] /\ delivery = [delivery EXCEPT ![d] = h]
        /\ queued = [queued EXCEPT ![a] = k]
    BY <2>1 DEF AnswersInv, AnswersTypes
  <2>3. /\ A!NoDelivery \in DeliveryRows /\ A!NoDelivery.at = "none"
        /\ failed \in A!AnswerRows /\ RowOK(failed, x) /\ failed.status = "failed"
        /\ failed.kind = r.kind
    BY <2>1 DEF A!NoDelivery, DeliveryRows, A!Texts, A!AnswerRows, RowOK
  <2>4. CASE A!FirstCall(d)
    <3>1. /\ h.at = "first" /\ r.kind \in {"user", "draft"}
          /\ attempt' = [attempt EXCEPT ![a] = r] /\ queued' = [queued EXCEPT ![a] = k]
          /\ UNCHANGED <<hasKey, required, wrote, swept>>
      BY <2>1, <2>2, <2>4 DEF A!FirstCall, RowOK
    <3>2. CASE A!IsDraft(d)
      <4>1. PICK text \in Drafted :
              delivery' = [delivery EXCEPT ![d] = [h EXCEPT !.at = "second", !.text = text]]
        BY <1>5, <2>4, <3>2, <2>1 DEF A!FirstCall, AnswersInv, AnswersTypes
      <4> DEFINE hNew == [h EXCEPT !.at = "second", !.text = text]
      <4>2. hNew \in DeliveryRows /\ hNew.at = "second" /\ hNew.of = a /\ DeliveryOK(hNew, r, x)
        BY <2>1, <3>1, <3>2, NoneAssumption DEF DeliveryRows, DeliveryOK, A!IsDraft, A!Texts
      <4> HIDE DEF hNew
      <4> QED BY <2>1, <3>1, <4>1, <4>2, OneAnswer DEF hNew
    <3>3. CASE ~A!IsDraft(d)
      <4> DEFINE hNew == [h EXCEPT !.at = "second", !.gate = h.text]
      <4>1. delivery' = [delivery EXCEPT ![d] = hNew]
        BY <2>1, <2>4, <3>3 DEF A!FirstCall, AnswersInv, AnswersTypes
      <4>2. hNew \in DeliveryRows /\ hNew.at = "second" /\ hNew.of = a /\ DeliveryOK(hNew, r, x)
        BY <2>1, <3>1, <3>3 DEF DeliveryRows, DeliveryOK, A!IsDraft
      <4> HIDE DEF hNew
      <4> QED BY <2>1, <3>1, <4>1, <4>2, OneAnswer
    <3> QED BY <3>2, <3>3
  <2>5. CASE A!SecondCall(d)
    <3> DEFINE hNew == IF A!IsDraft(d) THEN [h EXCEPT !.at = "answered", !.gate = h.text]
                       ELSE [h EXCEPT !.at = "answered", !.assessment = h.text]
    <3>1. /\ h.at = "second" /\ r.kind \in {"user", "draft"}
          /\ attempt' = [attempt EXCEPT ![a] = r] /\ queued' = [queued EXCEPT ![a] = k]
          /\ delivery' = [delivery EXCEPT ![d] = hNew] /\ UNCHANGED <<hasKey, required, wrote, swept>>
      BY <2>1, <2>2, <2>5 DEF A!SecondCall, RowOK, AnswersInv, AnswersTypes
    <3>2. hNew \in DeliveryRows /\ hNew.at = "answered" /\ hNew.of = a /\ DeliveryOK(hNew, r, x)
      <4>1. CASE A!IsDraft(d)
        BY <2>1, <3>1, <4>1 DEF DeliveryRows, DeliveryOK, A!IsDraft
      <4>2. CASE ~A!IsDraft(d)
        BY <2>1, <3>1, <4>2 DEF DeliveryRows, DeliveryOK, A!IsDraft
      <4> QED BY <4>1, <4>2
    <3> HIDE DEF hNew
    <3> QED BY <2>1, <3>1, <3>2, OneAnswer
  <2>6. CASE A!MarkDone(d)
    <3> DEFINE rNew == A!Done(r, d)
               hNew == [h EXCEPT !.at = "written"]
    <3>1. /\ h.at = "answered" /\ r.kind \in {"user", "draft"}
          /\ attempt' = [attempt EXCEPT ![a] = rNew] /\ queued' = [queued EXCEPT ![a] = k]
          /\ delivery' = [delivery EXCEPT ![d] = hNew] /\ UNCHANGED <<hasKey, required, wrote, swept>>
      BY <2>1, <2>2, <2>6 DEF A!MarkDone, RowOK, AnswersInv, AnswersTypes
    <3>2. hNew \in DeliveryRows /\ hNew.at = "written" /\ hNew.of = a /\ DeliveryOK(hNew, rNew, x)
      BY <2>1, <3>1 DEF DeliveryRows, DeliveryOK, A!Done, A!AnswerRows
    <3>3. /\ rNew \in A!AnswerRows /\ RowOK(rNew, x) /\ rNew.status = "done"
          /\ rNew.kind = attempt[a].kind
      BY <2>1, <3>1 DEF A!AnswerRows, DeliveryRows, DeliveryOK, RowOK, A!Done
    <3> HIDE DEF hNew, rNew
    <3> QED BY <2>1, <3>1, <3>2, <3>3, OneAnswer
  <2>7. CASE A!Complete(d)
    <3> DEFINE kNew == over("succeeded", k.tries)
    <3>1. /\ h.at = "written" /\ kNew \in TaskRows /\ kNew.status = "succeeded"
          /\ attempt' = [attempt EXCEPT ![a] = r] /\ queued' = [queued EXCEPT ![a] = kNew]
          /\ delivery' = [delivery EXCEPT ![d] = A!NoDelivery]
          /\ UNCHANGED <<hasKey, required, wrote, swept>>
      BY <2>1, <2>2, <2>7 DEF A!Complete, A!Ends, A!Outcome, TaskRows
    <3> HIDE DEF kNew
    <3> QED BY <2>1, <2>3, <3>1, OneAnswer
  <2>8. CASE A!Blocked(d)
    <3> DEFINE kNew == over("pending", k.tries - 1)
    <3>1. /\ kNew \in TaskRows /\ kNew.status = "pending"
          /\ attempt' = [attempt EXCEPT ![a] = r] /\ queued' = [queued EXCEPT ![a] = kNew]
          /\ delivery' = [delivery EXCEPT ![d] = A!NoDelivery]
          /\ UNCHANGED <<hasKey, required, wrote, swept>>
      BY <2>1, <2>2, <2>8 DEF A!Blocked, A!Outcome, TaskRows
    <3> HIDE DEF kNew
    <3> QED BY <2>1, <2>3, <3>1, OneAnswer
  <2>9. CASE A!Dies(d)
    <3>1. /\ attempt' = [attempt EXCEPT ![a] = r] /\ queued' = [queued EXCEPT ![a] = k]
          /\ delivery' = [delivery EXCEPT ![d] = A!NoDelivery]
          /\ UNCHANGED <<hasKey, required, wrote, swept>>
      BY <2>1, <2>2, <2>9 DEF A!Dies
    <3> QED BY <2>1, <2>3, <3>1, OneAnswer
  <2>10. ASSUME NEW permanent \in BOOLEAN, A!CallFails(d, permanent)
         PROVE  AnswersInv'
    <3> DEFINE status == IF permanent THEN "failed" ELSE A!Again(k.tries)
               kNew == over(status, k.tries)
    <3>1. status \in {"pending", "failed"} /\ kNew \in TaskRows /\ kNew.status = status
      BY <2>1 DEF A!Again, TaskRows
    <3>2. /\ attempt' = [attempt EXCEPT ![a] = failed] /\ queued' = [queued EXCEPT ![a] = kNew]
          /\ delivery' = [delivery EXCEPT ![d] = A!NoDelivery]
          /\ UNCHANGED <<hasKey, required, wrote, swept>>
      BY <2>1, <2>10 DEF A!CallFails, A!Ends, A!Outcome, A!MarkFailed, AnswersInv, AnswersTypes
    <3> HIDE DEF kNew, failed, status
    <3> QED BY <2>1, <2>3, <3>1, <3>2, OneAnswer
  <2> QED BY <2>4, <2>5, <2>6, <2>7, <2>8, <2>9, <2>10
<1>6. ASSUME NEW d \in Deliveries,
             \/ A!FirstCall(d) \/ A!SecondCall(d) \/ A!MarkDone(d) \/ A!Complete(d)
             \/ A!Blocked(d) \/ A!Dies(d)
             \/ \E permanent \in BOOLEAN : A!CallFails(d, permanent)
      PROVE  Held(d)
  BY <1>6 DEF A!FirstCall, A!SecondCall, A!MarkDone, A!Complete, A!Blocked, A!Dies,
       A!CallFails, Held, AnswersInv
<1>7. ASSUME NEW a \in Attempts, A!CheckAnswer(a) \/ A!DraftAnswer(a)
      PROVE  AnswersInv'
  BY <1>2, <1>7, NoneAssumption DEF A!CheckAnswer, A!DraftAnswer, A!Texts, A!Kinds
<1> QED BY <1>1, <1>3, <1>4, <1>5, <1>6, <1>7 DEF A!AnswersNext

LEMMA AnswersConclude ==
  ASSUME AnswersInv
  PROVE  A!VerdictIsOfItsText /\ A!WaitingHasTask
BY DEF AnswersInv, RowOK, A!VerdictIsOfItsText

----------------------------------------------------------------------------
(* Sessions.                                                               *)

Whos == [sub: Identities, email: Addresses]
Requests == [at: {"none", "read", "looked", "answered"}, kind: Kinds \union {None}, now: Times,
             who: Whos \union {None}, account: Accounts \union {None},
             token: Tokens \union {None}, touches: BOOLEAN, page: Tokens \union {None}]

SessionsTypes ==
  /\ clock \in Times
  /\ user \in [Accounts -> Users \union {None}]
  /\ session \in [Tokens -> Rows \union {None}]
  /\ cookie \in [token: Tokens, until: Nat] \union {None}
  /\ pages \subseteq Tokens
  /\ request \in [Presses -> Requests]
  /\ owner \in [Tokens -> Identities \union {None}]
  /\ used \in [Tokens -> Times \union {None}]
  /\ ended \subseteq Tokens
  /\ misfiled \in BOOLEAN

\* One account for each identity.
AccountsInv ==
  \A a, b \in Accounts : user[a] # None /\ user[b] # None /\ user[a].sub = user[b].sub => a = b

\* A session is of the account of who signed in; it was prolonged no longer before its
\* last use than a request takes, and it went when that was over.
SessionOK(t) ==
  /\ owner[t] = None => session[t] = None /\ t \notin ended /\ used[t] = None
  /\ session[t] # None =>
       /\ user[session[t].user] # None /\ user[session[t].user].sub = owner[t]
       /\ t \notin ended
       /\ session[t].expires = session[t].seen + Ttl
       /\ used[t] # None => used[t] <= session[t].seen + TouchAfter
  /\ session[t] = None /\ used[t] # None /\ t \notin ended => used[t] + Ttl <= clock + TouchAfter
  /\ used[t] # None => used[t] <= clock

\* A sign-in that is looked at, and one that is written and not committed: its session
\* is not there yet, and if its account is not either, no other has its identity.
Reading(q) ==
  /\ q.who # None /\ q.token = None
  /\ q.account # None => user[q.account] # None /\ user[q.account].sub = q.who.sub

SigningIn(q) ==
  /\ q.who # None /\ q.account # None
  /\ user[q.account] # None => user[q.account].sub = q.who.sub
  /\ user[q.account] = None =>
       q.token # None /\ \A b \in Accounts : user[b] # None => user[b].sub # q.who.sub
  /\ q.token # None => /\ owner[q.token] = q.who.sub
                       /\ session[q.token] = None /\ used[q.token] = None
                       /\ q.token \notin ended

\* Any other request is of who signed in; a form is of its own page, and a session
\* that it leaves as it is was seen lately.
Resolved(q) ==
  /\ q.token # None /\ q.account # None
  /\ user[q.account] # None /\ user[q.account].sub = owner[q.token]
  /\ q.kind = "form" /\ q.at = "answered" => q.page = q.token
  /\ ~q.touches /\ session[q.token] # None => q.now <= session[q.token].seen + TouchAfter

RequestOK(q) ==
  /\ q.at # "none" => q.now <= clock /\ clock <= q.now + TouchAfter
  /\ q.at = "read" => q.kind = "sign_in" /\ Reading(q)
  /\ q.at = "looked" => q.kind # "sign_in"
  /\ q.at = "answered" /\ q.kind = "sign_in" => SigningIn(q)
  /\ q.at \in {"looked", "answered"} /\ q.kind # "sign_in" => Resolved(q)

\* Nobody else has the token of a sign-in that is not committed, nor its account or
\* its identity when that account is new.
PairOK(p, q) ==
  p.at = "answered" /\ p.kind = "sign_in" =>
    /\ p.token # None /\ q.at # "none" => q.token # p.token
    /\ user[p.account] = None /\ q.at = "answered" =>
         /\ q.account # p.account
         /\ q.kind = "sign_in" /\ user[q.account] = None => q.who.sub # p.who.sub

SessionsInv ==
  /\ SessionsTypes
  /\ AccountsInv
  /\ \A t \in Tokens : SessionOK(t)
  /\ \A r \in Presses : RequestOK(request[r])
  /\ \A r, s \in Presses : r # s => PairOK(request[r], request[s])
  /\ ~misfiled

LEMMA SessionsStart == SessionsInit => SessionsInv
<1> SUFFICES ASSUME SessionsInit
             PROVE  SessionsInv
  OBVIOUS
<1>1. Idle \in Requests /\ Idle.at = "none"
  BY SessionsAssumption DEF Idle, Requests, Times
<1>2. SessionsTypes
  <2>1. 0 \in Times
    BY SessionsAssumption DEF Times
  <2> QED BY <1>1, <2>1 DEF SessionsInit, SessionsTypes
<1> QED BY <1>1, <1>2, SessionsAssumption
     DEF SessionsInit, SessionsInv, AccountsInv, SessionOK, RequestOK, PairOK

LEMMA SessionsConclude ==
  ASSUME SessionsInv
  PROVE  SignedInAsWhoCame /\ EndedStaysEnded /\ UsedIsKept /\ FormsGoHome
<1>1. SignedInAsWhoCame
  BY DEF SessionsInv, AccountsInv, SessionOK, SignedInAsWhoCame
<1>2. EndedStaysEnded
  BY DEF SessionsInv, SessionsTypes, SessionOK, EndedStaysEnded
<1>3. ASSUME NEW t \in Tokens \ ended, used[t] # None, clock + TouchAfter < used[t] + Ttl
      PROVE  session[t] # None /\ session[t].expires > clock
  <2>1. SessionOK(t) /\ used[t] \in Nat /\ clock \in Nat
    BY <1>3, SessionsAssumption DEF SessionsInv, SessionsTypes, Times
  <2>2. session[t] # None
    BY <1>3, <2>1, SessionsAssumption DEF SessionOK
  <2>3. session[t].seen \in Nat
    BY <2>2, SessionsAssumption DEF SessionsInv, SessionsTypes, Rows, Times
  <2> QED BY <1>3, <2>1, <2>2, <2>3, SessionsAssumption DEF SessionOK
<1>4. UsedIsKept
  BY <1>3 DEF UsedIsKept
<1> QED BY <1>1, <1>2, <1>4 DEF SessionsInv, FormsGoHome

\* A step that writes one request, and the history of a token not used before, keeps
\* the invariant when what it writes does.
LEMMA OneRequest ==
  ASSUME SessionsInv, NEW r \in Presses, NEW q \in Requests,
         request' = [request EXCEPT ![r] = q],
         cookie' \in [token: Tokens, until: Nat] \union {None}, pages' \subseteq Tokens,
         UNCHANGED <<clock, user, session, histories>>,
         RequestOK(q),
         \A s \in Presses \ {r} : PairOK(q, request[s]) /\ PairOK(request[s], q)
  PROVE  SessionsInv'
<1>1. SessionsTypes' /\ AccountsInv' /\ ~misfiled'
  BY DEF SessionsInv, SessionsTypes, AccountsInv, histories
<1>2. \A t \in Tokens : SessionOK(t)'
  BY DEF SessionsInv, SessionOK, histories
<1>3. \A s \in Presses : RequestOK(request[s])'
  BY DEF SessionsInv, SessionsTypes, RequestOK, Reading, SigningIn, Resolved, histories
<1>4. \A s, p \in Presses : s # p => PairOK(request[s], request[p])'
  BY DEF SessionsInv, SessionsTypes, PairOK, histories
<1> QED BY <1>1, <1>2, <1>3, <1>4 DEF SessionsInv

\* Looking for the account of who came back.
LEMMA CallbackStep ==
  ASSUME SessionsInv, NEW r \in Presses, NEW claims \in Claims, GoogleCallback(r, claims)
  PROVE  SessionsInv'
<1> DEFINE who == IdentityFromClaims(claims)
           a == IF Found(who) = {} THEN None ELSE CHOOSE b \in Found(who) : TRUE
           q == [Idle EXCEPT !.at = "read", !.kind = "sign_in", !.now = clock, !.who = who,
                             !.account = a]
<1>1. who \in Whos /\ who # None
  BY DEF GoogleCallback, IdentityFromClaims, Claims, Whos
<1>2. a = None \/ (a \in Accounts /\ user[a] # None /\ user[a].sub = who.sub)
  <2>1. CASE Found(who) # {}
    <3>1. (CHOOSE b \in Found(who) : TRUE) \in Found(who)
      BY <2>1
    <3> QED BY <2>1, <3>1 DEF Found
  <2> QED BY <2>1
<1> HIDE DEF who, a
<1>3. /\ q \in Requests /\ q.at = "read" /\ q.kind = "sign_in" /\ q.now = clock
      /\ q.who = who /\ q.account = a /\ q.token = None
  BY <1>1, <1>2, SessionsAssumption DEF Idle, Requests, SessionsInv, SessionsTypes, Times, Kinds
<1>4. request' = [request EXCEPT ![r] = q] /\ UNCHANGED <<clock, user, session, cookie, pages, histories>>
  BY DEF GoogleCallback, who, a
<1> HIDE DEF q
<1>5. RequestOK(q)
  BY <1>1, <1>2, <1>3, SessionsAssumption DEF RequestOK, Reading, SessionsInv, SessionsTypes, Times
<1>6. \A s \in Presses \ {r} : PairOK(q, request[s]) /\ PairOK(request[s], q)
  BY <1>3 DEF PairOK
<1>7. cookie' \in [token: Tokens, until: Nat] \union {None} /\ pages' \subseteq Tokens
  BY <1>4 DEF SessionsInv, SessionsTypes
<1> QED BY <1>3, <1>4, <1>5, <1>6, <1>7, OneRequest

\* Every other request finds its session.
LEMMA LookupStep ==
  ASSUME SessionsInv, NEW r \in Presses, NEW kind \in Kinds \ {"sign_in"},
         NEW page \in Tokens \union {None}, OptionalSession(r, kind, page)
  PROVE  SessionsInv'
<1> DEFINE t == cookie.token
           late == clock >= session[t].seen + TouchAfter
           q == [Idle EXCEPT !.at = "looked", !.kind = kind, !.now = clock, !.page = page,
                             !.account = session[t].user, !.token = t, !.touches = late]
<1>0. late \in BOOLEAN
  OBVIOUS
<1>1. /\ t \in Tokens /\ session[t] \in Rows /\ session[t].user \in Accounts
      /\ session[t] # None /\ session[t].seen \in Nat
      /\ user[session[t].user] # None /\ user[session[t].user].sub = owner[t]
  BY SessionsAssumption DEF OptionalSession, Live, SessionsInv, SessionsTypes, SessionOK, Rows, Times
<1>3. request' = [request EXCEPT ![r] = q] /\ UNCHANGED <<clock, user, session, cookie, pages, histories>>
  BY DEF OptionalSession
<1>8. late <=> clock >= session[t].seen + TouchAfter
  OBVIOUS
<1> HIDE DEF late
<1>2. /\ q \in Requests /\ q.at = "looked" /\ q.kind = kind /\ q.now = clock
      /\ q.account = session[t].user /\ q.token = t /\ q.touches = late
  BY <1>0, <1>1, SessionsAssumption DEF Idle, Requests, SessionsInv, SessionsTypes, Times, Kinds
<1> HIDE DEF q
<1>4. clock \in Nat
  BY SessionsAssumption DEF SessionsInv, SessionsTypes, Times
<1>5. RequestOK(q)
  <2>1. clock <= clock + TouchAfter /\ (~late => clock <= session[t].seen + TouchAfter)
    BY <1>1, <1>4, <1>8, SessionsAssumption
  <2>2. ~q.touches => clock <= session[t].seen + TouchAfter
    <3>1. CASE late
      BY <1>2, <3>1
    <3>2. CASE ~late
      BY <2>1, <3>2
    <3> QED BY <3>1, <3>2
  <2> QED BY <1>1, <1>2, <1>4, <2>1, <2>2, SessionsAssumption DEF RequestOK, Resolved
<1>6. \A s \in Presses \ {r} : PairOK(q, request[s]) /\ PairOK(request[s], q)
  BY <1>1, <1>2, SessionsAssumption DEF PairOK, SessionsInv, RequestOK, SigningIn
<1>7. cookie' \in [token: Tokens, until: Nat] \union {None} /\ pages' \subseteq Tokens
  BY <1>3 DEF SessionsInv, SessionsTypes
<1> QED BY <1>2, <1>3, <1>5, <1>6, <1>7, OneRequest

\* The work is done, or the form refused.
LEMMA HandleStep ==
  ASSUME SessionsInv, NEW r \in Presses, Handle(r)
  PROVE  SessionsInv'
<1> DEFINE old == request[r]
           accepted == old.kind = "page" \/ CsrfOk(old)
           q == IF accepted THEN [old EXCEPT !.at = "answered"] ELSE Idle
<1>1. old \in Requests /\ old.at = "looked" /\ RequestOK(old) /\ old.token \in Tokens
  BY DEF Handle, SessionsInv, SessionsTypes, Requests, RequestOK, Resolved
<1>2. /\ q \in Requests
      /\ q.at = "none" \/ (q = [old EXCEPT !.at = "answered"] /\ accepted)
  BY <1>1, SessionsAssumption DEF Idle, Requests, Times
<1>3. request' = [request EXCEPT ![r] = q] /\ UNCHANGED <<clock, user, session, histories>>
  BY DEF Handle
<1>4. cookie' \in [token: Tokens, until: Nat] \union {None} /\ pages' \subseteq Tokens
  BY <1>1 DEF Handle, SessionsInv, SessionsTypes
<1> HIDE DEF q
<1>5. RequestOK(q)
  BY <1>1, <1>2 DEF RequestOK, Resolved, Requests, CsrfOk
<1>6. \A s \in Presses \ {r} : PairOK(q, request[s]) /\ PairOK(request[s], q)
  <2>1. CASE q.at = "none"
    BY <2>1 DEF PairOK
  <2>2. CASE q = [old EXCEPT !.at = "answered"]
    BY <1>1, <2>2 DEF PairOK, SessionsInv, RequestOK, Resolved, Requests
  <2> QED BY <1>2, <2>1, <2>2
<1> QED BY <1>2, <1>3, <1>4, <1>5, <1>6, OneRequest

LEMMA LostStep ==
  ASSUME SessionsInv, NEW r \in Presses, Lost(r)
  PROVE  SessionsInv'
<1>1. Idle \in Requests /\ Idle.at = "none"
  BY SessionsAssumption DEF Idle, Requests, Times
<1>2. RequestOK(Idle) /\ \A s \in Presses \ {r} : PairOK(Idle, request[s]) /\ PairOK(request[s], Idle)
  BY <1>1 DEF RequestOK, PairOK
<1>3. cookie' \in [token: Tokens, until: Nat] \union {None} /\ pages' \subseteq Tokens
  BY DEF Lost, SessionsInv, SessionsTypes
<1> QED BY <1>1, <1>2, <1>3, OneRequest DEF Lost

\* Whoever has a token has one that was given out.
LEMMA GivenOut ==
  ASSUME SessionsInv, NEW s \in Presses, request[s].at # "none", request[s].token # None
  PROVE  owner[request[s].token] # None
<1>1. RequestOK(request[s]) /\ request[s] \in Requests
  BY DEF SessionsInv, SessionsTypes
<1>2. \A a \in Accounts : user[a] # None => user[a].sub # None
  BY SessionsAssumption DEF SessionsInv, SessionsTypes, Users
<1>3. request[s].who # None => request[s].who.sub # None
  BY <1>1, SessionsAssumption DEF Requests, Whos
<1> QED BY <1>1, <1>2, <1>3 DEF RequestOK, Reading, SigningIn, Resolved, Requests

\* A session is made with a token nobody had.
LEMMA CreateStep ==
  ASSUME SessionsInv, NEW r \in Presses, request[r].at = "read", NEW a \in Accounts, Create(r, a),
         UNCHANGED <<clock, user, session, pages, used, ended, misfiled>>,
         \/ user[a] # None /\ user[a].sub = request[r].who.sub
         \/ user[a] = None /\ Unused(a) /\ ~Inserting(request[r].who) /\ Found(request[r].who) = {}
  PROVE  SessionsInv'
<1> DEFINE old == request[r]
<1>1. PICK t \in Tokens :
        /\ owner[t] = None
        /\ owner' = [owner EXCEPT ![t] = old.who.sub]
        /\ request' = [request EXCEPT ![r] = [old EXCEPT !.at = "answered", !.account = a, !.token = t]]
        /\ cookie' = [token |-> t, until |-> clock + Ttl]
  BY DEF Create, SessionsInv, SessionsTypes
<1> DEFINE q == [old EXCEPT !.at = "answered", !.account = a, !.token = t]
<1>2. /\ old \in Requests /\ RequestOK(old) /\ old.kind = "sign_in" /\ old.who # None
      /\ old.who.sub \in Identities
  BY DEF SessionsInv, SessionsTypes, RequestOK, Reading, Requests, Whos
<1>3. /\ q \in Requests /\ q.at = "answered" /\ q.kind = "sign_in" /\ q.account = a /\ q.token = t
      /\ q.who = old.who /\ q.now = old.now
  BY <1>2 DEF Requests
<1> HIDE DEF q
<1>4. request' = [request EXCEPT ![r] = q]
  BY <1>1 DEF q
<1>5. SessionsTypes'
  <2>1. clock + Ttl \in Nat
    BY SessionsAssumption DEF SessionsInv, SessionsTypes, Times
  <2> QED BY <1>1, <1>2, <1>3, <1>4, <2>1 DEF SessionsInv, SessionsTypes
<1>6. AccountsInv' /\ ~misfiled'
  BY DEF SessionsInv, AccountsInv
<1>7. ASSUME NEW b \in Tokens
      PROVE  SessionOK(b)'
  <2>1. CASE b = t
    BY <1>1, <1>2, <2>1, SessionsAssumption DEF SessionsInv, SessionsTypes, SessionOK
  <2>2. CASE b # t
    BY <1>1, <2>2 DEF SessionsInv, SessionsTypes, SessionOK
  <2> QED BY <2>1, <2>2
<1>8. \A s \in Presses \ {r} : request[s].at # "none" => request[s].token # t
  BY <1>1, GivenOut, SessionsAssumption
<1>9. \A s \in Presses \ {r} : request'[s] = request[s]
  BY <1>4 DEF SessionsInv, SessionsTypes
<1>10. ASSUME NEW s \in Presses
       PROVE  RequestOK(request[s])'
  <2>1. CASE s = r
    <3>1. request'[s] = q
      BY <1>4, <2>1 DEF SessionsInv, SessionsTypes
    <3>2. session[t] = None /\ used[t] = None /\ t \notin ended
      BY <1>1 DEF SessionsInv, SessionOK
    <3>3. owner'[t] = old.who.sub
      BY <1>1 DEF SessionsInv, SessionsTypes
    <3>4. user[a] = None => \A b \in Accounts : user[b] # None => user[b].sub # q.who.sub
      BY <1>3 DEF Found
    <3>5. user[a] # None => user[a].sub = q.who.sub
      BY <1>3
    <3> QED BY <1>2, <1>3, <3>1, <3>2, <3>3, <3>4, <3>5, SessionsAssumption DEF RequestOK, SigningIn
  <2>2. CASE s # r
    <3>1. owner'[request[s].token] = owner[request[s].token] \/ request[s].at = "none"
      BY <1>1, <1>8, <2>2 DEF SessionsInv, SessionsTypes
    <3> QED BY <1>9, <2>2, <3>1 DEF SessionsInv, RequestOK, Reading, SigningIn, Resolved
  <2> QED BY <2>1, <2>2
<1>11. ASSUME NEW s \in Presses, NEW p \in Presses, s # p
       PROVE  PairOK(request[s], request[p])'
  <2>1. CASE s = r
    <3>1. request'[s] = q /\ request'[p] = request[p]
      BY <1>4, <1>9, <1>11, <2>1 DEF SessionsInv, SessionsTypes
    <3>2. /\ user[a] = None /\ request[p].at = "answered" => request[p].account # a
          /\ user[a] = None /\ request[p].at = "answered" /\ request[p].kind = "sign_in"
               /\ user[request[p].account] = None => request[p].who.sub # q.who.sub
      BY <1>3 DEF Unused, Holds, Inserting
    <3> QED BY <1>3, <1>8, <1>11, <2>1, <3>1, <3>2 DEF PairOK
  <2>2. CASE p = r
    <3>1. request'[p] = q /\ request'[s] = request[s]
      BY <1>4, <1>9, <1>11, <2>2 DEF SessionsInv, SessionsTypes
    <3>2. /\ user[a] = None /\ request[s].at = "answered" => request[s].account # a
          /\ user[a] = None /\ request[s].at = "answered" /\ request[s].kind = "sign_in"
               /\ user[request[s].account] = None => request[s].who.sub # q.who.sub
      BY <1>3 DEF Unused, Holds, Inserting
    <3> QED BY <1>3, <1>8, <1>11, <2>2, <3>1, <3>2 DEF PairOK
  <2>3. CASE s # r /\ p # r
    BY <1>9, <1>11, <2>3 DEF SessionsInv, PairOK
  <2> QED BY <2>1, <2>2, <2>3
<1> QED BY <1>5, <1>6, <1>7, <1>10, <1>11 DEF SessionsInv

LEMMA UpsertStep ==
  ASSUME SessionsInv, NEW r \in Presses, UpsertGoogleUser(r)
  PROVE  SessionsInv'
<1> DEFINE old == request[r]
<1>1. /\ old \in Requests /\ RequestOK(old) /\ old.at = "read" /\ old.kind = "sign_in"
      /\ old.account \in Accounts \union {None} /\ old.token = None /\ old.who # None
      /\ old.account # None => user[old.account] # None /\ user[old.account].sub = old.who.sub
  BY DEF UpsertGoogleUser, SessionsInv, SessionsTypes, RequestOK, Reading, Requests
<1>2. UNCHANGED <<clock, user, session, pages, used, ended, misfiled>>
  BY DEF UpsertGoogleUser
<1>3. CASE old.account # None /\ Create(r, old.account)
  BY <1>1, <1>2, <1>3, CreateStep
<1>4. CASE /\ old.account # None /\ request' = [request EXCEPT ![r].at = "answered"]
           /\ UNCHANGED <<owner, cookie>>
  <2> DEFINE q == [old EXCEPT !.at = "answered"]
  <2>1. q \in Requests /\ request' = [request EXCEPT ![r] = q]
    BY <1>1, <1>4 DEF Requests, SessionsInv, SessionsTypes
  <2>2. RequestOK(q)
    BY <1>1, <1>4 DEF Requests, RequestOK, SigningIn
  <2>3. \A s \in Presses \ {r} : PairOK(q, request[s]) /\ PairOK(request[s], q)
    BY <1>1, <1>4 DEF Requests, PairOK, SessionsInv, RequestOK, SigningIn
  <2>4. cookie' \in [token: Tokens, until: Nat] \union {None} /\ pages' \subseteq Tokens
    BY <1>2, <1>4 DEF SessionsInv, SessionsTypes
  <2> QED BY <1>2, <1>4, <2>1, <2>2, <2>3, <2>4, OneRequest DEF histories
<1>5. CASE /\ old.account = None /\ ~Inserting(old.who) /\ Found(old.who) = {}
           /\ \E a \in Accounts : Unused(a) /\ Create(r, a)
  BY <1>1, <1>2, <1>5, CreateStep DEF Unused
<1>6. CASE request' = [request EXCEPT ![r] = Idle] /\ UNCHANGED <<owner, cookie>>
  <2>1. Idle \in Requests /\ Idle.at = "none"
    BY SessionsAssumption DEF Idle, Requests, Times
  <2>2. RequestOK(Idle) /\ \A s \in Presses \ {r} : PairOK(Idle, request[s]) /\ PairOK(request[s], Idle)
    BY <2>1 DEF RequestOK, PairOK
  <2>3. cookie' \in [token: Tokens, until: Nat] \union {None} /\ pages' \subseteq Tokens
    BY <1>2, <1>6 DEF SessionsInv, SessionsTypes
  <2> QED BY <1>2, <1>6, <2>1, <2>2, <2>3, OneRequest DEF histories
<1> QED BY <1>3, <1>4, <1>5, <1>6 DEF UpsertGoogleUser

\* What a commit keeps, when it writes one session and nobody else's account: others
\* are as they were.
LEMMA SignInCommitStep ==
  ASSUME SessionsInv, NEW r \in Presses, Commit(r), request[r].kind = "sign_in"
  PROVE  SessionsInv'
<1> DEFINE q == request[r]
           a == q.account
           t == q.token
<1>1. /\ q \in Requests /\ RequestOK(q) /\ q.at = "answered" /\ SigningIn(q)
      /\ a \in Accounts /\ q.who \in Whos /\ q.who.sub # None /\ q.now \in Times
      /\ q.now <= clock /\ t \in Tokens \union {None}
  BY SessionsAssumption DEF Commit, SessionsInv, SessionsTypes, RequestOK, SigningIn, Requests, Whos
<1>2. /\ SignInCommits(q)
      /\ request' = [request EXCEPT ![r] = Idle]
      /\ UNCHANGED <<clock, cookie, pages, owner, ended, misfiled>>
  BY <1>1 DEF Commit, SignInCommits
<1>3. Idle \in Requests /\ Idle.at = "none"
  BY SessionsAssumption DEF Idle, Requests, Times
\* The account.
<1>4. /\ user' \in [Accounts -> Users \union {None}]
      /\ user'[a] # None /\ user'[a].sub = q.who.sub
      /\ \A b \in Accounts \ {a} : user'[b] = user[b]
  <2> DEFINE new == IF user[a] = None
                    THEN [sub |-> q.who.sub, email |-> q.who.email, active |-> TRUE]
                    ELSE [user[a] EXCEPT !.email = q.who.email]
  <2>1. user' = [user EXCEPT ![a] = new]
    BY <1>1, <1>2 DEF SignInCommits, SessionsInv, SessionsTypes
  <2>2. new \in Users /\ new.sub = q.who.sub
    <3>1. CASE user[a] = None
      BY <1>1, <3>1 DEF Users, Whos
    <3>2. CASE user[a] # None
      BY <1>1, <3>2 DEF Users, Whos, SigningIn, SessionsInv, SessionsTypes
    <3> QED BY <3>1, <3>2
  <2> HIDE DEF new
  <2> QED BY <1>1, <2>1, <2>2, SessionsAssumption DEF SessionsInv, SessionsTypes
<1>5. \A b \in Accounts : user[b] # None => user'[b] # None /\ user'[b].sub = user[b].sub
  BY <1>1, <1>4 DEF SigningIn
<1>6. AccountsInv'
  BY <1>1, <1>4, <1>5 DEF SigningIn, SessionsInv, AccountsInv
\* Its session.
<1>7. /\ session' \in [Tokens -> Rows \union {None}] /\ used' \in [Tokens -> Times \union {None}]
      /\ \A b \in Tokens : b # t => session'[b] = session[b] /\ used'[b] = used[b]
      /\ t # None => /\ session'[t] # None /\ session'[t].user = a /\ session'[t].seen = q.now
                     /\ session'[t].expires = q.now + Ttl /\ used'[t] = q.now
  <2>1. CASE t = None
    BY <1>1, <1>2, <2>1 DEF Commit, SignInCommits, SessionsInv, SessionsTypes
  <2>2. CASE t # None
    <3> DEFINE new == [user |-> a, seen |-> q.now, expires |-> q.now + Ttl]
    <3>1. new \in Rows
      BY <1>1, SessionsAssumption DEF Rows, Times
    <3>2. new.user = a /\ new.seen = q.now /\ new.expires = q.now + Ttl /\ new # None
      BY <3>1, SessionsAssumption
    <3>3. session' = [session EXCEPT ![t] = new]
      BY <1>1, <1>2, <2>2 DEF SignInCommits
    <3> HIDE DEF new
    <3>4. session'[t] = new
      BY <1>1, <2>2, <3>3 DEF SessionsInv, SessionsTypes
    <3>5. used' = [used EXCEPT ![t] = q.now]
      BY <1>1, <2>2, <3>2, <3>4 DEF Commit, SigningIn
    <3> QED BY <1>1, <2>2, <3>1, <3>2, <3>3, <3>5 DEF SessionsInv, SessionsTypes
  <2> QED BY <2>1, <2>2
<1>8. SessionsTypes'
  BY <1>2, <1>3, <1>4, <1>7 DEF SessionsInv, SessionsTypes
<1>9. ASSUME NEW b \in Tokens
      PROVE  SessionOK(b)'
  <2>1. CASE b = t
    <3>1. q.now <= q.now + TouchAfter /\ owner[t] = q.who.sub /\ t \notin ended /\ t # None
      BY <1>1, <2>1, SessionsAssumption DEF SigningIn, Times
    <3> QED BY <1>1, <1>2, <1>4, <1>7, <2>1, <3>1 DEF SessionOK
  <2>2. CASE b # t
    <3>1. session[b] # None => session[b].user \in Accounts
      BY SessionsAssumption DEF SessionsInv, SessionsTypes, Rows
    <3> QED BY <1>2, <1>5, <1>7, <2>2, <3>1 DEF SessionsInv, SessionOK
  <2> QED BY <2>1, <2>2
\* The other requests.
<1>10. \A s \in Presses \ {r} : request'[s] = request[s] /\ request[s] \in Requests
  BY <1>2 DEF SessionsInv, SessionsTypes
<1>11. request'[r] = Idle
  BY <1>2 DEF SessionsInv, SessionsTypes
<1>12. ASSUME NEW s \in Presses
       PROVE  RequestOK(request[s])'
  <2>1. CASE s = r
    BY <1>3, <1>11, <2>1 DEF RequestOK
  <2>2. CASE s # r
    <3> DEFINE p == request[s]
    <3>1. request'[s] = p /\ p \in Requests /\ RequestOK(p) /\ PairOK(q, p) /\ PairOK(p, q)
      BY <1>10, <2>2 DEF SessionsInv
    <3>2. p.at = "read" => Reading(p)'
      BY <1>5, <3>1 DEF RequestOK, Reading, Requests
    <3>3. p.at # "none" => p.token = None \/ (p.token \in Tokens /\ p.token # t)
      BY <1>1, <3>1 DEF PairOK, Requests
    <3>4. p.at = "answered" /\ p.kind = "sign_in" => SigningIn(p)'
      BY <1>1, <1>2, <1>4, <1>5, <1>7, <3>1, <3>3 DEF RequestOK, SigningIn, PairOK, Requests
    <3>5. p.at \in {"looked", "answered"} /\ p.kind # "sign_in" => Resolved(p)'
      BY <1>2, <1>5, <1>7, <3>1, <3>3 DEF RequestOK, Resolved, Requests
    <3> QED BY <1>2, <3>1, <3>2, <3>4, <3>5 DEF RequestOK
  <2> QED BY <2>1, <2>2
<1>13. ASSUME NEW s \in Presses, NEW p \in Presses, s # p
       PROVE  PairOK(request[s], request[p])'
  <2>1. CASE s = r \/ p = r
    BY <1>3, <1>11, <2>1 DEF PairOK
  <2>2. CASE s # r /\ p # r
    <3>1. /\ request'[s] = request[s] /\ request[s] \in Requests
          /\ request'[p] = request[p] /\ request[p] \in Requests
          /\ PairOK(request[s], request[p]) /\ RequestOK(request[s]) /\ RequestOK(request[p])
      BY <1>10, <1>13, <2>2 DEF SessionsInv
    <3>2. \A b \in Accounts : user'[b] = None => user[b] = None
      BY <1>5
    <3> QED BY <3>1, <3>2 DEF PairOK, RequestOK, SigningIn, Requests
  <2> QED BY <2>1, <2>2
<1> QED BY <1>2, <1>6, <1>8, <1>9, <1>12, <1>13 DEF SessionsInv

\* A step after which accounts and their identities are the same, the other sessions
\* too, and one request is over.
LEMMA OtherCommitStep ==
  ASSUME SessionsInv, NEW r \in Presses, Commit(r), request[r].kind # "sign_in"
  PROVE  SessionsInv'
<1> DEFINE q == request[r]
           t == q.token
<1>1. /\ q \in Requests /\ RequestOK(q) /\ q.at = "answered" /\ Resolved(q)
      /\ t \in Tokens /\ q.account \in Accounts /\ q.now \in Times
      /\ q.now <= clock /\ clock <= q.now + TouchAfter /\ SessionOK(t)
      /\ owner[t] # None
  BY GivenOut DEF Commit, SessionsInv, SessionsTypes, RequestOK, Resolved, Requests
<1>2. /\ OtherCommits(q)
      /\ request' = [request EXCEPT ![r] = Idle]
      /\ UNCHANGED <<clock, cookie, pages, owner, user>>
  BY <1>1 DEF Commit, OtherCommits
<1>3. Idle \in Requests /\ Idle.at = "none"
  BY SessionsAssumption DEF Idle, Requests, Times
<1>4. clock \in Nat /\ q.now \in Nat /\ (used[t] # None => used[t] \in Nat)
      /\ (session[t] # None => session[t] \in Rows /\ session[t].seen \in Nat)
  BY <1>1, SessionsAssumption DEF SessionsInv, SessionsTypes, Times, Rows
<1> DEFINE new == IF q.kind = "logout" \/ session[t] = None THEN None
                  ELSE IF q.touches THEN Touched(session[t], q.now) ELSE session[t]
\* The session: gone, prolonged or as it was.
<1>5. session' = [session EXCEPT ![t] = new]
  BY <1>1, <1>2 DEF OtherCommits
<1>6. /\ new \in Rows \union {None}
      /\ new # None => /\ session[t] # None /\ new.user = session[t].user
                       /\ new.expires = new.seen + Ttl
                       /\ clock <= new.seen + TouchAfter \/ new.seen = session[t].seen
                       /\ q.now <= new.seen + TouchAfter
      /\ new = None => q.kind = "logout" \/ session[t] = None
  <2>1. CASE q.kind = "logout" \/ session[t] = None
    BY <2>1
  <2>2. CASE ~(q.kind = "logout" \/ session[t] = None) /\ q.touches
    <3>1. new = [session[t] EXCEPT !.seen = q.now, !.expires = q.now + Ttl]
      BY <2>2 DEF Touched
    <3>3. q.now \in Times /\ q.now + Ttl \in 0..(MaxTime + Ttl) /\ session[t] \in Rows
      BY <1>1, <1>4, <2>2, SessionsAssumption DEF Times
    <3> HIDE DEF new
    <3>2. /\ new \in Rows /\ new.seen = q.now /\ new.expires = q.now + Ttl
          /\ new.user = session[t].user
      BY <3>1, <3>3 DEF Rows
    <3> QED BY <1>1, <1>4, <2>2, <3>2, SessionsAssumption
  <2>3. CASE ~(q.kind = "logout" \/ session[t] = None) /\ ~q.touches
    <3>1. new = session[t]
      BY <2>3
    <3> HIDE DEF new
    <3> QED BY <1>1, <1>4, <2>3, <3>1 DEF Resolved, SessionOK
  <2> QED BY <2>1, <2>2, <2>3
<1>7. ended \subseteq ended' /\ (new = None => session[t] = None \/ t \in ended')
  BY <1>1, <1>2, <1>6 DEF OtherCommits
<1> DEFINE latest == IF used[t] = None \/ used[t] < q.now THEN q.now ELSE used[t]
<1>8. used' = IF new = None THEN used ELSE [used EXCEPT ![t] = latest]
  <2>1. session'[t] = new /\ q.token # None
    BY <1>1, <1>5, SessionsAssumption DEF SessionsInv, SessionsTypes
  <2> HIDE DEF new
  <2>2. CASE new = None
    BY <2>1, <2>2 DEF Commit
  <2>3. CASE new # None
    BY <1>1, <2>1, <2>3 DEF Commit, SessionsInv, SessionsTypes
  <2> QED BY <2>2, <2>3
<1>9. latest \in Times /\ latest <= clock /\ (used[t] = None \/ latest = used[t] \/ latest = q.now)
  BY <1>1, <1>4 DEF SessionOK, SessionsInv, SessionsTypes
<1> HIDE DEF new, latest
<1>10. \A b \in Tokens : b # t => session'[b] = session[b] /\ used'[b] = used[b] /\ (b \in ended' <=> b \in ended)
  BY <1>2, <1>5, <1>8 DEF OtherCommits, SessionsInv, SessionsTypes
<1>11. session'[t] = new /\ used'[t] = IF new = None THEN used[t] ELSE latest
  BY <1>1, <1>5, <1>8 DEF SessionsInv, SessionsTypes
<1>12. t \in ended' => new = None
  <2>1. CASE q.kind = "logout"
    BY <1>1, <2>1 DEF new
  <2>2. CASE q.kind # "logout"
    BY <1>1, <1>2, <1>6, <2>2 DEF OtherCommits, SessionOK
  <2> QED BY <2>1, <2>2
<1>13. misfiled' = FALSE
  BY <1>1, <1>2 DEF OtherCommits, Resolved, SessionsInv
<1>14. SessionsTypes'
  <2>1. ended' \subseteq Tokens
    BY <1>1, <1>2 DEF OtherCommits, SessionsInv, SessionsTypes
  <2>2. session' \in [Tokens -> Rows \union {None}] /\ used' \in [Tokens -> Times \union {None}]
    BY <1>5, <1>6, <1>8, <1>9 DEF SessionsInv, SessionsTypes
  <2> QED BY <1>2, <1>3, <1>13, <2>1, <2>2 DEF SessionsInv, SessionsTypes
<1>15. ASSUME NEW b \in Tokens
       PROVE  SessionOK(b)'
  <2>1. CASE b = t
    <3>1. CASE new = None
      BY <1>1, <1>2, <1>7, <1>11, <1>12, <2>1, <3>1 DEF SessionOK
    <3>2. CASE new # None
      <4>1. new.seen \in Nat
        BY <1>6, <3>2 DEF Rows, Times
      <4>2. latest <= new.seen + TouchAfter
        <5>1. latest \in Nat /\ clock \in Nat
          BY <1>4, <1>9 DEF Times
        <5>2. CASE clock <= new.seen + TouchAfter
          BY <1>9, <4>1, <5>1, <5>2, SessionsAssumption
        <5>3. CASE new.seen = session[t].seen /\ latest = used[t] /\ used[t] # None
          BY <1>1, <1>6, <3>2, <5>3 DEF SessionOK
        <5>4. CASE latest = q.now
          BY <1>6, <3>2, <5>4
        <5> QED BY <1>6, <1>9, <3>2, <5>2, <5>3, <5>4 DEF latest
      <4>3. user[new.user] # None /\ user[new.user].sub = owner[t]
        BY <1>1, <1>6, <3>2 DEF SessionOK
      <4> QED BY <1>1, <1>2, <1>6, <1>9, <1>11, <1>12, <2>1, <3>2, <4>2, <4>3 DEF SessionOK
    <3> QED BY <3>1, <3>2
  <2>2. CASE b # t
    BY <1>2, <1>10, <2>2 DEF SessionsInv, SessionOK
  <2> QED BY <2>1, <2>2
<1>16. /\ \A s \in Presses \ {r} : request'[s] = request[s] /\ request[s] \in Requests
       /\ request'[r] = Idle
  BY <1>2 DEF SessionsInv, SessionsTypes
<1>17. ASSUME NEW s \in Presses
       PROVE  RequestOK(request[s])'
  <2>1. CASE s = r
    BY <1>3, <1>16, <2>1 DEF RequestOK
  <2>2. CASE s # r
    <3> DEFINE p == request[s]
    <3>1. request'[s] = p /\ p \in Requests /\ RequestOK(p) /\ PairOK(p, q)
      BY <1>16, <2>2 DEF SessionsInv
    <3>2. p.at = "read" => Reading(p)'
      BY <1>2, <3>1 DEF RequestOK, Reading
    <3>3. p.at = "answered" /\ p.kind = "sign_in" => SigningIn(p)'
      <4>1. p.at = "answered" /\ p.kind = "sign_in" => p.token = None \/ (p.token \in Tokens /\ p.token # t)
        BY <1>1, <3>1 DEF PairOK, Requests
      <4> QED BY <1>2, <1>10, <3>1, <4>1 DEF RequestOK, SigningIn
    <3>4. p.at \in {"looked", "answered"} /\ p.kind # "sign_in" => Resolved(p)'
      <4>1. CASE p.token # t
        BY <1>2, <1>10, <3>1, <4>1 DEF RequestOK, Resolved, Requests
      <4>2. CASE p.token = t /\ p.at \in {"looked", "answered"} /\ p.kind # "sign_in"
        <5>1. /\ p.now \in Nat /\ p.now <= clock /\ Resolved(p)
              /\ new # None => new.seen \in Nat
          BY <1>6, <3>1, <4>2 DEF RequestOK, Requests, Times, Rows
        <5>2. ~p.touches /\ new # None => p.now <= new.seen + TouchAfter
          BY <1>4, <1>6, <4>2, <5>1, SessionsAssumption DEF Resolved
        <5> QED BY <1>2, <1>11, <3>1, <4>2, <5>1, <5>2 DEF Resolved
      <4> QED BY <4>1, <4>2
    <3> QED BY <1>2, <3>1, <3>2, <3>3, <3>4 DEF RequestOK
  <2> QED BY <2>1, <2>2
<1>18. ASSUME NEW s \in Presses, NEW p \in Presses, s # p
       PROVE  PairOK(request[s], request[p])'
  <2>1. CASE s = r \/ p = r
    BY <1>3, <1>16, <2>1 DEF PairOK
  <2>2. CASE s # r /\ p # r
    BY <1>2, <1>16, <1>18, <2>2 DEF SessionsInv, PairOK
  <2> QED BY <2>1, <2>2
<1> QED BY <1>2, <1>13, <1>14, <1>15, <1>17, <1>18 DEF SessionsInv, AccountsInv

\* Rows deleted; nothing but sessions is.
LEMMA DeleteStep ==
  ASSUME SessionsInv, NEW S \in SUBSET Tokens, DeleteSessions(S),
         ended' \subseteq Tokens, \A t \in Tokens \ S : t \in ended' <=> t \in ended,
         ended \subseteq ended',
         \A t \in S : session[t] # None,
         \A t \in S : t \in ended' \/ session[t].expires <= clock,
         UNCHANGED <<clock, user, cookie, pages, request, owner, used, misfiled>>
  PROVE  SessionsInv'
<1>1. \A t \in Tokens : session'[t] = IF t \in S THEN None ELSE session[t]
  BY DEF DeleteSessions
<1>2. SessionsTypes'
  BY DEF DeleteSessions, SessionsInv, SessionsTypes
<1>3. ASSUME NEW t \in Tokens
      PROVE  SessionOK(t)'
  <2>1. CASE t \in S
    <3>1. /\ SessionOK(t) /\ session[t] # None /\ clock \in Nat
          /\ (used[t] # None => used[t] \in Nat) /\ session[t].seen \in Nat
          /\ owner[t] # None
      BY <2>1, SessionsAssumption DEF SessionsInv, SessionsTypes, SessionOK, Times, Rows
    <3>2. used[t] # None /\ t \notin ended' => used[t] + Ttl <= clock + TouchAfter
      BY <2>1, <3>1, SessionsAssumption DEF SessionOK
    <3> QED BY <1>1, <2>1, <3>1, <3>2 DEF SessionOK
  <2>2. CASE t \notin S
    BY <1>1, <2>2 DEF SessionsInv, SessionOK
  <2> QED BY <2>1, <2>2
<1>4. ASSUME NEW r \in Presses
      PROVE  RequestOK(request[r])'
  <2> DEFINE q == request[r]
  <2>1. RequestOK(q) /\ q \in Requests
    BY DEF SessionsInv, SessionsTypes
  <2>2. q.at = "answered" /\ q.kind = "sign_in" => SigningIn(q)'
    BY <1>1, <2>1 DEF RequestOK, SigningIn, Requests
  <2>3. q.at \in {"looked", "answered"} /\ q.kind # "sign_in" => Resolved(q)'
    BY <1>1, <2>1 DEF RequestOK, Resolved, Requests
  <2> QED BY <2>1, <2>2, <2>3 DEF RequestOK, Reading
<1>5. AccountsInv' /\ \A r, s \in Presses : r # s => PairOK(request[r], request[s])'
  BY DEF SessionsInv, AccountsInv, PairOK
<1> QED BY <1>2, <1>3, <1>4, <1>5 DEF SessionsInv

LEMMA DeactivateStep ==
  ASSUME SessionsInv, NEW a \in Accounts, Deactivate(a)
  PROVE  SessionsInv'
<1>1. /\ user' \in [Accounts -> Users \union {None}]
      /\ \A b \in Accounts : (user'[b] = None <=> user[b] = None) /\ (user[b] # None => user'[b].sub = user[b].sub)
  <2> DEFINE new == [user[a] EXCEPT !.active = FALSE]
  <2>1. user' = [user EXCEPT ![a] = new] /\ user[a] # None
    BY DEF Deactivate, SessionsInv, SessionsTypes
  <2>2. new \in Users /\ new.sub = user[a].sub
    BY <2>1 DEF SessionsInv, SessionsTypes, Users
  <2> HIDE DEF new
  <2> QED BY <2>1, <2>2, SessionsAssumption DEF SessionsInv, SessionsTypes
<1>2. UNCHANGED <<clock, session, cookie, pages, request, histories>>
  BY DEF Deactivate
<1>3. SessionsTypes' /\ AccountsInv'
  BY <1>1, <1>2 DEF SessionsInv, SessionsTypes, AccountsInv, histories
<1>4. \A t \in Tokens : SessionOK(t)'
  <2>1. \A t \in Tokens : session[t] # None => session[t].user \in Accounts
    BY SessionsAssumption DEF SessionsInv, SessionsTypes, Rows
  <2> QED BY <1>1, <1>2, <2>1 DEF SessionsInv, SessionOK, histories
<1>5. ASSUME NEW r \in Presses
      PROVE  RequestOK(request[r])'
  <2>1. RequestOK(request[r]) /\ request[r] \in Requests
    BY DEF SessionsInv, SessionsTypes
  <2> QED BY <1>1, <1>2, <2>1 DEF RequestOK, Reading, SigningIn, Resolved, Requests, histories
<1>6. ASSUME NEW r \in Presses, NEW s \in Presses, r # s
      PROVE  PairOK(request[r], request[s])'
  <2>1. /\ request[r] \in Requests /\ request[s] \in Requests /\ PairOK(request[r], request[s])
        /\ RequestOK(request[r]) /\ RequestOK(request[s])
    BY <1>6 DEF SessionsInv, SessionsTypes
  <2> QED BY <1>1, <1>2, <2>1 DEF PairOK, RequestOK, SigningIn, Requests
<1> QED BY <1>2, <1>3, <1>4, <1>5, <1>6 DEF SessionsInv, histories

LEMMA TickStep ==
  ASSUME SessionsInv, Tick
  PROVE  SessionsInv'
<1>1. clock \in Nat /\ clock' = clock + 1 /\ clock' \in Times
      /\ UNCHANGED <<user, session, cookie, pages, request, histories>>
  BY SessionsAssumption DEF Tick, SessionsInv, SessionsTypes, Times
<1>2. SessionsTypes' /\ AccountsInv'
  BY <1>1 DEF SessionsInv, SessionsTypes, AccountsInv, histories
<1>3. ASSUME NEW t \in Tokens
      PROVE  SessionOK(t)'
  <2>1. SessionOK(t) /\ (used[t] # None => used[t] \in Nat)
    BY DEF SessionsInv, SessionsTypes, Times
  <2> QED BY <1>1, <2>1, SessionsAssumption DEF SessionOK, histories
<1>4. ASSUME NEW r \in Presses
      PROVE  RequestOK(request[r])'
  <2>1. RequestOK(request[r]) /\ request[r].now \in Nat
    BY DEF SessionsInv, SessionsTypes, Requests, Times
  <2> QED BY <1>1, <2>1, SessionsAssumption DEF Tick, RequestOK, Reading, SigningIn, Resolved, histories
<1>5. \A r, s \in Presses : r # s => PairOK(request[r], request[s])'
  BY <1>1 DEF SessionsInv, PairOK
<1> QED BY <1>1, <1>2, <1>3, <1>4, <1>5 DEF SessionsInv, histories

LEMMA SessionsStep ==
  ASSUME SessionsInv, SessionsNext
  PROVE  SessionsInv'
<1>1. ASSUME NEW r \in Presses, NEW kind \in {"form", "logout"}, NEW page \in pages,
             OptionalSession(r, kind, page)
      PROVE  SessionsInv'
  BY <1>1, LookupStep DEF Kinds, SessionsInv, SessionsTypes
<1>2. ASSUME NEW r \in Presses, OptionalSession(r, "page", None)
      PROVE  SessionsInv'
  BY <1>2, LookupStep DEF Kinds
<1>3. ASSUME NEW r \in Presses, Commit(r)
      PROVE  SessionsInv'
  BY <1>3, SignInCommitStep, OtherCommitStep
<1>4. ASSUME PurgeExpired
      PROVE  SessionsInv'
  <2>1. /\ Expired \in SUBSET Tokens /\ \A t \in Expired : session[t] # None /\ session[t].expires <= clock
    BY DEF Expired
  <2>2. DeleteSessions(Expired) /\ UNCHANGED <<clock, user, cookie, pages, request, owner, used, ended, misfiled>>
    BY <1>4 DEF PurgeExpired, histories
  <2>3. ended' \subseteq Tokens
    BY <2>2 DEF SessionsInv, SessionsTypes
  <2> QED BY <2>1, <2>2, <2>3, DeleteStep
<1>5. ASSUME NEW a \in Accounts, DeleteForUser(a)
      PROVE  SessionsInv'
  <2> DEFINE mine == {t \in Tokens : session[t] # None /\ session[t].user = a}
  <2>1. /\ mine \in SUBSET Tokens /\ \A t \in mine : session[t] # None
        /\ DeleteSessions(mine) /\ ended' = ended \union mine
        /\ UNCHANGED <<clock, user, cookie, pages, request, owner, used, misfiled>>
    BY <1>5 DEF DeleteForUser
  <2>2. ended' \subseteq Tokens
    BY <2>1 DEF SessionsInv, SessionsTypes
  <2> HIDE DEF mine
  <2> QED BY <2>1, <2>2, DeleteStep
<1> QED BY <1>1, <1>2, <1>3, <1>4, <1>5, CallbackStep, UpsertStep, HandleStep, LostStep,
         DeactivateStep, TickStep DEF SessionsNext

----------------------------------------------------------------------------
(* All four: a behaviour is of one of them, and leaves the others alone.   *)

AccountInv ==
  /\ mode = "titles" => TitlesInv
  /\ mode = "answers" => AnswersInv
  /\ mode = "key" => KeyInv
  /\ mode = "visit" => SessionsInv

LEMMA AccountStart == MCInit => AccountInv
BY TitlesStart, AnswersStart, KeyStart, SessionsStart DEF MCInit, AccountInv

LEMMA AccountStep ==
  ASSUME AccountInv, [MCNext]_MCVars
  PROVE  AccountInv'
<1>1. CASE MCNext
  BY <1>1, TitlesStep, AnswersStep, KeyStep, SessionsStep DEF MCNext, AccountInv
<1>2. CASE UNCHANGED MCVars
  <2>1. TitlesInv => TitlesInv'
    BY <1>2 DEF MCVars, titlesVars, TitlesInv, T!TitlesTypeOK, ChosenInv
  <2>2. AnswersInv => AnswersInv'
    BY <1>2 DEF MCVars, answersVars, AnswersInv, AnswersTypes, SoleInv, Held, A!WaitingHasTask
  <2>3. KeyInv => KeyInv'
    BY <1>2 DEF MCVars, keyVars, KeyInv, K!KeyTypeOK, K!HeldByTheStoredKey, K!HeldUnderTheBanner
  <2>4. SessionsInv => SessionsInv'
    BY <1>2 DEF MCVars, sessionsVars, histories, SessionsInv, SessionsTypes, AccountsInv, SessionOK,
         RequestOK, Reading, SigningIn, Resolved, PairOK
  <2> QED BY <1>2, <2>1, <2>2, <2>3, <2>4 DEF AccountInv, MCVars
<1> QED BY <1>1, <1>2

THEOREM Invariance == MCSpec => []AccountInv
BY AccountStart, AccountStep, PTL DEF MCSpec

\* A title enters the filter by the user's hand and is asked for once, whatever words
\* there are, however many presses overlap and however often the worker dies.
THEOREM TitlesChosen == MCSpec => []TitlesAreChosen
<1>1. AccountInv => TitlesAreChosen
  BY TitlesConclude DEF AccountInv, TitlesAreChosen
<1> QED BY <1>1, Invariance, PTL

\* A verdict is of the words beside it, for any number of attempts and deliveries.
THEOREM VerdictOfItsText == MCSpec => []VerdictIsOfItsText
<1>1. AccountInv => VerdictIsOfItsText
  BY AnswersConclude DEF AccountInv, VerdictIsOfItsText
<1> QED BY <1>1, Invariance, PTL

\* Work is held back by the stored key and under the banner, and a request is made as
\* who signed in, for any number of keys, tasks, accounts, tokens, requests and times.
THEOREM AccountSafe == MCSpec => []AccountIsTheUsers
<1>1. AccountInv => AccountIsTheUsers
  BY SessionsConclude DEF AccountInv, AccountIsTheUsers, KeyInv
<1> QED BY <1>1, Invariance, PTL
=============================================================================
