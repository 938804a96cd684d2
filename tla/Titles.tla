------------------------------- MODULE Titles -------------------------------
(***************************************************************************)
(* Titles suggested for the saved filter (routes/jobs, handlers, storage   *)
(* and routes title_suggestions, jfl_generate.titles). Saving the filter   *)
(* asks the model, once per phrase, for titles near each phrase it         *)
(* includes; the user ticks those they want, and only ticked titles enter  *)
(* the filter.                                                             *)
(*                                                                         *)
(* A phrase, like a title, is the set of its words: what it matches by and *)
(* what its row is keyed on.                                               *)
(***************************************************************************)
EXTENDS Naturals, FiniteSets

CONSTANTS
  Vocabulary,      \* words
  Accepts,         \* presses of "add these" that may be in progress
  MaxSuggestions,  \* MAX_SUGGESTIONS
  MaxTries,        \* tasks.max_attempts
  MaxAsked,        \* bound: titles in the model's answer
  MaxTyped,        \* bound: phrases in the form
  None

VARIABLES
  saved,     \* the user's row of job_filters
  hasKey,    \* whether an API key is stored
  row,       \* row[p]: the title_suggestions row of the phrase
  task,      \* task[p]: the suggest_titles task queued with it
  thread,    \* thread[p]: where the delivery of it stands
  accepting, \* the presses of "add these" in progress
  wanted,    \* history: phrases typed or ticked
  spent      \* history: per phrase, tasks queued, answers paid for, deaths

titlesVars == <<saved, hasKey, row, task, thread, accepting, wanted, spent>>

Titles == SUBSET Vocabulary \ {{}}
Modes  == {"remote_only", "custom"}

JobFilters      == [mode: Modes, includes: SUBSET Titles]
SuggestionRows  == [status: {"absent", "pending", "done", "failed"},
                    offered: SUBSET Titles, dismissed: BOOLEAN]
NoRow           == [status |-> "absent", offered |-> {}, dismissed |-> FALSE]
NoTask          == [status |-> "absent", tries |-> 0]
Idle            == [at |-> "none", others |-> {}]
NotAccepting    == [at |-> "none", ticked |-> {}, read |-> None]

TitlesTypeOK ==
  /\ saved \in JobFilters
  /\ hasKey \in BOOLEAN
  /\ row \in [Titles -> SuggestionRows]
  /\ task \in [Titles -> [status: {"absent", "pending", "running", "succeeded", "failed"},
                          tries: 0..MaxTries]]
  /\ thread \in [Titles -> [at: {"none", "call", "answered"}, others: SUBSET Titles]]
  /\ accepting \in [Accepts -> [at: {"none", "read"}, ticked: SUBSET Titles,
                                read: JobFilters \union {None}]]

TitlesInit ==
  /\ saved = [mode |-> "custom", includes |-> {}]
  /\ hasKey \in BOOLEAN
  /\ row = [p \in Titles |-> NoRow]
  /\ task = [p \in Titles |-> NoTask]
  /\ thread = [p \in Titles |-> Idle]
  /\ accepting = [a \in Accepts |-> NotAccepting]
  /\ wanted = {}
  /\ spent = [p \in Titles |-> [queued |-> 0, paid |-> 0, died |-> 0]]

----------------------------------------------------------------------------
(* The filter and its panel.                                               *)

\* Mutant: a phrase whose call failed is asked about again.
NewOrFailed(phrases) == {p \in phrases : row[p].status \in {"absent", "failed"}}

\* A row and a task for each phrase never asked about: ON CONFLICT DO NOTHING.
NeverAsked(phrases) == {p \in phrases : row[p].status = "absent"}

EnqueueTitleSuggestions(phrases) ==
  LET new == NeverAsked(phrases)
  IN /\ row' = [p \in Titles |-> IF p \in new THEN [row[p] EXCEPT !.status = "pending"] ELSE row[p]]
     /\ task' = [p \in Titles |-> IF p \in new THEN [status |-> "pending", tries |-> 0] ELSE task[p]]
     /\ spent' = [p \in Titles |-> IF p \in new THEN [spent[p] EXCEPT !.queued = @ + 1] ELSE spent[p]]

\* POST /jobs/filter: the whole filter is replaced; without a key nothing is asked.
SaveFilter(mode, includes) ==
  /\ saved' = [mode |-> mode, includes |-> includes]
  /\ wanted' = wanted \union includes
  /\ IF hasKey THEN EnqueueTitleSuggestions(includes) ELSE UNCHANGED <<row, task, spent>>
  /\ UNCHANGED <<hasKey, thread, accepting>>

SuggestMissing ==
  /\ hasKey
  /\ EnqueueTitleSuggestions(saved.includes)
  /\ UNCHANGED <<saved, hasKey, thread, accepting, wanted>>

\* Nothing takes a stored key away.
KeyIsStored ==
  /\ hasKey' = TRUE
  /\ UNCHANGED <<saved, row, task, thread, accepting, wanted, spent>>

\* One of the terms matches whatever the title does: all its words are there.
AlreadyCovered(title, terms) == \E term \in terms : term \subseteq title

\* The press, on a page of any age, reads the row and the filter, and writes the
\* filter back with what was ticked of the row.
BeginAccept(a, p, ticked) ==
  /\ accepting[a].at = "none"
  /\ ticked # {} /\ ticked \subseteq row[p].offered
  /\ accepting' = [accepting EXCEPT ![a] = [at |-> "read", ticked |-> ticked, read |-> saved]]
  /\ UNCHANGED <<saved, hasKey, row, task, thread, wanted, spent>>

\* save_filter is called without the mode, whose default is "custom".
CommitAccept(a) ==
  /\ accepting[a].at = "read"
  /\ saved' = [mode |-> "custom",
               includes |-> accepting[a].read.includes \union accepting[a].ticked]
  /\ wanted' = wanted \union accepting[a].ticked
  /\ accepting' = [accepting EXCEPT ![a] = NotAccepting]
  /\ UNCHANGED <<hasKey, row, task, thread, spent>>

\* Kept, so that the phrase is not asked about again.
DismissRow(p) == row' = [row EXCEPT ![p].dismissed = TRUE]

Dismiss(p) ==
  /\ row[p].status # "absent"
  /\ DismissRow(p)
  /\ UNCHANGED <<saved, hasKey, task, thread, accepting, wanted, spent>>

----------------------------------------------------------------------------
(* The worker.                                                             *)

Ends(p, status)   == task' = [task EXCEPT ![p].status = status]
Retries(p)        == Ends(p, IF task[p].tries < MaxTries THEN "pending" ELSE "failed")
MarkFailed(p)     == row' = [row EXCEPT ![p].status = "failed"]

\* Mutant: a row the last delivery failed is left as it is.
AlreadySettled(p) == row[p].status \in {"done", "failed"}

\* A delivery: one already answered is skipped, one whose key cannot be unsealed
\* fails for good; any other reads the filter, and calls.
AlreadyAnswered(p) == row[p].status = "done"

Claim(p, unsealed) ==
  /\ task[p].status = "pending" /\ thread[p] = Idle
  /\ task' = [task EXCEPT ![p] = [status |-> IF AlreadyAnswered(p) THEN "succeeded"
                                             ELSE IF unsealed THEN "running" ELSE "failed",
                                  tries |-> @.tries + 1]]
  /\ IF AlreadyAnswered(p) \/ unsealed THEN UNCHANGED row ELSE MarkFailed(p)
  /\ thread' = IF AlreadyAnswered(p) \/ ~unsealed THEN thread
               ELSE [thread EXCEPT ![p] = [at |-> "call", others |-> saved.includes \ {p}]]
  /\ UNCHANGED <<saved, hasKey, accepting, wanted, spent>>

\* The answer, without what the filter already matched and as much as there is
\* room for.
Sanitise(answer, p, others) ==
  LET new == {t \in answer : ~AlreadyCovered(t, others \union {p})}
  IN {S \in SUBSET new : Cardinality(S) = IF Cardinality(new) > MaxSuggestions
                                          THEN MaxSuggestions ELSE Cardinality(new)}

Answers(p) ==
  /\ thread[p].at = "call"
  /\ thread' = [thread EXCEPT ![p].at = "answered"]
  /\ spent' = [spent EXCEPT ![p].paid = @ + 1]
  /\ UNCHANGED <<saved, hasKey, row, task, accepting, wanted>>

MarkDone(p, answer) ==
  /\ thread[p].at = "answered"
  /\ \E offered \in Sanitise(answer, p, thread[p].others) :
       row' = [row EXCEPT ![p] = [@ EXCEPT !.status = "done", !.offered = offered]]
  /\ thread' = [thread EXCEPT ![p] = Idle]
  /\ UNCHANGED <<saved, hasKey, task, accepting, wanted, spent>>

\* The outcome is recorded after, by the runner.
Succeed(p) ==
  /\ task[p].status = "running" /\ thread[p] = Idle /\ row[p].status = "done"
  /\ Ends(p, "succeeded")
  /\ UNCHANGED <<saved, hasKey, row, thread, accepting, wanted, spent>>

\* Failed for good or for now; and refused by the account, which the row waits out.
CallFails(p, permanent) ==
  /\ thread[p].at = "call"
  /\ MarkFailed(p)
  /\ IF permanent THEN Ends(p, "failed") ELSE Retries(p)
  /\ thread' = [thread EXCEPT ![p] = Idle]
  /\ UNCHANGED <<saved, hasKey, accepting, wanted, spent>>

Blocked(p) ==
  /\ thread[p].at = "call"
  /\ task' = [task EXCEPT ![p] = [status |-> "pending", tries |-> @.tries - 1]]
  /\ thread' = [thread EXCEPT ![p] = Idle]
  /\ UNCHANGED <<saved, hasKey, row, accepting, wanted, spent>>

\* The process dies, and the sweep finds the task.
Dies(p) ==
  /\ task[p].status = "running"
  /\ Retries(p)
  /\ thread' = [thread EXCEPT ![p] = Idle]
  /\ spent' = [spent EXCEPT ![p].died = @ + 1]
  /\ UNCHANGED <<saved, hasKey, row, accepting, wanted>>

TitlesNext ==
  \/ \E mode \in Modes, includes \in SUBSET Titles :
       Cardinality(includes) <= MaxTyped /\ SaveFilter(mode, includes)
  \/ SuggestMissing \/ KeyIsStored
  \/ \E a \in Accepts : \/ \E p \in Titles, ticked \in SUBSET Titles : BeginAccept(a, p, ticked)
                        \/ CommitAccept(a)
  \/ \E p \in Titles :
       \/ Dismiss(p) \/ Answers(p) \/ Succeed(p) \/ Blocked(p) \/ Dies(p)
       \/ \E answer \in SUBSET Titles : Cardinality(answer) <= MaxAsked /\ MarkDone(p, answer)
       \/ \E unsealed \in BOOLEAN : Claim(p, unsealed)
       \/ \E permanent \in BOOLEAN : CallFails(p, permanent)

TitlesSpec == TitlesInit /\ [][TitlesNext]_titlesVars

----------------------------------------------------------------------------
\* No suggestion enters the filter by itself: whatever requests and deliveries
\* overlap, each phrase of it was typed or ticked.
OnlyChosenTitles == saved.includes \subseteq wanted

\* One call per phrase, ever, dismissed or removed and typed again in between: one
\* task is queued, and only a process that died with the answer pays for a second.
AskedOnce ==
  \A p \in Titles : spent[p].queued <= 1 /\ spent[p].paid <= 1 + spent[p].died

\* A phrase that says it is being asked about has a task that will answer it, unless
\* the process died in its last try; one whose task has ended well has its answer.
WaitingHasTask ==
  \A p \in Titles :
    /\ row[p].status = "pending" =>
         task[p].status \in {"pending", "running"} \/ spent[p].died > 0
    /\ task[p].status = "succeeded" => row[p].status \in {"absent", "done"}

\* Adding ticked titles changes nothing of the filter but its titles. By hand
\* (see the README): the mode goes back to "custom".
AcceptAddsTitlesOnly ==
  [][\A a \in Accepts : CommitAccept(a) /\ saved = accepting[a].read =>
       saved'.mode = saved.mode]_titlesVars

\* By hand (see the README): and takes none out. One typed and saved since the
\* press read the filter goes.
AcceptOnlyAdds ==
  [][\A a \in Accepts : CommitAccept(a) => saved.includes \subseteq saved'.includes]_titlesVars
=============================================================================
