------------------------------ MODULE Tracker -------------------------------
(***************************************************************************)
(* The list of applications (storage/applications.py, routes/applications, *)
(* routes/tracking, archive_rules, bulk_actions): what a user does to the  *)
(* rows, one by one and in bulk, while the worker moves their reads and    *)
(* scores.  Pipeline has the tasks behind one read and one score; here a   *)
(* read or a score is pending until it ends.                               *)
(*                                                                         *)
(* Two requests read before they write: a status change and a press of     *)
(* Track as application.  Each is two actions, and others come between.    *)
(* Every other request is one transaction whose reads and writes nothing   *)
(* here can tell from one step.                                            *)
(***************************************************************************)
EXTENDS Integers, Sequences, FiniteSets, SequencesExt

CONSTANTS
  Apps,        \* ids of applications
  BoardJobs,   \* jobs of watched boards
  Requests,    \* the requests that may be between their read and their write
  None,
  MaxNow,      \* bound: the clock, in days
  MaxEvents    \* bound: the entries of one timeline

VARIABLES
  app,       \* the rows of `applications`, with what their scores add up to
  timeline,  \* their application_events, oldest first (get_application)
  request,   \* the requests in progress
  banner,    \* what the last bulk archive redirected to: the ids Undo sends
  now,
  before,    \* history: what was archived before that bulk archive
  acted,     \* history: when each application last moved forward
  had,       \* history: the statuses each has had, in order
  doubled,   \* history: jobs restored, or pressed twice at once
  overtaken  \* history: applications with a change that overtook another

trackerVars == <<app, timeline, request, banner, now, before, acted, had, doubled,
                 overtaken>>
history     == <<before, acted, had, doubled, overtaken>>

Statuses == {"interested", "applied", "rejected"}
Terminal == {"rejected"}                         \* TERMINAL_STATUSES
Reads    == {"none", "pending", "done", "failed", "unavailable"}
Numbers  == 1..2                                 \* below a rule's number, or not

\* What the scores say on the list: the latest run's state, and the numbers of
\* the latest one that finished. An empty profile has no number on one axis.
RowScores == [state: {"unscored", "scoring", "retrying", "failed", "done"},
              want: Numbers \union {None}, could: Numbers \union {None}]
Unscored  == [state |-> "unscored", want |-> None, could |-> None]

Rows == [there: BOOLEAN, job: BoardJobs \union {None}, status: Statuses,
         archived: BOOLEAN, updated: 0..MaxNow, hasAd: BOOLEAN,
         reading: Reads, required: BOOLEAN, score: RowScores]

Absent == [there |-> FALSE, job |-> None, status |-> "interested", archived |-> FALSE,
           updated |-> 0, hasAd |-> FALSE, reading |-> "none", required |-> FALSE,
           score |-> Unscored]

Events == [from: Statuses \union {None}, to: Statuses]

\* A status change knows its place in the timeline, which goes by the time its
\* transaction began, and the changes in progress that began before it.
NoRequest == [kind |-> "none", app |-> None, from |-> None, to |-> None, job |-> None,
              place |-> 0, after |-> {}]
Pending   == [kind: {"none", "status", "track"}, app: Apps \union {None},
              from: Statuses \union {None}, to: Statuses \union {None},
              job: BoardJobs \union {None}, place: 0..MaxEvents, after: SUBSET Requests]

NoBanner == [ids |-> {}, picked |-> FALSE]

TrackerTypeOK ==
  /\ app \in [Apps -> Rows]
  /\ timeline \in [Apps -> Seq(Events)]
  /\ request \in [Requests -> Pending]
  /\ banner \in [ids: SUBSET Apps, picked: BOOLEAN]
  /\ now \in 0..MaxNow

TrackerInit ==
  /\ app = [a \in Apps |-> Absent]
  /\ timeline = [a \in Apps |-> <<>>]
  /\ request = [p \in Requests |-> NoRequest]
  /\ banner = NoBanner
  /\ now = 0
  /\ before = {}
  /\ acted = [a \in Apps |-> 0]
  /\ had = [a \in Apps |-> <<>>]
  /\ doubled = {}
  /\ overtaken = {}

\* One job tracked, and its description asked for: where the scores start from.
TrackedOne(a, j) ==
  /\ app = [b \in Apps |-> IF b = a THEN [Absent EXCEPT !.there = TRUE, !.job = j,
                                           !.reading = "pending"] ELSE Absent]
  /\ timeline = [b \in Apps |-> IF b = a THEN <<[from |-> None, to |-> "interested"]>> ELSE <<>>]
  /\ had = [b \in Apps |-> IF b = a THEN <<"interested">> ELSE <<>>]
  /\ request = [p \in Requests |-> NoRequest]
  /\ banner = NoBanner /\ now = 0 /\ before = {}
  /\ doubled = {} /\ overtaken = {}
  /\ acted = [b \in Apps |-> 0]

There    == {a \in Apps : app[a].there}
Live     == {a \in There : ~app[a].archived}      \* list_applications()
Archived == There \ Live

\* Undo is pressed on the page a bulk archive answered with. Once anything else
\* has been archived or restored, it is a bulk restore like any other.
Stale == banner' = NoBanner /\ before' = {}

\* Every UPDATE sets updated_at (onupdate=func.now()) unless it says otherwise.
Moved(a, row) ==
  /\ app' = [app EXCEPT ![a] = [row EXCEPT !.updated = now]]
  /\ acted' = [acted EXCEPT ![a] = now]

----------------------------------------------------------------------------
(* Adding an application.                                                  *)

\* The row and the event that opens its timeline.
CreateApplication(a, row) ==
  /\ a \notin There
  /\ Moved(a, [row EXCEPT !.there = TRUE])
  /\ timeline' = [timeline EXCEPT ![a] = <<[from |-> None, to |-> row.status]>>]
  /\ had' = [had EXCEPT ![a] = <<row.status>>]

\* POST /applications: with no key stored the read is not queued, and says why.
PasteAd(a, hasKey) ==
  /\ CreateApplication(a, [Absent EXCEPT !.hasAd = TRUE,
                             !.reading = IF hasKey THEN "pending" ELSE "failed"])
  /\ UNCHANGED <<request, banner, now, before, doubled, overtaken>>

\* Mutant: an application that was turned down does not count.
FindByStatus(j) == {a \in Live : app[a].job = j /\ app[a].status \notin Terminal}

FindLiveByBoardJob(j) == {a \in Live : app[a].job = j}

\* POST /jobs/{id}/track reads first, and creates afterwards.
Track(p, j) ==
  /\ request[p] = NoRequest
  /\ FindLiveByBoardJob(j) = {}
  /\ request' = [request EXCEPT ![p] = [NoRequest EXCEPT !.kind = "track", !.job = j]]
  /\ doubled' = IF \E q \in Requests : request[q].job = j THEN doubled \union {j} ELSE doubled
  /\ UNCHANGED <<app, timeline, banner, now, before, acted, had, overtaken>>

FinishTrack(p, a) ==
  /\ request[p].kind = "track"
  /\ CreateApplication(a, [Absent EXCEPT !.job = request[p].job, !.reading = "pending"])
  /\ request' = [request EXCEPT ![p] = NoRequest]
  /\ UNCHANGED <<banner, now, before, doubled, overtaken>>

----------------------------------------------------------------------------
(* The status, and its timeline.                                           *)

Changing(a) == {p \in Requests : request[p].app = a}

\* change_status SELECTs the status it comes from, without a lock.
ChangeStatus(p, a, s) ==
  /\ request[p] = NoRequest
  /\ a \in There
  /\ Len(timeline[a]) + Cardinality(Changing(a)) < MaxEvents
  /\ request' = [request EXCEPT ![p] =
       [NoRequest EXCEPT !.kind = "status", !.app = a, !.from = app[a].status, !.to = s,
                         !.place = Len(timeline[a]), !.after = Changing(a)]]
  /\ UNCHANGED <<app, timeline, banner, now, history>>

\* It writes the status and the event; the event's time is when it began, so the
\* changes that began after it come after it on the page, written already or not.
WriteStatus(p, entries) ==
  LET r == request[p] IN
  /\ r.kind = "status"
  /\ Moved(r.app, [app[r.app] EXCEPT !.status = r.to])
  /\ timeline' = [timeline EXCEPT ![r.app] = entries]
  /\ had' = [had EXCEPT ![r.app] = Append(@, r.to)]
  /\ overtaken' = IF r.after # {} THEN overtaken \union {r.app} ELSE overtaken
  /\ request' = [q \in Requests |->
       IF q = p THEN NoRequest
       ELSE IF p \in request[q].after
            THEN [request[q] EXCEPT !.place = @ + 1, !.after = @ \ {p}]
       ELSE request[q]]
  /\ UNCHANGED <<banner, now, before, doubled>>

\* Mutant: the status is written, and the timeline only where it differs.
FinishStatusIfNew(p) ==
  LET r == request[p] IN
  WriteStatus(p, IF r.to = r.from THEN timeline[r.app]
                 ELSE InsertAt(timeline[r.app], r.place + 1, [from |-> r.from, to |-> r.to]))

FinishStatus(p) ==
  LET r == request[p] IN
  WriteStatus(p, InsertAt(timeline[r.app], r.place + 1, [from |-> r.from, to |-> r.to]))

UpdateNotes(a) ==
  /\ a \in There
  /\ Moved(a, app[a])
  /\ UNCHANGED <<timeline, request, banner, now, before, had, doubled, overtaken>>

----------------------------------------------------------------------------
(* Archiving: one row, a selection, or by a rule.                          *)

\* Mutant: the column's onupdate is left to fire.
SetArchivedTouching(S, yes) ==
  app' = [a \in Apps |-> IF a \in S THEN [app[a] EXCEPT !.archived = yes, !.updated = now]
                         ELSE app[a]]

\* An UPDATE of archived_at that keeps updated_at: housekeeping, not progress.
SetArchived(S, yes) ==
  app' = [a \in Apps |-> IF a \in S THEN [app[a] EXCEPT !.archived = yes] ELSE app[a]]

ArchiveOne(a) ==
  /\ a \in There
  /\ SetArchived({a}, TRUE)
  /\ Stale
  /\ UNCHANGED <<timeline, request, now, acted, had, doubled, overtaken>>

\* A job whose application is restored may have been tracked again meanwhile.
Restored(S) == doubled' = doubled \union {app[a].job : a \in S}

Unarchive(a) ==
  /\ a \in There
  /\ SetArchived({a}, FALSE)
  /\ Restored({a})
  /\ Stale
  /\ UNCHANGED <<timeline, request, now, acted, had, overtaken>>

\* Archives the ids that are the user's, and returns them for Undo.
ArchiveMany(S, picked) ==
  /\ S # {}
  /\ SetArchived(S, TRUE)
  /\ banner' = [ids |-> S, picked |-> picked]
  /\ before' = Archived
  /\ UNCHANGED <<timeline, request, now, acted, had, doubled, overtaken>>

\* The boxes were ticked on a page that may be older than the rows.
BulkArchive(S) == S \subseteq There /\ ArchiveMany(S, TRUE)

BulkUnarchive(S) ==
  /\ S \subseteq There
  /\ SetArchived(S, FALSE)
  /\ Restored(S)
  /\ Stale
  /\ UNCHANGED <<timeline, request, now, acted, had, overtaken>>

Undo ==
  /\ banner.ids # {}
  /\ BulkUnarchive({a \in banner.ids : app[a].archived})

\* A rule: an axis to be below the number, statuses, days without activity. The
\* form never makes an empty one, which would archive everything.
ArchiveRules == [axis: {None, "want", "could", "either", "both"},
                 statuses: SUBSET Terminal, days: {None, 1}]
IsEmpty(rule) == rule.axis = None /\ rule.statuses = {} /\ rule.days = None
Rules         == {rule \in ArchiveRules : ~IsEmpty(rule)}

\* Only a finished run's numbers, and only where there is one, can be low.
ScoreMatches(axis, row) ==
  LET low(n) == n # None /\ n < 2 IN
  /\ row.state = "done"
  /\ CASE axis = "want"   -> low(row.want)
       [] axis = "could"  -> low(row.could)
       [] axis = "either" -> low(row.want) \/ low(row.could)
       [] axis = "both"   -> low(row.want) /\ low(row.could)

Matches(a, rule) ==
  /\ ~IsEmpty(rule)
  /\ rule.axis # None => ScoreMatches(rule.axis, app[a].score)
  /\ rule.statuses # {} => app[a].status \in rule.statuses
  /\ rule.days # None => now - app[a].updated >= rule.days

\* Mutant: the rule is matched over the whole table.
ArchiveByRuleAll(rule) == ArchiveMany({a \in There : Matches(a, rule)}, FALSE)

\* The preview writes nothing; the button on it matches again, then archives.
ArchiveByRule(rule) == ArchiveMany({a \in Live : Matches(a, rule)}, FALSE)

----------------------------------------------------------------------------
(* Reading and scoring, one by one and in bulk.                            *)

\* request_extraction and the task: nothing to read, nothing queued.
EnqueueRead(row) == IF row.hasAd THEN [row EXCEPT !.reading = "pending"] ELSE row

\* A pending score and its task, unless one is in flight.
EnqueueScore(row) ==
  IF row.score.state \in {"scoring", "retrying"} THEN row
  ELSE [row EXCEPT !.score.state = "scoring"]

\* "Read it again", and the paste box where a board gave no description.
ExtractAgain(a) ==
  /\ a \in There /\ app[a].hasAd
  /\ Moved(a, EnqueueRead(app[a]))
  /\ UNCHANGED <<timeline, request, banner, now, before, had, doubled, overtaken>>

AttachAd(a) ==
  /\ a \in There
  /\ Moved(a, [app[a] EXCEPT !.hasAd = TRUE, !.reading = "pending"])
  /\ UNCHANGED <<timeline, request, banner, now, before, had, doubled, overtaken>>

\* What a bulk press changes of the rows: only a read touches `applications`.
Press(S, Enqueue(_)) ==
  /\ app' = [a \in Apps |->
       IF a \in S
       THEN [Enqueue(app[a]) EXCEPT !.updated =
               IF Enqueue(app[a]).reading # app[a].reading THEN now ELSE @]
       ELSE app[a]]
  /\ acted' = [a \in Apps |-> IF app'[a].updated # app[a].updated THEN now ELSE acted[a]]
  /\ UNCHANGED <<timeline, request, banner, now, before, had, doubled, overtaken>>

ScoreApplication(a) == a \in There /\ Press({a}, EnqueueScore)

\* partition_rescore: not one in flight, nor one with nothing to score against.
Eligible(S) == {a \in S : /\ app[a].score.state \notin {"scoring", "retrying"}
                          /\ app[a].required}

RescoreConfirm(S) == S \subseteq There /\ Press(Eligible(S), EnqueueScore)

\* plan_retry_failed over the live list: a failed read wins over a failed score.
RetryReads  == {a \in Live : app[a].reading = "failed"}
RetryScores == {a \in Live : /\ app[a].reading \notin {"failed", "unavailable"}
                             /\ app[a].score.state = "failed"}

\* Mutant: what failed is scored, whichever it was.
RetryPressScores(row) == EnqueueScore(row)

RetryPress(row) ==
  IF row.reading = "failed" THEN EnqueueRead(row) ELSE EnqueueScore(row)

RetryFailed ==
  /\ RetryReads \union RetryScores # {}
  /\ Press(RetryReads \union RetryScores, RetryPress)

----------------------------------------------------------------------------
(* The worker.                                                             *)

\* The board's description is attached and its read queued, or not to be had.
DescriptionArrives(a, hasKey) ==
  /\ app[a].reading = "pending" /\ ~app[a].hasAd
  /\ Moved(a, [app[a] EXCEPT !.hasAd = TRUE, !.reading = IF hasKey THEN "pending" ELSE "failed"])
  /\ UNCHANGED <<timeline, request, banner, now, before, had, doubled, overtaken>>

DescriptionFails(a) ==
  /\ app[a].reading = "pending" /\ ~app[a].hasAd
  /\ Moved(a, [app[a] EXCEPT !.reading = "unavailable"])
  /\ UNCHANGED <<timeline, request, banner, now, before, had, doubled, overtaken>>

\* A read ends, and chains the first score unless one is in flight or done.
ReadEnds(a, ok) ==
  /\ app[a].reading = "pending" /\ app[a].hasAd
  /\ Moved(a,
       IF ~ok THEN [app[a] EXCEPT !.reading = "failed"]
       ELSE LET read == [app[a] EXCEPT !.reading = "done", !.required = TRUE]
            IN IF app[a].score.state \in {"scoring", "retrying", "done"} THEN read
               ELSE [read EXCEPT !.score.state = "scoring"])
  /\ UNCHANGED <<timeline, request, banner, now, before, had, doubled, overtaken>>

\* A score ends: with numbers, to be tried again, or failed. The earlier run's
\* numbers stay on the list until another finishes.
ScoreEnds(a, state, want, could) ==
  /\ app[a].score.state \in {"scoring", "retrying"}
  /\ app' = [app EXCEPT ![a].score =
       IF state = "done" THEN [state |-> "done", want |-> want, could |-> could]
       ELSE [@ EXCEPT !.state = state]]
  /\ UNCHANGED <<timeline, request, banner, now, history>>

\* A request is over within its day.
Day == /\ now < MaxNow
       /\ \A p \in Requests : request[p] = NoRequest
       /\ now' = now + 1
       /\ UNCHANGED <<app, timeline, request, banner, history>>

\* What the user does to the rows, and what the reads and the scores do to them.
RowsNext ==
  \/ \E a \in Apps : UpdateNotes(a)
  \/ \E p \in Requests : \/ \E j \in BoardJobs : Track(p, j)
                         \/ \E a \in Apps : FinishTrack(p, a)
                         \/ \E a \in Apps, s \in Statuses : ChangeStatus(p, a, s)
                         \/ FinishStatus(p)
  \/ Day

ScoresNext ==
  \/ \E a \in Apps : \/ ExtractAgain(a) \/ AttachAd(a) \/ ScoreApplication(a)
                     \/ \E hasKey \in BOOLEAN : DescriptionArrives(a, hasKey)
                     \/ DescriptionFails(a)
                     \/ \E ok \in BOOLEAN : ReadEnds(a, ok)
                     \/ \E want \in Numbers \union {None}, could \in Numbers :
                          ScoreEnds(a, "done", want, could)
                     \/ \E s \in {"retrying", "failed"} : ScoreEnds(a, s, None, None)
  \/ \E S \in SUBSET Apps : RescoreConfirm(S)
  \/ RetryFailed

ListNext ==
  \/ \E a \in Apps : \/ \E hasKey \in BOOLEAN : PasteAd(a, hasKey)
                     \/ ArchiveOne(a) \/ Unarchive(a)
  \/ \E S \in SUBSET Apps : BulkArchive(S)
  \/ \E S \in SUBSET Archived : BulkUnarchive(S)
  \/ Undo
  \/ \E rule \in Rules : ArchiveByRule(rule)

TrackerNext == RowsNext \/ ScoresNext \/ ListNext

TrackerSpec == TrackerInit /\ [][TrackerNext]_trackerVars

----------------------------------------------------------------------------
\* The timeline is complete: every status an application has had is on it, each as
\* often as it had it; and in order, the one it has the last, unless one change
\* overtook another (create_application, change_status, get_application).
TimelineIsComplete ==
  \A a \in There :
    LET shown == [i \in DOMAIN timeline[a] |-> timeline[a][i].to]
    IN /\ \A s \in Statuses : Cardinality({i \in DOMAIN shown : shown[i] = s})
                              = Cardinality({i \in DOMAIN had[a] : had[a][i] = s})
       /\ a \notin overtaken => shown = had[a] /\ app[a].status = Last(shown)

\* By hand (see the README): each change starts from where the last one ended,
\* and the last is the status. Two tabs may both have read the status before
\* either wrote it, and the one that began first may be the last to write.
TimelineChains ==
  \A a \in There :
    /\ \A i \in 2..Len(timeline[a]) : timeline[a][i].from = timeline[a][i - 1].to
    /\ app[a].status = Last(timeline[a]).to

\* Archiving is housekeeping, not progress: only what moves an application
\* forward counts as activity, so "no activity in 30 days" means that, whatever
\* was put away and brought back in between.
ActivityIsProgress == \A a \in There : app[a].updated = acted[a]

\* A job has two live applications only if one was restored after the other was
\* made, or two presses of Track overlapped (find_live_by_board_job).
OneLivePerJob ==
  \A j \in BoardJobs \ doubled : Cardinality(FindLiveByBoardJob(j)) <= 1

\* Pressed right after an archive by rule, Undo puts back exactly what was live.
UndoPutsBackRule ==
  [][(Undo /\ ~banner.picked) => Archived' = before]_trackerVars

\* By hand (see the README): the same after a selection ("an undo list from
\* exactly the set that changed", storage/applications.py:344). A row archived
\* elsewhere since the page was loaded is archived again, returned, and restored.
UndoPutsBack ==
  [][Undo => Archived' = before]_trackerVars

\* "Retry everything that failed" leaves nothing it counted as it was: each is
\* being read or scored again, and the button counts no more than the failed
\* scores of those being read, which their read will queue (plan_retry_failed).
RetryRetriesAll ==
  [][RetryFailed =>
       /\ \A a \in RetryReads \union RetryScores :
            "pending" = app'[a].reading \/ "scoring" = app'[a].score.state
       /\ \A a \in (RetryReads \union RetryScores)' :
            app'[a].reading = "pending" /\ a \in RetryReads]_trackerVars
=============================================================================
