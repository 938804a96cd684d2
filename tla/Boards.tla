------------------------------- MODULE Boards -------------------------------
(***************************************************************************)
(* One watched job board: its row, its checks and the history they leave    *)
(* (jfl_core.storage.boards), the pure engine that decides what a check     *)
(* means (jfl_intake.engine), the check_board and schedule_board_checks     *)
(* handlers, and the requests that queue checks (jfl_web.routes.boards).    *)
(* A check reads the board, fetches it with no transaction open, and applies*)
(* the result in one transaction under the board's row lock; several may be *)
(* on their way at once. Boards share nothing, so there is one.             *)
(***************************************************************************)
EXTENDS Integers, Sequences, FiniteSets

CONSTANTS
  Ids,           \* external ids a posting can have
  Prints,        \* fingerprints (normalised title and location)
  Listings,      \* what a fetch may find: functions from some ids to prints
  Slots,         \* unfinished check_board tasks there can be at once
  None,          \* no repost source, no posting
  MaxAttempts,   \* tasks.max_attempts
  MaxChecks,     \* bound: checks recorded in a behaviour
  MaxNow,        \* bound: the clock
  RepostWindow,  \* engine.REPOST_WINDOW, in ticks
  EmptyMin,      \* DropGuard.empty_min_previous
  MinPrevious,   \* DropGuard.min_previous
  Day, MinGap    \* scheduling.CHECK_INTERVAL and MIN_GAP

ASSUME BoardsAssumption ==
  /\ \A l \in Listings : /\ DOMAIN l \subseteq Ids /\ \A i \in DOMAIN l : l[i] \in Prints
                         /\ IsFiniteSet(DOMAIN l)
  /\ IsFiniteSet(Slots)
  /\ {MaxAttempts, MaxChecks, MaxNow, RepostWindow, EmptyMin, MinPrevious} \subseteq Nat
  /\ EmptyMin > 0
  /\ MaxAttempts > 0
  /\ Day \in Nat \ {0}
  /\ MinGap \in Nat
  /\ None \notin Ids
  /\ None \notin [print : Prints, first : Nat, from : Ids \union {None}]

VARIABLES
  life,      \* "unborn", "watched" or "removed": is there a watched_boards row
  board,     \* its pointers and flags
  due,       \* next_check_at has passed
  checks,    \* what each row of board_checks came to; its position is its id
  jobs,      \* board_jobs, by external id
  presence,  \* board_job_presence: intervals, open while closed = 0
  run,       \* the unfinished check_board tasks and their handlers' locals
  asking,    \* transactions that have found no check queued and will insert one
  now,       \* the clock
  shown      \* history: what the last applied check saw

boardVars == <<life, board, due, checks, jobs, presence, run, asking, now, shown>>

\* What a fetch can come to. "partial" stands for incomplete, truncated and failed:
\* recorded, never applied, never retried. A check may also be "held".
Statuses == {"complete", "partial", "unreachable"}

Unheld  == [baseline |-> 0, held |-> 0, accepted |-> FALSE, failures |-> 0]
Idle    == [pc |-> "idle", tries |-> 0, status |-> "none", found |-> None, at |-> 0]

\* The rows of watched_boards, board_checks, board_jobs and board_job_presence; a
\* check is named by its position, 0 being none.
BoardRows == [baseline : 0..MaxChecks, held : 0..MaxChecks, accepted : BOOLEAN,
              failures : 0..MaxChecks]
CheckRows == Statuses \union {"held"}
JobRows   == [print : Prints, first : 1..MaxChecks, from : Ids \union {None}]
Intervals == [job : Ids, opened : 1..MaxChecks, openedAt : 0..MaxNow,
              closed : 0..MaxChecks, closedAt : 0..MaxNow]

TypeOK ==
  /\ life \in {"unborn", "watched", "removed"}
  /\ board \in BoardRows
  /\ due \in BOOLEAN
  /\ checks \in Seq(CheckRows)
  /\ jobs \in [Ids -> JobRows \union {None}]
  /\ presence \subseteq Intervals
  /\ \A s \in Slots : /\ run[s].pc \in {"idle", "queued", "fetching", "fetched"}
                      /\ run[s].tries \in 0..MaxAttempts
  /\ asking \subseteq {"press", "pass"}
  /\ now \in 0..MaxNow
  /\ shown \subseteq Ids

Init ==
  /\ life = "unborn"
  /\ board = Unheld
  /\ due = FALSE
  /\ checks = <<>>
  /\ jobs = [i \in Ids |-> None]
  /\ presence = {}
  /\ run = [s \in Slots |-> Idle]
  /\ asking = {}
  /\ now = 0
  /\ shown = {}

-----------------------------------------------------------------------------
(* The engine, pure.                                                        *)

Known    == {i \in Ids : jobs[i] # None}
Open(i)  == \E p \in presence : p.job = i /\ p.closed = 0
OpenJobs == {i \in Ids : Open(i)}
Spans(i) == {p \in presence : p.job = i}

\* The latest closed_at of a job's intervals is at or after `since`.
ClosedSince(i, since) == \E p \in Spans(i) : p.closed # 0 /\ p.closedAt >= since
LastClosed(i) == CHOOSE t \in 0..MaxNow :
                   /\ \E p \in Spans(i) : p.closed # 0 /\ p.closedAt = t
                   /\ \A p \in Spans(i) : p.closed # 0 => p.closedAt <= t

\* Half the open jobs gone from a board of some size, or all from a smaller one.
Trips(previous, seen) ==
  \/ seen = 0 /\ previous >= EmptyMin
  \/ previous >= MinPrevious /\ 2 * seen < previous

HasSuccessor(i) == \E j \in Known : jobs[j].from = i

\* Mutant: a posting that is here may be taken for a source.
SourcesSeen(found, at) ==
  {i \in Known : ~HasSuccessor(i) /\ (Open(i) \/ ClosedSince(i, at - RepostWindow))}

\* Closed jobs a new posting may have replaced: never one that is here now, nor
\* one that has a successor already. One that closes in this check closes `at` it.
Sources(found, at) ==
  {i \in Known \ DOMAIN found :
     ~HasSuccessor(i) /\ (Open(i) \/ ClosedSince(i, at - RepostWindow))}
ClosedAt(i, at) == IF Open(i) THEN at ELSE LastClosed(i)

\* Each source serves one new job of its fingerprint, most recently closed first;
\* which of two equal ones comes first hangs on the page's order and on random ids.
Reposts(new, found, at) ==
  LET sources == Sources(found, at)
      Of(p)   == {i \in sources : jobs[i].print = p}
      News(p) == {i \in new : found[i] = p}
  IN {from \in [new -> sources \union {None}] :
        /\ \A i, j \in new : from[i] = from[j] /\ from[i] # None => i = j
        /\ \A p \in Prints :
             LET taken == {from[i] : i \in News(p)} \ {None}
             IN /\ taken \subseteq Of(p)
                /\ \/ taken = Of(p)
                   \/ Cardinality(taken) = Cardinality(News(p))
                /\ \A c \in taken, d \in Of(p) \ taken : ClosedAt(c, at) >= ClosedAt(d, at)}

\* Mutant: a board that is held already lets the next collapse through.
PlanStatusHeldOnce(status, found) ==
  IF /\ status = "complete"
     /\ board.baseline # 0 /\ board.held = 0
     /\ ~board.accepted
     /\ Trips(Cardinality(OpenJobs), Cardinality(DOMAIN found))
  THEN "held"
  ELSE status

\* plan_check's verdict on a fetch: its own status unless the drop guard holds it.
PlanStatus(status, found) ==
  IF /\ status = "complete"
     /\ board.baseline # 0
     /\ ~board.accepted
     /\ Trips(Cardinality(OpenJobs), Cardinality(DOMAIN found))
  THEN "held"
  ELSE status

\* Mutant: a slot already past today is not moved to tomorrow.
NextCheckAtToday(slot, after) == Day * ((after + MinGap) \div Day) + slot

\* The first of the board's daily slots at least MinGap after `after`.
NextCheckAt(slot, after) ==
  LET earliest  == after + MinGap
      candidate == Day * (earliest \div Day) + slot
  IN IF candidate < earliest THEN candidate + Day ELSE candidate

-----------------------------------------------------------------------------
(* Applying a plan.                                                         *)

\* A wrong Back: a returned posting is not reopened.
BackForgotten(found) == {}

\* What a complete check closes, and what it opens again.
Gone(found) == OpenJobs \ DOMAIN found
Back(found) == (DOMAIN found \intersect Known) \ OpenJobs

\* A new check's diff: rows for what is new, an interval opened for what is new
\* or back, and closed for what is gone. `id` is the check, `at` its finish.
ApplyJobs(id, found, at) ==
  LET new == DOMAIN found \ Known
  IN /\ \E from \in IF board.baseline = 0 THEN {[i \in new |-> None]}
                    ELSE Reposts(new, found, at) :
          jobs' = [i \in Ids |->
                     IF i \in new THEN [print |-> found[i], first |-> id, from |-> from[i]]
                     ELSE IF i \in DOMAIN found THEN [jobs[i] EXCEPT !.print = found[i]]
                     ELSE jobs[i]]
     /\ presence' =
          {IF p.job \in Gone(found) /\ p.closed = 0
           THEN [p EXCEPT !.closed = id, !.closedAt = at] ELSE p : p \in presence}
          \union {[job |-> i, opened |-> id, openedAt |-> at, closed |-> 0, closedAt |-> 0] :
                    i \in new \union Back(found)}

\* Mutant: an incomplete fetch is applied like a complete one.
ChangesUnlessHeld(plan) == plan # "held"
ChangesJobState(plan) == plan = "complete"

Applied(id) == [Unheld EXCEPT !.baseline = IF board.baseline = 0 THEN id ELSE board.baseline]

\* apply_check_plan: the check is recorded whatever it is; only a complete one
\* touches the history, and it clears the flags.
ApplyCheckPlan(status, found, at) ==
  LET id   == Len(checks) + 1
      plan == PlanStatus(status, found)
  IN /\ checks' = Append(checks, plan)
     /\ IF ChangesJobState(plan)
        THEN /\ ApplyJobs(id, found, at)
             /\ shown' = DOMAIN found
             /\ board' = Applied(id)
        ELSE /\ UNCHANGED <<jobs, presence, shown>>
             /\ board' = IF plan = "held" THEN [board EXCEPT !.held = id]
                         ELSE [board EXCEPT !.failures = @ + 1]

-----------------------------------------------------------------------------
(* The check_board handler, one delivery of a task in each slot.            *)

\* A task whose delivery ends without a result goes back to the queue while it
\* has attempts left; when it has none its row is finished and the slot is free.
Again(s) == IF run[s].tries < MaxAttempts THEN [Idle EXCEPT !.pc = "queued", !.tries = run[s].tries]
            ELSE Idle

\* get_board in a transaction of its own: a board removed since is skipped.
Begin(s) ==
  /\ run[s].pc = "queued"
  /\ run' = [run EXCEPT ![s] = IF life = "watched"
                               THEN [Idle EXCEPT !.pc = "fetching", !.tries = run[s].tries + 1]
                               ELSE Idle]
  /\ UNCHANGED <<life, board, due, checks, jobs, presence, asking, now, shown>>

\* The adapter's answer, stamped when it ends. What a fetch that is not complete
\* did list is only counted, and not modelled.
Fetch(s) ==
  /\ run[s].pc = "fetching"
  /\ Len(checks) + Cardinality({r \in Slots : run[r].pc = "fetched"}) < MaxChecks
  /\ \E status \in Statuses, found \in Listings :
       /\ status # "complete" => DOMAIN found = {}
       /\ run' = [run EXCEPT ![s].pc = "fetched", ![s].status = status,
                             ![s].found = found, ![s].at = now]
  /\ UNCHANGED <<life, board, due, checks, jobs, presence, asking, now, shown>>

\* One transaction: lock the board row (a scheduling pass may hold it), plan
\* against what the last check wrote, apply. Unreachable is retried.
Apply(s) ==
  /\ run[s].pc = "fetched"
  /\ "pass" \notin asking
  /\ IF life = "watched"
     THEN /\ ApplyCheckPlan(run[s].status, run[s].found, run[s].at)
          /\ run' = [run EXCEPT ![s] = IF run[s].status = "unreachable" THEN Again(s) ELSE Idle]
     ELSE /\ run' = [run EXCEPT ![s] = Idle]
          /\ UNCHANGED <<board, checks, jobs, presence, shown>>
  /\ UNCHANGED <<life, due, asking, now>>

\* The worker dies, or a transaction fails: the sweep requeues the task.
Lose(s) ==
  /\ run[s].pc \in {"fetching", "fetched"}
  /\ run' = [run EXCEPT ![s] = Again(s)]
  /\ UNCHANGED <<life, board, due, checks, jobs, presence, asking, now, shown>>

-----------------------------------------------------------------------------
(* Requests and the scheduling pass.                                        *)

CheckQueued == \E s \in Slots : run[s].pc # "idle"

Queue(s) == /\ run[s].pc = "idle"
            /\ run' = [run EXCEPT ![s] = [Idle EXCEPT !.pc = "queued"]]

\* POST /boards: the row and its first check, in one transaction.
AddBoard ==
  /\ life = "unborn"
  /\ life' = "watched"
  /\ due' = TRUE
  /\ \E s \in Slots : Queue(s)
  /\ UNCHANGED <<board, checks, jobs, presence, asking, now, shown>>

\* POST /boards/{id}/check and /boards/check-all: enqueue_board_check reads, ...
AskToCheck ==
  /\ life = "watched"
  /\ "press" \notin asking
  /\ ~CheckQueued
  /\ asking' = asking \union {"press"}
  /\ UNCHANGED <<life, board, due, checks, jobs, presence, run, now, shown>>

\* ... and inserts later in the request's transaction.
InsertCheck ==
  /\ "press" \in asking
  /\ asking' = asking \ {"press"}
  /\ \E s \in Slots : Queue(s)
  /\ UNCHANGED <<life, board, due, checks, jobs, presence, now, shown>>

\* schedule_board_checks: a due board is claimed (its row locked) and moved to
\* its next slot; a check of it is queued unless there is one.
PassClaims ==
  /\ life = "watched"
  /\ due
  /\ "pass" \notin asking
  /\ IF CheckQueued THEN due' = FALSE /\ asking' = asking
     ELSE due' = due /\ asking' = asking \union {"pass"}
  /\ UNCHANGED <<life, board, checks, jobs, presence, run, now, shown>>

PassCommits ==
  /\ "pass" \in asking
  /\ asking' = asking \ {"pass"}
  /\ due' = FALSE
  /\ \E s \in Slots : Queue(s)
  /\ UNCHANGED <<life, board, checks, jobs, presence, now, shown>>

\* A pass that dies part-way leaves the board due.
PassDies ==
  /\ "pass" \in asking
  /\ asking' = asking \ {"pass"}
  /\ UNCHANGED <<life, board, due, checks, jobs, presence, run, now, shown>>

\* A person says the collapse the guard holds is real.
AcceptDrop ==
  /\ life = "watched"
  /\ "pass" \notin asking
  /\ board.held # 0
  /\ board' = [board EXCEPT !.accepted = TRUE]
  /\ UNCHANGED <<life, due, checks, jobs, presence, run, asking, now, shown>>

\* POST /boards/{id}/remove: the history goes with the row, by cascade.
RemoveBoard ==
  /\ life = "watched"
  /\ "pass" \notin asking
  /\ life' = "removed"
  /\ due' = FALSE
  /\ board' = Unheld
  /\ checks' = <<>>
  /\ jobs' = [i \in Ids |-> None]
  /\ presence' = {}
  /\ shown' = {}
  /\ UNCHANGED <<run, asking, now>>

\* A day passes: the board's slot comes round.
SlotComes ==
  /\ life = "watched"
  /\ ~due
  /\ due' = TRUE
  /\ UNCHANGED <<life, board, checks, jobs, presence, run, asking, now, shown>>

Tick ==
  /\ now < MaxNow
  /\ now' = now + 1
  /\ UNCHANGED <<life, board, due, checks, jobs, presence, run, asking, shown>>

BoardsNext ==
  \/ \E s \in Slots : Begin(s) \/ Fetch(s) \/ Apply(s) \/ Lose(s)
  \/ AddBoard \/ AskToCheck \/ InsertCheck
  \/ PassClaims \/ PassCommits \/ PassDies
  \/ AcceptDrop \/ RemoveBoard \/ SlotComes \/ Tick

Spec == Init /\ [][BoardsNext]_boardVars

-----------------------------------------------------------------------------
(* Properties.                                                              *)

Complete == {c \in DOMAIN checks : checks[c] = "complete"}

\* The jobs shown as open are the ones the last applied complete check saw,
\* whichever checks overlapped it: what DropGuard.trips counts as the previous size.
OpenIsLastSeen == board.baseline # 0 => OpenJobs = shown

\* Only a complete check opens or closes anything, the baseline is the first of
\* them, and every job's first interval begins at the check that first saw it
\* (the rule of plan_check: a partial fetch changes no job's state).  A job's
\* intervals follow one another: opened before closed, never two open, none
\* begun inside another (the partial unique index of board_job_presence).
HistoryIsSeen ==
  /\ \A p \in presence : {p.opened, p.closed} \subseteq Complete \union {0}
  /\ Complete # {} => board.baseline \in Complete
  /\ \A c \in Complete : board.baseline <= c
  /\ \A i \in Known : /\ \E p \in Spans(i) : p.opened = jobs[i].first
                     /\ \A p \in Spans(i) : p.opened >= jobs[i].first
  /\ \A p \in presence :
       /\ p.closed # 0 => p.opened < p.closed
       /\ \A q \in Spans(p.job) \ {p} : p.closed \in 1..(q.opened - 1) \/ q.closed \in 1..(p.opened - 1)

\* A posting reported as a repost replaced one that was known earlier and absent
\* from the check that found it, and no posting was replaced twice
\* (_match_reposts: a job that is here was not replaced by anything).
RepostsAreReplacements ==
  \A i \in Known : LET source == jobs[i].from IN source # None =>
    /\ source \in Known /\ jobs[source].first < jobs[i].first
    /\ \A p \in Spans(source) : ~(p.opened <= jobs[i].first /\ (p.closed = 0 \/ p.closed > jobs[i].first))
    /\ \A j \in Known : jobs[j].from = source => j = i

\* A held board has had no complete check since the one that held it, so nothing
\* it shows is newer than the flag; only a held board's drop can be accepted.
HeldIsLatest ==
  /\ board.held # 0 => /\ checks[board.held] = "held"
                       /\ \A c \in Complete : c < board.held
  /\ board.accepted => board.held # 0

\* A step that loses as much of a board as the drop guard watches for is one a
\* person accepted while the board was held, or the board's removal; and the
\* acceptance serves once.
CollapseIsAccepted ==
  [][ /\ life' = "watched"
      /\ board.baseline # 0
      /\ Trips(Cardinality(OpenJobs), Cardinality(OpenJobs'))
      => /\ board.accepted /\ board.held # 0
         /\ ~board'.accepted /\ board'.held = 0 ]_boardVars

\* Of any pass from now on, next_check_at is the first time at the board's daily slot
\* that is MinGap or more after it, and less than a day later than that (scheduling's
\* docstring).
NextSlotIsFirst ==
  \A slot \in 0..(Day - 1), after \in now..(now + Day) :
    LET next == NextCheckAt(slot, after)
    IN /\ next % Day = slot
       /\ next >= after + MinGap
       /\ next < after + MinGap + Day
=============================================================================
