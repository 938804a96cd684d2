----------------------------- MODULE Pushbacks -----------------------------
(***************************************************************************)
(* Disagreeing with a score (jfl_core.pushback, storage/pushbacks.py,      *)
(* handlers/pushback.py, routes/pushbacks.py).  What the user types is     *)
(* recorded and moves nothing; a cheap model call reads it - which score   *)
(* it is about, which way it pushes - and the reading is applied at once,  *)
(* shrunk by what was said before and capped.  "Not what I meant" takes it *)
(* back and records the same words under the reading the user picks.  What *)
(* a score shows is the stored number plus the sum of what still counts.   *)
(*                                                                         *)
(* Every correction asserts one point (ASSERTED_POINTS); movements are in  *)
(* thousandths, as applied_delta is rounded.  Dimensions are the two the   *)
(* one-box form can name, want_overall and could_get_overall.              *)
(***************************************************************************)
EXTENDS Integers, FiniteSets, FiniteSetsExt

CONSTANTS
  Rows,         \* score_pushbacks ids, in created_at order; bound on them
  Texts,        \* what the user may write
  Kinds,        \* of PUSHBACK_KINDS, those a reading may come back with
  Picks,        \* POST /pushbacks/{id}/reading requests in progress at once
  MaxAttempts,  \* tasks.max_attempts
  Sent,         \* how many applications _submitted may count
  None

VARIABLES
  row,        \* row[r]: the row, but for what a reading sets
  reading,    \* reading[r]: [kind, direction] on the row
  task,       \* task[r]: the classify_pushback task queued with the row
  thread,     \* thread[r]: where the thread that has it stands
  pick        \* pick[p]: what the request read, and what it is about to store

pushVars == <<row, reading, task, thread, pick>>

Directions == {"up", "down"}
Readings == [kind : Kinds, direction : Directions]

Point == 1000
Kappa == 5
MaxDisplacement == 2 * Point     \* MAX_DISPLACEMENT_PER_DIMENSION
MaxAdjustment   == 2 * Point     \* MAX_TOTAL_ADJUSTMENT
BreachCeiling == 2
MinScore == 1
MaxScore == 10

NoRow    == [status |-> "absent", text |-> None, new |-> TRUE, delta |-> 0,
             withdrawn |-> FALSE, failed |-> FALSE, origin |-> 0]
Unread   == [kind |-> "preference", direction |-> "up"]
NoThread == [at |-> "none", reading |-> Unread, new |-> TRUE, delta |-> 0]
NoPick   == [at |-> "none", row |-> 0, was |-> NoRow, wasRead |-> Unread,
             chosen |-> Unread, delta |-> 0]

PushInit ==
  /\ row = [r \in Rows |-> NoRow]
  /\ reading = [r \in Rows |-> Unread]
  /\ task = [r \in Rows |-> [status |-> "absent", tries |-> 0]]
  /\ thread = [r \in Rows |-> NoThread]
  /\ pick = [p \in Picks |-> NoPick]

----------------------------------------------------------------------------
(* The arithmetic (jfl_core.pushback).                                     *)

\* target_dimension: a capability claim is about the other score.
Target(kind) == IF kind = "capability" THEN "get" ELSE "want"

\* shrink: d * K / (K + n), rounded.
Shrink(n) == (2 * Kappa * Point + (Kappa + n)) \div (2 * (Kappa + n))

Sign(direction) == IF direction = "up" THEN 1 ELSE -1
Least(a, b)  == IF a < b THEN a ELSE b
Most(a, b) == IF a < b THEN b ELSE a

\* _preference: shrunk, and no further than the cap.
Preference(direction, n, displacement, new) ==
  LET room == Most(MaxDisplacement - Sign(direction) * displacement, 0) IN
  Sign(direction) * Least(IF new THEN Shrink(n) ELSE 0, room)

\* decide: a capability claim is taken in full downwards and never upwards.
Decide(kind, direction, n, displacement, new) ==
  CASE kind = "factual"    -> 0
    [] kind = "capability" -> IF direction = "down" THEN 0 - Point ELSE 0
    [] kind = "preference" -> Preference(direction, n, displacement, new)

\* A wrong AdjustmentFor: corrections of either score move both.
AdjustmentForBoth(displacements, axis) ==
  Most(0 - MaxAdjustment, Least(MaxAdjustment, displacements["want"] + displacements["get"]))

\* adjustment_for: what corrections add to one score.
AdjustmentFor(displacements, axis) ==
  Most(0 - MaxAdjustment, Least(MaxAdjustment, displacements[axis]))

\* _round_half_away, of thousandths.
Rounded(x) == IF x >= 0 THEN (x + 500) \div 1000 ELSE 0 - ((500 - x) \div 1000)

\* displayed_score, of an application not sent: a broken must-have bounds
\* what corrections may make of it.
Displayed(stored, adjustment, breach) ==
  LET moved == Most(MinScore, Least(MaxScore, stored + Rounded(adjustment))) IN
  IF breach THEN Least(moved, Most(BreachCeiling, stored)) ELSE moved

----------------------------------------------------------------------------
(* The log (PostgresPushbackRepository).                                   *)

Counts(r) == row[r].status = "applied" /\ ~ row[r].withdrawn

\* The rows that count towards a dimension, but for one being taken back.
Counted(dimension, but) ==
  {r \in Rows \ {but} : Counts(r) /\ Target(reading[r].kind) = dimension}

DisplacementBut(dimension, but) == MapThenSumSet(LAMBDA r : row[r].delta, Counted(dimension, but))

Displacements == [axis \in {"want", "get"} |-> DisplacementBut(axis, 0)]

\* _restates: the same words, the same way, on a dimension that was applied.
Restates(text, read, but) ==
  \E r \in Counted(Target(read.kind), but) :
    row[r].text = text /\ reading[r].direction = read.direction

\* apply, up to its UPDATE: what this reading of these words would move.
Effect(text, read, new, but, sent) ==
  LET dimension == Target(read.kind) IN
  Decide(read.kind, read.direction,
         Cardinality(Counted(dimension, but)) + 3 * sent,
         DisplacementBut(dimension, but),
         new /\ ~ Restates(text, read, but))

Applied(r, read, new, delta) ==
  [row[r] EXCEPT !.status = "applied", !.new = new, !.delta = delta, !.failed = FALSE]

\* A row some open transaction has updated: another writer waits for it.
Locked(r) == \/ thread[r].at = "apply"
             \/ \E p \in Picks : pick[p].at = "apply" /\ pick[p].row = r

NextRow(r) == /\ row[r].status = "absent"
              /\ \A s \in Rows : s < r => row[s].status # "absent"

----------------------------------------------------------------------------
(* The box: record_pushback, the row and its task in one transaction.      *)

RecordPushback(r) ==
  /\ NextRow(r)
  /\ \E text \in Texts :
       row' = [row EXCEPT ![r] = [NoRow EXCEPT !.status = "awaiting", !.text = text, !.origin = r]]
  /\ task' = [task EXCEPT ![r] = [status |-> "pending", tries |-> 0]]
  /\ UNCHANGED <<reading, thread, pick>>

(* The reading: handlers/pushback.py, delivered at least once.             *)

At(r, place) == thread' = [thread EXCEPT ![r].at = place]

\* A row that is not waiting for a reading is not read again.
Deliver(r) ==
  /\ task[r].status = "pending"
  /\ task' = [task EXCEPT ![r] = [status |-> "running", tries |-> @.tries + 1]]
  /\ At(r, IF row[r].status = "awaiting" THEN "call" ELSE "ok")
  /\ UNCHANGED <<row, reading, pick>>

\* The stored key and the model call.
CallModel(r) ==
  /\ thread[r].at = "call"
  /\ \/ \E read \in Readings, new \in BOOLEAN :
          thread' = [thread EXCEPT ![r] =
            [@ EXCEPT !.at = "read", !.reading = read, !.new = new]]
     \/ At(r, "refuse") \/ At(r, "fail")
  /\ UNCHANGED <<row, reading, task, pick>>

\* _fail, on any attempt: a code on the row, unless it was applied meanwhile.
MarkFailed(r) ==
  /\ thread[r].at \in {"refuse", "fail"}
  /\ ~ Locked(r)
  /\ row' = IF row[r].status = "applied" THEN row ELSE [row EXCEPT ![r].failed = TRUE]
  /\ At(r, IF thread[r].at = "refuse" THEN "permanent" ELSE "error")
  /\ UNCHANGED <<reading, task, pick>>

Reread(r, sent) == Effect(row[r].text, thread[r].reading, thread[r].new, r, sent)

\* A wrong BeginApply: a reading lands on a row already applied.
BeginApplyAnyway(r) ==
  /\ thread[r].at = "read"
  /\ ~ Locked(r)
  /\ \E sent \in Sent : thread' = [thread EXCEPT ![r] =
       [thread[r] EXCEPT !.at = "apply", !.delta = Reread(r, sent)]]
  /\ UNCHANGED <<row, reading, task, pick>>

\* set_reading, set_classification and apply in one transaction, every write
\* a no-op on a row that is applied.  What it may move is read first ...
BeginApply(r) ==
  /\ thread[r].at = "read"
  /\ ~ Locked(r)
  /\ \E sent \in Sent : thread' = [thread EXCEPT ![r] =
       IF row[r].status = "applied" THEN [NoThread EXCEPT !.at = "ok"]
       ELSE [thread[r] EXCEPT !.at = "apply", !.delta = Reread(r, sent)]]
  /\ UNCHANGED <<row, reading, task, pick>>

\* ... then written; other rows may have been applied in between.
CommitApply(r) ==
  /\ thread[r].at = "apply"
  /\ row' = [row EXCEPT ![r] = Applied(r, thread[r].reading, thread[r].new, thread[r].delta)]
  /\ reading' = [reading EXCEPT ![r] = thread[r].reading]
  /\ thread' = [thread EXCEPT ![r] = [NoThread EXCEPT !.at = "ok"]]
  /\ UNCHANGED <<task, pick>>

AfterError(r) == IF task[r].tries >= MaxAttempts THEN "failed" ELSE "pending"

Settle(r, status) == /\ task' = [task EXCEPT ![r].status = status]
                     /\ thread' = [thread EXCEPT ![r] = NoThread]
                     /\ UNCHANGED <<row, reading, pick>>

RecordOutcome(r) ==
  \/ thread[r].at = "ok" /\ Settle(r, "succeeded")
  \/ thread[r].at = "permanent" /\ Settle(r, "failed")
  \/ thread[r].at = "error" /\ Settle(r, AfterError(r))

\* The process dies, its transaction with it.
Lose(r) == thread[r].at # "none" /\ Settle(r, AfterError(r))

----------------------------------------------------------------------------
(* "Not what I meant": choose_reading.                                     *)

\* It reads the row it is about.
ChooseReading(p) ==
  /\ pick[p].at = "none"
  /\ \E r \in Rows, chosen \in Readings :
       /\ row[r].status # "absent" /\ ~ row[r].withdrawn
       /\ chosen.kind = "factual" => chosen.direction = reading[r].direction
       /\ pick' = [pick EXCEPT ![p] =
            [NoPick EXCEPT !.at = "chosen", !.row = r, !.was = row[r],
                           !.wasRead = reading[r], !.chosen = chosen]]
  /\ UNCHANGED <<row, reading, task, thread>>

\* "Just undo it".
Withdraw(r) ==
  /\ Counts(r)
  /\ ~ Locked(r)
  /\ row' = [row EXCEPT ![r].withdrawn = TRUE]
  /\ UNCHANGED <<reading, task, thread, pick>>

\* The same meaning, or a row applied since it was read: nothing to do.
NothingToChange(p) ==
  /\ pick[p].at = "chosen"
  /\ ~ Locked(pick[p].row)
  /\ IF pick[p].was.status = "applied"
     THEN pick[p].wasRead = pick[p].chosen
     ELSE row[pick[p].row].status = "applied"
  /\ pick' = [pick EXCEPT ![p] = NoPick]
  /\ UNCHANGED <<row, reading, task, thread>>

\* On an applied row, withdraw it; either way, work out what the pick moves.
BeginPick(p) ==
  LET r == pick[p].row IN
  /\ pick[p].at = "chosen"
  /\ ~ Locked(r)
  /\ IF pick[p].was.status = "applied"
     THEN pick[p].wasRead # pick[p].chosen
     ELSE row[r].status # "applied"
  /\ \E sent \in Sent : pick' = [pick EXCEPT ![p] =
       [pick[p] EXCEPT !.at = "apply",
          !.delta = Effect(pick[p].was.text, pick[p].chosen, pick[p].was.new, r, sent)]]
  /\ UNCHANGED <<row, reading, task, thread>>

\* A wrong CommitPick: the correction the user took back still counts.
CommitPickBoth(p) ==
  LET r == pick[p].row IN
  /\ pick[p].at = "apply"
  /\ \E s \in Rows :
       /\ IF pick[p].was.status = "applied" THEN NextRow(s) ELSE s = r
       /\ row' = [row EXCEPT ![s] =
            [pick[p].was EXCEPT !.status = "applied", !.delta = pick[p].delta, !.failed = FALSE]]
       /\ reading' = [reading EXCEPT ![s] = pick[p].chosen]
  /\ pick' = [pick EXCEPT ![p] = NoPick]
  /\ UNCHANGED <<task, thread>>

\* The row withdrawn and the words recorded again under the pick; or the pick
\* on the row itself, when nothing had been applied.
CommitPick(p) ==
  LET r == pick[p].row
      again == pick[p].was.status = "applied"
      picked == [pick[p].was EXCEPT !.status = "applied", !.delta = pick[p].delta,
                                    !.failed = FALSE]
  IN
  /\ pick[p].at = "apply"
  /\ \E s \in Rows :
       /\ IF again THEN NextRow(s) ELSE s = r
       /\ row' = [x \in Rows |-> IF x = s THEN picked
                                 ELSE IF x = r THEN [row[r] EXCEPT !.withdrawn = TRUE]
                                 ELSE row[x]]
       /\ reading' = [reading EXCEPT ![s] = pick[p].chosen]
  /\ pick' = [pick EXCEPT ![p] = NoPick]
  /\ UNCHANGED <<task, thread>>

----------------------------------------------------------------------------
PushNext ==
  \/ \E r \in Rows :
       \/ RecordPushback(r) \/ Withdraw(r)
       \/ Deliver(r) \/ CallModel(r) \/ MarkFailed(r)
       \/ BeginApply(r) \/ CommitApply(r) \/ RecordOutcome(r) \/ Lose(r)
  \/ \E p \in Picks :
       ChooseReading(p) \/ NothingToChange(p) \/ BeginPick(p) \/ CommitPick(p)

PushSpec == PushInit /\ [][PushNext]_pushVars

----------------------------------------------------------------------------
(* What must hold.                                                         *)

\* What was applied is history: whoever comes late - a delivery again, a model
\* call the user did not wait for, a pick on a row read before it was applied -
\* leaves it as it is, but for taking it back once.
AppliedStays ==
  [][\A r \in Rows : row[r].status = "applied" =>
       /\ reading'[r] = reading[r]
       /\ row'[r] \in {row[r], [row[r] EXCEPT !.withdrawn = TRUE]}]_pushVars

\* Whatever was said, read and taken back in whatever order: corrections show a
\* number at most two points from the stored one, never lift "could I get this",
\* and never lift a number over a broken must-have.
ShownIsBounded ==
  LET wanted == AdjustmentFor(Displacements, "want")
      got    == AdjustmentFor(Displacements, "get")
  IN \A stored \in MinScore..MaxScore, breach \in BOOLEAN :
    LET want == Displayed(stored, wanted, breach)
        get  == Displayed(stored, got, FALSE)
    IN /\ want \in (stored - 2)..(stored + 2)
       /\ get \in (stored - 2)..stored
       /\ breach /\ want > stored => want <= BreachCeiling

\* One disagreement counts once: however it was read, picked and picked again,
\* one request at a time, no two rows for the same words typed once count.
OneReadingCounts ==
  \A r, s \in Rows : Counts(r) /\ Counts(s) /\ row[r].origin = row[s].origin => r = s

\* "Capped ... at two points of total displacement per dimension" (pushback.py).
CapHolds ==
  Displacements["want"] \in (0 - MaxDisplacement)..MaxDisplacement
=============================================================================
