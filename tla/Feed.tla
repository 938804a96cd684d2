-------------------------------- MODULE Feed --------------------------------
(***************************************************************************)
(* The job feed: the page of changes (jfl_web.routes.changes), the rule that  *)
(* decides what it shows (jfl_intake.feed), the marks it leaves               *)
(* (jfl_core.storage.job_feed) and the task that purges them. A page request  *)
(* reads the clock, then the last look and the live marks, then the events    *)
(* and their marks, and commits what it showed; requests overlap.             *)
(***************************************************************************)
EXTENDS News

CONSTANTS
  Pages,       \* page requests under way at once
  VisibleFor,  \* feed.VISIBLE_FOR
  Lookback     \* feed.FIRST_VISIT_LOOKBACK

ASSUME FeedAssumption == VisibleFor \in Nat \ {0} /\ Lookback \in Nat

VARIABLES
  looked,      \* job_feed_state.last_looked_at, or None before the first look
  marks,       \* job_feed_marks, by event
  page,        \* the requests' locals
  \* history, for the properties:
  done,        \* events dismissed, or shown for the whole of their time
  early,       \* events marked by a look whose clock was read before their stamp, or
               \* that had read them when they were dismissed and their mark purged
  late,        \* events committed after a look at or after their stamp had read
  met,         \* events shown, or kept from a look by the filter or as too old for
               \* a first visit
  again,       \* events on a page that were done when it began, unless early
  gaps         \* events still in their day, dismissed by no one, that a page left out

feedVars == <<looked, marks, page, done, early, late, met, again, gaps>>

NoPage == [pc |-> "idle", now |-> 0, previous |-> None, since |-> 0,
           items |-> {}, known |-> {}, owed |-> {}, done |-> {}]

\* job_feed_state.last_looked_at and the rows of job_feed_marks, one an event.
Looks    == 0..MaxNow \union {None}
MarkRows == [seen : 0..MaxNow, dismissed : BOOLEAN]

FeedTypeOK ==
  /\ looked \in Looks
  /\ \A e \in Events : marks[e] # None => e \in there /\ marks[e] \in MarkRows
  /\ \A g \in Pages : /\ page[g].pc \in {"idle", "begun", "read"}
                      /\ page[g].known \subseteq page[g].items
                      /\ page[g].items \subseteq there

FeedInit ==
  /\ looked = None
  /\ marks = [e \in Events |-> None]
  /\ page = [g \in Pages |-> NoPage]
  /\ done = {} /\ early = {} /\ late = {} /\ met = {} /\ again = {} /\ gaps = {}

-----------------------------------------------------------------------------
(* jfl_intake.feed, pure.                                                   *)

Marked == {e \in Events : marks[e] # None}
IsLive(e, time) == ~marks[e].dismissed /\ time - marks[e].seen < VisibleFor
LiveMarks(time) == {e \in Marked : IsLive(e, time)}
DeadMarks(time) == Marked \ LiveMarks(time)

EffectiveLastLooked(previous, time) == IF previous = None THEN time - Lookback ELSE previous

\* Far enough back to derive every event that is still to be shown.
DeriveSince(previous, live, time) ==
  LET since == EffectiveLastLooked(previous, time)
      older == {at[e] : e \in live} \intersect {t \in 0..MaxNow : t <= since}
  IN IF older = {} THEN since ELSE (CHOOSE t \in older : \A u \in older : t <= u) - 1

VisibleEvents(events, since, time) ==
  {e \in events : IF e \in Marked THEN IsLive(e, time) ELSE at[e] > since}

-----------------------------------------------------------------------------
(* GET /changes.                                                            *)

\* The clock, the last look and the live marks.
BeginLook(g) ==
  /\ page[g].pc = "idle"
  /\ page' = [page EXCEPT ![g] =
       [NoPage EXCEPT !.pc = "begun", !.now = now, !.previous = looked,
                      !.since = DeriveSince(looked, LiveMarks(now), now),
                      !.owed = LiveMarks(now), !.done = done \union DeadMarks(now)]]
  /\ done' = done \union DeadMarks(now)
  /\ UNCHANGED <<looked, marks, early, late, met, again, gaps>>

\* The events and their marks. A mark is among those read if its event is.
ReadEvents(g) ==
  /\ page[g].pc = "begun"
  /\ LET p == page[g]
         items == VisibleEvents(EventsSince(p.since), EffectiveLastLooked(p.previous, p.now), p.now)
     IN page' = [page EXCEPT ![g].pc = "read", ![g].items = items,
                             ![g].known = items \intersect Marked]
  /\ UNCHANGED <<looked, marks, done, early, late, met, again, gaps>>

\* Mutant: the look is dated when it ends.
LookEndsNow(g) == now
LookTime(g) == page[g].now

\* Mutant: the look that ends last wins.
GreatestLast(a, b) == b
Greatest(a, b) == IF a = None \/ b > a THEN b ELSE a

\* The filter, record_seen for what had no mark, set_last_looked_at; one commit.
CommitLook(g) ==
  /\ page[g].pc = "read"
  /\ LET shown == page[g].items \intersect passes
         new   == (shown \ page[g].known) \ Marked
     IN /\ marks' = [e \in Events |-> IF e \in new THEN [seen |-> LookTime(g), dismissed |-> FALSE]
                                      ELSE marks[e]]
        /\ page' = [page EXCEPT ![g] = NoPage]
        /\ again' = again \union ((shown \intersect page[g].done) \ early)
        /\ gaps' = gaps \union (((page[g].owed \ done) \intersect passes) \ shown)
        /\ early' = early \union {e \in new : at[e] > page[g].now \/ e \in done \ page[g].done}
        /\ met' = met \union page[g].items
             \union {e \in there : page[g].previous = None /\ at[e] <= page[g].now - Lookback}
  /\ looked' = Greatest(looked, LookTime(g))
  /\ UNCHANGED <<done, late>>

\* POST /changes/{mark}/dismiss, for an event some page shows.
Dismiss(e) ==
  /\ e \in Marked
  /\ marks' = [marks EXCEPT ![e].dismissed = TRUE]
  /\ done' = done \union {e}
  /\ UNCHANGED <<looked, page, early, late, met, again, gaps>>

\* POST /changes/dismiss-all.
DismissLive ==
  /\ marks' = [e \in Events |-> IF e \in LiveMarks(now) THEN [marks[e] EXCEPT !.dismissed = TRUE]
                                ELSE marks[e]]
  /\ done' = done \union LiveMarks(now)
  /\ UNCHANGED <<looked, page, early, late, met, again, gaps>>

\* Dead marks none of whose live siblings is of their time or earlier.
Purgeable(time) == {e \in DeadMarks(time) : ~\E o \in LiveMarks(time) : at[o] <= at[e]}

\* The purge task deletes the marks that can no longer change what is shown.
PurgeStaleMarks ==
  /\ Purgeable(now) # {}
  /\ marks' = [e \in Events |-> IF e \in Purgeable(now) THEN None ELSE marks[e]]
  /\ done' = done \union DeadMarks(now)
  /\ UNCHANGED <<looked, page, early, late, met, again, gaps>>

FeedNext ==
  /\ \/ \E g \in Pages : BeginLook(g) \/ ReadEvents(g) \/ CommitLook(g)
     \/ \E e \in Events : Dismiss(e)
     \/ DismissLive \/ PurgeStaleMarks
  /\ UNCHANGED newsVars

\* A commit that comes after a look has read, whose clock said its stamp or later.
CommitSeen(e) ==
  /\ Commit(e)
  /\ late' = IF \/ looked # None /\ looked >= at[e]
                \/ \E g \in Pages : page[g].pc = "read" /\ page[g].now >= at[e]
             THEN late \union {e} ELSE late
  /\ UNCHANGED <<looked, marks, page, done, early, met, again, gaps>>

-----------------------------------------------------------------------------
(* Properties.                                                              *)

\* What was dismissed, or shown for its day, before a look began is not on that
\* look's page, its mark purged or not, unless the look that marked it read its clock
\* before the event's stamp, or ended after it was dismissed and purged (the
\* "resurfacing bug" of purge_stale_marks, whose argument supposes neither happens).
DismissedStaysAway == again = {}

\* What has been shown for less than its day when a look begins, and is neither
\* dismissed nor filtered out by the time it ends, is on that look's page, though
\* other looks have moved the last look past it (derive_since).
ShownForItsDay == gaps = {}

\* Anything older than the last look that no page has ever shown was committed too
\* late for it, was filtered out when it was news, or lay before the first visit's reach.
MissedOnlyIfLate == \A e \in there \ (met \union late) : looked # None => at[e] > looked

\* An event appears on the first look after it happens (PLAN.md's rule for the feed).
FeedMissesNothing == \A e \in there \ met : looked # None => at[e] > looked
=============================================================================
