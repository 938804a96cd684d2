------------------------------- MODULE MCDesk -------------------------------
(* What a user keeps at hand, for TLC: the list of applications; the saved   *)
(* filter asked about one job, and a table asked for its order; the panels   *)
(* folded away; and the tables' remembered order. None reads what another    *)
(* writes, so a behaviour is of one of them.                                 *)
EXTENDS Tracker, Filter, TLC

CONSTANTS x, y, p1, p2, j, u, r1, r2, g1, g2,
  Entries, Tabs, MaxClock, MaxFolds,   \* of Sections
  Windows, MaxVisits                \* of Tables

VARIABLES
  mode, asked,
  kind, content, coming, choice, tab, post, seen, chosen, clock,  \* of Sections
  table, saved, window, visits                                    \* of Tables

F == INSTANCE Sections
S == INSTANCE Tables

\* What stands for "none" is no number, none of the ids, and no order of a table.
ASSUME NoneAssumption ==
  /\ None \notin Nat \union Apps \union BoardJobs
  /\ \A t \in DOMAIN S!Specs :
       None \notin [key : DOMAIN S!Specs[t].columns, dir : {"asc", "desc"}]

foldVars == <<kind, content, coming, choice, tab, post, seen, chosen, clock>>
sortVars == <<table, saved, window, visits>>
MCVars == <<trackerVars, mode, asked, foldVars, sortVars>>

\* A filter, a job, the board's two switches and at most one exception. The presets
\* do not read the set of workplaces; of those sets, one of each size that matters.
Sets  == {{}, {"unknown"}, {"onsite"}, {"remote", "hybrid"}}
Asked == [f : {f \in Saved : f.workplaces \in Sets /\ (f.mode # "custom" => f.workplaces = {})},
          job : Job, unstated : BOOLEAN, heavy : BOOLEAN,
          exceptions : {{}} \union {{rule} : rule \in [workplaces : Sets, location : Terms]}]

\* Three rows of a table, the column asked for, and whether ties are newest first.
Row(n) == [id : {n}, could_get : {None, 0, 1}, want_it : {None, 0}, tie : {0, 1}]
Order  == [rows : {<<a, b, c>> : a \in Row(1), b \in Row(2), c \in Row(3)},
           sort : [key : {"could_get", "want_it"}, dir : {"asc", "desc"}], newest : BOOLEAN]

\* What a behaviour is not of is as before anything is there.
FoldIdle == F!SectionsInit /\ kind = "status"
SortIdle == S!TablesInit /\ table = "jobs" /\ saved = None

MCInit ==
  \/ /\ FoldIdle /\ SortIdle
     /\ \/ mode = "rows" /\ TrackerInit /\ asked = None
        \/ mode = "scores" /\ (\E a \in Apps, k \in BoardJobs : TrackedOne(a, k)) /\ asked = None
        \/ mode = "filter" /\ TrackerInit /\ asked \in Asked
        \/ mode = "order" /\ TrackerInit /\ asked \in Order
  \/ mode = "folds" /\ F!SectionsInit /\ SortIdle /\ TrackerInit /\ asked = None
  \/ mode = "tables" /\ S!TablesInit /\ FoldIdle /\ TrackerInit /\ asked = None

MCNext ==
  /\ \/ mode = "rows" /\ (RowsNext \/ ListNext) /\ UNCHANGED <<foldVars, sortVars>>
     \/ mode = "scores" /\ (ScoresNext \/ ListNext) /\ UNCHANGED <<foldVars, sortVars>>
     \/ mode = "folds" /\ F!SectionsNext /\ UNCHANGED <<trackerVars, sortVars>>
     \/ mode = "tables" /\ S!TablesNext /\ UNCHANGED <<trackerVars, foldVars>>
  /\ UNCHANGED <<mode, asked>>

MCSpec == MCInit /\ [][MCNext]_MCVars

\* What is hidden is counted, and pressing "show them" shows it (see Filter!Honest); a
\* table is in the order of one column, and a header does what it says (see Tables); a
\* folded panel hides nothing under way, and counts as new nothing that was looked at
\* (see Sections).
ScreenIsHonest ==
  /\ mode = "filter" => Honest(asked.f, asked.job, asked.unstated, asked.heavy, asked.exceptions)
  /\ mode = "order" => S!SortedByOneColumn(asked.rows, asked.sort, asked.newest)
  /\ mode = "tables" => S!ClickDoesWhatItSays /\ S!SavedIsAnOrder
  /\ mode = "folds" => F!SeenIsNotNews /\ F!RunsAreOnScreen

\* The list says what happened: see Tracker.
ListIsTrue == TimelineIsComplete /\ ActivityIsProgress /\ OneLivePerJob

\* A bulk press does all it says, and its Undo undoes it: see Tracker.
BulkIsWhole == UndoPutsBackRule /\ RetryRetriesAll

----------------------------------------------------------------------------
\* Bound: with scores in play, one application has numbers, of one axis low or not.
OneScored == mode = "scores" =>
  /\ \A a \in Apps : app[a].score.could \in {None, 1}
  /\ Cardinality({a \in Apps : app[a].score.could # None}) <= 1

\* Bound: two changes of one application at once, or three statuses, where there is
\* no other application.
OneLong ==
  mode = "rows" /\ (\E a \in Apps : Len(timeline[a]) + Cardinality(Changing(a)) > 2)
    => Cardinality(There) = 1

Bounds == OneScored /\ OneLong

DeskSymmetry == Permutations(Apps) \union Permutations(Requests)
=============================================================================
