------------------------------- MODULE Tables -------------------------------
(* A table sorts from its column headers, and stays sorted (jfl_web.sorting,  *)
(* jfl_web.scores, jfl_core.storage.ui_table_sorts): how rows are put in      *)
(* order, and the order one user's tabs ask for, are given and remember.      *)
(* A behaviour is of one of the five tables.                                  *)
EXTENDS Naturals, FiniteSets, Sequences, SequencesExt

CONSTANTS
  None,
  Windows,   \* tabs of the one user
  MaxVisits  \* bound on requests

VARIABLES
  table,     \* which table it is
  saved,     \* its row of ui_table_sorts, or None
  window,    \* what each tab shows, and where it is
  visits

tablesVars == <<table, saved, window, visits>>

\* A table's columns, each with the direction a first click gives, the one it is in
\* order of by default, and whether what ties on the chosen column is newest first.
SortSpec(columns, default, newest) == [columns |-> columns, default |-> default, newest |-> newest]

ApplicationsSpec == SortSpec(
  [title |-> "asc", employer |-> "asc", status |-> "asc", could_get |-> "desc",
   want_it |-> "desc", updated |-> "desc"], "updated", TRUE)
JobsSpec == SortSpec(
  [job |-> "asc", board |-> "asc", workplace |-> "asc", locations |-> "asc",
   seen_since |-> "desc"], "seen_since", TRUE)
BoardsSpec == SortSpec(
  [board |-> "asc", status |-> "asc", checked |-> "desc", added |-> "asc",
   open_jobs |-> "desc", matching |-> "desc"], "added", FALSE)
ChangesSpec == SortSpec(
  [kind |-> "asc", job |-> "asc", board |-> "asc", workplace |-> "asc",
   locations |-> "asc", when |-> "desc"], "when", TRUE)
CvsSpec == SortSpec(
  [cv |-> "asc", uploaded |-> "desc", reading |-> "asc", facts |-> "desc"], "uploaded", TRUE)

Specs == [applications |-> ApplicationsSpec, jobs |-> JobsSpec, boards |-> BoardsSpec,
            changes |-> ChangesSpec, cvs |-> CvsSpec]

Columns == Specs[table].columns
Keys == DOMAIN Columns
DefaultSort == [key |-> Specs[table].default, dir |-> Columns[Specs[table].default]]
Opposite(dir) == IF dir = "desc" THEN "asc" ELSE "desc"

----------------------------------------------------------------------------
(* One column orders the rows.                                                *)

\* The places of a list of keys in the order of the keys, equal ones as they were (also
\* in reverse); what has no key goes last, in both directions.
Sorted(keys, dir) ==
  LET Before(i, k) == /\ keys[i] # None
                      /\ \/ keys[k] = None
                         \/ dir = "asc" /\ keys[i] < keys[k]
                         \/ dir = "desc" /\ keys[i] > keys[k]
      Goes(i, k) == Before(i, k) \/ (~Before(k, i) /\ i < k)
      Place(k) == Cardinality({i \in DOMAIN keys : Goes(i, k)}) + 1
  IN [n \in DOMAIN keys |-> CHOOSE k \in DOMAIN keys : Place(k) = n]

Stable(rows, keys, dir) == [n \in DOMAIN rows |-> rows[Sorted(keys, dir)[n]]]

\* What ties on the column keeps this order.
Base(rows, newest) ==
  Stable(rows, [i \in DOMAIN rows |-> rows[i].tie], IF newest THEN "desc" ELSE "asc")

\* A wrong variant: nothing recorded is the lowest there is.
SortRowsLow(rows, sort, newest) ==
  LET base == Base(rows, newest)
  IN Stable(base, [i \in DOMAIN base |-> IF base[i][sort.key] = None THEN 0
                                         ELSE base[i][sort.key] + 1], sort.dir)

\* The neutral order first, then the column.
SortRows(rows, sort, newest) ==
  LET base == Base(rows, newest)
  IN Stable(base, [i \in DOMAIN base |-> base[i][sort.key]], sort.dir)

\* Every order of rows is the chosen column's: what is there before what is
\* missing, ties by recency alone, and the other column is never asked.
SortedByOneColumn(rows, sort, newest) ==
  LET out == SortRows(rows, sort, newest)
      Other == IF sort.key = "want_it" THEN "could_get" ELSE "want_it"
      blanked == SortRows([i \in DOMAIN rows |-> [rows[i] EXCEPT ![Other] = None]], sort, newest)
      V(i) == out[i][sort.key]
      InOrder(v, w, dir) == IF dir = "asc" THEN v <= w ELSE v >= w
  IN /\ Len(out) = Len(rows) /\ ToSet(out) = ToSet(rows)
     /\ \A i \in DOMAIN out : blanked[i].id = out[i].id
     /\ \A i, k \in DOMAIN out : i < k =>
          /\ V(i) = None => V(k) = None
          /\ V(k) # None => InOrder(V(i), V(k), sort.dir)
          /\ V(i) = V(k) => InOrder(out[i].tie, out[k].tie, IF newest THEN "desc" ELSE "asc")

----------------------------------------------------------------------------
(* What a page asks for, and where its links go.                              *)

\* From a closed set: a key that is none of the columns is the default, direction and
\* all; no direction is the column's own.
ParseSort(raw) ==
  IF raw = None \/ raw.key \notin Keys THEN DefaultSort
  ELSE [key |-> raw.key,
        dir |-> IF raw.dir \in {"asc", "desc"} THEN raw.dir ELSE Columns[raw.key]]

\* A click on the active column reverses it, on any other starts it its own way.
NextDirection(shown, key) ==
  IF key = shown.key THEN Opposite(shown.dir) ELSE Columns[key]

\* The short query: nothing redundant, and nothing at all for the default.
SortQuery(sort) ==
  IF sort = DefaultSort THEN None
  ELSE [key |-> sort.key,
        dir |-> IF sort.dir = Columns[sort.key] THEN None ELSE sort.dir]

\* A wrong variant: the short query, which at the default is a plain visit.
HeaderQueryShort(shown, key) == SortQuery([key |-> key, dir |-> NextDirection(shown, key)])

\* A header's link always names its sort, both parts of it.
HeaderQuery(shown, key) == [key |-> key, dir |-> NextDirection(shown, key)]
\* A status filter's link keeps the sort by the short query.
StatusQuery(shown) == SortQuery(shown)

\* A tab; `promised` is what the link followed said it would show, `kept` the order a
\* filter was to keep.
NoWindow == [shown |-> None, query |-> None, open |-> FALSE, promised |-> None,
             kept |-> None]

\* `?sort=` there, whatever it says, is a click and is saved; else what was saved is read.
ResolveSort(query) == IF query # None THEN ParseSort(query) ELSE ParseSort(saved)

Get(p, query, promised, kept) ==
  /\ UNCHANGED table
  /\ visits < MaxVisits /\ visits' = visits + 1
  /\ window' = [window EXCEPT ![p] = [shown |-> ResolveSort(query), query |-> query,
                                      open |-> TRUE, promised |-> promised, kept |-> kept]]
  /\ saved' = IF query = None THEN saved ELSE ResolveSort(query)

TablesInit ==
  /\ table \in DOMAIN Specs /\ window = [p \in Windows |-> NoWindow] /\ visits = 0
  \* Nothing saved, or a column this table no longer has.
  /\ saved \in {None, [key |-> "gone", dir |-> "asc"]}

Visit(p) == Get(p, None, None, None)
ClickHeader(p, key) ==
  /\ window[p].open
  /\ Get(p, HeaderQuery(window[p].shown, key),
         [key |-> key, dir |-> NextDirection(window[p].shown, key)], None)
\* Only the list of applications has the filter.
ClickStatus(p) ==
  /\ table = "applications" /\ window[p].open
  /\ Get(p, StatusQuery(window[p].shown), None, window[p].shown)
\* An address of another day, or one typed: any key, any direction or none.
TypeAddress(p, raw) == Get(p, raw, None, None)
Reload(p) == window[p].open /\ Get(p, window[p].query, window[p].promised, None)

TablesNext ==
  \E p \in Windows :
    \/ Visit(p) \/ ClickStatus(p) \/ Reload(p)
    \/ \E key \in Keys : ClickHeader(p, key)
    \/ \E raw \in [key : {"gone", DefaultSort.key}, dir : {None, "desc"}] : TypeAddress(p, raw)

TablesSpec == TablesInit /\ [][TablesNext]_tablesVars

----------------------------------------------------------------------------
\* A header shows the order it said it would, whatever another tab has saved since the
\* page was drawn: once an order is read back, a link may not leave it out.
ClickDoesWhatItSays ==
  \A p \in Windows : window[p].promised # None => window[p].shown = window[p].promised

\* What is saved is an order some tab showed, or what was saved before any did.
SavedIsAnOrder ==
  saved # None => saved.key = "gone" \/ saved \in [key : Keys, dir : {"asc", "desc"}]

\* By hand (see the README): a filter of the list keeps the order it is in.
FilterKeepsSort ==
  \A p \in Windows : window[p].kept # None => window[p].shown = window[p].kept
=============================================================================
