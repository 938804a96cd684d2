------------------------------ MODULE Listings ------------------------------
(* One fetch of a board (jfl_intake.adapters, jfl_intake.http): the requests  *)
(* an adapter makes, what it collects, and when it may say that it has seen   *)
(* the whole board. Boards takes the result from there.                       *)
(*                                                                            *)
(* The board is the employer's and moves while it is read. How a platform     *)
(* pages is external: Workday shows at most a ceiling of postings, wraps past *)
(* the end, and lists by facet; Workable hands out a token; SmartRecruiters   *)
(* may give shorter pages than asked for; the others answer all at once.      *)
EXTENDS Integers, FiniteSets, Sequences, SequencesExt

CONSTANTS
  Postings,    \* a set of numbers
  Nameless,    \* those listed without a usable id or title
  Posted,      \* how many of them, lowest first, a board may start with
  None,
  PageSize,    \* 20, 100: the most a page gives
  Ceiling,     \* of what a Workday listing shows
  MaxPages,    \* of one listing
  MaxRequests, \* the budget of one check
  MaxChanges,  \* bound on what goes wrong during a check: a change of the board, a
               \* page that comes empty
  LackingGroups \* bound on the facets that some posting has no value of

VARIABLES
  platform,
  board,       \* the postings listed, in order
  facets,      \* of each facet, what kind it is
  was,         \* history: what the board listed, at each moment of the check
  changes,
  fetch        \* the check

listingsVars == <<platform, board, facets, was, changes, fetch>>

SingleResponse == {"ashby", "greenhouse", "teamtailor"}  \* one of each sort
Paged == {"workday", "workable", "smartrecruiters"}

Statuses == {"complete", "incomplete", "truncated", "unreachable", "failed"}

----------------------------------------------------------------------------
(* Facets. A value of a facet is a set of postings; a kind of facet says      *)
(* which. Two values each is enough for one of them to be too long.           *)

Groups == {"family", "type", "place"}
Kinds  == {"parity", "halves", "lopsided", "several", "lacking"}
Odd(S) == {p \in S : p % 2 = 1}
Values(kind) ==
  CASE kind = "parity"   -> <<Odd(Postings), Postings \ Odd(Postings)>>
    [] kind = "halves"   -> <<{p \in Postings : p <= 2}, {p \in Postings : p > 2}>>
    [] kind = "lopsided" -> <<Postings, {}>>
    [] kind = "several"  -> <<Odd(Postings) \union {4}, Postings \ Odd(Postings)>>
    [] kind = "lacking"  -> <<Odd(Postings) \ {1}, Postings \ Odd(Postings)>>

Count(value) == Cardinality(value \intersect ToSet(board))
Total(group) == Count(Values(facets[group])[1]) + Count(Values(facets[group])[2])
Largest(group) ==
  LET one == Count(Values(facets[group])[1]) two == Count(Values(facets[group])[2])
  IN IF one > two THEN one ELSE two
NonZero(group) == Cardinality({i \in {1, 2} : Count(Values(facets[group])[i]) > 0})

\* The one total that two groups agree on and that reaches the ceiling, and of the
\* groups that have it, one that can be listed whole.
Agreed == {n \in {Total(g) : g \in Groups} :
             n >= Ceiling /\ Cardinality({g \in Groups : Total(g) = n}) >= 2}
Listable(n) == {g \in Groups : Total(g) = n /\ Largest(g) < Ceiling}
Rank(g) == CASE g = "family" -> 1 [] g = "place" -> 2 [] g = "type" -> 3
Better(g, h) ==
  \/ NonZero(g) < NonZero(h)
  \/ NonZero(g) = NonZero(h) /\ Largest(g) < Largest(h)
  \/ NonZero(g) = NonZero(h) /\ Largest(g) = Largest(h) /\ Rank(g) <= Rank(h)
ChoosePartition ==
  IF Cardinality(Agreed) # 1 THEN None
  ELSE LET n == CHOOSE m \in Agreed : TRUE
       IN IF Listable(n) = {} THEN None
          ELSE [group |-> CHOOSE g \in Listable(n) : \A h \in Listable(n) : Better(g, h),
                total |-> n]

----------------------------------------------------------------------------
(* The platforms.                                                             *)

Least(m, n) == IF m < n THEN m ELSE n
\* The postings of the board that are in a slice of it, in order.
Listed(slice) ==
  LET upTo[n \in 0..Len(board)] ==
        IF n = 0 THEN <<>>
        ELSE IF board[n] \in slice THEN Append(upTo[n - 1], board[n]) ELSE upTo[n - 1]
  IN upTo[Len(board)]

\* Workday shows a ceiling of postings, and past the last of them page 0 again.
WorkdayPage(slice, offset) ==
  LET shown == SubSeq(Listed(slice), 1, Least(Len(Listed(slice)), Ceiling))
      from  == IF offset >= Len(shown) THEN 0 ELSE offset
  IN SubSeq(shown, from + 1, Least(Len(shown), from + PageSize))
SmartPage(offset, limit) == SubSeq(board, offset + 1, Least(Len(board), offset + limit))
\* A token stands for how far the listing had been given out: after the last of the
\* given that is still listed.
Given(cursor) == {i \in DOMAIN board : board[i] \in cursor}
After(cursor) == IF Given(cursor) = {} THEN 0 ELSE CHOOSE i \in Given(cursor) : \A k \in Given(cursor) : k <= i
WorkablePage(cursor) ==
  SubSeq(board, After(cursor) + 1, Least(Len(board), After(cursor) + PageSize))
WorkableToken(cursor) == After(cursor) + PageSize < Len(board)

----------------------------------------------------------------------------
(* The check.                                                                 *)

\* What a posting is collected under; those without an id can look alike.
Key(p) == IF p \in Nameless THEN "untracked" ELSE "tracked"
Collected == [key : {"tracked"}, p : Postings] \union [key : {"untracked"}, p : {0}]
AsKey(p) == [key |-> Key(p), p |-> IF p \in Nameless THEN 0 ELSE p]
AsKeys(page) == {AsKey(p) : p \in ToSet(page)}

NoFetch == [at |-> "first", collected |-> {}, seen |-> {}, given |-> {}, offset |-> 0, pages |-> 0,
            requests |-> 0, total |-> None, expected |-> None, slices |-> <<>>,
            slice |-> Postings, status |-> None, code |-> None]

\* Any answer but a 200 of the right shape: what it means for the check.
StatusFailure(answer) ==
  CASE answer \in {"not_found", "http_client_error"} -> "failed"
    [] answer \in {"rate_limited", "server_error"} -> "unreachable"
TransportFailure(answer) ==
  CASE answer \in {"timeout", "connection_error"} -> "unreachable"
    [] answer \in {"deadline_exceeded", "request_budget_exhausted"} -> "incomplete"
Failure(answer) ==
  CASE answer = "malformed_response" -> "failed"
    [] answer \in {"not_found", "http_client_error", "rate_limited", "server_error"} ->
         StatusFailure(answer)
    [] answer \in {"timeout", "connection_error", "deadline_exceeded",
                   "request_budget_exhausted"} -> TransportFailure(answer)

Unfounded(f) == \E c \in f.collected : c.key = "untracked"

Result(f, status, code) == [f EXCEPT !.at = "done", !.status = status, !.code = code]

\* A wrong variant: a short page is the end, and the end is completeness.
VerdictByEnd(f, expected) ==
  IF Unfounded(f) THEN Result([f EXCEPT !.expected = expected], "incomplete", "unidentifiable_job")
  ELSE Result([f EXCEPT !.expected = expected], "complete", None)

\* Completeness is what was counted: as many distinct postings as the total, none of
\* them without a name.
Verdict(f, expected) ==
  LET counted == [f EXCEPT !.expected = expected]
  IN IF Unfounded(f) THEN Result(counted, "incomplete", "unidentifiable_job")
     ELSE IF expected # None /\ Cardinality(f.collected) # expected
          THEN Result(counted, "incomplete", "count_mismatch")
          ELSE Result(counted, "complete", None)

Absorb(f, page) == [f EXCEPT !.collected = @ \union AsKeys(page), !.seen = @ \union AsKeys(page)]
\* True if a posting is already collected in this listing; some of one page may be too.
Wrapped(f, page) ==
  AsKeys(page) \intersect f.seen # {} \/ Cardinality(AsKeys(page)) < Len(page)

\* The next listing of a board split by a facet, or the end of the check.
NextSlice(f) ==
  IF f.slices = <<>> THEN Verdict(f, f.expected)
  ELSE [f EXCEPT !.at = "first", !.slice = Head(f.slices), !.slices = Tail(f.slices),
                 !.seen = {}, !.offset = 0, !.pages = 0, !.total = None]

\* A listing of Workday's ends at a short page, a wrap, or offset 0's total; at the
\* ceiling only the first two, or the page cap, can end it.
Listing(f, page, isFirst) ==
  LET done == Absorb(f, page)
      ends == Len(page) < PageSize \/ (~isFirst /\ Wrapped(f, page))
      next == [done EXCEPT !.offset = @ + PageSize, !.at = "page", !.pages = @ + 1]
  IN IF ends \/ (f.total < Ceiling /\ next.offset >= f.total) THEN NextSlice(done)
     ELSE IF next.pages >= MaxPages THEN Result(done, "incomplete", "page_cap_reached")
     ELSE next

\* Offset 0 of the whole board: list it, split it, or give it up.
WorkdayFirst(f, page, total) ==
  LET part  == ChoosePartition
      whole == [f EXCEPT !.total = total, !.expected = total]
      values == Values(facets[part.group])
      Part(i) == IF Count(values[i]) > 0 THEN <<values[i]>> ELSE <<>>
  IN IF f.expected # None THEN Listing([f EXCEPT !.total = total], page, TRUE)
     ELSE IF total < Ceiling THEN Listing(whole, page, TRUE)
     ELSE IF part = None THEN Result(f, "truncated", "listing_ceiling")
     ELSE NextSlice([f EXCEPT !.slices = Part(1) \o Part(2), !.expected = part.total])

Workday(f, hollow) ==
  LET page  == IF hollow THEN <<>> ELSE WorkdayPage(f.slice, f.offset)
      total == Least(Len(Listed(f.slice)), Ceiling)
  IN IF f.at = "first"
     \* Offset 0's total must agree with the page.
     THEN IF (total = 0) # (page = <<>>) THEN Result(f, "failed", "malformed_response")
          ELSE WorkdayFirst(f, page, total)
     ELSE Listing(f, page, FALSE)

\* A page that hands back what was collected makes no progress, whatever the count;
\* what came before it on the page is kept.
Workable(f, hollow) ==
  LET page  == IF hollow THEN <<>> ELSE WorkablePage(f.given)
      again == {i \in DOMAIN page : page[i] \notin Nameless /\ AsKey(page[i]) \in f.collected}
      total == IF f.total = None THEN Len(board) ELSE f.total
      done  == [Absorb(f, page) EXCEPT !.total = total, !.pages = @ + 1, !.at = "page",
                  !.given = @ \union ToSet(page)]
  IN IF again # {}
     THEN Result(Absorb(f, SubSeq(page, 1, Min(again) - 1)), "incomplete", "duplicate_posting")
     ELSE IF hollow \/ ~WorkableToken(f.given) THEN Verdict(done, total)
     ELSE IF done.pages >= MaxPages THEN Result(done, "incomplete", "page_cap_reached")
     ELSE done

\* A wrong variant: it moves by what was asked for.
SmartRecruitersAsked(f, hollow, limit) ==
  LET page  == IF hollow THEN <<>> ELSE SmartPage(f.offset, limit)
      total == IF f.total = None THEN Len(board) ELSE f.total
      done  == [Absorb(f, page) EXCEPT !.total = total]
      next  == [done EXCEPT !.pages = @ + 1, !.offset = @ + PageSize, !.at = "page"]
  IN IF Len(page) < limit THEN Verdict(done, total)
     ELSE IF next.pages >= MaxPages THEN Result(done, "incomplete", "page_cap_reached")
     ELSE next

\* The offset moves by the limit the answer says it used, not by the one asked for.
SmartRecruiters(f, hollow, limit) ==
  LET page  == IF hollow THEN <<>> ELSE SmartPage(f.offset, limit)
      total == IF f.total = None THEN Len(board) ELSE f.total
      done  == [Absorb(f, page) EXCEPT !.total = total]
      next  == [done EXCEPT !.pages = @ + 1, !.offset = @ + limit, !.at = "page"]
  IN IF Len(page) < limit THEN Verdict(done, total)
     ELSE IF next.pages >= MaxPages THEN Result(done, "incomplete", "page_cap_reached")
     ELSE next

\* One 200 of the documented shape is the whole board; a total is checked where it is
\* declared, which a feed never does.
FetchSingle(f, hollow) ==
  Verdict(Absorb(f, IF hollow THEN <<>> ELSE board),
          IF platform = "greenhouse" THEN Len(board) ELSE None)
FetchSingleXml(f) == Verdict(Absorb(f, board), None)

ListingsInit ==
  /\ platform \in SingleResponse \union Paged
  /\ \E n \in Posted : board = [i \in 1..n |-> i]
  /\ facets \in [Groups -> Kinds]
  /\ platform # "workday" \/ Len(board) < Ceiling => \A g \in Groups : facets[g] = "parity"
  /\ Cardinality({g \in Groups : facets[g] = "lacking"}) <= LackingGroups
  /\ was = {ToSet(board)} /\ changes = 0
  /\ fetch = NoFetch

\* A 200 of the right shape, or one with nothing on the page.
Answer(hollow) ==
  /\ fetch.at # "done" /\ fetch.requests < MaxRequests
  \* Of a platform that declares no total, an empty page of the right shape is the board.
  /\ hollow => platform \notin {"ashby", "teamtailor"} /\ changes < MaxChanges
  /\ changes' = IF hollow THEN changes + 1 ELSE changes
  /\ LET f == [fetch EXCEPT !.requests = @ + 1]
     IN \/ platform = "workday" /\ fetch' = Workday(f, hollow)
        \/ platform = "workable" /\ fetch' = Workable(f, hollow)
        \/ \E limit \in {1, PageSize} :
             platform = "smartrecruiters" /\ fetch' = SmartRecruiters(f, hollow, limit)
        \/ platform \in {"ashby", "greenhouse"} /\ fetch' = FetchSingle(f, hollow)
        \/ platform = "teamtailor" /\ fetch' = FetchSingleXml(f)
  /\ UNCHANGED <<platform, board, facets, was>>

\* Any other answer, or none, ends the check with what it had.
Refuse(answer) ==
  /\ fetch.at # "done"
  /\ (answer = "request_budget_exhausted") = (fetch.requests >= MaxRequests)
  /\ fetch' = Result(fetch, Failure(answer), answer)
  /\ UNCHANGED <<platform, board, facets, was, changes>>

Moves(b) ==
  /\ fetch.at # "done" /\ fetch.requests > 0 /\ changes < MaxChanges
  /\ changes' = changes + 1
  /\ board' = b /\ was' = was \union {ToSet(b)}
  /\ UNCHANGED <<platform, facets, fetch>>

TakeDown(i) == Moves(RemoveAt(board, i))
PutUp(p) == p \notin ToSet(board) /\ (Moves(<<p>> \o board) \/ Moves(board \o <<p>>))

Refusals == {"not_found", "http_client_error", "rate_limited", "server_error", "timeout",
             "connection_error", "deadline_exceeded", "request_budget_exhausted",
             "malformed_response"}

ListingsNext ==
  \/ \E hollow \in BOOLEAN : Answer(hollow)
  \/ \E answer \in Refusals : Refuse(answer)
  \/ \E i \in DOMAIN board : TakeDown(i)
  \/ \E p \in Postings : PutUp(p)

ListingsSpec == ListingsInit /\ [][ListingsNext]_listingsVars

----------------------------------------------------------------------------
Jobs == {c.p : c \in {c \in fetch.collected : c.key = "tracked"}}

\* A check that says it saw the whole board lists exactly what the board listed at some
\* moment of the check: only such a check may close a job. (Of boards that change once
\* while they are read: see the README for twice.)
CompleteIsTheBoard == fetch.status = "complete" => Jobs \in was

\* Nor is a check too careful to be of use: of a board that lists whole, stays still and
\* answers, it is complete, or gave up at a limit or over a posting without a name; it
\* never takes a wrap or its own paging for a board that does not add up.
QuietIsWhole ==
  /\ changes = 0 /\ (platform = "workday" => Len(board) < Ceiling)
  => fetch.code \notin {"count_mismatch", "duplicate_posting"}
=============================================================================
