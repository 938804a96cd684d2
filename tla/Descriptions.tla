---------------------------- MODULE Descriptions ----------------------------
(* The text of one ad (jfl_intake.descriptions): the one request a platform's   *)
(* handler makes for a posting, what its answer means, and the markup that     *)
(* comes back turned into lines of text. Pipeline's Fetch takes it from there. *)
(*                                                                             *)
(* The markup is what the parser of the library makes of it: tags, and stretches*)
(* of text, each named by its position. Spacing within a line is left out.     *)
EXTENDS Integers, Sequences, FiniteSets, SequencesExt

CONSTANTS
  None,
  MaxMarks, \* bound on the tags and texts of one ad
  MaxChars  \* MAX_CHARS, in texts

VARIABLES
  handler,  \* whose posting it is
  answer,   \* what came of its request
  marks,    \* history: the markup parsed so far
  page,     \* the parser
  result    \* None until the call returns

descriptionVars == <<handler, answer, marks, page, result>>

ErrorCodes == {"unsupported_platform", "not_found", "unreachable", "bad_response", "empty"}
Results == [text : Seq(Nat), code : ErrorCodes \union {None}, requests : {0, 1}]

----------------------------------------------------------------------------
(* The handlers. An answer says whether the request could be built, what came  *)
(* back, whether it had the documented shape, whether the posting was in it,   *)
(* and whether the posting had its text.                                       *)

Answers == [key : BOOLEAN, url : BOOLEAN,
            status : {"200", "404", "429", "403", "500", "none"},
            shaped : BOOLEAN, listed : BOOLEAN, described : BOOLEAN]

Fail(code, requests) == [text |-> <<>>, code |-> code, requests |-> requests]
Markup == Fail(None, 1)   \* not a result yet: html_to_text is to read it

\* What a non-200 means: only 429 and 5xx may clear by themselves.
StatusCode(status) ==
  CASE status = "404" -> "not_found"
    [] status \in {"429", "500"} -> "unreachable"
    [] OTHER -> "bad_response"

\* One request: no answer, another status, another shape, or what `then` makes of it.
Asked(a, then) ==
  IF a.status = "none" THEN Fail("unreachable", 1)
  ELSE IF a.status # "200" THEN Fail(StatusCode(a.status), 1)
  ELSE IF ~a.shaped THEN Fail("bad_response", 1)
  ELSE then
Described(a, otherwise) == IF a.described THEN Markup ELSE Fail(otherwise, 1)
\* The board's own listing, in which the posting is looked up.
InListing(a, otherwise) == IF a.listed THEN Described(a, otherwise) ELSE Fail("not_found", 1)
\* Both need the stored link, to know what to ask for.
WithUrl(a, then) == IF a.url THEN then ELSE Fail("bad_response", 0)

Greenhouse(a)      == Asked(a, Described(a, "bad_response"))
Ashby(a)           == Asked(a, InListing(a, "bad_response"))
Lever(a)           == Asked(a, Described(a, "bad_response"))
Workday(a)         == WithUrl(a, Asked(a, Described(a, "bad_response")))
\* Sections, fields or a feed's item without a text are an ad in which nothing is written.
SmartRecruiters(a) == Asked(a, Described(a, "empty"))
\* A wrong variant: a link that cannot be read is a posting that is gone.
WorkableGone(a)    == IF a.url THEN Asked(a, InListing(a, "bad_response")) ELSE Fail("not_found", 0)
Workable(a)        == WithUrl(a, Asked(a, InListing(a, "bad_response")))
Pinpoint(a)        == Asked(a, InListing(a, "empty"))
Recruitee(a)       == Asked(a, Described(a, "empty"))
Teamtailor(a)      == Asked(a, InListing(a, "empty"))
Personio(a)        == Asked(a, InListing(a, "bad_response"))
Rippling(a)        == Asked(a, Described(a, "bad_response"))
Breezy(a)          == Fail("unsupported_platform", 0)

Handlers == {"greenhouse", "ashby", "lever", "workday", "smartrecruiters", "rippling", "breezy",
             "teamtailor", "personio", "recruitee", "pinpoint", "workable"}
Handle(h, a) ==
  CASE h = "greenhouse" -> Greenhouse(a)           [] h = "ashby" -> Ashby(a)
    [] h = "lever" -> Lever(a)                     [] h = "workday" -> Workday(a)
    [] h = "smartrecruiters" -> SmartRecruiters(a) [] h = "rippling" -> Rippling(a)
    [] h = "breezy" -> Breezy(a)                   [] h = "teamtailor" -> Teamtailor(a)
    [] h = "personio" -> Personio(a)               [] h = "recruitee" -> Recruitee(a)
    [] h = "pinpoint" -> Pinpoint(a)               [] h = "workable" -> Workable(a)

\* A key the platform cannot be asked with is no fact about the posting.
FetchDescription(h, a) ==
  IF h # "breezy" /\ ~a.key THEN Fail("bad_response", 0) ELSE Handle(h, a)

----------------------------------------------------------------------------
(* Markup to text.                                                            *)

Text  == "text"
Tags  == {"p", "li", "br", "skip"}     \* "skip": script, style, head, noscript, template
Ends  == {"/p", "/li", "/skip"}
Marks == Tags \union Ends \union {Text}

Br == 0                                \* the line break among a block's texts
Texts == Nat \ {Br}
\* The texts of a block, without its breaks.
Kept(current) ==
  LET upTo[n \in 0..Len(current)] ==
        IF n = 0 THEN <<>>
        ELSE IF current[n] \in Texts THEN Append(upTo[n - 1], current[n]) ELSE upTo[n - 1]
  IN upTo[Len(current)]
NewPage == [blocks |-> <<>>, current |-> <<>>, skipDepth |-> 0, liPending |-> <<>>]

\* A wrong variant: an item's first text, not that of the innermost item, takes the mark.
FlushOnce(pg) ==
  LET kept    == Kept(pg.current)
      items   == pg.liPending
      pending == items # <<>> /\ Last(items)
      block   == [marked |-> pending, texts |-> kept]
  IN IF kept = <<>> THEN [pg EXCEPT !.current = <<>>]
     ELSE [pg EXCEPT !.current = <<>>, !.blocks = Append(@, block),
                     !.liPending = [i \in DOMAIN items |-> FALSE]]

\* The block that was gathered, if there is a text in it, marked if it is the first of the
\* innermost list item; a break between two texts is a line, and others are dropped.
Flush(pg) ==
  LET kept    == Kept(pg.current)
      items   == pg.liPending
      pending == items # <<>> /\ Last(items)
      block   == [marked |-> pending, texts |-> kept]
  IN IF kept = <<>> THEN [pg EXCEPT !.current = <<>>]
     ELSE [pg EXCEPT !.current = <<>>, !.blocks = Append(@, block),
                     !.liPending = IF pending THEN Append(Front(items), FALSE) ELSE items]

HandleStartTag(pg, tag) ==
  IF tag = "skip" THEN [pg EXCEPT !.skipDepth = @ + 1]
  ELSE IF pg.skipDepth > 0 THEN pg
  ELSE IF tag = "br" THEN [pg EXCEPT !.current = Append(@, Br)]
  ELSE LET flushed == Flush(pg)
       IN IF tag = "li" THEN [flushed EXCEPT !.liPending = Append(@, TRUE)] ELSE flushed

\* A wrong variant: a skipped element that was never opened is closed all the same.
HandleEndTagBelow(pg, tag) ==
  IF tag = "/skip" THEN [pg EXCEPT !.skipDepth = @ - 1]
  ELSE IF pg.skipDepth > 0 THEN pg
  ELSE LET flushed == Flush(pg)
       IN IF tag = "/li" /\ flushed.liPending # <<>>
          THEN [flushed EXCEPT !.liPending = Front(@)] ELSE flushed

HandleEndTag(pg, tag) ==
  IF tag = "/skip" THEN [pg EXCEPT !.skipDepth = IF @ = 0 THEN 0 ELSE @ - 1]
  ELSE IF pg.skipDepth > 0 THEN pg
  ELSE LET flushed == Flush(pg)
       IN IF tag = "/li" /\ flushed.liPending # <<>>
          THEN [flushed EXCEPT !.liPending = Front(@)] ELSE flushed

HandleData(pg, text) ==
  IF pg.skipDepth > 0 THEN pg ELSE [pg EXCEPT !.current = Append(@, text)]

\* Every text of the blocks, in order.
TextOf(pg) == FlattenSeq([i \in DOMAIN pg.blocks |-> pg.blocks[i].texts])

\* Bounded, or empty.
Finish(text) ==
  IF text = <<>> THEN Fail("empty", 1)
  ELSE [text |-> SubSeq(text, 1, IF Len(text) > MaxChars THEN MaxChars ELSE Len(text)),
        code |-> None, requests |-> 1]

----------------------------------------------------------------------------
DescriptionsInit ==
  /\ handler \in Handlers /\ answer = None
  /\ marks = <<>> /\ page = None /\ result = None

\* The one request, and what a handler makes of it.
Ask(a) ==
  /\ answer = None /\ answer' = a
  /\ LET made == FetchDescription(handler, a)
     IN IF made = Markup THEN page' = NewPage /\ result' = None
        ELSE page' = None /\ result' = made
  /\ UNCHANGED <<handler, marks>>

\* The parser of the library calls a handler for each tag and text.
Parse(mark) ==
  /\ page # None /\ result = None /\ Len(marks) < MaxMarks
  /\ handler = "greenhouse" /\ answer.url /\ answer.listed   \* markup is markup, whoever's
  /\ marks' = Append(marks, mark)
  /\ page' = IF mark = Text THEN HandleData(page, Len(marks'))
             ELSE IF mark \in Tags THEN HandleStartTag(page, mark)
             ELSE HandleEndTag(page, mark)
  /\ UNCHANGED <<handler, answer, result>>

\* Its end: the last block, and the result.
Close ==
  /\ page # None /\ result = None
  /\ page' = Flush(page)
  /\ result' = Finish(TextOf(page'))
  /\ UNCHANGED <<handler, answer, marks>>

DescriptionsNext == (\E a \in Answers : Ask(a)) \/ (\E m \in Marks : Parse(m)) \/ Close
DescriptionsSpec == DescriptionsInit /\ [][DescriptionsNext]_descriptionVars

----------------------------------------------------------------------------
(* Properties, of the markup as it is written.                                 *)

\* A tag from..to counts those between; an element is open at i if it is not closed by then.
Tally(mark, from, to) == Cardinality({i \in from..to : marks[i] = mark})
OpenAt(tag, end, j, i) ==
  /\ marks[j] = tag
  /\ \A k \in (j + 1)..(i - 1) : Tally(tag, j + 1, k) + 1 > Tally(end, j + 1, k)
Hidden(i) == \E j \in 1..(i - 1) : OpenAt("skip", "/skip", j, i)
Visible == {i \in DOMAIN marks : marks[i] = Text /\ ~Hidden(i)}
InOrder(texts) == \A i, k \in DOMAIN texts : i < k => texts[i] < texts[k]

\* What an employer wrote is all there, once and in order, up to the bound, and nothing of
\* what a page does not show is.
NothingWrittenIsLost ==
  result # None /\ page # None =>
    /\ ToSet(TextOf(page)) = Visible /\ InOrder(TextOf(page))
    /\ result.code = None <=> Visible # {}
    /\ IsPrefix(result.text, TextOf(page))

\* A bullet is a list item's: the block that holds the first text of the innermost item it
\* is in, and no other.
Item(i) ==
  LET open == {j \in 1..(i - 1) : ~Hidden(j) /\ marks[j] = "li"
                 /\ \A k \in (j + 1)..(i - 1) :
                      Cardinality({n \in (j + 1)..k : marks[n] = "li" /\ ~Hidden(n)}) + 1
                        > Cardinality({n \in (j + 1)..k : marks[n] = "/li" /\ ~Hidden(n)})}
  IN IF open = {} THEN 0 ELSE CHOOSE j \in open : \A k \in open : k <= j
BulletsAreItems ==
  page # None =>
    \A b \in DOMAIN page.blocks :
      LET first == Head(page.blocks[b].texts)
      IN page.blocks[b].marked
           <=> Item(first) # 0 /\ \A i \in Visible : i < first => Item(i) # Item(first)

\* A posting is said to be gone only by its platform: a 404, or a listing that was read and
\* does not have it. And what a retry might mend, and only that, is retried.
GoneIsTheirWord ==
  result # None =>
    /\ result.code = "not_found" =>
         /\ result.requests = 1
         /\ \/ answer.status = "404"
            \/ answer.status = "200" /\ answer.shaped /\ ~answer.listed
    /\ result.code = "unreachable" <=>
         /\ handler # "breezy" /\ answer.key
         /\ answer.url \/ handler \notin {"workday", "workable"}
         /\ answer.status \in {"none", "429", "500"}
=============================================================================
