------------------------------ MODULE Sections ------------------------------
(* The folding panels of every screen (jfl_web.sections): what opens one, the *)
(* badge a folded one carries, and the choice POST /ui/sections remembers.    *)
(*                                                                            *)
(* A behaviour is of one panel. Its content is a few rows other parts of the  *)
(* program write; `now()` of a row is its transaction's start, so a row can   *)
(* turn up older than it looks. The browser (external) fires `toggle` when    *)
(* the user folds a panel and also when an open panel is put on the page; of  *)
(* the posts this makes, htmx keeps the order and drops some.                 *)
EXTENDS Naturals, FiniteSets, Sequences

CONSTANTS
  Entries,      \* drafts, runs, answers, corrections: what a panel lists
  Tabs,      \* pages of the one user
  None,
  MaxClock,  \* bound on the clock
  MaxFolds   \* bound on what is recorded of one panel

VARIABLES
  kind,      \* whose panel it is
  content,   \* the panel's rows
  coming,    \* a row as a transaction that has not committed writes it
  choice,    \* the row of ui_section_states, or None
  tab,       \* the panel as it stands on each page
  post,      \* of each page, the toggles not yet handled
  seen,      \* history: rows on a page that said it had been folded or opened
  chosen,    \* history: what the user last did by hand that arrived, or None
  clock

sectionsVars == <<kind, content, coming, choice, tab, post, seen, chosen, clock>>

\* "stated" is a panel of the profile other than its capabilities.
Kinds == {"ad", "score", "constraints", "levers", "pushbacks", "questions", "status", "notes",
          "timeline", "requirements", "generate", "cv", "history", "draft", "document",
          "versions", "capabilities", "stated"}

Entry == [status : {"absent", "pending", "failed", "done"}, made : Nat, changed : Nat]
NoEntry == [status |-> "absent", made |-> 0, changed |-> 0]
\* One row of ui_section_states; last_opened_at is `opened`.
SectionState == [is_open : BOOLEAN, default_open : BOOLEAN, toggles : Nat,
                 against_default : Nat, last_opened_at : Nat]

There(c)  == {r \in Entries : c[r].status # "absent"}
Latest(c) == {r \in There(c) : \A other \in There(c) : c[other].made <= c[r].made}
Are(c, statuses) == {r \in There(c) : c[r].status \in statuses}

----------------------------------------------------------------------------
(* What each panel is built from: its default, what forces it open, and the   *)
(* times its badge is measured from.                                          *)

Made(c, rows)    == [r \in rows |-> c[r].made]
Changed(c, rows) == [r \in rows |-> c[r].changed]
Panel(default, forced, times) == [default |-> default, forced |-> forced, times |-> times]

\* Forced open for every state that is not "read".
AdSection(c) == Panel(FALSE, Latest(c) \intersect Are(c, {"done"}) = {},
                      Changed(c, Latest(c) \intersect Are(c, {"done"})))
ScoreSection(c) == Panel(TRUE, Latest(c) \intersect Are(c, {"done"}) = {}, Changed(c, Latest(c)))
\* Every correction before the latest; one not applied has done nothing yet.
PushbacksSection(c) ==
  LET earlier == There(c) \ Latest(c)
  IN Panel(FALSE, earlier \intersect Are(c, {"pending", "failed"}) # {}, Made(c, earlier))
QuestionsSection(c) ==
  Panel(FALSE, There(c) = {} \/ Are(c, {"pending", "failed"}) # {}, Changed(c, Are(c, {"done"})))
ScoreDetailSection(c) == Panel(kind = "constraints", FALSE, Made(c, {}))
StatusSection(c) == Panel(TRUE, FALSE, Made(c, {}))
NotesSection(c) == Panel(There(c) # {}, FALSE, Made(c, {}))
TimelineSection(c) == Panel(TRUE, FALSE, Made(c, There(c)))
\* The newest draft is shown above; the rest are the history.
HistorySection(c) == Panel(TRUE, FALSE, Made(c, There(c) \ Latest(c)))
VersionsSection(c) == Panel(FALSE, FALSE, Made(c, There(c) \ Latest(c)))
\* What one has stated nothing in still wants one; typing is no news.
StatedSection(c) == Panel(There(c) = {}, FALSE, Made(c, {}))
CapabilitiesSection(c) ==
  Panel(Are(c, {"done"}) = {}, Latest(c) \intersect Are(c, {"pending"}) # {},
        Changed(c, Latest(c)))
RequirementsSection(c) == Panel(FALSE, FALSE, Made(c, {}))
\* What a press is being worked on behind is forced open.
GenerateSection(c) == Panel(TRUE, Are(c, {"pending"}) # {}, Made(c, {}))
CvSection(c) == GenerateSection(c)
CvDocumentSection(c) == GenerateSection(c)
\* The panel of the first draft: open until there is a newer one.
DraftSection(c) == Panel(Cardinality(There(c)) <= 1, FALSE, Made(c, {}))

PanelOf(c) ==
  CASE kind = "ad" -> AdSection(c)
    [] kind = "score" -> ScoreSection(c)
    [] kind \in {"constraints", "levers"} -> ScoreDetailSection(c)
    [] kind = "pushbacks" -> PushbacksSection(c)
    [] kind = "questions" -> QuestionsSection(c)
    [] kind = "status" -> StatusSection(c)
    [] kind = "notes" -> NotesSection(c)
    [] kind = "timeline" -> TimelineSection(c)
    [] kind = "requirements" -> RequirementsSection(c)
    [] kind = "generate" -> GenerateSection(c)
    [] kind = "cv" -> CvSection(c)
    [] kind = "history" -> HistorySection(c)
    [] kind = "draft" -> DraftSection(c)
    [] kind = "document" -> CvDocumentSection(c)
    [] kind = "versions" -> VersionsSection(c)
    [] kind = "capabilities" -> CapabilitiesSection(c)
    [] kind = "stated" -> StatedSection(c)

\* The rows newer than the last fold or opening; of a panel never touched, none.
Marker(state, times) ==
  IF state = None THEN {} ELSE {r \in DOMAIN times : times[r] > state.last_opened_at}

\* A wrong variant: the user's choice first.
ResolveChoice(panel, state) ==
  LET open == IF state # None THEN state.is_open ELSE panel.default \/ panel.forced
  IN [open    |-> open,
      default |-> panel.default \/ panel.forced,
      marker  |-> IF open THEN {} ELSE Marker(state, panel.times)]

\* Forced first, then the user's choice, then the default; no badge on an open panel.
Resolve(panel, state) ==
  LET open == \/ panel.forced
              \/ ~panel.forced /\ state # None /\ state.is_open
              \/ ~panel.forced /\ state = None /\ panel.default
  IN [open    |-> open,
      default |-> panel.default \/ panel.forced,
      marker  |-> IF open THEN {} ELSE Marker(state, panel.times)]

\* A panel on a page, and one toggle of it: by hand, or the browser's own.
Shown(c) == {<<r, PanelOf(c).times[r]>> : r \in DOMAIN PanelOf(c).times}
Toggled  == [open : BOOLEAN, default : BOOLEAN, byHand : BOOLEAN,
             shown : SUBSET (Entries \X Nat)]

SectionsInit ==
  /\ kind \in Kinds
  /\ content = [r \in Entries |-> NoEntry] /\ coming = [r \in Entries |-> None]
  /\ choice = None /\ chosen = None /\ seen = {} /\ clock = 1
  /\ tab = [p \in Tabs |-> None] /\ post = [p \in Tabs |-> <<>>]

----------------------------------------------------------------------------
(* The rest of the program writes the rows.                                   *)

\* An event or a draft is there at once; a run is pending first (a question without
\* one is as good as pending); an application's ad, or an answer, is read again.
Follows(status) ==
  CASE status = "absent" ->
         IF kind \in {"timeline", "history", "draft", "versions", "notes", "stated"} THEN {"done"} ELSE {"pending"}
    [] status = "pending" -> {"done", "failed"}
    [] status = "failed" -> IF kind = "score" THEN {} ELSE {"pending"}
    [] status = "done" -> IF kind \in {"ad", "questions"} THEN {"pending"} ELSE {}

Write(r, status) ==
  /\ coming[r] = None /\ clock < MaxClock
  /\ status \in Follows(content[r].status)
  /\ kind = "ad" => \A other \in Entries \ {r} : content[other] = NoEntry /\ coming[other] = None
  /\ coming' = [coming EXCEPT ![r] =
       [status |-> status, changed |-> clock,
        made   |-> IF content[r] = NoEntry THEN clock ELSE content[r].made]]
  /\ clock' = clock + 1
  /\ UNCHANGED <<kind, content, choice, tab, post, seen, chosen>>

Commit(r) ==
  /\ coming[r] # None
  /\ content' = [content EXCEPT ![r] = coming[r]]
  /\ coming' = [coming EXCEPT ![r] = None]
  /\ UNCHANGED <<kind, choice, tab, post, seen, chosen, clock>>

----------------------------------------------------------------------------
(* The user's pages, and what is remembered of them.                          *)

\* Of a panel put on the page open, the browser may say so: the listener may be there
\* too late for a whole page, and never for one that a poll swaps in.
Render(p) ==
  LET drawn == Resolve(PanelOf(content), choice)
      told  == [open |-> TRUE, default |-> drawn.default, byHand |-> FALSE,
                shown |-> Shown(content)]
  IN /\ tab' = [tab EXCEPT ![p] = [drawn |-> drawn, shown |-> Shown(content)]]
     /\ \/ post' = [post EXCEPT ![p] = <<>>]
        \/ drawn.open /\ post' = [post EXCEPT ![p] = <<told>>]
     /\ UNCHANGED <<kind, content, coming, choice, seen, chosen, clock>>

Toggle(p) ==
  LET told == [open |-> ~tab[p].drawn.open, default |-> tab[p].drawn.default, byHand |-> TRUE,
               shown |-> tab[p].shown]
  IN /\ tab[p] # None /\ Len(post[p]) < 2
     /\ tab' = [tab EXCEPT ![p].drawn.open = ~tab[p].drawn.open]
     /\ post' = [post EXCEPT ![p] = Append(@, told)]
     /\ UNCHANGED <<kind, content, coming, choice, seen, chosen, clock>>

\* A wrong variant: folding a panel away is not having looked at it.
RecordOpening(state, is_open, default_open) ==
  LET against == IF is_open # default_open THEN 1 ELSE 0
  IN [is_open         |-> is_open,
      default_open    |-> default_open,
      toggles         |-> IF state = None THEN 1 ELSE state.toggles + 1,
      against_default |-> IF state = None THEN against ELSE state.against_default + against,
      last_opened_at  |-> IF is_open THEN clock ELSE IF state = None THEN 0 ELSE state.last_opened_at]

\* One write, whichever way the section was toggled.
RecordToggle(state, is_open, default_open) ==
  LET against == IF is_open # default_open THEN 1 ELSE 0
  IN [is_open         |-> is_open,
      default_open    |-> default_open,
      toggles         |-> IF state = None THEN 1 ELSE state.toggles + 1,
      against_default |-> IF state = None THEN against ELSE state.against_default + against,
      last_opened_at  |-> clock]

RecordSectionToggle(p) ==
  /\ post[p] # <<>> /\ clock < MaxClock
  /\ choice # None => choice.toggles < MaxFolds
  /\ LET told == Head(post[p])
     IN /\ choice' = RecordToggle(choice, told.open, told.default)
        /\ seen' = seen \union told.shown
        /\ chosen' = IF told.byHand THEN [open |-> told.open] ELSE chosen
  /\ post' = [post EXCEPT ![p] = Tail(@)]
  /\ clock' = clock + 1
  /\ UNCHANGED <<kind, content, coming, tab>>

\* Dropped from htmx's queue, or lost on the way; no error is shown.
LosePost(p) ==
  /\ post[p] # <<>>
  /\ post' = [post EXCEPT ![p] = Tail(@)]
  /\ UNCHANGED <<kind, content, coming, choice, tab, seen, chosen, clock>>

SectionsNext ==
  \/ \E r \in Entries : Commit(r) \/ (\E status \in {"pending", "failed", "done"} : Write(r, status))
  \/ \E p \in Tabs : Render(p) \/ Toggle(p) \/ RecordSectionToggle(p) \/ LosePost(p)

SectionsSpec == SectionsInit /\ [][SectionsNext]_sectionsVars

----------------------------------------------------------------------------
\* A badge counts no row, as it now is, that was in the panel when the user (or the
\* page) last said it was looked at: `last_opened_at` moves on both directions.
SeenIsNotNews ==
  \A r \in Resolve(PanelOf(content), choice).marker :
    <<r, PanelOf(content).times[r]>> \notin seen

\* What is under way behind a panel that was paid for is never folded away, whatever
\* the user chose of it before.
RunsAreOnScreen ==
  /\ kind \in {"ad", "score", "questions", "generate", "cv", "document", "capabilities"}
  /\ \E r \in Latest(content) : content[r].status = "pending"
  => Resolve(PanelOf(content), choice).open

\* By hand (see the README): what the user never had on a page is counted on a panel
\* that is folded, once it has been touched.
NewsIsSaid ==
  LET now == Resolve(PanelOf(content), choice)
  IN choice # None /\ ~now.open =>
       \A r \in DOMAIN PanelOf(content).times :
         <<r, PanelOf(content).times[r]>> \in seen \/ r \in now.marker

\* By hand (see the README): what is remembered as the user's choice is what the user
\* did by hand.
ChoiceIsTheUsers == choice # None => chosen = [open |-> choice.is_open]
=============================================================================
