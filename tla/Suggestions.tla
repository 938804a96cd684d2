---------------------------- MODULE Suggestions ----------------------------
(***************************************************************************)
(* Profile settings read off the user's CVs (handlers and storage          *)
(* profile_suggestions.py, jfl_web.profilesuggestions).  A model call      *)
(* proposes disciplines, places and a level; a proposal changes the        *)
(* profile only when the user accepts it, and over what they have stated   *)
(* only when they tick "replace what I have".  What they have answered is  *)
(* not proposed again.                                                     *)
(***************************************************************************)
EXTENDS Naturals, FiniteSets, Sequences, SequencesExt

CONSTANTS
  Practices,     \* disciplines there are
  Places, Levels,
  Readings,      \* profile_suggestions ids, in created_at order; bound on them
  ReadingTries,  \* tasks.max_attempts of a run's task
  MaxRead,       \* how many settings the model may come back with
  StalePages,    \* whether the user may answer on a page of an older run
  None

VARIABLES
  settings,   \* the sections of the newest profile these are about
  offered,    \* offered[k]: the run's row
  readTask,   \* readTask[k]: its suggest_profile_settings task
  suggester   \* suggester[k]: where the thread that has that task stands

suggestVars == <<settings, offered, readTask, suggester>>

Lists(set, n) == UNION {{s \in [1..m -> set] : \A i, j \in 1..m : s[i] = s[j] => i = j} : m \in 0..n}

\* ProposedSetting; its key is its kind and values.
SettingKeys ==
  [kind : {"discipline", "not_discipline"}, values : [1..1 -> Practices]]
  \union [kind : {"location"}, values : Lists(Places, MaxRead)]
  \union [kind : {"level"}, values : [1..1 -> Levels]]

\* A run's row: `answers` gives the proposals, each with its state.
SuggestionRows == [status : {"absent", "pending", "done", "failed"},
                   open : SUBSET SettingKeys, answered : SUBSET SettingKeys]
Settings == [practises : SUBSET Practices, not : SUBSET Practices,
             location : Lists(Places, MaxRead), level : Levels \union {None}]

Blank      == [practises |-> {}, not |-> {}, location |-> <<>>, level |-> None]
NoReading  == [status |-> "absent", open |-> {}, answered |-> {}]
NoSuggester == [at |-> "none", already |-> {}, proposals |-> {}]

SuggestInit ==
  /\ settings = Blank
  /\ offered = [k \in Readings |-> NoReading]
  /\ readTask = [k \in Readings |-> [status |-> "absent", tries |-> 0]]
  /\ suggester = [k \in Readings |-> NoSuggester]

SuggestTypeOK == settings \in Settings /\ offered \in [Readings -> SuggestionRows]

----------------------------------------------------------------------------
(* What the model's answer is made into (to_proposals).                    *)

\* An item: of a kind asked for or not, its source line in the CVs or made up.
ReadItems ==
  [kind : {"discipline", "not_discipline"}, value : Practices, quoted : BOOLEAN]
  \union [kind : {"location"}, value : Places, quoted : BOOLEAN]
  \union [kind : {"level"}, value : Levels, quoted : BOOLEAN]
  \union [kind : {"comp_floor"}, value : {None}, quoted : BOOLEAN]
ReadAnswers == UNION {[1..n -> ReadItems] : n \in 0..MaxRead}

Kinds == {"discipline", "not_discipline", "location", "level"}

\* A wrong ToProposals: what the user has answered is proposed again.
ToProposalsAgain(items, already) ==
  {[kind |-> items[i].kind, values |-> <<items[i].value>>] :
     i \in {j \in DOMAIN items : items[j].quoted /\ items[j].kind \in Kinds}}

\* What of an answer counts: of a kind asked for, its line in the CVs.
Quoted(items) == SelectSeq(items, LAMBDA i : i.quoted /\ i.kind \in Kinds)

\* The values of a kind, each once, in the order they came.
ValuesOf(items, kind) ==
  FoldLeft(LAMBDA done, i : IF i.kind # kind \/ Contains(done, i.value)
                            THEN done ELSE Append(done, i.value),
           <<>>, Quoted(items))

\* The places make one proposal, in the order they came; of levels the first
\* counts; and what is answered already is left out.
ToProposals(items, already) ==
  LET Single(kind) == {[kind |-> kind, values |-> <<v>>] : v \in ToSet(ValuesOf(items, kind))}
      places == ValuesOf(items, "location")
      levels == ValuesOf(items, "level")
  IN (Single("discipline") \union Single("not_discipline")
      \union (IF places = <<>> THEN {} ELSE {[kind |-> "location", values |-> places]})
      \union (IF levels = <<>> THEN {} ELSE {[kind |-> "level", values |-> <<Head(levels)>>]}))
     \ already

----------------------------------------------------------------------------
(* The run: start_profile_suggestions and its task.                        *)

NextReading(k) ==
  offered[k].status = "absent" /\ \A j \in Readings : j < k => offered[j].status # "absent"

\* One run at a time.
StartReading(k) ==
  /\ NextReading(k)
  /\ \A j \in Readings : offered[j].status # "pending"
  /\ offered' = [offered EXCEPT ![k].status = "pending"]
  /\ readTask' = [readTask EXCEPT ![k] = [status |-> "pending", tries |-> 0]]
  /\ UNCHANGED <<settings, suggester>>

SuggesterAt(k, at) == suggester' = [suggester EXCEPT ![k].at = at]

DeliverReading(k) ==
  /\ readTask[k].status = "pending"
  /\ readTask' = [readTask EXCEPT ![k] = [status |-> "running", tries |-> @.tries + 1]]
  /\ SuggesterAt(k, IF offered[k].status = "pending" THEN "inputs" ELSE "ok")
  /\ UNCHANGED <<settings, offered>>

\* The key, the CVs, and answered_keys of every run.
ReadAnswered(k) ==
  /\ suggester[k].at = "inputs"
  /\ \/ SuggesterAt(k, "refuse")
     \/ \E at \in {"call", "store"} :      \* "store": no CV fits in the call
          suggester' = [suggester EXCEPT ![k] =
            [NoSuggester EXCEPT !.at = at, !.already = UNION {offered[j].answered : j \in Readings}]]
  /\ UNCHANGED <<settings, offered, readTask>>

CallForSettings(k) ==
  /\ suggester[k].at = "call"
  /\ \/ \E items \in ReadAnswers : suggester' = [suggester EXCEPT ![k] =
          [@ EXCEPT !.at = "store", !.proposals = ToProposals(items, suggester[k].already)]]
     \/ \E at \in {"refuse", "fail", "blocked"} : SuggesterAt(k, at)
  /\ UNCHANGED <<settings, offered, readTask>>

StoreSettings(k) ==
  /\ suggester[k].at = "store"
  /\ offered' = [offered EXCEPT ![k] =
       [status |-> "done", open |-> suggester[k].proposals, answered |-> {}]]
  /\ SuggesterAt(k, "ok")
  /\ UNCHANGED <<settings, readTask>>

FailReading(k) ==
  /\ suggester[k].at \in {"refuse", "fail"}
  /\ offered' = [offered EXCEPT ![k].status = "failed"]
  /\ SuggesterAt(k, IF suggester[k].at = "refuse" THEN "permanent" ELSE "error")
  /\ UNCHANGED <<settings, readTask>>

SettleReading(k, status, tries) ==
  /\ readTask' = [readTask EXCEPT ![k] = [status |-> status, tries |-> tries]]
  /\ suggester' = [suggester EXCEPT ![k] = NoSuggester]
  /\ UNCHANGED <<settings, offered>>

AnotherReading(k) == IF readTask[k].tries >= ReadingTries THEN "failed" ELSE "pending"

RecordReading(k) ==
  LET tries == readTask[k].tries IN
  \/ suggester[k].at = "ok"        /\ SettleReading(k, "succeeded", tries)
  \/ suggester[k].at = "permanent" /\ SettleReading(k, "failed", tries)
  \/ suggester[k].at = "error"     /\ SettleReading(k, AnotherReading(k), tries)
  \/ suggester[k].at = "blocked"   /\ SettleReading(k, "pending", tries - 1)

LoseSuggester(k) ==
  suggester[k].at # "none" /\ SettleReading(k, AnotherReading(k), readTask[k].tries)

----------------------------------------------------------------------------
(* The user's own forms, and their answers.                                *)

SaveDisciplines ==
  /\ \E practises, not \in SUBSET Practices :
       settings' = [settings EXCEPT !.practises = practises, !.not = not]
  /\ UNCHANGED <<offered, readTask, suggester>>

SaveConstraints ==
  /\ \E location \in Lists(Places, 1), level \in Levels \union {None} :
       settings' = [settings EXCEPT !.location = location, !.level = level]
  /\ UNCHANGED <<offered, readTask, suggester>>

\* decide: what the profile says already of the same setting.
Agrees(p) ==
  CASE p.kind = "discipline"     -> p.values[1] \in settings.practises
    [] p.kind = "not_discipline" -> p.values[1] \in settings.not
    [] p.kind = "location"       -> settings.location = p.values
    [] p.kind = "level"          -> settings.level = p.values[1]

\* A wrong Conflicts: only the lists of disciplines are looked at.
ConflictsOnLists(p) ==
  /\ ~ Agrees(p)
  /\ CASE p.kind = "discipline"     -> p.values[1] \in settings.not
       [] p.kind = "not_discipline" -> p.values[1] \in settings.practises
       [] p.kind \in {"location", "level"} -> FALSE

Conflicts(p) ==
  /\ ~ Agrees(p)
  /\ CASE p.kind = "discipline"     -> p.values[1] \in settings.not
       [] p.kind = "not_discipline" -> p.values[1] \in settings.practises
       [] p.kind = "location"       -> settings.location # <<>>
       [] p.kind = "level"          -> settings.level # None

\* _with_discipline: a conflict resolved moves the word from list to list.
WithDiscipline(p, replace) ==
  LET word  == p.values[1]
      gone  == IF replace THEN {word} ELSE {}
      add   == [practises |-> IF p.kind = "discipline" THEN {word} ELSE {},
                not |-> IF p.kind = "not_discipline" THEN {word} ELSE {}]
  IN [settings EXCEPT !.practises = (@ \ gone) \union add.practises,
                      !.not = (@ \ gone) \union add.not]

\* applied: the places as the user left them, the level in their own words.
Applied(p, replace) ==
  CASE p.kind \in {"discipline", "not_discipline"} ->
         {IF Agrees(p) THEN settings ELSE WithDiscipline(p, replace)}
    [] p.kind = "location" ->
         {[settings EXCEPT !.location = l] : l \in {p.values} \union (Lists(Places, 1) \ {<<>>})}
    [] p.kind = "level" -> {[settings EXCEPT !.level = v] : v \in Levels}

\* The page shows the newest run.
Shown(k) == \A j \in Readings : j > k => offered[j].status = "absent"

AnswerSetting(k, p) ==
  /\ p \in offered[k].open
  /\ StalePages \/ Shown(k)
  /\ offered' = [offered EXCEPT ![k] =
       [@ EXCEPT !.open = offered[k].open \ {p}, !.answered = offered[k].answered \union {p}]]

\* The profile first, then the proposal; a conflict needs the tick.
AcceptSetting(k, replace) ==
  /\ \E p \in offered[k].open :
       /\ AnswerSetting(k, p)
       /\ ~ replace => ~ Conflicts(p)
       /\ settings' \in Applied(p, replace)
  /\ UNCHANGED <<readTask, suggester>>

RejectSetting(k) ==
  /\ \E p \in offered[k].open : AnswerSetting(k, p)
  /\ UNCHANGED <<settings, readTask, suggester>>

----------------------------------------------------------------------------
SuggestNext ==
  \/ SaveDisciplines \/ SaveConstraints
  \/ \E k \in Readings :
       \/ StartReading(k) \/ DeliverReading(k) \/ ReadAnswered(k) \/ CallForSettings(k)
       \/ StoreSettings(k) \/ FailReading(k) \/ RecordReading(k) \/ LoseSuggester(k)
       \/ RejectSetting(k) \/ \E replace \in BOOLEAN : AcceptSetting(k, replace)

SuggestSpec == SuggestInit /\ [][SuggestNext]_suggestVars

----------------------------------------------------------------------------
(* What must hold.                                                         *)

\* "A setting the user has already stated wins, always": accepting without the
\* tick takes nothing away that the profile states and the proposal contradicts,
\* and no accept, ticked or not, puts a word on both lists.
StatedWins ==
  [][\A k \in Readings, replace \in BOOLEAN : AcceptSetting(k, replace) =>
       /\ settings'.practises \cap settings'.not \subseteq settings.practises \cap settings.not
       /\ ~ replace =>
            \/ \E p \in offered[k].open \ offered'[k].open : Agrees(p)
            \/ /\ settings.practises \subseteq settings'.practises
               /\ settings.not \subseteq settings'.not
               /\ settings.level # None => settings.level = settings'.level
               /\ settings.location # <<>> => settings.location = settings'.location]_suggestVars

\* "A proposal that merely agrees with the profile returns it unchanged, so
\* accepting one is a no-op" (applied).
AgreeingIsNoOp ==
  [][\A k \in Readings, replace \in BOOLEAN :
       /\ AcceptSetting(k, replace)
       /\ \E p \in offered[k].open \ offered'[k].open : Agrees(p)
       => settings' = settings]_suggestVars

\* "No" sticks across runs: what the page offers was answered in no run before,
\* however runs, retries and answers interleave.
NoIsNo ==
  \A k \in Readings : Shown(k) => \A j \in Readings : offered[k].open \cap offered[j].answered = {}
=============================================================================
