----------------------------- MODULE MCProfile -----------------------------
(* What is recorded of the user, for TLC: the corpus, the                    *)
(* capabilities grouped from it, and the settings read off their CVs. The    *)
(* last meets neither of the others, so a behaviour is of them or of it.     *)
EXTENDS Clusters, TLC

CONSTANTS
  Practices, Places, Levels, Readings, ReadingTries, MaxRead, StalePages,
  c1, c2, r1, r2

ASSUME ReadingsAssumption == Readings \subseteq Nat

VARIABLES about,
  settings, offered, readTask, suggester

S == INSTANCE Suggestions

settingsVars == <<settings, offered, readTask, suggester>>
MCVars == <<profileVars, settingsVars, about>>

MCRoleOf    == <<"eng", "eng", "ops">>
MCAsWritten == <<"a", "b", "b">>

\* See Suggestions.
NoIsNo         == about \in {"lists", "constraints"} => S!NoIsNo
AgreeingIsNoOp == S!AgreeingIsNoOp

\* Where the user has spoken the model's later answer changes nothing: a group they
\* saved keeps its label and depth, a setting they stated its value. See Clusters
\* and Suggestions.
UserOverModel == SavedRowWins /\ S!StatedWins

TypeOK == FactsTypeOK /\ ClustersTypeOK /\ S!SuggestTypeOK

MCInit == /\ ProfileInit /\ S!SuggestInit
          /\ about \in {"corpus", "groups", "lists", "constraints"}

MCNext ==
  /\ \/ /\ about \in {"corpus", "groups"}
        /\ ProfileNext /\ UNCHANGED settingsVars
     \/ /\ about \in {"lists", "constraints"}
        /\ S!SuggestNext /\ UNCHANGED profileVars
  /\ UNCHANGED about

MCSpec == MCInit /\ [][MCNext]_MCVars

----------------------------------------------------------------------------
(* Bounds.                                                                 *)

\* The corpus and nothing made of it, with one CV delivered twice or two once; or
\* its lines as the model wrote them, read once, and then what they are grouped into.
CorpusOrGroups ==
  /\ about = "corpus" =>
       /\ profile.has = {} /\ \A k \in Runs : run[k].status = "absent"
       /\ cv[c2] # "absent" => /\ cv[c1] = "done" /\ cvTask[c1].status = "succeeded"
                               /\ cvTask[c1].tries = 1 /\ cvTask[c2].tries <= 1
                               /\ told = {} /\ profile.depth = None
  /\ about = "groups" =>
       /\ profile.depth = None /\ told = {} /\ Cardinality(profile.has) <= 1
       /\ \A f \in Facts : fact[f].text = None
       /\ \A f \in Asks : fact[f].state = "absent"
       /\ cv[c2] = "absent" /\ cvTask[c1].tries <= 1 /\ cv[c1] # "failed"
       /\ \A k \in Runs : run[k].status # "absent" => cvTask[c1].status = "succeeded"

\* Settings of one sort, as neither is compared with the other.
Keys == UNION {offered[k].open \union offered[k].answered \union suggester[k].proposals : k \in Readings}
OneSort ==
  /\ about = "lists" =>
       /\ settings.location = <<>> /\ settings.level = None
       /\ \A key \in Keys : key.kind \in {"discipline", "not_discipline"}
  /\ about = "constraints" =>
       /\ settings.practises = {} /\ settings.not = {}
       /\ \A key \in Keys : key.kind \in {"location", "level"}

Bounds == CorpusOrGroups /\ OneSort
=============================================================================
