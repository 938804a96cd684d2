----------------------------- MODULE MCAccount -----------------------------
(* What a user asks the model for by the way, for TLC: titles for the saved  *)
(* filter, answers to an application's questions; the API key they are asked *)
(* with; and signing in and out. A behaviour is of one of the four.          *)
EXTENDS TLC, Sessions

CONSTANTS u, v, s1, w, q1, q2, t1, t2, k1, k2, MaxTries,
  Vocabulary, Accepts, MaxSuggestions, MaxAsked, MaxTyped,  \* of Titles
  Attempts, Deliveries, Typed, Drafted,                     \* of Answers
  Keys, Works                                               \* of KeyHealth

VARIABLES
  mode, hasKey,
  saved, row, task, thread, accepting, wanted, spent,       \* of Titles
  required, attempt, queued, delivery, wrote, swept,        \* of Answers
  stored, account, health, work, call, crossed, refusal     \* of KeyHealth

T == INSTANCE Titles
A == INSTANCE Answers
K == INSTANCE KeyHealth
LOCAL INSTANCE FiniteSets

\* None is nothing else.
ASSUME NoneAssumption == None \notin Typed \union Drafted \union A!Kinds \union T!JobFilters
ASSUME TriesAssumption == MaxTries \in Nat \ {0}

titlesVars  == <<saved, row, task, thread, accepting, wanted, spent>>
answersVars == <<required, attempt, queued, delivery, wrote, swept>>
keyVars     == <<stored, account, health, work, call, crossed, refusal>>
MCVars == <<mode, hasKey, titlesVars, answersVars, keyVars, sessionsVars>>

\* What a behaviour is not of is as before anything is there.
TitlesIdle  == T!TitlesInit
AnswersIdle == A!AnswersInit /\ ~required
KeyIdle     == K!KeyInit /\ stored = k1 /\ account = [k \in Keys |-> "ok"]

MCInit ==
  /\ SessionsInit
  /\ \/ mode = "titles" /\ T!TitlesInit /\ AnswersIdle /\ KeyIdle
     \/ mode = "answers" /\ A!AnswersInit /\ TitlesIdle /\ KeyIdle
     \/ mode = "key" /\ K!KeyInit /\ hasKey = FALSE /\ TitlesIdle /\ AnswersIdle
     \/ mode = "visit" /\ hasKey = FALSE /\ TitlesIdle /\ AnswersIdle /\ KeyIdle

MCNext ==
  /\ UNCHANGED mode
  /\ \/ mode = "titles" /\ T!TitlesNext /\ UNCHANGED <<answersVars, keyVars, sessionsVars>>
     \/ mode = "answers" /\ A!AnswersNext /\ UNCHANGED <<titlesVars, keyVars, sessionsVars>>
     \/ mode = "key" /\ K!KeyNext /\ UNCHANGED <<hasKey, titlesVars, answersVars, sessionsVars>>
     \/ mode = "visit" /\ SessionsNext /\ UNCHANGED <<hasKey, titlesVars, answersVars, keyVars>>

MCSpec == MCInit /\ [][MCNext]_MCVars

\* A title enters the filter by the user's hand, and is asked for once: see Titles.
TitlesAreChosen ==
  mode = "titles" => T!OnlyChosenTitles /\ T!AskedOnce /\ T!WaitingHasTask

\* A verdict is of the words beside it, and one waited for comes: see Answers.
VerdictIsOfItsText == mode = "answers" => A!VerdictIsOfItsText /\ A!WaitingHasTask

\* Work is held back by the key that is stored, and says so; and a request is made as
\* who signed in, until they sign out and no longer: see KeyHealth and Sessions.
AccountIsTheUsers ==
  /\ mode = "key" => K!HeldByTheStoredKey /\ K!HeldUnderTheBanner
  /\ mode = "visit" => /\ SignedInAsWhoCame /\ EndedStaysEnded
                       /\ UsedIsKept /\ FormsGoHome

----------------------------------------------------------------------------
\* Bound: two phrases; and of tasks unfinished, tasks that failed once and presses
\* in progress, two at a time.
OneTroubled == mode = "titles" =>
  LET Troubled == {p \in T!Titles : task[p].tries > 1 \/ spent[p].died > 0
                                                    \/ row[p].status = "failed"}
  IN /\ Cardinality({p \in T!Titles : row[p].status # "absent"}) <= 2
     /\ Cardinality({p \in T!Titles : task[p].status \in {"pending", "running"}})
        + Cardinality(Troubled) + Cardinality({a \in Accepts : accepting[a].at = "read"}) <= 2

\* Bound: one session with a page open or ended by hand, or one account deactivated.
OneInvolved == mode = "visit" =>
  Cardinality({a \in Accounts : user[a] # None /\ ~user[a].active})
    + Cardinality(ended \union pages) <= 1

AccountSymmetry == Permutations(Deliveries) \union Permutations(Attempts)
=============================================================================
