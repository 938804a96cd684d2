------------------------------- MODULE Calls -------------------------------
(***************************************************************************)
(* One task that calls the model, from its first attempt to its last: the  *)
(* ladder every call site has in common (jfl_generate.*, jfl_gate.gate,    *)
(* jfl_core.model_api), the row that records what was paid for, the        *)
(* banner, and what each handler gives up on (jfl_worker.account and       *)
(* `_classify` in each of jfl_worker.handlers).  What an answer then does  *)
(* to the user's data is in the modules of its component.                  *)
(***************************************************************************)
EXTENDS Integers, Sequences, FiniteSets

CONSTANTS
  MaxAttempts,  \* attempts a task has
  Failures,     \* bound: what the API may refuse a call for
  MaxCalls,     \* bound: calls there is a reply to
  Priced,       \* whether the model has a price (jfl_gate.pricing)
  NoRow

AccountBlocks   == {"credits_exhausted", "invalid_key", "permission_denied"}
ApiFailureKinds == AccountBlocks \union
  {"rate_limited", "overloaded", "server_error", "connection", "bad_request", "not_found", "other"}

ASSUME CallsAssumption ==
  /\ MaxAttempts \in Nat \ {0} /\ MaxCalls \in Nat /\ Priced \in BOOLEAN
  /\ Failures \subseteq ApiFailureKinds
  /\ NoRow \notin [outcome : {"ok", "refused", "error"}, billed : BOOLEAN]

----------------------------------------------------------------------------
(* The call sites: what raises before the call, and whether an answer that *)
(* parses can be turned down before its row is written ("misfit") or only  *)
(* after ("late").  The body is the same everywhere: Ask and Record.       *)

Site(needs, misfit, late) == [needs |-> needs, rejects |-> misfit \union late, late |-> late]
Misfit == {"misfit"}
Late   == {"late"}

ExtractCall  == Site("no_text", {}, {})
CoverageCall == Site("no_requirements", Misfit, {})
ScoreCall    == Site("no_requirements", {}, {})
DraftCall    == Site("no_coverage", {}, {})
CvCall       == Site("no_coverage", {}, {})
GateCall     == Site("no_sentences", Misfit, {})
CvGateCall   == Site("no_sentences", Misfit, Late)
CvFactsCall  == Site("no_cv_text", {}, {})
PushbackCall == Site("no_words", {}, {})
ClusterCall  == Site("no_facts", {}, {})
SettingsCall == Site("no_cv", {}, {})
TitlesCall   == Site("no_phrase", {}, {})
AssessCall   == Site("no_words", {}, Late)
AnswerCall   == Site("nothing", {}, Late)

\* What no handler retries, next to which each has its own.
Final == {"invalid_key", "permission_denied", "refused", "bad_request"}

Extraction == [calls |-> <<ExtractCall>>, final |-> Final \union {"truncated", "no_text"}]
Coverage   == [calls |-> <<CoverageCall>>, final |-> Final \union {"no_requirements"}]
Scoring    == [calls |-> <<ScoreCall>>, final |-> Final \union {"truncated", "no_requirements"}]
\* A wrong Drafting: the retry is left to the queue.
DraftingRetried == [calls |-> <<DraftCall, GateCall>>, final |-> {"no_coverage"}]
Drafting   == [calls |-> <<DraftCall, GateCall>>, final |-> Final \union {"truncated", "no_coverage"}]
CvDrafting == [calls |-> <<CvCall, CvGateCall>>,
               final |-> Final \union {"truncated", "no_coverage", "late"}]
CvFacts    == [calls |-> <<CvFactsCall>>, final |-> Final \union {"truncated", "no_cv_text"}]
EditsCheck == [calls |-> <<GateCall>>, final |-> Final \union {"truncated"}]
Pushback   == [calls |-> <<PushbackCall>>, final |-> Final]
Clustering == [calls |-> <<ClusterCall>>, final |-> Final \union {"truncated"}]
Settings   == [calls |-> <<SettingsCall>>, final |-> Final \union {"truncated"}]
Suggesting == [calls |-> <<TitlesCall>>, final |-> Final]
Checking   == [calls |-> <<GateCall, AssessCall>>, final |-> Final \union {"truncated"}]
Answering  == [calls |-> <<AnswerCall, GateCall>>, final |-> Final \union {"truncated"}]

Handlers == {Extraction, Coverage, Scoring, Drafting, CvDrafting, CvFacts, EditsCheck, Pushback,
             Clustering, Settings, Suggesting, Checking, Answering}

----------------------------------------------------------------------------
VARIABLES
  handler,  \* which handler's task it is, and which of its calls cannot be made
  task,     \* its queue row, and how often its process died
  place,    \* which call its thread is place, and how far
  calls,    \* what was replied to each call, and the row it left
  account,  \* what the API has against the account, if anything
  health    \* what the banner says

callsVars == <<handler, task, place, calls, account, health>>

\* compute_cost_usd: an answer is billed; a refusal by the API is not.
Billed(reply) == reply \notin ApiFailureKinds

\* RunRecord
Outcome(site, reply) ==
  IF reply = "refused" THEN "refused"
  ELSE IF reply = "ok" \/ reply \in site.late THEN "ok" ELSE "error"

Idle == [step |-> 0, on |-> "idle"]
Call == handler.of.calls[place.step]
LastCall == calls[Len(calls)]

CallsInit ==
  /\ handler \in UNION {[of : {h}, missing : 0..Len(h.calls)] : h \in Handlers}
  /\ task = [status |-> "pending", attempts |-> 0, deaths |-> 0]
  /\ place = Idle
  /\ calls = <<>>
  /\ account \in {"ok"} \union (Failures \intersect AccountBlocks)
  /\ health = "ok"

\* Of the queue: a claim, an attempt that failed, a task given back unspent.
Claim ==
  /\ task.status = "pending" /\ Len(calls) < MaxCalls
  /\ task' = [task EXCEPT !.status = "running", !.attempts = @ + 1]
  /\ place' = [step |-> 1, on |-> "asks"]
  /\ UNCHANGED <<handler, calls, account, health>>

EndsWith(permanent, deaths) ==
  /\ place' = Idle
  /\ task' = [task EXCEPT !.deaths = @ + deaths, !.status =
       IF permanent \/ task.attempts >= MaxAttempts THEN "failed" ELSE "pending"]
Ends(permanent) == EndsWith(permanent, 0)

\* The call is not made: raised with no row, and with nothing paid.
Missing ==
  /\ place.on = "asks" /\ handler.missing = place.step
  /\ Ends(Call.needs \in handler.of.final)
  /\ UNCHANGED <<handler, calls, account, health>>

\* messages.create, and what comes of it: classify_api_error, or an answer.
Ask ==
  /\ place.on = "asks" /\ handler.missing # place.step /\ Len(calls) < MaxCalls
  /\ \E reply \in IF account # "ok" THEN {account}
                  ELSE (Failures \ AccountBlocks) \union Call.rejects
                       \union {"refused", "truncated", "unparseable", "ok"} :
       calls' = Append(calls, [step |-> place.step, reply |-> reply, row |-> NoRow, died |-> FALSE])
  /\ place' = [place EXCEPT !.on = "answered"]
  /\ UNCHANGED <<handler, task, account, health>>

\* A wrong Record: what could not be used is not written down.
RecordUsable ==
  /\ place.on = "answered"
  /\ calls' = [calls EXCEPT ![Len(calls)].row =
       IF LastCall.reply # "ok" THEN NoRow ELSE [outcome |-> "ok", billed |-> TRUE]]
  /\ place' = [place EXCEPT !.on = "recorded"]
  /\ UNCHANGED <<handler, task, account, health>>

\* `record`, in a transaction of its own; for a model without a price there is
\* nothing to record, and the exception is nobody's.
Record ==
  /\ place.on = "answered"
  /\ IF Billed(LastCall.reply) /\ ~Priced
     THEN Ends(FALSE) /\ UNCHANGED calls
     ELSE /\ calls' = [calls EXCEPT ![Len(calls)].row =
               [outcome |-> Outcome(Call, LastCall.reply), billed |-> Billed(LastCall.reply)]]
          /\ place' = [place EXCEPT !.on = "recorded"]
          /\ UNCHANGED task
  /\ UNCHANGED <<handler, account, health>>

\* note_model_call: what was billed or not an error went through.
NoteModelCall ==
  /\ place.on = "recorded"
  /\ health' = IF LastCall.row.outcome = "error" /\ ~LastCall.row.billed THEN health ELSE "ok"
  /\ place' = [place EXCEPT !.on = "noted"]
  /\ UNCHANGED <<handler, task, calls, account>>

\* On to the next call (of a CV without a line there is no second), or the end.
Succeeds ==
  /\ place.on = "noted" /\ LastCall.reply = "ok"
  /\ IF place.step = Len(handler.of.calls)
     THEN task' = [task EXCEPT !.status = "done"] /\ place' = Idle
     ELSE \/ place' = [step |-> place.step + 1, on |-> "asks"] /\ UNCHANGED task
          \/ /\ Call = CvCall /\ handler.of = CvDrafting
             /\ task' = [task EXCEPT !.status = "done"] /\ place' = Idle
  /\ UNCHANGED <<handler, calls, account, health>>

\* A wrong Blocked: with the key at fault, and not the balance, there is no banner.
BlockedByCredits == LastCall.reply = "credits_exhausted"

\* blocked_by_account
Blocked == LastCall.reply \in AccountBlocks

\* park_for_account: the banner first, in its own transaction.
MarkBlocked ==
  /\ place.on = "noted" /\ Blocked
  /\ health' = LastCall.reply
  /\ place' = [place EXCEPT !.on = "parks"]
  /\ UNCHANGED <<handler, task, calls, account>>
Park ==
  /\ place.on = "parks"
  /\ place' = Idle
  /\ task' = [task EXCEPT !.status = "pending", !.attempts = @ - 1]
  /\ UNCHANGED <<handler, calls, account, health>>

\* `_classify`: final for this handler, or for the queue to retry.
Fails ==
  /\ place.on = "noted" /\ LastCall.reply # "ok" /\ ~Blocked
  /\ Ends(LastCall.reply \in handler.of.final)
  /\ UNCHANGED <<handler, calls, account, health>>

\* The process dies, and the sweep takes the task for another attempt.
Dies ==
  /\ place.on # "idle"
  /\ EndsWith(FALSE, 1)
  /\ calls' = IF place.on = "asks" THEN calls
              ELSE [calls EXCEPT ![Len(calls)].died = TRUE]
  /\ UNCHANGED <<handler, account, health>>

\* The user pays, or replaces a key at Anthropic; or credits run out, perhaps between
\* two calls of one attempt.
AccountTurns ==
  /\ place.on \in {"idle", "asks"} /\ task.status \in {"pending", "running"}
  /\ account' \in {"ok"} \union (Failures \intersect AccountBlocks)
  /\ account' # account
  /\ UNCHANGED <<handler, task, place, calls, health>>

CallsNext == \/ Claim \/ Missing \/ Ask \/ Record \/ NoteModelCall \/ Succeeds
             \/ MarkBlocked \/ Park \/ Fails \/ Dies \/ AccountTurns

----------------------------------------------------------------------------
(* Properties.                                                             *)

\* "A `runs` row is the record that money was spent": every call has its row, which
\* says what was paid, once the reply is in, whatever then becomes of the task; but
\* for a process that dies with the reply in hand.
OnTheBooks == \A n \in DOMAIN calls :
  IF calls[n].row = NoRow
  THEN calls[n].died \/ (n = Len(calls) /\ place.on = "answered")
  ELSE /\ calls[n].row.billed <=> Billed(calls[n].reply)
       /\ calls[n].reply = "ok" => calls[n].row.outcome = "ok"

\* What would come back the same way is not paid for again, unless the process died
\* before it was taken in.  (Three handlers try again for an answer cut short.)
Hopeless == {"refused", "bad_request"} \union
  IF handler.of \in {Coverage, Pushback, Suggesting} THEN {} ELSE {"truncated"}
NotPaidAgain == \A n \in 1..(Len(calls) - 1) :
  calls[n].reply \in Hopeless => calls[n].died

\* Each call is made once an attempt at most, and is not made again once there is no
\* attempt left; what uses an attempt is a death or a failure that is not the account's.
\* (An attempt given back is made again whole: a call that went through is paid for once
\* more for each later one that was refused for the account.)
AttemptsAreCounted ==
  /\ task.attempts \in 0..MaxAttempts
  /\ \A s \in DOMAIN handler.of.calls :
       Cardinality({n \in DOMAIN calls : calls[n].step = s /\ calls[n].reply \notin AccountBlocks})
         <= MaxAttempts
              + Cardinality({n \in DOMAIN calls : calls[n].step > s /\ calls[n].reply \in AccountBlocks})
  /\ task.status \in {"pending", "failed"} /\ handler.missing = 0 /\ Priced =>
       task.attempts = task.deaths + Cardinality({n \in DOMAIN calls :
         ~calls[n].died /\ calls[n].reply \notin AccountBlocks \union {"ok"}})

\* The banner is up while the task is held back for the account, and names the
\* reason of the last refusal; it is down once the task is done; and no task fails
\* for the account alone.
BannerIsTrue ==
  /\ task.status = "pending" /\ calls # <<>> /\ ~LastCall.died /\ LastCall.reply \in AccountBlocks =>
       health = LastCall.reply
  /\ task.status = "done" => health = "ok"
  /\ task.status = "failed" /\ calls # <<>> /\ LastCall.reply \in AccountBlocks => task.deaths > 0

\* By hand (see the README): jfl_core.model_api counts "not_found" among what "will
\* fail the same way again"; every handler tries it again.
NotFoundIsFinal == \A n \in 1..(Len(calls) - 1) :
  calls[n].reply = "not_found" => calls[n].died
=============================================================================
