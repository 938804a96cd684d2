------------------------------- MODULE Digest -------------------------------
(***************************************************************************)
(* The emailed digest: the opt-in row and the send log                       *)
(* (jfl_core.storage.digest), the pass that queues a send for each user due   *)
(* one, the send_digest and send_test_email handlers, and what a digest       *)
(* covers (jfl_intake.digest). A send reads its window in one transaction,    *)
(* mails with none open, and moves the cursor in another; the task may be     *)
(* lost and delivered again at any point between.                             *)
(***************************************************************************)
EXTENDS News

CONSTANTS
  Sends,           \* unfinished send_digest tasks there can be at once
  MailAttempts,    \* their max_attempts
  Settle,          \* digest.SETTLE
  Period,          \* from one digest hour to the next
  Backoff,         \* handlers.digest.RETRY_BACKOFF
  HeartbeatEvery   \* digest.HEARTBEAT_EVERY, its slack taken off

ASSUME DigestAssumption ==
  /\ {MailAttempts, Settle, Backoff, HeartbeatEvery} \subseteq Nat
  /\ Period \in Nat \ {0}
  /\ MaxLag < Settle

VARIABLES
  settings,    \* the user's digest_settings row, or None before the first opt-in
  lastSend,    \* the latest sent_at in email_sends, or None
  lastTask,    \* created_at of the latest send_digest task, or None
  send,        \* the unfinished send_digest tasks and their handlers' locals
  \* history, for the properties:
  settled,     \* events in the window of a run that completed, or hidden by the filter then
  mailed,      \* events mailed
  twice,       \* events mailed again
  unlogged     \* events mailed by a delivery that ended before it was recorded

digestVars == <<settings, lastSend, lastTask, send, settled, mailed, twice, unlogged>>

NoSend == [pc |-> "idle", tries |-> 0, now |-> 0, since |-> 0, found |-> {}, listed |-> {},
           kind |-> "none", sent |-> None]

\* The user's row of digest_settings.
SettingsRows == [enabled : BOOLEAN, opted : 0..MaxNow, upTo : 0..MaxNow, evaluated : 0..MaxNow]

DigestTypeOK ==
  /\ settings \in SettingsRows \union {None}
  /\ {lastSend, lastTask} \subseteq 0..MaxNow \union {None}
  /\ \A s \in Sends : /\ send[s].pc \in {"idle", "queued", "gathered", "mailed"}
                      /\ send[s].tries \in 0..MailAttempts
                      /\ send[s].listed \subseteq send[s].found
                      /\ send[s].kind \in {"none", "digest", "heartbeat"}
                      /\ send[s].sent \in 0..MaxNow \union {None}

DigestInit ==
  /\ settings = None /\ lastSend = None /\ lastTask = None
  /\ send = [s \in Sends |-> NoSend]
  /\ settled = {} /\ mailed = {} /\ twice = {} /\ unlogged = {}

On == settings # None /\ settings.enabled

Greater(a, b) == IF a > b THEN a ELSE b

-----------------------------------------------------------------------------
(* Opting in and out.                                                       *)

Enable ==
  /\ ~On
  /\ settings' = [enabled |-> TRUE, opted |-> now, upTo |-> now, evaluated |-> now]
  /\ UNCHANGED <<lastSend, lastTask, send, settled, mailed, twice, unlogged>>

Disable ==
  /\ On
  /\ settings' = [settings EXCEPT !.enabled = FALSE]
  /\ UNCHANGED <<lastSend, lastTask, send, settled, mailed, twice, unlogged>>

-----------------------------------------------------------------------------
(* The scheduling pass.                                                     *)

\* The most recent digest hour.
LatestDue(time) == Period * (time \div Period)

\* Mutant: a run that has begun does not count as unfinished.
NoneUnfinishedYet == \A s \in Sends : send[s].pc # "queued"
NoneUnfinished == \A s \in Sends : send[s].pc = "idle"

\* due_users, then enqueue_unique. (Two passes at one instant may queue two sends;
\* Worker.RecurringBounded is about how many passes there can be.)
Schedule ==
  /\ On
  /\ settings.evaluated < LatestDue(now)
  /\ lastTask # None => lastTask <= now - Backoff
  /\ NoneUnfinished
  /\ \E s \in Sends : send[s].pc = "idle" /\ send' = [send EXCEPT ![s] = [NoSend EXCEPT !.pc = "queued"]]
  /\ lastTask' = now
  /\ UNCHANGED <<settings, lastSend, settled, mailed, twice, unlogged>>

-----------------------------------------------------------------------------
(* send_digest.                                                             *)

\* Mutant: the window runs up to the run's own start.
UntilNow(time) == time
Until(time) == time - Settle

\* plan_digest: the events in the window the filter lets through; a heartbeat when
\* there are none and no mail for long enough; or silence. `watching`: the user has a
\* board; `troubled`: some board's latest check in the window did not complete. (Of
\* many events the mail lists the first MAX_JOBS_LISTED and counts the others.)
PlanKind(listed, watching, troubled, until) ==
  IF ~watching THEN "none"
  ELSE IF listed # {} \/ troubled THEN "digest"
  ELSE IF lastSend = None \/ until - lastSend >= HeartbeatEvery THEN "heartbeat"
  ELSE "none"

\* The first transaction. Nothing to do ends the task.
Gather(s) ==
  /\ send[s].pc = "queued"
  /\ IF On /\ Until(now) > settings.upTo
     THEN LET found  == {e \in EventsSince(settings.upTo) : at[e] <= Until(now)}
              listed == found \intersect passes
          IN \E watching, troubled \in BOOLEAN :
               /\ found # {} \/ troubled => watching
               /\ send' = [send EXCEPT ![s] =
                 [NoSend EXCEPT !.pc = "gathered", !.tries = send[s].tries + 1, !.now = now,
                                !.found = found, !.listed = listed,
                                !.kind = PlanKind(listed, watching, troubled, Until(now))]]
     ELSE send' = [send EXCEPT ![s] = NoSend]
  /\ UNCHANGED <<settings, lastSend, lastTask, settled, mailed, twice, unlogged>>

\* The mail server takes the message.
Mail(s) ==
  /\ send[s].pc = "gathered" /\ send[s].kind # "none"
  /\ send' = [send EXCEPT ![s].pc = "mailed", ![s].sent = now]
  /\ mailed' = mailed \union send[s].listed
  /\ twice' = twice \union (send[s].listed \intersect mailed)
  /\ UNCHANGED <<settings, lastSend, lastTask, settled, unlogged>>

\* The server will never take it: the task fails for good.
Refuse(s) ==
  /\ send[s].pc = "gathered" /\ send[s].kind # "none"
  /\ send' = [send EXCEPT ![s] = NoSend]
  /\ UNCHANGED <<settings, lastSend, lastTask, settled, mailed, twice, unlogged>>

\* complete_run: the log, and the cursor unless the user has opted out meanwhile.
\* (AdvancedBack, a mutant: the run that ends last sets it.)
AdvancedBack(time) == [settings EXCEPT !.upTo = Until(time), !.evaluated = time]
Advanced(time) == [settings EXCEPT !.upTo = Greater(@, Until(time)), !.evaluated = Greater(@, time)]

Complete(s) ==
  /\ send[s].pc = IF send[s].kind = "none" THEN "gathered" ELSE "mailed"
  /\ settings' = IF settings.enabled THEN Advanced(send[s].now) ELSE settings
  /\ lastSend' = IF send[s].kind = "none" \/ (lastSend # None /\ lastSend > send[s].sent)
                 THEN lastSend ELSE send[s].sent
  /\ settled' = settled \union send[s].found
  /\ send' = [send EXCEPT ![s] = NoSend]
  /\ UNCHANGED <<lastTask, mailed, twice, unlogged>>

Retry(s) == IF send[s].tries < MailAttempts THEN [NoSend EXCEPT !.pc = "queued", !.tries = send[s].tries]
            ELSE NoSend

\* The worker dies, the server fails, or a transaction fails: delivered again
\* while attempts are left.
LoseSend(s) ==
  /\ send[s].pc \in {"gathered", "mailed"}
  /\ send' = [send EXCEPT ![s] = Retry(s)]
  /\ unlogged' = IF send[s].pc = "mailed" THEN unlogged \union send[s].listed ELSE unlogged
  /\ UNCHANGED <<settings, lastSend, lastTask, settled, mailed, twice>>

\* send_test_email: logged, and nothing else moves.
SendTest ==
  /\ lastSend' = now
  /\ UNCHANGED <<settings, lastTask, send, settled, mailed, twice, unlogged>>

DigestNext ==
  /\ \/ Enable \/ Disable \/ Schedule \/ SendTest
     \/ \E s \in Sends : Gather(s) \/ Mail(s) \/ Refuse(s) \/ Complete(s) \/ LoseSend(s)
  /\ UNCHANGED newsVars

-----------------------------------------------------------------------------
(* Properties.                                                              *)

\* The cursor passes no event it has not covered: what was stamped since the opt-in
\* and is behind the cursor was in the window of a run that completed (SETTLE, and
\* the cursor that never moves past the end of a window).
DigestMissesNothing ==
  settings # None => \A e \in there :
    at[e] > settings.opted /\ at[e] <= settings.upTo => e \in settled

\* An event is mailed a second time only if a delivery that mailed it ended before it
\* could record so (the order of send, then record, in _send_digest).
MailedTwiceOnlyIfLost == twice \subseteq unlogged

\* A run that began before an opt-out and an opt-in cannot take the cursor back to
\* before them: a digest covers the time since opting in, never the history (enable).
NeverTheHistory ==
  settings # None => /\ settings.enabled => settings.upTo >= settings.opted
                     /\ settings.upTo <= settings.evaluated
=============================================================================
