------------------------------ MODULE KeyHealth ------------------------------
(***************************************************************************)
(* The user's API key (storage credentials and api_key_health, the         *)
(* worker's account.py and _park, routes/pages, jfl_web.keyhealth). A call *)
(* the account refuses raises the banner and parks the user's model work,  *)
(* which tries again after park_delay, at "Retry now", or as soon as a new *)
(* key is saved; any call that goes through takes the banner down.         *)
(***************************************************************************)
EXTENDS Naturals, FiniteSets

CONSTANTS
  Keys,   \* keys a user may paste
  Works   \* ids of the user's tasks of model kinds

VARIABLES
  stored,   \* the key in user_credentials
  account,  \* what Anthropic says of each key
  health,   \* the status of the user's row of api_key_health
  work,     \* the tasks
  call,     \* call[t]: the key the delivery of t loaded
  crossed,  \* history: deliveries in progress when a key was saved
  refusal   \* history: what parked each task, and whether a call has gone through since

keyVars == <<stored, account, health, work, call, crossed, refusal>>

AccountBlocks == {"credits_exhausted", "invalid_key"}
Healths       == AccountBlocks \union {"ok"}

\* A pending task is due, or later; its note says parked or not.
TaskStates == [at: {"absent", "due", "later", "calling", "refused", "called", "done"},
               parked: BOOLEAN]
Refusals   == [of: Keys, crossed: BOOLEAN, since: BOOLEAN]

KeyTypeOK ==
  /\ stored \in Keys
  /\ account \in [Keys -> Healths]
  /\ health \in Healths
  /\ work \in [Works -> TaskStates]
  /\ call \in [Works -> Keys]
  /\ crossed \subseteq Works
  /\ refusal \in [Works -> Refusals]

KeyInit ==
  /\ stored \in Keys
  /\ account \in [Keys -> Healths]
  /\ health = "ok"
  /\ work = [t \in Works |-> [at |-> "absent", parked |-> FALSE]]
  /\ call = [t \in Works |-> stored]
  /\ crossed = {}
  /\ refusal = [t \in Works |-> [of |-> stored, crossed |-> FALSE, since |-> FALSE]]

----------------------------------------------------------------------------
(* The worker.                                                             *)

Pending(t) == work[t].at \in {"due", "later"}
Moves(t, at) == work' = [work EXCEPT ![t].at = at]

Enqueue(t) ==
  /\ work[t].at = "absent"
  /\ Moves(t, "due")
  /\ UNCHANGED <<stored, account, health, call, crossed, refusal>>

\* load_api_key, before the call and for it only.
Deliver(t) ==
  /\ work[t].at = "due"
  /\ Moves(t, "calling")
  /\ call' = [call EXCEPT ![t] = stored]
  /\ crossed' = crossed \ {t}
  /\ UNCHANGED <<stored, account, health, refusal>>

\* note_model_call, as the call's `runs` row is written.
MarkOk ==
  /\ health' = "ok"
  /\ refusal' = [s \in Works |-> [refusal[s] EXCEPT !.since = TRUE]]

GoesThrough(t) ==
  /\ work[t].at = "calling" /\ account[call[t]] = "ok"
  /\ Moves(t, "called")
  /\ MarkOk
  /\ UNCHANGED <<stored, account, call, crossed>>

\* Done; or what the model said could not be used, and the call is made again later.
HandlerEnds(t) ==
  /\ work[t].at = "called"
  /\ \/ Moves(t, "done")
     \/ work' = [work EXCEPT ![t] = [at |-> "later", parked |-> FALSE]]
  /\ UNCHANGED <<stored, account, health, call, crossed, refusal>>

\* park_for_account: the banner first, in a transaction of its own.
ParkForAccount(t) ==
  /\ work[t].at = "calling" /\ account[call[t]] # "ok"
  /\ Moves(t, "refused")
  /\ health' = account[call[t]]
  /\ refusal' = [refusal EXCEPT ![t].since = FALSE]
  /\ UNCHANGED <<stored, account, call, crossed>>

\* The runner: this task, and the user's others that would be due sooner.
ParkUserTasks(t) ==
  /\ work[t].at = "refused"
  /\ \E others \in SUBSET {s \in Works \ {t} : Pending(s)} :
       /\ {s \in Works \ {t} : work[s].at = "due"} \subseteq others
       /\ work' = [s \in Works |-> IF s = t \/ s \in others
                                   THEN [at |-> "later", parked |-> TRUE] ELSE work[s]]
       /\ refusal' = [s \in Works |->
            IF s = t \/ s \in others
            THEN [of |-> call[t], crossed |-> t \in crossed, since |-> refusal[t].since]
            ELSE refusal[s]]
  /\ UNCHANGED <<stored, account, health, call, crossed>>

DelayPasses(t) ==
  /\ work[t].at = "later"
  /\ Moves(t, "due")
  /\ UNCHANGED <<stored, account, health, call, crossed, refusal>>

----------------------------------------------------------------------------
(* The user, and Anthropic.                                                *)

\* Mutant: those parked for what the banner says, and not for another reason.
ParkedForHealth == {t \in Works : Pending(t) /\ work[t].parked
                                  /\ account[refusal[t].of] = health}

\* count_parked, resume_parked.
Parked == {t \in Works : Pending(t) /\ work[t].parked}

ResumeParked ==
  work' = [t \in Works |-> IF t \in Parked THEN [work[t] EXCEPT !.at = "due"] ELSE work[t]]

SaveApiKey(k) ==
  /\ stored' = k
  /\ health' = "ok"
  /\ ResumeParked
  /\ crossed' = {t \in Works : work[t].at \in {"calling", "refused"}}
  /\ UNCHANGED <<account, call, refusal>>

RetryParkedWork ==
  /\ ResumeParked
  /\ UNCHANGED <<stored, account, health, call, crossed, refusal>>

\* A balance runs out and is topped up; a key is revoked.
AccountChanges(k) ==
  /\ \/ account[k] = "ok" /\ account' = [account EXCEPT ![k] = "credits_exhausted"]
     \/ account[k] = "credits_exhausted" /\ account' = [account EXCEPT ![k] = "ok"]
     \/ account[k] # "invalid_key" /\ account' = [account EXCEPT ![k] = "invalid_key"]
  /\ UNCHANGED <<stored, health, work, call, crossed, refusal>>

KeyNext ==
  \/ \E t \in Works : \/ Enqueue(t) \/ Deliver(t) \/ GoesThrough(t) \/ HandlerEnds(t)
                      \/ ParkForAccount(t) \/ ParkUserTasks(t) \/ DelayPasses(t)
  \/ \E k \in Keys : SaveApiKey(k) \/ AccountChanges(k)
  \/ RetryParkedWork

KeySpec == KeyInit /\ [][KeyNext]_keyVars

----------------------------------------------------------------------------
\* Work held back is held for a refusal of the key that is stored, unless that was
\* saved while the refused delivery was running.
HeldByTheStoredKey ==
  \A t \in Works : work[t].at = "later" /\ work[t].parked =>
    refusal[t].of = stored \/ refusal[t].crossed

\* And it is never held back in silence: the banner is up, unless a call has gone
\* through since, or a key was saved in between.
HeldUnderTheBanner ==
  \A t \in Works : work[t].at = "later" /\ work[t].parked =>
    health # "ok" \/ refusal[t].since \/ refusal[t].crossed

\* By hand (see the README): "this runs as soon as you save a working key"
\* (keyhealth.py). A refusal of the old key that comes in after parks it again.
RunsOnceSaved ==
  \A t \in Works : work[t].at = "later" /\ work[t].parked => refusal[t].of = stored
=============================================================================
