-------------------------------- MODULE News --------------------------------
(***************************************************************************)
(* What happened on a user's boards, as the job feed and the emailed digest  *)
(* read it (PostgresBoardRepository.events_since): an event carries the time *)
(* its check's fetch ended, and can be read from the commit of that check,   *)
(* some time later. Boards is about how events come to be.                   *)
(***************************************************************************)
EXTENDS Integers, FiniteSets

CONSTANTS
  Events,    \* things that may happen to a job
  Edited,    \* bound: those the filter may come to hide or let through
  None,      \* no time, no mark
  MaxLag,    \* the longest a check takes from its stamp to its commit
  MaxNow     \* bound: the clock

ASSUME NewsAssumption ==
  /\ Edited \subseteq Events
  /\ MaxLag \in Nat
  /\ MaxNow \in Nat
  /\ None \notin Nat

VARIABLES
  now,
  at,        \* when each event is stamped as having happened, or None
  there,     \* the events committed
  passes     \* the events whose jobs the saved filter lets through

newsVars == <<now, at, there, passes>>

NewsTypeOK ==
  /\ now \in 0..MaxNow
  /\ \A e \in Events : at[e] # None => at[e] \in 0..now
  /\ there \subseteq {e \in Events : at[e] # None}
  /\ passes \subseteq Events

NewsInit ==
  /\ now = 0
  /\ at = [e \in Events |-> None]
  /\ there = {}
  /\ passes = Events

EventsSince(since) == {e \in there : at[e] > since}

\* A check's fetch ends and stamps what it found, ...
Stamp(e) ==
  /\ at[e] = None
  /\ at' = [at EXCEPT ![e] = now]
  /\ UNCHANGED <<now, there, passes>>

\* ... and its transaction commits.
Commit(e) ==
  /\ at[e] # None /\ e \notin there
  /\ there' = there \union {e}
  /\ UNCHANGED <<now, at, passes>>

\* The saved filter or an exception is edited.
EditFilter ==
  /\ \E e \in Edited : passes' = IF e \in passes THEN passes \ {e} ELSE passes \union {e}
  /\ UNCHANGED <<now, at, there>>

\* Time passes, but no check is kept from its commit for longer than MaxLag.
Tick ==
  /\ now < MaxNow
  /\ \A e \in Events \ there : at[e] # None => now < at[e] + MaxLag
  /\ now' = now + 1
  /\ UNCHANGED <<at, there, passes>>
=============================================================================
