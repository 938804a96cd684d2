---------------------------- MODULE TaskLifecycle ----------------------------
(***************************************************************************)
(* What the queue promises the rest of the program about each task, with   *)
(* no worker, clock, lock or crash in sight (tasks.py, module docstring):  *)
(*                                                                         *)
(*   - delivery is at-least-once: a task may be handed out again, but each *)
(*     hand-out spends one of MaxAttempts tries, and only a refusal to run *)
(*     gives a try back;                                                   *)
(*   - its handler runs only while it is handed out, on one thread at a    *)
(*     time, and nothing moves a task whose handler is still running;      *)
(*   - it ends done or given up, and then nothing happens to it again.     *)
(*                                                                         *)
(* Worker, whose handlers keep within the visibility timeout, implements   *)
(* it (Worker!Implements, and WorkerProofs).                               *)
(***************************************************************************)
EXTENDS Integers

CONSTANTS Tasks, MaxAttempts

VARIABLES
  status,   \* status[t]: absent, pending, running, succeeded or failed
  tries,    \* tries[t]: how many hand-outs have been charged
  doing     \* the tasks whose handler is running

lifeVars == <<status, tries, doing>>

Settled == {"succeeded", "failed"}

\* What one task may go through in a step: its status and tries, from / to.
Posted(t)    == status[t] = "absent" /\ status'[t] = "pending" /\ tries'[t] = 0

HandedOut(t) == /\ status[t] = "pending" /\ status'[t] = "running"
                /\ tries[t] < MaxAttempts
                /\ tries'[t] = tries[t] + 1

TakenBack(t) == /\ status[t] = "running" /\ status'[t] = "pending"
                /\ tries[t] < MaxAttempts
                /\ tries'[t] = tries[t]

Refused(t)   == /\ status[t] = "running" /\ status'[t] = "pending"
                /\ tries[t] > 0
                /\ tries'[t] = tries[t] - 1

Ended(t)     == /\ status[t] = "running" /\ status'[t] \in Settled
                /\ tries'[t] = tries[t]

Kept(t)      == status'[t] = status[t] /\ tries'[t] = tries[t]

\* The queue moves tasks, several at once, but none whose handler runs.
Move ==
  /\ \A t \in Tasks :
       \/ Kept(t)
       \/ Posted(t)
       \/ /\ t \notin doing
          /\ HandedOut(t) \/ TakenBack(t) \/ Refused(t) \/ Ended(t)
  /\ UNCHANGED doing

\* A handler starts, on a task handed out and on no other thread.
Begin(t) ==
  /\ status[t] = "running"
  /\ t \notin doing
  /\ doing' = doing \union {t}
  /\ \A s \in Tasks : Kept(s)

\* Handlers end, by returning or with their process.
End ==
  /\ doing' \subseteq doing
  /\ \A s \in Tasks : Kept(s)

LifeInit ==
  /\ \A t \in Tasks : status[t] = "absent" /\ tries[t] = 0
  /\ doing = {}

LifeNext == Move \/ End \/ \E t \in Tasks : Begin(t)

LifeSpec == LifeInit /\ [][LifeNext]_lifeVars
============================================================================
