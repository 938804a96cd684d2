------------------------------ MODULE MCWorker ------------------------------
(* Small instances of Worker for TLC: users, kinds and bounds.              *)
EXTENDS Worker, TLC

CONSTANTS w1, w2, s1, s2, sys, ana, purge, score, digest

MCTasks1 == 1..1
MCTasks2 == 1..2
MCTasks3 == 1..3
MCModelKinds == {score}
MCPlainKinds == {purge}
PlainOnly == {purge, digest}
NoModelKinds == {}

\* What racing workers may overshoot is bounded by their number, crashes and
\* orphans included: the soft per-user cap of claim, and the maintenance rows of
\* enqueue_unique, which is a duplicate suppressor and not a lock.
OvershootBounded == CapHolds /\ RecurringBounded

\* A free thread is neither forgotten, a wake-up being missed, nor promised to two
\* tasks: see Worker.
FreeThreadsAreUsed == NoMissedWake /\ ClaimsFitSlots

\* Workers and threads are interchangeable; nothing orders them.
WorkerSymmetry == Permutations(Workers) \union Permutations(Slots)
=============================================================================
