----------------------------- MODULE MCPipeline -----------------------------
(* Small instances of Pipeline for TLC: ads and how many tasks there are.    *)
EXTENDS Pipeline, FiniteSets

CONSTANTS a1, a2

MCTasks1 == 1..1
MCTasks3 == 1..3
MCTasks4 == 1..4

\* Three tasks, one of them delivered a second time, or four that go well.
Few ==
  LET Asked == {t \in Tasks : status[t] # "absent"}
      Ill(t) == \/ tries[t] > 1
                \/ tries[t] = 1 /\ status[t] = "pending"
                \/ status[t] = "failed"
                \/ at[t] \in {"note", "exhaust", "refuse", "error", "permanent", "blocked"}
  IN /\ Cardinality({t \in Tasks : tries[t] > 1}) <= 1
     /\ Cardinality(Asked) = 4 => pressing = 0 /\ ~ \E t \in Tasks : Ill(t)
=============================================================================
