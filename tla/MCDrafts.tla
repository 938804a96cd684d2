------------------------------ MODULE MCDrafts ------------------------------
(* What a user does with one application once it is read, for TLC: the        *)
(* drafting chain, the versions of the CV it ends in, and push-backs on the   *)
(* score. The first two meet only in CvVersions!Generate, which the chain's   *)
(* last step may take whatever the versions are, and neither touches a        *)
(* push-back; so a behaviour is of one of the three.                          *)
EXTENDS Chain, CvVersions, TLC

CONSTANTS q1, q2, w1, w2, p1, p2, r1, r2, c1, c2, t1, t2, t3, x1,
  Rows, Texts, PushKinds, Picks, Sent

\* The kinds are among PUSHBACK_KINDS (jfl_core.pushback); 0 is no row.
ASSUME PushAssumption ==
  /\ Rows \subseteq Nat \ {0}
  /\ IsFiniteSet(Rows)
  /\ PushKinds \subseteq {"factual", "capability", "preference"}
  /\ Sent \subseteq Nat

VARIABLES about, row, readAs, task, thread, pick

P == INSTANCE Pushbacks WITH reading <- readAs, Kinds <- PushKinds

pushVars == <<row, readAs, task, thread, pick>>
MCVars == <<chainVars, cvVars, pushVars, about>>

TypeOK == ChainTypeOK /\ CvTypeOK

\* However often it is pressed, delivered and cut off, a chain has one task of each
\* step and goes on to the next until one fails or the last is done: see Chain.
EveryStepOnce == OneOfEachStep /\ ChainContinues

\* A delivery of a task whose result is stored pays for nothing again: see
\* Chain!PaidOnce and CvVersions!CheckedOnce.
NothingPaidTwice == PaidOnce /\ CheckedOnce

\* See Pushbacks.
ShownIsBounded   == about = "pushbacks" => P!ShownIsBounded
CapHolds         == P!CapHolds

\* Of the readings of one disagreement at most one counts, and one that counts is
\* taken back by the user alone, whatever was in flight: see Pushbacks.
OneReadingStays ==
  [](about = "pushbacks" => P!OneReadingCounts) /\ P!AppliedStays

MCInit == /\ ChainInit /\ CvInit /\ P!PushInit
          /\ about \in {"steps", "versions", "pushbacks"}

MCNext == /\ \/ about = "steps" /\ ChainNext /\ UNCHANGED <<cvVars, pushVars>>
             \/ about = "versions" /\ CvNext /\ UNCHANGED <<chainVars, pushVars>>
             \/ about = "pushbacks" /\ P!PushNext /\ UNCHANGED <<chainVars, cvVars>>
          /\ UNCHANGED about

MCSpec == MCInit /\ [][MCNext]_MCVars

\* One correction after another, none delivered twice: for what needs many.
OneAtATime == /\ Cardinality({r \in Rows : task[r].status \in {"pending", "running"}}) <= 1
              /\ \A r \in Rows : task[r].tries <= 1 /\ ~ row[r].failed

\* One step delivered twice; two corrections typed, or one and what is picked for
\* it, twice or with a second delivery; two deliveries and requests at once.
TwoAtOnce ==
  /\ about = "steps" => Cardinality({t \in Tasks : tries[t] > 1}) <= 1
  /\ about = "pushbacks" =>
       /\ Cardinality({r \in Rows : task[r].status # "absent"})
          + Cardinality({r \in Rows : row[r].status # "absent"})
          + Cardinality({r \in Rows : task[r].tries > 1}) <= 4
       /\ Cardinality({r \in Rows : thread[r].at # "none"})
          + Cardinality({p \in Picks : pick[p].at # "none"}) <= 2

MCSymmetry == Permutations(Requirements) \union Permutations(Wordings)
              \union Permutations(Presses) \union Permutations(Requests)
              \union Permutations(CheckTasks) \union Permutations(Texts)
=============================================================================
