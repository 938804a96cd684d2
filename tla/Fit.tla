-------------------------------- MODULE Fit --------------------------------
(***************************************************************************)
(* What is kept of the model's answer when requirements are checked        *)
(* against the corpus and when a job is scored (jfl_generate.coverage,     *)
(* .scoring, jfl_core.fit, and the tally jfl_web.scores prints).  The      *)
(* model answers by number: a number that names nothing is dropped, a      *)
(* thing without an answer is silent, and "do I want this" is arithmetic   *)
(* on the verdicts.  A behaviour is of one answer, and of the profile      *)
(* being emptied after it.                                                 *)
(***************************************************************************)
EXTENDS Integers, Sequences, SequencesExt, FiniteSets, FiniteSetsExt

CONSTANTS
  Corpus,          \* span ids there are
  Made,            \* ids, or what should be ids, that name none
  Slots,           \* ranks an objective may have
  Could,           \* bound: numbers the model may give
  MaxConstraints,  \* bound
  MaxMentions,     \* bound: verdicts, levers or results in an answer
  Nothing

ASSUME FitAssumption ==
  /\ Corpus \intersect Made = {}
  /\ Slots \subseteq Nat \ {0} /\ IsFiniteSet(Slots) /\ Could \subseteq Int
  /\ MaxConstraints \in Nat /\ MaxMentions \in Nat

VARIABLES
  profile,  \* constraints, objectives, capabilities, and facts read from the CV
  said,     \* what the model said, and of what
  stored    \* what is kept of it

fitVars == <<profile, said, stored>>

FitVerdict == {"evidenced", "partial", "silent", "contradicted"}
Stances    == {"must", "never", "nice"}

\* A profile constraint is its stance; a capability is rated and may have evidence.
Capabilities == [tier : {"absent", "used"}, evidence : BOOLEAN]
Profiles == [constraints : UNION {[1..n -> Stances] : n \in 0..MaxConstraints},
             objectives : SUBSET Slots, capabilities : SeqOf(Capabilities, 2), facts : 0..1]
Cleared  == [constraints |-> <<>>, objectives |-> {}, capabilities |-> <<>>, facts |-> 0]

----------------------------------------------------------------------------
(* Coverage: one result per requirement.                                   *)

CoverageStatus == {"evidenced", "partial", "absent", "contradicted"}
CoverageResult == [status : CoverageStatus, cited : SUBSET (Corpus \union Made)]

Downgrade == [evidenced |-> "partial", partial |-> "absent",
              absent |-> "absent", contradicted |-> "contradicted"]

\* A wrong DropUnverifiable: whatever rests on nothing is one step down.
DropAndDoubt(result) ==
  LET kept == result.cited \intersect Corpus
  IN [status |-> IF kept = {} THEN Downgrade[result.status] ELSE result.status, cited |-> kept]

\* drop_unverifiable_citations: a step down if dropping is what left nothing.
DropUnverifiable(result) ==
  LET kept == result.cited \intersect Corpus
  IN [status |-> IF kept # result.cited /\ kept = {} THEN Downgrade[result.status]
                 ELSE result.status,
      cited |-> kept]

----------------------------------------------------------------------------
(* jfl_core.fit: the number.                                               *)

Credit       == [evidenced |-> 2, partial |-> 1, silent |-> 0, contradicted |-> 0]  \* in halves
StanceWeight == [must |-> 3, never |-> 3, nice |-> 1]
RankWeight(rank) == IF rank = 1 THEN 3 ELSE IF rank = 2 THEN 2 ELSE 1
MinScore == 1
MaxScore == 10
BreachCeiling == 2

\* Python's round: to the nearest, halves to the even one.
Round(n, d) ==
  LET q == n \div d
      r == 2 * (n % d)
  IN IF r > d \/ (r = d /\ q % 2 = 1) THEN q + 1 ELSE q

\* _breaches: the constraints the ad contradicts.
Breaches(constraints) ==
  {n \in DOMAIN constraints :
     constraints[n].verdict = "contradicted" /\ constraints[n].stance \in {"must", "never"}}
Items(constraints, objectives) ==
  [n \in DOMAIN constraints |-> [weight |-> StanceWeight[constraints[n].stance],
                                 verdict |-> constraints[n].verdict]]
  \o [n \in DOMAIN objectives |-> [weight |-> RankWeight(objectives[n].rank),
                                   verdict |-> objectives[n].verdict]]

Sum(numbers)  == FoldLeft(+, 0, numbers)
Weight(items) == Sum([n \in DOMAIN items |-> items[n].weight])
Earns(items)  == Sum([n \in DOMAIN items |-> items[n].weight * Credit[items[n].verdict]])

\* A wrong Basis: the ceiling takes the place of the number.
BasisAtCeiling(constraints, objectives) ==
  LET items    == Items(constraints, objectives)
      weight   == Weight(items)
      earned   == Earns(items)
      breaches == Cardinality(Breaches(constraints))
  IN [score |-> IF weight = 0 THEN Nothing ELSE IF breaches > 0 THEN BreachCeiling
                ELSE MinScore + Round(earned * (MaxScore - MinScore), 2 * weight),
      items |-> Len(items), breaches |-> breaches]

\* want_it_basis
Basis(constraints, objectives) ==
  LET items    == Items(constraints, objectives)
      weight   == Weight(items)
      earned   == Earns(items)
      breaches == Cardinality(Breaches(constraints))
      score    == MinScore + Round(earned * (MaxScore - MinScore), 2 * weight)
  IN [score |-> IF weight = 0 THEN Nothing
                ELSE IF breaches > 0 THEN Min({score, BreachCeiling}) ELSE score,
      items |-> Len(items), breaches |-> breaches]

----------------------------------------------------------------------------
(* jfl_generate.scoring: an answer, resolved against the profile.          *)

\* Numbers, the lowest first.
InOrder(numbers) ==
  [n \in 1..Cardinality(numbers) |->
    CHOOSE k \in numbers : Cardinality({j \in numbers : j < k}) + 1 = n]

\* The first mention of a number counts; unmentioned is silent.
VerdictOf(mentions, number) ==
  LET about == {m \in DOMAIN mentions : mentions[m].number = number}
  IN IF about = {} THEN "silent" ELSE mentions[Min(about)].verdict

ConstraintVerdicts(constraints, mentions) ==
  [n \in DOMAIN constraints |->
    [stance |-> constraints[n], verdict |-> VerdictOf(mentions, n)]]

\* A wrong ObjectiveVerdicts: by place in the list, where rank is the slot.
ObjectivesByPlace(objectives, mentions) ==
  LET ranked == InOrder(objectives)
  IN [n \in DOMAIN ranked |-> [rank |-> ranked[n], verdict |-> VerdictOf(mentions, n)]]

ObjectiveVerdicts(objectives, mentions) ==
  LET ranked == InOrder(objectives)
  IN [n \in DOMAIN ranked |-> [rank |-> ranked[n], verdict |-> VerdictOf(mentions, ranked[n])]]

\* claimed_items: what is claimed without evidence, in the order it is numbered.
Fact == [tier |-> "fact", evidence |-> FALSE]
ClaimedItems(p) ==
  LET claimed == InOrder({n \in DOMAIN p.capabilities :
                   p.capabilities[n].tier # "absent" /\ ~p.capabilities[n].evidence})
  IN [n \in DOMAIN claimed |-> p.capabilities[claimed[n]]] \o [n \in 1..p.facts |-> Fact]

\* _levers: the first mention of each claim, with the number it moves to if a move.
Levers(mentions, claims, could) ==
  LET first == {n \in DOMAIN mentions :
                  /\ mentions[n].number \in DOMAIN claims
                  /\ \A m \in 1..(n - 1) : mentions[m].number # mentions[n].number}
      kept  == InOrder(first)
  IN [n \in DOMAIN kept |->
       [claim |-> mentions[kept[n]].number,
        to |-> IF mentions[kept[n]].to \in (could + 1)..MaxScore
               THEN mentions[kept[n]].to ELSE Nothing]]

\* build_result
BuildResult(answer, p) ==
  LET constraints == ConstraintVerdicts(p.constraints, answer.constraints)
      objectives  == ObjectiveVerdicts(p.objectives, answer.objectives)
  IN [could |-> answer.could, want |-> Basis(constraints, objectives).score,
      constraints |-> constraints, objectives |-> objectives,
      breaches |-> Breaches(constraints),
      levers |-> Levers(answer.levers, ClaimedItems(p), answer.could)]

\* want_it_summary: the tally under a stored score.
WantItSummary(score) == Basis(score.constraints, score.objectives)

----------------------------------------------------------------------------
Mentions(numbers) == SeqOf([number : numbers, verdict : FitVerdict], MaxMentions)

\* Bound: an answer mentions MaxMentions things of a profile with constraints or
\* objectives, or gives levers for one with claims.
VerdictAnswers(p) ==
  {[of |-> "score", could |-> MinScore, constraints |-> c, objectives |-> o, levers |-> <<>>] :
     c \in Mentions(0..Len(p.constraints)), o \in Mentions(p.objectives \union {1})}
LeverAnswers(p) ==
  {[of |-> "score", could |-> could, constraints |-> <<>>, objectives |-> <<>>, levers |-> l] :
     could \in Could,
     l \in SeqOf([number : 0..(Len(ClaimedItems(p)) + 1), to : Could], MaxMentions)}

FitInit ==
  /\ profile \in {p \in Profiles :
       p.capabilities # <<>> \/ p.facts > 0 => p.constraints = <<>> /\ p.objectives = {}}
  /\ said = Nothing
  /\ stored = Nothing

\* check_coverage of n requirements: a result for each, or nothing is kept.
CheckCoverage ==
  /\ said = Nothing /\ profile = Cleared
  /\ \E n \in 1..MaxMentions, results \in SeqOf(CoverageResult, MaxMentions) :
       /\ said' = [of |-> "coverage", required |-> n, results |-> results]
       /\ stored' = IF Len(results) # n THEN Nothing
                    ELSE [m \in DOMAIN results |-> DropUnverifiable(results[m])]
  /\ UNCHANGED profile

\* score_application once the answer parses: "could I get this" out of range does not.
Score ==
  /\ said = Nothing
  /\ \E answer \in VerdictAnswers(profile) \union LeverAnswers(profile) :
       /\ Len(answer.constraints) + Len(answer.objectives) <= MaxMentions
       /\ said' = answer
       /\ stored' = IF answer.could \in MinScore..MaxScore
                    THEN BuildResult(answer, profile) ELSE Nothing
  /\ UNCHANGED profile

\* The user takes everything out of the profile again; a stored score stays.
ClearProfile ==
  /\ said # Nothing /\ said.of = "score" /\ profile # Cleared
  /\ profile' = Cleared
  /\ UNCHANGED <<said, stored>>

FitNext == CheckCoverage \/ Score \/ ClearProfile

----------------------------------------------------------------------------
(* Properties.                                                             *)

IsScore    == stored # Nothing /\ said.of = "score"
IsCoverage == stored # Nothing /\ said.of = "coverage"

\* What is kept of a coverage check cites the corpus alone, each requirement keeps
\* what the model said of it, and a requirement is a step down from that if, and
\* only if, all that was cited for it is not in the corpus; and something was.
CoverageIsGrounded == IsCoverage =>
  /\ Len(stored) = said.required
  /\ \A n \in DOMAIN stored :
       /\ stored[n].cited = said.results[n].cited \ Made
       /\ stored[n].status = said.results[n].status \/ stored[n].cited = {}
       /\ stored[n].status # said.results[n].status <=>
            /\ said.results[n].status \in {"evidenced", "partial"}
            /\ said.results[n].cited # {} /\ said.results[n].cited \subseteq Made

\* The stored number is what its verdicts come to, whatever became of the profile:
\* none if nothing was asked; else the nearest point of the scale to the share of
\* the weight that is evidenced, at most 2 if a must or a never is contradicted; and
\* finding more of it evidenced would not lower it.
NumberIsItsVerdicts == IsScore =>
  LET items  == Items(stored.constraints, stored.objectives)
      weight == Weight(items)
      Raised(s, n) == [s EXCEPT ![n].verdict = "evidenced"]
      off == (stored.want - MinScore) * 2 * weight - (MaxScore - MinScore) * Earns(items)
  IN IF weight = 0 THEN stored.want = Nothing
     ELSE /\ stored.want \in MinScore..MaxScore
          /\ off \in -weight..weight
             \/ (stored.breaches # {} /\ stored.want = BreachCeiling /\ off < 0)
          /\ stored.breaches # {} => stored.want <= BreachCeiling
          /\ \A n \in DOMAIN stored.constraints :
               Basis(Raised(stored.constraints, n), stored.objectives).score >= stored.want
          /\ \A n \in DOMAIN stored.objectives :
               Basis(stored.constraints, Raised(stored.objectives, n)).score >= stored.want
          /\ WantItSummary(stored).score = stored.want
          /\ WantItSummary(stored).breaches = Cardinality(stored.breaches)

\* Each constraint and objective the user had is listed once, in the user's order,
\* with what the model said of it first; nothing the model said of another number
\* is; and a lever is a claim without evidence, once, and moves the score up.
AnswerIsOfTheProfile == IsScore =>
  /\ profile # Cleared =>
       /\ [n \in DOMAIN stored.constraints |-> stored.constraints[n].stance] = profile.constraints
       /\ {stored.objectives[n].rank : n \in DOMAIN stored.objectives} = profile.objectives
       /\ \A n \in DOMAIN stored.levers : stored.levers[n].claim \in DOMAIN ClaimedItems(profile)
       /\ \A n \in DOMAIN ClaimedItems(profile) :
            ClaimedItems(profile)[n].tier # "absent" /\ ~ClaimedItems(profile)[n].evidence
  /\ \A n, m \in DOMAIN stored.objectives :
       n < m => stored.objectives[n].rank < stored.objectives[m].rank
  /\ \A n \in DOMAIN stored.constraints :
       stored.constraints[n].verdict # "silent" =>
         \E m \in DOMAIN said.constraints :
           said.constraints[m] = [number |-> n, verdict |-> stored.constraints[n].verdict]
  /\ \A n \in DOMAIN stored.objectives :
       stored.objectives[n].verdict # "silent" =>
         \E m \in DOMAIN said.objectives : said.objectives[m] =
           [number |-> stored.objectives[n].rank, verdict |-> stored.objectives[n].verdict]
  /\ \A n \in DOMAIN stored.levers :
       /\ stored.levers[n].to # Nothing => stored.levers[n].to > stored.could
       /\ \A m \in DOMAIN stored.levers :
            stored.levers[n].claim = stored.levers[m].claim => n = m
=============================================================================
