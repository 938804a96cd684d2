---------------------------- MODULE ProfileProofs ----------------------------
(***************************************************************************)
(* What is recorded of the user, for any facts, CVs, capabilities, runs    *)
(* and settings: only they answer, what they said is the corpus, no fact   *)
(* given to a run is dropped, and no model changes what they have stated.  *)
(***************************************************************************)
EXTENDS MCProfile, FiniteSetTheorems, WellFoundedInduction, TLAPS

----------------------------------------------------------------------------
(* The inductive invariant, for any number of requests at once.            *)

FactRows == [Facts -> CandidateRows]

\* What a request may have read.
Views == [on : {TRUE}, facts : FactRows, document : SUBSET Lines, profile : Profiles,
          others : [Runs -> RunRows], wrote : {{}}, rewrote : {FALSE}]

RequestsInv == request \in [Requests -> Views \union {NoRequest}]

\* A fact is confirmed with its line, and with an answer if it asks for one.
GroundedRow(f, r) ==
  /\ r.span = IF r.state = "confirmed" THEN LineOf(f, r) ELSE None
  /\ f \in Asks /\ r.state = "confirmed" => r.answer # None
Grounded(rows) == \A f \in Facts : GroundedRow(f, rows[f])
ProbesInv == /\ Grounded(fact)
             /\ \A p \in Requests : request[p].on => Grounded(request[p].facts)

\* Groups of what was sent: each fact in one of them, or in none.
Apart(proposals) ==
  \A i, j \in DOMAIN proposals : i # j => proposals[i].facts \cap proposals[j].facts = {}
Grouped(proposals, sending) ==
  /\ proposals \in Seq(Proposals)
  /\ Apart(proposals)
  /\ \A i \in DOMAIN proposals : proposals[i].facts \subseteq sending

Working == {"inputs", "call", "store", "refuse", "fail", "blocked"}

\* A thread is at work for a run that waits, on facts and their lines; what it made of
\* them before it stores is groups.
GrouperRows == [at : Working \union {"none", "ok", "permanent", "error"}, sending : SUBSET Facts,
                omitted : SUBSET Facts, spans : [Facts -> SUBSET Lines], proposals : Seq(Proposals)]
GroupersInv ==
  /\ grouper \in [Runs -> GrouperRows]
  /\ \A k \in Runs :
       /\ grouper[k].at \in Working => run[k].status = "pending"
       /\ grouper[k].at \in {"call", "store"} =>
            Grouped(grouper[k].proposals, grouper[k].sending)

\* A run that was not answered has no groups; one that was has them for good.
RunsInv ==
  /\ \A k \in Runs : run[k].status # "done" => DOMAIN run[k].proposals = {}
  /\ NothingDropped

\* What a request has read of a run's groups they are still, but for answers to them.
SameGroups(old, new) ==
  DOMAIN old # {} => /\ DOMAIN old = DOMAIN new
                     /\ \A i \in DOMAIN old : old[i].facts = new[i].facts
SeenInv == \A p \in Requests : request[p].on =>
             \A k \in Runs : SameGroups(request[p].others[k].proposals, run[k].proposals)

FactsInv == FactsTypeOK /\ RequestsInv /\ ProbesInv
GroupsInv == ClustersTypeOK /\ GroupersInv /\ RunsInv /\ SeenInv
IInv == FactsInv /\ GroupsInv

----------------------------------------------------------------------------
(* Rows, lines and views.                                                  *)

\* A fact's line, in any of its wordings, is one a corpus may have.
LEMMA LineTyped ==
  ASSUME NEW f \in Facts, NEW w \in Words \union {None}, NEW a \in Answers \union {None},
         NEW row, row.text = w, row.answer = a
  PROVE  LineOf(f, row) \in Lines
<1>1. (IF w = None THEN AsWritten[f] ELSE w) \in Words
  BY FactsAssumption
<1> QED BY <1>1 DEF LineOf, Lines, Statements

\* The parts of a fact's row, and rows made from it.
LEMMA RowParts ==
  ASSUME NEW r \in CandidateRows
  PROVE  /\ r.text \in Words \union {None} /\ r.answer \in Answers \union {None}
         /\ r.span \in Lines \union {None}
         /\ \A w \in Words \union {None}, a \in Answers \union {None} :
              [r EXCEPT !.text = w, !.answer = a] \in CandidateRows
         /\ \A s \in {"absent", "proposed", "confirmed", "rejected"}, l \in Lines \union {None} :
              [r EXCEPT !.state = s, !.span = l] \in CandidateRows
BY DEF CandidateRows

LEMMA ViewParts ==
  ASSUME NEW v \in Views
  PROVE  /\ v.on /\ v.facts \in FactRows /\ v.document \subseteq Lines /\ v.profile \in Profiles
         /\ v.others \in [Runs -> RunRows] /\ v.wrote = {} /\ v.rewrote = FALSE
BY DEF Views

\* A request in progress is a view of the tables.
LEMMA OnIsView ==
  ASSUME RequestsInv, NEW p \in Requests, request[p].on
  PROVE  request[p] \in Views
BY DEF RequestsInv, NoRequest

\* What a request that commits leaves the tables with: rows of the kind they hold.
Result == [facts : FactRows, document : SUBSET Lines, wrote : SUBSET Facts, rewrote : BOOLEAN]
Made(v) == [facts |-> v.facts, document |-> v.document, wrote |-> v.wrote, rewrote |-> v.rewrote]

----------------------------------------------------------------------------
(* What the user's requests make of the facts.                             *)

\* What a request commits is rows of facts and a document, and ends it.
LEMMA CommitKeeps ==
  ASSUME FactsInv, NEW p \in Requests, NEW v, Commit(p, v),
         v.facts \in FactRows, Grounded(v.facts), v.document \subseteq Lines
  PROVE  /\ fact' \in FactRows /\ document' \subseteq Lines
         /\ RequestsInv' /\ ProbesInv'
         /\ request' = [request EXCEPT ![p] = NoRequest]
<1> USE DEF FactsInv
<1>1. fact \in FactRows /\ document \subseteq Lines /\ Asks \subseteq Facts
  BY FactsAssumption DEF FactsTypeOK, FactRows
<1>2. /\ fact' = [f \in Facts |-> IF f \in v.wrote THEN v.facts[f] ELSE fact[f]]
      /\ document' = IF v.rewrote THEN v.document ELSE document
      /\ request' = [request EXCEPT ![p] = NoRequest]
  BY DEF Commit
<1>3. fact' \in FactRows /\ document' \subseteq Lines
  BY <1>1, <1>2 DEF FactRows
<1>4. \A q \in Requests : request'[q] = IF q = p THEN NoRequest ELSE request[q]
  BY <1>2 DEF RequestsInv
<1>5. ~ NoRequest.on
  BY DEF NoRequest
<1>6. RequestsInv'
  BY <1>2, <1>4 DEF RequestsInv
<1>7. ProbesInv'
  <2>1. Grounded(fact')
    BY <1>1, <1>2 DEF ProbesInv, Grounded
  <2>2. \A q \in Requests : request'[q].on => q # p /\ request[q].on /\ request'[q] = request[q]
    BY <1>4, <1>5
  <2> QED BY <2>1, <2>2 DEF ProbesInv, Grounded
<1> QED BY <1>2, <1>3, <1>6, <1>7

\* A line more or less, a row stored, a line released: a view remains one of the kind.
Viewing(v) == v \in [on : {TRUE}, facts : FactRows, document : SUBSET Lines, profile : Profiles,
                     others : [Runs -> RunRows], wrote : SUBSET Facts, rewrote : BOOLEAN]

LEMMA ViewSteps ==
  ASSUME NEW v, Viewing(v)
  PROVE  /\ \A l \in Lines : /\ Viewing(WithLine(v, l)) /\ WithLine(v, l).facts = v.facts
                            /\ WithLine(v, l).document = v.document \union {l}
                            /\ WithLine(v, l).rewrote /\ WithLine(v, l).wrote = v.wrote
         /\ \A l \in Lines : /\ Viewing(WithoutLine(v, l)) /\ WithoutLine(v, l).facts = v.facts
                            /\ WithoutLine(v, l).document = v.document \ {l}
                            /\ WithoutLine(v, l).rewrote /\ WithoutLine(v, l).wrote = v.wrote
         /\ \A f \in Facts, r \in CandidateRows :
              /\ Viewing(Store(v, f, r)) /\ Store(v, f, r).facts = [v.facts EXCEPT ![f] = r]
              /\ Store(v, f, r).document = v.document /\ Store(v, f, r).rewrote = v.rewrote
              /\ Store(v, f, r).wrote = v.wrote \union {f}
<1> USE DEF Viewing
<1>1. ASSUME NEW l \in Lines
      PROVE  /\ Viewing(WithLine(v, l)) /\ WithLine(v, l).facts = v.facts
             /\ WithLine(v, l).document = v.document \union {l}
             /\ WithLine(v, l).rewrote /\ WithLine(v, l).wrote = v.wrote
  BY DEF WithLine
<1>2. ASSUME NEW l \in Lines
      PROVE  /\ Viewing(WithoutLine(v, l)) /\ WithoutLine(v, l).facts = v.facts
             /\ WithoutLine(v, l).document = v.document \ {l}
             /\ WithoutLine(v, l).rewrote /\ WithoutLine(v, l).wrote = v.wrote
  BY DEF WithoutLine
<1>3. ASSUME NEW f \in Facts, NEW r \in CandidateRows
      PROVE  /\ Viewing(Store(v, f, r)) /\ Store(v, f, r).facts = [v.facts EXCEPT ![f] = r]
             /\ Store(v, f, r).document = v.document /\ Store(v, f, r).rewrote = v.rewrote
             /\ Store(v, f, r).wrote = v.wrote \union {f}
  BY DEF Store, FactRows
<1> QED BY <1>1, <1>2, <1>3

LEMMA FactParts ==
  ASSUME NEW v, Viewing(v), NEW f \in Facts
  PROVE  /\ v.facts[f] \in CandidateRows /\ LineOf(f, v.facts[f]) \in Lines
         /\ v.facts \in FactRows /\ v.document \subseteq Lines
<1>1. v.facts \in FactRows /\ v.document \subseteq Lines
  BY DEF Viewing
<1>2. v.facts[f] \in CandidateRows
  BY <1>1 DEF FactRows
<1> QED BY <1>1, <1>2, RowParts, LineTyped

\* A released line is out of the document, unless another confirmed fact has it.
Kept(v, f) == \E g \in Facts \ {f} : /\ v.facts[g].state = "confirmed"
                                     /\ v.facts[g].span = v.facts[f].span

LEMMA ReleaseMakes ==
  ASSUME NEW v, Viewing(v), NEW f \in Facts
  PROVE  /\ Viewing(Release(v, f)) /\ Release(v, f).facts = v.facts
         /\ Release(v, f).wrote = v.wrote
         /\ Kept(v, f) => Release(v, f) = v
         /\ ~ Kept(v, f) => /\ Release(v, f).document = v.document \ {LineOf(f, v.facts[f])}
                            /\ Release(v, f).rewrote
<1>1. LineOf(f, v.facts[f]) \in Lines
  BY FactParts
<1> QED BY <1>1, ViewSteps DEF Release, Kept

\* The row and the line a confirmation makes.
RowOf(v, f, text, answer) == [v.facts[f] EXCEPT !.text = text, !.answer = Answered(v, f, answer)]
Stored(v, f, text, answer) ==
  [RowOf(v, f, text, answer) EXCEPT !.state = "confirmed",
                                    !.span = LineOf(f, RowOf(v, f, text, answer))]

LEMMA RowMade ==
  ASSUME NEW v, Viewing(v), NEW f \in Facts, NEW w \in Words \union {None},
         NEW a \in Answers \union {None}
  PROVE  /\ RowOf(v, f, w, a) \in CandidateRows
         /\ LineOf(f, RowOf(v, f, w, a)) \in Lines
         /\ Stored(v, f, w, a) \in CandidateRows
         /\ Stored(v, f, w, a).state = "confirmed"
         /\ Stored(v, f, w, a).answer = Answered(v, f, a)
         /\ Stored(v, f, w, a).span = LineOf(f, RowOf(v, f, w, a))
         /\ LineOf(f, Stored(v, f, w, a)) = LineOf(f, RowOf(v, f, w, a))
<1>1. v.facts[f] \in CandidateRows
  BY FactParts
<1>2. Answered(v, f, a) \in Answers \union {None}
  BY <1>1, RowParts DEF Answered
<1>3. RowOf(v, f, w, a) \in CandidateRows
  BY <1>1, <1>2, RowParts DEF RowOf
<1>4. LineOf(f, RowOf(v, f, w, a)) \in Lines
  BY <1>3, RowParts, LineTyped
<1>5. ASSUME NEW r \in CandidateRows, NEW l \in Lines
      PROVE  LET s == [r EXCEPT !.state = "confirmed", !.span = l]
             IN /\ s \in CandidateRows /\ s.state = "confirmed" /\ s.span = l
                /\ s.answer = r.answer /\ s.text = r.text
  BY DEF CandidateRows
<1>6. RowOf(v, f, w, a).answer = Answered(v, f, a)
  BY <1>1 DEF RowOf, CandidateRows
<1> DEFINE r == RowOf(v, f, w, a)
           s == Stored(v, f, w, a)
<1>7. /\ s \in CandidateRows /\ s.state = "confirmed" /\ s.span = LineOf(f, r)
      /\ s.answer = r.answer /\ s.text = r.text
  BY <1>3, <1>4, <1>5 DEF Stored
<1>8. LineOf(f, s) = LineOf(f, r)
  BY <1>7 DEF LineOf
<1> QED BY <1>3, <1>4, <1>6, <1>7, <1>8

\* A confirmation: nothing if the fact is confirmed in that wording already; or its row,
\* its line put in, and an earlier line of its own taken out.
Freed(v, f) == IF v.facts[f].state = "confirmed" /\ ~ Kept(v, f)
               THEN v.document \ {LineOf(f, v.facts[f])} ELSE v.document

LEMMA ConfirmMakes ==
  ASSUME NEW v, Viewing(v), NEW f \in Facts, NEW w \in Words \union {None},
         NEW a \in Answers \union {None}
  PROVE  LET c == Confirmed(v, f, w, a) IN
         /\ Viewing(c)
         /\ \/ /\ c = v /\ v.facts[f].state = "confirmed"
            \/ /\ c.facts = [v.facts EXCEPT ![f] = Stored(v, f, w, a)]
               /\ c.wrote = v.wrote \union {f} /\ c.rewrote
               /\ c.document = Freed(v, f) \union {LineOf(f, RowOf(v, f, w, a))}
<1> DEFINE c == Confirmed(v, f, w, a)
           line == LineOf(f, RowOf(v, f, w, a))
           freed == IF v.facts[f].state = "confirmed" THEN Release(v, f) ELSE v
           s == Stored(v, f, w, a)
<1>1. c = IF v.facts[f].state = "confirmed" /\ LineOf(f, v.facts[f]) = line THEN v
          ELSE Store(WithLine(freed, line), f, s)
  BY DEF Confirmed, RowOf, Stored
<1>2. line \in Lines /\ s \in CandidateRows
  BY RowMade
<1>3. /\ Viewing(freed) /\ freed.facts = v.facts /\ freed.wrote = v.wrote
      /\ freed.document = Freed(v, f)
  BY ReleaseMakes DEF Freed
<1> HIDE DEF c, line, freed, s
<1>4. CASE v.facts[f].state = "confirmed" /\ LineOf(f, v.facts[f]) = line
  <2>1. c = v
    BY <1>1, <1>4
  <2> QED BY <1>4, <2>1 DEF c
<1>5. CASE ~ (v.facts[f].state = "confirmed" /\ LineOf(f, v.facts[f]) = line)
  <2> DEFINE u == WithLine(freed, line)
  <2>1. /\ Viewing(u) /\ u.facts = v.facts /\ u.wrote = v.wrote /\ u.rewrote
        /\ u.document = Freed(v, f) \union {line}
    BY <1>2, <1>3, ViewSteps
  <2>2. c = Store(u, f, s)
    BY <1>1, <1>5
  <2> HIDE DEF u
  <2>3. /\ Viewing(c) /\ c.facts = [v.facts EXCEPT ![f] = s]
        /\ c.wrote = v.wrote \union {f} /\ c.rewrote
        /\ c.document = Freed(v, f) \union {line}
    BY <1>2, <2>1, <2>2, ViewSteps
  <2> QED BY <2>3 DEF c, line, s
<1> QED BY <1>4, <1>5

\* A step that is of one request and of the facts only.
LEMMA FactsStep ==
  ASSUME FactsInv, NEW p \in Requests, NEW v, Commit(p, v),
         v.facts \in FactRows, Grounded(v.facts), v.document \subseteq Lines,
         told' \subseteq Words, profile' \in Profiles, UNCHANGED cv
  PROVE  FactsInv'
<1>1. /\ fact' \in FactRows /\ document' \subseteq Lines /\ RequestsInv' /\ ProbesInv'
  BY CommitKeeps
<1> QED BY <1>1 DEF FactsInv, FactsTypeOK, FactRows

\* The view a request in progress has.
LEMMA TheView ==
  ASSUME FactsInv, NEW p \in Requests, request[p].on
  PROVE  /\ request[p] \in Views /\ Viewing(request[p])
         /\ Grounded(request[p].facts)
         /\ request[p].profile \in Profiles /\ told \subseteq Words /\ profile \in Profiles
<1>1. request[p] \in Views
  BY OnIsView DEF FactsInv
<1>2. Viewing(request[p])
  BY <1>1 DEF Views, Viewing
<1> QED BY <1>1, <1>2, ViewParts DEF FactsInv, ProbesInv, FactsTypeOK

LEMMA ConfirmFactStep ==
  ASSUME FactsInv, NEW p \in Requests, ConfirmFact(p)
  PROVE  FactsInv'
<1> DEFINE v == request[p]
<1>1. v.on /\ Viewing(v) /\ Grounded(v.facts) /\ told \subseteq Words /\ profile \in Profiles
  BY TheView DEF ConfirmFact
<1>2. PICK f \in Facts, w \in Words \union {None}, a \in Answers \union {None} :
        MayConfirm(v, f, a) /\ Commit(p, Confirmed(v, f, w, a))
  BY DEF ConfirmFact
<1>3. UNCHANGED <<told, profile, cv>>
  BY DEF ConfirmFact
<1> HIDE DEF v
<1> DEFINE c == Confirmed(v, f, w, a)
<1>4. /\ Viewing(c)
      /\ c = v \/ c.facts = [v.facts EXCEPT ![f] = Stored(v, f, w, a)]
  BY <1>1, ConfirmMakes
<1>5. c.facts \in FactRows /\ c.document \subseteq Lines /\ v.facts \in FactRows
  BY <1>1, <1>4 DEF Viewing
<1>6. Grounded(c.facts)
  <2>1. CASE c = v
    BY <1>1, <2>1
  <2>2. CASE c.facts = [v.facts EXCEPT ![f] = Stored(v, f, w, a)]
    <3>1. GroundedRow(f, Stored(v, f, w, a))
      BY <1>1, <1>2, RowMade DEF MayConfirm, GroundedRow
    <3>2. \A g \in Facts : c.facts[g] = IF g = f THEN Stored(v, f, w, a) ELSE v.facts[g]
      BY <1>5, <2>2 DEF FactRows
    <3> QED BY <1>1, <3>1, <3>2 DEF Grounded
  <2> QED BY <1>4, <2>1, <2>2
<1> HIDE DEF c
<1>7. Commit(p, c)
  BY <1>2 DEF c
<1> QED BY <1>1, <1>3, <1>5, <1>6, <1>7, FactsStep

\* What "Confirm all of this role" makes of the facts it finds unchecked.
Unchecked(v, form) == {f \in form : v.facts[f].state = "proposed" /\ MayConfirm(v, f, None)}
RoleRows(v, form) == [f \in Facts |-> IF f \in Unchecked(v, form) THEN ConfirmedRow(f, v.facts[f])
                                                                ELSE v.facts[f]]
RoleView(v, form) == [v EXCEPT !.facts = RoleRows(v, form), !.wrote = Unchecked(v, form),
                        !.rewrote = TRUE,
                        !.document = @ \union {RoleRows(v, form)[f].span : f \in Unchecked(v, form)}]

LEMMA ConfirmedRowIs ==
  ASSUME NEW f \in Facts, NEW r \in CandidateRows
  PROVE  LET s == ConfirmedRow(f, r)
         IN /\ s \in CandidateRows /\ s.state = "confirmed" /\ s.answer = r.answer
            /\ s.span = LineOf(f, s) /\ s.span \in Lines
<1> DEFINE s == ConfirmedRow(f, r)
           u == [r EXCEPT !.text = None]
<1>1. u \in CandidateRows /\ u.text = None /\ u.answer = r.answer /\ r.answer \in Answers \union {None}
  BY DEF CandidateRows
<1>2. LineOf(f, u) \in Lines
  BY <1>1, LineTyped
<1>3. s = [r EXCEPT !.text = None, !.state = "confirmed", !.span = LineOf(f, u)]
  BY DEF ConfirmedRow
<1> HIDE DEF u, s
<1>4. /\ s \in CandidateRows /\ s.state = "confirmed" /\ s.answer = r.answer
      /\ s.span = LineOf(f, u) /\ s.text = None
  BY <1>2, <1>3 DEF CandidateRows
<1>5. LineOf(f, s) = LineOf(f, u)
  BY <1>1, <1>4 DEF LineOf
<1> QED BY <1>2, <1>4, <1>5 DEF s

LEMMA RoleMakes ==
  ASSUME NEW v, Viewing(v), NEW form \in SUBSET Facts
  PROVE  LET c == RoleView(v, form) IN
         /\ Viewing(c) /\ c.facts = RoleRows(v, form) /\ c.wrote = Unchecked(v, form) /\ c.rewrote
         /\ c.document = v.document \union {c.facts[f].span : f \in Unchecked(v, form)}
         /\ Grounded(v.facts) => Grounded(c.facts)
<1> DEFINE c == RoleView(v, form)
           rows == RoleRows(v, form)
           new == Unchecked(v, form)
<1>1. new \subseteq Facts /\ v.facts \in FactRows /\ v.document \subseteq Lines
  BY DEF Unchecked, Viewing
<1>2. /\ \A f \in new : /\ rows[f] \in CandidateRows /\ rows[f].span \in Lines
                        /\ rows[f].answer = v.facts[f].answer
                        /\ rows[f].state = "confirmed" /\ rows[f].span = LineOf(f, rows[f])
      /\ \A f \in Facts \ new : rows[f] = v.facts[f]
  BY <1>1, ConfirmedRowIs DEF RoleRows, FactRows
<1>3. rows = [f \in Facts |-> rows[f]]
  BY DEF RoleRows
<1>4. \A f \in new : GroundedRow(f, rows[f])
  <2>1. \A f \in new : f \in Asks => v.facts[f].answer # None
    BY DEF Unchecked, MayConfirm, Answered
  <2> QED BY <1>2, <2>1 DEF GroundedRow
<1> HIDE DEF rows, new
<1>5. rows \in FactRows
  BY <1>1, <1>2, <1>3 DEF FactRows
<1>6. {rows[f].span : f \in new} \subseteq Lines
  BY <1>2
<1>7. c = [v EXCEPT !.facts = rows, !.wrote = new, !.rewrote = TRUE,
                    !.document = @ \union {rows[f].span : f \in new}]
  BY DEF RoleView, rows, new
<1> HIDE DEF c
<1>8. /\ Viewing(c) /\ c.facts = rows /\ c.wrote = new /\ c.rewrote
      /\ c.document = v.document \union {rows[f].span : f \in new}
  BY <1>1, <1>5, <1>6, <1>7 DEF Viewing
<1>9. Grounded(v.facts) => Grounded(rows)
  BY <1>2, <1>4 DEF Grounded
<1> QED BY <1>8, <1>9 DEF c, rows, new

LEMMA ConfirmRoleStep ==
  ASSUME FactsInv, NEW p \in Requests, ConfirmRole(p)
  PROVE  FactsInv'
<1> DEFINE v == request[p]
<1>1. v.on /\ Viewing(v) /\ Grounded(v.facts) /\ told \subseteq Words /\ profile \in Profiles
  BY TheView DEF ConfirmRole
<1>2. PICK form \in SUBSET Facts : Commit(p, RoleView(v, form))
  BY DEF ConfirmRole, RoleView, RoleRows, Unchecked
<1>3. UNCHANGED <<told, profile, cv>>
  BY DEF ConfirmRole
<1> HIDE DEF v
<1> DEFINE c == RoleView(v, form)
<1>4. Viewing(c) /\ Grounded(c.facts)
  BY <1>1, RoleMakes
<1>5. c.facts \in FactRows /\ c.document \subseteq Lines
  BY <1>4 DEF Viewing
<1> HIDE DEF c
<1>6. Commit(p, c)
  BY <1>2 DEF c
<1> QED BY <1>1, <1>3, <1>4, <1>5, <1>6, FactsStep

\* A fact taken back, or put before the user again.
Declined(row) == [row EXCEPT !.state = "rejected", !.span = None]
Unanswered(row) == [row EXCEPT !.state = "proposed", !.span = None]
TakenBack(v, f) == Store(IF v.facts[f].state = "confirmed" THEN Release(v, f) ELSE v,
                         f, Declined(v.facts[f]))
Renewed(v, f) == Store(v, f, Unanswered(v.facts[f]))

\* What taking a fact back, and putting it before the user again, makes of a view.
TakesBack(c, d, v, f) ==
  /\ Viewing(c) /\ c.wrote = v.wrote \union {f} /\ c.document = Freed(v, f)
  /\ Freed(v, f) # v.document => c.rewrote
  /\ c.facts = [v.facts EXCEPT ![f] = Declined(v.facts[f])]
  /\ Viewing(d) /\ d.wrote = v.wrote \union {f} /\ d.document = v.document
  /\ d.facts = [v.facts EXCEPT ![f] = Unanswered(v.facts[f])]
  /\ Grounded(v.facts) => Grounded(c.facts) /\ Grounded(d.facts)
  /\ d.rewrote = v.rewrote
  /\ \A g \in Facts \ {f} : c.facts[g] = v.facts[g] /\ d.facts[g] = v.facts[g]

LEMMA TakeBackMakes ==
  ASSUME NEW v, Viewing(v), NEW f \in Facts
  PROVE  TakesBack(TakenBack(v, f), Renewed(v, f), v, f)
<1> DEFINE freed == IF v.facts[f].state = "confirmed" THEN Release(v, f) ELSE v
           no == Declined(v.facts[f])
           new == Unanswered(v.facts[f])
           c == TakenBack(v, f)
           d == Renewed(v, f)
<1>1. /\ Viewing(freed) /\ freed.facts = v.facts /\ freed.wrote = v.wrote
      /\ freed.document = Freed(v, f)
      /\ Freed(v, f) # v.document => freed.rewrote
  BY ReleaseMakes DEF Freed
<1>2. /\ no \in CandidateRows /\ GroundedRow(f, no)
      /\ new \in CandidateRows /\ GroundedRow(f, new)
  <2>1. v.facts[f] \in CandidateRows
    BY FactParts
  <2> QED BY <2>1 DEF CandidateRows, GroundedRow, Declined, Unanswered
<1>3. c = Store(freed, f, no) /\ d = Store(v, f, new)
  BY DEF TakenBack, Renewed
<1>4. v.facts \in FactRows
  BY DEF Viewing
<1> HIDE DEF freed, no, new, c, d
<1>5. /\ Viewing(c) /\ c.facts = [v.facts EXCEPT ![f] = no] /\ c.wrote = v.wrote \union {f}
      /\ c.document = Freed(v, f)
      /\ Freed(v, f) # v.document => c.rewrote
  BY <1>1, <1>2, <1>3, ViewSteps
<1>6. /\ Viewing(d) /\ d.facts = [v.facts EXCEPT ![f] = new] /\ d.wrote = v.wrote \union {f}
      /\ d.document = v.document /\ d.rewrote = v.rewrote
  BY <1>2, <1>3, ViewSteps
<1>8. \A g \in Facts \ {f} : c.facts[g] = v.facts[g] /\ d.facts[g] = v.facts[g]
  BY <1>4, <1>5, <1>6 DEF FactRows
<1>7. Grounded(v.facts) => Grounded(c.facts) /\ Grounded(d.facts)
  <2>1. c.facts[f] = no /\ d.facts[f] = new
    BY <1>4, <1>5, <1>6 DEF FactRows
  <2> QED BY <1>2, <1>8, <2>1 DEF Grounded
<1>9. TakesBack(c, d, v, f)
  BY <1>5, <1>6, <1>7, <1>8 DEF TakesBack, no, new
<1> QED BY <1>9 DEF c, d

LEMMA TakeBackLeaves ==
  ASSUME NEW v, Viewing(v), NEW f \in Facts
  PROVE  /\ TakenBack(v, f).wrote = v.wrote \union {f}
         /\ TakenBack(v, f).document = Freed(v, f)
         /\ Freed(v, f) # v.document => TakenBack(v, f).rewrote
         /\ \A g \in Facts \ {f} : TakenBack(v, f).facts[g] = v.facts[g]
         /\ Renewed(v, f).wrote = v.wrote \union {f}
         /\ Renewed(v, f).document = v.document
         /\ \A g \in Facts \ {f} : Renewed(v, f).facts[g] = v.facts[g]
<1> DEFINE c == TakenBack(v, f)
           d == Renewed(v, f)
<1>1. TakesBack(c, d, v, f)
  BY TakeBackMakes
<1> HIDE DEF c, d
<1>2. /\ c.wrote = v.wrote \union {f} /\ c.document = Freed(v, f)
      /\ Freed(v, f) # v.document => c.rewrote
      /\ \A g \in Facts \ {f} : c.facts[g] = v.facts[g]
      /\ d.wrote = v.wrote \union {f} /\ d.document = v.document
      /\ \A g \in Facts \ {f} : d.facts[g] = v.facts[g]
  BY <1>1 DEF TakesBack
<1> QED BY <1>2 DEF c, d

LEMMA RejectFactStep ==
  ASSUME FactsInv, NEW p \in Requests, RejectFact(p)
  PROVE  FactsInv'
<1> DEFINE v == request[p]
<1>1. v.on /\ Viewing(v) /\ Grounded(v.facts) /\ told \subseteq Words /\ profile \in Profiles
  BY TheView DEF RejectFact
<1>2. PICK f \in Facts : Commit(p, TakenBack(v, f))
  BY DEF RejectFact, TakenBack, Declined
<1>3. UNCHANGED <<told, profile, cv>>
  BY DEF RejectFact
<1> HIDE DEF v
<1> DEFINE c == TakenBack(v, f)
<1>4. Viewing(c) /\ Grounded(c.facts)
  BY <1>1, TakeBackMakes DEF TakesBack
<1>5. c.facts \in FactRows /\ c.document \subseteq Lines
  BY <1>4 DEF Viewing
<1> HIDE DEF c
<1>6. Commit(p, c)
  BY <1>2 DEF c
<1> QED BY <1>1, <1>3, <1>4, <1>5, <1>6, FactsStep

LEMMA RestoreFactStep ==
  ASSUME FactsInv, NEW p \in Requests, RestoreFact(p)
  PROVE  FactsInv'
<1> DEFINE v == request[p]
<1>1. v.on /\ Viewing(v) /\ Grounded(v.facts) /\ told \subseteq Words /\ profile \in Profiles
  BY TheView DEF RestoreFact
<1>2. PICK f \in Facts : Commit(p, Renewed(v, f))
  BY DEF RestoreFact, Renewed, Unanswered
<1>3. UNCHANGED <<told, profile, cv>>
  BY DEF RestoreFact
<1> HIDE DEF v
<1> DEFINE c == Renewed(v, f)
<1>4. Viewing(c) /\ Grounded(c.facts)
  BY <1>1, TakeBackMakes DEF TakesBack
<1>5. c.facts \in FactRows /\ c.document \subseteq Lines
  BY <1>4 DEF Viewing
<1> HIDE DEF c
<1>6. Commit(p, c)
  BY <1>2 DEF c
<1> QED BY <1>1, <1>3, <1>4, <1>5, <1>6, FactsStep

\* A line of a section of the document's own.
Own(section, word) == [section |-> section, says |-> <<word, None>>]

LEMMA OwnTyped ==
  ASSUME NEW section \in {"depth", "answered"}, NEW word \in Words
  PROVE  Own(section, word) \in Lines
BY DEF Own, Lines, Statements

LEMMA RecordEvidenceStep ==
  ASSUME FactsInv, NEW p \in Requests, RecordEvidence(p)
  PROVE  FactsInv'
<1> DEFINE v == request[p]
<1>1. v.on /\ Viewing(v) /\ Grounded(v.facts) /\ told \subseteq Words /\ profile \in Profiles
  BY TheView DEF RecordEvidence
<1>2. PICK word \in Words : /\ Commit(p, WithLine(v, Own("answered", word)))
                            /\ told' = told \union {word}
  BY DEF RecordEvidence, Own
<1>3. UNCHANGED <<profile, cv>>
  BY DEF RecordEvidence
<1> HIDE DEF v
<1> DEFINE c == WithLine(v, Own("answered", word))
<1>4. Viewing(c) /\ c.facts = v.facts
  BY <1>1, OwnTyped, ViewSteps
<1>5. c.facts \in FactRows /\ c.document \subseteq Lines /\ Grounded(c.facts)
  BY <1>1, <1>4 DEF Viewing
<1> HIDE DEF c
<1>6. Commit(p, c) /\ told' \subseteq Words
  BY <1>1, <1>2 DEF c
<1> QED BY <1>1, <1>3, <1>5, <1>6, FactsStep

\* The document with the section of a new self-assessment.
SelfView(v, word) == [v EXCEPT !.rewrote = TRUE,
  !.document = SetSection(@, "depth", IF word = None THEN {} ELSE {<<word, None>>})]

LEMMA SelfMakes ==
  ASSUME NEW v, Viewing(v), NEW word \in Words \union {None}
  PROVE  LET c == SelfView(v, word) IN
         /\ Viewing(c) /\ c.facts = v.facts /\ c.wrote = v.wrote /\ c.rewrote
         /\ c.document = {l \in v.document : l.section # "depth"}
                           \union {Own("depth", w) : w \in {word} \ {None}}
<1> DEFINE c == SelfView(v, word)
           lines == {l \in v.document : l.section # "depth"}
                      \union {Own("depth", w) : w \in {word} \ {None}}
<1>1. SetSection(v.document, "depth", IF word = None THEN {} ELSE {<<word, None>>}) = lines
  BY FactsAssumption DEF SetSection, Own
<1>2. lines \subseteq Lines
  BY OwnTyped DEF Viewing
<1>3. c = [v EXCEPT !.rewrote = TRUE, !.document = lines]
  BY <1>1 DEF SelfView
<1> HIDE DEF lines, c
<1>4. Viewing(c) /\ c.facts = v.facts /\ c.wrote = v.wrote /\ c.rewrote /\ c.document = lines
  BY <1>2, <1>3 DEF Viewing
<1> QED BY <1>4 DEF c, lines

LEMMA SaveSelfAssessmentStep ==
  ASSUME FactsInv, NEW p \in Requests, SaveSelfAssessment(p)
  PROVE  FactsInv'
<1> DEFINE v == request[p]
<1>1. /\ v.on /\ Viewing(v) /\ Grounded(v.facts) /\ told \subseteq Words
      /\ v.profile \in Profiles
  BY TheView DEF SaveSelfAssessment
<1>2. PICK word \in Words \union {None} : /\ profile' = [v.profile EXCEPT !.depth = word]
                                          /\ Commit(p, SelfView(v, word))
  BY DEF SaveSelfAssessment, SelfView
<1>3. UNCHANGED <<told, cv>>
  BY DEF SaveSelfAssessment
<1> HIDE DEF v
<1> DEFINE c == SelfView(v, word)
<1>4. Viewing(c) /\ c.facts = v.facts
  BY <1>1, SelfMakes
<1>5. c.facts \in FactRows /\ c.document \subseteq Lines /\ Grounded(c.facts)
  BY <1>1, <1>4 DEF Viewing
<1>6. profile' \in Profiles
  BY <1>1, <1>2 DEF Profiles
<1> HIDE DEF c
<1>7. Commit(p, c)
  BY <1>2 DEF c
<1> QED BY <1>1, <1>3, <1>5, <1>6, <1>7, FactsStep

\* A read of a CV adds facts that were not there.
LEMMA StoreFactsStep ==
  ASSUME FactsInv, NEW c \in Cvs, StoreFacts(c)
  PROVE  FactsInv'
<1> USE DEF FactsInv
<1>1. [NoFact EXCEPT !.state = "proposed"] \in CandidateRows
  BY DEF NoFact, CandidateRows
<1>2. \A f \in Facts : GroundedRow(f, [NoFact EXCEPT !.state = "proposed"])
  BY DEF NoFact, GroundedRow
<1>3. fact \in FactRows
  BY DEF FactsTypeOK, FactRows
<1> DEFINE found == [NoFact EXCEPT !.state = "proposed"]
<1>4. /\ fact' \in FactRows
      /\ \A f \in Facts : fact'[f] = fact[f] \/ fact'[f] = found
  BY <1>1, <1>3 DEF StoreFacts, FactRows
<1> HIDE DEF found
<1>5. cv' \in [Cvs -> CvRows] /\ UNCHANGED <<document, told, profile, request>>
  BY DEF StoreFacts, FactsTypeOK, CvRows
<1>6. FactsTypeOK'
  BY <1>4, <1>5 DEF FactsTypeOK, FactRows
<1>7. RequestsInv' /\ ProbesInv'
  <2>1. Grounded(fact')
    BY <1>2, <1>4 DEF ProbesInv, Grounded, found
  <2> QED BY <1>5, <2>1 DEF RequestsInv, ProbesInv, Grounded
<1> QED BY <1>6, <1>7

LEMMA CvStep ==
  ASSUME FactsInv, NEW c \in Cvs,
         UploadCv(c) \/ DeliverRead(c) \/ ReadCv(c) \/ FailRead(c) \/ RecordRead(c) \/ LoseReader(c)
  PROVE  FactsInv'
<1> USE DEF FactsInv
<1>1. UNCHANGED <<fact, document, told, profile, request>>
  BY DEF UploadCv, DeliverRead, ReadCv, FailRead, RecordRead, LoseReader, SettleRead
<1>2. cv' \in [Cvs -> CvRows]
  BY DEF FactsTypeOK, CvRows, UploadCv, DeliverRead, ReadCv, FailRead, RecordRead, LoseReader, SettleRead
<1>3. FactsTypeOK'
  BY <1>1, <1>2 DEF FactsTypeOK
<1>4. RequestsInv' /\ ProbesInv'
  BY <1>1 DEF RequestsInv, ProbesInv, Grounded
<1> QED BY <1>3, <1>4

LEMMA FactsNextKeeps ==
  ASSUME FactsInv, FactsNext
  PROVE  FactsInv'
BY ConfirmFactStep, ConfirmRoleStep, RejectFactStep, RestoreFactStep, RecordEvidenceStep,
   SaveSelfAssessmentStep, StoreFactsStep, CvStep DEF FactsNext

----------------------------------------------------------------------------
(* What an answer is made into. Sanitise is a fold, that is a recursive    *)
(* function over the sets of positions: among those for which a claim      *)
(* about it fails there would be a least one, and there is none.           *)

LEMMA LeastSubset ==
  ASSUME NEW All, IsFiniteSet(All), NEW B \in SUBSET (SUBSET All), B # {}
  PROVE  \E T \in B : \A U \in B : U \subseteq T => U = T
<1>1. B \subseteq FiniteSubsetsOf(All)
  BY FS_Subset DEF FiniteSubsetsOf
<1>2. PICK T \in B : \A U \in B : <<U, T>> \notin StrictSubsetOrdering(All)
  BY <1>1, FS_StrictSubsetOrderingWellFounded, WFMin
<1> QED BY <1>1, <1>2 DEF StrictSubsetOrdering

\* Of finitely many sets one contains none of the others.
LEMMA LeastValue ==
  ASSUME NEW s, IsFiniteSet(s), s # {}
  PROVE  \A f \in [s -> SUBSET s] :
           \E i \in s : \A j \in s : f[j] \subseteq f[i] => f[j] = f[i]
<1> SUFFICES ASSUME NEW f \in [s -> SUBSET s]
             PROVE  \E i \in s : \A j \in s : f[j] \subseteq f[i] => f[j] = f[i]
  OBVIOUS
<1> DEFINE B == {f[i] : i \in s}
<1>1. B # {} /\ B \in SUBSET (SUBSET s)
  OBVIOUS
<1>2. \A i \in s : f[i] \in B
  OBVIOUS
<1>3. \A T \in B : \E i \in s : T = f[i]
  OBVIOUS
<1> HIDE DEF B
<1>4. PICK T \in B : \A U \in B : U \subseteq T => U = T
  BY <1>1, LeastSubset
<1> QED BY <1>2, <1>3, <1>4

\* Of numbers, if they are some and finitely many, one is the greatest.
LEMMA GreatestIsOne ==
  ASSUME NEW s \in SUBSET Nat, IsFiniteSet(s), s # {}
  PROVE  Max(s) \in s
<1> DEFINE f == [i \in s |-> {j \in s : j > i}]
<1>1. f \in [s -> SUBSET s]
  OBVIOUS
<1>2. \A i, j \in s : j \in f[i] <=> j > i
  OBVIOUS
<1> HIDE DEF f
<1>3. \A h \in [s -> SUBSET s] :
        \E i \in s : \A j \in s : h[j] \subseteq h[i] => h[j] = h[i]
  BY LeastValue
<1> PICK i \in s : \A j \in s : f[j] \subseteq f[i] => f[j] = f[i]
  BY <1>1, <1>3
<1>4. \A j \in s : i >= j
  <2> SUFFICES ASSUME NEW j \in s, ~ (i >= j) PROVE FALSE
    OBVIOUS
  <2>1. i \in Nat /\ j \in Nat /\ j > i /\ ~ (j > j)
    OBVIOUS
  <2>2. \A m \in s : m > j => m > i
    BY <2>1
  <2>3. f[j] \subseteq f[i]
    BY <1>1, <1>2, <2>2
  <2>4. j \in f[i] /\ j \notin f[j]
    BY <1>2, <2>1
  <2> QED BY <2>3, <2>4
<1> QED BY <1>4 DEF Max

\* The positions of an answer, and some of them: finitely many, and one is the last.
Positions(T) == IsFiniteSet(T) /\ \A s \in SUBSET T : s # {} => Max(s) \in s

LEMMA PositionsAre ==
  ASSUME NEW n \in Nat
  PROVE  Positions(1..n)
<1>1. IsFiniteSet(1..n)
  BY FS_Interval
<1>2. ASSUME NEW s \in SUBSET (1..n), s # {}
      PROVE  Max(s) \in s
  <2>1. IsFiniteSet(s)
    BY <1>1, FS_Subset
  <2>2. s \in SUBSET Nat
    OBVIOUS
  <2> QED BY <1>2, <2>1, <2>2, GreatestIsOne
<1> QED BY <1>1, <1>2 DEF Positions

LEMMA SomePositions ==
  ASSUME NEW T, Positions(T), NEW U \in SUBSET T
  PROVE  Positions(U) /\ IsFiniteSet(U)
BY FS_Subset DEF Positions

\* One more item, of the answer as far as it is made into groups.
Placed(kept) == UNION {kept[i].facts : i \in DOMAIN kept}
OneMore(kept, item, sending, spans) ==
  LET named == (item.names \cap sending) \ Placed(kept) IN
  IF \/ item.label \in Roles(sending) \/ named = {}
     \/ \E i \in DOMAIN kept : kept[i].label = item.label
  THEN kept
  ELSE Append(kept, [label |-> item.label, facts |-> named,
                     spans |-> UNION {spans[f] : f \in named}, state |-> "open"])

UpTo(answer, sending, spans, g, s) ==
  IF s = {} THEN <<>> ELSE OneMore(g[s \ {Max(s)}], answer[Max(s)], sending, spans)

IsFold(answer, sending, spans, T, g) ==
  g = [s \in SUBSET T |-> UpTo(answer, sending, spans, g, s)]

LEMMA SanitiseIsFold ==
  ASSUME NEW answer, NEW sending, NEW spans
  PROVE  Sanitise(answer, sending, spans)
           = (CHOOSE g : IsFold(answer, sending, spans, DOMAIN answer, g))[DOMAIN answer]
BY DEF Sanitise, FoldLeft, MapThenFoldSet, IsFold, UpTo, OneMore, Placed

LEMMA FoldUnique ==
  ASSUME NEW answer, NEW sending, NEW spans, NEW T, Positions(T), NEW U \in SUBSET T,
         NEW g, NEW h, IsFold(answer, sending, spans, T, g),
         IsFold(answer, sending, spans, U, h)
  PROVE  \A s \in SUBSET U : g[s] = h[s]
<1> DEFINE B == {s \in SUBSET U : g[s] # h[s]}
<1> SUFFICES ASSUME B # {} PROVE FALSE
  OBVIOUS
<1>0. IsFiniteSet(U)
  BY SomePositions
<1>1. B \in SUBSET (SUBSET U)
  OBVIOUS
<1> HIDE DEF B
<1>2. PICK s \in B : \A r \in B : r \subseteq s => r = s
  BY <1>0, <1>1, LeastSubset
<1>3. s \in SUBSET U /\ s \in SUBSET T /\ g[s] # h[s]
  BY DEF B
<1>4. g[s] = UpTo(answer, sending, spans, g, s) /\ h[s] = UpTo(answer, sending, spans, h, s)
  BY <1>3 DEF IsFold
<1>5. CASE s = {}
  BY <1>3, <1>4, <1>5 DEF UpTo
<1>6. CASE s # {}
  <2>1. Max(s) \in s
    BY <1>3, <1>6 DEF Positions
  <2>2. s \ {Max(s)} \in SUBSET U /\ s \ {Max(s)} \subseteq s /\ s \ {Max(s)} # s
    BY <1>3, <2>1
  <2>3. s \ {Max(s)} \notin B
    BY <1>2, <2>2
  <2>4. g[s \ {Max(s)}] = h[s \ {Max(s)}]
    BY <2>2, <2>3 DEF B
  <2> QED BY <1>3, <1>4, <1>6, <2>4 DEF UpTo
<1> QED BY <1>5, <1>6

LEMMA FoldExists ==
  ASSUME NEW answer, NEW sending, NEW spans, NEW All, Positions(All)
  PROVE  \E g : IsFold(answer, sending, spans, All, g)
<1> DEFINE Fold(T, g) == IsFold(answer, sending, spans, T, g)
           B == {T \in SUBSET All : ~ \E g : Fold(T, g)}
<1> SUFFICES ASSUME B # {} PROVE FALSE
  OBVIOUS
<1>0. B \in SUBSET (SUBSET All) /\ IsFiniteSet(All)
  BY DEF Positions
<1>1. PICK T \in B : \A U \in B : U \subseteq T => U = T
  <2> HIDE DEF B
  <2> QED BY <1>0, LeastSubset
<1>2. T \in SUBSET All /\ ~ \E g : Fold(T, g)
  OBVIOUS
<1>3. \A U \in SUBSET T : U # T => \E g : Fold(U, g)
  BY <1>1, <1>2
<1> HIDE DEF B
<1> DEFINE G(U) == CHOOSE g : Fold(U, g)
           Next(kept, s) == OneMore(kept, answer[Max(s)], sending, spans)
           h == [s \in SUBSET T |-> IF s = {} THEN <<>>
                   ELSE Next(G(s \ {Max(s)})[s \ {Max(s)}], s)]
<1>4. \A U \in SUBSET T : U # T => Fold(U, G(U))
  BY <1>3
<1> HIDE DEF G, Next
<1>5. ASSUME NEW V \in SUBSET T, V # T
      PROVE  h[V] = G(V)[V]
  <2>1. Fold(V, G(V)) /\ Positions(V)
    BY <1>2, <1>4, <1>5, SomePositions
  <2>2. G(V)[V] = UpTo(answer, sending, spans, G(V), V)
    BY <2>1 DEF IsFold
  <2>3. CASE V = {}
    BY <2>2, <2>3 DEF UpTo
  <2>4. CASE V # {}
    <3> DEFINE W == V \ {Max(V)}
    <3>1. Max(V) \in V
      BY <2>1, <2>4 DEF Positions
    <3>2. W \in SUBSET V /\ W \in SUBSET T /\ W # T
      BY <1>5, <3>1
    <3>3. Fold(W, G(W))
      BY <1>4, <3>2
    <3>5. h[V] = Next(G(W)[W], V)
      BY <2>4
    <3>6. G(V)[V] = Next(G(V)[W], V)
      BY <2>2, <2>4 DEF UpTo, Next
    <3> HIDE DEF W, h
    <3>4. G(V)[W] = G(W)[W]
      <4> DEFINE gV == G(V)
                 gW == G(W)
      <4>1. IsFold(answer, sending, spans, V, gV) /\ IsFold(answer, sending, spans, W, gW)
        BY <2>1, <3>3
      <4> HIDE DEF gV, gW
      <4>2. \A s \in SUBSET W : gV[s] = gW[s]
        BY <2>1, <3>2, <4>1, FoldUnique
      <4>3. gV[W] = gW[W]
        BY <4>2
      <4> QED BY <4>3 DEF gV, gW
    <3> QED BY <3>4, <3>5, <3>6
  <2> QED BY <2>3, <2>4
<1>6. \A s \in SUBSET T : s # {} => h[s \ {Max(s)}] = G(s \ {Max(s)})[s \ {Max(s)}]
  <2> SUFFICES ASSUME NEW s \in SUBSET T, s # {}
               PROVE  h[s \ {Max(s)}] = G(s \ {Max(s)})[s \ {Max(s)}]
    OBVIOUS
  <2>1. Max(s) \in s
    BY <1>2 DEF Positions
  <2>2. s \ {Max(s)} \in SUBSET T /\ s \ {Max(s)} # T
    BY <2>1
  <2> HIDE DEF h
  <2> QED BY <1>5, <2>2
<1>7. Fold(T, h)
  <2>1. \A s \in SUBSET T : h[s] = UpTo(answer, sending, spans, h, s)
    <3> SUFFICES ASSUME NEW s \in SUBSET T PROVE h[s] = UpTo(answer, sending, spans, h, s)
      OBVIOUS
    <3>1. h[s] = IF s = {} THEN <<>> ELSE Next(G(s \ {Max(s)})[s \ {Max(s)}], s)
      OBVIOUS
    <3> HIDE DEF h
    <3> QED BY <1>6, <3>1 DEF UpTo, Next
  <2>2. h = [s \in SUBSET T |-> h[s]]
    OBVIOUS
  <2> HIDE DEF h
  <2> QED BY <2>1, <2>2 DEF IsFold
<1> HIDE DEF h
<1> QED BY <1>2, <1>7

\* An item more leaves groups groups.
LEMMA OneMoreGroups ==
  ASSUME NEW kept, NEW item \in Item, NEW sending \in SUBSET Facts,
         NEW spans \in [Facts -> SUBSET Lines], Grouped(kept, sending)
  PROVE  Grouped(OneMore(kept, item, sending, spans), sending)
<1> DEFINE named == (item.names \cap sending) \ Placed(kept)
           new == [label |-> item.label, facts |-> named,
                   spans |-> UNION {spans[f] : f \in named}, state |-> "open"]
<1>1. kept \in Seq(Proposals) /\ named \subseteq sending
  BY DEF Grouped
<1>2. new \in Proposals /\ new.facts = named
  <2>1. item.label \in Labels /\ named \in SUBSET Facts
    BY DEF Item
  <2>2. UNION {spans[f] : f \in named} \in SUBSET Lines
    BY <2>1
  <2> QED BY <2>1, <2>2 DEF Proposals
<1>3. OneMore(kept, item, sending, spans) \in {kept, Append(kept, new)}
  BY DEF OneMore
<1>4. \A i \in DOMAIN kept : kept[i].facts \cap named = {}
  BY DEF Placed
<1> HIDE DEF named, new
<1>5. Grouped(Append(kept, new), sending)
  <2> DEFINE more == Append(kept, new)
  <2>1. /\ more \in Seq(Proposals) /\ DOMAIN more = 1..(Len(kept) + 1) /\ DOMAIN kept = 1..Len(kept)
        /\ Len(kept) \in Nat
        /\ \A i \in DOMAIN kept : more[i] = kept[i]
        /\ more[Len(kept) + 1] = new
    BY <1>1, <1>2
  <2>2. \A i \in DOMAIN more : i \in DOMAIN kept \/ i = Len(kept) + 1
    BY <2>1
  <2> HIDE DEF more
  <2>3. Apart(more)
    BY <1>2, <1>4, <2>1, <2>2 DEF Grouped, Apart
  <2>4. \A i \in DOMAIN more : more[i].facts \subseteq sending
    BY <1>1, <1>2, <2>1, <2>2 DEF Grouped
  <2>5. Grouped(more, sending)
    BY <2>1, <2>3, <2>4 DEF Grouped
  <2> QED BY <2>5 DEF more
<1> QED BY <1>3, <1>5

\* What an answer is made into is groups of what was sent.
LEMMA FoldGroups ==
  ASSUME NEW answer, NEW T, Positions(T), \A i \in T : answer[i] \in Item,
         NEW sending \in SUBSET Facts, NEW spans \in [Facts -> SUBSET Lines],
         NEW g, IsFold(answer, sending, spans, T, g)
  PROVE  \A s \in SUBSET T : Grouped(g[s], sending)
<1> DEFINE B == {s \in SUBSET T : ~ Grouped(g[s], sending)}
<1> SUFFICES ASSUME B # {} PROVE FALSE
  OBVIOUS
<1>1. B \in SUBSET (SUBSET T) /\ IsFiniteSet(T)
  BY DEF Positions
<1>2. \A s \in SUBSET T : s \in B <=> ~ Grouped(g[s], sending)
  OBVIOUS
<1> HIDE DEF B
<1>3. PICK s \in B : \A r \in B : r \subseteq s => r = s
  BY <1>1, LeastSubset
<1>4. s \in SUBSET T /\ g[s] = UpTo(answer, sending, spans, g, s)
  BY <1>1 DEF IsFold
<1>5. CASE s = {}
  <2>1. g[s] = <<>>
    BY <1>4, <1>5 DEF UpTo
  <2>2. Grouped(<<>>, sending)
    BY DEF Grouped, Apart
  <2> QED BY <1>2, <1>4, <2>1, <2>2
<1>6. CASE s # {}
  <2>1. Max(s) \in s
    BY <1>4, <1>6 DEF Positions
  <2>2. answer[Max(s)] \in Item
    BY <1>4, <2>1
  <2>3. s \ {Max(s)} \in SUBSET T /\ s \ {Max(s)} \subseteq s /\ s \ {Max(s)} # s
    BY <1>4, <2>1
  <2>4. Grouped(g[s \ {Max(s)}], sending)
    BY <1>2, <1>3, <2>3
  <2>5. g[s] = OneMore(g[s \ {Max(s)}], answer[Max(s)], sending, spans)
    BY <1>4, <1>6 DEF UpTo
  <2>6. Grouped(g[s], sending)
    BY <2>2, <2>4, <2>5, OneMoreGroups
  <2> QED BY <1>2, <1>4, <2>6
<1> QED BY <1>5, <1>6

LEMMA SanitiseGroups ==
  ASSUME NEW answer \in ModelAnswers, NEW sending \in SUBSET Facts,
         NEW spans \in [Facts -> SUBSET Lines]
  PROVE  Grouped(Sanitise(answer, sending, spans), sending)
<1>1. PICK n \in 0..MaxItems : answer \in [1..n -> Item]
  BY DEF ModelAnswers
<1>2. n \in Nat /\ DOMAIN answer = 1..n
  BY <1>1, ClustersAssumption
<1>3. Positions(1..n)
  BY <1>2, PositionsAre
<1> DEFINE T == 1..n
           g == CHOOSE f : IsFold(answer, sending, spans, T, f)
<1>4. Sanitise(answer, sending, spans) = g[T]
  BY <1>2, SanitiseIsFold
<1>5. Positions(T) /\ \A i \in T : answer[i] \in Item
  BY <1>1, <1>3
<1> HIDE DEF T
<1>6. IsFold(answer, sending, spans, T, g)
  BY <1>5, FoldExists
<1> HIDE DEF g
<1>7. \A s \in SUBSET T : Grouped(g[s], sending)
  BY <1>5, <1>6, FoldGroups
<1> QED BY <1>4, <1>7

----------------------------------------------------------------------------
(* Runs and what the user answers of their groups.                         *)

RunSound(row) ==
  row.status = "done" =>
    LET groups == DOMAIN row.proposals IN
    /\ row.sent = row.unplaced \union UNION {row.proposals[i].facts : i \in groups}
    /\ \A i \in groups :
         /\ row.proposals[i].facts \cap row.unplaced = {}
         /\ \A j \in groups \ {i} : row.proposals[i].facts \cap row.proposals[j].facts = {}

RunOK(row) == /\ row \in RunRows
              /\ row.status # "done" => DOMAIN row.proposals = {}
              /\ RunSound(row)

GrouperOK(g, row) ==
  /\ g \in GrouperRows
  /\ g.at \in Working => row.status = "pending"
  /\ g.at \in {"call", "store"} => Grouped(g.proposals, g.sending)

LEMMA GroupsParts ==
  ASSUME GroupsInv, NEW k \in Runs
  PROVE  RunOK(run[k]) /\ GrouperOK(grouper[k], run[k])
BY DEF GroupsInv, ClustersTypeOK, GroupersInv, RunsInv, NothingDropped, RunOK, RunSound, GrouperOK

\* A step that changes one run's row and thread, and begins no request.
LEMMA GroupsStep ==
  ASSUME GroupsInv, NEW k \in Runs, NEW row, NEW g,
         run' = [run EXCEPT ![k] = row], grouper' = [grouper EXCEPT ![k] = g],
         RunOK(row), GrouperOK(g, row), SameGroups(run[k].proposals, row.proposals),
         \A q \in Requests : request'[q].on => request[q].on /\ request'[q] = request[q]
  PROVE  GroupsInv'
<1>1. /\ run \in [Runs -> RunRows] /\ grouper \in [Runs -> GrouperRows]
  BY DEF GroupsInv, ClustersTypeOK, GroupersInv
<1>2. \A m \in Runs : /\ run'[m] = IF m = k THEN row ELSE run[m]
                      /\ grouper'[m] = IF m = k THEN g ELSE grouper[m]
  BY <1>1
<1>3. \A m \in Runs : RunOK(run'[m]) /\ GrouperOK(grouper'[m], run'[m])
  BY <1>2, GroupsParts
<1>4. ClustersTypeOK'
  BY <1>1, <1>3 DEF ClustersTypeOK, RunOK
<1>5. GroupersInv'
  BY <1>1, <1>3 DEF GroupersInv, GrouperOK
<1>6. RunsInv'
  BY <1>3 DEF RunsInv, NothingDropped, RunOK, RunSound
<1>7. SeenInv'
  <2> SUFFICES ASSUME NEW q \in Requests, request'[q].on, NEW m \in Runs
               PROVE  SameGroups(request'[q].others[m].proposals, run'[m].proposals)
    BY DEF SeenInv
  <2>1. SameGroups(request[q].others[m].proposals, run[m].proposals) /\ request'[q] = request[q]
    BY DEF GroupsInv, SeenInv
  <2>2. SameGroups(run[m].proposals, run'[m].proposals)
    BY <1>2 DEF SameGroups
  <2> QED BY <2>1, <2>2 DEF SameGroups
<1> QED BY <1>4, <1>5, <1>6, <1>7 DEF GroupsInv

\* A step that leaves the runs alone, and may begin a request.
LEMMA GroupsFrame ==
  ASSUME GroupsInv, UNCHANGED <<run, grouper>>,
         \A q \in Requests : request'[q].on =>
            (request[q].on /\ request'[q] = request[q]) \/ request'[q].others = run
  PROVE  GroupsInv'
<1>1. ClustersTypeOK' /\ GroupersInv' /\ RunsInv'
  BY DEF GroupsInv, ClustersTypeOK, GroupersInv, RunsInv, NothingDropped
<1>2. SeenInv'
  BY DEF GroupsInv, SeenInv, SameGroups
<1> QED BY <1>1, <1>2 DEF GroupsInv

\* A request that ends leaves the others as they are.
LEMMA EndedRequest ==
  ASSUME RequestsInv, NEW p \in Requests, request' = [request EXCEPT ![p] = NoRequest]
  PROVE  /\ \A q \in Requests : request'[q].on => request[q].on /\ request'[q] = request[q]
         /\ \A q \in Requests : request'[q] = IF q = p THEN NoRequest ELSE request[q]
<1>1. \A q \in Requests : request'[q] = IF q = p THEN NoRequest ELSE request[q]
  BY DEF RequestsInv
<1> QED BY <1>1 DEF NoRequest

LEMMA FactsKeepGroups ==
  ASSUME IInv, FactsNext, UNCHANGED clusterVars
  PROVE  GroupsInv'
<1>1. \A q \in Requests : request'[q].on => request[q].on /\ request'[q] = request[q]
  <2>1. ASSUME NEW p \in Requests,
               ConfirmFact(p) \/ ConfirmRole(p) \/ RejectFact(p) \/ RestoreFact(p)
               \/ RecordEvidence(p) \/ SaveSelfAssessment(p)
        PROVE  request' = [request EXCEPT ![p] = NoRequest]
    BY <2>1 DEF ConfirmFact, ConfirmRole, RejectFact, RestoreFact, RecordEvidence,
       SaveSelfAssessment, Commit
  <2>2. ASSUME NEW c \in Cvs,
               UploadCv(c) \/ DeliverRead(c) \/ ReadCv(c) \/ StoreFacts(c) \/ FailRead(c)
               \/ RecordRead(c) \/ LoseReader(c)
        PROVE  request' = request
    BY <2>2 DEF UploadCv, DeliverRead, ReadCv, StoreFacts, FailRead, RecordRead, LoseReader, SettleRead
  <2>3. (\E p \in Requests : request' = [request EXCEPT ![p] = NoRequest]) \/ request' = request
    BY <2>1, <2>2 DEF FactsNext
  <2> QED BY <2>3, EndedRequest DEF IInv, FactsInv
<1> QED BY <1>1, GroupsFrame DEF clusterVars, IInv

LEMMA BeginStep ==
  ASSUME IInv, NEW p \in Requests, BeginProfileRequest(p)
  PROVE  IInv'
<1> USE DEF IInv
<1> DEFINE v == [on |-> TRUE, facts |-> fact, document |-> document, profile |-> profile,
                 others |-> run, wrote |-> {}, rewrote |-> FALSE]
<1>1. /\ request' = [request EXCEPT ![p] = v]
      /\ UNCHANGED <<fact, document, told, profile, cv, run, grouper>>
  BY DEF BeginProfileRequest, BeginRequest, clusterVars
<1>2. v \in Views
  BY DEF Views, FactsInv, FactsTypeOK, FactRows, GroupsInv, ClustersTypeOK
<1>3. v.facts = fact /\ v.others = run
  OBVIOUS
<1> HIDE DEF v
<1>4. \A q \in Requests : request'[q] = IF q = p THEN v ELSE request[q]
  BY <1>1 DEF FactsInv, RequestsInv
<1>5. FactsInv'
  <2>1. FactsTypeOK'
    BY <1>1 DEF FactsInv, FactsTypeOK
  <2>2. RequestsInv'
    BY <1>1, <1>2, <1>4 DEF FactsInv, RequestsInv
  <2>3. ProbesInv'
    BY <1>1, <1>3, <1>4 DEF FactsInv, ProbesInv, Grounded
  <2> QED BY <2>1, <2>2, <2>3 DEF FactsInv
<1>6. GroupsInv'
  BY <1>1, <1>3, <1>4, GroupsFrame
<1> QED BY <1>5, <1>6

\* The facts, when a run's own step leaves them alone.
LEMMA FactsFrame ==
  ASSUME FactsInv, UNCHANGED factVars
  PROVE  FactsInv'
BY DEF FactsInv, FactsTypeOK, RequestsInv, ProbesInv, Grounded, factVars

LEMMA NoGrouperIs == NoGrouper \in GrouperRows /\ NoGrouper.at = "none"
BY DEF NoGrouper, GrouperRows, Working

\* A thread that moves on keeps what it has.
LEMMA Moved ==
  ASSUME NEW g \in GrouperRows, NEW at \in Working \union {"none", "ok", "permanent", "error"}
  PROVE  LET h == [g EXCEPT !.at = at]
         IN h \in GrouperRows /\ h.at = at /\ h.proposals = g.proposals /\ h.sending = g.sending
BY DEF GrouperRows

\* And one that has read its inputs has those.
Given(at, sending, omitted, spans) ==
  [NoGrouper EXCEPT !.at = at, !.sending = sending, !.omitted = omitted, !.spans = spans]

LEMMA GivenIs ==
  ASSUME NEW at \in Working, NEW sending \in SUBSET Facts,
         NEW omitted \in SUBSET Facts, NEW spans \in [Facts -> SUBSET Lines]
  PROVE  LET h == Given(at, sending, omitted, spans)
         IN /\ h \in GrouperRows /\ h.at = at /\ h.proposals = NoGrouper.proposals
            /\ h.sending = sending
BY NoGrouperIs DEF GrouperRows, Given

\* A step of the thread that leaves the run's row alone.
LEMMA ThreadStep ==
  ASSUME IInv, NEW k \in Runs, NEW g, run' = run, grouper' = [grouper EXCEPT ![k] = g],
         GrouperOK(g, run[k]), UNCHANGED factVars
  PROVE  IInv'
<1>1. run' = [run EXCEPT ![k] = run[k]]
  BY DEF IInv, GroupsInv, ClustersTypeOK
<1>2. SameGroups(run[k].proposals, run[k].proposals) /\ RunOK(run[k])
  BY GroupsParts DEF IInv, SameGroups
<1>3. \A q \in Requests : request'[q].on => request[q].on /\ request'[q] = request[q]
  BY DEF factVars
<1>4. GroupsInv'
  BY <1>1, <1>2, <1>3, GroupsStep DEF IInv
<1> QED BY <1>4, FactsFrame DEF IInv

LEMMA StartGroupingStep ==
  ASSUME IInv, NEW p \in Requests, StartGrouping(p)
  PROVE  IInv'
<1>1. PICK k \in Runs : /\ run[k].status = "absent"
                        /\ run' = [run EXCEPT ![k].status = "pending"]
  BY DEF StartGrouping, NextRun
<1>2. /\ Commit(p, request[p]) /\ request[p].on /\ grouper' = grouper
      /\ UNCHANGED <<told, profile, cv>>
  BY DEF StartGrouping
<1>3. FactsInv'
  <2>1. /\ Viewing(request[p]) /\ Grounded(request[p].facts) /\ told \subseteq Words
        /\ profile \in Profiles
    BY <1>2, TheView DEF IInv
  <2>2. request[p].facts \in FactRows /\ request[p].document \subseteq Lines
    BY <2>1 DEF Viewing
  <2> QED BY <1>2, <2>1, <2>2, FactsStep DEF IInv
<1>4. GroupsInv'
  <2> DEFINE row == [run[k] EXCEPT !.status = "pending"]
  <2>1. RunOK(run[k]) /\ GrouperOK(grouper[k], run[k]) /\ run \in [Runs -> RunRows]
        /\ grouper \in [Runs -> GrouperRows]
    BY GroupsParts DEF IInv, GroupsInv, ClustersTypeOK, GroupersInv
  <2>2. row \in RunRows /\ row.status = "pending" /\ row.proposals = run[k].proposals
    BY <2>1 DEF RunRows
  <2>3. run' = [run EXCEPT ![k] = row] /\ grouper' = [grouper EXCEPT ![k] = grouper[k]]
    BY <1>1, <1>2, <2>1
  <2> HIDE DEF row
  <2>4. RunOK(row) /\ SameGroups(run[k].proposals, row.proposals)
    BY <1>1, <2>1, <2>2 DEF RunOK, RunSound, SameGroups
  <2>5. GrouperOK(grouper[k], row)
    BY <1>1, <2>1, <2>2 DEF GrouperOK
  <2>6. \A q \in Requests : request'[q].on => request[q].on /\ request'[q] = request[q]
    BY <1>2, EndedRequest DEF IInv, FactsInv, Commit
  <2> QED BY <2>3, <2>4, <2>5, <2>6, GroupsStep DEF IInv
<1> QED BY <1>3, <1>4 DEF IInv

LEMMA DeliverGroupingStep ==
  ASSUME IInv, NEW k \in Runs, DeliverGrouping(k)
  PROVE  IInv'
<1> DEFINE at == IF run[k].status = "pending" THEN "inputs" ELSE "ok"
           g == [grouper[k] EXCEPT !.at = at]
<1>1. grouper \in [Runs -> GrouperRows] /\ at \in {"inputs", "ok"}
  BY DEF IInv, GroupsInv, GroupersInv
<1>2. run' = run /\ UNCHANGED factVars /\ grouper' = [grouper EXCEPT ![k] = g]
  BY DEF DeliverGrouping, GrouperAt
<1>4. at = "inputs" => run[k].status = "pending"
  OBVIOUS
<1> HIDE DEF at
<1>3. g \in GrouperRows /\ g.at = at
  BY <1>1, Moved DEF Working
<1> HIDE DEF g
<1>5. GrouperOK(g, run[k])
  BY <1>1, <1>3, <1>4 DEF GrouperOK, Working
<1> QED BY <1>2, <1>5, ThreadStep

LEMMA ReadInputsStep ==
  ASSUME IInv, NEW k \in Runs, ReadInputs(k)
  PROVE  IInv'
<1>1. /\ run' = run /\ UNCHANGED factVars /\ grouper[k].at = "inputs"
      /\ grouper[k] \in GrouperRows /\ run[k].status = "pending"
  BY GroupsParts DEF ReadInputs, IInv, GroupsInv, GrouperOK, Working
<1>2. CASE GrouperAt(k, "refuse")
  <2> DEFINE g == [grouper[k] EXCEPT !.at = "refuse"]
  <2>1. grouper' = [grouper EXCEPT ![k] = g] /\ g \in GrouperRows /\ g.at = "refuse"
    BY <1>1, <1>2, Moved DEF GrouperAt, Working
  <2> HIDE DEF g
  <2> QED BY <1>1, <2>1, ThreadStep DEF GrouperOK
<1>3. CASE ~ GrouperAt(k, "refuse")
  <2> DEFINE eligible == Eligible(fact, profile)
             sending == Sending(eligible)
             spans == [f \in Facts |-> {fact[f].span} \ {None}]
             omitted == eligible \ sending
             at == IF sending = {} THEN "store" ELSE "call"
             g == Given(at, sending, omitted, spans)
  <2>1. grouper' = [grouper EXCEPT ![k] = g]
    BY <1>3 DEF ReadInputs, Given
  <2>2. eligible \in SUBSET Facts /\ sending \in SUBSET Facts
    BY DEF Eligible, Sending
  <2>3. spans \in [Facts -> SUBSET Lines]
    <3>1. \A f \in Facts : fact[f].span \in Lines \union {None}
      BY RowParts DEF IInv, FactsInv, FactsTypeOK
    <3> QED BY <3>1
  <2>4. at \in {"store", "call"} /\ at \in Working /\ omitted \in SUBSET Facts
    BY <2>2 DEF Working
  <2> HIDE DEF eligible, sending, spans, at, omitted
  <2>7. /\ g \in GrouperRows /\ g.at = at /\ g.proposals = NoGrouper.proposals
        /\ g.sending = sending
    BY <2>2, <2>3, <2>4, GivenIs
  <2> HIDE DEF g
  <2>5. Grouped(<<>>, sending)
    BY DEF Grouped, Apart
  <2>8. NoGrouper.proposals = <<>>
    BY DEF NoGrouper
  <2>6. GrouperOK(g, run[k])
    BY <1>1, <2>4, <2>5, <2>7, <2>8 DEF GrouperOK
  <2> QED BY <1>1, <2>1, <2>6, ThreadStep
<1> QED BY <1>2, <1>3

LEMMA CallForGroupsStep ==
  ASSUME IInv, NEW k \in Runs, CallForGroups(k)
  PROVE  IInv'
<1>1. /\ run' = run /\ UNCHANGED factVars /\ grouper[k].at = "call"
      /\ grouper[k] \in GrouperRows /\ run[k].status = "pending"
  BY GroupsParts DEF CallForGroups, IInv, GroupsInv, GrouperOK, Working
<1>2. ASSUME NEW at \in {"refuse", "fail", "blocked"}, GrouperAt(k, at)
      PROVE  IInv'
  <2> DEFINE g == [grouper[k] EXCEPT !.at = at]
  <2>1. grouper' = [grouper EXCEPT ![k] = g] /\ g \in GrouperRows /\ g.at = at
    BY <1>1, <1>2, Moved DEF GrouperAt, Working
  <2> HIDE DEF g
  <2> QED BY <1>1, <2>1, ThreadStep DEF GrouperOK
<1>3. ASSUME NEW answer \in ModelAnswers,
             grouper' = [grouper EXCEPT ![k] =
               [@ EXCEPT !.at = "store",
                         !.proposals = Sanitise(answer, grouper[k].sending, grouper[k].spans)]]
      PROVE  IInv'
  <2> DEFINE made == Sanitise(answer, grouper[k].sending, grouper[k].spans)
             g == [grouper[k] EXCEPT !.at = "store", !.proposals = made]
  <2>1. grouper' = [grouper EXCEPT ![k] = g]
    BY <1>3
  <2>2. grouper[k].sending \in SUBSET Facts /\ grouper[k].spans \in [Facts -> SUBSET Lines]
    BY <1>1 DEF GrouperRows
  <2>3. Grouped(made, grouper[k].sending)
    BY <2>2, SanitiseGroups
  <2> HIDE DEF made
  <2>4. /\ g \in GrouperRows /\ g.at = "store" /\ g.proposals = made
        /\ g.sending = grouper[k].sending
    BY <1>1, <2>3 DEF GrouperRows, Working, Grouped
  <2> HIDE DEF g
  <2>5. GrouperOK(g, run[k])
    BY <1>1, <2>3, <2>4 DEF GrouperOK
  <2> QED BY <1>1, <2>1, <2>5, ThreadStep
<1> QED BY <1>2, <1>3 DEF CallForGroups

LEMMA SettleGroupingStep ==
  ASSUME IInv, NEW k \in Runs, RecordGrouping(k) \/ LoseGrouper(k)
  PROVE  IInv'
<1>1. run' = run /\ UNCHANGED factVars /\ grouper' = [grouper EXCEPT ![k] = NoGrouper]
  BY DEF RecordGrouping, LoseGrouper, SettleGrouping
<1>2. GrouperOK(NoGrouper, run[k])
  BY NoGrouperIs DEF GrouperOK, Working
<1> QED BY <1>1, <1>2, ThreadStep

\* A step of the thread that writes the run's row.
LEMMA RowStep ==
  ASSUME IInv, NEW k \in Runs, NEW row, NEW at \in {"ok", "permanent", "error"},
         run' = [run EXCEPT ![k] = row], GrouperAt(k, at),
         RunOK(row), run[k].status # "done", UNCHANGED factVars
  PROVE  IInv'
<1> DEFINE g == [grouper[k] EXCEPT !.at = at]
<1>1. grouper[k] \in GrouperRows /\ RunOK(run[k])
  BY GroupsParts DEF IInv, GrouperOK
<1>2. grouper' = [grouper EXCEPT ![k] = g] /\ g \in GrouperRows /\ g.at = at
  BY <1>1, Moved DEF GrouperAt
<1> HIDE DEF g
<1>3. GrouperOK(g, row)
  BY <1>2 DEF GrouperOK, Working
<1>4. SameGroups(run[k].proposals, row.proposals)
  BY <1>1 DEF RunOK, SameGroups
<1>5. \A q \in Requests : request'[q].on => request[q].on /\ request'[q] = request[q]
  BY DEF factVars
<1>6. GroupsInv'
  BY <1>2, <1>3, <1>4, <1>5, GroupsStep DEF IInv
<1> QED BY <1>6, FactsFrame DEF IInv

LEMMA StoreGroupsStep ==
  ASSUME IInv, NEW k \in Runs, StoreGroups(k)
  PROVE  IInv'
<1> DEFINE sending == grouper[k].sending
           made == grouper[k].proposals
           row == [status |-> "done", proposals |-> made, sent |-> sending,
                   unplaced |-> Unplaced(sending, made), omitted |-> grouper[k].omitted]
<1>1. /\ grouper[k].at = "store" /\ run' = [run EXCEPT ![k] = row]
      /\ GrouperAt(k, "ok") /\ UNCHANGED factVars
  BY DEF StoreGroups
<1>2. grouper[k] \in GrouperRows /\ run[k].status = "pending" /\ Grouped(made, sending)
  BY <1>1, GroupsParts DEF IInv, GrouperOK, Working
<1>3. sending \in SUBSET Facts /\ grouper[k].omitted \in SUBSET Facts
  BY <1>2 DEF GrouperRows
<1> HIDE DEF sending, made
<1>4. /\ row \in RunRows /\ row.status = "done" /\ row.proposals = made /\ row.sent = sending
      /\ row.unplaced = sending \ UNION {made[i].facts : i \in DOMAIN made}
  BY <1>2, <1>3 DEF RunRows, Unplaced, Grouped
<1> HIDE DEF row
<1>5. RunSound(row)
  <2>1. UNION {made[i].facts : i \in DOMAIN made} \subseteq sending
    BY <1>2 DEF Grouped
  <2>2. row.sent = row.unplaced \union UNION {made[i].facts : i \in DOMAIN made}
    BY <1>4, <2>1
  <2>3. ASSUME NEW i \in DOMAIN made PROVE made[i].facts \cap row.unplaced = {}
    BY <1>4
  <2>4. ASSUME NEW i \in DOMAIN made, NEW j \in DOMAIN made \ {i}
        PROVE  made[i].facts \cap made[j].facts = {}
    BY <1>2 DEF Grouped, Apart
  <2> QED BY <1>4, <2>2, <2>3, <2>4 DEF RunSound
<1>6. RunOK(row)
  BY <1>4, <1>5 DEF RunOK
<1> QED BY <1>1, <1>2, <1>6, RowStep

LEMMA FailGroupingStep ==
  ASSUME IInv, NEW k \in Runs, FailGrouping(k)
  PROVE  IInv'
<1> DEFINE row == [run[k] EXCEPT !.status = "failed"]
<1>1. /\ grouper[k].at \in {"refuse", "fail"} /\ run' = [run EXCEPT ![k] = row]
      /\ GrouperAt(k, IF grouper[k].at = "refuse" THEN "permanent" ELSE "error")
      /\ UNCHANGED factVars
  BY DEF FailGrouping
<1>2. RunOK(run[k]) /\ run[k].status = "pending"
  BY <1>1, GroupsParts DEF IInv, GrouperOK, Working
<1>3. row \in RunRows /\ row.status = "failed" /\ row.proposals = run[k].proposals
  BY <1>2 DEF RunOK, RunRows
<1> HIDE DEF row
<1>4. RunOK(row)
  BY <1>2, <1>3 DEF RunOK, RunSound
<1> QED BY <1>1, <1>2, <1>4, RowStep

\* What changes of a profile leaves it a profile.
LEMMA MergeTyped ==
  ASSUME NEW owner \in Profiles, NEW label \in Labels, NEW spans \in SUBSET Lines
  PROVE  /\ Merge(owner, label, spans) \in Profiles
         /\ Merge(owner, label, spans).depth = owner.depth
         /\ Merge(owner, label, spans).has = owner.has \union {label}
         /\ \A l \in Labels : Merge(owner, label, spans).evidence[l] =
              IF l = label /\ ~ (label \in owner.has /\ owner.evidence[label] # {})
              THEN spans ELSE owner.evidence[l]
<1> DEFINE behind == IF label \in owner.has /\ owner.evidence[label] # {}
                     THEN owner.evidence[label] ELSE spans
           evidence == [owner.evidence EXCEPT ![label] = behind]
           has == owner.has \union {label}
<1>1. owner.evidence \in [Labels -> SUBSET Lines] /\ owner.has \in SUBSET Labels
  BY DEF Profiles
<1>2. behind \in SUBSET Lines /\ has \in SUBSET Labels
  BY <1>1
<1>3. Merge(owner, label, spans) = [owner EXCEPT !.has = has, !.evidence = evidence]
  BY DEF Merge
<1>4. \A l \in Labels : evidence[l] =
        IF l = label /\ ~ (label \in owner.has /\ owner.evidence[label] # {})
        THEN spans ELSE owner.evidence[l]
  BY <1>1
<1>5. evidence \in [Labels -> SUBSET Lines]
  <2> HIDE DEF behind
  <2> QED BY <1>1, <1>2
<1> HIDE DEF behind, evidence, has
<1>6. /\ [owner EXCEPT !.has = has, !.evidence = evidence] \in Profiles
      /\ [owner EXCEPT !.has = has, !.evidence = evidence].has = has
      /\ [owner EXCEPT !.has = has, !.evidence = evidence].depth = owner.depth
      /\ [owner EXCEPT !.has = has, !.evidence = evidence].evidence = evidence
  BY <1>2, <1>5 DEF Profiles
<1>7. has = owner.has \union {label}
  BY DEF has
<1> QED BY <1>3, <1>4, <1>6, <1>7

\* Without a capability it had.
Dropped(owner, label) ==
  [owner EXCEPT !.has = @ \ {label}, !.evidence = [@ EXCEPT ![label] = {}]]

LEMMA DroppedTyped ==
  ASSUME NEW owner \in Profiles, NEW label \in Labels
  PROVE  /\ Dropped(owner, label) \in Profiles
         /\ Dropped(owner, label).depth = owner.depth
         /\ Dropped(owner, label).has = owner.has \ {label}
         /\ \A l \in Labels \ {label} : Dropped(owner, label).evidence[l] = owner.evidence[l]
<1> DEFINE evidence == [owner.evidence EXCEPT ![label] = {}]
           has == owner.has \ {label}
<1>1. owner.evidence \in [Labels -> SUBSET Lines] /\ owner.has \in SUBSET Labels
  BY DEF Profiles
<1>2. /\ evidence \in [Labels -> SUBSET Lines] /\ has \in SUBSET Labels
      /\ \A l \in Labels \ {label} : evidence[l] = owner.evidence[l]
  BY <1>1
<1>3. Dropped(owner, label) = [owner EXCEPT !.has = has, !.evidence = evidence]
  BY DEF Dropped
<1>4. has = owner.has \ {label}
  OBVIOUS
<1> HIDE DEF evidence, has
<1>5. /\ Dropped(owner, label) \in Profiles /\ Dropped(owner, label).has = has
      /\ Dropped(owner, label).depth = owner.depth
      /\ Dropped(owner, label).evidence = evidence
  BY <1>2, <1>3 DEF Profiles
<1> QED BY <1>2, <1>4, <1>5

\* Of numbers that are some and finitely many one is the least.
LEMMA LeastIsOne ==
  ASSUME NEW s \in SUBSET Nat, IsFiniteSet(s), s # {}
  PROVE  \E i \in s : \A j \in s : i <= j
<1> DEFINE f == [i \in s |-> {j \in s : j < i}]
<1>1. f \in [s -> SUBSET s]
  OBVIOUS
<1>2. \A i, j \in s : j \in f[i] <=> j < i
  OBVIOUS
<1> HIDE DEF f
<1>3. \A h \in [s -> SUBSET s] :
        \E i \in s : \A j \in s : h[j] \subseteq h[i] => h[j] = h[i]
  BY LeastValue
<1> PICK i \in s : \A j \in s : f[j] \subseteq f[i] => f[j] = f[i]
  BY <1>1, <1>3
<1>4. \A j \in s : i <= j
  <2> SUFFICES ASSUME NEW j \in s, ~ (i <= j) PROVE FALSE
    OBVIOUS
  <2>1. i \in Nat /\ j \in Nat /\ j < i /\ ~ (j < j)
    OBVIOUS
  <2>2. \A m \in s : m < j => m < i
    BY <2>1
  <2>3. f[j] \subseteq f[i]
    BY <1>1, <1>2, <2>2
  <2>4. j \in f[i] /\ j \notin f[j]
    BY <1>2, <2>1
  <2> QED BY <2>3, <2>4
<1> QED BY <1>4

\* The first proposal that goes by a name is one of those that do.
LEMMA FirstIs ==
  ASSUME NEW proposals \in Seq(Proposals), NEW m \in DOMAIN proposals
  PROVE  /\ FirstWith(proposals, proposals[m].label) \in DOMAIN proposals
         /\ proposals[FirstWith(proposals, proposals[m].label)].spans \subseteq Lines
<1> DEFINE label == proposals[m].label
           s == {i \in DOMAIN proposals : proposals[i].label = label}
           First(i) == /\ proposals[i].label = label
                       /\ \A j \in 1..(i - 1) : proposals[j].label # label
<1>1. DOMAIN proposals = 1..Len(proposals) /\ Len(proposals) \in Nat
  OBVIOUS
<1>2. IsFiniteSet(DOMAIN proposals)
  <2>1. IsFiniteSet(1..Len(proposals))
    BY <1>1, FS_Interval
  <2> QED BY <1>1, <2>1
<1>3. IsFiniteSet(s) /\ s # {} /\ s \in SUBSET Nat
  <2>1. IsFiniteSet(s)
    BY <1>2, FS_Subset
  <2> QED BY <1>1, <2>1
<1>4. \A i \in DOMAIN proposals : i \in s <=> proposals[i].label = label
  OBVIOUS
<1> HIDE DEF s, label
<1>5. \E i \in s : \A j \in s : i <= j
  BY <1>3, LeastIsOne
<1>6. PICK i \in s : \A j \in s : i <= j
  BY <1>5
<1>7. s \subseteq DOMAIN proposals
  BY DEF s
<1>8. i \in DOMAIN proposals /\ First(i)
  <2>1. i \in 1..Len(proposals) /\ i \in DOMAIN proposals /\ proposals[i].label = label
    BY <1>1, <1>4, <1>6, <1>7
  <2>2. ASSUME NEW j \in 1..(i - 1) PROVE proposals[j].label # label
    <3>1. j \in DOMAIN proposals /\ ~ (i <= j)
      BY <1>1, <2>1
    <3> QED BY <1>4, <1>6, <3>1
  <2> QED BY <2>1, <2>2
<1>9. FirstWith(proposals, label) = CHOOSE j \in DOMAIN proposals : First(j)
  BY DEF FirstWith
<1>10. FirstWith(proposals, label) \in DOMAIN proposals
  <2> HIDE DEF First
  <2> QED BY <1>8, <1>9
<1>11. proposals[FirstWith(proposals, label)] \in Proposals
  BY <1>1, <1>10
<1> QED BY <1>10, <1>11 DEF Proposals, label

\* An answer to a proposal, on what the request read: the run's groups are the ones they were.
AnsweredWith(old, i, state, name) ==
  [old EXCEPT ![i] = [old[i] EXCEPT !.state = state, !.label = name]]

LEMMA AnsweredSeq ==
  ASSUME NEW old \in Seq(Proposals), NEW i \in DOMAIN old,
         NEW state \in {"open", "accepted", "rejected"}, NEW name \in Labels
  PROVE  LET new == AnsweredWith(old, i, state, name)
         IN /\ new \in Seq(Proposals) /\ DOMAIN new = DOMAIN old
            /\ \A j \in DOMAIN old : new[j].facts = old[j].facts
<1> DEFINE q == [old[i] EXCEPT !.state = state, !.label = name]
           new == AnsweredWith(old, i, state, name)
<1>1. old[i] \in Proposals
  OBVIOUS
<1>2. q \in Proposals /\ q.facts = old[i].facts
  BY <1>1 DEF Proposals
<1>3. new = [old EXCEPT ![i] = q]
  BY DEF AnsweredWith
<1> HIDE DEF q, new
<1>4. DOMAIN new = DOMAIN old /\ \A j \in DOMAIN old : new[j] = IF j = i THEN q ELSE old[j]
  BY <1>3
<1>5. new \in Seq(Proposals)
  BY <1>2, <1>3
<1> QED BY <1>2, <1>4, <1>5 DEF new

LEMMA AnswerKeeps ==
  ASSUME IInv, NEW p \in Requests, request[p].on, NEW k \in Runs,
         NEW i \in DOMAIN request[p].others[k].proposals,
         NEW state \in {"open", "accepted", "rejected"}, NEW name \in Labels,
         AnswerProposal(p, k, i, state, name), grouper' = grouper,
         request' = [request EXCEPT ![p] = NoRequest]
  PROVE  GroupsInv'
<1> DEFINE old == request[p].others[k].proposals
           new == AnsweredWith(old, i, state, name)
           row == [run[k] EXCEPT !.proposals = new]
<1>1. request[p] \in Views
  BY TheView DEF IInv
<1>2. old \in Seq(Proposals)
  BY <1>1, ViewParts DEF RunRows
<1>3. /\ RunOK(run[k]) /\ GrouperOK(grouper[k], run[k]) /\ run \in [Runs -> RunRows]
      /\ grouper \in [Runs -> GrouperRows]
  BY GroupsParts DEF IInv, GroupsInv, ClustersTypeOK, GroupersInv
<1>4. /\ DOMAIN old = DOMAIN run[k].proposals
      /\ \A j \in DOMAIN old : old[j].facts = run[k].proposals[j].facts
  BY DEF IInv, GroupsInv, SeenInv, SameGroups
<1>5. run' = [run EXCEPT ![k] = row] /\ grouper' = [grouper EXCEPT ![k] = grouper[k]]
  BY <1>3 DEF AnswerProposal, AnsweredWith
<1>6. i \in DOMAIN old
  OBVIOUS
<1> HIDE DEF old
<1>7. /\ new \in Seq(Proposals) /\ DOMAIN new = DOMAIN run[k].proposals
      /\ \A j \in DOMAIN new : new[j].facts = run[k].proposals[j].facts
  <2>1. LET more == AnsweredWith(old, i, state, name)
        IN /\ more \in Seq(Proposals) /\ DOMAIN more = DOMAIN old
           /\ \A j \in DOMAIN old : more[j].facts = old[j].facts
    BY <1>2, <1>6, AnsweredSeq
  <2>2. new \in Seq(Proposals) /\ DOMAIN new = DOMAIN old
    BY <2>1
  <2>3. \A j \in DOMAIN old : new[j].facts = old[j].facts
    BY <2>1
  <2> HIDE DEF new
  <2> QED BY <1>4, <2>2, <2>3
<1>8. run[k].status = "done"
  BY <1>3, <1>4, <1>6 DEF RunOK
<1> HIDE DEF new
<1>9. /\ row \in RunRows /\ row.proposals = new /\ row.status = "done"
      /\ row.sent = run[k].sent /\ row.unplaced = run[k].unplaced
  BY <1>3, <1>7, <1>8 DEF RunOK, RunRows
<1> HIDE DEF row
<1>10. RunSound(row)
  <2>1. RunSound(run[k])
    BY <1>3 DEF RunOK
  <2> DEFINE groups == DOMAIN run[k].proposals
  <2>2. \A j \in groups : row.proposals[j].facts = run[k].proposals[j].facts
    BY <1>7, <1>9
  <2>3. DOMAIN row.proposals = groups
    BY <1>7, <1>9
  <2>4. UNION {row.proposals[j].facts : j \in groups} = UNION {run[k].proposals[j].facts : j \in groups}
    BY <2>2
  <2> QED BY <1>8, <1>9, <2>1, <2>2, <2>3, <2>4 DEF RunSound
<1>11. RunOK(row)
  BY <1>9, <1>10 DEF RunOK
<1>12. SameGroups(run[k].proposals, row.proposals)
  BY <1>7, <1>9 DEF SameGroups
<1>13. GrouperOK(grouper[k], row)
  BY <1>3, <1>8, <1>9 DEF GrouperOK
<1>14. \A q \in Requests : request'[q].on => request[q].on /\ request'[q] = request[q]
  BY EndedRequest DEF IInv, FactsInv
<1> QED BY <1>5, <1>11, <1>12, <1>13, <1>14, GroupsStep DEF IInv

\* What a request that writes no fact and no line leaves of them.
LEMMA OnlyProfile ==
  ASSUME IInv, NEW p \in Requests, request[p].on, Commit(p, request[p]),
         profile' \in Profiles, UNCHANGED <<told, cv>>
  PROVE  FactsInv' /\ request' = [request EXCEPT ![p] = NoRequest]
<1>1. Viewing(request[p]) /\ Grounded(request[p].facts) /\ told \subseteq Words
  BY TheView DEF IInv
<1>2. request[p].facts \in FactRows /\ request[p].document \subseteq Lines
  BY <1>1 DEF Viewing
<1>3. FactsInv'
  BY <1>1, <1>2, FactsStep DEF IInv
<1> QED BY <1>3 DEF Commit

\* A proposal the page names is one of the run's.
LEMMA NamedIs ==
  ASSUME IInv, NEW p \in Requests, request[p].on, NEW k \in Runs, NEW label \in Named(p, k)
  PROVE  LET all == request[p].others[k].proposals
             i == FirstWith(all, label)
         IN i \in DOMAIN all /\ all[i].spans \in SUBSET Lines /\ label \in Labels
<1> DEFINE all == request[p].others[k].proposals
<1>1. request[p] \in Views
  BY TheView DEF IInv
<1>2. all \in Seq(Proposals)
  BY <1>1, ViewParts DEF RunRows
<1>3. PICK m \in DOMAIN all : label = all[m].label
  BY DEF Named
<1> HIDE DEF all
<1>4. all[m] \in Proposals
  BY <1>2
<1>5. label \in Labels
  BY <1>3, <1>4 DEF Proposals
<1>6. /\ FirstWith(all, all[m].label) \in DOMAIN all
      /\ all[FirstWith(all, all[m].label)].spans \subseteq Lines
  BY <1>2, FirstIs
<1> QED BY <1>3, <1>5, <1>6 DEF all

LEMMA AcceptProposalStep ==
  ASSUME IInv, NEW p \in Requests, AcceptProposal(p)
  PROVE  IInv'
<1>1. request[p].on /\ Commit(p, request[p]) /\ UNCHANGED <<told, cv, grouper>>
  BY DEF AcceptProposal
<1>2. PICK k \in Runs : \E label \in Named(p, k), name \in Labels :
        LET i == FirstWith(request[p].others[k].proposals, label) IN
        /\ AnswerProposal(p, k, i, "accepted", name)
        /\ profile' = Merge(request[p].profile, name, request[p].others[k].proposals[i].spans)
  BY DEF AcceptProposal
<1>9. PICK label \in Named(p, k), name \in Labels :
        LET i == FirstWith(request[p].others[k].proposals, label) IN
        /\ AnswerProposal(p, k, i, "accepted", name)
        /\ profile' = Merge(request[p].profile, name, request[p].others[k].proposals[i].spans)
  BY <1>2
<1> DEFINE i == FirstWith(request[p].others[k].proposals, label)
           spans == request[p].others[k].proposals[i].spans
<1>3. i \in DOMAIN request[p].others[k].proposals /\ spans \in SUBSET Lines
  BY <1>1, NamedIs
<1>4. AnswerProposal(p, k, i, "accepted", name) /\ profile' = Merge(request[p].profile, name, spans)
  BY <1>9
<1>5. request[p].profile \in Profiles
  BY <1>1, TheView DEF IInv
<1> HIDE DEF i, spans
<1>6. profile' \in Profiles
  BY <1>3, <1>4, <1>5, MergeTyped
<1>7. FactsInv' /\ request' = [request EXCEPT ![p] = NoRequest]
  BY <1>1, <1>6, OnlyProfile
<1>8. GroupsInv'
  BY <1>1, <1>3, <1>4, <1>7, AnswerKeeps
<1> QED BY <1>7, <1>8 DEF IInv

LEMMA RejectProposalStep ==
  ASSUME IInv, NEW p \in Requests, RejectProposal(p)
  PROVE  IInv'
<1>1. request[p].on /\ Commit(p, request[p]) /\ UNCHANGED <<told, profile, cv, grouper>>
  BY DEF RejectProposal
<1>2. PICK k \in Runs : \E label \in Named(p, k) :
        AnswerProposal(p, k, FirstWith(request[p].others[k].proposals, label), "rejected", label)
  BY DEF RejectProposal
<1>9. PICK label \in Named(p, k) :
        AnswerProposal(p, k, FirstWith(request[p].others[k].proposals, label), "rejected", label)
  BY <1>2
<1> DEFINE i == FirstWith(request[p].others[k].proposals, label)
<1>3. i \in DOMAIN request[p].others[k].proposals /\ label \in Labels
  BY <1>1, NamedIs
<1>4. AnswerProposal(p, k, i, "rejected", label)
  BY <1>9
<1>5. profile' \in Profiles
  BY <1>1, TheView DEF IInv
<1> HIDE DEF i
<1>7. FactsInv' /\ request' = [request EXCEPT ![p] = NoRequest]
  BY <1>1, <1>5, OnlyProfile
<1>8. GroupsInv'
  BY <1>1, <1>3, <1>4, <1>7, AnswerKeeps
<1> QED BY <1>7, <1>8 DEF IInv

\* The three ways a row of the profile is made or lost by hand.
LEMMA ByHandStep ==
  ASSUME IInv, NEW p \in Requests, request[p].on, Commit(p, request[p]),
         profile' \in Profiles, UNCHANGED <<told, cv, run, grouper>>
  PROVE  IInv'
<1>1. FactsInv' /\ request' = [request EXCEPT ![p] = NoRequest]
  BY OnlyProfile
<1>2. \A q \in Requests : request'[q].on => request[q].on /\ request'[q] = request[q]
  BY <1>1, EndedRequest DEF IInv, FactsInv
<1>3. GroupsInv'
  BY <1>2, GroupsFrame DEF IInv
<1> QED BY <1>1, <1>3 DEF IInv

LEMMA SeedTyped ==
  ASSUME IInv, NEW p \in Requests, request[p].on, NEW label
  PROVE  Seed(request[p], label) \in SUBSET Lines
<1>1. request[p] \in Views /\ Viewing(request[p]) /\ Grounded(request[p].facts)
  BY TheView DEF IInv
<1>2. \A f \in Facts : request[p].facts[f].state = "confirmed" => request[p].facts[f].span \in Lines
  BY <1>1, FactParts DEF Grounded, GroundedRow
<1> QED BY <1>2 DEF Seed, Eligible

LEMMA CapabilityStep ==
  ASSUME IInv, NEW p \in Requests,
         SaveCapability(p) \/ AddCapability(p) \/ RemoveCapability(p)
  PROVE  IInv'
<1>1. request[p].on /\ Commit(p, request[p]) /\ UNCHANGED <<told, cv, run, grouper>>
  BY DEF SaveCapability, AddCapability, RemoveCapability, clusterVars
<1>2. request[p].profile \in Profiles
  BY <1>1, TheView DEF IInv
<1>3. ASSUME SaveCapability(p) PROVE profile' \in Profiles
  <2>1. PICK label \in Labels : profile' = Merge(request[p].profile, label, Seed(request[p], label))
    BY <1>3 DEF SaveCapability
  <2>2. Seed(request[p], label) \in SUBSET Lines
    BY <1>1, SeedTyped
  <2> QED BY <1>2, <2>1, <2>2, MergeTyped
<1>4. ASSUME AddCapability(p) PROVE profile' \in Profiles
  <2>1. PICK label \in Labels : profile' = Merge(request[p].profile, label, {})
    BY <1>4 DEF AddCapability
  <2> QED BY <1>2, <2>1, MergeTyped
<1>5. ASSUME RemoveCapability(p) PROVE profile' \in Profiles
  <2>1. PICK label \in request[p].profile.has : profile' = Dropped(request[p].profile, label)
    BY <1>5 DEF RemoveCapability, Dropped
  <2>2. label \in Labels
    BY <1>2 DEF Profiles
  <2> QED BY <1>2, <2>1, <2>2, DroppedTyped
<1>6. profile' \in Profiles
  BY <1>3, <1>4, <1>5
<1> QED BY <1>1, <1>6, ByHandStep

LEMMA ProfileInitInv ==
  ASSUME ProfileInit
  PROVE  IInv
<1>1. NoFact \in CandidateRows /\ \A f \in Facts : GroundedRow(f, NoFact)
  BY DEF NoFact, CandidateRows, GroundedRow
<1>2. [depth |-> None, has |-> {}, evidence |-> [l \in Labels |-> {}]] \in Profiles
  BY DEF Profiles
<1>3. ~ NoRequest.on
  BY DEF NoRequest
<1>4. FactsInv
  <2>1. FactsTypeOK
    BY <1>1, <1>2 DEF ProfileInit, FactsInit, FactsTypeOK, CvRows
  <2>2. RequestsInv
    BY DEF ProfileInit, FactsInit, RequestsInv
  <2>3. ProbesInv
    BY <1>1, <1>3 DEF ProfileInit, FactsInit, ProbesInv, Grounded
  <2> QED BY <2>1, <2>2, <2>3 DEF FactsInv
<1>5. NoRun \in RunRows /\ NoRun.status = "absent" /\ DOMAIN NoRun.proposals = {}
  BY DEF NoRun, RunRows
<1>6. GroupsInv
  <2>1. ClustersTypeOK
    BY <1>5 DEF ProfileInit, ClustersInit, ClustersTypeOK
  <2>2. GroupersInv
    BY NoGrouperIs DEF ProfileInit, ClustersInit, GroupersInv, Working
  <2>3. RunsInv
    BY <1>5 DEF ProfileInit, ClustersInit, RunsInv, NothingDropped
  <2>4. SeenInv
    BY <1>3 DEF ProfileInit, FactsInit, SeenInv
  <2> QED BY <2>1, <2>2, <2>3, <2>4 DEF GroupsInv
<1> QED BY <1>4, <1>6 DEF IInv

LEMMA ProfileNextKeeps ==
  ASSUME IInv, [MCNext]_MCVars
  PROVE  IInv'
<1>1. CASE ProfileNext
  <2>1. CASE FactsNext /\ UNCHANGED clusterVars
    BY <2>1, FactsNextKeeps, FactsKeepGroups DEF IInv
  <2>2. CASE ClustersStep
    BY <2>2, BeginStep, StartGroupingStep, AcceptProposalStep, RejectProposalStep, CapabilityStep,
       DeliverGroupingStep, ReadInputsStep, CallForGroupsStep, StoreGroupsStep,
       FailGroupingStep, SettleGroupingStep DEF ClustersStep
  <2> QED BY <1>1, <2>1, <2>2 DEF ProfileNext
<1>2. CASE UNCHANGED profileVars
  <2>1. FactsInv'
    BY <1>2, FactsFrame DEF IInv, profileVars
  <2>2. GroupsInv'
    BY <1>2, GroupsFrame DEF IInv, profileVars, clusterVars, factVars
  <2> QED BY <2>1, <2>2 DEF IInv
<1> QED BY <1>1, <1>2 DEF MCNext, MCVars

\* THEOREM Invariance: in every state the facts, the requests on them, the runs and what is
\* read of them are of their kinds, a confirmed fact has its line and its probe's answer, a
\* working thread's run waits, and a run's groups are apart and only ever answered.
THEOREM Invariance == MCSpec => []IInv
<1>1. MCInit => IInv
  BY ProfileInitInv DEF MCInit
<1>2. IInv /\ [MCNext]_MCVars => IInv'
  BY ProfileNextKeeps
<1> QED BY <1>1, <1>2, PTL DEF MCSpec

\* No confirmed fact a run was given is silently dropped (_unplaced and sanitise of
\* capability_clusters): it is in one group or named as unplaced, and the user's answers,
\* each written over the whole row's proposals as the request read them, keep it so.
THEOREM GivenAreAccounted == MCSpec => []NothingDropped
<1>1. IInv => NothingDropped
  BY DEF IInv, GroupsInv, RunsInv
<1> QED BY <1>1, Invariance, PTL

----------------------------------------------------------------------------
(* Only the user answers.                                                  *)

\* A step of the facts and what is made of them ends a request or changes no fact the
\* user has before them.
LEMMA ByARequest ==
  ASSUME IInv, ProfileNext, NEW f \in Facts, fact[f].state # "absent", fact'[f] # fact[f]
  PROVE  \E p \in Requests : request[p].on /\ ~ request'[p].on
<1>1. ASSUME NEW p \in Requests, request[p].on, request' = [request EXCEPT ![p] = NoRequest]
      PROVE  request[p].on /\ ~ request'[p].on
  BY <1>1 DEF IInv, FactsInv, RequestsInv, NoRequest
<1>2. ASSUME NEW p \in Requests,
             ConfirmFact(p) \/ ConfirmRole(p) \/ RejectFact(p) \/ RestoreFact(p)
             \/ RecordEvidence(p) \/ SaveSelfAssessment(p)
      PROVE  request[p].on /\ request' = [request EXCEPT ![p] = NoRequest]
  BY <1>2 DEF ConfirmFact, ConfirmRole, RejectFact, RestoreFact, RecordEvidence,
     SaveSelfAssessment, Commit
<1>3. ASSUME NEW p \in Requests,
             StartGrouping(p) \/ AcceptProposal(p) \/ RejectProposal(p)
             \/ SaveCapability(p) \/ AddCapability(p) \/ RemoveCapability(p)
      PROVE  request[p].on /\ request' = [request EXCEPT ![p] = NoRequest]
  BY <1>3 DEF StartGrouping, AcceptProposal, RejectProposal, SaveCapability, AddCapability,
     RemoveCapability, Commit
<1>4. ASSUME NEW p \in Requests, BeginProfileRequest(p) PROVE fact' = fact
  BY <1>4 DEF BeginProfileRequest, BeginRequest
<1>5. ASSUME NEW c \in Cvs,
             UploadCv(c) \/ DeliverRead(c) \/ ReadCv(c) \/ FailRead(c) \/ RecordRead(c) \/ LoseReader(c)
      PROVE  fact' = fact
  BY <1>5 DEF UploadCv, DeliverRead, ReadCv, FailRead, RecordRead, LoseReader, SettleRead
<1>6. ASSUME NEW c \in Cvs, StoreFacts(c) PROVE fact'[f] = fact[f]
  BY <1>6 DEF StoreFacts
<1>7. ASSUME NEW k \in Runs,
             DeliverGrouping(k) \/ ReadInputs(k) \/ CallForGroups(k) \/ StoreGroups(k)
             \/ FailGrouping(k) \/ RecordGrouping(k) \/ LoseGrouper(k)
      PROVE  fact' = fact
  BY <1>7 DEF DeliverGrouping, ReadInputs, CallForGroups, StoreGroups, FailGrouping,
     RecordGrouping, LoseGrouper, SettleGrouping, factVars
<1> QED BY <1>1, <1>2, <1>3, <1>4, <1>5, <1>6, <1>7 DEF ProfileNext, FactsNext, ClustersStep

\* THEOREM UserAnswers: a fact that is there changes only in a step that ends a request of
\* the user's, whatever CVs are read later or read again; and none that asks for an answer
\* is confirmed without one (StoreFacts, add_proposed; confirm and confirm_role).
THEOREM UserAnswers == MCSpec => OnlyTheUserAnswers
<1> DEFINE A == \A f \in Facts :
                  /\ fact[f].state # "absent" /\ fact'[f] # fact[f] =>
                       \E p \in Requests : request[p].on /\ ~ request'[p].on
                  /\ fact'[f].state = "confirmed" /\ f \in Asks => fact'[f].answer # None
<1>1. IInv /\ IInv' /\ [MCNext]_MCVars => [A]_factVars
  <2> SUFFICES ASSUME IInv, IInv', MCNext, ~ (UNCHANGED factVars) PROVE A
    BY DEF MCVars, profileVars
  <2>1. ProfileNext
    BY DEF MCNext, profileVars
  <2>2. \A f \in Facts : fact'[f].state = "confirmed" /\ f \in Asks => fact'[f].answer # None
    BY DEF IInv, FactsInv, ProbesInv, Grounded, GroundedRow
  <2>3. \A f \in Facts : fact[f].state # "absent" /\ fact'[f] # fact[f] =>
          \E p \in Requests : request[p].on /\ ~ request'[p].on
    BY <2>1, ByARequest
  <2> QED BY <2>2, <2>3
<1>2. MCSpec => [][A]_factVars
  <2> HIDE DEF A
  <2> QED BY <1>1, Invariance, PTL DEF MCSpec
<1> QED BY <1>2 DEF OnlyTheUserAnswers

----------------------------------------------------------------------------
(* What the user said is the corpus.                                       *)

\* A request at a time, and no role a CV names called as a section of the document's own.
OneRequest  == \A p, q \in Requests : p = q
OwnHeadings == \A f \in Facts : RoleOf[f] \notin {"depth", "answered"}

\* What the request in progress read is still so, but for facts read off a CV since.
FreshRow(read, row) == read = row \/ (read.state = "absent" /\ row.state = "proposed")
FreshInv == \A p \in Requests : request[p].on =>
              /\ request[p].document = document /\ request[p].profile = profile
              /\ \A f \in Facts : FreshRow(request[p].facts[f], fact[f])

\* The lines of what was said, and not taken back.
Said(rows, depth, words) ==
  {rows[f].span : f \in {g \in Facts : rows[g].state = "confirmed"}}
  \union {Own("depth", w) : w \in {depth} \ {None}} \union {Own("answered", w) : w \in words}
SaidInv == document = Said(fact, profile.depth, told)

LEMMA SaidLines ==
  ASSUME NEW rows, NEW depth, NEW words, NEW l
  PROVE  l \in Said(rows, depth, words) <=>
           \/ \E f \in Facts : rows[f].state = "confirmed" /\ l = rows[f].span
           \/ depth # None /\ l = Own("depth", depth)
           \/ \E w \in words : l = Own("answered", w)
BY DEF Said

\* Rows that are confirmed alike say the same.
LEMMA SaidAlike ==
  ASSUME NEW rows, NEW others, NEW depth, NEW words,
         \A f \in Facts : rows[f] = others[f] \/ (rows[f].state # "confirmed" /\ others[f].state # "confirmed")
  PROVE  Said(rows, depth, words) = Said(others, depth, words)
<1>1. \A l : l \in Said(rows, depth, words) <=> l \in Said(others, depth, words)
  BY SaidLines
<1> QED BY <1>1 DEF Said

\* A fact's own line is under no heading of the document's own.
LEMMA NotOwn ==
  ASSUME OwnHeadings, NEW f \in Facts, NEW row, NEW w
  PROVE  LineOf(f, row) # Own("depth", w) /\ LineOf(f, row) # Own("answered", w)
<1>1. /\ LineOf(f, row).section = RoleOf[f] /\ Own("depth", w).section = "depth"
      /\ Own("answered", w).section = "answered"
  BY DEF LineOf, Own
<1> QED BY <1>1 DEF OwnHeadings

\* What is said but for one fact.
SaidBut(v, f, depth, words, l) ==
  \/ \E g \in Facts \ {f} : v.facts[g].state = "confirmed" /\ l = v.facts[g].span
  \/ depth # None /\ l = Own("depth", depth)
  \/ \E w \in words : l = Own("answered", w)

\* The document less a fact's line that no other confirmed fact has.
LEMMA FreedSays ==
  ASSUME OwnHeadings, NEW v, Viewing(v), Grounded(v.facts), NEW f \in Facts, NEW depth, NEW words,
         v.document = Said(v.facts, depth, words)
  PROVE  \A l : l \in Freed(v, f) <=> SaidBut(v, f, depth, words, l)
<1> USE DEF SaidBut
<1>1. v.facts[f].state = "confirmed" => v.facts[f].span = LineOf(f, v.facts[f])
  BY DEF Grounded, GroundedRow
<1>2. \A w : LineOf(f, v.facts[f]) # Own("depth", w) /\ LineOf(f, v.facts[f]) # Own("answered", w)
  BY NotOwn
<1>3. \A l : l \in v.document <=>
           \/ \E g \in Facts : v.facts[g].state = "confirmed" /\ l = v.facts[g].span
           \/ depth # None /\ l = Own("depth", depth)
           \/ \E w \in words : l = Own("answered", w)
  BY SaidLines
<1>4. CASE v.facts[f].state # "confirmed"
  BY <1>3, <1>4 DEF Freed
<1>5. CASE v.facts[f].state = "confirmed" /\ Kept(v, f)
  BY <1>3, <1>5 DEF Freed, Kept
<1>6. CASE v.facts[f].state = "confirmed" /\ ~ Kept(v, f)
  <2>1. Freed(v, f) = v.document \ {v.facts[f].span}
    BY <1>1, <1>6 DEF Freed
  <2>2. \A g \in Facts \ {f} : v.facts[g].state = "confirmed" => v.facts[g].span # v.facts[f].span
    BY <1>6 DEF Kept
  <2>3. \A w : v.facts[f].span # Own("depth", w) /\ v.facts[f].span # Own("answered", w)
    BY <1>1, <1>2, <1>6
  <2> QED BY <1>3, <2>1, <2>2, <2>3
<1> QED BY <1>4, <1>5, <1>6

\* What a request makes of what it read says what was said, with the words it adds.
Says(v, depth, words) == v.document = Said(v.facts, depth, words)

LEMMA ConfirmSays ==
  ASSUME OwnHeadings, NEW v, Viewing(v), Grounded(v.facts), NEW f \in Facts,
         NEW w \in Words \union {None}, NEW a \in Answers \union {None},
         NEW depth, NEW words, Says(v, depth, words)
  PROVE  Says(Confirmed(v, f, w, a), depth, words)
<1> DEFINE c == Confirmed(v, f, w, a)
           s == Stored(v, f, w, a)
           line == LineOf(f, RowOf(v, f, w, a))
<1>1. \/ c = v
      \/ c.facts = [v.facts EXCEPT ![f] = s] /\ c.document = Freed(v, f) \union {line}
  BY ConfirmMakes
<1>2. s.state = "confirmed" /\ s.span = line
  BY RowMade
<1>3. v.facts \in FactRows
  BY DEF Viewing
<1> HIDE DEF c, s, line
<1>4. ASSUME c.facts = [v.facts EXCEPT ![f] = s], c.document = Freed(v, f) \union {line}
      PROVE  Says(c, depth, words)
  <2>1. /\ c.facts[f] = s /\ \A g \in Facts \ {f} : c.facts[g] = v.facts[g]
    BY <1>3, <1>4 DEF FactRows
  <2>2. \A l : l \in Freed(v, f) <=> SaidBut(v, f, depth, words, l)
    BY FreedSays DEF Says
  <2>3. \A l : l \in Said(c.facts, depth, words) <=>
           \/ \E g \in Facts : c.facts[g].state = "confirmed" /\ l = c.facts[g].span
           \/ depth # None /\ l = Own("depth", depth)
           \/ \E x \in words : l = Own("answered", x)
    BY SaidLines
  <2>4. \A l : l \in c.document <=> l \in Said(c.facts, depth, words)
    BY <1>2, <1>4, <2>1, <2>2, <2>3 DEF SaidBut
  <2> QED BY <1>4, <2>4 DEF Says, Said
<1>5. Says(c, depth, words)
  BY <1>1, <1>4
<1> QED BY <1>5 DEF c

LEMMA TakenBackSays ==
  ASSUME OwnHeadings, NEW v, Viewing(v), Grounded(v.facts), NEW f \in Facts,
         NEW depth, NEW words, Says(v, depth, words)
  PROVE  /\ Says(TakenBack(v, f), depth, words)
         /\ v.facts[f].state # "confirmed" => Says(Renewed(v, f), depth, words)
<1> DEFINE c == TakenBack(v, f)
           d == Renewed(v, f)
           no == Declined(v.facts[f])
           new == Unanswered(v.facts[f])
<1>1. /\ c.document = Freed(v, f) /\ c.facts = [v.facts EXCEPT ![f] = no]
      /\ d.document = v.document /\ d.facts = [v.facts EXCEPT ![f] = new]
  BY TakeBackMakes DEF TakesBack
<1>2. no.state = "rejected" /\ new.state = "proposed"
  <2>1. v.facts[f] \in CandidateRows
    BY FactParts
  <2> QED BY <2>1 DEF CandidateRows, Declined, Unanswered
<1>3. v.facts \in FactRows
  BY DEF Viewing
<1> HIDE DEF c, d, no, new
<1>4. /\ c.facts[f] = no /\ \A g \in Facts \ {f} : c.facts[g] = v.facts[g]
      /\ d.facts[f] = new /\ \A g \in Facts \ {f} : d.facts[g] = v.facts[g]
  BY <1>1, <1>3 DEF FactRows
<1>5. Says(c, depth, words)
  <2>1. \A l : l \in Freed(v, f) <=> SaidBut(v, f, depth, words, l)
    BY FreedSays DEF Says
  <2>2. \A l : l \in Said(c.facts, depth, words) <=>
           \/ \E g \in Facts : c.facts[g].state = "confirmed" /\ l = c.facts[g].span
           \/ depth # None /\ l = Own("depth", depth)
           \/ \E x \in words : l = Own("answered", x)
    BY SaidLines
  <2>3. \A l : l \in c.document <=> l \in Said(c.facts, depth, words)
    BY <1>1, <1>2, <1>4, <2>1, <2>2 DEF SaidBut
  <2>4. c.document = Freed(v, f) /\ Freed(v, f) \subseteq v.document
    BY <1>1 DEF Freed
  <2> QED BY <2>3, <2>4 DEF Says, Said
<1>6. v.facts[f].state # "confirmed" => Says(d, depth, words)
  <2> SUFFICES ASSUME v.facts[f].state # "confirmed" PROVE Says(d, depth, words)
    OBVIOUS
  <2>1. \A g \in Facts : \/ d.facts[g] = v.facts[g]
                         \/ d.facts[g].state # "confirmed" /\ v.facts[g].state # "confirmed"
    BY <1>2, <1>4
  <2>2. Said(d.facts, depth, words) = Said(v.facts, depth, words)
    BY <2>1, SaidAlike
  <2> QED BY <1>1, <2>2 DEF Says
<1> QED BY <1>5, <1>6 DEF c, d

LEMMA RoleSays ==
  ASSUME NEW v, Viewing(v), NEW form \in SUBSET Facts, NEW depth, NEW words, Says(v, depth, words)
  PROVE  Says(RoleView(v, form), depth, words)
<1> DEFINE c == RoleView(v, form)
           new == Unchecked(v, form)
<1>1. c.document = v.document \union {c.facts[f].span : f \in new}
  BY RoleMakes
<1>2. /\ new \subseteq Facts
      /\ \A f \in new : c.facts[f].state = "confirmed" /\ v.facts[f].state = "proposed"
      /\ \A f \in Facts \ new : c.facts[f] = v.facts[f]
  <2>1. c.facts = RoleRows(v, form)
    BY RoleMakes
  <2>2. v.facts \in FactRows
    BY DEF Viewing
  <2>3. new \subseteq Facts /\ \A f \in new : v.facts[f].state = "proposed"
    BY DEF Unchecked
  <2>4. \A f \in new : RoleRows(v, form)[f].state = "confirmed"
    BY <2>2, <2>3, ConfirmedRowIs DEF RoleRows, FactRows
  <2>5. \A f \in Facts \ new : RoleRows(v, form)[f] = v.facts[f]
    BY DEF RoleRows
  <2> QED BY <2>1, <2>3, <2>4, <2>5
<1> HIDE DEF c, new
<1>3. \A l : l \in Said(c.facts, depth, words) <=>
           \/ \E g \in Facts : c.facts[g].state = "confirmed" /\ l = c.facts[g].span
           \/ depth # None /\ l = Own("depth", depth)
           \/ \E x \in words : l = Own("answered", x)
  BY SaidLines
<1>4. \A l : l \in v.document <=>
           \/ \E g \in Facts : v.facts[g].state = "confirmed" /\ l = v.facts[g].span
           \/ depth # None /\ l = Own("depth", depth)
           \/ \E x \in words : l = Own("answered", x)
  BY SaidLines DEF Says
<1>5. \A l : l \in c.document <=> l \in v.document \/ \E f \in new : l = c.facts[f].span
  BY <1>1
<1>6. \A l : l \in c.document <=> l \in Said(c.facts, depth, words)
  BY <1>2, <1>3, <1>4, <1>5
<1>7. Says(c, depth, words)
  BY <1>1, <1>6 DEF Says, Said
<1> QED BY <1>7 DEF c

LEMMA EvidenceSays ==
  ASSUME NEW v, Viewing(v), NEW word \in Words, NEW depth, NEW words, Says(v, depth, words)
  PROVE  Says(WithLine(v, Own("answered", word)), depth, words \union {word})
<1> DEFINE c == WithLine(v, Own("answered", word))
<1>1. c.document = v.document \union {Own("answered", word)} /\ c.facts = v.facts
  <2> DEFINE l == Own("answered", word)
  <2>1. l \in Lines
    BY OwnTyped
  <2> HIDE DEF l
  <2>2. WithLine(v, l).document = v.document \union {l} /\ WithLine(v, l).facts = v.facts
    BY <2>1, ViewSteps
  <2> QED BY <2>2 DEF l
<1> HIDE DEF c
<1>2. {Own("answered", w) : w \in words \union {word}}
        = {Own("answered", w) : w \in words} \union {Own("answered", word)}
  OBVIOUS
<1>3. Says(c, depth, words \union {word})
  BY <1>1, <1>2 DEF Says, Said
<1> QED BY <1>3 DEF c

LEMMA SelfSays ==
  ASSUME OwnHeadings, NEW v, Viewing(v), Grounded(v.facts), NEW word \in Words \union {None},
         NEW depth, NEW words, Says(v, depth, words)
  PROVE  Says(SelfView(v, word), word, words)
<1> DEFINE c == SelfView(v, word)
<1>1. /\ c.facts = v.facts
      /\ c.document = {l \in v.document : l.section # "depth"}
                        \union {Own("depth", w) : w \in {word} \ {None}}
  BY SelfMakes
<1> HIDE DEF c
<1>2. \A l : l \in v.document <=>
           \/ \E g \in Facts : v.facts[g].state = "confirmed" /\ l = v.facts[g].span
           \/ depth # None /\ l = Own("depth", depth)
           \/ \E x \in words : l = Own("answered", x)
  BY SaidLines DEF Says
<1>3. \A l : l \in Said(v.facts, word, words) <=>
           \/ \E g \in Facts : v.facts[g].state = "confirmed" /\ l = v.facts[g].span
           \/ word # None /\ l = Own("depth", word)
           \/ \E x \in words : l = Own("answered", x)
  BY SaidLines
<1>4. \A g \in Facts : v.facts[g].state = "confirmed" => v.facts[g].span.section # "depth"
  <2>1. \A g \in Facts : v.facts[g].state = "confirmed" => v.facts[g].span = LineOf(g, v.facts[g])
    BY DEF Grounded, GroundedRow
  <2>2. \A g \in Facts : LineOf(g, v.facts[g]).section # "depth"
    BY DEF LineOf, OwnHeadings
  <2> QED BY <2>1, <2>2
<1>5. \A w : Own("depth", w).section = "depth" /\ Own("answered", w).section = "answered"
  BY DEF Own
<1>6. \A l : l \in c.document <=>
           (l \in v.document /\ l.section # "depth") \/ (word # None /\ l = Own("depth", word))
  BY <1>1
<1>7. \A l : l \in c.document <=> l \in Said(v.facts, word, words)
  BY <1>2, <1>3, <1>4, <1>5, <1>6
<1>8. Says(c, word, words)
  BY <1>1, <1>7 DEF Says, Said
<1> QED BY <1>8 DEF c

\* A CV's facts come unchecked, and change none that is there.
LEMMA FoundFacts ==
  ASSUME NEW c \in Cvs, StoreFacts(c)
  PROVE  \A f \in Facts :
           fact'[f] = fact[f] \/ (fact[f].state = "absent" /\ fact'[f].state = "proposed")
<1> DEFINE found == [NoFact EXCEPT !.state = "proposed"]
<1>1. found.state = "proposed"
  BY DEF NoFact
<1>2. \A f \in Facts : fact'[f] = fact[f] \/ (fact[f].state = "absent" /\ fact'[f] = found)
  BY DEF StoreFacts
<1> HIDE DEF found
<1> QED BY <1>1, <1>2

\* What the only request in progress read stays so until it ends.
LEMMA FreshKept ==
  ASSUME OneRequest, IInv, FreshInv, [MCNext]_MCVars
  PROVE  FreshInv'
<1>1. ASSUME NEW p \in Requests, request' = [request EXCEPT ![p] = NoRequest] PROVE FreshInv'
  <2>1. \A q \in Requests : request'[q] = NoRequest
    BY <1>1 DEF OneRequest, IInv, FactsInv, RequestsInv
  <2>2. ~ NoRequest.on
    BY DEF NoRequest
  <2> QED BY <2>1, <2>2 DEF FreshInv
<1>2. ASSUME NEW p \in Requests,
             \/ ConfirmFact(p) \/ ConfirmRole(p) \/ RejectFact(p) \/ RestoreFact(p)
             \/ RecordEvidence(p) \/ SaveSelfAssessment(p)
             \/ StartGrouping(p) \/ AcceptProposal(p) \/ RejectProposal(p)
             \/ SaveCapability(p) \/ AddCapability(p) \/ RemoveCapability(p)
      PROVE  FreshInv'
  <2>1. request' = [request EXCEPT ![p] = NoRequest]
    BY <1>2 DEF ConfirmFact, ConfirmRole, RejectFact, RestoreFact, RecordEvidence,
       SaveSelfAssessment, StartGrouping, AcceptProposal, RejectProposal, SaveCapability,
       AddCapability, RemoveCapability, Commit
  <2> QED BY <1>1, <2>1
<1>3. ASSUME NEW p \in Requests, BeginProfileRequest(p) PROVE FreshInv'
  <2> DEFINE v == [on |-> TRUE, facts |-> fact, document |-> document, profile |-> profile,
                   others |-> run, wrote |-> {}, rewrote |-> FALSE]
  <2>1. request' = [request EXCEPT ![p] = v] /\ UNCHANGED <<fact, document, told, profile>>
    BY <1>3 DEF BeginProfileRequest, BeginRequest
  <2>2. v.facts = fact /\ v.document = document /\ v.profile = profile
    OBVIOUS
  <2> HIDE DEF v
  <2>3. \A q \in Requests : request'[q] = v
    BY <2>1 DEF OneRequest, IInv, FactsInv, RequestsInv
  <2> QED BY <2>1, <2>2, <2>3 DEF FreshInv, FreshRow
<1>4. ASSUME NEW c \in Cvs, StoreFacts(c) PROVE FreshInv'
  <2>1. UNCHANGED <<document, told, profile, request>>
    BY <1>4 DEF StoreFacts
  <2>2. \A f \in Facts : fact'[f] = fact[f] \/ (fact[f].state = "absent" /\ fact'[f].state = "proposed")
    BY <1>4, FoundFacts
  <2> SUFFICES ASSUME NEW p \in Requests, request'[p].on
               PROVE  /\ request'[p].document = document' /\ request'[p].profile = profile'
                      /\ \A f \in Facts : FreshRow(request'[p].facts[f], fact'[f])
    BY DEF FreshInv
  <2>3. request'[p] = request[p] /\ request[p].on
    BY <2>1
  <2>4. \A f \in Facts : FreshRow(request[p].facts[f], fact[f])
    BY <2>3 DEF FreshInv
  <2>5. \A f \in Facts : FreshRow(request[p].facts[f], fact'[f])
    BY <2>2, <2>4 DEF FreshRow
  <2> QED BY <2>1, <2>3, <2>5 DEF FreshInv
<1>5. CASE UNCHANGED <<fact, document, profile, request>>
  BY <1>5 DEF FreshInv
<1>6. ASSUME NEW c \in Cvs,
             UploadCv(c) \/ DeliverRead(c) \/ ReadCv(c) \/ FailRead(c) \/ RecordRead(c) \/ LoseReader(c)
      PROVE  FreshInv'
  BY <1>5, <1>6 DEF UploadCv, DeliverRead, ReadCv, FailRead, RecordRead, LoseReader, SettleRead
<1>7. ASSUME NEW k \in Runs,
             DeliverGrouping(k) \/ ReadInputs(k) \/ CallForGroups(k) \/ StoreGroups(k)
             \/ FailGrouping(k) \/ RecordGrouping(k) \/ LoseGrouper(k)
      PROVE  FreshInv'
  BY <1>5, <1>7 DEF DeliverGrouping, ReadInputs, CallForGroups, StoreGroups, FailGrouping,
     RecordGrouping, LoseGrouper, SettleGrouping, factVars
<1>8. CASE UNCHANGED profileVars
  BY <1>5, <1>8 DEF profileVars, factVars
<1> QED BY <1>2, <1>3, <1>4, <1>6, <1>7, <1>8
        DEF MCNext, MCVars, ProfileNext, FactsNext, ClustersStep

LEMMA FreshAlways == ASSUME OneRequest PROVE MCSpec => []FreshInv
<1>1. MCInit => FreshInv
  BY DEF MCInit, ProfileInit, FactsInit, FreshInv, NoRequest
<1>2. IInv /\ FreshInv /\ [MCNext]_MCVars => FreshInv'
  BY FreshKept
<1> QED BY <1>1, <1>2, Invariance, PTL DEF MCSpec

\* What the request in progress read says what was said until now.
LEMMA ReadSays ==
  ASSUME FreshInv, SaidInv, NEW p \in Requests, request[p].on
  PROVE  Says(request[p], profile.depth, told)
<1>1. request[p].document = document /\ \A f \in Facts : FreshRow(request[p].facts[f], fact[f])
  BY DEF FreshInv
<1>2. \A f \in Facts : \/ request[p].facts[f] = fact[f]
                       \/ request[p].facts[f].state # "confirmed" /\ fact[f].state # "confirmed"
  BY <1>1 DEF FreshRow
<1>3. Said(request[p].facts, profile.depth, told) = Said(fact, profile.depth, told)
  BY <1>2, SaidAlike
<1> QED BY <1>1, <1>3 DEF SaidInv, Says

\* A commit of what says so leaves the corpus saying so.
LEMMA SaidStep ==
  ASSUME IInv, FreshInv, SaidInv, OneRequest, NEW p \in Requests, request[p].on,
         NEW c, Commit(p, c),
         \A f \in Facts : f \notin c.wrote => c.facts[f] = request[p].facts[f],
         ~ c.rewrote => c.document = request[p].document,
         Says(c, profile'.depth, told')
  PROVE  SaidInv'
<1>1. /\ fact' = [f \in Facts |-> IF f \in c.wrote THEN c.facts[f] ELSE fact[f]]
      /\ document' = IF c.rewrote THEN c.document ELSE document
      /\ request' = [request EXCEPT ![p] = NoRequest]
  BY DEF Commit
<1>3. document' = c.document
  BY <1>1 DEF FreshInv
<1>4. \A f \in Facts : FreshRow(request[p].facts[f], fact[f])
  BY DEF FreshInv
<1>5. \A f \in Facts : \/ fact'[f] = c.facts[f]
                       \/ fact'[f].state # "confirmed" /\ c.facts[f].state # "confirmed"
  BY <1>1, <1>4 DEF FreshRow
<1>6. Said(fact', profile'.depth, told') = Said(c.facts, profile'.depth, told')
  BY <1>5, SaidAlike
<1> QED BY <1>3, <1>6 DEF SaidInv, Says

LEMMA ConfirmFactSays ==
  ASSUME IInv, FreshInv, SaidInv, OneRequest, OwnHeadings, NEW p \in Requests, ConfirmFact(p)
  PROVE  SaidInv'
<1> DEFINE v == request[p]
<1>1. v.on /\ Viewing(v) /\ Grounded(v.facts)
  BY TheView DEF ConfirmFact, IInv
<1>2. Says(v, profile.depth, told)
  BY <1>1, ReadSays
<1>3. PICK f \in Facts, w \in Words \union {None}, a \in Answers \union {None} :
        Commit(p, Confirmed(v, f, w, a))
  BY DEF ConfirmFact
<1>4. UNCHANGED <<told, profile>>
  BY DEF ConfirmFact
<1> DEFINE c == Confirmed(v, f, w, a)
<1> HIDE DEF v
<1>5. Says(c, profile.depth, told)
  BY <1>1, <1>2, ConfirmSays
<1>6. \/ c = v
      \/ c.facts = [v.facts EXCEPT ![f] = Stored(v, f, w, a)] /\ c.wrote = v.wrote \union {f} /\ c.rewrote
  BY <1>1, ConfirmMakes
<1> HIDE DEF c
<1>7. /\ \A g \in Facts : g \notin c.wrote => c.facts[g] = v.facts[g]
      /\ ~ c.rewrote => c.document = v.document
  BY <1>1, <1>6 DEF Viewing, FactRows
<1>8. Commit(p, c)
  BY <1>3 DEF c
<1>9. Says(c, profile'.depth, told')
  BY <1>4, <1>5
<1> QED BY <1>1, <1>7, <1>8, <1>9, SaidStep DEF v

LEMMA ConfirmRoleSays ==
  ASSUME IInv, FreshInv, SaidInv, OneRequest, NEW p \in Requests, ConfirmRole(p)
  PROVE  SaidInv'
<1> DEFINE v == request[p]
<1>1. v.on /\ Viewing(v)
  BY TheView DEF ConfirmRole, IInv
<1>2. Says(v, profile.depth, told)
  BY <1>1, ReadSays
<1>3. PICK form \in SUBSET Facts : Commit(p, RoleView(v, form))
  BY DEF ConfirmRole, RoleView, RoleRows, Unchecked
<1>4. UNCHANGED <<told, profile>>
  BY DEF ConfirmRole
<1> DEFINE c == RoleView(v, form)
<1> HIDE DEF v
<1>5. Says(c, profile.depth, told)
  BY <1>1, <1>2, RoleSays
<1>6. c.facts = RoleRows(v, form) /\ c.wrote = Unchecked(v, form) /\ c.rewrote
  BY <1>1, RoleMakes
<1> HIDE DEF c
<1>7. \A g \in Facts : g \notin c.wrote => c.facts[g] = v.facts[g]
  BY <1>6 DEF RoleRows
<1>8. Commit(p, c)
  BY <1>3 DEF c
<1>9. Says(c, profile'.depth, told')
  BY <1>4, <1>5
<1> QED BY <1>1, <1>6, <1>7, <1>8, <1>9, SaidStep DEF v

LEMMA TakeBackSays ==
  ASSUME IInv, FreshInv, SaidInv, OneRequest, OwnHeadings, NEW p \in Requests,
         RejectFact(p) \/ RestoreFact(p)
  PROVE  SaidInv'
<1> DEFINE v == request[p]
<1>1. v.on /\ Viewing(v) /\ Grounded(v.facts) /\ v.facts \in FactRows
  BY TheView DEF RejectFact, RestoreFact, IInv, Viewing
<1>2. Says(v, profile.depth, told)
  BY <1>1, ReadSays
<1>3. UNCHANGED <<told, profile>>
  BY DEF RejectFact, RestoreFact
<1>4. \/ \E f \in Facts : Commit(p, TakenBack(v, f))
      \/ \E f \in Facts : v.facts[f].state = "rejected" /\ Commit(p, Renewed(v, f))
  BY DEF RejectFact, RestoreFact, TakenBack, Renewed, Declined, Unanswered
<1> HIDE DEF v
<1>5. ASSUME NEW f \in Facts, Commit(p, TakenBack(v, f)) PROVE SaidInv'
  <2> DEFINE c == TakenBack(v, f)
  <2>1. /\ c.wrote = v.wrote \union {f} /\ c.document = Freed(v, f)
        /\ Freed(v, f) # v.document => c.rewrote
        /\ \A g \in Facts \ {f} : c.facts[g] = v.facts[g]
    BY <1>1, TakeBackLeaves
  <2>2. Says(c, profile.depth, told)
    BY <1>1, <1>2, TakenBackSays
  <2> HIDE DEF c
  <2>3. /\ \A g \in Facts : g \notin c.wrote => c.facts[g] = v.facts[g]
        /\ ~ c.rewrote => c.document = v.document
    BY <1>1, <2>1
  <2>4. Commit(p, c) /\ Says(c, profile'.depth, told')
    BY <1>3, <1>5, <2>2 DEF c
  <2> QED BY <1>1, <2>3, <2>4, SaidStep DEF v
<1>6. ASSUME NEW f \in Facts, v.facts[f].state = "rejected", Commit(p, Renewed(v, f))
      PROVE  SaidInv'
  <2> DEFINE c == Renewed(v, f)
  <2>1. /\ c.wrote = v.wrote \union {f} /\ c.document = v.document
        /\ \A g \in Facts \ {f} : c.facts[g] = v.facts[g]
    BY <1>1, TakeBackLeaves
  <2>2. Says(c, profile.depth, told)
    BY <1>1, <1>2, <1>6, TakenBackSays
  <2> HIDE DEF c
  <2>3. /\ \A g \in Facts : g \notin c.wrote => c.facts[g] = v.facts[g]
        /\ ~ c.rewrote => c.document = v.document
    BY <1>1, <2>1
  <2>4. Commit(p, c) /\ Says(c, profile'.depth, told')
    BY <1>3, <1>6, <2>2 DEF c
  <2> QED BY <1>1, <2>3, <2>4, SaidStep DEF v
<1> QED BY <1>4, <1>5, <1>6

LEMMA RecordEvidenceSays ==
  ASSUME IInv, FreshInv, SaidInv, OneRequest, NEW p \in Requests, RecordEvidence(p)
  PROVE  SaidInv'
<1> DEFINE v == request[p]
<1>1. v.on /\ Viewing(v)
  BY TheView DEF RecordEvidence, IInv
<1>2. Says(v, profile.depth, told)
  BY <1>1, ReadSays
<1>3. PICK word \in Words : /\ Commit(p, WithLine(v, Own("answered", word)))
                            /\ told' = told \union {word}
  BY DEF RecordEvidence, Own
<1>4. profile' = profile
  BY DEF RecordEvidence
<1> DEFINE c == WithLine(v, Own("answered", word))
<1> HIDE DEF v
<1>5. Says(c, profile.depth, told \union {word})
  BY <1>1, <1>2, EvidenceSays
<1>6. c.facts = v.facts /\ c.rewrote
  BY <1>1, OwnTyped, ViewSteps
<1> HIDE DEF c
<1>7. Commit(p, c) /\ Says(c, profile'.depth, told')
  BY <1>3, <1>4, <1>5 DEF c
<1> QED BY <1>1, <1>6, <1>7, SaidStep DEF v

LEMMA SelfAssessmentSays ==
  ASSUME IInv, FreshInv, SaidInv, OneRequest, OwnHeadings, NEW p \in Requests,
         SaveSelfAssessment(p)
  PROVE  SaidInv'
<1> DEFINE v == request[p]
<1>1. v.on /\ Viewing(v) /\ Grounded(v.facts) /\ v.profile \in Profiles
  BY TheView DEF SaveSelfAssessment, IInv
<1>2. Says(v, profile.depth, told)
  BY <1>1, ReadSays
<1>3. PICK word \in Words \union {None} : /\ profile' = [v.profile EXCEPT !.depth = word]
                                          /\ Commit(p, SelfView(v, word))
  BY DEF SaveSelfAssessment, SelfView
<1>4. told' = told
  BY DEF SaveSelfAssessment
<1> DEFINE c == SelfView(v, word)
<1> HIDE DEF v
<1>5. Says(c, word, told)
  BY <1>1, <1>2, SelfSays
<1>6. c.facts = v.facts /\ c.rewrote
  BY <1>1, SelfMakes
<1>7. profile'.depth = word
  BY <1>1, <1>3 DEF Profiles
<1> HIDE DEF c
<1>8. Commit(p, c) /\ Says(c, profile'.depth, told')
  BY <1>3, <1>4, <1>5, <1>7 DEF c
<1> QED BY <1>1, <1>6, <1>8, SaidStep DEF v

LEMMA CvSays ==
  ASSUME SaidInv, NEW c \in Cvs,
         \/ StoreFacts(c)
         \/ UploadCv(c) \/ DeliverRead(c) \/ ReadCv(c) \/ FailRead(c) \/ RecordRead(c) \/ LoseReader(c)
  PROVE  SaidInv'
<1>1. CASE StoreFacts(c)
  <2>1. UNCHANGED <<document, told, profile, request>>
    BY <1>1 DEF StoreFacts
  <2>2. \A f \in Facts : fact'[f] = fact[f] \/ (fact[f].state = "absent" /\ fact'[f].state = "proposed")
    BY <1>1, FoundFacts
  <2>4. \A f \in Facts : \/ fact'[f] = fact[f]
                         \/ fact'[f].state # "confirmed" /\ fact[f].state # "confirmed"
    BY <2>2
  <2>5. Said(fact', profile.depth, told) = Said(fact, profile.depth, told)
    BY <2>4, SaidAlike
  <2> QED BY <2>1, <2>5 DEF SaidInv
<1>2. CASE ~ StoreFacts(c)
  <2>1. UNCHANGED <<fact, document, told, profile, request>>
    BY <1>2 DEF UploadCv, DeliverRead, ReadCv, FailRead, RecordRead, LoseReader, SettleRead
  <2> QED BY <2>1 DEF SaidInv
<1> QED BY <1>1, <1>2

\* What changes of a profile outside its own form leaves what it says of the user.
LEMMA CapabilitiesSay ==
  ASSUME IInv, FreshInv, SaidInv, OneRequest, NEW p \in Requests, request[p].on,
         Commit(p, request[p]), profile'.depth = request[p].profile.depth, UNCHANGED told
  PROVE  SaidInv'
<1>1. Says(request[p], profile.depth, told)
  BY ReadSays
<1>2. Says(request[p], profile'.depth, told')
  BY <1>1 DEF FreshInv
<1> QED BY <1>2, SaidStep

\* The profile a request leaves: the one it read, or that with a capability merged in or dropped.
LEMMA ProfileMade ==
  ASSUME IInv, NEW p \in Requests,
         AcceptProposal(p) \/ SaveCapability(p) \/ AddCapability(p) \/ RemoveCapability(p)
  PROVE  \/ \E label \in Labels, spans \in SUBSET Lines :
              profile' = Merge(request[p].profile, label, spans)
         \/ \E label \in Labels : profile' = Dropped(request[p].profile, label)
<1>1. request[p].on
  BY DEF AcceptProposal, SaveCapability, AddCapability, RemoveCapability
<1>2. request[p].profile \in Profiles
  BY <1>1, TheView DEF IInv
<1>3. ASSUME AcceptProposal(p)
      PROVE  \E label \in Labels, spans \in SUBSET Lines :
               profile' = Merge(request[p].profile, label, spans)
  <2>1. PICK k \in Runs : \E label \in Named(p, k), name \in Labels :
          LET i == FirstWith(request[p].others[k].proposals, label) IN
          profile' = Merge(request[p].profile, name, request[p].others[k].proposals[i].spans)
    BY <1>3 DEF AcceptProposal
  <2>2. PICK label \in Named(p, k), name \in Labels :
          LET i == FirstWith(request[p].others[k].proposals, label) IN
          profile' = Merge(request[p].profile, name, request[p].others[k].proposals[i].spans)
    BY <2>1
  <2> DEFINE spans == request[p].others[k].proposals[
                        FirstWith(request[p].others[k].proposals, label)].spans
  <2>3. spans \in SUBSET Lines
    BY <1>1, NamedIs
  <2>4. profile' = Merge(request[p].profile, name, spans)
    BY <2>2
  <2> HIDE DEF spans
  <2> QED BY <2>3, <2>4
<1>4. ASSUME SaveCapability(p)
      PROVE  \E label \in Labels, spans \in SUBSET Lines :
               profile' = Merge(request[p].profile, label, spans)
  <2>1. PICK label \in Labels : profile' = Merge(request[p].profile, label, Seed(request[p], label))
    BY <1>4 DEF SaveCapability
  <2>2. Seed(request[p], label) \in SUBSET Lines
    BY <1>1, SeedTyped
  <2> QED BY <2>1, <2>2
<1>5. ASSUME AddCapability(p)
      PROVE  \E label \in Labels, spans \in SUBSET Lines :
               profile' = Merge(request[p].profile, label, spans)
  BY <1>5 DEF AddCapability
<1>6. ASSUME RemoveCapability(p)
      PROVE  \E label \in Labels : profile' = Dropped(request[p].profile, label)
  <2>1. PICK label \in request[p].profile.has : profile' = Dropped(request[p].profile, label)
    BY <1>6 DEF RemoveCapability, Dropped
  <2>2. label \in Labels
    BY <1>2 DEF Profiles
  <2> QED BY <2>1, <2>2
<1> QED BY <1>3, <1>4, <1>5, <1>6

LEMMA ClustersSay ==
  ASSUME IInv, FreshInv, SaidInv, OneRequest, NEW p \in Requests,
         \/ StartGrouping(p) \/ AcceptProposal(p) \/ RejectProposal(p)
         \/ SaveCapability(p) \/ AddCapability(p) \/ RemoveCapability(p)
  PROVE  SaidInv'
<1>1. request[p].on /\ Commit(p, request[p]) /\ UNCHANGED told
  BY DEF StartGrouping, AcceptProposal, RejectProposal, SaveCapability, AddCapability,
     RemoveCapability
<1>2. request[p].profile \in Profiles /\ request[p].profile = profile
  BY <1>1, TheView DEF IInv, FreshInv
<1>3. CASE StartGrouping(p) \/ RejectProposal(p)
  <2>1. profile' = profile
    BY <1>3 DEF StartGrouping, RejectProposal
  <2> QED BY <1>1, <1>2, <2>1, CapabilitiesSay
<1>4. CASE AcceptProposal(p) \/ SaveCapability(p) \/ AddCapability(p) \/ RemoveCapability(p)
  <2>1. profile'.depth = request[p].profile.depth
    BY <1>2, <1>4, ProfileMade, MergeTyped, DroppedTyped
  <2> QED BY <1>1, <2>1, CapabilitiesSay
<1> QED BY <1>3, <1>4

LEMMA BeginSays ==
  ASSUME SaidInv, NEW p \in Requests, BeginProfileRequest(p)
  PROVE  SaidInv'
BY DEF BeginProfileRequest, BeginRequest, SaidInv

LEMMA SaidKept ==
  ASSUME OneRequest, OwnHeadings, IInv, FreshInv, SaidInv, [MCNext]_MCVars
  PROVE  SaidInv'
<1>1. CASE UNCHANGED factVars
  BY <1>1 DEF factVars, SaidInv
<1>2. CASE FactsNext
  BY <1>2, ConfirmFactSays, ConfirmRoleSays, TakeBackSays, RecordEvidenceSays, SelfAssessmentSays,
     CvSays DEF FactsNext
<1>3. CASE ClustersStep
  <2>1. ASSUME NEW k \in Runs,
               DeliverGrouping(k) \/ ReadInputs(k) \/ CallForGroups(k) \/ StoreGroups(k)
               \/ FailGrouping(k) \/ RecordGrouping(k) \/ LoseGrouper(k)
        PROVE  UNCHANGED factVars
    BY <2>1 DEF DeliverGrouping, ReadInputs, CallForGroups, StoreGroups, FailGrouping,
       RecordGrouping, LoseGrouper, SettleGrouping
  <2> QED BY <1>1, <1>3, <2>1, BeginSays, ClustersSay DEF ClustersStep
<1> QED BY <1>1, <1>2, <1>3 DEF MCNext, MCVars, ProfileNext, profileVars

LEMMA SaidInit ==
  ASSUME MCInit
  PROVE  SaidInv
<1>1. NoFact.state = "absent"
  BY DEF NoFact
<1> QED BY <1>1 DEF MCInit, ProfileInit, FactsInit, SaidInv, Said

LEMMA SaidAlways == ASSUME OneRequest, OwnHeadings PROVE MCSpec => []SaidInv
<1>1. MCInit => SaidInv
  BY SaidInit
<1>2. IInv /\ FreshInv /\ SaidInv /\ [MCNext]_MCVars => SaidInv'
  BY SaidKept
<1> QED BY <1>1, <1>2, Invariance, FreshAlways, PTL DEF MCSpec

\* THEOREM CorpusIsSaid: one request at a time, and under no role named as a section of the
\* document's own, the corpus is what the user said and has not taken back: each confirmed
\* fact in its last wording, the newest self-assessment, each answer to a push-back; however
\* many facts share a line, and whatever is read off a CV meanwhile (confirm, _release,
\* set_section, add_statement of corpus_source.py and candidate_facts.py).
THEOREM CorpusIsSaid == ASSUME OneRequest, OwnHeadings PROVE MCSpec => []CorpusIsWhatWasSaid
<1>1. IInv /\ SaidInv => CorpusIsWhatWasSaid
  <2> SUFFICES ASSUME IInv, SaidInv PROVE CorpusIsWhatWasSaid
    OBVIOUS
  <2>1. \A f \in Facts : fact[f].span = IF fact[f].state = "confirmed" THEN LineOf(f, fact[f]) ELSE None
    BY DEF IInv, FactsInv, ProbesInv, Grounded, GroundedRow
  <2>2. {fact[f].span : f \in {g \in Facts : fact[g].state = "confirmed"}}
          = {LineOf(f, fact[f]) : f \in {g \in Facts : fact[g].state = "confirmed"}}
    BY <2>1
  <2>3. document = {LineOf(f, fact[f]) : f \in {g \in Facts : fact[g].state = "confirmed"}}
                \union {[section |-> "depth", says |-> <<w, None>>] : w \in {profile.depth} \ {None}}
                \union {[section |-> "answered", says |-> <<w, None>>] : w \in told}
    BY <2>2 DEF SaidInv, Said, Own
  <2> QED BY <2>1, <2>3 DEF CorpusIsWhatWasSaid
<1> QED BY <1>1, Invariance, SaidAlways, PTL

----------------------------------------------------------------------------
(* The user's word over the model's: capabilities.                         *)

LEMMA SavedWins ==
  ASSUME IInv, FreshInv, ProfileNext, NEW l \in profile.has \cap profile'.has,
         profile'.evidence[l] # profile.evidence[l]
  PROVE  profile.evidence[l] = {}
<1>1. ASSUME NEW p \in Requests, SaveSelfAssessment(p) PROVE FALSE
  <2>1. request[p].profile = profile /\ profile \in Profiles
    BY <1>1, TheView DEF SaveSelfAssessment, FreshInv, IInv
  <2>2. \E word \in Words \union {None} : profile' = [profile EXCEPT !.depth = word]
    BY <1>1, <2>1 DEF SaveSelfAssessment
  <2>3. profile'.evidence = profile.evidence
    BY <2>1, <2>2 DEF Profiles
  <2> QED BY <2>3
<1>2. ASSUME NEW p \in Requests,
             AcceptProposal(p) \/ SaveCapability(p) \/ AddCapability(p) \/ RemoveCapability(p)
      PROVE  profile.evidence[l] = {}
  <2>1. request[p].profile = profile /\ profile \in Profiles
    BY <1>2, TheView DEF AcceptProposal, SaveCapability, AddCapability, RemoveCapability,
       FreshInv, IInv
  <2>2. l \in Labels
    BY <2>1 DEF Profiles
  <2>3. ASSUME NEW label \in Labels, NEW spans \in SUBSET Lines,
               profile' = Merge(profile, label, spans)
        PROVE  profile.evidence[l] = {}
    <3>1. Merge(profile, label, spans).evidence[l] =
            IF l = label /\ ~ (label \in profile.has /\ profile.evidence[label] # {})
            THEN spans ELSE profile.evidence[l]
      BY <2>1, <2>2, MergeTyped
    <3> QED BY <2>3, <3>1
  <2>4. ASSUME NEW label \in Labels, profile' = Dropped(profile, label) PROVE FALSE
    <3>1. /\ Dropped(profile, label).has = profile.has \ {label}
          /\ \A m \in Labels \ {label} : Dropped(profile, label).evidence[m] = profile.evidence[m]
      BY <2>1, DroppedTyped
    <3> QED BY <2>2, <2>4, <3>1
  <2> QED BY <1>2, <2>1, <2>3, <2>4, ProfileMade
<1>3. ASSUME NEW p \in Requests,
             \/ ConfirmFact(p) \/ ConfirmRole(p) \/ RejectFact(p) \/ RestoreFact(p)
             \/ RecordEvidence(p) \/ BeginProfileRequest(p) \/ StartGrouping(p) \/ RejectProposal(p)
      PROVE  profile' = profile
  BY <1>3 DEF ConfirmFact, ConfirmRole, RejectFact, RestoreFact, RecordEvidence,
     BeginProfileRequest, BeginRequest, StartGrouping, RejectProposal
<1>4. ASSUME NEW c \in Cvs,
             UploadCv(c) \/ DeliverRead(c) \/ ReadCv(c) \/ StoreFacts(c) \/ FailRead(c)
             \/ RecordRead(c) \/ LoseReader(c)
      PROVE  profile' = profile
  BY <1>4 DEF UploadCv, DeliverRead, ReadCv, StoreFacts, FailRead, RecordRead, LoseReader, SettleRead
<1>5. ASSUME NEW k \in Runs,
             DeliverGrouping(k) \/ ReadInputs(k) \/ CallForGroups(k) \/ StoreGroups(k)
             \/ FailGrouping(k) \/ RecordGrouping(k) \/ LoseGrouper(k)
      PROVE  profile' = profile
  BY <1>5 DEF DeliverGrouping, ReadInputs, CallForGroups, StoreGroups, FailGrouping,
     RecordGrouping, LoseGrouper, SettleGrouping, factVars
<1> QED BY <1>1, <1>2, <1>3, <1>4, <1>5 DEF ProfileNext, FactsNext, ClustersStep

----------------------------------------------------------------------------
(* The user's word over the model's: settings.                             *)

SettingsRow(s) == s = [practises |-> s.practises, not |-> s.not, location |-> s.location, level |-> s.level]
OfferRow(o) == /\ o = [status |-> o.status, open |-> o.open, answered |-> o.answered]
               /\ \A q \in o.open : q.kind \in S!Kinds
SuggesterRow(g) == /\ g = [at |-> g.at, already |-> g.already, proposals |-> g.proposals]
                   /\ \A q \in g.proposals : q.kind \in S!Kinds

\* What is offered and what is about to be is of the kinds of setting there are.
KindsInv ==
  /\ SettingsRow(settings)
  /\ offered = [k \in Readings |-> offered[k]] /\ \A k \in Readings : OfferRow(offered[k])
  /\ suggester = [k \in Readings |-> suggester[k]] /\ \A k \in Readings : SuggesterRow(suggester[k])

\* What the model's answer is made into: settings of the kinds there are, none answered before.
LEMMA ProposalsAre ==
  ASSUME NEW items, NEW already
  PROVE  /\ \A q \in S!ToProposals(items, already) : q.kind \in S!Kinds
         /\ S!ToProposals(items, already) \cap already = {}
BY DEF S!ToProposals, S!Kinds

\* A run's row or its thread's place, changed.
LEMMA KindsStep ==
  ASSUME KindsInv, NEW k \in Readings, NEW o, NEW g, OfferRow(o), SuggesterRow(g),
         offered' = [offered EXCEPT ![k] = o], suggester' = [suggester EXCEPT ![k] = g],
         SettingsRow(settings')
  PROVE  KindsInv'
<1>1. /\ \A j \in Readings : offered'[j] = IF j = k THEN o ELSE offered[j]
      /\ \A j \in Readings : suggester'[j] = IF j = k THEN g ELSE suggester[j]
      /\ offered' = [j \in Readings |-> offered'[j]]
      /\ suggester' = [j \in Readings |-> suggester'[j]]
  BY DEF KindsInv
<1>2. \A j \in Readings : OfferRow(offered'[j]) /\ SuggesterRow(suggester'[j])
  BY <1>1 DEF KindsInv
<1> QED BY <1>1, <1>2 DEF KindsInv

\* The rows a step of a run makes.
LEMMA OfferMoves ==
  ASSUME NEW o, OfferRow(o), NEW status
  PROVE  LET n == [o EXCEPT !.status = status]
         IN OfferRow(n) /\ n.status = status /\ n.open = o.open /\ n.answered = o.answered
BY DEF OfferRow

TakenUp(o, q) == [o EXCEPT !.open = o.open \ {q}, !.answered = o.answered \union {q}]

LEMMA OfferAnswered ==
  ASSUME NEW o, OfferRow(o), NEW q
  PROVE  LET n == TakenUp(o, q)
         IN /\ OfferRow(n) /\ n.status = o.status /\ n.open = o.open \ {q}
            /\ n.answered = o.answered \union {q}
<1> DEFINE status == o.status
           open == o.open
           answered == o.answered
           more == answered \union {q}
           less == open \ {q}
           n == TakenUp(o, q)
<1>1. /\ o = [status |-> status, open |-> open, answered |-> answered]
      /\ n = [o EXCEPT !.open = less, !.answered = more]
      /\ \A x \in less : x.kind \in S!Kinds
  BY DEF OfferRow, TakenUp
<1> HIDE DEF status, open, answered, more, less, n
<1>2. n = [status |-> status, open |-> less, answered |-> more]
  BY <1>1
<1>3. n.status = status /\ n.open = less /\ n.answered = more
  BY <1>2
<1>4. n = [status |-> n.status, open |-> n.open, answered |-> n.answered]
  BY <1>2, <1>3
<1> QED BY <1>1, <1>3, <1>4 DEF OfferRow, status, open, answered, more, less, n

LEMMA SuggesterMoves ==
  ASSUME NEW g, SuggesterRow(g), NEW at
  PROVE  LET n == [g EXCEPT !.at = at]
         IN SuggesterRow(n) /\ n.at = at /\ n.already = g.already /\ n.proposals = g.proposals
BY DEF SuggesterRow

\* A thread that has read what was answered.
Briefed(at, already) == [S!NoSuggester EXCEPT !.at = at, !.already = already]

LEMMA NoSuggesterIs ==
  /\ SuggesterRow(S!NoSuggester) /\ S!NoSuggester.at = "none"
  /\ \A at, already : LET n == Briefed(at, already)
                      IN SuggesterRow(n) /\ n.at = at /\ n.already = already /\ n.proposals = {}
<1>1. SuggesterRow(S!NoSuggester) /\ S!NoSuggester.at = "none"
  BY DEF SuggesterRow, S!NoSuggester
<1>2. ASSUME NEW at, NEW already
      PROVE  LET n == Briefed(at, already)
             IN SuggesterRow(n) /\ n.at = at /\ n.already = already /\ n.proposals = {}
  <2> DEFINE n == Briefed(at, already)
  <2>1. n = [at |-> at, already |-> already, proposals |-> {}]
    <3> DEFINE base == S!NoSuggester
               nothing == {}
    <3>1. base = [at |-> "none", already |-> nothing, proposals |-> nothing]
      BY DEF S!NoSuggester
    <3>2. n = [base EXCEPT !.at = at, !.already = already]
      BY DEF Briefed
    <3> HIDE DEF base, nothing, n
    <3>3. n = [at |-> at, already |-> already, proposals |-> nothing]
      BY <3>1, <3>2
    <3> QED BY <3>3 DEF nothing
  <2> HIDE DEF n
  <2>2. n.at = at /\ n.already = already /\ n.proposals = {}
    BY <2>1
  <2>3. SuggesterRow(n)
    BY <2>1, <2>2 DEF SuggesterRow
  <2> QED BY <2>2, <2>3 DEF n
<1> QED BY <1>1, <1>2

\* What an accepted proposal makes of the settings, by its kind.
LEMMA AppliedWins ==
  ASSUME SettingsRow(settings), NEW q, q.kind \in S!Kinds, NEW replace \in BOOLEAN,
         ~ replace => ~ S!Conflicts(q), NEW s, s \in S!Applied(q, replace)
  PROVE  /\ SettingsRow(s)
         /\ s.practises \cap s.not \subseteq settings.practises \cap settings.not
         /\ ~ replace =>
              \/ S!Agrees(q)
              \/ /\ settings.practises \subseteq s.practises
                 /\ settings.not \subseteq s.not
                 /\ settings.level # None => settings.level = s.level
                 /\ settings.location # <<>> => settings.location = s.location
<1> DEFINE w == q.values[1]
           gone == IF replace THEN {w} ELSE {}
<1>1. CASE q.kind = "discipline"
  <2>1. s = IF S!Agrees(q) THEN settings ELSE S!WithDiscipline(q, replace)
    BY <1>1 DEF S!Applied
  <2>2. CASE S!Agrees(q)
    BY <2>1, <2>2
  <2>3. CASE ~ S!Agrees(q)
    <3>1. s = [settings EXCEPT !.practises = (settings.practises \ gone) \union {w},
                               !.not = settings.not \ gone]
      BY <1>1, <2>1, <2>3 DEF S!WithDiscipline
    <3>2. /\ SettingsRow(s) /\ s.practises = (settings.practises \ gone) \union {w}
          /\ s.not = settings.not \ gone
          /\ s.level = settings.level /\ s.location = settings.location
      BY <3>1 DEF SettingsRow
    <3>3. ~ replace => w \notin settings.not
      BY <1>1, <2>3 DEF S!Conflicts
    <3> QED BY <3>2, <3>3
  <2> QED BY <2>2, <2>3
<1>2. CASE q.kind = "not_discipline"
  <2>1. s = IF S!Agrees(q) THEN settings ELSE S!WithDiscipline(q, replace)
    BY <1>2 DEF S!Applied
  <2>2. CASE S!Agrees(q)
    BY <2>1, <2>2
  <2>3. CASE ~ S!Agrees(q)
    <3>1. s = [settings EXCEPT !.practises = settings.practises \ gone,
                               !.not = (settings.not \ gone) \union {w}]
      BY <1>2, <2>1, <2>3 DEF S!WithDiscipline
    <3>2. /\ SettingsRow(s) /\ s.practises = settings.practises \ gone
          /\ s.not = (settings.not \ gone) \union {w}
          /\ s.level = settings.level /\ s.location = settings.location
      BY <3>1 DEF SettingsRow
    <3>3. ~ replace => w \notin settings.practises
      BY <1>2, <2>3 DEF S!Conflicts
    <3> QED BY <3>2, <3>3
  <2> QED BY <2>2, <2>3
<1>3. CASE q.kind = "location"
  <2>1. PICK l : s = [settings EXCEPT !.location = l]
    BY <1>3 DEF S!Applied
  <2>2. /\ SettingsRow(s) /\ s.practises = settings.practises /\ s.not = settings.not
        /\ s.level = settings.level
    BY <2>1 DEF SettingsRow
  <2>3. ~ replace => S!Agrees(q) \/ settings.location = <<>>
    BY <1>3 DEF S!Conflicts
  <2> QED BY <2>2, <2>3
<1>4. CASE q.kind = "level"
  <2>1. PICK v : s = [settings EXCEPT !.level = v]
    BY <1>4 DEF S!Applied
  <2>2. /\ SettingsRow(s) /\ s.practises = settings.practises /\ s.not = settings.not
        /\ s.location = settings.location
    BY <2>1 DEF SettingsRow
  <2>3. ~ replace => S!Agrees(q) \/ settings.level = None
    BY <1>4 DEF S!Conflicts
  <2> QED BY <2>2, <2>3
<1> QED BY <1>1, <1>2, <1>3, <1>4 DEF S!Kinds

\* Each step of a run, as a change of its row and of its thread.
LEMMA AnsweredOffer ==
  ASSUME KindsInv, NEW k \in Readings, NEW q, S!AnswerSetting(k, q)
  PROVE  /\ q \in offered[k].open /\ q.kind \in S!Kinds
         /\ StalePages \/ S!Shown(k)
         /\ offered' = [offered EXCEPT ![k] = TakenUp(offered[k], q)]
         /\ OfferRow(TakenUp(offered[k], q))
<1>1. OfferRow(offered[k])
  BY DEF KindsInv
<1> QED BY <1>1, OfferAnswered DEF S!AnswerSetting, OfferRow, TakenUp

\* The row and the thread a step of a run leaves it with.
RunMove(k, o, g) ==
  /\ OfferRow(o) /\ SuggesterRow(g)
  /\ offered' = [offered EXCEPT ![k] = o] /\ suggester' = [suggester EXCEPT ![k] = g]

LEMMA OfferFrame ==
  ASSUME KindsInv, NEW k \in Readings
  PROVE  /\ OfferRow(offered[k]) /\ SuggesterRow(suggester[k])
         /\ offered = [offered EXCEPT ![k] = offered[k]]
         /\ suggester = [suggester EXCEPT ![k] = suggester[k]]
<1>1. offered = [j \in Readings |-> offered[j]] /\ suggester = [j \in Readings |-> suggester[j]]
  BY DEF KindsInv
<1>2. OfferRow(offered[k]) /\ SuggesterRow(suggester[k])
  BY DEF KindsInv
<1> DEFINE f == offered
           g == suggester
<1> HIDE DEF f, g
<1>3. f = [j \in Readings |-> f[j]] => f = [f EXCEPT ![k] = f[k]]
  OBVIOUS
<1>4. g = [j \in Readings |-> g[j]] => g = [g EXCEPT ![k] = g[k]]
  OBVIOUS
<1> QED BY <1>1, <1>2, <1>3, <1>4 DEF f, g

\* Its row's status changes, or its thread moves, or both.
Becomes(k, status) == [offered[k] EXCEPT !.status = status]
Stood(k, at) == [suggester[k] EXCEPT !.at = at]

LEMMA StartReadingMoves ==
  ASSUME KindsInv, NEW k \in Readings, S!StartReading(k)
  PROVE  /\ RunMove(k, Becomes(k, "pending"), suggester[k]) /\ UNCHANGED settings
         /\ S!NextReading(k) /\ \A j \in Readings : offered[j].status # "pending"
<1>1. OfferRow(offered[k]) /\ SuggesterRow(suggester[k]) /\ suggester = [suggester EXCEPT ![k] = suggester[k]]
  BY OfferFrame
<1>2. OfferRow(Becomes(k, "pending"))
  BY <1>1, OfferMoves DEF Becomes
<1>3. offered' = [offered EXCEPT ![k] = Becomes(k, "pending")] /\ suggester' = suggester
  BY DEF S!StartReading, Becomes
<1> QED BY <1>1, <1>2, <1>3 DEF RunMove, S!StartReading

LEMMA ThreadMoves ==
  ASSUME KindsInv, NEW k \in Readings, NEW at, S!SuggesterAt(k, at), UNCHANGED <<offered, settings>>
  PROVE  RunMove(k, offered[k], Stood(k, at)) /\ UNCHANGED settings
<1>1. OfferRow(offered[k]) /\ SuggesterRow(suggester[k]) /\ offered = [offered EXCEPT ![k] = offered[k]]
  BY OfferFrame
<1>2. SuggesterRow(Stood(k, at))
  BY <1>1, SuggesterMoves DEF Stood
<1>3. suggester' = [suggester EXCEPT ![k] = Stood(k, at)] /\ offered' = offered
  BY DEF S!SuggesterAt, Stood
<1> QED BY <1>1, <1>2, <1>3 DEF RunMove

LEMMA ReadAnsweredMoves ==
  ASSUME KindsInv, NEW k \in Readings, S!ReadAnswered(k)
  PROVE  /\ suggester[k].at = "inputs" /\ UNCHANGED settings
         /\ \/ RunMove(k, offered[k], Stood(k, "refuse"))
            \/ \E at \in {"call", "store"} :
                 RunMove(k, offered[k], Briefed(at, UNION {offered[j].answered : j \in Readings}))
<1>1. suggester[k].at = "inputs" /\ UNCHANGED <<offered, settings>>
  BY DEF S!ReadAnswered
<1>2. CASE S!SuggesterAt(k, "refuse")
  BY <1>1, <1>2, ThreadMoves
<1>3. CASE ~ S!SuggesterAt(k, "refuse")
  <2> DEFINE already == UNION {offered[j].answered : j \in Readings}
  <2>1. PICK at \in {"call", "store"} : suggester' = [suggester EXCEPT ![k] = Briefed(at, already)]
    BY <1>3 DEF S!ReadAnswered, Briefed
  <2>2. OfferRow(offered[k]) /\ offered = [offered EXCEPT ![k] = offered[k]]
    BY OfferFrame
  <2> HIDE DEF already
  <2>3. SuggesterRow(Briefed(at, already))
    BY NoSuggesterIs
  <2>4. RunMove(k, offered[k], Briefed(at, already))
    BY <1>1, <2>1, <2>2, <2>3 DEF RunMove
  <2> QED BY <1>1, <2>4 DEF already
<1> QED BY <1>2, <1>3

\* A thread with the model's answer.
Told(k, made) == [suggester[k] EXCEPT !.at = "store", !.proposals = made]

LEMMA ToldIs ==
  ASSUME KindsInv, NEW k \in Readings, NEW made, \A q \in made : q.kind \in S!Kinds
  PROVE  /\ SuggesterRow(Told(k, made)) /\ Told(k, made).at = "store"
         /\ Told(k, made).already = suggester[k].already /\ Told(k, made).proposals = made
<1> DEFINE g == suggester[k]
           n == Told(k, made)
           at == g.at
           was == g.already
           had == g.proposals
<1>1. g = [at |-> at, already |-> was, proposals |-> had]
  BY DEF KindsInv, SuggesterRow
<1>2. n = [g EXCEPT !.at = "store", !.proposals = made]
  BY DEF Told
<1>3. was = suggester[k].already
  OBVIOUS
<1> HIDE DEF g, n, at, was, had
<1>4. n = [at |-> "store", already |-> was, proposals |-> made]
  BY <1>1, <1>2
<1>5. n.at = "store" /\ n.already = was /\ n.proposals = made
  BY <1>4
<1>6. SuggesterRow(n)
  BY <1>4, <1>5 DEF SuggesterRow
<1> QED BY <1>3, <1>5, <1>6 DEF n

LEMMA CallForSettingsMoves ==
  ASSUME KindsInv, NEW k \in Readings, S!CallForSettings(k)
  PROVE  /\ suggester[k].at = "call" /\ UNCHANGED settings
         /\ \/ \E at \in {"refuse", "fail", "blocked"} : RunMove(k, offered[k], Stood(k, at))
            \/ \E made : /\ made \cap suggester[k].already = {}
                         /\ RunMove(k, offered[k], Told(k, made))
<1>1. suggester[k].at = "call" /\ UNCHANGED <<offered, settings>>
  BY DEF S!CallForSettings
<1>2. ASSUME NEW at \in {"refuse", "fail", "blocked"}, S!SuggesterAt(k, at)
      PROVE  RunMove(k, offered[k], Stood(k, at))
  BY <1>1, <1>2, ThreadMoves
<1>3. ASSUME NEW items,
             suggester' = [suggester EXCEPT ![k] =
               [@ EXCEPT !.at = "store", !.proposals = S!ToProposals(items, suggester[k].already)]]
      PROVE  \E made : made \cap suggester[k].already = {} /\ RunMove(k, offered[k], Told(k, made))
  <2> DEFINE made == S!ToProposals(items, suggester[k].already)
  <2>1. (\A q \in made : q.kind \in S!Kinds) /\ made \cap suggester[k].already = {}
    BY ProposalsAre
  <2>2. suggester' = [suggester EXCEPT ![k] = Told(k, made)]
    BY <1>3 DEF Told
  <2> HIDE DEF made
  <2>3. SuggesterRow(Told(k, made))
    BY <2>1, ToldIs
  <2>4. OfferRow(offered[k]) /\ offered = [offered EXCEPT ![k] = offered[k]]
    BY OfferFrame
  <2>5. RunMove(k, offered[k], Told(k, made))
    BY <1>1, <2>2, <2>3, <2>4 DEF RunMove
  <2> QED BY <2>1, <2>5
<1> QED BY <1>1, <1>2, <1>3 DEF S!CallForSettings

\* What mark_done writes.
Offering(made) == [status |-> "done", open |-> made, answered |-> {}]

LEMMA StoreSettingsMoves ==
  ASSUME KindsInv, NEW k \in Readings, S!StoreSettings(k)
  PROVE  /\ suggester[k].at = "store" /\ UNCHANGED settings
         /\ RunMove(k, Offering(suggester[k].proposals), Stood(k, "ok"))
<1>1. /\ suggester[k].at = "store" /\ UNCHANGED settings /\ S!SuggesterAt(k, "ok")
      /\ offered' = [offered EXCEPT ![k] = Offering(suggester[k].proposals)]
  BY DEF S!StoreSettings, Offering
<1>2. SuggesterRow(suggester[k])
  BY DEF KindsInv
<1>3. OfferRow(Offering(suggester[k].proposals))
  BY <1>2 DEF SuggesterRow, OfferRow, Offering
<1>4. SuggesterRow(Stood(k, "ok"))
  BY <1>2, SuggesterMoves DEF Stood
<1> QED BY <1>1, <1>3, <1>4 DEF RunMove, S!SuggesterAt, Stood

LEMMA FailReadingMoves ==
  ASSUME KindsInv, NEW k \in Readings, S!FailReading(k)
  PROVE  /\ suggester[k].at \in {"refuse", "fail"} /\ UNCHANGED settings
         /\ \E at \in {"permanent", "error"} : RunMove(k, Becomes(k, "failed"), Stood(k, at))
<1>1. /\ suggester[k].at \in {"refuse", "fail"} /\ UNCHANGED settings
      /\ offered' = [offered EXCEPT ![k] = Becomes(k, "failed")]
      /\ S!SuggesterAt(k, IF suggester[k].at = "refuse" THEN "permanent" ELSE "error")
  BY DEF S!FailReading, Becomes
<1>2. PICK at \in {"permanent", "error"} : S!SuggesterAt(k, at)
  BY <1>1
<1>3. SuggesterRow(suggester[k]) /\ OfferRow(offered[k])
  BY DEF KindsInv
<1>4. OfferRow(Becomes(k, "failed")) /\ SuggesterRow(Stood(k, at))
  BY <1>3, OfferMoves, SuggesterMoves DEF Becomes, Stood
<1> QED BY <1>1, <1>2, <1>4 DEF RunMove, S!SuggesterAt, Stood

LEMMA SettleReadingMoves ==
  ASSUME KindsInv, NEW k \in Readings, S!RecordReading(k) \/ S!LoseSuggester(k)
  PROVE  RunMove(k, offered[k], S!NoSuggester) /\ UNCHANGED settings
<1>1. OfferRow(offered[k]) /\ offered = [offered EXCEPT ![k] = offered[k]]
  BY OfferFrame
<1>2. /\ suggester' = [suggester EXCEPT ![k] = S!NoSuggester] /\ UNCHANGED <<offered, settings>>
  BY DEF S!RecordReading, S!LoseSuggester, S!SettleReading
<1> QED BY <1>1, <1>2, NoSuggesterIs DEF RunMove

LEMMA AnswerMoves ==
  ASSUME KindsInv, NEW k \in Readings, NEW q, S!AnswerSetting(k, q), UNCHANGED suggester
  PROVE  RunMove(k, TakenUp(offered[k], q), suggester[k])
BY AnsweredOffer, OfferFrame DEF RunMove

LEMMA SettingsChange ==
  ASSUME NEW s, SettingsRow(s), NEW x, NEW y
  PROVE  /\ SettingsRow([s EXCEPT !.practises = x, !.not = y])
         /\ SettingsRow([s EXCEPT !.location = x, !.level = y])
<1> DEFINE practises == s.practises
           no == s.not
           location == s.location
           level == s.level
           t == [s EXCEPT !.practises = x, !.not = y]
           u == [s EXCEPT !.location = x, !.level = y]
<1>1. s = [practises |-> practises, not |-> no, location |-> location, level |-> level]
  BY DEF SettingsRow
<1>2. /\ t = [s EXCEPT !.practises = x, !.not = y]
      /\ u = [s EXCEPT !.location = x, !.level = y]
  OBVIOUS
<1> HIDE DEF practises, no, location, level, t, u
<1>3. /\ t = [practises |-> x, not |-> y, location |-> location, level |-> level]
      /\ u = [practises |-> practises, not |-> no, location |-> x, level |-> y]
  BY <1>1, <1>2
<1>4. SettingsRow(t)
  BY <1>3 DEF SettingsRow
<1>5. SettingsRow(u)
  BY <1>3 DEF SettingsRow
<1> QED BY <1>4, <1>5 DEF t, u

\* Every step of the settings, as such a move.
LEMMA EveryMove ==
  ASSUME KindsInv, S!SuggestNext
  PROVE  \/ UNCHANGED <<offered, suggester>> /\ SettingsRow(settings')
         \/ \E k \in Readings : \E o, g : RunMove(k, o, g) /\ SettingsRow(settings')
<1>1. SettingsRow(settings)
  BY DEF KindsInv
<1>2. CASE S!SaveDisciplines \/ S!SaveConstraints
  <2>1. ASSUME NEW x, NEW y, settings' = [settings EXCEPT !.practises = x, !.not = y]
        PROVE  SettingsRow(settings')
    BY <1>1, <2>1, SettingsChange
  <2>2. ASSUME NEW x, NEW y, settings' = [settings EXCEPT !.location = x, !.level = y]
        PROVE  SettingsRow(settings')
    BY <1>1, <2>2, SettingsChange
  <2>3. CASE S!SaveDisciplines
    <3>1. PICK x, y : settings' = [settings EXCEPT !.practises = x, !.not = y]
      BY <2>3 DEF S!SaveDisciplines
    <3> QED BY <2>1, <2>3, <3>1 DEF S!SaveDisciplines
  <2>4. CASE S!SaveConstraints
    <3>1. PICK x, y : settings' = [settings EXCEPT !.location = x, !.level = y]
      BY <2>4 DEF S!SaveConstraints
    <3> QED BY <2>2, <2>4, <3>1 DEF S!SaveConstraints
  <2> QED BY <1>2, <2>3, <2>4
<1>3. ASSUME NEW k \in Readings, S!StartReading(k)
      PROVE  \E o, g : RunMove(k, o, g) /\ SettingsRow(settings')
  BY <1>1, <1>3, StartReadingMoves
<1>4. ASSUME NEW k \in Readings, S!DeliverReading(k)
      PROVE  \E o, g : RunMove(k, o, g) /\ SettingsRow(settings')
  <2>1. \E at : S!SuggesterAt(k, at) /\ UNCHANGED <<offered, settings>>
    BY <1>4 DEF S!DeliverReading
  <2> QED BY <1>1, <2>1, ThreadMoves
<1>5. ASSUME NEW k \in Readings, S!ReadAnswered(k)
      PROVE  \E o, g : RunMove(k, o, g) /\ SettingsRow(settings')
  BY <1>1, <1>5, ReadAnsweredMoves
<1>6. ASSUME NEW k \in Readings, S!CallForSettings(k)
      PROVE  \E o, g : RunMove(k, o, g) /\ SettingsRow(settings')
  BY <1>1, <1>6, CallForSettingsMoves
<1>7. ASSUME NEW k \in Readings, S!StoreSettings(k) \/ S!FailReading(k)
      PROVE  \E o, g : RunMove(k, o, g) /\ SettingsRow(settings')
  BY <1>1, <1>7, StoreSettingsMoves, FailReadingMoves
<1>8. ASSUME NEW k \in Readings, S!RecordReading(k) \/ S!LoseSuggester(k)
      PROVE  \E o, g : RunMove(k, o, g) /\ SettingsRow(settings')
  BY <1>1, <1>8, SettleReadingMoves
<1>9. ASSUME NEW k \in Readings, S!RejectSetting(k)
      PROVE  \E o, g : RunMove(k, o, g) /\ SettingsRow(settings')
  BY <1>1, <1>9, AnswerMoves DEF S!RejectSetting
<1>10. ASSUME NEW k \in Readings, NEW replace \in BOOLEAN, S!AcceptSetting(k, replace)
       PROVE  \E o, g : RunMove(k, o, g) /\ SettingsRow(settings')
  <2>1. PICK q \in offered[k].open : /\ S!AnswerSetting(k, q)
                                     /\ ~ replace => ~ S!Conflicts(q)
                                     /\ settings' \in S!Applied(q, replace)
    BY <1>10 DEF S!AcceptSetting
  <2>2. UNCHANGED suggester
    BY <1>10 DEF S!AcceptSetting
  <2>3. q.kind \in S!Kinds
    BY <2>1, AnsweredOffer
  <2>4. SettingsRow(settings')
    BY <1>1, <2>1, <2>3, AppliedWins
  <2> QED BY <2>1, <2>2, <2>4, AnswerMoves
<1> QED BY <1>2, <1>3, <1>4, <1>5, <1>6, <1>7, <1>8, <1>9, <1>10 DEF S!SuggestNext

LEMMA KindsKept ==
  ASSUME KindsInv, [MCNext]_MCVars
  PROVE  KindsInv'
<1>1. CASE UNCHANGED settingsVars
  BY <1>1 DEF KindsInv, settingsVars
<1>2. CASE S!SuggestNext
  <2>1. ASSUME UNCHANGED <<offered, suggester>>, SettingsRow(settings') PROVE KindsInv'
    BY <2>1 DEF KindsInv
  <2>2. ASSUME NEW k \in Readings, NEW o, NEW g, RunMove(k, o, g), SettingsRow(settings')
        PROVE  KindsInv'
    BY <2>2, KindsStep DEF RunMove
  <2> QED BY <1>2, <2>1, <2>2, EveryMove
<1> QED BY <1>1, <1>2 DEF MCNext, MCVars

LEMMA KindsInit ==
  ASSUME MCInit
  PROVE  KindsInv
<1>1. settings = S!Blank /\ offered = [k \in Readings |-> S!NoReading]
      /\ suggester = [k \in Readings |-> S!NoSuggester]
  BY DEF MCInit, S!SuggestInit
<1>2. SettingsRow(S!Blank)
  BY DEF SettingsRow, S!Blank
<1>3. OfferRow(S!NoReading)
  BY DEF OfferRow, S!NoReading
<1> QED BY <1>1, <1>2, <1>3, NoSuggesterIs DEF KindsInv

LEMMA KindsAlways == MCSpec => []KindsInv
<1>1. MCInit => KindsInv
  BY KindsInit
<1>2. KindsInv /\ [MCNext]_MCVars => KindsInv'
  BY KindsKept
<1> QED BY <1>1, <1>2, PTL DEF MCSpec

\* The step a user's word is safe in, as an action on the settings.
Keeps(k, replace) ==
  /\ settings'.practises \cap settings'.not \subseteq settings.practises \cap settings.not
  /\ ~ replace =>
       \/ \E p \in offered[k].open \ offered'[k].open : S!Agrees(p)
       \/ /\ settings.practises \subseteq settings'.practises
          /\ settings.not \subseteq settings'.not
          /\ settings.level # None => settings.level = settings'.level
          /\ settings.location # <<>> => settings.location = settings'.location

LEMMA StatedKept ==
  ASSUME KindsInv, NEW k \in Readings, NEW replace \in BOOLEAN, S!AcceptSetting(k, replace)
  PROVE  Keeps(k, replace)
<1>1. PICK q \in offered[k].open : /\ S!AnswerSetting(k, q)
                                   /\ ~ replace => ~ S!Conflicts(q)
                                   /\ settings' \in S!Applied(q, replace)
  BY DEF S!AcceptSetting
<1>2. SettingsRow(settings) /\ OfferRow(offered[k]) /\ offered = [j \in Readings |-> offered[j]]
  BY DEF KindsInv
<1>3. q.kind \in S!Kinds /\ offered' = [offered EXCEPT ![k] = TakenUp(offered[k], q)]
  BY <1>1, AnsweredOffer
<1>4. /\ settings'.practises \cap settings'.not \subseteq settings.practises \cap settings.not
      /\ ~ replace =>
           \/ S!Agrees(q)
           \/ /\ settings.practises \subseteq settings'.practises
              /\ settings.not \subseteq settings'.not
              /\ settings.level # None => settings.level = settings'.level
              /\ settings.location # <<>> => settings.location = settings'.location
  BY <1>1, <1>2, <1>3, AppliedWins
<1>5. offered'[k] = TakenUp(offered[k], q)
  BY <1>2, <1>3
<1>6. TakenUp(offered[k], q).open = offered[k].open \ {q}
  BY <1>2, OfferAnswered
<1>7. q \in offered[k].open \ offered'[k].open
  BY <1>1, <1>5, <1>6
<1> QED BY <1>4, <1>7 DEF Keeps

\* THEOREM UsersWordStands: with one request at a time, a group the user saved with
\* lines of theirs keeps them whatever is accepted later (merge_theme), and an accepted
\* setting takes nothing the user stated unless they tick it away (conflicts, applied).
THEOREM UsersWordStands == ASSUME OneRequest PROVE MCSpec => UserOverModel
<1> DEFINE A == \A l \in profile.has \cap profile'.has :
                  profile'.evidence[l] # profile.evidence[l] => profile.evidence[l] = {}
           B == \A k \in Readings, replace \in BOOLEAN : S!AcceptSetting(k, replace) => Keeps(k, replace)
<1>1. IInv /\ FreshInv /\ [MCNext]_MCVars => [A]_profileVars
  <2> SUFFICES ASSUME IInv, FreshInv, MCNext, ~ (UNCHANGED profileVars) PROVE A
    BY DEF MCVars
  <2>1. ProfileNext
    BY DEF MCNext
  <2> QED BY <2>1, SavedWins
<1>2. KindsInv /\ [MCNext]_MCVars => [B]_S!suggestVars
  <2> SUFFICES ASSUME KindsInv PROVE B
    OBVIOUS
  <2> QED BY StatedKept
<1>3. MCSpec => [][A]_profileVars
  <2> HIDE DEF A
  <2> QED BY <1>1, Invariance, FreshAlways, PTL DEF MCSpec
<1>4. MCSpec => [][B]_S!suggestVars
  <2> HIDE DEF B
  <2> QED BY <1>2, KindsAlways, PTL DEF MCSpec
<1>5. MCSpec => SavedRowWins
  BY <1>3 DEF SavedRowWins
<1>6. S!StatedWins <=> [][B]_S!suggestVars
  BY DEF S!StatedWins, Keeps
<1>7. MCSpec => S!StatedWins
  BY <1>4, <1>6
<1> QED BY <1>5, <1>7 DEF UserOverModel

----------------------------------------------------------------------------
(* A "no" sticks.                                                          *)

AllAnswered == UNION {offered[j].answered : j \in Readings}

\* Runs are made in the order of their ids; a row holds proposals once it is done; the
\* pending row is the newest.
RowsInv ==
  /\ \A k, j \in Readings : offered[k].status = "absent" /\ j > k => offered[j].status = "absent"
  /\ \A k \in Readings : offered[k].status # "done" => offered[k].open = {} /\ offered[k].answered = {}
  /\ \A k \in Readings : offered[k].status = "pending" => S!Shown(k)

\* What a thread has read and made of it, against what is answered.
ThreadRow(o, g, all) ==
  /\ g.at \in Working => o.status = "pending"
  /\ g.at \in {"call", "store"} => g.already = all
  /\ g.at = "store" => g.proposals \cap g.already = {}

ThreadInv == \A k \in Readings : ThreadRow(offered[k], suggester[k], AllAnswered)

AnsweredInv == RowsInv /\ ThreadInv /\ S!NoIsNo

\* A move, row by row.
LEMMA RowByRow ==
  ASSUME KindsInv, NEW k \in Readings, NEW o, NEW g, RunMove(k, o, g)
  PROVE  /\ offered'[k] = o /\ suggester'[k] = g
         /\ \A j \in Readings : j # k => offered'[j] = offered[j] /\ suggester'[j] = suggester[j]
         /\ \A j \in Readings : offered'[j] = IF j = k THEN o ELSE offered[j]
BY DEF KindsInv, RunMove

\* A thread moves and its row does not.
LEMMA OnlyThread ==
  ASSUME KindsInv, AnsweredInv, NEW k \in Readings, NEW g, RunMove(k, offered[k], g),
         ThreadRow(offered[k], g, AllAnswered)
  PROVE  AnsweredInv'
<1>1. suggester'[k] = g /\ \A j \in Readings : j # k => suggester'[j] = suggester[j]
  BY DEF KindsInv, RunMove
<1>2. offered' = offered
  BY OfferFrame DEF RunMove
<1>3. RowsInv' /\ S!NoIsNo' /\ AllAnswered' = AllAnswered
  BY <1>2 DEF AnsweredInv, RowsInv, S!NoIsNo, S!Shown, AllAnswered
<1>4. ThreadInv'
  BY <1>1, <1>2, <1>3 DEF AnsweredInv, ThreadInv
<1> QED BY <1>3, <1>4 DEF AnsweredInv

\* A row changes state with nothing in it, before or after.
LEMMA StatusStep ==
  ASSUME ReadingsAssumption, KindsInv, AnsweredInv, NEW k \in Readings, NEW g, NEW status \in {"pending", "failed"},
         RunMove(k, Becomes(k, status), g), offered[k].status # "done",
         status = "pending" => S!NextReading(k) /\ \A j \in Readings : offered[j].status # "pending",
         status = "failed" => offered[k].status = "pending",
         ThreadRow(Becomes(k, status), g, AllAnswered)
  PROVE  AnsweredInv'
<1> DEFINE o == Becomes(k, status)
<1>1. o.status = status /\ o.open = offered[k].open /\ o.answered = offered[k].answered
  BY OfferMoves DEF KindsInv, Becomes
<1>2. offered[k].open = {} /\ offered[k].answered = {}
  BY DEF AnsweredInv, RowsInv
<1> HIDE DEF o
<1>3. /\ \A j \in Readings : offered'[j] = IF j = k THEN o ELSE offered[j]
      /\ suggester'[k] = g /\ \A j \in Readings : j # k => suggester'[j] = suggester[j]
  BY RowByRow DEF o
<1>4. \A j \in Readings : /\ offered'[j].open = offered[j].open
                          /\ offered'[j].answered = offered[j].answered
                          /\ offered'[j].status = IF j = k THEN status ELSE offered[j].status
  BY <1>1, <1>3
<1>5. AllAnswered' = AllAnswered
  BY <1>4 DEF AllAnswered
<1>6. \A j \in Readings : S!Shown(j)' => S!Shown(j)
  BY <1>4 DEF S!Shown
<1>7. \A i, j \in Readings : i > j \/ j > i \/ i = j
  BY DEF ReadingsAssumption
<1>8. RowsInv'
  <2>1. \A i, j \in Readings : offered'[i].status = "absent" /\ j > i => offered'[j].status = "absent"
    <3> SUFFICES ASSUME NEW i \in Readings, NEW j \in Readings, offered'[i].status = "absent", j > i
                 PROVE  offered'[j].status = "absent"
      OBVIOUS
    <3>1. i # k /\ offered[i].status = "absent" /\ offered[j].status = "absent"
      BY <1>4 DEF AnsweredInv, RowsInv
    <3>2. j # k
      <4> SUFFICES ASSUME j = k PROVE FALSE
        OBVIOUS
      <4>1. status = "pending" /\ i < k
        BY <3>1, ReadingsAssumption DEF ReadingsAssumption
      <4> QED BY <3>1, <4>1 DEF S!NextReading
    <3> QED BY <1>4, <3>1, <3>2
  <2>2. \A i \in Readings : offered'[i].status # "done" => offered'[i].open = {} /\ offered'[i].answered = {}
    BY <1>2, <1>4 DEF AnsweredInv, RowsInv
  <2>3. \A i \in Readings : offered'[i].status = "pending" => S!Shown(i)'
    <3> SUFFICES ASSUME NEW i \in Readings, offered'[i].status = "pending",
                        NEW j \in Readings, j > i
                 PROVE  offered'[j].status = "absent"
      BY DEF S!Shown
    <3>1. CASE status = "pending"
      <4>1. i = k
        BY <1>4, <3>1
      <4>2. offered[k].status = "absent"
        BY <3>1 DEF S!NextReading
      <4>3. offered[j].status = "absent"
        BY <4>1, <4>2 DEF AnsweredInv, RowsInv
      <4>4. j \in Nat /\ i \in Nat
        BY ReadingsAssumption DEF ReadingsAssumption
      <4>5. j # k
        BY <4>1, <4>4
      <4> QED BY <1>4, <4>3, <4>5
    <3>2. CASE status = "failed"
      <4>1. i # k /\ offered[i].status = "pending"
        BY <1>4, <3>2
      <4>2. offered[j].status = "absent"
        BY <4>1 DEF AnsweredInv, RowsInv, S!Shown
      <4>3. j # k
        BY <3>2, <4>2
      <4> QED BY <1>4, <4>2, <4>3
    <3> QED BY <3>1, <3>2
  <2> QED BY <2>1, <2>2, <2>3 DEF RowsInv
<1>9. S!NoIsNo'
  <2>1. \A i, j \in Readings : S!Shown(i)' => offered'[i].open \cap offered'[j].answered = {}
    BY <1>4, <1>6 DEF AnsweredInv, S!NoIsNo
  <2> QED BY <2>1 DEF S!NoIsNo
<1>10. ThreadInv'
  <2>1. \A j \in Readings : ThreadRow(offered'[j], suggester'[j], AllAnswered)
    BY <1>3 DEF AnsweredInv, ThreadInv, o
  <2> QED BY <1>5, <2>1 DEF ThreadInv
<1> QED BY <1>8, <1>9, <1>10 DEF AnsweredInv

\* The model's settings become a done run's proposals.
LEMMA OfferStep ==
  ASSUME KindsInv, AnsweredInv, NEW k \in Readings, suggester[k].at = "store",
         RunMove(k, Offering(suggester[k].proposals), Stood(k, "ok"))
  PROVE  AnsweredInv'
<1> DEFINE o == Offering(suggester[k].proposals)
           g == Stood(k, "ok")
           made == suggester[k].proposals
<1>1. o.status = "done" /\ o.open = made /\ o.answered = {}
  BY DEF Offering
<1>2. g.at = "ok"
  BY SuggesterMoves DEF KindsInv, Stood
<1>3. offered[k].status = "pending" /\ made \cap AllAnswered = {}
  BY DEF AnsweredInv, ThreadInv, ThreadRow, Working
<1>4. offered[k].answered = {} /\ S!Shown(k)
  BY <1>3 DEF AnsweredInv, RowsInv
<1> HIDE DEF o, g, made
<1>5. /\ \A j \in Readings : offered'[j] = IF j = k THEN o ELSE offered[j]
      /\ suggester'[k] = g /\ \A j \in Readings : j # k => suggester'[j] = suggester[j]
  BY RowByRow DEF o, g, made
<1>6. \A j \in Readings : /\ offered'[j].open = IF j = k THEN made ELSE offered[j].open
                          /\ offered'[j].answered = offered[j].answered
                          /\ offered'[j].status = IF j = k THEN "done" ELSE offered[j].status
  BY <1>1, <1>4, <1>5
<1>7. AllAnswered' = AllAnswered
  BY <1>6 DEF AllAnswered
<1>8. \A j \in Readings : /\ S!Shown(j)' <=> S!Shown(j)
                          /\ offered'[j].answered \subseteq AllAnswered
  BY <1>3, <1>6 DEF S!Shown, AllAnswered
<1>9. RowsInv'
  <2>1. \A i, j \in Readings : offered'[i].status = "absent" /\ j > i => offered'[j].status = "absent"
    BY <1>3, <1>6 DEF AnsweredInv, RowsInv
  <2>2. \A i \in Readings : offered'[i].status # "done" => offered'[i].open = {} /\ offered'[i].answered = {}
    BY <1>6 DEF AnsweredInv, RowsInv
  <2>3. \A i \in Readings : offered'[i].status = "pending" => S!Shown(i)'
    BY <1>6, <1>8 DEF AnsweredInv, RowsInv
  <2> QED BY <2>1, <2>2, <2>3 DEF RowsInv
<1>10. S!NoIsNo'
  <2>1. \A i, j \in Readings : S!Shown(i)' => offered'[i].open \cap offered'[j].answered = {}
    <3> SUFFICES ASSUME NEW i \in Readings, NEW j \in Readings, S!Shown(i)'
                 PROVE  offered'[i].open \cap offered'[j].answered = {}
      OBVIOUS
    <3>1. CASE i = k
      BY <1>3, <1>6, <1>8, <3>1
    <3>2. CASE i # k
      BY <1>6, <1>8, <3>2 DEF AnsweredInv, S!NoIsNo
    <3> QED BY <3>1, <3>2
  <2> QED BY <2>1 DEF S!NoIsNo
<1>11. ThreadInv'
  <2>1. ThreadRow(o, g, AllAnswered)
    BY <1>2 DEF ThreadRow, Working
  <2>2. \A j \in Readings : ThreadRow(offered'[j], suggester'[j], AllAnswered)
    BY <1>5, <2>1 DEF AnsweredInv, ThreadInv
  <2> QED BY <1>7, <2>2 DEF ThreadInv
<1> QED BY <1>9, <1>10, <1>11 DEF AnsweredInv

\* An answer is given on the newest run's page, so while no run is pending.
LEMMA AnswerStep ==
  ASSUME ReadingsAssumption, KindsInv, AnsweredInv, NEW k \in Readings, NEW q \in offered[k].open,
         S!Shown(k), RunMove(k, TakenUp(offered[k], q), suggester[k])
  PROVE  AnsweredInv'
<1> DEFINE o == TakenUp(offered[k], q)
           g == suggester[k]
<1>1. /\ o.status = offered[k].status /\ o.open = offered[k].open \ {q}
      /\ o.answered = offered[k].answered \union {q}
  BY OfferAnswered DEF KindsInv
<1>2. offered[k].status = "done"
  BY DEF AnsweredInv, RowsInv
<1> HIDE DEF o, g
<1>3. /\ \A j \in Readings : offered'[j] = IF j = k THEN o ELSE offered[j]
      /\ suggester'[k] = g /\ \A j \in Readings : j # k => suggester'[j] = suggester[j]
  BY RowByRow DEF o, g
<1>4. \A j \in Readings : suggester'[j] = suggester[j]
  BY <1>3 DEF g
<1>5. \A j \in Readings : /\ offered'[j].status = offered[j].status
                          /\ offered'[j].open = offered[j].open \ (IF j = k THEN {q} ELSE {})
                          /\ offered'[j].answered = offered[j].answered \union (IF j = k THEN {q} ELSE {})
  BY <1>1, <1>3
<1>6. \A i, j \in Readings : i > j \/ j > i \/ i = j
  BY DEF ReadingsAssumption
<1>7. \A j \in Readings : offered[j].status # "pending"
  <2> SUFFICES ASSUME NEW j \in Readings, offered[j].status = "pending" PROVE FALSE
    OBVIOUS
  <2>1. S!Shown(j) /\ j # k
    BY <1>2 DEF AnsweredInv, RowsInv
  <2>2. j > k \/ k > j
    BY <1>6, <2>1
  <2> QED BY <1>2, <2>1, <2>2 DEF S!Shown
<1>8. \A j \in Readings : S!Shown(j)' <=> S!Shown(j)
  BY <1>5 DEF S!Shown
<1>9. RowsInv'
  <2>1. \A i, j \in Readings : offered'[i].status = "absent" /\ j > i => offered'[j].status = "absent"
    BY <1>5 DEF AnsweredInv, RowsInv
  <2>2. \A i \in Readings : offered'[i].status # "done" => offered'[i].open = {} /\ offered'[i].answered = {}
    BY <1>2, <1>5 DEF AnsweredInv, RowsInv
  <2>3. \A i \in Readings : offered'[i].status = "pending" => S!Shown(i)'
    BY <1>5, <1>8 DEF AnsweredInv, RowsInv
  <2> QED BY <2>1, <2>2, <2>3 DEF RowsInv
<1>10. S!NoIsNo'
  <2>1. \A i, j \in Readings : S!Shown(i)' => offered'[i].open \cap offered'[j].answered = {}
    <3> SUFFICES ASSUME NEW i \in Readings, NEW j \in Readings, S!Shown(i)'
                 PROVE  offered'[i].open \cap offered'[j].answered = {}
      OBVIOUS
    <3>1. S!Shown(i) /\ offered[i].open \cap offered[j].answered = {}
      BY <1>8 DEF AnsweredInv, S!NoIsNo
    <3>2. CASE i = k
      BY <1>5, <3>1, <3>2
    <3>3. CASE i # k
      <4>1. i > k \/ k > i
        BY <1>6, <3>3
      <4>2. offered[i].status = "absent"
        BY <1>2, <3>1, <4>1 DEF S!Shown
      <4>3. offered[i].open = {}
        BY <4>2 DEF AnsweredInv, RowsInv
      <4> QED BY <1>5, <4>3
    <3> QED BY <3>2, <3>3
  <2> QED BY <2>1 DEF S!NoIsNo
<1>11. ThreadInv'
  <2>1. \A j \in Readings : suggester[j].at \notin Working
    BY <1>7 DEF AnsweredInv, ThreadInv, ThreadRow
  <2>2. \A j \in Readings : \A all : ThreadRow(offered'[j], suggester'[j], all)
    BY <1>4, <2>1 DEF ThreadRow, Working
  <2> QED BY <2>2 DEF ThreadInv
<1> QED BY <1>9, <1>10, <1>11 DEF AnsweredInv

\* What a thread may go on to.
LEMMA OnlyThreadMoves ==
  ASSUME KindsInv, AnsweredInv, NEW k \in Readings, NEW at, RunMove(k, offered[k], Stood(k, at)),
         at \in Working => offered[k].status = "pending", at \notin {"call", "store"}
  PROVE  AnsweredInv'
<1>1. Stood(k, at).at = at
  BY SuggesterMoves DEF KindsInv, Stood
<1>2. ThreadRow(offered[k], Stood(k, at), AllAnswered)
  BY <1>1 DEF ThreadRow
<1> QED BY <1>2, OnlyThread

LEMMA AnsweredKept ==
  ASSUME ReadingsAssumption, StalePages = FALSE, KindsInv, AnsweredInv, [MCNext]_MCVars
  PROVE  AnsweredInv'
<1>1. CASE UNCHANGED <<offered, suggester>>
  BY <1>1 DEF AnsweredInv, RowsInv, ThreadInv, S!NoIsNo, S!Shown, AllAnswered
<1>2. ASSUME NEW k \in Readings, S!StartReading(k) PROVE AnsweredInv'
  <2>1. /\ RunMove(k, Becomes(k, "pending"), suggester[k])
        /\ S!NextReading(k) /\ \A j \in Readings : offered[j].status # "pending"
    BY <1>2, StartReadingMoves
  <2>2. offered[k].status = "absent"
    BY <2>1 DEF S!NextReading
  <2>3. suggester[k].at \notin Working
    BY <2>2 DEF AnsweredInv, ThreadInv, ThreadRow
  <2>4. ThreadRow(Becomes(k, "pending"), suggester[k], AllAnswered)
    BY <2>3 DEF ThreadRow, Working
  <2> QED BY <2>1, <2>2, <2>4, StatusStep
<1>3. ASSUME NEW k \in Readings, S!DeliverReading(k) PROVE AnsweredInv'
  <2> DEFINE at == IF offered[k].status = "pending" THEN "inputs" ELSE "ok"
  <2>1. S!SuggesterAt(k, at) /\ UNCHANGED <<offered, settings>>
    BY <1>3 DEF S!DeliverReading
  <2>2. at \notin {"call", "store"} /\ (at \in Working => offered[k].status = "pending")
    BY DEF Working
  <2> HIDE DEF at
  <2>3. RunMove(k, offered[k], Stood(k, at))
    BY <2>1, ThreadMoves
  <2> QED BY <2>2, <2>3, OnlyThreadMoves
<1>4. ASSUME NEW k \in Readings, S!ReadAnswered(k) PROVE AnsweredInv'
  <2>1. /\ suggester[k].at = "inputs"
        /\ \/ RunMove(k, offered[k], Stood(k, "refuse"))
           \/ \E at \in {"call", "store"} : RunMove(k, offered[k], Briefed(at, AllAnswered))
    BY <1>4, ReadAnsweredMoves DEF AllAnswered
  <2>2. offered[k].status = "pending"
    BY <2>1 DEF AnsweredInv, ThreadInv, ThreadRow, Working
  <2>3. CASE RunMove(k, offered[k], Stood(k, "refuse"))
    BY <2>2, <2>3, OnlyThreadMoves
  <2>4. ASSUME NEW at \in {"call", "store"}, RunMove(k, offered[k], Briefed(at, AllAnswered))
        PROVE  AnsweredInv'
    <3> DEFINE all == AllAnswered
               g == Briefed(at, all)
    <3>1. g.at = at /\ g.already = all /\ g.proposals = {}
      BY NoSuggesterIs
    <3> HIDE DEF all, g
    <3>2. ThreadRow(offered[k], g, all)
      BY <2>2, <3>1 DEF ThreadRow
    <3> QED BY <2>4, <3>2, OnlyThread DEF all, g
  <2> QED BY <2>1, <2>3, <2>4
<1>5. ASSUME NEW k \in Readings, S!CallForSettings(k) PROVE AnsweredInv'
  <2>1. /\ suggester[k].at = "call"
        /\ \/ \E at \in {"refuse", "fail", "blocked"} : RunMove(k, offered[k], Stood(k, at))
           \/ \E made : /\ made \cap suggester[k].already = {}
                        /\ RunMove(k, offered[k], Told(k, made))
    BY <1>5, CallForSettingsMoves
  <2>2. offered[k].status = "pending" /\ suggester[k].already = AllAnswered
    BY <2>1 DEF AnsweredInv, ThreadInv, ThreadRow, Working
  <2>3. ASSUME NEW at \in {"refuse", "fail", "blocked"}, RunMove(k, offered[k], Stood(k, at))
        PROVE  AnsweredInv'
    BY <2>2, <2>3, OnlyThreadMoves
  <2>4. ASSUME NEW made, made \cap suggester[k].already = {}, RunMove(k, offered[k], Told(k, made))
        PROVE  AnsweredInv'
    <3> DEFINE g == Told(k, made)
    <3>1. g.at = "store" /\ g.already = suggester[k].already /\ g.proposals = made
      <4> DEFINE was == suggester[k]
      <4>1. was = [at |-> was.at, already |-> was.already, proposals |-> was.proposals]
        BY DEF KindsInv, SuggesterRow
      <4>2. g = [was EXCEPT !.at = "store", !.proposals = made]
        BY DEF Told
      <4> HIDE DEF was, g
      <4>3. g.at = "store" /\ g.already = was.already /\ g.proposals = made
        BY <4>1, <4>2
      <4> QED BY <4>3 DEF was
    <3> HIDE DEF g
    <3>2. ThreadRow(offered[k], g, AllAnswered)
      BY <2>2, <2>4, <3>1 DEF ThreadRow
    <3> QED BY <2>4, <3>2, OnlyThread DEF g
  <2> QED BY <2>1, <2>3, <2>4
<1>6. ASSUME NEW k \in Readings, S!StoreSettings(k) PROVE AnsweredInv'
  BY <1>6, StoreSettingsMoves, OfferStep
<1>7. ASSUME NEW k \in Readings, S!FailReading(k) PROVE AnsweredInv'
  <2>1. /\ suggester[k].at \in {"refuse", "fail"}
        /\ \E at \in {"permanent", "error"} : RunMove(k, Becomes(k, "failed"), Stood(k, at))
    BY <1>7, FailReadingMoves
  <2>2. PICK at \in {"permanent", "error"} : RunMove(k, Becomes(k, "failed"), Stood(k, at))
    BY <2>1
  <2>3. offered[k].status = "pending"
    BY <2>1 DEF AnsweredInv, ThreadInv, ThreadRow, Working
  <2>4. Stood(k, at).at = at
    BY SuggesterMoves DEF KindsInv, Stood
  <2>5. ThreadRow(Becomes(k, "failed"), Stood(k, at), AllAnswered)
    BY <2>4 DEF ThreadRow, Working
  <2> QED BY <2>2, <2>3, <2>5, StatusStep
<1>8. ASSUME NEW k \in Readings, S!RecordReading(k) \/ S!LoseSuggester(k) PROVE AnsweredInv'
  <2>1. RunMove(k, offered[k], S!NoSuggester)
    BY <1>8, SettleReadingMoves
  <2>2. ThreadRow(offered[k], S!NoSuggester, AllAnswered)
    BY NoSuggesterIs DEF ThreadRow, Working
  <2> QED BY <2>1, <2>2, OnlyThread
<1>9. ASSUME NEW k \in Readings, NEW q, S!AnswerSetting(k, q), UNCHANGED suggester PROVE AnsweredInv'
  <2>1. q \in offered[k].open /\ S!Shown(k)
    BY <1>9, AnsweredOffer
  <2>2. RunMove(k, TakenUp(offered[k], q), suggester[k])
    BY <1>9, AnswerMoves
  <2> QED BY <2>1, <2>2, AnswerStep
<1>10. ASSUME NEW k \in Readings, S!RejectSetting(k) PROVE AnsweredInv'
  BY <1>9, <1>10 DEF S!RejectSetting
<1>11. ASSUME NEW k \in Readings, NEW replace \in BOOLEAN, S!AcceptSetting(k, replace) PROVE AnsweredInv'
  BY <1>9, <1>11 DEF S!AcceptSetting
<1>12. CASE S!SaveDisciplines \/ S!SaveConstraints
  BY <1>1, <1>12 DEF S!SaveDisciplines, S!SaveConstraints
<1>13. CASE S!SuggestNext
  BY <1>2, <1>3, <1>4, <1>5, <1>6, <1>7, <1>8, <1>10, <1>11, <1>12, <1>13 DEF S!SuggestNext
<1> QED BY <1>1, <1>13 DEF MCNext, MCVars, settingsVars

LEMMA AnsweredInit ==
  ASSUME MCInit
  PROVE  AnsweredInv
<1>1. /\ \A k \in Readings : offered[k] = S!NoReading /\ suggester[k] = S!NoSuggester
  BY DEF MCInit, S!SuggestInit
<1>2. \A k \in Readings : /\ offered[k].status = "absent" /\ offered[k].open = {}
                          /\ offered[k].answered = {} /\ suggester[k].at = "none"
  BY <1>1 DEF S!NoReading, S!NoSuggester
<1> QED BY <1>2 DEF AnsweredInv, RowsInv, ThreadInv, ThreadRow, S!NoIsNo, Working

\* THEOREM NoStaysNo: where answers are given on the newest run's page, nothing it offers
\* was answered in any run, whatever runs, retries and answers come between
\* (answered_keys, to_proposals).
THEOREM NoStaysNo == ASSUME StalePages = FALSE PROVE MCSpec => []NoIsNo
<1>1. MCInit => AnsweredInv
  BY AnsweredInit
<1>2. KindsInv /\ AnsweredInv /\ [MCNext]_MCVars => AnsweredInv'
  BY AnsweredKept, ReadingsAssumption
<1>3. AnsweredInv => NoIsNo
  BY DEF AnsweredInv, NoIsNo
<1> QED BY <1>1, <1>2, <1>3, KindsAlways, PTL DEF MCSpec
=============================================================================
