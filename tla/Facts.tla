------------------------------- MODULE Facts -------------------------------
(***************************************************************************)
(* What is true of the user, and who said so.  A model reads an uploaded   *)
(* CV into candidate facts (handlers/cv_facts.py,                          *)
(* storage/candidate_facts.py); only a fact the user confirms reaches the  *)
(* corpus, and only through one markdown document that is rewritten whole  *)
(* (corpus_source.py).  The same document holds what the profile page says *)
(* of the user and their answers to a push-back's question.                *)
(*                                                                         *)
(* The spans of that document are its lines: a rewrite upserts the span of *)
(* every line and retires every other span it had, so a span is live when  *)
(* its line is in the document.  A request is one transaction under READ   *)
(* COMMITTED: what it reads, it reads at its start.                        *)
(***************************************************************************)
EXTENDS Integers, FiniteSets

CONSTANTS
  Facts,      \* candidate_facts rows, one for each fingerprint
  RoleOf,     \* role_label of each, which names its section of the corpus
  AsWritten,  \* fact_text, the model's wording
  Asks,       \* those with a probe
  Words,      \* what a statement may say
  Answers,    \* what a probe may be answered with
  Labels,     \* capability keys
  Cvs,        \* CVs the user may upload, each with a text of its own
  CvTries,    \* tasks.max_attempts of a read
  Requests,   \* requests in progress at once
  None

ASSUME FactsAssumption ==
  /\ RoleOf \in [Facts -> STRING] /\ AsWritten \in [Facts -> Words]
  /\ Asks \subseteq Facts /\ CvTries \in Nat \ {0}
  /\ None \notin Words \union Answers

VARIABLES
  fact,      \* fact[f]: its row
  document,  \* the lines of documents.text, and so its live spans
  told,      \* history: what answers to push-backs' questions said
  profile,   \* the newest row of profiles
  cv,        \* cv[c]: its cv_extractions row
  cvTask,    \* cvTask[c]: the extract_cv_facts task queued with it
  reader,    \* reader[c]: where the thread that has that task stands
  request    \* request[p]: what it read at its start

factVars == <<fact, document, told, profile, cv, cvTask, reader, request>>

Statements == Words \X (Answers \union {None})
Lines == [section : {RoleOf[f] : f \in Facts} \union {"depth", "answered"},
          says : Statements]

CandidateRows == [state : {"absent", "proposed", "confirmed", "rejected"},
                  text : Words \union {None}, answer : Answers \union {None},
                  span : Lines \union {None}]
CvRows == {"absent", "pending", "done", "failed"}

\* A profile: what it says of the user, and its capabilities' evidence.
Profiles == [depth : Words \union {None}, has : SUBSET Labels,
             evidence : [Labels -> SUBSET Lines]]

NoFact    == [state |-> "absent", text |-> None, answer |-> None, span |-> None]
NoReader  == [at |-> "none", found |-> {}]
NoTask    == [status |-> "absent", tries |-> 0]
NoRequest == [on |-> FALSE]

FactsInit ==
  /\ fact = [f \in Facts |-> NoFact]
  /\ document = {} /\ told = {}
  /\ profile = [depth |-> None, has |-> {}, evidence |-> [l \in Labels |-> {}]]
  /\ cv = [c \in Cvs |-> "absent"]
  /\ cvTask = [c \in Cvs |-> NoTask]
  /\ reader = [c \in Cvs |-> NoReader]
  /\ request = [p \in Requests |-> NoRequest]

FactsTypeOK ==
  /\ fact \in [Facts -> CandidateRows]
  /\ document \subseteq Lines /\ told \subseteq Words
  /\ profile \in Profiles
  /\ cv \in [Cvs -> CvRows]

----------------------------------------------------------------------------
(* Requests, and what one does with what it read.                          *)

\* What a request goes by: what it read, changed by its own writes.  Of the
\* rows kept beside the facts it reads those it is given here.
BeginRequest(p, others) ==
  /\ ~ request[p].on
  /\ request' = [request EXCEPT ![p] =
       [on |-> TRUE, facts |-> fact, document |-> document, profile |-> profile,
        others |-> others, wrote |-> {}, rewrote |-> FALSE]]
  /\ UNCHANGED <<fact, document, told, profile, cv, cvTask, reader>>

\* Its transaction commits: the rows it wrote, and the document if it rewrote it.
Commit(p, view) ==
  /\ fact' = [f \in Facts |-> IF f \in view.wrote THEN view.facts[f] ELSE fact[f]]
  /\ document' = IF view.rewrote THEN view.document ELSE document
  /\ request' = [request EXCEPT ![p] = NoRequest]

\* set_section: the section holds these lines and no other.
SetSection(lines, section, says) ==
  {l \in lines : l.section # section} \union {[section |-> section, says |-> s] : s \in says}

\* append_line and remove_line, the document stored again.
WithLine(view, line) == [view EXCEPT !.document = @ \union {line}, !.rewrote = TRUE]
WithoutLine(view, line) == [view EXCEPT !.document = @ \ {line}, !.rewrote = TRUE]

\* corpus_text: the user's wording or the model's, and the probe's answer; and
\* the line it is under its role.
LineOf(f, row) ==
  [section |-> RoleOf[f],
   says |-> <<IF row.text = None THEN AsWritten[f] ELSE row.text, row.answer>>]

\* A wrong Release: the line goes though another fact is that line.
ReleaseAlways(view, f) == WithoutLine(view, LineOf(f, view.facts[f]))

\* _release: the fact's line goes, unless another confirmed fact is that line.
Release(view, f) ==
  IF \E g \in Facts \ {f} : /\ view.facts[g].state = "confirmed"
                            /\ view.facts[g].span = view.facts[f].span
  THEN view ELSE WithoutLine(view, LineOf(f, view.facts[f]))

\* _set.
Store(view, f, row) == [view EXCEPT !.facts = [@ EXCEPT ![f] = row], !.wrote = @ \union {f}]

Answered(view, f, answer) == IF answer = None THEN view.facts[f].answer ELSE answer

\* A fact with a probe is not confirmed before the probe is answered.
MayConfirm(view, f, answer) ==
  /\ view.facts[f].state # "absent"
  /\ f \in Asks => Answered(view, f, answer) # None

\* confirm: the line in the document, an earlier wording of it out.
Confirmed(view, f, text, answer) ==
  LET was  == view.facts[f]
      row  == [was EXCEPT !.text = text, !.answer = Answered(view, f, answer)]
      line == LineOf(f, row)
      freed == IF was.state = "confirmed" THEN Release(view, f) ELSE view
  IN IF was.state = "confirmed" /\ LineOf(f, was) = line THEN view
     ELSE Store(WithLine(freed, line), f, [row EXCEPT !.state = "confirmed", !.span = line])

ConfirmFact(p) ==
  /\ request[p].on
  /\ \E f \in Facts, text \in Words \union {None}, answer \in Answers \union {None} :
       /\ MayConfirm(request[p], f, answer)
       /\ answer # None => f \in Asks
       /\ Commit(p, Confirmed(request[p], f, text, answer))
  /\ UNCHANGED <<told, profile, cv, cvTask, reader>>

\* confirm_role: of the facts on the form, those still unchecked and asking
\* nothing, as written; none of them has a line to release.
ConfirmedRow(f, row) == [row EXCEPT !.text = None, !.state = "confirmed",
                                    !.span = LineOf(f, [row EXCEPT !.text = None])]

ConfirmRole(p) ==
  /\ request[p].on
  /\ \E role \in {RoleOf[f] : f \in Facts} :
     \E form \in SUBSET {f \in Facts : RoleOf[f] = role} :
       LET unchecked == {f \in form : /\ request[p].facts[f].state = "proposed"
                                      /\ MayConfirm(request[p], f, None)}
           rows == [f \in Facts |-> IF f \in unchecked THEN ConfirmedRow(f, request[p].facts[f])
                                                       ELSE request[p].facts[f]]
       IN /\ unchecked # {}
          /\ Commit(p, [request[p] EXCEPT !.facts = rows, !.wrote = unchecked, !.rewrote = TRUE,
                          !.document = @ \union {rows[f].span : f \in unchecked}])
  /\ UNCHANGED <<told, profile, cv, cvTask, reader>>

RejectFact(p) ==
  /\ request[p].on
  /\ \E f \in Facts :
       LET was == request[p].facts[f] IN
       /\ was.state # "absent"
       /\ Commit(p, Store(IF was.state = "confirmed" THEN Release(request[p], f) ELSE request[p],
                          f, [was EXCEPT !.state = "rejected", !.span = None]))
  /\ UNCHANGED <<told, profile, cv, cvTask, reader>>

RestoreFact(p) ==
  /\ request[p].on
  /\ \E f \in Facts :
       /\ request[p].facts[f].state = "rejected"
       /\ Commit(p, Store(request[p], f,
                          [request[p].facts[f] EXCEPT !.state = "proposed", !.span = None]))
  /\ UNCHANGED <<told, profile, cv, cvTask, reader>>

\* record_evidence of routes/pushbacks.py: add_statement, and never undone.
RecordEvidence(p) ==
  /\ request[p].on
  /\ \E word \in Words :
       /\ Commit(p, WithLine(request[p], [section |-> "answered", says |-> <<word, None>>]))
       /\ told' = told \union {word}
  /\ UNCHANGED <<profile, cv, cvTask, reader>>

\* save_profile: the profile's new row, and the section of the corpus with it.
SaveSelfAssessment(p) ==
  /\ request[p].on
  /\ \E word \in Words \union {None} :
       /\ profile' = [request[p].profile EXCEPT !.depth = word]
       /\ Commit(p, [request[p] EXCEPT !.rewrote = TRUE,
            !.document = SetSection(@, "depth", IF word = None THEN {} ELSE {<<word, None>>})])
  /\ UNCHANGED <<told, cv, cvTask, reader>>

----------------------------------------------------------------------------
(* CVs, and reading one (handlers/cv_facts.py), delivered at least once.   *)

\* _store: a CV is stored once, with the read it needs.
UploadCv(c) ==
  /\ cv[c] = "absent"
  /\ cv' = [cv EXCEPT ![c] = "pending"]
  /\ cvTask' = [cvTask EXCEPT ![c] = [status |-> "pending", tries |-> 0]]
  /\ UNCHANGED <<fact, document, told, profile, reader, request>>

Stands(c, at) == reader' = [reader EXCEPT ![c].at = at]

\* claim_extraction: a CV already read is not read again.
DeliverRead(c) ==
  /\ cvTask[c].status = "pending"
  /\ cvTask' = [cvTask EXCEPT ![c] = [status |-> "running", tries |-> @.tries + 1]]
  /\ Stands(c, IF cv[c] = "done" THEN "ok" ELSE "call")
  /\ UNCHANGED <<fact, document, told, profile, cv, request>>

\* The key and the model call; to_proposed_facts leaves each fact once.
ReadCv(c) ==
  /\ reader[c].at = "call"
  /\ \/ \E found \in SUBSET Facts : reader' = [reader EXCEPT ![c] = [at |-> "store", found |-> found]]
     \/ \E at \in {"refuse", "fail", "blocked"} : Stands(c, at)
  /\ UNCHANGED <<fact, document, told, profile, cv, cvTask, request>>

\* A wrong StoreFacts: a fact another CV names is put in front of the user again.
StoreFactsAgain(c) ==
  /\ reader[c].at = "store"
  /\ fact' = [f \in Facts |-> IF f \in reader[c].found
                              THEN [fact[f] EXCEPT !.state = "proposed", !.span = None]
                              ELSE fact[f]]
  /\ cv' = [cv EXCEPT ![c] = "done"]
  /\ Stands(c, "ok")
  /\ UNCHANGED <<document, told, profile, cvTask, request>>

\* add_proposed and finish_extraction: a fact already there is left alone.
StoreFacts(c) ==
  /\ reader[c].at = "store"
  /\ fact' = [f \in Facts |-> IF f \in reader[c].found /\ fact[f].state = "absent"
                              THEN [NoFact EXCEPT !.state = "proposed"] ELSE fact[f]]
  /\ cv' = [cv EXCEPT ![c] = "done"]
  /\ Stands(c, "ok")
  /\ UNCHANGED <<document, told, profile, cvTask, request>>

\* _fail.
FailRead(c) ==
  /\ reader[c].at \in {"refuse", "fail"}
  /\ cv' = [cv EXCEPT ![c] = "failed"]
  /\ Stands(c, IF reader[c].at = "refuse" THEN "permanent" ELSE "error")
  /\ UNCHANGED <<fact, document, told, profile, cvTask, request>>

SettleRead(c, status, tries) ==
  /\ cvTask' = [cvTask EXCEPT ![c] = [status |-> status, tries |-> tries]]
  /\ reader' = [reader EXCEPT ![c] = NoReader]
  /\ UNCHANGED <<fact, document, told, profile, cv, request>>

AnotherRead(c) == IF cvTask[c].tries >= CvTries THEN "failed" ELSE "pending"

\* An account that refuses calls parks the task, and the try is given back.
RecordRead(c) ==
  LET tries == cvTask[c].tries IN
  \/ reader[c].at = "ok"        /\ SettleRead(c, "succeeded", tries)
  \/ reader[c].at = "permanent" /\ SettleRead(c, "failed", tries)
  \/ reader[c].at = "error"     /\ SettleRead(c, AnotherRead(c), tries)
  \/ reader[c].at = "blocked"   /\ SettleRead(c, "pending", tries - 1)

LoseReader(c) == reader[c].at # "none" /\ SettleRead(c, AnotherRead(c), cvTask[c].tries)

----------------------------------------------------------------------------
FactsNext ==
  \/ \E p \in Requests :
       \/ ConfirmFact(p) \/ ConfirmRole(p) \/ RejectFact(p)
       \/ RestoreFact(p) \/ RecordEvidence(p) \/ SaveSelfAssessment(p)
  \/ \E c \in Cvs :
       \/ UploadCv(c) \/ DeliverRead(c) \/ ReadCv(c) \/ StoreFacts(c)
       \/ FailRead(c) \/ RecordRead(c) \/ LoseReader(c)

----------------------------------------------------------------------------
(* What must hold.                                                         *)

\* The corpus is what the user said and has not taken back, no line more and
\* none fewer: every confirmed fact in its last wording, however often it was
\* reworded, rejected or shared with another; the newest self-assessment; and
\* every answer to a push-back.  And a confirmed fact's span is its line.
CorpusIsWhatWasSaid ==
  /\ document = {LineOf(f, fact[f]) : f \in {g \in Facts : fact[g].state = "confirmed"}}
                \union {[section |-> "depth", says |-> <<w, None>>] : w \in {profile.depth} \ {None}}
                \union {[section |-> "answered", says |-> <<w, None>>] : w \in told}
  /\ \A f \in Facts : fact[f].span = IF fact[f].state = "confirmed" THEN LineOf(f, fact[f]) ELSE None

\* What the user answered only the user changes: no CV read later, or read
\* again, resets a fact; and no fact with an unanswered probe grounds anything.
OnlyTheUserAnswers ==
  [][\A f \in Facts :
       /\ fact[f].state # "absent" /\ fact'[f] # fact[f] =>
            \E p \in Requests : request[p].on /\ ~ request'[p].on
       /\ fact'[f].state = "confirmed" /\ f \in Asks => fact'[f].answer # None]_factVars
=============================================================================
