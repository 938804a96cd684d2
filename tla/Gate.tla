-------------------------------- MODULE Gate --------------------------------
(***************************************************************************)
(* What one answer of the claim gate does to the lines it was asked about  *)
(* (jfl_gate.gate, jfl_gate.rules; jfl_generate.cv_document and            *)
(* handlers/cv_edits_check.py put it back on the lines, jfl_generate       *)
(* .coverage does the like to requirements).  The lines are split into     *)
(* sentences, a lone heading is set aside as the title, the model answers  *)
(* per sentence without repeating its words, its citations are compared    *)
(* with the corpus, and each line takes the worst of its sentences.        *)
(*                                                                         *)
(* A sentence is a value; of its words matters which sentence they occur   *)
(* in as well.  A citation names a span of the corpus, no span, or is an   *)
(* abbreviation, which begins the ids of some spans.                       *)
(***************************************************************************)
EXTENDS Integers, Sequences, SequencesExt, FiniteSets, FiniteSetsExt

CONSTANTS
  Spans,        \* spans of the corpus
  Unknown,      \* a well-formed id that names none
  Abbreviated,  \* what the model gives for an id that is not one
  Begins,       \* Begins[a]: the spans whose id abbreviation a begins
  Sentences,    \* what a line may say
  Within,       \* <<a, b>>: the words of a occur in b
  Palette,      \* bound: what the model may say of one sentence
  MaxLines,     \* bound: lines
  MaxSaid,      \* bound: sentences of all the lines
  NoVerdict

VARIABLES
  cv,      \* the lines, and what each is shown to be
  asked,   \* who wrote the lines, and how far the check is
  answer,  \* what the model said, one result for each sentence sent
  output   \* what came out of the gate, one result for each unit

gateVars == <<cv, asked, answer, output>>

Verdicts == {"supported", "review", "unsupported"}
Results  == [kind : {"claim", "framing", "title"}, verdict : Verdicts \union {NoVerdict},
             cited : SUBSET (Spans \union {Unknown} \union Abbreviated)]

ASSUME GateAssumption ==
  /\ Unknown \notin Spans /\ Abbreviated \intersect (Spans \union {Unknown}) = {}
  /\ Begins \in [Abbreviated -> SUBSET Spans]
  /\ \A a \in Sentences : <<a, a>> \in Within
  /\ Palette \subseteq Results /\ MaxLines \in Nat /\ MaxSaid \in Nat
  /\ NoVerdict \notin Verdicts \union {"framing"}

Texts == UNION {[1..n -> Sentences] : n \in 1..MaxSaid}

\* A CvLine: `heading` if its text starts with a single "#".
Lines == [says : Texts, heading : BOOLEAN, verdict : Verdicts \union {"framing", NoVerdict}]

Said(lines) == FoldLeft(LAMBDA n, line : n + Len(line.says), 0, lines)

GateTypeOK ==
  /\ cv \in Seq(Lines)
  /\ asked.by \in {"generated", "user"}
  /\ asked.at \in {"written", "sent", "unsent", "rejected", "checked", "misplaced", "placed"}

----------------------------------------------------------------------------
(* Splitting: a blank line is between any two lines, so each is a block.   *)

\* _title_line: the only heading there is.
TitleAt(lines) ==
  LET headings == {i \in DOMAIN lines : lines[i].heading}
  IN IF Cardinality(headings) = 1 THEN CHOOSE i \in headings : TRUE ELSE 0

\* split_units: the title whole, everything else by the sentence.
SplitUnits(lines) ==
  FlattenSeq([i \in DOMAIN lines |->
    IF i = TitleAt(lines)
    THEN <<[kind |-> "title", line |-> i, text |-> NoVerdict]>>
    ELSE [n \in DOMAIN lines[i].says |->
            [kind |-> "sentence", line |-> i, text |-> lines[i].says[n]]]])

\* The units that are sent, and the number each is sent under.
SentencesOf(units) == {n \in DOMAIN units : units[n].kind = "sentence"}
NumberOf(units, n) == Cardinality({m \in SentencesOf(units) : m <= n})

----------------------------------------------------------------------------
(* What is done to the answer (check_text from line 443 on).               *)

\* A wrong Aligned: as many results as sentences.
AlignedByCount(sentences, results) == Len(results) = Cardinality(sentences)

\* _check_alignment: results are numbered 1..N, in that order.
Aligned(sentences, results) == [n \in DOMAIN results |-> results[n].index]
                             = [n \in 1..Cardinality(sentences) |-> n]

\* _reject_splitter_only_fields
FromTheModel(results) == \A n \in DOMAIN results :
  results[n].result.kind # "title" /\ results[n].result.verdict # NoVerdict

Title == [kind |-> "title", verdict |-> NoVerdict, cited |-> {}]

\* A wrong Assemble: the title counts as one of the sentences sent.
AssembleByPosition(units, results) ==
  [n \in DOMAIN units |->
    IF units[n].kind = "title" \/ n > Len(results) THEN Title ELSE results[n].result]

\* _assemble: the results in document order, with the title among them.
Assemble(units, results) ==
  [n \in DOMAIN units |->
    IF units[n].kind = "title" THEN Title
    ELSE results[NumberOf(units, n)].result]

\* A wrong one: any span the abbreviation begins.
ResolveAny(cited) ==
  {c \in cited : c \notin Abbreviated \/ Begins[c] = {}}
  \union {CHOOSE s \in Begins[c] : TRUE : c \in {a \in cited \intersect Abbreviated : Begins[a] # {}}}

\* resolve_abbreviated_citations: one that begins the id of one span is that span.
ResolveAbbreviated(cited) ==
  {c \in cited : c \notin Abbreviated \/ Cardinality(Begins[c]) # 1}
  \union UNION {Begins[c] : c \in {a \in cited \intersect Abbreviated : Cardinality(Begins[a]) = 1}}

\* _flags_for: it cites what is not there, or is supported by nothing cited.
Flagged(result) ==
  \/ ~ result.cited \subseteq Spans
  \/ result.verdict = "supported" /\ result.cited \subseteq Abbreviated

\* apply_rules: a claim that is flagged is not supported.
ApplyRules(result) ==
  IF result.kind = "claim" /\ result.verdict = "supported" /\ Flagged(result)
  THEN [result EXCEPT !.verdict = "review"] ELSE result

Checked(results) ==
  [n \in DOMAIN results |->
    ApplyRules([results[n] EXCEPT !.cited = ResolveAbbreviated(results[n].cited)])]

----------------------------------------------------------------------------
(* Back on the lines.                                                      *)

Severity == [supported |-> 1, review |-> 2, unsupported |-> 3]
Worst(verdicts) == IF verdicts = {} THEN "framing"
                   ELSE CHOOSE v \in verdicts : \A w \in verdicts : Severity[w] <= Severity[v]

\* A wrong LineVerdict: the first claim's.
FirstVerdict(results) ==
  LET claims == SelectSeq(results, LAMBDA r : r.kind = "claim")
  IN IF claims = <<>> THEN "framing" ELSE claims[1].verdict

\* _line_verdict: the worst of its claims, and without one it is framing.
LineVerdict(results) ==
  Worst({results[n].verdict : n \in {m \in DOMAIN results : results[m].kind = "claim"}})

\* apply_gate_output: by counting, and only if the counts agree.
Counts(lines) == [i \in DOMAIN lines |-> Len(SplitUnits(<<lines[i]>>))]
Before(counts, i) == FoldLeft(+, 0, SubSeq(counts, 1, i - 1))
LinesUp(lines, results) ==
  /\ FoldLeft(+, 0, Counts(lines)) = Len(results)
  /\ \A n \in DOMAIN results : results[n].kind # "title"
ApplyGateOutput(lines, results) ==
  [i \in DOMAIN lines |->
    LET start == Before(Counts(lines), i)
    IN [lines[i] EXCEPT !.verdict = LineVerdict(SubSeq(results, start + 1, start + Counts(lines)[i]))]]

\* verdicts_for_lines: each sentence in the first line, from where the last one
\* was, whose words hold its own; the title in none.
Find(lines, from, text) ==
  LET holds == {p \in (DOMAIN lines) \X (1..MaxSaid) :
                  /\ p[2] \in DOMAIN lines[p[1]].says
                  /\ (p[1] > from[1] \/ (p[1] = from[1] /\ p[2] > from[2]))
                  /\ <<text, lines[p[1]].says[p[2]]>> \in Within}
  IN IF holds = {} THEN <<>>
     ELSE CHOOSE p \in holds : \A q \in holds :
            p[1] < q[1] \/ (p[1] = q[1] /\ p[2] <= q[2])

PlacedIn(lines, units, results) ==
  LET done[n \in 0..Len(results)] ==
        IF n = 0 THEN [from |-> <<1, 0>>, of |-> {}]
        ELSE LET at == IF results[n].kind = "title" THEN <<>>
                       ELSE Find(lines, done[n - 1].from, units[n].text)
             IN IF at = <<>> THEN done[n - 1]
                ELSE [from |-> at, of |-> done[n - 1].of \union {<<at[1], n>>}]
  IN done[Len(results)].of

VerdictsForLines(lines, units, results) ==
  LET placed == PlacedIn(lines, units, results)
      Of(i)  == {n \in DOMAIN results : <<i, n>> \in placed}
  IN [i \in DOMAIN lines |-> IF Of(i) = {} THEN lines[i]
       ELSE [lines[i] EXCEPT !.verdict =
              Worst({results[n].verdict : n \in {m \in Of(i) : results[m].kind = "claim"}})]]

----------------------------------------------------------------------------
\* clean_line leaves no heading among what the model wrote; what the user
\* typed may be one.
GateInit ==
  /\ cv \in {lines \in UNION {[1..n -> {line \in Lines : line.verdict = NoVerdict}] : n \in 1..MaxLines} :
               Said(lines) <= MaxSaid}
  /\ asked \in [by : {"generated", "user"}, at : {"written"}]
  /\ asked.by = "generated" => \A i \in DOMAIN cv : ~cv[i].heading
  /\ answer = <<>>
  /\ output = <<>>

\* check_text up to the call: without a sentence there is nothing to ask.
Send ==
  /\ asked.at = "written"
  /\ asked' = [asked EXCEPT !.at =
       IF SentencesOf(SplitUnits(cv)) = {} THEN "unsent" ELSE "sent"]
  /\ UNCHANGED <<cv, answer, output>>

\* The model says something of each sentence, in order, or leaves the first out,
\* or gives the last two the other way round.
Permuted(results) ==
  LET n == Len(results) IN
  {results, Tail(results)}
  \union IF n < 2 THEN {} ELSE {[results EXCEPT ![n] = results[n - 1], ![n - 1] = results[n]]}

Answer ==
  /\ asked.at = "sent"
  /\ \E said \in [1..Cardinality(SentencesOf(SplitUnits(cv))) -> Palette] :
       answer' \in Permuted([n \in DOMAIN said |-> [index |-> n, result |-> said[n]]])
  /\ IF FromTheModel(answer') /\ Aligned(SentencesOf(SplitUnits(cv)), answer')
     THEN /\ output' = Checked(Assemble(SplitUnits(cv), answer'))
          /\ asked' = [asked EXCEPT !.at = "checked"]
     ELSE /\ asked' = [asked EXCEPT !.at = "rejected"]
          /\ UNCHANGED output
  /\ UNCHANGED cv

Place ==
  /\ asked.at = "checked"
  /\ IF asked.by = "user"
     THEN /\ cv' = VerdictsForLines(cv, SplitUnits(cv), output)
          /\ asked' = [asked EXCEPT !.at = "placed"]
     ELSE IF LinesUp(cv, output)
     THEN /\ cv' = ApplyGateOutput(cv, output)
          /\ asked' = [asked EXCEPT !.at = "placed"]
     ELSE /\ asked' = [asked EXCEPT !.at = "misplaced"]
          /\ UNCHANGED cv
  /\ UNCHANGED <<answer, output>>

GateNext == Send \/ Answer \/ Place

GateSpec == GateInit /\ [][GateNext]_gateVars

----------------------------------------------------------------------------
(* Properties.                                                             *)

\* A citation that can be looked up: a span, or what begins the id of one only.
Traces(c) == c \in Spans \/ (c \in Abbreviated /\ Cardinality(Begins[c]) = 1)
Earned(result) == /\ result.verdict = "supported"
                  /\ result.cited # {} /\ \A c \in result.cited : Traces(c)

\* What the model said of the claims of line i, by the number it gave them,
\* whatever the gate did with it.
ClaimsOf(i) ==
  LET units == SplitUnits(cv)
  IN {answer[n].result : n \in {m \in DOMAIN answer :
        /\ answer[m].result.kind = "claim"
        /\ \E k \in SentencesOf(units) :
             NumberOf(units, k) = answer[m].index /\ units[k].line = i}}

\* No sentence below the heading the user typed occurs in it (see NeverGuessed).
Unmistakable == \A i \in (TitleAt(cv) + 1)..Len(cv) : TitleAt(cv) # 0 =>
  \A n \in DOMAIN cv[i].says, m \in DOMAIN cv[TitleAt(cv)].says :
    <<cv[i].says[n], cv[TitleAt(cv)].says[m]>> \notin Within

\* A line is shown as supported if the model supported each claim it makes with
\* citations that can all be looked up, and never otherwise; as unsupported if one
\* claim is; as framing if it claims nothing; and a heading is as it was.  And what
\* the model wrote never fails to line up with what was asked about it.
LinesAreEarned ==
  /\ asked.at # "misplaced"
  /\ asked.at = "placed" /\ Unmistakable => \A i \in DOMAIN cv :
       IF i = TitleAt(cv) THEN cv[i].verdict = NoVerdict
       ELSE /\ cv[i].verdict # NoVerdict
            /\ cv[i].verdict = "framing" <=> ClaimsOf(i) = {}
            /\ cv[i].verdict = "supported" <=>
                 ClaimsOf(i) # {} /\ \A result \in ClaimsOf(i) : Earned(result)
            /\ cv[i].verdict = "unsupported" <=>
                 \E result \in ClaimsOf(i) : result.verdict = "unsupported"

\* By hand (see the README): "A line no sentence landed in gets no verdict and
\* stays unchecked -- never a guessed one".  A lone heading is not sent, and the
\* next sentence that occurs in it is taken for its own.
NeverGuessed ==
  asked.at = "placed" /\ TitleAt(cv) # 0 => cv[TitleAt(cv)].verdict = NoVerdict
=============================================================================
