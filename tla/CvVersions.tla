----------------------------- MODULE CvVersions -----------------------------
(***************************************************************************)
(* The CV of one application (routes/cv_documents.py, jfl_core.cv_lines,   *)
(* handlers/cv_edits_check.py): a list of versions that only grows.  A     *)
(* generation, an edit, a template or header change and a check of the     *)
(* user's edits each read the newest version and write another one; the    *)
(* check spends two model calls' time in between and says what it found on *)
(* the newest version there is by then.                                    *)
(*                                                                         *)
(* A CV is here the lines a user may rewrite.  Of a line's verdict only    *)
(* one thing matters: the words it was given on.                           *)
(***************************************************************************)
EXTENDS Integers, Sequences, FiniteSets

CONSTANTS
  Wordings,     \* what a line may say
  MaxLines,     \* bound: lines of a CV
  MaxVersions,  \* bound: versions stored
  Requests,     \* web requests in progress at once
  CheckTasks,   \* check_cv_edits tasks; also the bound on them
  CheckTries,   \* tasks.max_attempts
  None

ASSUME CvAssumption ==
  /\ MaxLines \in Nat
  /\ MaxVersions \in Nat
  /\ CheckTries \in Nat \ {0}
  /\ None \notin Wordings \union CheckTasks

VARIABLES
  versions,  \* cv_documents of the application, in created_at order
  request,   \* request[r]: what request r has read, of kind `what`
  check      \* check[t]: the check task, and what its thread has read

cvVars == <<versions, request, check>>

Line == [text : Wordings, origin : {"generated", "user"}, judged : Wordings \union {None}]
Documents == UNION {[1..n -> Line] : n \in 0..MaxLines}

Idle   == [what |-> "none", base |-> 0]
NoCheck == [status |-> "absent", tries |-> 0, at |-> "none", version |-> 0,
           paths |-> {}, base |-> 0, found |-> {}]

\* The rows of cv_documents; `base` is history: the version a row was made from.
VersionRows == [document : Documents, trace : CheckTasks \union {None}, base : 0..MaxVersions]

CvTypeOK ==
  /\ versions \in Seq(VersionRows)
  /\ \A v \in DOMAIN versions : versions[v].base < v
  /\ \A r \in Requests :
       /\ request[r].what \in {"none", "change", "check"}
       /\ request[r].base \in 0..Len(versions)
  /\ \A t \in CheckTasks :
       /\ check[t].status \in {"absent", "pending", "running", "succeeded", "failed"}
       /\ check[t].tries \in 0..CheckTries
       /\ check[t].at \in {"none", "start", "call", "latest", "save", "ok", "error", "permanent"}
       /\ check[t].version \in 0..Len(versions)
       /\ check[t].base \in 0..Len(versions)
       /\ check[t].paths \subseteq 1..MaxLines
       /\ check[t].found \subseteq (1..MaxLines) \X Wordings

CvInit == /\ versions = <<>>
          /\ request = [r \in Requests |-> Idle]
          /\ check = [t \in CheckTasks |-> NoCheck]

----------------------------------------------------------------------------
Latest == Len(versions)          \* created_at is the clock at the INSERT
Shown  == versions[Latest].document

AddVersion(document, trace, base) ==
  /\ Latest < MaxVersions
  /\ versions' = Append(versions, [document |-> document, trace |-> trace, base |-> base])

\* unchecked_edits: the user's lines no check has looked at since.
UncheckedEdits(document) ==
  {i \in DOMAIN document : document[i].origin = "user" /\ document[i].judged = None}

\* _edited: the same words keep their verdict, other words have none.
Edited(line, words) ==
  IF words = line.text THEN line
  ELSE [text |-> words, origin |-> "user", judged |-> None]

\* apply_edits: a submission gives every line its words; emptied lines go, and
\* those after them move up.
ApplyEdits(document, submitted) ==
  LET kept == {i \in DOMAIN document : submitted[i] # None}
      nth(j) == CHOOSE i \in kept : Cardinality({k \in kept : k <= i}) = j
  IN [j \in 1..Cardinality(kept) |-> Edited(document[nth(j)], submitted[nth(j)])]

\* A wrong WithVerdicts: by place, whatever the line says now.
WithVerdictsByPath(document, found) ==
  [i \in DOMAIN document |->
     IF \E words \in Wordings : <<i, words>> \in found
     THEN [document[i] EXCEPT !.judged = CHOOSE words \in Wordings : <<i, words>> \in found]
     ELSE document[i]]

\* with_verdicts: only onto a line that still says what was checked.
WithVerdicts(document, found) ==
  [i \in DOMAIN document |->
     IF <<i, document[i].text>> \in found
     THEN [document[i] EXCEPT !.judged = document[i].text]
     ELSE document[i]]

----------------------------------------------------------------------------
(* Generation: the last step of the drafting chain (_write_cv_document)    *)
(* writes a CV whatever the newest version is.  apply_gate_output gives    *)
(* every line a verdict or stores nothing.                                 *)

Generated(words) == [i \in DOMAIN words |->
  [text |-> words[i], origin |-> "generated", judged |-> words[i]]]

Generate ==
  /\ \E words \in UNION {[1..n -> Wordings] : n \in 0..MaxLines} :
       AddVersion(Generated(words), None, Latest)
  /\ UNCHANGED <<request, check>>

(* Web requests: each reads the newest version, which must be the one its  *)
(* page was made from (_base_is_latest) ...                                *)

Open(r) ==
  /\ request[r].what = "none"
  /\ Latest > 0
  /\ request' = [request EXCEPT ![r] = [what |-> "change", base |-> Latest]]
  /\ UNCHANGED <<versions, check>>

\* ... and stores what it made of it: other words, or the same lines under
\* another template or header.  Unchanged, it stores nothing.
Save(r) ==
  LET document == versions[request[r].base].document IN
  /\ request[r].what = "change"
  /\ request' = [request EXCEPT ![r] = Idle]
  /\ \/ \E submitted \in [DOMAIN document -> Wordings \union {None}] :
          /\ ApplyEdits(document, submitted) # document
          /\ AddVersion(ApplyEdits(document, submitted), None, request[r].base)
     \/ AddVersion(document, None, request[r].base)
     \/ UNCHANGED versions
  /\ UNCHANGED check

PendingCheck == \E t \in CheckTasks : check[t].status \in {"pending", "running"}

\* check_my_edits: asks for a check unless one is waiting or running ...
AskForCheck(r) ==
  /\ request[r].what = "none"
  /\ Latest > 0
  /\ UncheckedEdits(Shown) # {}
  /\ ~ PendingCheck
  /\ request' = [request EXCEPT ![r] = [what |-> "check", base |-> Latest]]
  /\ UNCHANGED <<versions, check>>

\* ... naming the version and the lines.
QueueCheck(r) ==
  /\ request[r].what = "check"
  /\ request' = [request EXCEPT ![r] = Idle]
  /\ \E t \in CheckTasks :
       /\ check[t].status = "absent"
       /\ check' = [check EXCEPT ![t] =
            [NoCheck EXCEPT !.status = "pending", !.version = request[r].base,
               !.paths = UncheckedEdits(versions[request[r].base].document)]]
  /\ UNCHANGED versions

----------------------------------------------------------------------------
(* The check, delivered at least once.                                     *)

Move(t, place) == check' = [check EXCEPT ![t].at = place]

\* version_for_trace
Stored(t) == \E v \in DOMAIN versions : versions[v].trace = t

Deliver(t) ==
  /\ check[t].status = "pending"
  /\ check' = [check EXCEPT ![t] =
       [@ EXCEPT !.status = "running", !.tries = check[t].tries + 1, !.at = "start"]]
  /\ UNCHANGED <<versions, request>>

\* The work already done, or the lines of the version the user saw.
BeginCheck(t) ==
  /\ check[t].at = "start"
  /\ Move(t, IF Stored(t) THEN "ok" ELSE "call")
  /\ UNCHANGED <<versions, request>>

\* The key and the gate's call: verdicts on some of the lines it was given
\* (verdicts_for_lines), a refusal, or a failure.
CallGate(t) ==
  LET document == versions[check[t].version].document
      put == {<<i, document[i].text>> : i \in check[t].paths}
  IN
  /\ check[t].at = "call"
  /\ \/ \E found \in SUBSET put :
          check' = [check EXCEPT ![t] = [@ EXCEPT !.at = "latest", !.found = found]]
     \/ Move(t, "error") \/ Move(t, "permanent")
  /\ UNCHANGED <<versions, request>>

\* One transaction: the newest version is read ...
ReadLatest(t) ==
  /\ check[t].at = "latest"
  /\ IF WithVerdicts(Shown, check[t].found) = Shown
     THEN Move(t, "ok")
     ELSE check' = [check EXCEPT ![t] = [@ EXCEPT !.at = "save", !.base = Latest]]
  /\ UNCHANGED <<versions, request>>

\* ... and written again with its verdicts, with nothing to keep another
\* version out between the two.
SaveChecked(t) ==
  /\ check[t].at = "save"
  /\ AddVersion(WithVerdicts(versions[check[t].base].document, check[t].found),
                t, check[t].base)
  /\ Move(t, "ok")
  /\ UNCHANGED request

\* The runner's record of the outcome; a dead process ends like an error.
Forget(t, status) ==
  check' = [check EXCEPT ![t] =
    [@ EXCEPT !.status = status, !.at = "none", !.found = {}, !.base = 0]]

AfterError(t) == IF check[t].tries >= CheckTries THEN "failed" ELSE "pending"

RecordCheck(t) ==
  /\ check[t].at \in {"ok", "error", "permanent"}
  /\ Forget(t, CASE check[t].at = "ok" -> "succeeded"
                 [] check[t].at = "permanent" -> "failed"
                 [] check[t].at = "error" -> AfterError(t))
  /\ UNCHANGED <<versions, request>>

LoseCheck(t) ==
  /\ check[t].at # "none"
  /\ Forget(t, AfterError(t))
  /\ UNCHANGED <<versions, request>>

----------------------------------------------------------------------------
CvNext ==
  \/ Generate
  \/ \E r \in Requests : Open(r) \/ Save(r) \/ AskForCheck(r) \/ QueueCheck(r)
  \/ \E t \in CheckTasks :
       \/ Deliver(t) \/ BeginCheck(t) \/ CallGate(t) \/ ReadLatest(t)
       \/ SaveChecked(t) \/ RecordCheck(t) \/ LoseCheck(t)

CvSpec == CvInit /\ [][CvNext]_cvVars

----------------------------------------------------------------------------
(* What must hold.                                                         *)

\* A line never carries a verdict given on other words: "a verdict on
\* different words would be a lie" (cv_lines.py) - however edits, removals
\* that move lines up, regenerations and a late check come together.
VerdictIsOfTheseWords ==
  \A v \in DOMAIN versions : \A i \in DOMAIN versions[v].document :
    versions[v].document[i].judged \in {None, versions[v].document[i].text}

\* "Not twice for one task" (cv_edits_check.py): a task delivered again after
\* it stored its version never reaches the gate again, and stores no other.
CheckedOnce ==
  \A t \in CheckTasks :
    LET written == {v \in DOMAIN versions : versions[v].trace = t} IN
    /\ written # {} => check[t].at \notin {"call", "latest", "save"}
    /\ Cardinality(written) <= 1

\* Every version is made from the one before it, so that what the user changed
\* is in what they see next (the `stale` message; "the *latest* version").
EveryChangeIsKept == \A v \in DOMAIN versions : versions[v].base = v - 1
=============================================================================
