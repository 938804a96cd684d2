------------------------------- MODULE Answers -------------------------------
(***************************************************************************)
(* Answers to an application's questions (routes, storage and handlers     *)
(* application_questions, jfl_generate.answers). "Check my answer" has the *)
(* user's words checked by the claim gate and then assessed; "draft one    *)
(* for me" has a draft written and then checked by the gate. Every press   *)
(* is an attempt of its own, a row the worker ends with one write.         *)
(*                                                                         *)
(* A verdict, or an assessment, is the text it was made of.                *)
(***************************************************************************)
EXTENDS Naturals

CONSTANTS
  Attempts,    \* ids of application_question_answers
  Deliveries,  \* ids of deliveries of a task to a thread
  Typed,       \* what a user may write
  Drafted,     \* what the model may
  MaxTries,    \* tasks.max_attempts
  None

VARIABLES
  hasKey,    \* whether an API key is stored
  required,  \* whether the job has extracted requirements
  attempt,   \* the rows
  queued,    \* the task of each
  delivery,  \* where each delivery stands
  wrote,     \* history: what the user typed for the attempt
  swept      \* history: the attempts whose task was once swept

answersVars == <<hasKey, required, attempt, queued, delivery, wrote, swept>>

Texts    == Typed \union Drafted \union {None}
Kinds    == {"user", "draft"}

AnswerRows == [kind: Kinds \union {None}, status: {"absent", "pending", "done", "failed"},
               text: Texts, gate: Texts, assessment: Texts]
NoAnswer   == [kind |-> None, status |-> "absent", text |-> None, gate |-> None,
               assessment |-> None]
Unqueued   == [status |-> "absent", tries |-> 0]
NoDelivery == [at |-> "none", of |-> None, text |-> None, gate |-> None, assessment |-> None]

AnswersTypeOK ==
  /\ hasKey \in BOOLEAN /\ required \in BOOLEAN
  /\ attempt \in [Attempts -> AnswerRows]
  /\ queued \in [Attempts -> [status: {"absent", "pending", "running", "succeeded", "failed"},
                              tries: 0..MaxTries]]
  /\ delivery \in [Deliveries -> [at: {"none", "first", "second", "answered", "written"},
                                  of: Attempts \union {None},
                                  text: Texts, gate: Texts, assessment: Texts]]
  /\ swept \subseteq Attempts

AnswersInit ==
  /\ hasKey \in BOOLEAN /\ required \in BOOLEAN
  /\ attempt = [a \in Attempts |-> NoAnswer]
  /\ queued = [a \in Attempts |-> Unqueued]
  /\ delivery = [d \in Deliveries |-> NoDelivery]
  /\ wrote = [a \in Attempts |-> None]
  /\ swept = {}

----------------------------------------------------------------------------
(* The two buttons: the row and its task, in the request's transaction.    *)

Press(a, kind, text) ==
  /\ attempt[a].status = "absent"
  /\ attempt' = [attempt EXCEPT ![a] = [kind |-> kind, status |-> "pending", text |-> text,
                                        gate |-> None, assessment |-> None]]
  /\ queued' = [queued EXCEPT ![a] = [status |-> "pending", tries |-> 0]]
  /\ wrote' = [wrote EXCEPT ![a] = text]
  /\ UNCHANGED <<hasKey, required, delivery, swept>>

CheckAnswer(a) == \E text \in Typed : Press(a, "user", text)
DraftAnswer(a) == Press(a, "draft", None)

\* The user stores a key, which nothing takes away; a read of the ad ends, of
\* another ad perhaps than the last.
SettingChanges ==
  /\ \/ ~hasKey /\ hasKey' = TRUE /\ UNCHANGED required
     \/ required' = ~required /\ UNCHANGED hasKey
  /\ UNCHANGED <<attempt, queued, delivery, wrote, swept>>

----------------------------------------------------------------------------
(* The two handlers. A task found after its time is given to another        *)
(* delivery though the first may only be slow, and each then records its   *)
(* outcome as if the other were not there.                                 *)

Outcome(d, status, tries) == queued' = [queued EXCEPT ![delivery[d].of] =
                                          [status |-> status, tries |-> tries]]
Ends(d, status)  == Outcome(d, status, queued[delivery[d].of].tries)
Again(tries)     == IF tries < MaxTries THEN "pending" ELSE "failed"
MarkFailed(a)    == attempt' = [attempt EXCEPT ![a].status = "failed"]

\* Nothing to draft against, or no key: both for good.
CannotStart(a) == (attempt[a].kind = "draft" /\ ~required) \/ ~hasKey

Claimed(a, status) == queued' = [queued EXCEPT ![a] = [status |-> status, tries |-> @.tries + 1]]

Claim(d, a) ==
  /\ queued[a].status = "pending" /\ delivery[d] = NoDelivery
  /\ \/ /\ attempt[a].status = "done"
        /\ Claimed(a, "succeeded")
        /\ UNCHANGED <<attempt, delivery>>
     \/ /\ attempt[a].status # "done" /\ CannotStart(a)
        /\ MarkFailed(a)
        /\ Claimed(a, "failed")
        /\ UNCHANGED delivery
     \/ /\ attempt[a].status # "done" /\ ~CannotStart(a)
        /\ Claimed(a, "running")
        /\ delivery' = [delivery EXCEPT ![d] = [at |-> "first", of |-> a, text |-> attempt[a].text,
                                                gate |-> None, assessment |-> None]]
        /\ UNCHANGED attempt
  /\ UNCHANGED <<hasKey, required, wrote, swept>>

IsDraft(d) == attempt[delivery[d].of].kind = "draft"

\* Of the user's words the gate, then the assessment; of a draft the words, then
\* the gate. One model call each, the first lost if the second fails.
FirstCall(d) ==
  /\ delivery[d].at = "first"
  /\ \/ /\ IsDraft(d)
        /\ \E text \in Drafted :
             delivery' = [delivery EXCEPT ![d] = [@ EXCEPT !.at = "second", !.text = text]]
     \/ /\ ~IsDraft(d)
        /\ delivery' = [delivery EXCEPT ![d] = [@ EXCEPT !.at = "second", !.gate = delivery[d].text]]
  /\ UNCHANGED <<hasKey, required, attempt, queued, wrote, swept>>

SecondCall(d) ==
  /\ delivery[d].at = "second"
  /\ delivery' = [delivery EXCEPT ![d] =
       IF IsDraft(d) THEN [@ EXCEPT !.at = "answered", !.gate = delivery[d].text]
       ELSE [@ EXCEPT !.at = "answered", !.assessment = delivery[d].text]]
  /\ UNCHANGED <<hasKey, required, attempt, queued, wrote, swept>>

\* Mutant: the text of a draft already written is kept.
DoneKeepingText(row, d) ==
  [row EXCEPT !.status = "done", !.gate = delivery[d].gate,
              !.assessment = delivery[d].assessment,
              !.text = IF @ = None THEN delivery[d].text ELSE @]

\* mark_done: a check leaves the text the user typed.
Done(row, d) ==
  [row EXCEPT !.status = "done", !.gate = delivery[d].gate,
              !.assessment = delivery[d].assessment,
              !.text = IF row.kind = "draft" THEN delivery[d].text ELSE @]

MarkDone(d) ==
  /\ delivery[d].at = "answered"
  /\ attempt' = [attempt EXCEPT ![delivery[d].of] = Done(@, d)]
  /\ delivery' = [delivery EXCEPT ![d].at = "written"]
  /\ UNCHANGED <<hasKey, required, queued, wrote, swept>>

Complete(d) ==
  /\ delivery[d].at = "written"
  /\ Ends(d, "succeeded")
  /\ delivery' = [delivery EXCEPT ![d] = NoDelivery]
  /\ UNCHANGED <<hasKey, required, attempt, wrote, swept>>

\* Either call refused or broken: the row says so, and the task tries again or not.
CallFails(d, permanent) ==
  /\ delivery[d].at \in {"first", "second"}
  /\ MarkFailed(delivery[d].of)
  /\ Ends(d, IF permanent THEN "failed" ELSE Again(queued[delivery[d].of].tries))
  /\ delivery' = [delivery EXCEPT ![d] = NoDelivery]
  /\ UNCHANGED <<hasKey, required, wrote, swept>>

\* Refused for the account: the row goes on waiting, the try is given back.
Blocked(d) ==
  /\ delivery[d].at \in {"first", "second"}
  /\ Outcome(d, "pending", queued[delivery[d].of].tries - 1)
  /\ delivery' = [delivery EXCEPT ![d] = NoDelivery]
  /\ UNCHANGED <<hasKey, required, attempt, wrote, swept>>

\* The process dies; its task is found later. Or it is only slow, and found too.
Dies(d) ==
  /\ delivery[d] # NoDelivery
  /\ delivery' = [delivery EXCEPT ![d] = NoDelivery]
  /\ UNCHANGED <<hasKey, required, attempt, queued, wrote, swept>>

Sweep(a) ==
  /\ queued[a].status = "running"
  /\ queued' = [queued EXCEPT ![a].status = Again(queued[a].tries)]
  /\ swept' = swept \union {a}
  /\ UNCHANGED <<hasKey, required, attempt, delivery, wrote>>

AnswersNext ==
  \/ SettingChanges
  \/ \E a \in Attempts : \/ CheckAnswer(a) \/ DraftAnswer(a) \/ Sweep(a)
                         \/ \E d \in Deliveries : Claim(d, a)
  \/ \E d \in Deliveries : \/ FirstCall(d) \/ SecondCall(d) \/ MarkDone(d) \/ Complete(d)
                           \/ Blocked(d) \/ Dies(d)
                           \/ \E permanent \in BOOLEAN : CallFails(d, permanent)

AnswersSpec == AnswersInit /\ [][AnswersNext]_answersVars

----------------------------------------------------------------------------
\* What an answer says of itself is about the words shown with it, whatever other
\* delivery of the task ended before, after or in between; the user's words are as
\* they typed them, and a draft is never assessed.
VerdictIsOfItsText ==
  \A a \in Attempts :
    LET row == attempt[a]
    IN /\ row.gate \in {None, row.text}
       /\ row.status = "done" => row.gate = row.text /\ row.text # None
       /\ row.kind = "user" => row.text = wrote[a]
       /\ row.status = "done" =>
            row.assessment = IF row.kind = "user" THEN row.text ELSE None

\* One that says it is being looked at has a task, unless that was swept in its
\* last try; one whose task ended well and was never swept has its verdict.
WaitingHasTask ==
  \A a \in Attempts \ swept :
    /\ attempt[a].status = "pending" => queued[a].status \in {"pending", "running"}
    /\ queued[a].status = "succeeded" => attempt[a].status = "done"

\* By hand (see the README): an answer once given stays. A delivery that was swept
\* while slow marks it failed, or puts its own draft in its place.
DoneStays ==
  [][\A a \in Attempts : attempt[a].status = "done" => attempt'[a] = attempt[a]]_answersVars
=============================================================================
