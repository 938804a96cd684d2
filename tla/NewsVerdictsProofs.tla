------------------------- MODULE NewsVerdictsProofs --------------------------
(***************************************************************************)
(* What the digest and the job feed guarantee for any events, requests and *)
(* sends, any settling time longer than a check's lag, and any time a      *)
(* change stays up; what the model's calls do, for any attempts and any    *)
(* turns of the account; what is kept of its answers, for any corpus and   *)
(* any profile; and what a line of a CV is said to be worth, for any lines *)
(* and any answers.  The instances share nothing.                          *)
(***************************************************************************)
EXTENDS MCNews, MCVerdicts, FiniteSetTheorems, SequenceTheorems, WellFoundedInduction,
        TLAPS

----------------------------------------------------------------------------
(* Events: an event is stamped once, and committed within MaxLag.          *)

NewsTyped ==
  /\ now \in Nat /\ now <= MaxNow
  /\ at \in [Events -> Nat \union {None}]
  /\ \A e \in Events : at[e] # None => at[e] <= now
  /\ there \subseteq Events
  /\ \A e \in there : at[e] # None
  /\ passes \subseteq Events

CommitsInTime == \A e \in Events \ there : at[e] # None => now <= at[e] + MaxLag

NewsInv == NewsTyped /\ CommitsInTime

\* What any step does to events: time goes on, what is committed stays as it was.
NewsGoesOn ==
  /\ now <= now' /\ there \subseteq there'
  /\ \A e \in Events : at[e] # None => at'[e] = at[e]

\* A time is a number, and what is committed has one.
LEMMA Times ==
  ASSUME NewsInv
  PROVE  /\ now \in Nat /\ now <= MaxNow
         /\ \A e \in there : e \in Events /\ at[e] # None /\ at[e] \in Nat /\ at[e] <= now
BY DEF NewsInv, NewsTyped

\* What happens to events keeps them well.
LEMMA NewsStep ==
  ASSUME NewsInv,
         \/ \E e \in Events : Stamp(e) \/ Commit(e)
         \/ EditFilter \/ Tick \/ UNCHANGED newsVars
  PROVE  NewsInv' /\ NewsGoesOn
<1> USE NewsAssumption DEF NewsInv, NewsTyped, CommitsInTime, NewsGoesOn
<1>1. ASSUME NEW e \in Events, Stamp(e)
      PROVE  NewsInv' /\ NewsGoesOn
  BY <1>1 DEF Stamp
<1>2. ASSUME NEW e \in Events, Commit(e)
      PROVE  NewsInv' /\ NewsGoesOn
  BY <1>2 DEF Commit
<1>3. CASE EditFilter
  BY <1>3 DEF EditFilter
<1>4. CASE Tick
  BY <1>4 DEF Tick
<1>5. CASE UNCHANGED newsVars
  BY <1>5 DEF newsVars
<1> QED BY <1>1, <1>2, <1>3, <1>4, <1>5
----------------------------------------------------------------------------
(* The digest.                                                             *)

SendRows == [pc : {"idle", "queued", "gathered", "mailed"}, tries : Nat, now : Nat,
             since : Nat, found : SUBSET Events, listed : SUBSET Events,
             kind : {"none", "digest", "heartbeat"}, sent : Nat \union {None}]

DigestTyped ==
  /\ settings # None => settings \in SettingsRows
  /\ send \in [Sends -> SendRows]

\* The cursor is behind every event that may still be committed, or no later than
\* the opt-in; and it is no time to come.
CursorInv ==
  settings # None =>
    /\ settings.upTo <= now /\ settings.opted <= now /\ settings.evaluated <= now
    /\ settings.upTo <= settings.opted \/ settings.upTo + Settle <= now

\* A run that has its window has all there will ever be in it.
WindowInv ==
  \A s \in Sends : send[s].pc \in {"gathered", "mailed"} =>
    /\ settings # None
    /\ send[s].now <= now
    /\ send[s].found \subseteq there /\ send[s].listed \subseteq send[s].found
    /\ \A e \in send[s].found : at[e] <= Until(send[s].now)
    /\ \A e \in there : at[e] > settings.upTo /\ at[e] <= Until(send[s].now)
                          => e \in send[s].found
    /\ send[s].found \intersect settled = {}

\* One send at a time.
Alone == \A s, t \in Sends : send[s].pc # "idle" /\ send[t].pc # "idle" => s = t

\* What a run has settled is behind the cursor, while the digest is on.
SettledBehind ==
  \A e \in settled : /\ e \in there /\ settings # None
                     /\ settings.enabled => at[e] <= settings.upTo

\* What was mailed is settled, or about to be, or its delivery was lost.
MailedKept ==
  \A e \in mailed : \/ e \in unlogged \union settled
                    \/ \E s \in Sends : send[s].pc = "mailed" /\ e \in send[s].listed

DigestInv ==
  /\ DigestTyped /\ CursorInv /\ WindowInv /\ Alone /\ SettledBehind /\ MailedKept
  /\ DigestIsExact /\ MailedTwiceOnlyIfLost

\* A settings row has its columns, and is not None.
LEMMA SettingsThere ==
  /\ \A r \in SettingsRows : /\ r # None /\ r.enabled \in BOOLEAN
                             /\ r.opted \in Nat /\ r.upTo \in Nat /\ r.evaluated \in Nat
  /\ DigestTyped /\ settings # None =>
       /\ settings \in SettingsRows /\ settings.enabled \in BOOLEAN
       /\ settings.opted \in Nat /\ settings.upTo \in Nat /\ settings.evaluated \in Nat
BY NoneAssumption, NewsAssumption DEF SettingsRows, DigestTyped

\* What happens to events leaves the digest well: what is committed only now is too
\* recent for any window that is read, and for the cursor.
LEMMA NewsKeepsDigest ==
  ASSUME NewsInv, NewsInv', NewsGoesOn, DigestInv, UNCHANGED digestVars,
         \A e \in there' \ there : now' <= at'[e] + MaxLag
  PROVE  DigestInv'
<1> USE DEF DigestInv
<1>1. /\ now \in Nat /\ now' \in Nat /\ now <= now' /\ there \subseteq there'
      /\ \A e \in there' : at'[e] \in Nat /\ at'[e] <= now'
      /\ \A e \in there : at'[e] = at[e] /\ at[e] \in Nat
      /\ MaxLag \in Nat /\ Settle \in Nat /\ MaxLag < Settle
  BY Times, NewsAssumption, DigestAssumption DEF NewsInv, NewsTyped, NewsGoesOn
<1>2. UNCHANGED <<settings, lastSend, lastTask, send, settled, mailed, twice, unlogged>>
  BY DEF digestVars
<1>3. DigestTyped' /\ Alone' /\ MailedKept' /\ MailedTwiceOnlyIfLost'
  BY <1>2 DEF DigestTyped, Alone, MailedKept, MailedTwiceOnlyIfLost
<1>4. CursorInv'
  BY <1>1, <1>2, SettingsThere DEF CursorInv
<1>5. WindowInv'
  <2> SUFFICES ASSUME NEW s \in Sends, send[s].pc \in {"gathered", "mailed"}
               PROVE  /\ send[s].now <= now'
                      /\ send[s].found \subseteq there'
                      /\ \A e \in send[s].found : at'[e] <= Until(send[s].now)
                      /\ \A e \in there' : /\ at'[e] > settings.upTo
                                           /\ at'[e] <= Until(send[s].now)
                                           => e \in send[s].found
    BY <1>2 DEF WindowInv, Until
  <2>1. send[s].now \in Nat /\ send[s].now <= now
    BY DEF WindowInv, DigestTyped, SendRows
  <2>2. \A e \in there' \ there : ~ (at'[e] <= Until(send[s].now))
    BY <1>1, <2>1 DEF Until
  <2> QED BY <1>1, <2>1, <2>2 DEF WindowInv
<1>6. SettledBehind'
  BY <1>1, <1>2 DEF SettledBehind
<1>7. DigestIsExact'
  <2>1. NeverTheHistory'
    BY <1>2 DEF DigestIsExact, NeverTheHistory
  <2>2. ASSUME settings # None, NEW e \in there' \ there, at'[e] > settings.opted,
               at'[e] <= settings.upTo
        PROVE  FALSE
    BY <1>1, <2>2, SettingsThere DEF CursorInv
  <2>3. DigestMissesNothing'
    BY <1>1, <1>2, <2>2 DEF DigestIsExact, DigestMissesNothing
  <2> QED BY <2>1, <2>3 DEF DigestIsExact
<1> QED BY <1>2, <1>3, <1>4, <1>5, <1>6, <1>7
\* The rows of sends, as the steps write them.
LEMMA SendWrites ==
  ASSUME DigestTyped, NewsTyped, NEW s \in Sends
  PROVE  /\ NoSend \in SendRows /\ NoSend.pc = "idle"
         /\ LET r == [NoSend EXCEPT !.pc = "queued"]
            IN  r \in SendRows /\ r.pc = "queued"
         /\ LET r == Retry(s)
            IN  r \in SendRows /\ r.pc \in {"idle", "queued"}
         /\ LET r == [send[s] EXCEPT !.pc = "mailed", !.sent = now]
            IN  /\ r \in SendRows /\ r.pc = "mailed" /\ r.now = send[s].now
                /\ r.found = send[s].found /\ r.listed = send[s].listed
<1>1. send[s] \in SendRows /\ now \in Nat
  BY DEF DigestTyped, NewsTyped
<1>2. NoSend \in SendRows /\ NoSend.pc = "idle"
  BY DEF NoSend, SendRows
<1>3. LET r == [NoSend EXCEPT !.pc = "queued"]
      IN  r \in SendRows /\ r.pc = "queued"
  BY DEF NoSend, SendRows
<1>4. LET r == Retry(s)
      IN  r \in SendRows /\ r.pc \in {"idle", "queued"}
  BY <1>1 DEF Retry, NoSend, SendRows
<1>5. LET r == [send[s] EXCEPT !.pc = "mailed", !.sent = now]
      IN  /\ r \in SendRows /\ r.pc = "mailed" /\ r.now = send[s].now
          /\ r.found = send[s].found /\ r.listed = send[s].listed
  BY <1>1 DEF SendRows
<1> QED BY <1>2, <1>3, <1>4, <1>5

\* A send that has no window, or keeps its own, keeps windows well while the cursor
\* stands; and so it does wherever a cursor moves on.
LEMMA WindowsStay ==
  ASSUME NewsInv, DigestInv, UNCHANGED newsVars, DigestTyped',
         settings # None => /\ settings' # None /\ settings'.upTo >= settings.upTo,
         \A t \in Sends : \/ send'[t].pc \notin {"gathered", "mailed"}
                          \/ /\ send[t].pc \in {"gathered", "mailed"}
                             /\ send'[t].now = send[t].now /\ send'[t].found = send[t].found
                             /\ send'[t].listed = send[t].listed
                             /\ send[t].found \intersect settled' = {}
  PROVE  WindowInv'
<1> SUFFICES ASSUME NEW t \in Sends, send'[t].pc \in {"gathered", "mailed"}
             PROVE  /\ settings' # None
                    /\ send[t].now <= now
                    /\ send[t].found \subseteq there /\ send[t].listed \subseteq send[t].found
                    /\ \A e \in send[t].found : at[e] <= Until(send[t].now)
                    /\ \A e \in there : /\ at[e] > settings'.upTo
                                        /\ at[e] <= Until(send[t].now)
                                        => e \in send[t].found
                    /\ send[t].found \intersect settled' = {}
  BY DEF WindowInv, newsVars, Until
<1>1. /\ settings # None /\ send[t].now <= now
      /\ send[t].found \subseteq there /\ send[t].listed \subseteq send[t].found
      /\ \A e \in send[t].found : at[e] <= Until(send[t].now)
      /\ \A e \in there : at[e] > settings.upTo /\ at[e] <= Until(send[t].now)
                            => e \in send[t].found
  BY DEF DigestInv, WindowInv
<1>2. /\ settings' # None /\ settings'.upTo >= settings.upTo
      /\ settings.upTo \in Nat /\ settings'.upTo \in Nat
  BY <1>1, SettingsThere DEF DigestInv, DigestTyped
<1>3. \A e \in there : at[e] \in Nat
  BY Times
<1> QED BY <1>1, <1>2, <1>3

\* Opting in: the cursor starts from now.
LEMMA EnableStep ==
  ASSUME NewsInv, DigestInv, UNCHANGED newsVars, Enable
  PROVE  DigestInv'
<1> USE DEF DigestInv
<1> DEFINE r == [enabled |-> TRUE, opted |-> now, upTo |-> now, evaluated |-> now]
<1>1. /\ settings' = r /\ ~ On
      /\ UNCHANGED <<lastSend, lastTask, send, settled, mailed, twice, unlogged>>
  BY DEF Enable
<1>2. now \in Nat /\ now <= MaxNow /\ UNCHANGED <<now, at, there, passes>>
  BY Times DEF newsVars
<1>3. r \in SettingsRows /\ r.enabled = TRUE /\ r.opted = now /\ r.upTo = now /\ r.evaluated = now
  BY <1>2, NewsAssumption DEF SettingsRows
<1>4. r # None
  BY <1>3, SettingsThere
<1> HIDE DEF r
<1>5. DigestTyped' /\ Alone' /\ MailedKept' /\ MailedTwiceOnlyIfLost'
  BY <1>1, <1>3 DEF DigestTyped, Alone, MailedKept, MailedTwiceOnlyIfLost
<1>6. CursorInv'
  BY <1>1, <1>2, <1>3 DEF CursorInv
<1>7. settings # None => settings.upTo <= now
  BY DEF CursorInv
<1>8. WindowInv'
  BY <1>1, <1>2, <1>3, <1>4, <1>5, <1>7, WindowsStay DEF WindowInv
<1>9. SettledBehind'
  BY <1>1, <1>2, <1>3, <1>4, Times DEF SettledBehind
<1>10. DigestIsExact'
  BY <1>1, <1>2, <1>3, Times DEF DigestIsExact, DigestMissesNothing, NeverTheHistory
<1> QED BY <1>1, <1>5, <1>6, <1>8, <1>9, <1>10

\* Opting out: only the flag moves.
LEMMA DisableStep ==
  ASSUME NewsInv, DigestInv, UNCHANGED newsVars, Disable
  PROVE  DigestInv'
<1> USE DEF DigestInv
<1> DEFINE r == [settings EXCEPT !.enabled = FALSE]
<1>1. /\ settings' = r /\ settings # None
      /\ UNCHANGED <<lastSend, lastTask, send, settled, mailed, twice, unlogged>>
  BY DEF Disable, On
<1>2. now \in Nat /\ UNCHANGED <<now, at, there, passes>>
  BY Times DEF newsVars
<1>3. /\ r \in SettingsRows /\ r.enabled = FALSE /\ r.opted = settings.opted
      /\ r.upTo = settings.upTo /\ r.evaluated = settings.evaluated
  BY <1>1, SettingsThere DEF SettingsRows
<1>4. r # None
  BY <1>3, SettingsThere
<1> HIDE DEF r
<1>5. DigestTyped' /\ Alone' /\ MailedKept' /\ MailedTwiceOnlyIfLost'
  BY <1>1, <1>3 DEF DigestTyped, Alone, MailedKept, MailedTwiceOnlyIfLost
<1>6. CursorInv'
  BY <1>1, <1>2, <1>3 DEF CursorInv
<1>7. WindowInv'
  BY <1>1, <1>2, <1>3, <1>4 DEF WindowInv, Until
<1>8. SettledBehind'
  BY <1>1, <1>2, <1>3, <1>4 DEF SettledBehind
<1>9. DigestIsExact'
  BY <1>1, <1>2, <1>3, <1>4 DEF DigestIsExact, DigestMissesNothing, NeverTheHistory
<1> QED BY <1>1, <1>5, <1>6, <1>7, <1>8, <1>9

\* A send that changes hands, the cursor, the log of what is settled and the mail
\* standing: this much is left to see to.
LEMMA SendStep ==
  ASSUME NewsInv, DigestInv, UNCHANGED newsVars, UNCHANGED <<settings, settled>>,
         DigestTyped', WindowInv', Alone', MailedKept', MailedTwiceOnlyIfLost'
  PROVE  DigestInv'
<1>1. UNCHANGED <<now, at, there, passes>>
  BY DEF newsVars
<1>2. CursorInv' /\ SettledBehind' /\ DigestIsExact'
  BY <1>1 DEF DigestInv, CursorInv, SettledBehind, DigestIsExact, DigestMissesNothing,
              NeverTheHistory
<1> QED BY <1>2 DEF DigestInv

\* The scheduling pass queues a send only while there is none.
LEMMA ScheduleStep ==
  ASSUME NewsInv, DigestInv, UNCHANGED newsVars, Schedule
  PROVE  DigestInv'
<1> USE DEF DigestInv
<1> DEFINE r == [NoSend EXCEPT !.pc = "queued"]
<1>1. PICK s \in Sends : send[s].pc = "idle" /\ send' = [send EXCEPT ![s] = r]
  BY DEF Schedule
<1>2. r \in SendRows /\ r.pc = "queued"
  BY <1>1, SendWrites DEF NewsInv
<1> HIDE DEF r
<1>3. send'[s] = r /\ \A t \in Sends \ {s} : send'[t] = send[t] /\ send[t].pc = "idle"
  BY <1>1 DEF DigestTyped, Schedule, NoneUnfinished
<1>4. UNCHANGED <<settings, settled, mailed, twice, unlogged>>
  BY DEF Schedule
<1>5. DigestTyped'
  BY <1>1, <1>2, <1>4 DEF DigestTyped
<1>6. WindowInv'
  BY <1>2, <1>3 DEF WindowInv
<1>7. Alone'
  BY <1>3 DEF Alone
<1>8. MailedKept' /\ MailedTwiceOnlyIfLost'
  BY <1>1, <1>3, <1>4 DEF MailedKept, MailedTwiceOnlyIfLost
<1> QED BY <1>4, <1>5, <1>6, <1>7, <1>8, SendStep

\* A run reads its window, which what is settled lies before.
LEMMA GatherStep ==
  ASSUME NewsInv, DigestInv, UNCHANGED newsVars, NEW s \in Sends, Gather(s)
  PROVE  DigestInv'
<1> USE DEF DigestInv
<1>1. /\ send[s].pc = "queued" /\ UNCHANGED <<settings, settled, mailed, twice, unlogged>>
      /\ \A t \in Sends \ {s} : send[t].pc = "idle"
      /\ send[s] \in SendRows
  BY DEF Gather, Alone, DigestTyped
<1>2. UNCHANGED <<now, at, there, passes>> /\ now \in Nat
  BY Times DEF newsVars
<1>3. ASSUME NEW r \in SendRows, send' = [send EXCEPT ![s] = r],
             \/ r.pc = "idle"
             \/ /\ r.pc = "gathered" /\ r.now = now /\ On
                /\ r.found = {e \in EventsSince(settings.upTo) : at[e] <= Until(now)}
                /\ r.listed \subseteq r.found
      PROVE  DigestInv'
  <2>1. send'[s] = r /\ \A t \in Sends \ {s} : send'[t] = send[t]
    BY <1>3 DEF DigestTyped
  <2>2. DigestTyped'
    BY <1>1, <1>3 DEF DigestTyped
  <2>3. WindowInv'
    <3>1. CASE r.pc = "idle"
      BY <1>1, <2>1, <3>1 DEF WindowInv
    <3>2. CASE r.pc # "idle"
      <4>1. /\ r.pc = "gathered" /\ r.now = now /\ On
            /\ r.found = {e \in EventsSince(settings.upTo) : at[e] <= Until(now)}
            /\ r.listed \subseteq r.found
        BY <1>3, <3>2
      <4>2. r.found \intersect settled = {}
        BY <4>1, Times, SettingsThere DEF SettledBehind, EventsSince, On
      <4> QED BY <1>1, <1>2, <2>1, <4>1, <4>2 DEF WindowInv, EventsSince, On, Until
    <3> QED BY <3>1, <3>2
  <2>4. Alone'
    BY <1>1, <2>1 DEF Alone
  <2>5. MailedKept' /\ MailedTwiceOnlyIfLost'
    BY <1>1, <1>3, <2>1 DEF MailedKept, MailedTwiceOnlyIfLost
  <2> QED BY <1>1, <2>2, <2>3, <2>4, <2>5, SendStep
<1>4. CASE On /\ Until(now) > settings.upTo
  <2> DEFINE found == {e \in EventsSince(settings.upTo) : at[e] <= Until(now)}
             listed == found \intersect passes
  <2>1. PICK watching \in BOOLEAN, troubled \in BOOLEAN :
          send' = [send EXCEPT ![s] =
            [NoSend EXCEPT !.pc = "gathered", !.tries = send[s].tries + 1, !.now = now,
                           !.found = found, !.listed = listed,
                           !.kind = PlanKind(listed, watching, troubled, Until(now))]]
    BY <1>4 DEF Gather
  <2> DEFINE kind == PlanKind(listed, watching, troubled, Until(now))
             tries == send[s].tries + 1
             r == [NoSend EXCEPT !.pc = "gathered", !.tries = tries, !.now = now,
                                 !.found = found, !.listed = listed, !.kind = kind]
  <2>2. kind \in {"none", "digest", "heartbeat"}
    BY DEF PlanKind
  <2>3. found \in SUBSET Events /\ listed \in SUBSET Events /\ listed \subseteq found
    BY DEF EventsSince, NewsInv, NewsTyped
  <2>4. tries \in Nat
    BY <1>1 DEF SendRows
  <2> HIDE DEF kind, listed, tries
  <2>5. r \in SendRows /\ r.pc = "gathered" /\ r.now = now /\ r.found = found /\ r.listed = listed
    <3> HIDE DEF found
    <3> QED BY <1>2, <2>2, <2>3, <2>4 DEF NoSend, SendRows
  <2>6. send' = [send EXCEPT ![s] = r]
    BY <2>1 DEF kind, listed, tries
  <2> HIDE DEF r
  <2> QED BY <1>3, <1>4, <2>3, <2>5, <2>6
<1>5. CASE ~ (On /\ Until(now) > settings.upTo)
  <2>1. send' = [send EXCEPT ![s] = NoSend]
    BY <1>5 DEF Gather
  <2>2. NoSend \in SendRows /\ NoSend.pc = "idle"
    BY SendWrites DEF NewsInv
  <2> QED BY <1>3, <2>1, <2>2
<1> QED BY <1>4, <1>5
\* The mail goes out: what it lists was not settled, so it was mailed before only by
\* a delivery that was lost.
LEMMA MailStep ==
  ASSUME NewsInv, DigestInv, UNCHANGED newsVars, NEW s \in Sends, Mail(s)
  PROVE  DigestInv'
<1> USE DEF DigestInv
<1> DEFINE r == [send[s] EXCEPT !.pc = "mailed", !.sent = now]
<1>1. /\ send[s].pc = "gathered" /\ UNCHANGED <<settings, settled, unlogged>>
      /\ mailed' = mailed \union send[s].listed
      /\ twice' = twice \union (send[s].listed \intersect mailed)
      /\ send' = [send EXCEPT ![s] = r]
      /\ \A t \in Sends \ {s} : send[t].pc = "idle"
  BY DEF Mail, Alone, DigestTyped
<1>2. /\ r \in SendRows /\ r.pc = "mailed" /\ r.now = send[s].now
      /\ r.found = send[s].found /\ r.listed = send[s].listed
  BY SendWrites DEF NewsInv
<1> HIDE DEF r
<1>3. send'[s] = r /\ \A t \in Sends \ {s} : send'[t] = send[t]
  BY <1>1 DEF DigestTyped
<1>4. DigestTyped'
  BY <1>1, <1>2 DEF DigestTyped
<1>5. Alone'
  BY <1>1, <1>3 DEF Alone
<1>6. WindowInv'
  BY <1>1, <1>2, <1>3, <1>4, SettingsThere, WindowsStay DEF WindowInv
<1>7. send[s].listed \intersect mailed \subseteq unlogged
  BY <1>1 DEF MailedKept, WindowInv
<1>8. MailedTwiceOnlyIfLost'
  BY <1>1, <1>7 DEF MailedTwiceOnlyIfLost
<1>9. MailedKept'
  BY <1>1, <1>2, <1>3 DEF MailedKept
<1> QED BY <1>1, <1>4, <1>5, <1>6, <1>8, <1>9, SendStep

\* A send ends, or waits to be delivered again; what it had mailed is not logged.
LEMMA EndStep ==
  ASSUME NewsInv, DigestInv, UNCHANGED newsVars, NEW s \in Sends, Refuse(s) \/ LoseSend(s)
  PROVE  DigestInv'
<1> USE DEF DigestInv
<1>1. /\ send[s].pc # "idle" /\ UNCHANGED <<settings, settled, mailed, twice>>
      /\ \A t \in Sends \ {s} : send[t].pc = "idle"
      /\ unlogged' = IF send[s].pc = "mailed" THEN unlogged \union send[s].listed ELSE unlogged
  BY DEF Refuse, LoseSend, Alone
<1>2. PICK r \in SendRows : r.pc \in {"idle", "queued"} /\ send' = [send EXCEPT ![s] = r]
  BY SendWrites DEF Refuse, LoseSend, NewsInv
<1>3. send'[s] = r /\ \A t \in Sends \ {s} : send'[t] = send[t]
  BY <1>2 DEF DigestTyped
<1>4. DigestTyped'
  BY <1>1, <1>2 DEF DigestTyped
<1>5. Alone'
  BY <1>1, <1>3 DEF Alone
<1>6. WindowInv'
  BY <1>1, <1>2, <1>3 DEF WindowInv
<1>7. MailedKept' /\ MailedTwiceOnlyIfLost'
  BY <1>1, <1>2, <1>3 DEF MailedKept, MailedTwiceOnlyIfLost
<1> QED BY <1>1, <1>4, <1>5, <1>6, <1>7, SendStep

\* A run completes: its window is settled, and the cursor moves to its end, unless it
\* is past it or the user has opted out.
LEMMA CompleteStep ==
  ASSUME NewsInv, DigestInv, UNCHANGED newsVars, NEW s \in Sends, Complete(s)
  PROVE  DigestInv'
<1> USE DEF DigestInv
<1> DEFINE up == Greater(settings.upTo, Until(send[s].now))
           ev == Greater(settings.evaluated, send[s].now)
<1>1. /\ send[s].pc \in {"gathered", "mailed"} /\ UNCHANGED <<mailed, twice, unlogged>>
      /\ settled' = settled \union send[s].found
      /\ send' = [send EXCEPT ![s] = NoSend]
      /\ settings' = IF settings.enabled THEN Advanced(send[s].now) ELSE settings
      /\ \A t \in Sends \ {s} : send[t].pc = "idle"
  BY DEF Complete, Alone
<1>2. /\ settings # None /\ send[s].now <= now
      /\ send[s].found \subseteq there /\ send[s].listed \subseteq send[s].found
      /\ \A e \in send[s].found : at[e] <= Until(send[s].now)
      /\ \A e \in there : at[e] > settings.upTo /\ at[e] <= Until(send[s].now)
                            => e \in send[s].found
      /\ send[s].now \in Nat
  BY <1>1 DEF WindowInv, DigestTyped, SendRows
<1>3. /\ settings \in SettingsRows /\ settings.enabled \in BOOLEAN
      /\ settings.opted \in Nat /\ settings.upTo \in Nat /\ settings.evaluated \in Nat
      /\ settings.upTo <= now /\ settings.opted <= now /\ settings.evaluated <= now
      /\ settings.upTo <= settings.opted \/ settings.upTo + Settle <= now
      /\ settings.upTo <= settings.evaluated /\ Settle \in Nat
      /\ now \in Nat /\ now <= MaxNow /\ MaxNow \in Nat
      /\ settings.enabled => settings.upTo >= settings.opted
  BY <1>2, SettingsThere, Times, DigestAssumption, NewsAssumption
     DEF CursorInv, DigestIsExact, NeverTheHistory
<1>4. UNCHANGED <<now, at, there, passes>>
  BY DEF newsVars
<1>5. /\ up \in Nat /\ ev \in Nat /\ up >= settings.upTo /\ up >= Until(send[s].now)
      /\ up <= now /\ ev <= now /\ up <= ev
      /\ up = settings.upTo \/ up + Settle <= now
      /\ up = settings.upTo \/ up = Until(send[s].now)
  BY <1>2, <1>3 DEF Greater, Until
<1>6. /\ settings' # None /\ settings' \in SettingsRows
      /\ settings'.opted = settings.opted /\ settings'.enabled = settings.enabled
      /\ settings.enabled => settings'.upTo = up /\ settings'.evaluated = ev
      /\ ~ settings.enabled => settings' = settings
  <2>1. CASE settings.enabled
    <3> DEFINE r == [settings EXCEPT !.upTo = up, !.evaluated = ev]
    <3>1. settings' = r
      BY <1>1, <2>1 DEF Advanced
    <3> HIDE DEF up, ev
    <3>2. /\ r \in SettingsRows /\ r.opted = settings.opted /\ r.enabled = settings.enabled
          /\ r.upTo = up /\ r.evaluated = ev
      <4>1. up \in 0..MaxNow /\ ev \in 0..MaxNow
        BY <1>3, <1>5
      <4>2. settings \in SettingsRows
        BY <1>3
      <4> QED BY <4>1, <4>2 DEF SettingsRows
    <3>3. r # None
      BY <3>2, SettingsThere
    <3> HIDE DEF r
    <3> QED BY <2>1, <3>1, <3>2, <3>3
  <2>2. CASE ~ settings.enabled
    BY <1>1, <1>2, <1>3, <2>2
  <2> QED BY <2>1, <2>2
<1> HIDE DEF up, ev
<1>7. NoSend \in SendRows /\ NoSend.pc = "idle"
  BY SendWrites DEF NewsInv
<1>8. send'[s] = NoSend /\ \A t \in Sends \ {s} : send'[t] = send[t]
  BY <1>1 DEF DigestTyped
<1>9. DigestTyped'
  BY <1>1, <1>6, <1>7 DEF DigestTyped
<1>10. Alone' /\ WindowInv'
  BY <1>1, <1>7, <1>8 DEF Alone, WindowInv
<1>11. CursorInv'
  <2>1. CASE settings.enabled
    BY <1>3, <1>4, <1>5, <1>6, <2>1 DEF CursorInv
  <2>2. CASE ~ settings.enabled
    BY <1>3, <1>4, <1>6, <2>2 DEF CursorInv
  <2> QED BY <2>1, <2>2
<1>12. \A e \in there : at[e] \in Nat
  BY Times
<1>13. SettledBehind'
  <2> SUFFICES ASSUME NEW e \in settled'
               PROVE  e \in there /\ (settings.enabled => at[e] <= up)
    BY <1>4, <1>6 DEF SettledBehind
  <2>1. CASE e \in settled
    BY <1>3, <1>5, <1>12, <2>1 DEF SettledBehind
  <2>2. CASE e \in send[s].found
    <3>1. e \in there /\ at[e] <= Until(send[s].now) /\ at[e] \in Nat
      BY <1>2, <1>12, <2>2
    <3> QED BY <1>2, <1>3, <1>5, <3>1 DEF Until
  <2> QED BY <1>1, <2>1, <2>2
<1>14. MailedKept'
  <2> SUFFICES ASSUME NEW e \in mailed
               PROVE  e \in unlogged \union settled'
    BY <1>1 DEF MailedKept
  <2> QED BY <1>1, <1>2 DEF MailedKept
<1>15. DigestIsExact'
  <2>1. NeverTheHistory'
    BY <1>3, <1>5, <1>6 DEF NeverTheHistory
  <2>2. DigestMissesNothing'
    <3> SUFFICES ASSUME NEW e \in there, at[e] > settings.opted, at[e] <= settings'.upTo
                 PROVE  e \in settled'
      BY <1>4, <1>6 DEF DigestMissesNothing
    <3>1. CASE at[e] <= settings.upTo
      BY <1>1, <1>2, <3>1 DEF DigestIsExact, DigestMissesNothing
    <3>2. CASE ~ (at[e] <= settings.upTo)
      <4>1. settings.enabled /\ up = Until(send[s].now) /\ at[e] <= Until(send[s].now)
        BY <1>5, <1>6, <3>2
      <4>2. at[e] > settings.upTo
        BY <1>3, <1>12, <3>2
      <4> QED BY <1>1, <1>2, <4>1, <4>2
    <3> QED BY <3>1, <3>2
  <2> QED BY <2>1, <2>2 DEF DigestIsExact
<1>16. MailedTwiceOnlyIfLost'
  BY <1>1 DEF MailedTwiceOnlyIfLost
<1> QED BY <1>9, <1>10, <1>11, <1>13, <1>14, <1>15, <1>16

\* Every step of the digest keeps it well.
LEMMA DigestStep ==
  ASSUME NewsInv, DigestInv, DigestNext
  PROVE  DigestInv'
<1>1. UNCHANGED newsVars
  BY DEF DigestNext
<1>2. CASE SendTest
  BY <1>1, <1>2 DEF SendTest, newsVars, DigestInv, DigestTyped, CursorInv, WindowInv, Alone,
     SettledBehind, MailedKept, DigestIsExact, DigestMissesNothing, NeverTheHistory,
     MailedTwiceOnlyIfLost, Until
<1> QED BY <1>1, <1>2, EnableStep, DisableStep, ScheduleStep, GatherStep, MailStep, EndStep,
           CompleteStep DEF DigestNext
----------------------------------------------------------------------------
(* The feed.                                                               *)

PageRows == [pc : {"idle", "begun", "read"}, now : Nat, previous : Nat \union {None},
             since : Int, items : SUBSET Events, known : SUBSET Events,
             owed : SUBSET Events, done : SUBSET Events]

FeedTyped ==
  /\ looked \in Nat \union {None}
  /\ marks \in [Events -> MarkRows \union {None}]
  /\ page \in [Pages -> PageRows]
  /\ looked # None => looked <= now

\* A mark m shows its event at a time.
Shows(m, time) == m # None /\ ~ m.dismissed /\ time - m.seen < VisibleFor

\* What is marked was met.
MarksMet == \A e \in Events : marks[e] # None => e \in met /\ e \in there

\* What is done stays off the pages: a mark of it, but for those made too early, shows
\* it no more, and the last look is past it.
DoneInv ==
  /\ done \subseteq there
  /\ \A e \in done \ early : ~ Shows(marks[e], now)
  /\ \A e \in Events : (marks[e] # None \/ e \in done) /\ e \notin early
                         => looked # None /\ at[e] <= looked

\* What a page under way has read, or will read.
PageOK(p) ==
  p.pc \in {"begun", "read"} =>
    /\ p.now <= now
    /\ p.previous # None => looked # None /\ p.previous <= looked
    /\ p.since <= EffectiveLastLooked(p.previous, p.now)
    /\ p.owed \subseteq there /\ \A e \in p.owed : at[e] > p.since
    /\ \A e \in p.owed \ done : Shows(marks[e], p.now)
    /\ p.done \subseteq done
    /\ \A e \in p.done \ early : /\ p.previous # None /\ at[e] <= p.previous
                                 /\ ~ Shows(marks[e], p.now)

\* What a page has read: what it owed the user, nothing that was done before it, and
\* all that its look can be held to have seen.
ReadOK(p) ==
  p.pc = "read" =>
    /\ p.items \subseteq there
    /\ p.owed \ done \subseteq p.items
    /\ p.items \intersect p.done \subseteq early
    /\ \A e \in there \ late : at[e] <= p.now /\ e \notin p.items
         => e \in met \/ at[e] <= EffectiveLastLooked(p.previous, p.now)

PagesInv == \A g \in Pages : PageOK(page[g]) /\ ReadOK(page[g])

FeedInv == FeedTyped /\ MarksMet /\ DoneInv /\ PagesInv
           /\ DismissedStaysAway /\ ShownForItsDayOrLate

\* What a step may do to a mark: nothing; make one, of an event that then counts as
\* marked too early if it was done; or end one, of an event that then is done.
MarkMoves(e) ==
  \/ marks'[e] = marks[e]
  \/ /\ marks[e] = None /\ marks'[e] # None /\ e \in met'
     /\ e \in done => e \in early'
  \/ /\ \A time \in Nat : ~ Shows(marks'[e], time)
     /\ marks[e] # None /\ e \in done'

\* How the feed's history grows.
FeedGoesOn ==
  /\ done \subseteq done' /\ early \subseteq early' /\ met \subseteq met' /\ late \subseteq late'
  /\ looked # None => looked' # None /\ looked' >= looked
  /\ \A e \in Events : MarkMoves(e)

\* A mark row has its columns, and is not None.
LEMMA MarkThere ==
  \A m \in MarkRows : m # None /\ m.seen \in Nat /\ m.dismissed \in BOOLEAN
BY NoneAssumption, NewsAssumption DEF MarkRows

\* What no longer shows an event never will again.
LEMMA ShowsLess ==
  ASSUME NEW m \in MarkRows \union {None}, NEW t \in Nat, NEW u \in Nat, t <= u, Shows(m, u)
  PROVE  Shows(m, t)
BY MarkThere, FeedAssumption DEF Shows

\* The marks that are live are those that show their event.
LEMMA LiveShows ==
  ASSUME FeedTyped, NEW time
  PROVE  \A e \in Events : /\ e \in LiveMarks(time) <=> Shows(marks[e], time)
                           /\ e \in DeadMarks(time) <=> marks[e] # None /\ ~ Shows(marks[e], time)
BY DEF LiveMarks, DeadMarks, Marked, IsLive, Shows

\* A page under way whose request does nothing stays well, whatever else happens;
\* what is committed after it has read, though its clock says it was there, is late.
LEMMA PageStays ==
  ASSUME NewsInv, NewsInv', NewsGoesOn, FeedInv, FeedTyped', FeedGoesOn,
         NEW p \in PageRows, PageOK(p), ReadOK(p), done' \subseteq there',
         \A e \in there' \ there : p.pc = "read" /\ at'[e] <= p.now => e \in late'
  PROVE  /\ PageOK(p)' /\ ReadOK(p)'
<1>1. /\ now \in Nat /\ now' \in Nat /\ now <= now' /\ there \subseteq there'
      /\ \A e \in there : at'[e] = at[e] /\ at[e] \in Nat /\ e \in Events
      /\ \A e \in there' : at'[e] \in Nat
  BY Times DEF NewsInv, NewsTyped, NewsGoesOn
<1>2. /\ p.now \in Nat /\ p.previous \in Nat \union {None} /\ p.since \in Int
      /\ p.owed \subseteq Events /\ p.done \subseteq Events
  BY DEF PageRows
<1>3. looked \in Nat \union {None} /\ looked' \in Nat \union {None}
  BY DEF FeedInv, FeedTyped
<1>4. CASE p.pc \notin {"begun", "read"}
  BY <1>4 DEF PageOK, ReadOK
<1>5. CASE p.pc \in {"begun", "read"}
  <2>1. /\ p.now <= now'
        /\ p.previous # None => looked' # None /\ p.previous <= looked'
        /\ p.since <= EffectiveLastLooked(p.previous, p.now)
        /\ p.owed \subseteq there' /\ \A e \in p.owed : at'[e] > p.since
        /\ p.done \subseteq done'
    BY <1>1, <1>2, <1>3, <1>5, NewsAssumption DEF PageOK, FeedGoesOn
  <2>2. ASSUME NEW e \in p.owed \ done'
        PROVE  Shows(marks'[e], p.now)
    <3>1. e \in there /\ e \in Events /\ e \notin done /\ Shows(marks[e], p.now)
      BY <1>1, <1>5, <2>2 DEF PageOK, FeedGoesOn
    <3>2. marks[e] # None
      BY <3>1 DEF Shows
    <3>3. marks'[e] = marks[e]
      BY <2>2, <3>1, <3>2 DEF FeedGoesOn, MarkMoves
    <3> QED BY <3>1, <3>3
  <2>3. ASSUME NEW e \in p.done \ early'
        PROVE  /\ p.previous # None /\ at'[e] <= p.previous
               /\ ~ Shows(marks'[e], p.now)
    <3>1. /\ e \in p.done \ early /\ e \in done /\ e \in Events
          /\ p.previous # None /\ at[e] <= p.previous /\ ~ Shows(marks[e], p.now)
      BY <1>2, <1>5, <2>3 DEF PageOK, FeedGoesOn
    <3>2. e \in there
      BY <3>1 DEF FeedInv, DoneInv
    <3>3. ~ Shows(marks'[e], p.now)
      BY <1>2, <2>3, <3>1 DEF FeedGoesOn, MarkMoves
    <3> QED BY <1>1, <3>1, <3>2, <3>3
  <2>4. PageOK(p)'
    BY <2>1, <2>2, <2>3 DEF PageOK, EffectiveLastLooked
  <2>5. ReadOK(p)'
    <3> SUFFICES ASSUME p.pc = "read"
                 PROVE  /\ p.items \subseteq there'
                        /\ p.owed \ done' \subseteq p.items
                        /\ p.items \intersect p.done \subseteq early'
                        /\ \A e \in there' \ late' : at'[e] <= p.now /\ e \notin p.items
                             => \/ e \in met'
                                \/ at'[e] <= EffectiveLastLooked(p.previous, p.now)
      BY DEF ReadOK, EffectiveLastLooked
    <3>1. /\ p.items \subseteq there'
          /\ p.owed \ done' \subseteq p.items
          /\ p.items \intersect p.done \subseteq early'
      BY <1>1 DEF ReadOK, FeedGoesOn
    <3>2. ASSUME NEW e \in there' \ late', at'[e] <= p.now, e \notin p.items
          PROVE  e \in met' \/ at'[e] <= EffectiveLastLooked(p.previous, p.now)
      <4>1. e \in there /\ e \notin late
        BY <3>2 DEF FeedGoesOn
      <4>2. at'[e] = at[e]
        BY <1>1, <4>1
      <4>3. e \in met \/ at[e] <= EffectiveLastLooked(p.previous, p.now)
        BY <3>2, <4>1, <4>2 DEF ReadOK
      <4> QED BY <4>2, <4>3 DEF FeedGoesOn
    <3> QED BY <3>1, <3>2
  <2> QED BY <2>4, <2>5
<1> QED BY <1>4, <1>5
\* A step keeps the feed's history true when what it makes done shows no more, and a
\* mark it makes is of an event the last look is past, or made too early; and when
\* the pages whose requests it serves are well.
LEMMA FeedStays ==
  ASSUME NewsInv, NewsInv', NewsGoesOn, FeedInv, FeedTyped', FeedGoesOn,
         \A e \in done' \ done : marks[e] # None /\ ~ Shows(marks'[e], now') /\ e \in Events,
         \A e \in Events : marks[e] = None /\ marks'[e] # None =>
           e \in there /\ (e \in early' \/ (looked' # None /\ at[e] <= looked')),
         \A g \in Pages : \/ page'[g] = page[g]
                          \/ PageOK(page[g])' /\ ReadOK(page[g])',
         \A e \in there' \ there, g \in Pages :
           page[g].pc = "read" /\ at'[e] <= page[g].now => e \in late'
  PROVE  MarksMet' /\ DoneInv' /\ PagesInv'
<1> USE DEF FeedInv
<1>1. /\ now \in Nat /\ now' \in Nat /\ now <= now' /\ there \subseteq there'
      /\ \A e \in there : at'[e] = at[e] /\ at[e] \in Nat /\ e \in Events
  BY Times DEF NewsInv, NewsTyped, NewsGoesOn
<1>2. /\ looked \in Nat \union {None} /\ looked' \in Nat \union {None}
      /\ \A e \in Events : /\ marks[e] \in MarkRows \union {None}
                           /\ marks'[e] \in MarkRows \union {None}
  BY DEF FeedTyped
<1>3. MarksMet'
  <2> SUFFICES ASSUME NEW e \in Events, marks'[e] # None
               PROVE  e \in met' /\ e \in there'
    BY DEF MarksMet
  <2>1. MarkMoves(e)
    BY DEF FeedGoesOn
  <2> QED BY <1>1, <2>1 DEF MarksMet, MarkMoves, FeedGoesOn
<1>4. done' \subseteq there'
  BY <1>1 DEF DoneInv, MarksMet
<1>5. ASSUME NEW e \in done' \ early'
      PROVE  ~ Shows(marks'[e], now')
  <2>1. CASE e \in done
    <3>1. e \in Events /\ e \notin early /\ ~ Shows(marks[e], now)
      BY <1>1, <1>5, <2>1 DEF DoneInv, FeedGoesOn
    <3>2. MarkMoves(e)
      BY <3>1 DEF FeedGoesOn
    <3>3. CASE marks'[e] = marks[e]
      BY <1>1, <1>2, <3>1, <3>3, ShowsLess
    <3> QED BY <1>1, <1>5, <2>1, <3>2, <3>3 DEF MarkMoves
  <2>2. CASE e \notin done
    BY <1>5, <2>2
  <2> QED BY <2>1, <2>2
<1>6. ASSUME NEW e \in Events, marks'[e] # None \/ e \in done', e \notin early'
      PROVE  looked' # None /\ at'[e] <= looked'
  <2>1. CASE marks[e] # None \/ e \in done
    <3>1. e \in there
      BY <2>1 DEF MarksMet, DoneInv
    <3>2. looked # None /\ at[e] <= looked
      BY <1>6, <2>1 DEF DoneInv, FeedGoesOn
    <3>3. looked' # None /\ looked' >= looked
      BY <3>2 DEF FeedGoesOn
    <3> QED BY <1>1, <1>2, <3>1, <3>2, <3>3
  <2>2. CASE marks[e] = None /\ e \notin done
    <3>1. e \in there /\ looked' # None /\ at[e] <= looked'
      BY <1>6, <2>2
    <3> QED BY <1>1, <3>1
  <2> QED BY <2>1, <2>2
<1>7. DoneInv'
  BY <1>4, <1>5, <1>6 DEF DoneInv
<1>8. PagesInv'
  <2> SUFFICES ASSUME NEW g \in Pages
               PROVE  PageOK(page[g])' /\ ReadOK(page[g])'
    BY DEF PagesInv
  <2> DEFINE p == page[g]
  <2>1. p \in PageRows /\ PageOK(p) /\ ReadOK(p)
    BY DEF PagesInv, FeedTyped
  <2>2. \A e \in there' \ there : p.pc = "read" /\ at'[e] <= p.now => e \in late'
    OBVIOUS
  <2>3. CASE page'[g] = page[g]
    <3>1. ASSUME NEW q, q = p
          PROVE  PageOK(q)' /\ ReadOK(q)'
      <4>1. /\ q \in PageRows /\ PageOK(q) /\ ReadOK(q)
            /\ \A e \in there' \ there : q.pc = "read" /\ at'[e] <= q.now => e \in late'
        BY <2>1, <2>2, <3>1
      <4> HIDE DEF p
      <4> QED BY <1>4, <4>1, PageStays
    <3>2. PICK q : q = p
      OBVIOUS
    <3>3. PageOK(q)' /\ ReadOK(q)' /\ page'[g] = q
      BY <2>3, <3>1, <3>2
    <3> QED BY <3>3 DEF PageOK, ReadOK
  <2> QED BY <2>3
<1> QED BY <1>3, <1>7, <1>8

\* What happens to events leaves the feed well.
LEMMA NewsKeepsFeed ==
  ASSUME NewsInv, FeedInv, NewsNext
  PROVE  NewsInv' /\ FeedInv'
<1> USE DEF FeedInv
<1>1. NewsInv' /\ NewsGoesOn
  BY NewsStep DEF NewsNext, CommitSeen
<1>2. /\ UNCHANGED <<looked, marks, page, done, early, met, again, gaps>>
      /\ late \subseteq late'
      /\ \A e \in there' \ there :
           \/ e \in late'
           \/ /\ ~ (looked # None /\ looked >= at[e])
              /\ \A g \in Pages : ~ (page[g].pc = "read" /\ page[g].now >= at[e])
      /\ \A e \in there' : at'[e] = at[e] \/ e \in there
      /\ \A e \in there' \ there : at'[e] = at[e] /\ at[e] # None /\ e \in Events
  <2>1. ASSUME NEW e \in Events, CommitSeen(e)
        PROVE  <1>2!1 /\ <1>2!2 /\ <1>2!3 /\ <1>2!4 /\ <1>2!5
    BY <2>1 DEF CommitSeen, Commit
  <2>2. CASE UNCHANGED feedVars /\ UNCHANGED there
    BY <2>2 DEF feedVars
  <2> QED BY <2>1, <2>2 DEF NewsNext, Stamp, EditFilter, Tick
<1>3. /\ now \in Nat /\ now' \in Nat /\ now <= now' /\ there \subseteq there'
      /\ \A e \in there' : at'[e] = at[e] /\ at[e] \in Nat /\ e \in Events
  BY <1>1, <1>2, Times DEF NewsInv, NewsTyped, NewsGoesOn
<1>4. FeedTyped'
  BY <1>2, <1>3, NewsAssumption DEF FeedTyped
<1>5. FeedGoesOn
  BY <1>2, <1>4 DEF FeedGoesOn, MarkMoves, FeedTyped
<1>6. \A g \in Pages : page[g].now \in Nat
  BY DEF FeedTyped, PageRows
<1>7. MarksMet' /\ DoneInv' /\ PagesInv'
  BY <1>1, <1>2, <1>3, <1>4, <1>5, <1>6, FeedStays
<1>8. MissedOnlyIfLate'
  <2> SUFFICES ASSUME NEW e \in there' \ (met' \union late'), looked' # None
               PROVE  at'[e] > looked'
    BY DEF MissedOnlyIfLate
  <2>1. CASE e \in there
    BY <1>2, <1>3, <2>1 DEF ShownForItsDayOrLate, MissedOnlyIfLate
  <2>2. CASE e \notin there
    BY <1>2, <1>3, <1>4, <2>2 DEF FeedTyped
  <2> QED BY <2>1, <2>2
<1>9. DismissedStaysAway' /\ ShownForItsDay'
  BY <1>2 DEF DismissedStaysAway, ShownForItsDayOrLate, ShownForItsDay
<1> QED BY <1>1, <1>4, <1>7, <1>8, <1>9 DEF ShownForItsDayOrLate
\* Of times there is a least: were there none, "one tick earlier" would map the times
\* from some time on into themselves without their last.
LEMMA LeastTime ==
  ASSUME NEW S \in SUBSET (0..MaxNow), S # {}
  PROVE  \E t \in S : \A u \in S : t <= u
<1> DEFINE A == {t \in 0..MaxNow : \E u \in S : u <= t}
           f == [t \in A |-> t - 1]
<1> SUFFICES ASSUME \A t \in S : \E u \in S : ~ (t <= u)
             PROVE  FALSE
  OBVIOUS
<1>1. MaxNow \in A /\ A \subseteq 0..MaxNow
  <2>1. PICK u \in S : TRUE
    OBVIOUS
  <2>2. u \in 0..MaxNow /\ u <= MaxNow /\ MaxNow \in 0..MaxNow
    BY NewsAssumption
  <2> QED BY <2>2
<1>2. \A t \in A : t - 1 \in A \ {MaxNow}
  <2> SUFFICES ASSUME NEW t \in A
               PROVE  t - 1 \in A \ {MaxNow}
    OBVIOUS
  <2>1. PICK u \in S : u <= t
    OBVIOUS
  <2>2. PICK v \in S : ~ (u <= v)
    OBVIOUS
  <2>3. v <= t - 1 /\ t - 1 \in 0..MaxNow
    BY <2>1, <2>2, NewsAssumption
  <2> QED BY <2>2, <2>3, NewsAssumption
<1>3. IsFiniteSet(0..MaxNow)
  BY FS_Interval, NewsAssumption
<1>4. IsFiniteSet(A) /\ Cardinality(A) \in Nat
  BY <1>1, <1>3, FS_Subset, FS_CardinalityType
<1>5. f \in Injection(A, A \ {MaxNow})
  <2>1. f \in [A -> A \ {MaxNow}]
    BY <1>2
  <2>2. \A s, t \in A : f[s] = f[t] => s = t
    BY <1>1
  <2> QED BY <2>1, <2>2 DEF Injection, IsInjective
<1> HIDE DEF f, A
<1>6. IsFiniteSet(A \ {MaxNow}) /\ Cardinality(A \ {MaxNow}) = Cardinality(A) - 1
  BY <1>1, <1>4, FS_RemoveElement
<1>7. Cardinality(A) <= Cardinality(A \ {MaxNow})
  BY <1>5, <1>6, FS_Injection
<1> QED BY <1>4, <1>6, <1>7

\* A look goes back far enough for every live mark, and no less than to the last look.
LEMMA SinceReaches ==
  ASSUME NewsInv, NEW previous \in Nat \union {None}, NEW time \in Nat,
         NEW live \in SUBSET there
  PROVE  LET since == DeriveSince(previous, live, time)
         IN  /\ since \in Int /\ since <= EffectiveLastLooked(previous, time)
             /\ \A e \in live : at[e] > since
<1> DEFINE eff == EffectiveLastLooked(previous, time)
           older == {at[e] : e \in live} \intersect {t \in 0..MaxNow : t <= eff}
           since == DeriveSince(previous, live, time)
<1>1. eff \in Int
  BY FeedAssumption DEF EffectiveLastLooked
<1>2. \A e \in live : at[e] \in 0..MaxNow /\ (at[e] <= eff => at[e] \in older)
  BY Times, NewsAssumption
<1> HIDE DEF eff
<1>3. CASE older = {}
  <2>1. since = eff
    BY <1>3 DEF DeriveSince, eff
  <2> QED BY <1>1, <1>2, <1>3, <2>1 DEF eff
<1>4. CASE older # {}
  <2> DEFINE least == CHOOSE t \in older : \A u \in older : t <= u
  <2>1. older \in SUBSET (0..MaxNow) /\ \A t \in older : t <= eff
    OBVIOUS
  <2>2. since = least - 1
    BY <1>4 DEF DeriveSince, eff
  <2> HIDE DEF older, since
  <2>3. least \in older /\ \A u \in older : least <= u
    BY <1>4, <2>1, LeastTime
  <2> HIDE DEF least
  <2>4. least \in Int /\ least <= eff
    BY <2>1, <2>3
  <2>5. \A e \in live : at[e] > least - 1
    <3> SUFFICES ASSUME NEW e \in live
                 PROVE  at[e] > least - 1
      OBVIOUS
    <3>1. CASE at[e] <= eff
      BY <1>2, <2>3, <2>4, <3>1
    <3>2. CASE ~ (at[e] <= eff)
      BY <1>1, <1>2, <2>4, <3>2
    <3> QED BY <3>1, <3>2
  <2> QED BY <1>1, <2>2, <2>4, <2>5 DEF eff, since
<1> QED BY <1>3, <1>4

\* A page's request begins: what is done now is what it must not show.
LEMMA BeginLookStep ==
  ASSUME NewsInv, FeedInv, UNCHANGED newsVars, NEW g \in Pages, BeginLook(g)
  PROVE  FeedInv'
<1> USE DEF FeedInv
<1> DEFINE since == DeriveSince(looked, LiveMarks(now), now)
           owed == LiveMarks(now)
           gone == done \union DeadMarks(now)
           p == [NoPage EXCEPT !.pc = "begun", !.now = now, !.previous = looked,
                               !.since = since, !.owed = owed, !.done = gone]
<1>1. /\ page' = [page EXCEPT ![g] = p] /\ done' = gone
      /\ UNCHANGED <<looked, marks, early, late, met, again, gaps, now, at, there, passes>>
  BY DEF BeginLook, newsVars
<1>2. now \in Nat /\ looked \in Nat \union {None} /\ there \subseteq Events
  BY Times DEF FeedTyped
<1>3. /\ \A e \in owed : e \in Events /\ Shows(marks[e], now) /\ e \in there
      /\ \A e \in gone \ done : e \in Events /\ marks[e] # None /\ ~ Shows(marks[e], now)
      /\ gone \subseteq there
  BY LiveShows DEF LiveMarks, DeadMarks, Marked, MarksMet, DoneInv, Shows
<1>4. /\ since \in Int /\ since <= EffectiveLastLooked(looked, now)
      /\ \A e \in owed : at[e] > since
  <2>1. owed \in SUBSET there
    BY <1>3
  <2> HIDE DEF owed
  <2> QED BY <1>2, <2>1, SinceReaches DEF owed
<1> HIDE DEF since, owed, gone
<1>5. /\ p \in PageRows /\ p.pc = "begun" /\ p.now = now /\ p.previous = looked
      /\ p.since = since /\ p.owed = owed /\ p.done = gone
  BY <1>2, <1>3, <1>4 DEF NoPage, PageRows
<1> HIDE DEF p
<1>6. PICK q : q = p
  OBVIOUS
<1>7. /\ page'[g] = q /\ \A h \in Pages \ {g} : page'[h] = page[h]
      /\ FeedTyped'
  BY <1>1, <1>5, <1>6 DEF FeedTyped
<1>8. \A e \in gone \ early : /\ looked # None /\ at[e] <= looked
                              /\ ~ Shows(marks[e], now)
  BY <1>2, <1>3 DEF DoneInv
<1>9. PageOK(q)' /\ ReadOK(q)'
  <2>1. /\ q.pc = "begun" /\ q.now = now /\ q.previous = looked
        /\ q.since = since /\ q.owed = owed /\ q.done = gone
    BY <1>5, <1>6
  <2> QED BY <1>1, <1>2, <1>3, <1>4, <1>8, <2>1 DEF PageOK, ReadOK, EffectiveLastLooked
<1>10. FeedGoesOn /\ NewsGoesOn /\ NewsInv'
  BY <1>1, <1>2, NewsStep DEF FeedGoesOn, MarkMoves, newsVars, gone
<1>11. MarksMet' /\ DoneInv' /\ PagesInv'
  <2>1. \A h \in Pages : \/ page'[h] = page[h]
                         \/ PageOK(page[h])' /\ ReadOK(page[h])'
    BY <1>7, <1>9 DEF PageOK, ReadOK
  <2> QED BY <1>1, <1>3, <1>7, <1>10, <2>1, FeedStays
<1>12. DismissedStaysAway' /\ ShownForItsDayOrLate'
  BY <1>1 DEF DismissedStaysAway, ShownForItsDayOrLate, ShownForItsDay, MissedOnlyIfLate
<1> QED BY <1>7, <1>11, <1>12
\* A page's request reads the events and their marks: what it owes is there, what was
\* done before it is not, and what it leaves out it may.
LEMMA ReadEventsStep ==
  ASSUME NewsInv, FeedInv, UNCHANGED newsVars, NEW g \in Pages, ReadEvents(g)
  PROVE  FeedInv'
<1> USE DEF FeedInv
<1> DEFINE p == page[g]
           eff == EffectiveLastLooked(p.previous, p.now)
           items == VisibleEvents(EventsSince(p.since), eff, p.now)
           known == items \intersect Marked
           r == [p EXCEPT !.pc = "read", !.items = items, !.known = known]
<1>1. /\ p.pc = "begun" /\ page' = [page EXCEPT ![g] = r]
      /\ UNCHANGED <<looked, marks, done, early, late, met, again, gaps, now, at, there, passes>>
  <2>1. page' = [page EXCEPT ![g].pc = "read", ![g].items = items, ![g].known = known]
    BY DEF ReadEvents
  <2> HIDE DEF items, known
  <2> QED BY <2>1 DEF ReadEvents, newsVars, FeedTyped
<1>2. now \in Nat /\ there \subseteq Events /\ \A e \in there : at[e] \in Nat
  BY Times
<1>3. /\ p \in PageRows /\ p.now \in Nat /\ p.previous \in Nat \union {None} /\ p.since \in Int
  BY DEF FeedTyped, PageRows
<1>4. eff \in Int /\ p.since <= eff /\ PageOK(p)
  BY <1>1, <1>3, FeedAssumption DEF EffectiveLastLooked, PagesInv, PageOK
<1>5. /\ items \subseteq there
      /\ \A e \in there : e \in items <=>
           at[e] > p.since /\ IF marks[e] # None THEN Shows(marks[e], p.now) ELSE at[e] > eff
  BY <1>2 DEF VisibleEvents, EventsSince, Marked, IsLive, Shows
<1> HIDE DEF items, eff
<1>6. p.owed \ done \subseteq items
  <2> SUFFICES ASSUME NEW e \in p.owed \ done
               PROVE  e \in items
    OBVIOUS
  <2>1. e \in there /\ at[e] > p.since /\ Shows(marks[e], p.now)
    BY <1>1, <1>4 DEF PageOK
  <2>2. marks[e] # None
    BY <2>1 DEF Shows
  <2> QED BY <1>5, <2>1, <2>2
<1>7. items \intersect p.done \subseteq early
  <2> SUFFICES ASSUME NEW e \in items, e \in p.done, e \notin early
               PROVE  FALSE
    OBVIOUS
  <2>1. p.previous # None /\ at[e] <= p.previous /\ ~ Shows(marks[e], p.now)
    BY <1>1, <1>4 DEF PageOK
  <2>2. eff = p.previous
    BY <2>1 DEF eff, EffectiveLastLooked
  <2> QED BY <1>2, <1>3, <1>5, <2>1, <2>2
<1>8. \A e \in there \ late : at[e] <= p.now /\ e \notin items => e \in met \/ at[e] <= eff
  <2> SUFFICES ASSUME NEW e \in there, e \notin items, ~ (at[e] <= eff)
               PROVE  e \in met
    OBVIOUS
  <2>1. at[e] > eff /\ at[e] > p.since
    BY <1>2, <1>3, <1>4
  <2>2. marks[e] # None
    BY <1>5, <2>1
  <2> QED BY <1>2, <2>2 DEF MarksMet
<1>9. /\ r \in PageRows /\ r.pc = "read" /\ r.now = p.now /\ r.previous = p.previous
      /\ r.since = p.since /\ r.owed = p.owed /\ r.done = p.done /\ r.items = items
  <2>1. known \in SUBSET Events /\ items \in SUBSET Events
    BY <1>2, <1>5
  <2> HIDE DEF known
  <2> QED BY <1>3, <2>1 DEF PageRows
<1>10. PICK q : q = r
  OBVIOUS
<1>11. PICK before : before = p
  OBVIOUS
<1> HIDE DEF r
<1>12. /\ page'[g] = q /\ \A h \in Pages \ {g} : page'[h] = page[h]
       /\ FeedTyped'
  BY <1>1, <1>9, <1>10 DEF FeedTyped
<1>13. PageOK(q)' /\ ReadOK(q)'
  <2>1. /\ q.pc = "read" /\ q.now = before.now /\ q.previous = before.previous
        /\ q.since = before.since /\ q.owed = before.owed /\ q.done = before.done
        /\ q.items = items /\ before.pc = "begun"
    BY <1>1, <1>9, <1>10, <1>11
  <2>2. PageOK(before)'
    BY <1>1, <1>4, <1>11 DEF PageOK, EffectiveLastLooked
  <2>3. PageOK(q)'
    BY <2>1, <2>2 DEF PageOK, EffectiveLastLooked
  <2>4. /\ q.items \subseteq there /\ q.owed \ done \subseteq q.items
        /\ q.items \intersect q.done \subseteq early
        /\ \A e \in there \ late : at[e] <= q.now /\ e \notin q.items
             => e \in met \/ at[e] <= EffectiveLastLooked(q.previous, q.now)
    BY <1>5, <1>6, <1>7, <1>8, <1>11, <2>1 DEF eff
  <2>5. ReadOK(q)'
    BY <1>1, <2>4 DEF ReadOK, EffectiveLastLooked
  <2> QED BY <2>3, <2>5
<1>14. FeedGoesOn /\ NewsGoesOn /\ NewsInv'
  BY <1>1, <1>2, NewsStep DEF FeedGoesOn, MarkMoves, newsVars, FeedTyped
<1>15. MarksMet' /\ DoneInv' /\ PagesInv'
  <2>1. \A h \in Pages : \/ page'[h] = page[h]
                         \/ PageOK(page[h])' /\ ReadOK(page[h])'
    BY <1>12, <1>13 DEF PageOK, ReadOK
  <2> QED BY <1>1, <1>12, <1>14, <2>1, FeedStays
<1>16. DismissedStaysAway' /\ ShownForItsDayOrLate'
  BY <1>1 DEF DismissedStaysAway, ShownForItsDayOrLate, ShownForItsDay, MissedOnlyIfLate
<1> QED BY <1>12, <1>15, <1>16
\* A look ends: what it owed is shown, nothing done before it is, and what it has
\* passed over for good it may.
LEMMA CommitLookStep ==
  ASSUME NewsInv, FeedInv, UNCHANGED newsVars, NEW g \in Pages, CommitLook(g)
  PROVE  FeedInv'
<1> USE DEF FeedInv
<1> DEFINE p == page[g]
           shown == p.items \intersect passes
           new == (shown \ p.known) \ Marked
           m == [seen |-> p.now, dismissed |-> FALSE]
           eff == EffectiveLastLooked(p.previous, p.now)
<1>1. /\ p.pc = "read" /\ page' = [page EXCEPT ![g] = NoPage]
      /\ marks' = [e \in Events |-> IF e \in new THEN m ELSE marks[e]]
      /\ again' = again \union ((shown \intersect p.done) \ early)
      /\ gaps' = gaps \union (((p.owed \ done) \intersect passes) \ shown)
      /\ early' = early \union {e \in new : at[e] > p.now \/ e \in done \ p.done}
      /\ met' = met \union p.items
           \union {e \in there : p.previous = None /\ at[e] <= p.now - Lookback}
      /\ looked' = Greatest(looked, p.now)
      /\ UNCHANGED <<done, late, now, at, there, passes>>
  BY DEF CommitLook, LookTime, newsVars
<1>2. /\ now \in Nat /\ now <= MaxNow /\ MaxNow \in Nat /\ there \subseteq Events
      /\ \A e \in there : at[e] \in Nat
      /\ looked \in Nat \union {None} /\ None \notin Nat
  BY Times, NewsAssumption DEF FeedTyped
<1>3. /\ p \in PageRows /\ p.now \in Nat /\ p.previous \in Nat \union {None}
      /\ PageOK(p) /\ ReadOK(p)
  BY DEF FeedTyped, PageRows, PagesInv
<1>4. /\ p.now <= now /\ p.items \subseteq there
      /\ p.owed \ done \subseteq p.items /\ p.items \intersect p.done \subseteq early
      /\ p.previous # None => looked # None /\ p.previous <= looked
      /\ \A e \in there \ late : at[e] <= p.now /\ e \notin p.items => e \in met \/ at[e] <= eff
  BY <1>1, <1>3 DEF PageOK, ReadOK
<1>5. /\ looked' \in Nat /\ looked' # None /\ looked' <= now /\ looked' >= p.now
      /\ looked # None => looked' >= looked
      /\ looked' = p.now \/ looked' = looked
  BY <1>1, <1>2, <1>3, <1>4 DEF Greatest, FeedTyped
<1>6. m \in MarkRows /\ m # None
  <2>1. p.now \in 0..MaxNow
    BY <1>2, <1>3, <1>4
  <2>2. m \in MarkRows
    BY <2>1 DEF MarkRows
  <2> QED BY <2>2, MarkThere
<1> HIDE DEF m, eff
<1>7. /\ \A e \in Events : marks'[e] = IF e \in new THEN m ELSE marks[e]
      /\ \A e \in new : e \in p.items /\ e \in there /\ e \in Events /\ marks[e] = None
  BY <1>1, <1>2, <1>4 DEF Marked
<1> HIDE DEF new
<1>8. FeedTyped'
  <2>1. NoPage \in PageRows
    BY DEF NoPage, PageRows
  <2>2. marks' \in [Events -> MarkRows \union {None}]
    BY <1>1, <1>6 DEF FeedTyped
  <2>3. page' \in [Pages -> PageRows]
    BY <1>1, <2>1 DEF FeedTyped
  <2> QED BY <1>1, <1>5, <2>2, <2>3 DEF FeedTyped
<1>9. FeedGoesOn
  <2>1. ASSUME NEW e \in Events
        PROVE  MarkMoves(e)
    BY <1>1, <1>4, <1>6, <1>7 DEF MarkMoves
  <2> QED BY <1>1, <1>2, <1>5, <2>1 DEF FeedGoesOn
<1>10. NewsGoesOn /\ NewsInv'
  BY <1>1, <1>2, NewsStep DEF newsVars
<1>11. MarksMet' /\ DoneInv' /\ PagesInv'
  <2>1. \A h \in Pages : \/ page'[h] = page[h]
                         \/ PageOK(page[h])' /\ ReadOK(page[h])'
    <3>1. page'[g] = NoPage /\ \A h \in Pages \ {g} : page'[h] = page[h]
      BY <1>1 DEF FeedTyped
    <3> QED BY <3>1 DEF PageOK, ReadOK, NoPage
  <2>2. \A e \in Events : marks[e] = None /\ marks'[e] # None =>
          e \in there /\ (e \in early' \/ (looked' # None /\ at[e] <= looked'))
    <3> SUFFICES ASSUME NEW e \in Events, marks[e] = None, marks'[e] # None
                 PROVE  e \in there /\ (e \in early' \/ (looked' # None /\ at[e] <= looked'))
      OBVIOUS
    <3>1. e \in new /\ e \in there /\ at[e] \in Nat
      BY <1>2, <1>7
    <3>2. e \in early' \/ ~ (at[e] > p.now)
      BY <1>1, <3>1
    <3>3. CASE ~ (at[e] > p.now)
      <4>1. at[e] <= looked' /\ looked' # None
        BY <1>3, <1>5, <3>1, <3>3
      <4> QED BY <3>1, <4>1
    <3> QED BY <3>1, <3>2, <3>3
  <2> QED BY <1>1, <1>8, <1>9, <1>10, <2>1, <2>2, FeedStays
<1>12. DismissedStaysAway' /\ ShownForItsDay'
  BY <1>1, <1>4 DEF DismissedStaysAway, ShownForItsDayOrLate, ShownForItsDay
<1>13. MissedOnlyIfLate'
  <2> SUFFICES ASSUME NEW e \in there, e \notin met', e \notin late
               PROVE  at[e] > looked'
    BY <1>1 DEF MissedOnlyIfLate
  <2>1. at[e] \in Nat /\ e \notin met /\ e \notin p.items
    BY <1>1, <1>2
  <2>2. looked # None => at[e] > looked
    BY <2>1 DEF ShownForItsDayOrLate, MissedOnlyIfLate
  <2>3. ASSUME at[e] <= p.now
        PROVE  FALSE
    <3>1. at[e] <= eff
      BY <1>4, <2>1, <2>3
    <3>2. CASE p.previous = None
      BY <1>1, <2>1, <3>1, <3>2 DEF eff, EffectiveLastLooked
    <3>3. CASE p.previous # None
      BY <1>2, <1>3, <1>4, <2>1, <2>2, <3>1, <3>3 DEF eff, EffectiveLastLooked
    <3> QED BY <3>2, <3>3
  <2>4. at[e] > p.now
    BY <1>3, <2>1, <2>3
  <2> QED BY <1>5, <2>2, <2>4
<1> QED BY <1>8, <1>11, <1>12, <1>13 DEF ShownForItsDayOrLate

\* The user dismisses what is shown, or the task purges what is dead.
LEMMA MarkEndsStep ==
  ASSUME NewsInv, FeedInv, UNCHANGED newsVars,
         \/ \E e \in Events : Dismiss(e)
         \/ DismissLive \/ PurgeStaleMarks
  PROVE  FeedInv'
<1> USE DEF FeedInv
<1>1. /\ UNCHANGED <<looked, page, early, late, met, again, gaps, now, at, there, passes>>
      /\ done \subseteq done'
  BY DEF Dismiss, DismissLive, PurgeStaleMarks, newsVars
<1>2. now \in Nat /\ there \subseteq Events
  BY Times
<1>3. \A m \in MarkRows : LET d == [m EXCEPT !.dismissed = TRUE]
                          IN  d \in MarkRows /\ \A time : ~ Shows(d, time)
  BY DEF MarkRows, Shows
<1>4. ASSUME NEW e \in Events
      PROVE  /\ marks'[e] \in MarkRows \union {None} /\ MarkMoves(e)
             /\ marks[e] = None => marks'[e] = None
             /\ e \in done' \ done => marks[e] # None /\ ~ Shows(marks'[e], now)
  <2>1. marks[e] \in MarkRows \union {None}
    BY DEF FeedTyped
  <2>2. \/ marks'[e] = marks[e] /\ (e \in done' => e \in done \/ e \in DeadMarks(now))
        \/ marks[e] # None /\ e \in done' /\ marks'[e] = [marks[e] EXCEPT !.dismissed = TRUE]
        \/ marks[e] # None /\ e \in done' /\ marks'[e] = None
    <3>1. ASSUME NEW d \in Events, Dismiss(d)
          PROVE  <2>2
      BY <3>1 DEF Dismiss, Marked, FeedTyped
    <3>2. CASE DismissLive
      BY <3>2 DEF DismissLive, LiveMarks, Marked
    <3>3. CASE PurgeStaleMarks
      BY <3>3 DEF PurgeStaleMarks, Purgeable, DeadMarks, Marked
    <3> QED BY <3>1, <3>2, <3>3
  <2>3. CASE marks'[e] = marks[e] /\ (e \in done' => e \in done \/ e \in DeadMarks(now))
    BY <2>1, <2>3, LiveShows DEF MarkMoves
  <2>4. CASE marks[e] # None /\ e \in done' /\ marks'[e] = [marks[e] EXCEPT !.dismissed = TRUE]
    BY <1>3, <2>1, <2>4 DEF MarkMoves
  <2>5. CASE marks[e] # None /\ e \in done' /\ marks'[e] = None
    BY <2>5 DEF MarkMoves, Shows
  <2> QED BY <2>2, <2>3, <2>4, <2>5
<1>5. done' \ done \subseteq Events
  BY DEF Dismiss, DismissLive, PurgeStaleMarks, LiveMarks, DeadMarks, Marked
<1>6. FeedTyped'
  <2>1. marks' = [e \in Events |-> marks'[e]]
    BY DEF Dismiss, DismissLive, PurgeStaleMarks, FeedTyped
  <2> QED BY <1>1, <1>4, <2>1 DEF FeedTyped
<1>7. FeedGoesOn
  BY <1>1, <1>4 DEF FeedGoesOn, FeedTyped
<1>8. NewsGoesOn /\ NewsInv'
  BY <1>1, <1>2, NewsStep DEF newsVars
<1>9. MarksMet' /\ DoneInv' /\ PagesInv'
  BY <1>1, <1>4, <1>5, <1>6, <1>7, <1>8, FeedStays
<1>10. DismissedStaysAway' /\ ShownForItsDayOrLate'
  BY <1>1 DEF DismissedStaysAway, ShownForItsDayOrLate, ShownForItsDay, MissedOnlyIfLate
<1> QED BY <1>6, <1>9, <1>10

\* Every step of the feed keeps it well.
LEMMA FeedStep ==
  ASSUME NewsInv, FeedInv, FeedNext
  PROVE  FeedInv'
BY BeginLookStep, ReadEventsStep, CommitLookStep, MarkEndsStep DEF FeedNext

----------------------------------------------------------------------------
(* Together.                                                               *)

IInv == NewsInv /\ FeedInv /\ DigestInv

\* What leaves events and the feed alone leaves the feed well.
LEMMA FeedUntouched ==
  ASSUME FeedInv, UNCHANGED newsVars, UNCHANGED feedVars
  PROVE  FeedInv'
<1>1. /\ UNCHANGED <<now, at, there, passes>>
      /\ UNCHANGED <<looked, marks, page, done, early, late, met, again, gaps>>
  BY DEF newsVars, feedVars
<1>2. FeedTyped' /\ MarksMet' /\ DoneInv'
  BY <1>1 DEF FeedInv, FeedTyped, MarksMet, DoneInv, Shows
<1>3. PagesInv'
  BY <1>1 DEF FeedInv, PagesInv, PageOK, ReadOK, Shows, EffectiveLastLooked
<1>4. DismissedStaysAway' /\ ShownForItsDayOrLate'
  BY <1>1 DEF FeedInv, DismissedStaysAway, ShownForItsDayOrLate, ShownForItsDay, MissedOnlyIfLate
<1> QED BY <1>2, <1>3, <1>4 DEF FeedInv

\* At first nothing has happened, and nobody has looked or been mailed.
LEMMA Initially ==
  ASSUME MCInit
  PROVE  IInv
<1> USE DEF MCInit, NewsInit, FeedInit, DigestInit
<1>1. NewsInv
  BY NewsAssumption DEF NewsInv, NewsTyped, CommitsInTime
<1>2. FeedInv
  <2>1. FeedTyped
    BY DEF FeedTyped, NoPage, PageRows
  <2>2. PagesInv
    BY DEF PagesInv, PageOK, ReadOK, NoPage
  <2> QED BY <2>1, <2>2 DEF FeedInv, MarksMet, DoneInv, DismissedStaysAway,
             ShownForItsDayOrLate, ShownForItsDay, MissedOnlyIfLate
<1>3. DigestInv
  <2>1. DigestTyped /\ WindowInv /\ Alone
    BY DEF DigestTyped, NoSend, SendRows, WindowInv, Alone
  <2> QED BY <2>1 DEF DigestInv, CursorInv, SettledBehind, MailedKept, DigestIsExact,
             DigestMissesNothing, NeverTheHistory, MailedTwiceOnlyIfLost
<1> QED BY <1>1, <1>2, <1>3 DEF IInv

\* Every step keeps the invariant.
LEMMA Always ==
  ASSUME IInv, [MCNext]_MCVars
  PROVE  IInv'
<1> USE DEF IInv
<1>1. CASE NewsNext /\ UNCHANGED digestVars
  <2>1. NewsInv' /\ FeedInv' /\ NewsGoesOn
    BY <1>1, NewsKeepsFeed, NewsStep DEF NewsNext, CommitSeen
  <2>2. \A e \in there' \ there : now' <= at'[e] + MaxLag
    BY <1>1 DEF NewsNext, CommitSeen, Commit, Stamp, EditFilter, Tick, NewsInv, NewsTyped,
                CommitsInTime
  <2> QED BY <1>1, <2>1, <2>2, NewsKeepsDigest
<1>2. CASE FeedNext /\ UNCHANGED digestVars
  <2>1. UNCHANGED newsVars
    BY <1>2 DEF FeedNext
  <2>2. NewsInv' /\ NewsGoesOn /\ there' = there
    BY <2>1, NewsStep DEF newsVars
  <2> QED BY <1>2, <2>2, FeedStep, NewsKeepsDigest
<1>3. CASE DigestNext /\ UNCHANGED feedVars
  <2>1. UNCHANGED newsVars
    BY <1>3 DEF DigestNext
  <2>2. NewsInv'
    BY <2>1, NewsStep
  <2>3. FeedInv'
    BY <1>3, <2>1, FeedUntouched
  <2> QED BY <1>3, <2>2, <2>3, DigestStep
<1>4. CASE UNCHANGED MCVars
  <2>1. UNCHANGED newsVars /\ UNCHANGED digestVars /\ UNCHANGED feedVars
    BY <1>4 DEF MCVars
  <2>2. NewsInv' /\ NewsGoesOn /\ there' = there
    BY <2>1, NewsStep DEF newsVars
  <2> QED BY <2>1, <2>2, FeedUntouched, NewsKeepsDigest
<1> QED BY <1>1, <1>2, <1>3, <1>4 DEF MCNext

\* The inductive invariant of the feed and the digest.
THEOREM Invariance == MCSpec => []IInv
<1>1. MCInit => IInv
  BY Initially
<1>2. IInv /\ [MCNext]_MCVars => IInv'
  BY Always
<1> QED BY <1>1, <1>2, PTL DEF MCSpec

\* No look shows again what was dismissed, or had its day, before it began
\* (Feed!DismissedStaysAway).
THEOREM DismissedAway == MCSpec => []DismissedStaysAway
<1>1. IInv => DismissedStaysAway
  BY DEF IInv, FeedInv
<1> QED BY <1>1, Invariance, PTL

\* Every event is shown for its day, and missed only when committed too late for the
\* look it fell before (Feed!ShownForItsDay, Feed!MissedOnlyIfLate).
THEOREM ShownOrLate == MCSpec => []ShownForItsDayOrLate
<1>1. IInv => ShownForItsDayOrLate
  BY DEF IInv, FeedInv
<1> QED BY <1>1, Invariance, PTL

\* The digest's windows tile the time since the opt-in (Digest!DigestMissesNothing,
\* Digest!NeverTheHistory).
THEOREM DigestExact == MCSpec => []DigestIsExact
<1>1. IInv => DigestIsExact
  BY DEF IInv, DigestInv
<1> QED BY <1>1, Invariance, PTL

\* An event is mailed again only after a delivery that was lost between the mail and
\* its record (Digest!MailedTwiceOnlyIfLost).
THEOREM MailedOnce == MCSpec => []MailedTwiceOnlyIfLost
<1>1. IInv => MailedTwiceOnlyIfLost
  BY DEF IInv, DigestInv
<1> QED BY <1>1, Invariance, PTL

----------------------------------------------------------------------------
(* Model calls.                                                            *)

Replies == ApiFailureKinds \union {"misfit", "late", "refused", "truncated", "unparseable", "ok"}
RunRows == [outcome : {"ok", "refused", "error"}, billed : BOOLEAN]
CallRows == [step : Nat, reply : Replies, row : RunRows \union {NoRow}, died : BOOLEAN]

\* What a handler is: one call or two, of which a wrong answer is turned down before its
\* row or after; and what would come back the same way is final for it.
IsSite(c) == c.rejects \subseteq {"misfit", "late"} /\ c.late \subseteq {"late"}
HandlerIs(h) ==
  /\ Len(h.calls) \in 1..2
  /\ \A s \in 1..Len(h.calls) : IsSite(h.calls[s])
  /\ {"refused", "bad_request"} \subseteq h.final
  /\ h \in {Coverage, Pushback, Suggesting} \/ "truncated" \in h.final

LEMMA HandlersAre == \A h \in Handlers : HandlerIs(h)
<1>1. \A needs : /\ IsSite(Site(needs, {}, {})) /\ IsSite(Site(needs, Misfit, {}))
                 /\ IsSite(Site(needs, {}, Late)) /\ IsSite(Site(needs, Misfit, Late))
  BY DEF Site, IsSite, Misfit, Late
<1>2. /\ IsSite(ExtractCall) /\ IsSite(CoverageCall) /\ IsSite(ScoreCall) /\ IsSite(DraftCall)
      /\ IsSite(CvCall) /\ IsSite(GateCall) /\ IsSite(CvGateCall) /\ IsSite(CvFactsCall)
      /\ IsSite(PushbackCall) /\ IsSite(ClusterCall) /\ IsSite(SettingsCall)
      /\ IsSite(TitlesCall) /\ IsSite(AssessCall) /\ IsSite(AnswerCall)
  BY <1>1 DEF ExtractCall, CoverageCall, ScoreCall, DraftCall, CvCall, GateCall, CvGateCall,
     CvFactsCall, PushbackCall, ClusterCall, SettingsCall, TitlesCall, AssessCall, AnswerCall
<1>3. \A c, d : IsSite(c) /\ IsSite(d) =>
        /\ Len(<<c>>) = 1 /\ \A s \in 1..1 : IsSite(<<c>>[s])
        /\ Len(<<c, d>>) = 2 /\ \A s \in 1..2 : IsSite(<<c, d>>[s])
  OBVIOUS
<1>4. HandlerIs(Extraction)
  BY <1>2, <1>3 DEF HandlerIs, Extraction, Final
<1>5. HandlerIs(Coverage)
  BY <1>2, <1>3 DEF HandlerIs, Coverage, Final
<1>6. HandlerIs(Scoring)
  BY <1>2, <1>3 DEF HandlerIs, Scoring, Final
<1>7. HandlerIs(Drafting)
  BY <1>2, <1>3 DEF HandlerIs, Drafting, Final
<1>8. HandlerIs(CvDrafting)
  BY <1>2, <1>3 DEF HandlerIs, CvDrafting, Final
<1>9. HandlerIs(CvFacts)
  BY <1>2, <1>3 DEF HandlerIs, CvFacts, Final
<1>10. HandlerIs(EditsCheck)
  BY <1>2, <1>3 DEF HandlerIs, EditsCheck, Final
<1>11. HandlerIs(Pushback)
  BY <1>2, <1>3 DEF HandlerIs, Pushback, Final
<1>12. HandlerIs(Clustering)
  BY <1>2, <1>3 DEF HandlerIs, Clustering, Final
<1>13. HandlerIs(Settings)
  BY <1>2, <1>3 DEF HandlerIs, Settings, Final
<1>14. HandlerIs(Suggesting)
  BY <1>2, <1>3 DEF HandlerIs, Suggesting, Final
<1>15. HandlerIs(Checking)
  BY <1>2, <1>3 DEF HandlerIs, Checking, Final
<1>16. HandlerIs(Answering)
  BY <1>2, <1>3 DEF HandlerIs, Answering, Final
<1> QED BY <1>4, <1>5, <1>6, <1>7, <1>8, <1>9, <1>10, <1>11, <1>12, <1>13, <1>14, <1>15, <1>16 DEF Handlers

\* The calls of step s there was a use for, or to be made again; those after it that
\* were refused for the account; and the failures that use an attempt.
Through(s)      == {n \in DOMAIN calls : calls[n].step = s /\ calls[n].reply \notin AccountBlocks}
RefusedAfter(s) == {n \in DOMAIN calls : calls[n].step > s /\ calls[n].reply \in AccountBlocks}
Spending        == {n \in DOMAIN calls : ~calls[n].died /\ calls[n].reply \notin AccountBlocks \union {"ok"}}

\* The attempt that runs has yet to come through call s, or is to be given back.
Open(s) ==
  /\ place.on # "idle"
  /\ place.step < s \/ (place.step = s /\ place.on = "asks") \/ (place.on # "asks" /\ LastCall.reply \in AccountBlocks)
\* It has yet to use the attempt.
Unspent == place.on # "idle" /\ (place.on = "asks" \/ LastCall.reply \in AccountBlocks \union {"ok"})

CallsTypes ==
  /\ handler.of \in Handlers
  /\ task \in [status : {"pending", "running", "done", "failed"}, attempts : Nat, deaths : Nat]
  /\ place \in [step : Nat, on : {"idle", "asks", "answered", "recorded", "noted", "parks"}]
  /\ calls \in Seq(CallRows)
  /\ account \in {"ok"} \union AccountBlocks

PlaceInv ==
  /\ task.attempts <= MaxAttempts
  /\ task.status = "pending" => task.attempts < MaxAttempts
  /\ task.status = "running" <=> place.on # "idle"
  /\ place.on # "idle" => task.attempts > 0 /\ place.step \in 1..Len(handler.of.calls)
  /\ place.on \in {"answered", "recorded", "noted", "parks"} =>
       calls # <<>> /\ LastCall.step = place.step /\ ~LastCall.died
  /\ place.on \in {"recorded", "noted", "parks"} => LastCall.row # NoRow
  /\ place.on = "parks" => LastCall.reply \in AccountBlocks
  /\ place.on = "asks" /\ place.step > 1 => calls # <<>> /\ LastCall.reply = "ok"
  /\ handler.missing = 1 => calls = <<>>

\* What would come back the same way is the last there is.
AgainInv == \A n \in DOMAIN calls : calls[n].reply \in Hopeless =>
  \/ calls[n].died
  \/ n = Len(calls) /\ (task.status = "failed" \/ place.on \in {"answered", "recorded", "noted"})

ThroughInv == \A s \in 1..Len(handler.of.calls) :
  Cardinality(Through(s)) + (IF Open(s) THEN 1 ELSE 0)
    <= task.attempts + Cardinality(RefusedAfter(s))

SpentInv == handler.missing = 0 /\ task.status # "done" =>
  task.attempts = task.deaths + Cardinality(Spending) + (IF Unspent THEN 1 ELSE 0)

BannerInv ==
  /\ place.on \in {"idle", "asks", "parks"} /\ task.status \in {"pending", "running"} /\ calls # <<>>
       /\ ~LastCall.died /\ LastCall.reply \in AccountBlocks => health = LastCall.reply
  /\ place.on = "noted" /\ LastCall.reply = "ok" => health = "ok"
  /\ task.status = "done" => health = "ok"
  /\ task.status = "failed" /\ calls # <<>> /\ LastCall.reply \in AccountBlocks => task.deaths > 0

CallsInv == CallsTypes /\ PlaceInv /\ OnTheBooks /\ AgainInv /\ ThroughInv /\ SpentInv /\ BannerInv

LEMMA CallSetsAre ==
  ASSUME CallsTypes
  PROVE  /\ DOMAIN calls = 1..Len(calls) /\ Len(calls) \in Nat
         /\ \A n \in 1..Len(calls) : calls[n] \in CallRows
         /\ calls # <<>> => Len(calls) \in 1..Len(calls) /\ LastCall = calls[Len(calls)]
         /\ IsFiniteSet(Spending) /\ Cardinality(Spending) \in Nat
         /\ \A s : /\ IsFiniteSet(Through(s)) /\ Cardinality(Through(s)) \in Nat
                   /\ IsFiniteSet(RefusedAfter(s)) /\ Cardinality(RefusedAfter(s)) \in Nat
<1>1. DOMAIN calls = 1..Len(calls) /\ Len(calls) \in Nat /\ \A n \in 1..Len(calls) : calls[n] \in CallRows
  BY DEF CallsTypes
<1>2. calls # <<>> => Len(calls) \in 1..Len(calls)
  BY DEF CallsTypes
<1>3. IsFiniteSet(1..Len(calls))
  BY <1>1, FS_Interval
<1>4. \A A \in SUBSET (1..Len(calls)) : IsFiniteSet(A) /\ Cardinality(A) \in Nat
  BY <1>3, FS_Subset, FS_CardinalityType
<1>5. Spending \in SUBSET (1..Len(calls)) /\ \A s : Through(s) \in SUBSET (1..Len(calls)) /\ RefusedAfter(s) \in SUBSET (1..Len(calls))
  BY <1>1 DEF Spending, Through, RefusedAfter
<1> QED BY <1>1, <1>2, <1>4, <1>5 DEF LastCall

\* Of the calls, no more is read than this.
LEMMA SameCalls ==
  ASSUME UNCHANGED <<handler, calls>>
  PROVE  /\ Spending' = Spending /\ LastCall' = LastCall /\ Hopeless' = Hopeless
         /\ \A s : Through(s)' = Through(s) /\ RefusedAfter(s)' = RefusedAfter(s)
BY DEF Spending, LastCall, Hopeless, Through, RefusedAfter

LEMMA CallsBegin == ASSUME CallsInit PROVE CallsInv
<1>1. CallsTypes
  <2>1. handler.of \in Handlers
    BY DEF CallsInit
  <2>2. <<>> \in Seq(CallRows)
    OBVIOUS
  <2> QED BY <2>1, <2>2 DEF CallsInit, CallsTypes, Idle
<1>2. place.on = "idle" /\ calls = <<>> /\ task.status = "pending" /\ task.attempts = 0 /\ task.deaths = 0 /\ health = "ok"
  BY DEF CallsInit, Idle
<1>3. DOMAIN calls = {}
  BY <1>2
<1>4. Spending = {} /\ \A s : Through(s) = {} /\ RefusedAfter(s) = {}
  BY <1>3 DEF Spending, Through, RefusedAfter
<1>5. Cardinality({}) = 0
  BY FS_EmptySet
<1>6. PlaceInv /\ OnTheBooks /\ AgainInv /\ BannerInv
  BY <1>2, <1>3, CallsAssumption DEF PlaceInv, OnTheBooks, AgainInv, BannerInv
<1>7. ThroughInv
  <2> SUFFICES ASSUME NEW s \in 1..Len(handler.of.calls)
               PROVE  Cardinality(Through(s)) + (IF Open(s) THEN 1 ELSE 0)
                        <= task.attempts + Cardinality(RefusedAfter(s))
    BY DEF ThroughInv
  <2>1. ~ Open(s) /\ Cardinality(Through(s)) = 0 /\ Cardinality(RefusedAfter(s)) = 0
    BY <1>2, <1>4, <1>5 DEF Open
  <2> QED BY <1>2, <2>1
<1>8. SpentInv
  <2>1. ~ Unspent /\ Cardinality(Spending) = 0
    BY <1>2, <1>4, <1>5 DEF Unspent
  <2> QED BY <1>2, <2>1 DEF SpentInv
<1> QED BY <1>1, <1>6, <1>7, <1>8 DEF CallsInv

LEMMA ClaimKeeps ==
  ASSUME CallsInv, Claim
  PROVE  CallsInv'
<1>0. CallsTypes /\ PlaceInv /\ OnTheBooks /\ AgainInv /\ ThroughInv /\ SpentInv /\ BannerInv
  BY DEF CallsInv
<1>1. /\ task.status = "pending" /\ task' = [task EXCEPT !.status = "running", !.attempts = @ + 1]
      /\ place' = [step |-> 1, on |-> "asks"]
      /\ UNCHANGED <<handler, calls, account, health>>
  BY DEF Claim
<1>2. /\ task'.status = "running" /\ task'.attempts = task.attempts + 1 /\ task'.deaths = task.deaths
      /\ place'.step = 1 /\ place'.on = "asks" /\ place.on = "idle"
      /\ task.attempts \in Nat /\ task.deaths \in Nat
  BY <1>0, <1>1 DEF CallsTypes, PlaceInv
<1>3. CallsTypes'
  <2>1. task' \in [status : {"pending", "running", "done", "failed"}, attempts : Nat, deaths : Nat]
    <3>1. task \in [status : {"pending", "running", "done", "failed"}, attempts : Nat, deaths : Nat]
      BY <1>0 DEF CallsTypes
    <3>2. task' = [task EXCEPT !.status = "running", !.attempts = task.attempts + 1]
      BY <1>1
    <3>3. task.attempts + 1 \in Nat
      BY <1>2
    <3> QED BY <3>1, <3>2, <3>3
  <2>2. place' \in [step : Nat, on : {"idle", "asks", "answered", "recorded", "noted", "parks"}]
    BY <1>1
  <2> QED BY <1>0, <1>1, <2>1, <2>2 DEF CallsTypes
<1>4. LastCall' = LastCall /\ Hopeless' = Hopeless /\ Spending' = Spending
      /\ \A s : Through(s)' = Through(s) /\ RefusedAfter(s)' = RefusedAfter(s)
  BY <1>1, SameCalls
<1>5. Len(handler.of.calls) \in 1..2
  BY <1>0, HandlersAre DEF CallsTypes, HandlerIs
<1>6. PlaceInv'
  <2>1. task'.attempts <= MaxAttempts /\ task'.attempts > 0
    BY <1>0, <1>1, <1>2, CallsAssumption DEF PlaceInv
  <2>2. place'.step \in 1..Len(handler'.of.calls)
    <3>1. Len(handler'.of.calls) = Len(handler.of.calls)
      BY <1>1
    <3>2. \A m \in 1..2 : 1 \in 1..m
      OBVIOUS
    <3>3. 1 \in 1..Len(handler'.of.calls)
      BY <1>5, <3>1, <3>2
    <3> QED BY <1>2, <3>3
  <2> QED BY <1>0, <1>1, <1>2, <2>1, <2>2 DEF PlaceInv
<1>7. OnTheBooks'
  BY <1>0, <1>1, <1>2 DEF OnTheBooks
<1>8. AgainInv'
  BY <1>0, <1>1, <1>2, <1>4 DEF AgainInv
<1>9. ThroughInv'
  BY <1>0, <1>1, <1>2, <1>4, CallSetsAre DEF ThroughInv, Open
<1>10. SpentInv'
  BY <1>0, <1>1, <1>2, <1>4, CallSetsAre DEF SpentInv, Unspent
<1>11. BannerInv'
  BY <1>0, <1>1, <1>2, <1>4 DEF BannerInv
<1> QED BY <1>3, <1>6, <1>7, <1>8, <1>9, <1>10, <1>11 DEF CallsInv

TaskRows == [status : {"pending", "running", "done", "failed"}, attempts : Nat, deaths : Nat]
Places == [step : Nat, on : {"idle", "asks", "answered", "recorded", "noted", "parks"}]

LEMMA AttemptEnds ==
  ASSUME CallsInv, NEW permanent \in BOOLEAN, NEW deaths \in {0, 1}, EndsWith(permanent, deaths)
  PROVE  /\ place' = Idle /\ place' \in Places /\ place'.on = "idle"
         /\ task' \in TaskRows /\ task'.status \in {"pending", "failed"}
         /\ task'.attempts = task.attempts /\ task'.deaths = task.deaths + deaths
         /\ task.attempts \in Nat /\ task.deaths \in Nat
         /\ task.attempts <= MaxAttempts
         /\ task'.status = "pending" => task'.attempts < MaxAttempts
         /\ permanent => task'.status = "failed"
<1>1. task \in TaskRows /\ task.attempts <= MaxAttempts
  BY DEF CallsInv, CallsTypes, PlaceInv, TaskRows
<1>2. PICK status \in {"pending", "failed"} :
        /\ task' = [task EXCEPT !.deaths = task.deaths + deaths, !.status = status]
        /\ status = IF permanent \/ task.attempts >= MaxAttempts THEN "failed" ELSE "pending"
  BY DEF EndsWith
<1>3. task.deaths + deaths \in Nat /\ task.deaths \in Nat /\ task.attempts \in Nat /\ MaxAttempts \in Nat
  BY <1>1, CallsAssumption DEF TaskRows
<1>4. /\ task' \in TaskRows /\ task'.status = status /\ task'.attempts = task.attempts
      /\ task'.deaths = task.deaths + deaths
  BY <1>1, <1>2, <1>3 DEF TaskRows
<1>5. place' = Idle /\ place' \in Places /\ place'.on = "idle"
  BY DEF EndsWith, Idle, Places
<1> QED BY <1>1, <1>2, <1>3, <1>4, <1>5

LEMMA MissingKeeps ==
  ASSUME CallsInv, Missing
  PROVE  CallsInv'
<1>0. CallsTypes /\ PlaceInv /\ OnTheBooks /\ AgainInv /\ ThroughInv /\ SpentInv /\ BannerInv
  BY DEF CallsInv
<1>1. /\ place.on = "asks" /\ handler.missing = place.step
      /\ EndsWith(Call.needs \in handler.of.final, 0)
      /\ UNCHANGED <<handler, calls, account, health>>
  BY DEF Missing, Ends
<1>2. /\ place' = Idle /\ place' \in Places /\ place'.on = "idle"
      /\ task' \in TaskRows /\ task'.status \in {"pending", "failed"}
      /\ task'.attempts = task.attempts /\ task'.deaths = task.deaths
      /\ task.attempts \in Nat /\ task.deaths \in Nat /\ task.attempts <= MaxAttempts
      /\ task'.status = "pending" => task'.attempts < MaxAttempts
  <2> DEFINE permanent == Call.needs \in handler.of.final
  <2>1. permanent \in BOOLEAN /\ EndsWith(permanent, 0)
    BY <1>1
  <2> HIDE DEF permanent
  <2> QED BY <2>1, AttemptEnds
<1>3. CallsTypes'
  BY <1>0, <1>1, <1>2 DEF CallsTypes, TaskRows, Places
<1>4. LastCall' = LastCall /\ Hopeless' = Hopeless /\ Spending' = Spending
      /\ \A s : Through(s)' = Through(s) /\ RefusedAfter(s)' = RefusedAfter(s)
  BY <1>1, SameCalls
<1>5. place.step \in Nat /\ place.step > 0 /\ handler.missing # 0
  <2>1. place.step \in 1..Len(handler.of.calls) /\ Len(handler.of.calls) \in 1..2
    BY <1>0, <1>1, HandlersAre DEF PlaceInv, CallsTypes, HandlerIs
  <2> QED BY <1>1, <2>1
\* No call that cannot be made was made, and the one before it went through.
<1>6. calls # <<>> => LastCall.reply = "ok"
  <2>1. CASE place.step = 1
    BY <1>0, <1>1, <2>1 DEF PlaceInv
  <2>2. CASE place.step > 1
    BY <1>0, <1>1, <2>2 DEF PlaceInv
  <2> QED BY <1>5, <2>1, <2>2
<1>7. "ok" \notin AccountBlocks
  BY DEF AccountBlocks
<1>8. PlaceInv'
  BY <1>0, <1>1, <1>2, <1>4 DEF PlaceInv
<1>9. OnTheBooks'
  BY <1>0, <1>1, <1>2 DEF OnTheBooks
<1>10. AgainInv'
  <2>1. task.status = "running"
    BY <1>0, <1>1 DEF PlaceInv, CallsTypes
  <2> QED BY <1>0, <1>1, <1>2, <1>4, <2>1 DEF AgainInv
<1>11. ThroughInv'
  BY <1>0, <1>1, <1>2, <1>4, CallSetsAre DEF ThroughInv, Open
<1>12. SpentInv'
  BY <1>1, <1>5 DEF SpentInv
<1>13. BannerInv'
  BY <1>0, <1>1, <1>2, <1>4, <1>6, <1>7 DEF BannerInv
<1> QED BY <1>3, <1>8, <1>9, <1>10, <1>11, <1>12, <1>13 DEF CallsInv

LEMMA FailsKeeps ==
  ASSUME CallsInv, Fails
  PROVE  CallsInv'
<1>0. CallsTypes /\ PlaceInv /\ OnTheBooks /\ AgainInv /\ ThroughInv /\ SpentInv /\ BannerInv
  BY DEF CallsInv
<1>1. /\ place.on = "noted" /\ LastCall.reply # "ok" /\ LastCall.reply \notin AccountBlocks
      /\ EndsWith(LastCall.reply \in handler.of.final, 0)
      /\ UNCHANGED <<handler, calls, account, health>>
  BY DEF Fails, Ends, Blocked
<1>2. /\ place' = Idle /\ place' \in Places /\ place'.on = "idle"
      /\ task' \in TaskRows /\ task'.status \in {"pending", "failed"}
      /\ task'.attempts = task.attempts /\ task'.deaths = task.deaths
      /\ task.attempts \in Nat /\ task.deaths \in Nat /\ task.attempts <= MaxAttempts
      /\ task'.status = "pending" => task'.attempts < MaxAttempts
      /\ LastCall.reply \in handler.of.final => task'.status = "failed"
  <2> DEFINE permanent == LastCall.reply \in handler.of.final
  <2>1. permanent \in BOOLEAN /\ EndsWith(permanent, 0)
    BY <1>1
  <2>2. permanent => LastCall.reply \in handler.of.final
    OBVIOUS
  <2>3. LastCall.reply \in handler.of.final => permanent
    OBVIOUS
  <2> HIDE DEF permanent
  <2> QED BY <2>1, <2>3, AttemptEnds
<1>3. CallsTypes'
  BY <1>0, <1>1, <1>2 DEF CallsTypes, TaskRows, Places
<1>4. LastCall' = LastCall /\ Hopeless' = Hopeless /\ Spending' = Spending
      /\ \A s : Through(s)' = Through(s) /\ RefusedAfter(s)' = RefusedAfter(s)
  BY <1>1, SameCalls
<1>5. LastCall.reply \in Hopeless => task'.status = "failed"
  <2>1. HandlerIs(handler.of)
    BY <1>0, HandlersAre DEF CallsTypes
  <2>2. Hopeless \subseteq handler.of.final
    BY <2>1 DEF HandlerIs, Hopeless
  <2> QED BY <1>2, <2>2
<1>6. calls # <<>> /\ LastCall = calls[Len(calls)]
  BY <1>0, <1>1, CallSetsAre DEF PlaceInv
<1>8. PlaceInv'
  BY <1>0, <1>1, <1>2, <1>4 DEF PlaceInv
<1>9. OnTheBooks'
  BY <1>0, <1>1, <1>2 DEF OnTheBooks
<1>10. AgainInv'
  BY <1>0, <1>1, <1>2, <1>4, <1>5, <1>6 DEF AgainInv
<1>11. ThroughInv'
  BY <1>0, <1>1, <1>2, <1>4, CallSetsAre DEF ThroughInv, Open
<1>12. SpentInv'
  <2>1. task.status = "running" /\ ~ Unspent /\ ~ Unspent'
    BY <1>0, <1>1, <1>2 DEF PlaceInv, CallsTypes, Unspent
  <2> QED BY <1>0, <1>1, <1>2, <1>4, <2>1, CallSetsAre DEF SpentInv
<1>13. BannerInv'
  BY <1>0, <1>1, <1>2, <1>4 DEF BannerInv
<1> QED BY <1>3, <1>8, <1>9, <1>10, <1>11, <1>12, <1>13 DEF CallsInv

\* What holds of the calls and the task when both stay as they are.
LEMMA NoteKeeps ==
  ASSUME CallsInv, NoteModelCall
  PROVE  CallsInv'
<1>0. CallsTypes /\ PlaceInv /\ OnTheBooks /\ AgainInv /\ ThroughInv /\ SpentInv /\ BannerInv
  BY DEF CallsInv
<1>1. /\ place.on = "recorded" /\ place' = [place EXCEPT !.on = "noted"]
      /\ health' = IF LastCall.row.outcome = "error" /\ ~LastCall.row.billed THEN health ELSE "ok"
      /\ UNCHANGED <<handler, task, calls, account>>
  BY DEF NoteModelCall
<1>2. place' \in Places /\ place'.on = "noted" /\ place'.step = place.step
  BY <1>0, <1>1 DEF CallsTypes, Places
<1>3. CallsTypes'
  BY <1>0, <1>1, <1>2 DEF CallsTypes, Places
<1>4. LastCall' = LastCall /\ Hopeless' = Hopeless /\ Spending' = Spending
      /\ \A s : Through(s)' = Through(s) /\ RefusedAfter(s)' = RefusedAfter(s)
  BY <1>1, SameCalls
<1>5. LastCall.reply = "ok" => health' = "ok"
  <2>1. Len(calls) \in DOMAIN calls /\ LastCall = calls[Len(calls)] /\ LastCall.row # NoRow
    BY <1>0, <1>1, CallSetsAre DEF PlaceInv
  <2>2. LastCall.reply = "ok" => LastCall.row.outcome = "ok"
    BY <1>0, <2>1 DEF OnTheBooks
  <2> QED BY <1>1, <2>2
<1>8. PlaceInv'
  BY <1>0, <1>1, <1>2, <1>4 DEF PlaceInv
<1>9. OnTheBooks'
  BY <1>0, <1>1, <1>2 DEF OnTheBooks
<1>10. AgainInv'
  BY <1>0, <1>1, <1>2, <1>4 DEF AgainInv
<1>11. ThroughInv'
  <2>1. \A s \in 1..Len(handler.of.calls) : Open(s)' = Open(s)
    BY <1>1, <1>2, <1>4 DEF Open
  <2> QED BY <1>0, <1>1, <1>4, <2>1 DEF ThroughInv
<1>12. SpentInv'
  <2>1. Unspent' = Unspent
    BY <1>1, <1>2, <1>4 DEF Unspent
  <2> QED BY <1>0, <1>1, <1>4, <2>1 DEF SpentInv
<1>13. BannerInv'
  <2>1. task.status = "running"
    BY <1>0, <1>1 DEF PlaceInv
  <2> QED BY <1>0, <1>1, <1>2, <1>4, <1>5, <2>1 DEF BannerInv
<1> QED BY <1>3, <1>8, <1>9, <1>10, <1>11, <1>12, <1>13 DEF CallsInv

LEMMA MarkBlockedKeeps ==
  ASSUME CallsInv, MarkBlocked
  PROVE  CallsInv'
<1>0. CallsTypes /\ PlaceInv /\ OnTheBooks /\ AgainInv /\ ThroughInv /\ SpentInv /\ BannerInv
  BY DEF CallsInv
<1>1. /\ place.on = "noted" /\ LastCall.reply \in AccountBlocks /\ place' = [place EXCEPT !.on = "parks"]
      /\ health' = LastCall.reply
      /\ UNCHANGED <<handler, task, calls, account>>
  BY DEF MarkBlocked, Blocked
<1>2. place' \in Places /\ place'.on = "parks" /\ place'.step = place.step
  BY <1>0, <1>1 DEF CallsTypes, Places
<1>3. CallsTypes'
  BY <1>0, <1>1, <1>2 DEF CallsTypes, Places
<1>4. LastCall' = LastCall /\ Hopeless' = Hopeless /\ Spending' = Spending
      /\ \A s : Through(s)' = Through(s) /\ RefusedAfter(s)' = RefusedAfter(s)
  BY <1>1, SameCalls
<1>5. task.status = "running"
  BY <1>0, <1>1 DEF PlaceInv
<1>6. LastCall.reply \notin Hopeless /\ calls # <<>> /\ LastCall = calls[Len(calls)]
  BY <1>0, <1>1, CallSetsAre DEF PlaceInv, Hopeless, AccountBlocks
<1>8. PlaceInv'
  BY <1>0, <1>1, <1>2, <1>4 DEF PlaceInv
<1>9. OnTheBooks'
  BY <1>0, <1>1, <1>2 DEF OnTheBooks
<1>10. AgainInv'
  BY <1>0, <1>1, <1>2, <1>4, <1>5, <1>6 DEF AgainInv
<1>11. ThroughInv'
  <2>1. \A s \in 1..Len(handler.of.calls) : Open(s)' = Open(s)
    BY <1>1, <1>2, <1>4 DEF Open
  <2> QED BY <1>0, <1>1, <1>4, <2>1 DEF ThroughInv
<1>12. SpentInv'
  <2>1. Unspent' = Unspent
    BY <1>1, <1>2, <1>4 DEF Unspent
  <2> QED BY <1>0, <1>1, <1>4, <2>1 DEF SpentInv
<1>13. BannerInv'
  BY <1>0, <1>1, <1>2, <1>4, <1>5 DEF BannerInv
<1> QED BY <1>3, <1>8, <1>9, <1>10, <1>11, <1>12, <1>13 DEF CallsInv

LEMMA ParkKeeps ==
  ASSUME CallsInv, Park
  PROVE  CallsInv'
<1>0. CallsTypes /\ PlaceInv /\ OnTheBooks /\ AgainInv /\ ThroughInv /\ SpentInv /\ BannerInv
  BY DEF CallsInv
<1>1. /\ place.on = "parks" /\ place' = Idle
      /\ task' = [task EXCEPT !.status = "pending", !.attempts = task.attempts - 1]
      /\ UNCHANGED <<handler, calls, account, health>>
  BY DEF Park
<1>2. /\ place' \in Places /\ place'.on = "idle" /\ LastCall.reply \in AccountBlocks
      /\ task.attempts \in Nat /\ task.deaths \in Nat /\ task.attempts > 0
      /\ task.attempts <= MaxAttempts /\ task.status = "running"
  BY <1>0, <1>1 DEF CallsTypes, Places, Idle, PlaceInv
<1>2a. /\ task' \in TaskRows /\ task'.status = "pending" /\ task'.deaths = task.deaths
       /\ task'.attempts = task.attempts - 1
  <2>1. task.attempts - 1 \in Nat
    BY <1>2
  <2>2. task \in TaskRows
    BY <1>0 DEF CallsTypes, TaskRows
  <2> QED BY <1>1, <2>1, <2>2 DEF TaskRows
<1>3. CallsTypes'
  BY <1>0, <1>1, <1>2, <1>2a DEF CallsTypes, TaskRows, Places
<1>4. LastCall' = LastCall /\ Hopeless' = Hopeless /\ Spending' = Spending
      /\ \A s : Through(s)' = Through(s) /\ RefusedAfter(s)' = RefusedAfter(s)
  BY <1>1, SameCalls
<1>6. LastCall.reply \notin Hopeless /\ calls # <<>> /\ LastCall = calls[Len(calls)]
  BY <1>0, <1>1, <1>2, CallSetsAre DEF PlaceInv, Hopeless, AccountBlocks
<1>8. PlaceInv'
  <2>1. task'.attempts < MaxAttempts
    BY <1>2, <1>2a, CallsAssumption
  <2> QED BY <1>0, <1>1, <1>2, <1>2a, <1>4, <2>1, CallsAssumption DEF PlaceInv
<1>9. OnTheBooks'
  BY <1>0, <1>1, <1>2 DEF OnTheBooks
<1>10. AgainInv'
  BY <1>0, <1>1, <1>2, <1>4, <1>6 DEF AgainInv
<1>11. ThroughInv'
  <2>1. \A s \in 1..Len(handler.of.calls) : Open(s) /\ ~ Open(s)'
    BY <1>1, <1>2 DEF Open
  <2>2. \A s \in 1..Len(handler.of.calls) :
          Cardinality(Through(s)) + 1 <= task.attempts + Cardinality(RefusedAfter(s))
    BY <1>0, <2>1 DEF ThroughInv
  <2>3. \A s : Cardinality(Through(s)) \in Nat /\ Cardinality(RefusedAfter(s)) \in Nat
    BY <1>0, CallSetsAre
  <2> QED BY <1>1, <1>2, <1>2a, <1>4, <2>1, <2>2, <2>3 DEF ThroughInv
<1>12. SpentInv'
  <2>1. Unspent /\ ~ Unspent'
    BY <1>1, <1>2, <1>4 DEF Unspent
  <2>2. Cardinality(Spending) \in Nat
    BY <1>0, CallSetsAre
  <2> QED BY <1>0, <1>1, <1>2, <1>2a, <1>4, <2>1, <2>2 DEF SpentInv
<1>13. BannerInv'
  BY <1>0, <1>1, <1>2, <1>2a, <1>4 DEF BannerInv
<1> QED BY <1>3, <1>8, <1>9, <1>10, <1>11, <1>12, <1>13 DEF CallsInv

LEMMA AccountTurnsKeeps ==
  ASSUME CallsInv, AccountTurns
  PROVE  CallsInv'
<1>1. UNCHANGED <<handler, task, place, calls, health>> /\ account' \in {"ok"} \union AccountBlocks
  BY DEF AccountTurns
<1>4. LastCall' = LastCall /\ Hopeless' = Hopeless /\ Spending' = Spending
      /\ \A s : Through(s)' = Through(s) /\ RefusedAfter(s)' = RefusedAfter(s)
  BY <1>1, SameCalls
<1>5. Unspent' = Unspent /\ \A s : Open(s)' = Open(s)
  BY <1>1, <1>4 DEF Unspent, Open
<1>6. CallsTypes' /\ PlaceInv' /\ OnTheBooks' /\ AgainInv' /\ BannerInv'
  BY <1>1, <1>4 DEF CallsInv, CallsTypes, PlaceInv, OnTheBooks, AgainInv, BannerInv
<1>7. ThroughInv' /\ SpentInv'
  BY <1>1, <1>4, <1>5 DEF CallsInv, ThroughInv, SpentInv
<1> QED BY <1>6, <1>7 DEF CallsInv

LEMMA SucceedsKeeps ==
  ASSUME CallsInv, Succeeds
  PROVE  CallsInv'
<1>0. CallsTypes /\ PlaceInv /\ OnTheBooks /\ AgainInv /\ ThroughInv /\ SpentInv /\ BannerInv
  BY DEF CallsInv
<1>1. place.on = "noted" /\ LastCall.reply = "ok" /\ UNCHANGED <<handler, calls, account, health>>
  BY DEF Succeeds
<1>2. \/ task' = [task EXCEPT !.status = "done"] /\ place' = Idle
      \/ place.step # Len(handler.of.calls) /\ place' = [step |-> place.step + 1, on |-> "asks"] /\ task' = task
  BY DEF Succeeds
<1>3. /\ task \in TaskRows /\ task.attempts \in Nat /\ task.deaths \in Nat
      /\ place.step \in 1..Len(handler.of.calls) /\ place.step \in Nat /\ task.status = "running"
      /\ Len(handler.of.calls) \in 1..2 /\ task.attempts > 0 /\ task.attempts <= MaxAttempts
  BY <1>0, <1>1, HandlersAre DEF CallsTypes, TaskRows, PlaceInv, HandlerIs
<1>4. LastCall' = LastCall /\ Hopeless' = Hopeless /\ Spending' = Spending
      /\ \A s : Through(s)' = Through(s) /\ RefusedAfter(s)' = RefusedAfter(s)
  BY <1>1, SameCalls
<1>5. health = "ok" /\ "ok" \notin AccountBlocks /\ "ok" \notin Hopeless
  BY <1>0, <1>1 DEF BannerInv, AccountBlocks, Hopeless
<1>6. calls # <<>> /\ LastCall = calls[Len(calls)]
  BY <1>0, <1>1, CallSetsAre DEF PlaceInv
<1>7. OnTheBooks'
  <2>1. place'.on # "answered" /\ place.on # "answered"
    BY <1>1, <1>2 DEF Idle
  <2> QED BY <1>0, <1>1, <2>1 DEF OnTheBooks
<1>8. AgainInv'
  BY <1>0, <1>1, <1>3, <1>4, <1>5, <1>6 DEF AgainInv
<1>9. CASE task' = [task EXCEPT !.status = "done"] /\ place' = Idle
  <2>1. /\ task' \in TaskRows /\ task'.status = "done" /\ task'.attempts = task.attempts
        /\ place' \in Places /\ place'.on = "idle"
    BY <1>3, <1>9 DEF TaskRows, Places, Idle
  <2>2. CallsTypes'
    BY <1>0, <1>1, <2>1 DEF CallsTypes, TaskRows, Places
  <2>3. PlaceInv'
    BY <1>0, <1>1, <1>3, <1>4, <2>1 DEF PlaceInv
  <2>4. ThroughInv'
    <3> SUFFICES ASSUME NEW s \in 1..Len(handler.of.calls)
                 PROVE  Cardinality(Through(s)') + (IF Open(s)' THEN 1 ELSE 0)
                          <= task'.attempts + Cardinality(RefusedAfter(s)')
      BY <1>1 DEF ThroughInv
    <3>1. ~ Open(s)'
      BY <2>1 DEF Open
    <3>2. Cardinality(Through(s)) + (IF Open(s) THEN 1 ELSE 0)
            <= task.attempts + Cardinality(RefusedAfter(s))
      BY <1>0 DEF ThroughInv
    <3>3. Cardinality(Through(s)) \in Nat /\ Cardinality(RefusedAfter(s)) \in Nat
      BY <1>0, CallSetsAre
    <3>4. Through(s)' = Through(s) /\ RefusedAfter(s)' = RefusedAfter(s) /\ task'.attempts = task.attempts
      BY <1>4, <2>1
    <3> HIDE DEF Open
    <3> QED BY <1>3, <3>1, <3>2, <3>3, <3>4
  <2>5. SpentInv'
    BY <2>1 DEF SpentInv
  <2>6. BannerInv'
    BY <1>1, <1>4, <1>5, <2>1 DEF BannerInv
  <2> QED BY <1>7, <1>8, <2>2, <2>3, <2>4, <2>5, <2>6 DEF CallsInv
<1>10. CASE place.step # Len(handler.of.calls) /\ place' = [step |-> place.step + 1, on |-> "asks"] /\ task' = task
  <2>1. place' \in Places /\ place'.on = "asks" /\ place'.step = place.step + 1 /\ place'.step \in 1..Len(handler.of.calls)
    BY <1>3, <1>10 DEF Places
  <2>2. CallsTypes'
    BY <1>0, <1>1, <1>10, <2>1 DEF CallsTypes, Places
  <2>3. PlaceInv'
    BY <1>0, <1>1, <1>3, <1>4, <1>6, <1>10, <2>1 DEF PlaceInv
  <2>4. ThroughInv'
    <3>1. \A s \in 1..Len(handler.of.calls) : Open(s)' = Open(s)
      BY <1>1, <1>3, <1>4, <1>5, <2>1 DEF Open
    <3> QED BY <1>0, <1>1, <1>4, <1>10, <3>1 DEF ThroughInv
  <2>5. SpentInv'
    <3>1. Unspent /\ Unspent'
      BY <1>1, <2>1 DEF Unspent
    <3> QED BY <1>0, <1>1, <1>4, <1>10, <3>1 DEF SpentInv
  <2>6. BannerInv'
    BY <1>1, <1>3, <1>4, <1>5, <1>10, <2>1 DEF BannerInv
  <2> QED BY <1>7, <1>8, <2>2, <2>3, <2>4, <2>5, <2>6 DEF CallsInv
<1> QED BY <1>2, <1>9, <1>10

\* A call more.
LEMMA AskedIs ==
  ASSUME CallsTypes, CallsTypes', NEW c, calls' = Append(calls, c)
  PROVE  LET n == Len(calls) + 1
         IN /\ Len(calls') = n /\ calls' # <<>> /\ LastCall' = c
            /\ DOMAIN calls' = DOMAIN calls \union {n} /\ n \notin DOMAIN calls
            /\ \A i \in DOMAIN calls : calls'[i] = calls[i]
            /\ Cardinality(Spending') = Cardinality(Spending)
                 + (IF ~c.died /\ c.reply \notin AccountBlocks \union {"ok"} THEN 1 ELSE 0)
            /\ \A s : Cardinality(Through(s)') = Cardinality(Through(s))
                 + (IF c.step = s /\ c.reply \notin AccountBlocks THEN 1 ELSE 0)
            /\ \A s : Cardinality(RefusedAfter(s)') = Cardinality(RefusedAfter(s))
                 + (IF c.step > s /\ c.reply \in AccountBlocks THEN 1 ELSE 0)
<1> DEFINE n == Len(calls) + 1
<1>1. calls \in Seq(CallRows) /\ calls' \in Seq(CallRows) /\ Len(calls) \in Nat
  BY DEF CallsTypes
<1>2. Len(calls') = n /\ calls'[n] = c /\ \A i \in 1..Len(calls) : calls'[i] = calls[i]
  BY <1>1
<1>3. DOMAIN calls = 1..Len(calls) /\ DOMAIN calls' = 1..n /\ calls' # <<>> /\ LastCall' = c
  BY <1>1, <1>2 DEF LastCall
<1>4. DOMAIN calls' = DOMAIN calls \union {n} /\ n \notin DOMAIN calls
  BY <1>1, <1>3
<1> HIDE DEF n
<1>5. \A A \in SUBSET (DOMAIN calls) : Cardinality(A \union {n}) = Cardinality(A) + 1
  <2> SUFFICES ASSUME NEW A \in SUBSET (DOMAIN calls) PROVE Cardinality(A \union {n}) = Cardinality(A) + 1
    OBVIOUS
  <2>1. IsFiniteSet(DOMAIN calls)
    BY <1>1, <1>3, FS_Interval
  <2>2. IsFiniteSet(A) /\ n \notin A
    BY <1>4, <2>1, FS_Subset
  <2> QED BY <2>2, FS_AddElement
<1>6. \A i \in DOMAIN calls : calls'[i] = calls[i]
  BY <1>2, <1>3
<1>7. Cardinality(Spending') = Cardinality(Spending)
        + (IF ~c.died /\ c.reply \notin AccountBlocks \union {"ok"} THEN 1 ELSE 0)
  <2>0. Spending \in SUBSET (DOMAIN calls) /\ Cardinality(Spending) \in Nat
    BY CallSetsAre DEF Spending
  <2>1. CASE ~c.died /\ c.reply \notin AccountBlocks \union {"ok"}
    <3>1. Spending' = Spending \union {n}
      BY <1>2, <1>4, <1>6, <2>1 DEF Spending
    <3> QED BY <1>5, <2>0, <2>1, <3>1
  <2>2. CASE ~(~c.died /\ c.reply \notin AccountBlocks \union {"ok"})
    <3>1. Spending' = Spending
      BY <1>2, <1>4, <1>6, <2>2 DEF Spending
    <3> QED BY <2>0, <2>2, <3>1
  <2> QED BY <2>1, <2>2
<1>8. ASSUME NEW s
      PROVE  Cardinality(Through(s)') = Cardinality(Through(s))
               + (IF c.step = s /\ c.reply \notin AccountBlocks THEN 1 ELSE 0)
  <2>0. Through(s) \in SUBSET (DOMAIN calls) /\ Cardinality(Through(s)) \in Nat
    BY CallSetsAre DEF Through
  <2>1. CASE c.step = s /\ c.reply \notin AccountBlocks
    <3>1. Through(s)' = Through(s) \union {n}
      BY <1>2, <1>4, <1>6, <2>1 DEF Through
    <3> QED BY <1>5, <2>0, <2>1, <3>1
  <2>2. CASE ~(c.step = s /\ c.reply \notin AccountBlocks)
    <3>1. Through(s)' = Through(s)
      BY <1>2, <1>4, <1>6, <2>2 DEF Through
    <3> QED BY <2>0, <2>2, <3>1
  <2> QED BY <2>1, <2>2
<1>9. ASSUME NEW s
      PROVE  Cardinality(RefusedAfter(s)') = Cardinality(RefusedAfter(s))
               + (IF c.step > s /\ c.reply \in AccountBlocks THEN 1 ELSE 0)
  <2>0. RefusedAfter(s) \in SUBSET (DOMAIN calls) /\ Cardinality(RefusedAfter(s)) \in Nat
    BY CallSetsAre DEF RefusedAfter
  <2>1. CASE c.step > s /\ c.reply \in AccountBlocks
    <3>1. RefusedAfter(s)' = RefusedAfter(s) \union {n}
      BY <1>2, <1>4, <1>6, <2>1 DEF RefusedAfter
    <3> QED BY <1>5, <2>0, <2>1, <3>1
  <2>2. CASE ~(c.step > s /\ c.reply \in AccountBlocks)
    <3>1. RefusedAfter(s)' = RefusedAfter(s)
      BY <1>2, <1>4, <1>6, <2>2 DEF RefusedAfter
    <3> QED BY <2>0, <2>2, <3>1
  <2> QED BY <2>1, <2>2
<1> QED BY <1>2, <1>3, <1>4, <1>6, <1>7, <1>8, <1>9 DEF n

LEMMA AskKeeps ==
  ASSUME CallsInv, Ask
  PROVE  CallsInv'
<1>0. CallsTypes /\ PlaceInv /\ OnTheBooks /\ AgainInv /\ ThroughInv /\ SpentInv /\ BannerInv
  BY DEF CallsInv
<1> DEFINE c(reply) == [step |-> place.step, reply |-> reply, row |-> NoRow, died |-> FALSE]
<1>1. /\ place.on = "asks" /\ handler.missing # place.step /\ place' = [place EXCEPT !.on = "answered"]
      /\ UNCHANGED <<handler, task, account, health>>
  BY DEF Ask
<1>2. PICK reply \in IF account # "ok" THEN {account}
                     ELSE (Failures \ AccountBlocks) \union Call.rejects
                          \union {"refused", "truncated", "unparseable", "ok"} :
        calls' = Append(calls, c(reply))
  BY DEF Ask
<1>3. /\ place.step \in 1..Len(handler.of.calls) /\ Len(handler.of.calls) \in 1..2 /\ place.step \in Nat
      /\ task.status = "running" /\ IsSite(Call)
      /\ task.attempts \in Nat /\ task.deaths \in Nat
  BY <1>0, <1>1, HandlersAre DEF CallsTypes, PlaceInv, HandlerIs, Call
<1>4. reply \in Replies
  <2>1. account # "ok" => account \in AccountBlocks
    BY <1>0 DEF CallsTypes
  <2>2. Failures \subseteq ApiFailureKinds /\ AccountBlocks \subseteq ApiFailureKinds
    BY CallsAssumption DEF ApiFailureKinds
  <2>3. Call.rejects \subseteq {"misfit", "late"}
    BY <1>3 DEF IsSite
  <2> QED BY <1>2, <2>1, <2>2, <2>3 DEF Replies
<1>5. /\ place' \in Places /\ place'.on = "answered" /\ place'.step = place.step
  BY <1>0, <1>1 DEF CallsTypes, Places
<1>6. c(reply) \in CallRows
  BY <1>3, <1>4 DEF CallRows
<1>7. CallsTypes'
  <2>1. calls' \in Seq(CallRows)
    BY <1>0, <1>2, <1>6 DEF CallsTypes
  <2> QED BY <1>0, <1>1, <1>5, <2>1 DEF CallsTypes, Places
<1> DEFINE d == c(reply)
<1>8. d.step = place.step /\ d.reply = reply /\ d.row = NoRow /\ d.died = FALSE
  OBVIOUS
<1>9. calls' = Append(calls, d)
  BY <1>2
<1> HIDE DEF d, c
<1> DEFINE n == Len(calls) + 1
<1>10. /\ Len(calls') = n /\ calls' # <<>> /\ LastCall' = d
       /\ DOMAIN calls' = DOMAIN calls \union {n} /\ n \notin DOMAIN calls
       /\ \A i \in DOMAIN calls : calls'[i] = calls[i]
       /\ Cardinality(Spending') = Cardinality(Spending)
            + (IF reply \notin AccountBlocks \union {"ok"} THEN 1 ELSE 0)
       /\ \A s : Cardinality(Through(s)') = Cardinality(Through(s))
            + (IF place.step = s /\ reply \notin AccountBlocks THEN 1 ELSE 0)
       /\ \A s : Cardinality(RefusedAfter(s)') = Cardinality(RefusedAfter(s))
            + (IF place.step > s /\ reply \in AccountBlocks THEN 1 ELSE 0)
  BY <1>0, <1>7, <1>8, <1>9, AskedIs
<1>11. calls'[n] = d
  BY <1>10 DEF LastCall
<1>12. Len(calls) \in Nat /\ DOMAIN calls = 1..Len(calls) /\ n \in Nat
  BY <1>0, CallSetsAre
<1> HIDE DEF n
<1>13. PlaceInv'
  <2>1. handler.missing # 1
    <3>1. CASE place.step = 1
      BY <1>1, <3>1
    <3>2. CASE place.step > 1
      BY <1>0, <1>1, <3>2 DEF PlaceInv
    <3> QED BY <1>3, <3>1, <3>2
  <2> QED BY <1>0, <1>1, <1>3, <1>5, <1>8, <1>10, <2>1 DEF PlaceInv
<1>14. OnTheBooks'
  <2>1. ASSUME NEW i \in DOMAIN calls
        PROVE  IF calls'[i].row = NoRow THEN calls'[i].died
               ELSE /\ calls'[i].row.billed <=> Billed(calls'[i].reply)
                    /\ calls'[i].reply = "ok" => calls'[i].row.outcome = "ok"
    BY <1>0, <1>1, <1>10 DEF OnTheBooks
  <2>2. calls'[n].row = NoRow /\ n = Len(calls') /\ place'.on = "answered"
    BY <1>5, <1>8, <1>10, <1>11
  <2>3. \A i \in DOMAIN calls' : i \in DOMAIN calls \/ i = n
    BY <1>10
  <2> QED BY <2>1, <2>2, <2>3 DEF OnTheBooks
<1>15. AgainInv'
  <2>1. Hopeless' = Hopeless
    BY <1>1 DEF Hopeless
  <2>2. \A i \in DOMAIN calls : calls[i].reply \in Hopeless => calls[i].died
    BY <1>0, <1>1, <1>3 DEF AgainInv
  <2> QED BY <1>5, <1>10, <2>1, <2>2 DEF AgainInv
<1>16. ThroughInv'
  <2> SUFFICES ASSUME NEW s \in 1..Len(handler.of.calls)
               PROVE  Cardinality(Through(s)') + (IF Open(s)' THEN 1 ELSE 0)
                        <= task.attempts + Cardinality(RefusedAfter(s)')
    BY <1>1 DEF ThroughInv
  <2>1. Cardinality(Through(s)) + (IF Open(s) THEN 1 ELSE 0)
          <= task.attempts + Cardinality(RefusedAfter(s))
    BY <1>0 DEF ThroughInv
  <2>2. Cardinality(Through(s)) \in Nat /\ Cardinality(RefusedAfter(s)) \in Nat /\ s \in Nat
    BY <1>0, <1>3, CallSetsAre
  <2>3. Open(s) <=> place.step <= s
    BY <1>1, <1>3, <2>2 DEF Open
  <2>4. Open(s)' <=> place.step < s \/ reply \in AccountBlocks
    BY <1>5, <1>8, <1>10 DEF Open
  <2>5. Cardinality(Through(s)') = Cardinality(Through(s))
            + (IF place.step = s /\ reply \notin AccountBlocks THEN 1 ELSE 0)
    BY <1>10
  <2>6. Cardinality(RefusedAfter(s)') = Cardinality(RefusedAfter(s))
            + (IF place.step > s /\ reply \in AccountBlocks THEN 1 ELSE 0)
    BY <1>10
  <2> HIDE DEF Open
  <2>7. CASE reply \in AccountBlocks
    BY <1>3, <2>1, <2>2, <2>3, <2>4, <2>5, <2>6, <2>7
  <2>8. CASE reply \notin AccountBlocks
    BY <1>3, <2>1, <2>2, <2>3, <2>4, <2>5, <2>6, <2>8
  <2> QED BY <2>7, <2>8
<1>17. SpentInv'
  <2>1. Unspent
    BY <1>1 DEF Unspent
  <2>2. Unspent' <=> reply \in AccountBlocks \union {"ok"}
    BY <1>5, <1>8, <1>10 DEF Unspent
  <2>3. Cardinality(Spending) \in Nat
    BY <1>0, CallSetsAre
  <2>4. Cardinality(Spending') = Cardinality(Spending)
            + (IF reply \notin AccountBlocks \union {"ok"} THEN 1 ELSE 0)
    BY <1>10
  <2>5. handler' = handler /\ task' = task
    BY <1>1
  <2>6. handler.missing = 0 /\ task.status # "done" =>
          task.attempts = task.deaths + Cardinality(Spending) + (IF Unspent THEN 1 ELSE 0)
    BY <1>0 DEF SpentInv
  <2>7. reply = "ok" => reply \in AccountBlocks \union {"ok"}
    OBVIOUS
  <2> HIDE DEF Unspent
  <2>8. handler.missing = 0 /\ task.status # "done" =>
          task.attempts = task.deaths + Cardinality(Spending') + (IF Unspent' THEN 1 ELSE 0)
    <3>1. CASE reply \in AccountBlocks \union {"ok"}
      BY <1>3, <2>1, <2>2, <2>3, <2>4, <2>6, <3>1
    <3>2. CASE reply \notin AccountBlocks \union {"ok"}
      BY <1>3, <2>1, <2>2, <2>3, <2>4, <2>6, <3>2
    <3> QED BY <3>1, <3>2
  <2> QED BY <2>5, <2>8 DEF SpentInv
<1>18. BannerInv'
  BY <1>1, <1>3, <1>5 DEF BannerInv
<1> QED BY <1>7, <1>13, <1>14, <1>15, <1>16, <1>17, <1>18 DEF CallsInv

\* A row of the last call, or its death, changes no step and no reply.
LEMMA RewrittenIs ==
  ASSUME CallsTypes, calls # <<>>, NEW c \in CallRows, calls' = [calls EXCEPT ![Len(calls)] = c],
         c.step = LastCall.step, c.reply = LastCall.reply
  PROVE  /\ calls' \in Seq(CallRows) /\ Len(calls') = Len(calls) /\ DOMAIN calls' = DOMAIN calls
         /\ calls' # <<>> /\ LastCall' = c /\ Len(calls) \in DOMAIN calls
         /\ \A i \in DOMAIN calls : i # Len(calls) => calls'[i] = calls[i]
         /\ \A i \in DOMAIN calls : calls'[i].step = calls[i].step /\ calls'[i].reply = calls[i].reply
         /\ \A s : Through(s)' = Through(s) /\ RefusedAfter(s)' = RefusedAfter(s)
<1>1. calls \in Seq(CallRows) /\ Len(calls) \in 1..Len(calls) /\ DOMAIN calls = 1..Len(calls)
      /\ LastCall = calls[Len(calls)]
  BY CallSetsAre DEF CallsTypes
<1>2. /\ calls' \in Seq(CallRows) /\ Len(calls') = Len(calls) /\ DOMAIN calls' = DOMAIN calls
      /\ calls'[Len(calls)] = c
      /\ \A i \in DOMAIN calls : i # Len(calls) => calls'[i] = calls[i]
  BY <1>1
<1>3. calls' # <<>> /\ LastCall' = c
  BY <1>1, <1>2 DEF LastCall
<1>4. \A i \in DOMAIN calls : calls'[i].step = calls[i].step /\ calls'[i].reply = calls[i].reply
  BY <1>1, <1>2
<1>5. \A s : Through(s)' = Through(s) /\ RefusedAfter(s)' = RefusedAfter(s)
  BY <1>2, <1>4 DEF Through, RefusedAfter
<1> QED BY <1>1, <1>2, <1>3, <1>4, <1>5

LEMMA RecordKeeps ==
  ASSUME Priced, CallsInv, Record
  PROVE  CallsInv'
<1>0. CallsTypes /\ PlaceInv /\ OnTheBooks /\ AgainInv /\ ThroughInv /\ SpentInv /\ BannerInv
  BY DEF CallsInv
<1> DEFINE row == [outcome |-> Outcome(Call, LastCall.reply), billed |-> Billed(LastCall.reply)]
           c == [LastCall EXCEPT !.row = row]
<1>1. /\ place.on = "answered" /\ place' = [place EXCEPT !.on = "recorded"]
      /\ calls' = [calls EXCEPT ![Len(calls)].row = row]
      /\ UNCHANGED <<handler, task, account, health>>
  BY DEF Record
<1>2. place' \in Places /\ place'.on = "recorded" /\ place'.step = place.step
  BY <1>0, <1>1 DEF CallsTypes, Places
<1>3. calls # <<>> /\ LastCall = calls[Len(calls)] /\ LastCall \in CallRows /\ Len(calls) \in DOMAIN calls
      /\ LastCall.step = place.step /\ ~LastCall.died /\ task.status = "running"
  BY <1>0, <1>1, CallSetsAre DEF PlaceInv
<1>4. row \in RunRows /\ (row.billed <=> Billed(LastCall.reply))
      /\ (LastCall.reply = "ok" => row.outcome = "ok")
  BY DEF RunRows, Outcome, Billed
<1>5. row # NoRow
  BY <1>4, CallsAssumption DEF RunRows
<1> HIDE DEF row
<1>6. c \in CallRows /\ c.step = LastCall.step /\ c.reply = LastCall.reply /\ c.row = row
      /\ c.died = LastCall.died
  BY <1>3, <1>4 DEF CallRows
<1>7. calls' = [calls EXCEPT ![Len(calls)] = c]
  BY <1>1, <1>3
<1> HIDE DEF c
<1>8. /\ calls' \in Seq(CallRows) /\ Len(calls') = Len(calls) /\ DOMAIN calls' = DOMAIN calls
      /\ calls' # <<>> /\ LastCall' = c
      /\ \A i \in DOMAIN calls : i # Len(calls) => calls'[i] = calls[i]
      /\ \A i \in DOMAIN calls : calls'[i].step = calls[i].step /\ calls'[i].reply = calls[i].reply
      /\ \A s : Through(s)' = Through(s) /\ RefusedAfter(s)' = RefusedAfter(s)
  BY <1>0, <1>3, <1>6, <1>7, RewrittenIs
<1>9. calls'[Len(calls)] = c
  BY <1>8 DEF LastCall
<1>10. \A i \in DOMAIN calls : calls'[i].died = calls[i].died
  BY <1>3, <1>6, <1>8, <1>9
<1>11. Spending' = Spending
  BY <1>8, <1>10 DEF Spending
<1>12. CallsTypes'
  BY <1>0, <1>1, <1>2, <1>8 DEF CallsTypes, Places
<1>13. PlaceInv'
  BY <1>0, <1>1, <1>2, <1>3, <1>5, <1>6, <1>8 DEF PlaceInv
<1>14. OnTheBooks'
  <2>1. ASSUME NEW i \in DOMAIN calls', i # Len(calls)
        PROVE  IF calls'[i].row = NoRow THEN calls'[i].died
               ELSE /\ calls'[i].row.billed <=> Billed(calls'[i].reply)
                    /\ calls'[i].reply = "ok" => calls'[i].row.outcome = "ok"
    BY <1>0, <1>8, <2>1 DEF OnTheBooks
  <2>2. /\ calls'[Len(calls)].row # NoRow
        /\ calls'[Len(calls)].row.billed <=> Billed(calls'[Len(calls)].reply)
        /\ calls'[Len(calls)].reply = "ok" => calls'[Len(calls)].row.outcome = "ok"
    BY <1>4, <1>5, <1>6, <1>9
  <2> QED BY <2>1, <2>2 DEF OnTheBooks
<1>15. AgainInv'
  <2>1. Hopeless' = Hopeless
    BY <1>1 DEF Hopeless
  <2> QED BY <1>0, <1>1, <1>2, <1>3, <1>8, <1>10, <2>1 DEF AgainInv
<1>16. ThroughInv'
  <2>1. \A s \in 1..Len(handler.of.calls) : Open(s)' = Open(s)
    BY <1>1, <1>2, <1>6, <1>8 DEF Open
  <2> QED BY <1>0, <1>1, <1>8, <2>1 DEF ThroughInv
<1>17. SpentInv'
  <2>1. Unspent' = Unspent
    BY <1>1, <1>2, <1>6, <1>8 DEF Unspent
  <2> QED BY <1>0, <1>1, <1>11, <2>1 DEF SpentInv
<1>18. BannerInv'
  BY <1>1, <1>2, <1>3 DEF BannerInv
<1> QED BY <1>12, <1>13, <1>14, <1>15, <1>16, <1>17, <1>18 DEF CallsInv

LEMMA DiesKeeps ==
  ASSUME CallsInv, Dies
  PROVE  CallsInv'
<1>0. CallsTypes /\ PlaceInv /\ OnTheBooks /\ AgainInv /\ ThroughInv /\ SpentInv /\ BannerInv
  BY DEF CallsInv
<1>1. place.on # "idle" /\ EndsWith(FALSE, 1) /\ UNCHANGED <<handler, account, health>>
  BY DEF Dies
<1>2. /\ place' = Idle /\ place' \in Places /\ place'.on = "idle"
      /\ task' \in TaskRows /\ task'.status \in {"pending", "failed"}
      /\ task'.attempts = task.attempts /\ task'.deaths = task.deaths + 1
      /\ task.attempts \in Nat /\ task.deaths \in Nat /\ task.attempts <= MaxAttempts
      /\ task'.status = "pending" => task'.attempts < MaxAttempts
  BY <1>1, AttemptEnds
<1>3. task.status = "running" /\ Hopeless' = Hopeless
  BY <1>0, <1>1 DEF PlaceInv, Hopeless
<1>4. CASE place.on = "asks"
  <2>1. UNCHANGED <<handler, calls>>
    BY <1>1, <1>4 DEF Dies
  <2>2. LastCall' = LastCall /\ Spending' = Spending
        /\ \A s : Through(s)' = Through(s) /\ RefusedAfter(s)' = RefusedAfter(s)
    BY <2>1, SameCalls
  <2>3. CallsTypes' /\ PlaceInv'
    BY <1>0, <1>1, <1>2, <2>1, <2>2 DEF CallsTypes, PlaceInv, TaskRows, Places
  <2>4. OnTheBooks'
    BY <1>0, <1>2, <1>4, <2>1 DEF OnTheBooks
  <2>5. AgainInv'
    BY <1>0, <1>3, <1>4, <2>1 DEF AgainInv
  <2>6. ThroughInv'
    <3>1. \A s \in 1..Len(handler.of.calls) : ~ Open(s)'
      BY <1>2 DEF Open
    <3>2. \A s : Cardinality(Through(s)) \in Nat /\ Cardinality(RefusedAfter(s)) \in Nat
      BY <1>0, CallSetsAre
    <3>3. ASSUME NEW s \in 1..Len(handler.of.calls)
          PROVE  Cardinality(Through(s)) <= task.attempts + Cardinality(RefusedAfter(s))
      <4>1. Cardinality(Through(s)) + (IF Open(s) THEN 1 ELSE 0)
              <= task.attempts + Cardinality(RefusedAfter(s))
        BY <1>0 DEF ThroughInv
      <4> QED BY <1>2, <3>2, <4>1
    <3> QED BY <1>2, <2>1, <2>2, <3>1, <3>2, <3>3 DEF ThroughInv
  <2>7. SpentInv'
    <3>1. Unspent /\ ~ Unspent'
      BY <1>2, <1>4 DEF Unspent
    <3> QED BY <1>0, <1>1, <1>2, <1>3, <2>2, <3>1, CallSetsAre DEF SpentInv
  <2>8. BannerInv'
    BY <1>0, <1>1, <1>2, <1>3, <1>4, <2>1, <2>2 DEF BannerInv
  <2> QED BY <2>3, <2>4, <2>5, <2>6, <2>7, <2>8 DEF CallsInv
<1>5. CASE place.on # "asks"
  <2> DEFINE c == [LastCall EXCEPT !.died = TRUE]
             n == Len(calls)
  <2>1. calls # <<>> /\ LastCall = calls[n] /\ LastCall \in CallRows /\ n \in DOMAIN calls
        /\ LastCall.step = place.step /\ ~LastCall.died
    <3>1. place.on \in {"answered", "recorded", "noted", "parks"}
      BY <1>0, <1>1, <1>5 DEF CallsTypes
    <3> QED BY <1>0, <3>1, CallSetsAre DEF PlaceInv
  <2>2. calls' = [calls EXCEPT ![n].died = TRUE]
    BY <1>5 DEF Dies
  <2>3. c \in CallRows /\ c.step = LastCall.step /\ c.reply = LastCall.reply /\ c.row = LastCall.row
        /\ c.died = TRUE
    BY <2>1 DEF CallRows
  <2>4. calls' = [calls EXCEPT ![n] = c]
    BY <2>1, <2>2
  <2> HIDE DEF c
  <2>5. /\ calls' \in Seq(CallRows) /\ Len(calls') = n /\ DOMAIN calls' = DOMAIN calls
        /\ calls' # <<>> /\ LastCall' = c
        /\ \A i \in DOMAIN calls : i # n => calls'[i] = calls[i]
        /\ \A i \in DOMAIN calls : calls'[i].step = calls[i].step /\ calls'[i].reply = calls[i].reply
        /\ \A s : Through(s)' = Through(s) /\ RefusedAfter(s)' = RefusedAfter(s)
    BY <1>0, <2>1, <2>3, <2>4, RewrittenIs
  <2>6. calls'[n] = c
    BY <2>5 DEF LastCall
  <2> HIDE DEF n
  <2>7. CallsTypes' /\ PlaceInv'
    BY <1>0, <1>1, <1>2, <2>1, <2>5 DEF CallsTypes, PlaceInv, TaskRows, Places
  <2>8. OnTheBooks'
    <3>1. ASSUME NEW i \in DOMAIN calls', i # n
          PROVE  IF calls'[i].row = NoRow THEN calls'[i].died
                 ELSE /\ calls'[i].row.billed <=> Billed(calls'[i].reply)
                      /\ calls'[i].reply = "ok" => calls'[i].row.outcome = "ok"
      BY <1>0, <2>5, <3>1 DEF OnTheBooks, n
    <3>2. calls'[n].row # NoRow =>
            /\ calls'[n].row.billed <=> Billed(calls'[n].reply)
            /\ calls'[n].reply = "ok" => calls'[n].row.outcome = "ok"
      BY <1>0, <2>1, <2>3, <2>6 DEF OnTheBooks
    <3>3. calls'[n].died
      BY <2>3, <2>6
    <3> QED BY <3>1, <3>2, <3>3 DEF OnTheBooks
  <2>9. AgainInv'
    <3>1. ASSUME NEW i \in DOMAIN calls, i # n, calls[i].reply \in Hopeless
          PROVE  calls[i].died
      BY <1>0, <3>1 DEF AgainInv, n
    <3>2. calls'[n].died
      BY <2>3, <2>6
    <3> QED BY <1>3, <2>5, <3>1, <3>2 DEF AgainInv
  <2>10. ThroughInv'
    <3>1. \A s \in 1..Len(handler.of.calls) : ~ Open(s)'
      BY <1>2 DEF Open
    <3> QED BY <1>0, <1>1, <1>2, <2>5, <3>1, CallSetsAre DEF ThroughInv
  <2>11. SpentInv'
    <3>1. ~ Unspent' /\ (Unspent <=> LastCall.reply \in AccountBlocks \union {"ok"})
      BY <1>1, <1>2, <1>5 DEF Unspent
    <3>2. Spending' = Spending \ {n}
      <4>1. \A i \in DOMAIN calls : i # n => (i \in Spending' <=> i \in Spending)
        BY <2>5 DEF Spending
      <4>2. n \notin Spending'
        BY <2>3, <2>6 DEF Spending
      <4>3. Spending \subseteq DOMAIN calls /\ Spending' \subseteq DOMAIN calls
        BY <2>5 DEF Spending
      <4> QED BY <4>1, <4>2, <4>3
    <3>3. n \in Spending <=> LastCall.reply \notin AccountBlocks \union {"ok"}
      BY <2>1 DEF Spending
    <3>4. IsFiniteSet(Spending) /\ Cardinality(Spending) \in Nat
      BY <1>0, CallSetsAre
    <3>5. CASE n \in Spending
      <4>1. Cardinality(Spending') = Cardinality(Spending) - 1
        BY <3>2, <3>4, <3>5, FS_RemoveElement
      <4> QED BY <1>0, <1>1, <1>2, <1>3, <3>1, <3>3, <3>4, <3>5, <4>1 DEF SpentInv
    <3>6. CASE n \notin Spending
      <4>1. Spending' = Spending
        BY <3>2, <3>6
      <4> QED BY <1>0, <1>1, <1>2, <1>3, <3>1, <3>3, <3>4, <3>6, <4>1 DEF SpentInv
    <3> QED BY <3>5, <3>6
  <2>12. BannerInv'
    BY <1>2, <2>3, <2>5 DEF BannerInv
  <2> QED BY <2>7, <2>8, <2>9, <2>10, <2>11, <2>12 DEF CallsInv
<1> QED BY <1>4, <1>5

LEMMA CallsKeep ==
  ASSUME Priced, CallsInv, CallsNext \/ UNCHANGED callsVars
  PROVE  CallsInv'
<1>1. CASE CallsNext
  BY <1>1, ClaimKeeps, MissingKeeps, AskKeeps, RecordKeeps, NoteKeeps, SucceedsKeeps,
     MarkBlockedKeeps, ParkKeeps, FailsKeeps, DiesKeeps, AccountTurnsKeeps DEF CallsNext
<1>2. CASE UNCHANGED callsVars
  <2>1. UNCHANGED <<handler, task, place, calls, account, health>>
    BY <1>2 DEF callsVars
  <2>2. LastCall' = LastCall /\ Hopeless' = Hopeless /\ Spending' = Spending
        /\ \A s : Through(s)' = Through(s) /\ RefusedAfter(s)' = RefusedAfter(s)
    BY <2>1, SameCalls
  <2>3. Unspent' = Unspent /\ \A s : Open(s)' = Open(s)
    BY <2>1, <2>2 DEF Unspent, Open
  <2>4. CallsTypes' /\ PlaceInv' /\ OnTheBooks' /\ AgainInv' /\ BannerInv'
    BY <2>1, <2>2 DEF CallsInv, CallsTypes, PlaceInv, OnTheBooks, AgainInv, BannerInv
  <2>5. ThroughInv' /\ SpentInv'
    BY <2>1, <2>2, <2>3 DEF CallsInv, ThroughInv, SpentInv
  <2> QED BY <2>4, <2>5 DEF CallsInv
<1> QED BY <1>1, <1>2

LEMMA CallsSay ==
  ASSUME Priced, CallsInv
  PROVE  OnTheBooks /\ NotPaidAgain /\ AttemptsAreCounted /\ BannerIsTrue
<1>0. CallsTypes /\ PlaceInv /\ OnTheBooks /\ AgainInv /\ ThroughInv /\ SpentInv /\ BannerInv
  BY DEF CallsInv
<1>1. NotPaidAgain
  <2>1. \A n \in 1..(Len(calls) - 1) : n \in DOMAIN calls /\ n # Len(calls)
    <3>1. Len(calls) \in Nat /\ DOMAIN calls = 1..Len(calls)
      BY <1>0, CallSetsAre
    <3>2. \A m \in Nat : \A n \in 1..(m - 1) : n \in 1..m /\ n # m
      OBVIOUS
    <3> QED BY <3>1, <3>2
  <2> QED BY <1>0, <2>1 DEF AgainInv, NotPaidAgain
<1>2. AttemptsAreCounted
  <2>1. /\ task.attempts \in Nat /\ task.attempts <= MaxAttempts /\ MaxAttempts \in Nat
        /\ task.deaths \in Nat
        /\ Len(handler.of.calls) \in Nat
    BY <1>0, HandlersAre, CallsAssumption DEF CallsTypes, PlaceInv, HandlerIs
  <2>2. ASSUME NEW s \in DOMAIN handler.of.calls
        PROVE  Cardinality(Through(s)) <= MaxAttempts + Cardinality(RefusedAfter(s))
    <3>1. s \in 1..Len(handler.of.calls)
      BY <1>0, <2>2, HandlersAre DEF CallsTypes, HandlerIs
    <3>2. Cardinality(Through(s)) + (IF Open(s) THEN 1 ELSE 0)
            <= task.attempts + Cardinality(RefusedAfter(s))
      BY <1>0, <3>1 DEF ThroughInv
    <3> QED BY <1>0, <2>1, <3>2, CallSetsAre
  <2>3. ASSUME task.status \in {"pending", "failed"}, handler.missing = 0
        PROVE  task.attempts = task.deaths + Cardinality(Spending)
    <3>1. ~ Unspent /\ task.status # "done"
      BY <1>0, <2>3 DEF PlaceInv, Unspent
    <3> QED BY <1>0, <2>1, <2>3, <3>1, CallSetsAre DEF SpentInv
  <2> QED BY <2>1, <2>2, <2>3 DEF AttemptsAreCounted, Through, RefusedAfter, Spending
<1>3. BannerIsTrue
  <2>1. task.status = "pending" => place.on = "idle"
    BY <1>0 DEF PlaceInv
  <2> QED BY <1>0, <2>1 DEF BannerInv, BannerIsTrue
<1> QED BY <1>0, <1>1, <1>2, <1>3

\* Every call is on the books with what was paid for it, but for one whose reply a process
\* died with; what would come back the same way is not asked again; an attempt is used by a
\* death or by a failure that is not the account's, and by nothing else; and the banner says
\* what the last refusal said. For any number of attempts, of calls and of turns of the
\* account, in any of the handlers; of a model that has a price.
THEOREM CallsAccounted == ASSUME Priced PROVE VerdictsSpec => []CallsAreAccounted
<1>1. VerdictsInit => CallsInv
  BY CallsBegin DEF VerdictsInit, CallsIdle
<1>2. CallsInv /\ [VerdictsNext]_VerdictsVars => CallsInv'
  BY CallsKeep DEF VerdictsNext, VerdictsVars
<1>3. CallsInv => CallsAreAccounted
  BY CallsSay DEF CallsAreAccounted
<1> QED BY <1>1, <1>2, <1>3, PTL DEF VerdictsSpec

----------------------------------------------------------------------------
(* Answers (Fit). A fold over a list is a recursive function over the sets *)
(* of its positions: among those for which a claim about it fails there    *)
(* would be a least one.                                                   *)

LEMMA LeastSubset ==
  ASSUME NEW All, IsFiniteSet(All), NEW B \in SUBSET (SUBSET All), B # {}
  PROVE  \E T \in B : \A U \in B : U \subseteq T => U = T
<1>1. B \subseteq FiniteSubsetsOf(All)
  BY FS_Subset DEF FiniteSubsetsOf
<1>2. PICK T \in B : \A U \in B : <<U, T>> \notin StrictSubsetOrdering(All)
  BY <1>1, FS_StrictSubsetOrderingWellFounded, WFMin
<1> QED BY <1>1, <1>2 DEF StrictSubsetOrdering

\* Numbers, the lowest first.
Below(s, k) == {j \in s : j < k}

LEMMA BelowIs ==
  ASSUME NEW s \in SUBSET Nat, IsFiniteSet(s)
  PROVE  /\ Cardinality(s) \in Nat
         /\ \A k \in s : Cardinality(Below(s, k)) + 1 \in 1..Cardinality(s)
         /\ \A j, k \in s : j < k <=> Cardinality(Below(s, j)) < Cardinality(Below(s, k))
<1>1. Cardinality(s) \in Nat
  BY FS_CardinalityType
<1>2. ASSUME NEW k \in s
      PROVE  /\ IsFiniteSet(Below(s, k)) /\ Cardinality(Below(s, k)) \in Nat
             /\ Cardinality(Below(s, k)) < Cardinality(s)
  <2>1. Below(s, k) \in SUBSET s /\ k \notin Below(s, k)
    BY DEF Below
  <2>2. IsFiniteSet(Below(s, k)) /\ Cardinality(Below(s, k)) <= Cardinality(s)
        /\ Cardinality(Below(s, k)) \in Nat
    BY <2>1, FS_Subset, FS_CardinalityType
  <2>3. Cardinality(Below(s, k)) # Cardinality(s)
    BY <2>1, FS_Subset
  <2> QED BY <1>1, <2>2, <2>3
<1>3. ASSUME NEW j \in s, NEW k \in s, j < k
      PROVE  Cardinality(Below(s, j)) < Cardinality(Below(s, k))
  <2>1. Below(s, j) \in SUBSET Below(s, k) /\ j \in Below(s, k) /\ j \notin Below(s, j)
    <3>1. \A i \in s : i < j => i < k
      BY <1>3
    <3>2. ~ (j < j)
      OBVIOUS
    <3> QED BY <1>3, <3>1, <3>2 DEF Below
  <2>2. Cardinality(Below(s, j)) <= Cardinality(Below(s, k))
        /\ Cardinality(Below(s, j)) # Cardinality(Below(s, k))
    BY <1>2, <2>1, FS_Subset
  <2> QED BY <1>2, <2>2
<1>4. \A j, k \in s : j < k <=> Cardinality(Below(s, j)) < Cardinality(Below(s, k))
  <2> SUFFICES ASSUME NEW j \in s, NEW k \in s
               PROVE  j < k <=> Cardinality(Below(s, j)) < Cardinality(Below(s, k))
    OBVIOUS
  <2>1. j \in Nat /\ k \in Nat /\ Cardinality(Below(s, j)) \in Nat /\ Cardinality(Below(s, k)) \in Nat
    BY <1>2
  <2>2. j < k => Cardinality(Below(s, j)) < Cardinality(Below(s, k))
    BY <1>3
  <2>3. k < j => Cardinality(Below(s, k)) < Cardinality(Below(s, j))
    BY <1>3
  <2>4. j < k \/ j = k \/ k < j
    BY <2>1
  <2> QED BY <2>1, <2>2, <2>3, <2>4
<1>5. \A k \in s : Cardinality(Below(s, k)) + 1 \in 1..Cardinality(s)
  BY <1>1, <1>2
<1> QED BY <1>1, <1>4, <1>5

\* Each of them has its slot, and each slot is taken.
LEMMA InOrderIs ==
  ASSUME NEW s \in SUBSET Nat, IsFiniteSet(s)
  PROVE  /\ Cardinality(s) \in Nat
         /\ InOrder(s) \in [1..Cardinality(s) -> s]
         /\ \A n, m \in 1..Cardinality(s) : n < m => InOrder(s)[n] < InOrder(s)[m]
         /\ \A k \in s : \E n \in 1..Cardinality(s) : InOrder(s)[n] = k
<1> DEFINE size == Cardinality(s)
           slot == [k \in s |-> Cardinality(Below(s, k)) + 1]
<1>1. size \in Nat /\ slot \in [s -> 1..size]
  BY BelowIs
<1>2. \A j, k \in s : (j < k <=> slot[j] < slot[k]) /\ slot[j] \in Nat
  <2> SUFFICES ASSUME NEW j \in s, NEW k \in s
               PROVE  (j < k <=> slot[j] < slot[k]) /\ slot[j] \in Nat
    OBVIOUS
  <2>1. slot[j] = Cardinality(Below(s, j)) + 1 /\ slot[k] = Cardinality(Below(s, k)) + 1
    OBVIOUS
  <2>2. slot[j] \in Nat /\ slot[k] \in Nat
    BY <1>1
  <2>3. Cardinality(Below(s, j)) \in Nat /\ Cardinality(Below(s, k)) \in Nat
    BY FS_Subset, FS_CardinalityType DEF Below
  <2>4. j < k <=> Cardinality(Below(s, j)) < Cardinality(Below(s, k))
    BY BelowIs
  <2> HIDE DEF slot
  <2> QED BY <2>1, <2>2, <2>3, <2>4
<1>3. \A k \in s : slot[k] = Cardinality({j \in s : j < k}) + 1
  BY DEF Below
<1> HIDE DEF slot
<1>4. \A j, k \in s : slot[j] = slot[k] => j = k
  <2> SUFFICES ASSUME NEW j \in s, NEW k \in s, slot[j] = slot[k] PROVE j = k
    OBVIOUS
  <2>1. j \in Nat /\ k \in Nat /\ ~ (slot[j] < slot[k]) /\ ~ (slot[k] < slot[j])
    BY <1>2
  <2> QED BY <1>2, <2>1
<1>5. slot \in Surjection(s, 1..size)
  <2>1. slot \in Injection(s, 1..size)
    BY <1>1, <1>4 DEF Injection, IsInjective
  <2>2. IsFiniteSet(1..size) /\ Cardinality(1..size) = size
    BY <1>1, FS_Interval
  <2> HIDE DEF size
  <2> QED BY <2>1, <2>2, FS_Injection DEF size
<1>6. \A n \in 1..size : \E k \in s : slot[k] = n
  BY <1>5 DEF Surjection
<1>7. \A n \in 1..size : InOrder(s)[n] \in s /\ slot[InOrder(s)[n]] = n
  <2> SUFFICES ASSUME NEW n \in 1..size PROVE InOrder(s)[n] \in s /\ slot[InOrder(s)[n]] = n
    OBVIOUS
  <2>1. \E k \in s : Cardinality({j \in s : j < k}) + 1 = n
    BY <1>3, <1>6
  <2>2. InOrder(s)[n] = CHOOSE k \in s : Cardinality({j \in s : j < k}) + 1 = n
    BY DEF InOrder
  <2>3. InOrder(s)[n] \in s /\ Cardinality({j \in s : j < InOrder(s)[n]}) + 1 = n
    BY <2>1, <2>2
  <2> QED BY <1>3, <2>3
<1>8. InOrder(s) \in [1..size -> s]
  <2>1. InOrder(s) = [n \in 1..size |-> InOrder(s)[n]]
    BY DEF InOrder
  <2> QED BY <1>7, <2>1
<1>9. \A n, m \in 1..size : n < m => InOrder(s)[n] < InOrder(s)[m]
  BY <1>2, <1>7
<1>10. \A k \in s : slot[k] \in 1..size /\ InOrder(s)[slot[k]] = k
  BY <1>1, <1>4, <1>7
<1> QED BY <1>1, <1>8, <1>9, <1>10

\* The lowest, and the highest, of some.
LEMMA EndsAre ==
  ASSUME NEW s \in SUBSET Nat, IsFiniteSet(s), s # {}
  PROVE  /\ Min(s) \in s /\ \A k \in s : Min(s) <= k
         /\ Max(s) \in s /\ \A k \in s : Max(s) >= k
<1> DEFINE list == InOrder(s)
           size == Cardinality(s)
<1>1. /\ size \in Nat /\ list \in [1..size -> s]
      /\ \A n, m \in 1..size : n < m => list[n] < list[m]
      /\ \A k \in s : \E n \in 1..size : list[n] = k
  BY InOrderIs
<1> HIDE DEF list, size
<1>2. 1 \in 1..size /\ size \in 1..size
  <2>1. PICK k \in s : TRUE
    OBVIOUS
  <2>2. PICK n \in 1..size : list[n] = k
    BY <1>1
  <2>3. size >= 1
    BY <1>1, <2>2
  <2> QED BY <1>1, <2>3
<1>3. list[1] \in s /\ list[size] \in s
  BY <1>1, <1>2
<1>4. \A k \in s : list[1] <= k /\ list[size] >= k
  <2> SUFFICES ASSUME NEW k \in s PROVE list[1] <= k /\ list[size] >= k
    OBVIOUS
  <2>1. PICK n \in 1..size : list[n] = k
    BY <1>1
  <2>2. n = 1 \/ 1 < n
    OBVIOUS
  <2>3. n = size \/ n < size
    BY <1>1
  <2>4. k \in Nat /\ list[1] \in Nat /\ list[size] \in Nat
    BY <1>3
  <2> QED BY <1>1, <1>2, <2>1, <2>2, <2>3, <2>4
<1> QED BY <1>3, <1>4 DEF Min, Max

\* The positions of a list, and some of them: finitely many, and one is the last.
Positions(T) == T \in SUBSET Nat /\ IsFiniteSet(T)

LEMMA PositionsAre ==
  ASSUME NEW T, Positions(T)
  PROVE  \A x \in SUBSET T : /\ Positions(x) /\ IsFiniteSet(x)
                             /\ x # {} => /\ Max(x) \in x /\ Max(x) \in T /\ x \ {Max(x)} \in SUBSET T
                                          /\ x \ {Max(x)} # x /\ x \ {Max(x)} \subseteq x
<1> SUFFICES ASSUME NEW x \in SUBSET T
             PROVE  /\ Positions(x) /\ IsFiniteSet(x)
                    /\ x # {} => Max(x) \in x
  OBVIOUS
<1>1. Positions(x)
  BY FS_Subset DEF Positions
<1> QED BY <1>1, EndsAre DEF Positions

\* The sum of what is at some positions, all but the last first.
SumStep(w, g, x) == IF x = {} THEN 0 ELSE g[x \ {Max(x)}] + w[Max(x)]
IsSum(w, T, g) == g = [x \in SUBSET T |-> SumStep(w, g, x)]

LEMMA SumIsFold ==
  ASSUME NEW w
  PROVE  Sum(w) = (CHOOSE g : IsSum(w, DOMAIN w, g))[DOMAIN w]
BY DEF Sum, FoldLeft, MapThenFoldSet, IsSum, SumStep

LEMMA SumMeets ==
  ASSUME NEW w, NEW v, NEW T, Positions(T), NEW U \in SUBSET T, NEW g, NEW h,
         \A k \in U : w[k] = v[k], IsSum(w, T, g), IsSum(v, U, h)
  PROVE  \A x \in SUBSET U : g[x] = h[x]
<1> DEFINE B == {x \in SUBSET U : g[x] # h[x]}
<1> SUFFICES ASSUME B # {} PROVE FALSE
  OBVIOUS
<1>1. IsFiniteSet(U) /\ Positions(U) /\ B \in SUBSET (SUBSET U)
  BY PositionsAre
<1> HIDE DEF B
<1>2. PICK x \in B : \A r \in B : r \subseteq x => r = x
  BY <1>1, LeastSubset
<1>3. x \in SUBSET U /\ x \in SUBSET T /\ g[x] # h[x]
  BY DEF B
<1>4. g[x] = SumStep(w, g, x) /\ h[x] = SumStep(v, h, x)
  BY <1>3 DEF IsSum
<1>5. CASE x = {}
  BY <1>3, <1>4, <1>5 DEF SumStep
<1>6. CASE x # {}
  <2>1. x \ {Max(x)} \in SUBSET U /\ x \ {Max(x)} \subseteq x /\ x \ {Max(x)} # x
        /\ Max(x) \in U
    BY <1>1, <1>3, <1>6, PositionsAre
  <2>2. x \ {Max(x)} \notin B
    BY <1>2, <2>1
  <2>3. g[x \ {Max(x)}] = h[x \ {Max(x)}]
    BY <2>1, <2>2 DEF B
  <2> QED BY <1>3, <1>4, <1>6, <2>3 DEF SumStep
<1> QED BY <1>5, <1>6

LEMMA SumExists ==
  ASSUME NEW w, NEW All, Positions(All)
  PROVE  \E g : IsSum(w, All, g)
<1> DEFINE B == {T \in SUBSET All : ~ \E g : IsSum(w, T, g)}
<1> SUFFICES ASSUME B # {} PROVE FALSE
  OBVIOUS
<1>0. B \in SUBSET (SUBSET All) /\ IsFiniteSet(All)
  BY DEF Positions
<1>1. PICK T \in B : \A U \in B : U \subseteq T => U = T
  <2> HIDE DEF B
  <2> QED BY <1>0, LeastSubset
<1>2. T \in SUBSET All /\ ~ (\E g : IsSum(w, T, g)) /\ Positions(T)
  BY PositionsAre
<1>3. \A U \in SUBSET T : U # T => \E g : IsSum(w, U, g)
  BY <1>1, <1>2
<1> HIDE DEF B
<1> DEFINE G(U) == CHOOSE g : IsSum(w, U, g)
           h == [x \in SUBSET T |-> IF x = {} THEN 0
                   ELSE G(x \ {Max(x)})[x \ {Max(x)}] + w[Max(x)]]
<1>4. \A U \in SUBSET T : U # T => IsSum(w, U, G(U))
  BY <1>3
<1> HIDE DEF G
<1>5. ASSUME NEW V \in SUBSET T, V # T
      PROVE  h[V] = G(V)[V]
  <2>1. IsSum(w, V, G(V)) /\ Positions(V)
    BY <1>2, <1>4, <1>5, PositionsAre
  <2>2. G(V)[V] = SumStep(w, G(V), V)
    BY <2>1 DEF IsSum
  <2>3. CASE V = {}
    BY <2>2, <2>3 DEF SumStep
  <2>4. CASE V # {}
    <3> DEFINE W == V \ {Max(V)}
    <3>1. Max(V) \in V
      BY <2>1, <2>4, PositionsAre
    <3>2. W \in SUBSET V /\ W \in SUBSET T /\ W # T
      BY <1>5, <3>1
    <3>3. IsSum(w, W, G(W))
      BY <1>4, <3>2
    <3>4. h[V] = G(W)[W] + w[Max(V)]
      BY <2>4
    <3>5. G(V)[V] = G(V)[W] + w[Max(V)]
      BY <2>2, <2>4 DEF SumStep
    <3> HIDE DEF W, h
    <3>6. G(V)[W] = G(W)[W]
      <4> DEFINE gV == G(V)
                 gW == G(W)
      <4>1. IsSum(w, V, gV) /\ IsSum(w, W, gW)
        BY <2>1, <3>3
      <4> HIDE DEF gV, gW
      <4>2. \A x \in SUBSET W : gV[x] = gW[x]
        <5>1. \A k \in W : w[k] = w[k]
          OBVIOUS
        <5>2. Positions(V) /\ W \in SUBSET V
          BY <2>1, <3>2
        <5> HIDE DEF IsSum
        <5> QED BY <4>1, <5>1, <5>2, SumMeets
      <4>3. gV[W] = gW[W]
        BY <4>2
      <4> QED BY <4>3 DEF gV, gW
    <3> QED BY <3>4, <3>5, <3>6
  <2> QED BY <2>3, <2>4
<1>6. \A x \in SUBSET T : x # {} => h[x \ {Max(x)}] = G(x \ {Max(x)})[x \ {Max(x)}]
  <2> SUFFICES ASSUME NEW x \in SUBSET T, x # {}
               PROVE  h[x \ {Max(x)}] = G(x \ {Max(x)})[x \ {Max(x)}]
    OBVIOUS
  <2>1. Max(x) \in x
    BY <1>2, PositionsAre
  <2>2. x \ {Max(x)} \in SUBSET T /\ x \ {Max(x)} # T
    BY <2>1
  <2> HIDE DEF h
  <2> QED BY <1>5, <2>2
<1>7. IsSum(w, T, h)
  <2>1. \A x \in SUBSET T : h[x] = SumStep(w, h, x)
    <3> SUFFICES ASSUME NEW x \in SUBSET T PROVE h[x] = SumStep(w, h, x)
      OBVIOUS
    <3>1. h[x] = IF x = {} THEN 0 ELSE G(x \ {Max(x)})[x \ {Max(x)}] + w[Max(x)]
      OBVIOUS
    <3> HIDE DEF h
    <3> QED BY <1>6, <3>1 DEF SumStep
  <2>2. h = [x \in SUBSET T |-> h[x]]
    OBVIOUS
  <2> HIDE DEF h
  <2> QED BY <2>1, <2>2 DEF IsSum
<1> HIDE DEF h
<1> QED BY <1>2, <1>7

\* A sum of naturals is one; a list that is nowhere more than another sums up to no
\* more, and one nowhere more than its double to no more than the double.
LEMMA SumsAre ==
  ASSUME NEW n \in Nat, NEW v \in [1..n -> Nat], NEW w \in [1..n -> Nat]
  PROVE  /\ Sum(v) \in Nat /\ Sum(w) \in Nat
         /\ (\A i \in 1..n : v[i] <= w[i]) => Sum(v) <= Sum(w)
         /\ (\A i \in 1..n : v[i] <= 2 * w[i]) => Sum(v) <= 2 * Sum(w)
<1> DEFINE T == 1..n
           g == CHOOSE sum : IsSum(v, T, sum)
           h == CHOOSE sum : IsSum(w, T, sum)
<1>1. Positions(T)
  BY FS_Interval DEF Positions
<1>2. Sum(v) = g[T] /\ Sum(w) = h[T]
  BY SumIsFold
<1>3. IsSum(v, T, g) /\ IsSum(w, T, h)
  BY <1>1, SumExists
<1>0. \A i \in T : v[i] \in Nat /\ w[i] \in Nat
  OBVIOUS
<1> HIDE DEF g, h, T
<1>4. \A x \in SUBSET T : g[x] = SumStep(v, g, x) /\ h[x] = SumStep(w, h, x)
  BY <1>3 DEF IsSum
<1>5. \A x \in SUBSET T : x # {} => /\ Max(x) \in T /\ x \ {Max(x)} \in SUBSET T
                                    /\ x \ {Max(x)} # x /\ x \ {Max(x)} \subseteq x
  BY <1>1, PositionsAre
<1> DEFINE Holds(x) ==
      /\ g[x] \in Nat /\ h[x] \in Nat
      /\ (\A i \in T : v[i] <= w[i]) => g[x] <= h[x]
      /\ (\A i \in T : v[i] <= 2 * w[i]) => g[x] <= 2 * h[x]
<1>6. \A x \in SUBSET T : Holds(x)
  <2> DEFINE B == {x \in SUBSET T : ~ Holds(x)}
  <2> SUFFICES ASSUME B # {} PROVE FALSE
    OBVIOUS
  <2>0. B \in SUBSET (SUBSET T) /\ IsFiniteSet(T)
    BY <1>1 DEF Positions
  <2>1. \A x \in SUBSET T : x \in B <=> ~ Holds(x)
    OBVIOUS
  <2> HIDE DEF B
  <2>2. PICK x \in B : \A r \in B : r \subseteq x => r = x
    BY <2>0, LeastSubset
  <2>3. x \in SUBSET T
    BY <2>0
  <2>4. CASE x = {}
    <3>1. g[x] = 0 /\ h[x] = 0
      BY <1>4, <2>3, <2>4 DEF SumStep
    <3> QED BY <2>1, <2>3, <3>1
  <2>5. CASE x # {}
    <3> DEFINE y == x \ {Max(x)}
               i == Max(x)
    <3>1. y \in SUBSET T /\ y \notin B /\ i \in T
      BY <1>5, <2>2, <2>3, <2>5
    <3>2. g[x] = g[y] + v[i] /\ h[x] = h[y] + w[i]
      BY <1>4, <2>3, <2>5 DEF SumStep
    <3> HIDE DEF y, i
    <3>3. Holds(y)
      BY <2>1, <3>1
    <3>4. v[i] \in Nat /\ w[i] \in Nat
      BY <1>0, <3>1
    <3>5. g[y] \in Nat /\ h[y] \in Nat
      BY <3>3
    <3>6. (\A k \in T : v[k] <= w[k]) => g[x] <= h[x]
      <4> SUFFICES ASSUME \A k \in T : v[k] <= w[k] PROVE g[x] <= h[x]
        OBVIOUS
      <4>1. g[y] <= h[y] /\ v[i] <= w[i]
        BY <3>1, <3>3
      <4> HIDE DEF Holds
      <4> QED BY <3>2, <3>4, <3>5, <4>1
    <3>7. (\A k \in T : v[k] <= 2 * w[k]) => g[x] <= 2 * h[x]
      <4> SUFFICES ASSUME \A k \in T : v[k] <= 2 * w[k] PROVE g[x] <= 2 * h[x]
        OBVIOUS
      <4>1. g[y] <= 2 * h[y] /\ v[i] <= 2 * w[i]
        BY <3>1, <3>3
      <4> HIDE DEF Holds
      <4> QED BY <3>2, <3>4, <3>5, <4>1
    <3>8. Holds(x)
      <4>1. g[x] \in Nat /\ h[x] \in Nat
        <5> HIDE DEF Holds
        <5> QED BY <3>2, <3>4, <3>5
      <4> QED BY <3>6, <3>7, <4>1
    <3> QED BY <2>1, <2>3, <3>8
  <2> QED BY <2>4, <2>5
<1>7. Holds(T)
  BY <1>6
<1> QED BY <1>2, <1>7 DEF T

\* Rounding: to within half of the divisor, and never the other way round.
LEMMA TimesIs ==
  ASSUME NEW a \in Int, NEW b \in Int, NEW d \in Nat, a <= b
  PROVE  a * d \in Int /\ b * d \in Int /\ a * d <= b * d /\ (a + 1) * d = a * d + d
<1>1. a * d \in Int /\ b * d \in Int /\ (b - a) * d \in Int
  OBVIOUS
<1>2. b - a \in Nat
  OBVIOUS
<1>3. \A c \in Nat : c * d >= 0
  OBVIOUS
<1>4. (b - a) * d = b * d - a * d /\ (a + 1) * d = a * d + d
  OBVIOUS
<1>5. (b - a) * d >= 0
  BY <1>2, <1>3
<1> QED BY <1>1, <1>4, <1>5

LEMMA RoundIs ==
  ASSUME NEW n \in Nat, NEW d \in Nat \ {0}
  PROVE  /\ Round(n, d) \in Nat
         /\ 2 * (Round(n, d) * d) <= 2 * n + d /\ 2 * n - d <= 2 * (Round(n, d) * d)
         /\ \E q, m \in Nat : /\ n = q * d + m /\ m < d
                              /\ Round(n, d) = IF 2 * m > d \/ (2 * m = d /\ q % 2 = 1)
                                               THEN q + 1 ELSE q
<1> DEFINE q == n \div d
           m == n % d
<1>1. q \in Nat /\ m \in Nat /\ m < d /\ n = q * d + m
  OBVIOUS
<1>2. Round(n, d) = IF 2 * m > d \/ (2 * m = d /\ q % 2 = 1) THEN q + 1 ELSE q
  BY DEF Round
<1> HIDE DEF q, m
<1>3. Round(n, d) \in Nat
  BY <1>1, <1>2
<1>4. q * d \in Nat /\ (q + 1) * d = q * d + d
  BY <1>1
<1>5. 2 * (Round(n, d) * d) <= 2 * n + d /\ 2 * n - d <= 2 * (Round(n, d) * d)
  <2>1. CASE Round(n, d) = q + 1
    <3>1. 2 * m >= d
      BY <1>1, <1>2, <2>1
    <3>2. Round(n, d) * d = q * d + d
      BY <1>4, <2>1
    <3> DEFINE p == q * d
    <3>3. p \in Nat /\ n = p + m /\ Round(n, d) * d = p + d
      BY <1>1, <1>4, <3>2
    <3> HIDE DEF p
    <3> QED BY <1>1, <3>1, <3>3
  <2>2. CASE Round(n, d) = q
    <3>1. 2 * m <= d
      BY <1>1, <1>2, <2>2
    <3> DEFINE p == q * d
    <3>3. p \in Nat /\ n = p + m /\ Round(n, d) * d = p
      BY <1>1, <1>4, <2>2
    <3> HIDE DEF p
    <3> QED BY <1>1, <3>1, <3>3
  <2> QED BY <1>2, <2>1, <2>2
<1> QED BY <1>1, <1>2, <1>3, <1>5

LEMMA RoundKeepsOrder ==
  ASSUME NEW d \in Nat \ {0}, NEW n \in Nat, NEW k \in Nat, n <= k
  PROVE  Round(n, d) <= Round(k, d)
<1>1. PICK q \in Nat, m \in Nat : /\ n = q * d + m /\ m < d
                                  /\ Round(n, d) = IF 2 * m > d \/ (2 * m = d /\ q % 2 = 1)
                                                   THEN q + 1 ELSE q
  BY RoundIs
<1>2. PICK r \in Nat, l \in Nat : /\ k = r * d + l /\ l < d
                                  /\ Round(k, d) = IF 2 * l > d \/ (2 * l = d /\ r % 2 = 1)
                                                   THEN r + 1 ELSE r
  BY RoundIs
<1>3. CASE q = r
  <2> DEFINE p == q * d
  <2>1. p \in Nat /\ n = p + m /\ k = p + l
    BY <1>1, <1>2, <1>3
  <2> HIDE DEF p
  <2>2. m <= l
    BY <2>1
  <2> QED BY <1>1, <1>2, <1>3, <2>2
<1>4. CASE q < r
  BY <1>1, <1>2, <1>4
<1>5. CASE r < q
  <2>1. (r + 1) * d <= q * d /\ (r + 1) * d = r * d + d /\ r * d \in Int /\ q * d \in Int
    <3>1. r + 1 \in Int /\ q \in Int /\ d \in Nat /\ r + 1 <= q /\ r <= r /\ r \in Int
      BY <1>5
    <3> QED BY <3>1, TimesIs
  <2> DEFINE p == q * d
             o == r * d
  <2>2. p \in Int /\ o \in Int /\ o + d <= p /\ n = p + m /\ k = o + l
    BY <1>1, <1>2, <2>1
  <2> HIDE DEF p, o
  <2> QED BY <1>1, <1>2, <2>2
<1> QED BY <1>3, <1>4, <1>5

\* The share of a weight, on a scale of ten.
LEMMA ShareIs ==
  ASSUME NEW weight \in Nat \ {0}, NEW earned \in Nat, earned <= 2 * weight
  PROVE  LET score == MinScore + Round(earned * (MaxScore - MinScore), 2 * weight)
             off == (score - MinScore) * 2 * weight - (MaxScore - MinScore) * earned
         IN /\ score \in MinScore..MaxScore
            /\ off \in -weight..weight
<1> DEFINE d == 2 * weight
           n == earned * 9
           round == Round(n, d)
<1>1. d \in Nat \ {0} /\ n \in Nat /\ n <= 9 * d
  OBVIOUS
<1> HIDE DEF d, n
<1>2. round \in Nat /\ 2 * (round * d) <= 2 * n + d /\ 2 * n - d <= 2 * (round * d)
  BY <1>1, RoundIs
<1> HIDE DEF round
<1>3. round * d \in Int
  BY <1>1, <1>2
<1>4. round <= 9
  <2> SUFFICES ASSUME 10 <= round PROVE FALSE
    BY <1>2
  <2>1. 10 * d <= round * d
    BY <1>1, <1>2, TimesIs
  <2> DEFINE p == round * d
  <2>2. p \in Int /\ 10 * d <= p /\ 2 * p <= 2 * n + d
    BY <1>2, <1>3, <2>1
  <2> HIDE DEF p
  <2> QED BY <1>1, <2>2
<1>5. earned * (MaxScore - MinScore) = n /\ (MaxScore - MinScore) * earned = n
  BY DEF MaxScore, MinScore, n
<1>6. MinScore + round \in MinScore..MaxScore /\ (MinScore + round) - MinScore = round
  BY <1>2, <1>4 DEF MaxScore, MinScore
<1>7. round * 2 * weight = round * d
  BY <1>2 DEF d
<1>8. round * d - n \in -weight..weight
  <2> DEFINE p == round * d
  <2>1. p \in Int /\ 2 * p <= 2 * n + d /\ 2 * n - d <= 2 * p
    BY <1>2, <1>3
  <2> HIDE DEF p
  <2>2. p - n \in -weight..weight
    BY <1>1, <2>1 DEF d
  <2> QED BY <2>2 DEF p
<1>9. round = Round(earned * (MaxScore - MinScore), 2 * weight)
  BY <1>5 DEF round, d
<1> QED BY <1>5, <1>6, <1>7, <1>8, <1>9

JudgedConstraints == Seq([stance : Stances, verdict : FitVerdict])
JudgedObjectives  == Seq([rank : Nat, verdict : FitVerdict])
WeighedItems      == Seq([weight : Nat, verdict : FitVerdict])

LEMMA SeqIs ==
  ASSUME NEW S, NEW s \in Seq(S)
  PROVE  /\ Len(s) \in Nat /\ DOMAIN s = 1..Len(s)
         /\ \A n \in 1..Len(s) : s[n] \in S
OBVIOUS

LEMMA SeqMadeIs ==
  ASSUME NEW S, NEW k \in Nat, NEW f \in [1..k -> S]
  PROVE  f \in Seq(S) /\ Len(f) = k
OBVIOUS

LEMMA JudgedIs ==
  /\ \A c \in JudgedConstraints :
       /\ Len(c) \in Nat /\ DOMAIN c = 1..Len(c)
       /\ \A n \in 1..Len(c) : c[n] = [stance |-> c[n].stance, verdict |-> c[n].verdict]
                              /\ c[n].stance \in Stances /\ c[n].verdict \in FitVerdict
  /\ \A o \in JudgedObjectives :
       /\ Len(o) \in Nat /\ DOMAIN o = 1..Len(o)
       /\ \A n \in 1..Len(o) : o[n] = [rank |-> o[n].rank, verdict |-> o[n].verdict]
                              /\ o[n].rank \in Nat /\ o[n].verdict \in FitVerdict
  /\ \A x \in WeighedItems :
       /\ Len(x) \in Nat /\ DOMAIN x = 1..Len(x)
       /\ \A n \in 1..Len(x) : x[n].weight \in Nat /\ x[n].verdict \in FitVerdict
<1> DEFINE C == [stance : Stances, verdict : FitVerdict]
           O == [rank : Nat, verdict : FitVerdict]
           W == [weight : Nat, verdict : FitVerdict]
<1>1. /\ \A x \in C : x = [stance |-> x.stance, verdict |-> x.verdict] /\ x.stance \in Stances /\ x.verdict \in FitVerdict
      /\ \A x \in O : x = [rank |-> x.rank, verdict |-> x.verdict] /\ x.rank \in Nat /\ x.verdict \in FitVerdict
      /\ \A x \in W : x.weight \in Nat /\ x.verdict \in FitVerdict
  OBVIOUS
<1>2. JudgedConstraints = Seq(C) /\ JudgedObjectives = Seq(O) /\ WeighedItems = Seq(W)
  BY DEF JudgedConstraints, JudgedObjectives, WeighedItems
<1> HIDE DEF C, O, W
<1>3. \A x \in Seq(C) : Len(x) \in Nat /\ DOMAIN x = 1..Len(x) /\ \A n \in 1..Len(x) : x[n] \in C
  BY SeqIs
<1>4. \A x \in Seq(O) : Len(x) \in Nat /\ DOMAIN x = 1..Len(x) /\ \A n \in 1..Len(x) : x[n] \in O
  BY SeqIs
<1>5. \A x \in Seq(W) : Len(x) \in Nat /\ DOMAIN x = 1..Len(x) /\ \A n \in 1..Len(x) : x[n] \in W
  BY SeqIs
<1> QED BY <1>1, <1>2, <1>3, <1>4, <1>5

LEMMA ItemsAre ==
  ASSUME NEW c \in JudgedConstraints, NEW o \in JudgedObjectives
  PROVE  /\ Items(c, o) \in WeighedItems
         /\ Len(Items(c, o)) = Len(c) + Len(o) /\ Len(c) \in Nat /\ Len(o) \in Nat
         /\ \A n \in 1..Len(c) : /\ Items(c, o)[n].weight = StanceWeight[c[n].stance]
                                 /\ Items(c, o)[n].verdict = c[n].verdict
         /\ \A n \in 1..Len(o) : /\ Items(c, o)[Len(c) + n].weight = RankWeight(o[n].rank)
                                 /\ Items(c, o)[Len(c) + n].verdict = o[n].verdict
<1> DEFINE One == [weight : Nat, verdict : FitVerdict]
           A == [n \in DOMAIN c |-> [weight |-> StanceWeight[c[n].stance], verdict |-> c[n].verdict]]
           B == [n \in DOMAIN o |-> [weight |-> RankWeight(o[n].rank), verdict |-> o[n].verdict]]
<1>1. /\ Len(c) \in Nat /\ DOMAIN c = 1..Len(c) /\ \A n \in 1..Len(c) : c[n].stance \in Stances /\ c[n].verdict \in FitVerdict
      /\ Len(o) \in Nat /\ DOMAIN o = 1..Len(o) /\ \A n \in 1..Len(o) : o[n].verdict \in FitVerdict
  BY JudgedIs
<1>2. \A s \in Stances : StanceWeight[s] \in Nat
  BY DEF Stances, StanceWeight
<1>3. \A r : RankWeight(r) \in Nat
  BY DEF RankWeight
<1>4. A \in Seq(One) /\ Len(A) = Len(c)
  <2>1. \A n \in 1..Len(c) : [weight |-> StanceWeight[c[n].stance], verdict |-> c[n].verdict] \in One
    BY <1>1, <1>2
  <2> HIDE DEF One
  <2> QED BY <1>1, <2>1
<1>5. B \in Seq(One) /\ Len(B) = Len(o)
  <2>1. \A n \in 1..Len(o) : [weight |-> RankWeight(o[n].rank), verdict |-> o[n].verdict] \in One
    BY <1>1, <1>3
  <2> HIDE DEF One
  <2> QED BY <1>1, <2>1
<1>6. \A n \in 1..Len(c) : A[n].weight = StanceWeight[c[n].stance] /\ A[n].verdict = c[n].verdict
  BY <1>1
<1>7. \A n \in 1..Len(o) : B[n].weight = RankWeight(o[n].rank) /\ B[n].verdict = o[n].verdict
  BY <1>1
<1>8. Items(c, o) = A \o B
  BY DEF Items
<1> HIDE DEF A, B, One
<1>9. /\ A \o B \in Seq(One) /\ Len(A \o B) = Len(A) + Len(B)
      /\ \A n \in 1..Len(A) : (A \o B)[n] = A[n]
      /\ \A n \in 1..Len(B) : (A \o B)[Len(A) + n] = B[n]
  BY <1>4, <1>5
<1>10. \A n \in 1..Len(c) : /\ (A \o B)[n].weight = StanceWeight[c[n].stance]
                              /\ (A \o B)[n].verdict = c[n].verdict
  <2> SUFFICES ASSUME NEW n \in 1..Len(c)
               PROVE  /\ (A \o B)[n].weight = StanceWeight[c[n].stance]
                      /\ (A \o B)[n].verdict = c[n].verdict
    OBVIOUS
  <2>1. (A \o B)[n] = A[n]
    BY <1>4, <1>9
  <2> QED BY <1>6, <2>1
<1>11. \A n \in 1..Len(o) : /\ (A \o B)[Len(c) + n].weight = RankWeight(o[n].rank)
                              /\ (A \o B)[Len(c) + n].verdict = o[n].verdict
  <2> SUFFICES ASSUME NEW n \in 1..Len(o)
               PROVE  /\ (A \o B)[Len(c) + n].weight = RankWeight(o[n].rank)
                      /\ (A \o B)[Len(c) + n].verdict = o[n].verdict
    OBVIOUS
  <2>1. (A \o B)[Len(c) + n] = B[n]
    BY <1>4, <1>5, <1>9
  <2> QED BY <1>7, <2>1
<1>12. A \o B \in WeighedItems /\ Len(A \o B) = Len(c) + Len(o)
  BY <1>4, <1>5, <1>9 DEF WeighedItems, One
<1> QED BY <1>1, <1>8, <1>10, <1>11, <1>12

\* What all of it weighs, and earns: no more than all of it could.
LEMMA WeightIs ==
  ASSUME NEW items \in WeighedItems
  PROVE  Weight(items) \in Nat /\ Earns(items) \in Nat /\ Earns(items) <= 2 * Weight(items)
<1> DEFINE L == Len(items)
           w == [n \in DOMAIN items |-> items[n].weight]
           e == [n \in DOMAIN items |-> items[n].weight * Credit[items[n].verdict]]
<1>1. L \in Nat /\ DOMAIN items = 1..L /\ \A n \in 1..L : items[n].weight \in Nat /\ items[n].verdict \in FitVerdict
  BY JudgedIs
<1>2. \A v \in FitVerdict : Credit[v] \in 0..2
  BY DEF FitVerdict, Credit
<1>3. \A x \in Nat : \A v \in FitVerdict : x * Credit[v] \in Nat /\ x * Credit[v] <= 2 * x
  <2> SUFFICES ASSUME NEW x \in Nat, NEW v \in FitVerdict
               PROVE  x * Credit[v] \in Nat /\ x * Credit[v] <= 2 * x
    OBVIOUS
  <2>1. Credit[v] = 0 \/ Credit[v] = 1 \/ Credit[v] = 2
    BY <1>2
  <2> QED BY <2>1
<1>4. w \in [1..L -> Nat] /\ e \in [1..L -> Nat]
  BY <1>1, <1>3
<1>5. \A n \in 1..L : e[n] <= 2 * w[n]
  BY <1>1, <1>3
<1>6. Weight(items) = Sum(w) /\ Earns(items) = Sum(e)
  BY DEF Weight, Earns
<1> HIDE DEF w, e, L
<1> QED BY <1>1, <1>4, <1>5, <1>6, SumsAre

\* One thing found evidenced weighs the same, and earns no less.
LEMMA LiftedIs ==
  ASSUME NEW items \in WeighedItems, NEW lifted \in WeighedItems, Len(lifted) = Len(items),
         \A n \in 1..Len(items) : /\ lifted[n].weight = items[n].weight
                                  /\ lifted[n].verdict \in {items[n].verdict, "evidenced"}
  PROVE  Weight(lifted) = Weight(items) /\ Earns(items) <= Earns(lifted)
<1> DEFINE L == Len(items)
           v == [n \in DOMAIN items |-> items[n].weight]
           w == [n \in DOMAIN lifted |-> lifted[n].weight]
           e == [n \in DOMAIN items |-> items[n].weight * Credit[items[n].verdict]]
           f == [n \in DOMAIN lifted |-> lifted[n].weight * Credit[lifted[n].verdict]]
<1>1. L \in Nat /\ DOMAIN items = 1..L /\ \A n \in 1..L : items[n].weight \in Nat /\ items[n].verdict \in FitVerdict
  BY JudgedIs
<1>2. DOMAIN lifted = 1..L /\ \A n \in 1..L : lifted[n].weight \in Nat /\ lifted[n].verdict \in FitVerdict
  BY JudgedIs
<1>3. \A x \in FitVerdict : Credit[x] \in 0..2 /\ Credit["evidenced"] = 2
  BY DEF FitVerdict, Credit
<1>4. \A x \in Nat : \A y, z \in FitVerdict : z \in {y, "evidenced"} =>
        x * Credit[y] \in Nat /\ x * Credit[z] \in Nat /\ x * Credit[y] <= x * Credit[z]
  <2> SUFFICES ASSUME NEW x \in Nat, NEW y \in FitVerdict, NEW z \in FitVerdict, z \in {y, "evidenced"}
               PROVE  x * Credit[y] \in Nat /\ x * Credit[z] \in Nat /\ x * Credit[y] <= x * Credit[z]
    OBVIOUS
  <2>1. Credit[y] = 0 \/ Credit[y] = 1 \/ Credit[y] = 2
    BY <1>3
  <2>2. Credit[z] = Credit[y] \/ Credit[z] = 2
    BY <1>3
  <2> QED BY <2>1, <2>2
<1>5. v = w
  BY <1>1, <1>2
<1>6. e \in [1..L -> Nat] /\ f \in [1..L -> Nat]
  BY <1>1, <1>2, <1>4
<1>7. \A n \in 1..L : e[n] <= f[n]
  BY <1>1, <1>2, <1>4
<1>8. Weight(items) = Sum(v) /\ Weight(lifted) = Sum(w) /\ Earns(items) = Sum(e) /\ Earns(lifted) = Sum(f)
  BY DEF Weight, Earns
<1> HIDE DEF v, w, e, f, L
<1> QED BY <1>1, <1>5, <1>6, <1>7, <1>8, SumsAre

\* The number, from what weighs and what earns.
ScoreOf(items) == MinScore + Round(Earns(items) * (MaxScore - MinScore), 2 * Weight(items))

LEMMA BasisIs ==
  ASSUME NEW c \in JudgedConstraints, NEW o \in JudgedObjectives
  PROVE  LET weight == Weight(Items(c, o))
             earned == Earns(Items(c, o))
             score  == ScoreOf(Items(c, o))
             off(n) == (n - MinScore) * 2 * weight - (MaxScore - MinScore) * earned
         IN /\ weight \in Nat /\ earned \in Nat /\ earned <= 2 * weight
            /\ Basis(c, o).breaches = Cardinality(Breaches(c))
            /\ weight = 0 => Basis(c, o).score = Nothing
            /\ weight # 0 => /\ score \in MinScore..MaxScore
                             /\ off(score) \in -weight..weight
                             /\ Basis(c, o).score = IF Breaches(c) = {} THEN score
                                                    ELSE IF score <= BreachCeiling THEN score ELSE BreachCeiling
<1> DEFINE items == Items(c, o)
           weight == Weight(items)
           earned == Earns(items)
           score == ScoreOf(items)
<1>1. weight \in Nat /\ earned \in Nat /\ earned <= 2 * weight
  BY ItemsAre, WeightIs
<1>2. /\ Basis(c, o).breaches = Cardinality(Breaches(c))
      /\ Basis(c, o).score = IF weight = 0 THEN Nothing
                             ELSE IF Cardinality(Breaches(c)) > 0 THEN Min({score, BreachCeiling}) ELSE score
  BY DEF Basis, ScoreOf
<1>3. Breaches(c) = {} <=> ~ (Cardinality(Breaches(c)) > 0)
  <2>1. Breaches(c) \in SUBSET (1..Len(c)) /\ IsFiniteSet(1..Len(c))
    <3>1. DOMAIN c = 1..Len(c) /\ Len(c) \in Nat
      BY DEF JudgedConstraints
    <3> QED BY <3>1, FS_Interval DEF Breaches
  <2>2. IsFiniteSet(Breaches(c)) /\ Cardinality(Breaches(c)) \in Nat
    BY <2>1, FS_Subset, FS_CardinalityType
  <2> QED BY <2>2, FS_EmptySet
<1>4. ASSUME weight # 0
      PROVE  /\ score \in MinScore..MaxScore
             /\ (score - MinScore) * 2 * weight - (MaxScore - MinScore) * earned \in -weight..weight
  <2> HIDE DEF weight, earned
  <2>1. score = MinScore + Round(earned * (MaxScore - MinScore), 2 * weight)
    BY DEF ScoreOf, weight, earned
  <2> HIDE DEF score
  <2> QED BY <1>1, <1>4, <2>1, ShareIs
<1>5. \A n \in Int : Min({n, BreachCeiling}) = IF n <= BreachCeiling THEN n ELSE BreachCeiling
  BY DEF Min, BreachCeiling
<1>6. weight # 0 => score \in Int
  BY <1>4 DEF MinScore, MaxScore
<1> HIDE DEF items, weight, earned, score
<1>7. weight # 0 => Min({score, BreachCeiling}) = IF score <= BreachCeiling THEN score ELSE BreachCeiling
  BY <1>5, <1>6
<1>8. /\ weight = 0 => Basis(c, o).score = Nothing
      /\ weight # 0 => Basis(c, o).score = IF Breaches(c) = {} THEN score
                                           ELSE IF score <= BreachCeiling THEN score ELSE BreachCeiling
  BY <1>2, <1>3, <1>7
<1> QED BY <1>1, <1>2, <1>4, <1>8 DEF items, weight, earned, score

\* More of it evidenced does not lower the number.
LEMMA LiftedBasis ==
  ASSUME NEW c \in JudgedConstraints, NEW o \in JudgedObjectives,
         NEW d \in JudgedConstraints, NEW p \in JudgedObjectives, Len(d) = Len(c), Len(p) = Len(o),
         \A n \in 1..Len(c) : d[n].stance = c[n].stance /\ d[n].verdict \in {c[n].verdict, "evidenced"},
         \A n \in 1..Len(o) : p[n].rank = o[n].rank /\ p[n].verdict \in {o[n].verdict, "evidenced"},
         Weight(Items(c, o)) # 0
  PROVE  Basis(d, p).score >= Basis(c, o).score
<1> DEFINE items == Items(c, o)
           lifted == Items(d, p)
<1>1. /\ items \in WeighedItems /\ lifted \in WeighedItems /\ Len(lifted) = Len(items)
      /\ Len(items) = Len(c) + Len(o) /\ Len(c) \in Nat /\ Len(o) \in Nat
  BY ItemsAre
<1>2. ASSUME NEW n \in 1..Len(c)
      PROVE  lifted[n].weight = items[n].weight /\ lifted[n].verdict \in {items[n].verdict, "evidenced"}
  <2>1. items[n].weight = StanceWeight[c[n].stance] /\ items[n].verdict = c[n].verdict
    BY ItemsAre
  <2>2. lifted[n].weight = StanceWeight[d[n].stance] /\ lifted[n].verdict = d[n].verdict
    BY ItemsAre
  <2> QED BY <2>1, <2>2
<1>3. ASSUME NEW n \in 1..Len(o)
      PROVE  /\ lifted[Len(c) + n].weight = items[Len(c) + n].weight
             /\ lifted[Len(c) + n].verdict \in {items[Len(c) + n].verdict, "evidenced"}
  <2>1. items[Len(c) + n].weight = RankWeight(o[n].rank) /\ items[Len(c) + n].verdict = o[n].verdict
    BY ItemsAre
  <2>2. lifted[Len(c) + n].weight = RankWeight(p[n].rank) /\ lifted[Len(c) + n].verdict = p[n].verdict
    BY ItemsAre
  <2> QED BY <2>1, <2>2
<1> HIDE DEF items, lifted
<1>4. \A n \in 1..Len(items) : lifted[n].weight = items[n].weight /\ lifted[n].verdict \in {items[n].verdict, "evidenced"}
  <2> SUFFICES ASSUME NEW n \in 1..Len(items)
               PROVE  lifted[n].weight = items[n].weight /\ lifted[n].verdict \in {items[n].verdict, "evidenced"}
    OBVIOUS
  <2>1. CASE n \in 1..Len(c)
    BY <1>2, <2>1
  <2>2. CASE n \notin 1..Len(c)
    <3>1. n - Len(c) \in 1..Len(o) /\ Len(c) + (n - Len(c)) = n
      BY <1>1, <2>2
    <3> QED BY <1>3, <3>1
  <2> QED BY <2>1, <2>2
<1>5. Weight(lifted) = Weight(items) /\ Earns(items) <= Earns(lifted)
  BY <1>1, <1>4, LiftedIs
<1>6. Weight(items) \in Nat \ {0} /\ Earns(items) \in Nat /\ Earns(lifted) \in Nat
  BY <1>1, WeightIs DEF items
<1>7. ScoreOf(items) <= ScoreOf(lifted)
  <2> DEFINE n == Earns(items) * (MaxScore - MinScore)
             k == Earns(lifted) * (MaxScore - MinScore)
             e == 2 * Weight(items)
  <2>1. n \in Nat /\ k \in Nat /\ n <= k /\ e \in Nat \ {0}
    BY <1>5, <1>6 DEF MaxScore, MinScore
  <2>2. ScoreOf(items) = MinScore + Round(n, e) /\ ScoreOf(lifted) = MinScore + Round(k, e)
    BY <1>5 DEF ScoreOf
  <2> HIDE DEF n, k, e
  <2>3. Round(n, e) <= Round(k, e) /\ Round(n, e) \in Nat /\ Round(k, e) \in Nat
    BY <2>1, RoundKeepsOrder, RoundIs
  <2> QED BY <2>2, <2>3 DEF MinScore
<1>8. Breaches(c) = {} => Breaches(d) = {}
  <2>1. DOMAIN c = 1..Len(c) /\ DOMAIN d = 1..Len(c)
    BY DEF JudgedConstraints
  <2> QED BY <2>1 DEF Breaches
<1>9. /\ ScoreOf(items) \in MinScore..MaxScore /\ ScoreOf(lifted) \in MinScore..MaxScore
      /\ Basis(c, o).score = IF Breaches(c) = {} THEN ScoreOf(items)
                             ELSE IF ScoreOf(items) <= BreachCeiling THEN ScoreOf(items) ELSE BreachCeiling
      /\ Basis(d, p).score = IF Breaches(d) = {} THEN ScoreOf(lifted)
                             ELSE IF ScoreOf(lifted) <= BreachCeiling THEN ScoreOf(lifted) ELSE BreachCeiling
  BY <1>5, <1>6, BasisIs DEF items, lifted
<1>10. ScoreOf(items) \in Int /\ ScoreOf(lifted) \in Int
  BY <1>9 DEF MinScore, MaxScore
<1> QED BY <1>7, <1>8, <1>9, <1>10 DEF BreachCeiling

\* What an answer is made of, and the profile it is of.
Mentioned == Seq([number : Int, verdict : FitVerdict])
Levered   == Seq([number : Int, to : Int])
IsAnswer(a) == /\ a.of = "score" /\ a.could \in Int /\ a.levers \in Levered
               /\ a.constraints \in Mentioned /\ a.objectives \in Mentioned
IsProfile(p) == /\ p.constraints \in Seq(Stances)
                /\ p.objectives \in SUBSET Nat /\ IsFiniteSet(p.objectives)
                /\ p.capabilities \in Seq(Capabilities) /\ p.facts \in Nat

LEMMA UpTo ==
  ASSUME NEW k \in Nat, NEW s \in SUBSET (1..k)
  PROVE  IsFiniteSet(s) /\ s \in SUBSET Nat
<1>1. 1 \in Int /\ k \in Int /\ 1..k \in SUBSET Nat
  OBVIOUS
<1>2. IsFiniteSet(1..k)
  BY <1>1, FS_Interval
<1> QED BY <1>1, <1>2, FS_Subset

LEMMA MentionedIs ==
  /\ \A x \in Mentioned : /\ Len(x) \in Nat /\ DOMAIN x = 1..Len(x)
                          /\ \A n \in 1..Len(x) : /\ x[n] = [number |-> x[n].number, verdict |-> x[n].verdict]
                                                  /\ x[n].number \in Int /\ x[n].verdict \in FitVerdict
  /\ \A x \in Levered : /\ Len(x) \in Nat /\ DOMAIN x = 1..Len(x)
                        /\ \A n \in 1..Len(x) : x[n].number \in Int /\ x[n].to \in Int
<1> DEFINE C == [number : Int, verdict : FitVerdict]
           O == [number : Int, to : Int]
<1>1. /\ \A x \in C : x = [number |-> x.number, verdict |-> x.verdict] /\ x.number \in Int /\ x.verdict \in FitVerdict
      /\ \A x \in O : x.number \in Int /\ x.to \in Int
  OBVIOUS
<1>2. Mentioned = Seq(C) /\ Levered = Seq(O)
  BY DEF Mentioned, Levered
<1> HIDE DEF C, O
<1>3. \A x \in Seq(C) : Len(x) \in Nat /\ DOMAIN x = 1..Len(x) /\ \A n \in 1..Len(x) : x[n] \in C
  BY SeqIs
<1>4. \A x \in Seq(O) : Len(x) \in Nat /\ DOMAIN x = 1..Len(x) /\ \A n \in 1..Len(x) : x[n] \in O
  BY SeqIs
<1> QED BY <1>1, <1>2, <1>3, <1>4

LEMMA SeqOfIs ==
  ASSUME NEW S, NEW T, S \subseteq T, NEW k \in Nat
  PROVE  SeqOf(S, k) \subseteq Seq(T)
<1> SUFFICES ASSUME NEW x \in SeqOf(S, k) PROVE x \in Seq(T)
  OBVIOUS
<1>1. PICK m \in 0..k : x \in [1..m -> S]
  BY DEF SeqOf
<1>2. m \in Nat /\ x \in [1..m -> T]
  BY <1>1
<1> QED BY <1>2, SeqMadeIs

LEMMA ProfilesAre == \A p \in Profiles : IsProfile(p)
<1> SUFFICES ASSUME NEW p \in Profiles PROVE IsProfile(p)
  OBVIOUS
<1>1. /\ p.constraints \in UNION {[1..n -> Stances] : n \in 0..MaxConstraints}
      /\ p.objectives \in SUBSET Slots /\ p.capabilities \in SeqOf(Capabilities, 2) /\ p.facts \in 0..1
  BY DEF Profiles
<1>2. p.constraints \in Seq(Stances)
  <2>1. PICK m \in 0..MaxConstraints : p.constraints \in [1..m -> Stances]
    BY <1>1
  <2>2. m \in Nat
    BY FitAssumption
  <2> QED BY <2>1, <2>2, SeqMadeIs
<1>3. p.objectives \in SUBSET Nat /\ IsFiniteSet(p.objectives)
  BY <1>1, FitAssumption, FS_Subset
<1>4. p.capabilities \in Seq(Capabilities)
  BY <1>1, SeqOfIs
<1> QED BY <1>1, <1>2, <1>3, <1>4 DEF IsProfile

LEMMA ClearedIs == Cleared \in Profiles
<1>1. <<>> \in UNION {[1..n -> Stances] : n \in 0..MaxConstraints}
  <2>1. 0 \in 0..MaxConstraints /\ <<>> \in [1..0 -> Stances]
    BY FitAssumption
  <2> QED BY <2>1
<1>2. <<>> \in SeqOf(Capabilities, 2)
  <2>1. 0 \in 0..2 /\ <<>> \in [1..0 -> Capabilities]
    OBVIOUS
  <2> QED BY <2>1 DEF SeqOf
<1> QED BY <1>1, <1>2 DEF Cleared, Profiles

LEMMA EmptyIs == <<>> \in Mentioned /\ <<>> \in Levered
BY DEF Mentioned, Levered

\* The first mention of a number, if there is one.
LEMMA VerdictOfIs ==
  ASSUME NEW mentions \in Mentioned, NEW number
  PROVE  /\ VerdictOf(mentions, number) \in FitVerdict
         /\ VerdictOf(mentions, number) # "silent" =>
              \E m \in DOMAIN mentions :
                mentions[m] = [number |-> number, verdict |-> VerdictOf(mentions, number)]
<1> DEFINE about == {m \in DOMAIN mentions : mentions[m].number = number}
<1>1. VerdictOf(mentions, number) = IF about = {} THEN "silent" ELSE mentions[Min(about)].verdict
  BY DEF VerdictOf
<1>2. about \in SUBSET (1..Len(mentions)) /\ Len(mentions) \in Nat /\ DOMAIN mentions = 1..Len(mentions)
  BY MentionedIs
<1>3. about # {} => Min(about) \in about
  <2>1. IsFiniteSet(about) /\ about \in SUBSET Nat
    BY <1>2, UpTo
  <2> HIDE DEF about
  <2> QED BY <2>1, EndsAre
<1>4. CASE about = {}
  BY <1>1, <1>4 DEF FitVerdict
<1>5. CASE about # {}
  <2> DEFINE m == Min(about)
  <2>1. m \in DOMAIN mentions /\ mentions[m].number = number
    BY <1>3, <1>5
  <2>2. VerdictOf(mentions, number) = mentions[m].verdict
    BY <1>1, <1>5
  <2> HIDE DEF m, about
  <2>3. mentions[m] = [number |-> mentions[m].number, verdict |-> mentions[m].verdict] /\ mentions[m].verdict \in FitVerdict
    BY <1>2, <2>1, MentionedIs
  <2> QED BY <2>1, <2>2, <2>3
<1> QED BY <1>4, <1>5

LEMMA ConstraintVerdictsAre ==
  ASSUME NEW constraints \in Seq(Stances), NEW mentions \in Mentioned
  PROVE  LET c == ConstraintVerdicts(constraints, mentions)
         IN /\ c \in JudgedConstraints /\ DOMAIN c = DOMAIN constraints
            /\ \A n \in DOMAIN c : /\ c[n].stance = constraints[n]
                                   /\ c[n].verdict = VerdictOf(mentions, n)
<1> DEFINE c == ConstraintVerdicts(constraints, mentions)
           C == [stance : Stances, verdict : FitVerdict]
<1>1. Len(constraints) \in Nat /\ DOMAIN constraints = 1..Len(constraints)
      /\ \A n \in 1..Len(constraints) : constraints[n] \in Stances
  BY SeqIs
<1>2. c = [n \in 1..Len(constraints) |-> [stance |-> constraints[n], verdict |-> VerdictOf(mentions, n)]]
  BY <1>1 DEF ConstraintVerdicts
<1>3. \A n \in 1..Len(constraints) : [stance |-> constraints[n], verdict |-> VerdictOf(mentions, n)] \in C
  BY <1>1, VerdictOfIs
<1> HIDE DEF c, C
<1>4. c \in [1..Len(constraints) -> C]
  BY <1>2, <1>3
<1>5. c \in Seq(C)
  BY <1>1, <1>4, SeqMadeIs
<1>6. \A n \in 1..Len(constraints) : c[n].stance = constraints[n] /\ c[n].verdict = VerdictOf(mentions, n)
  BY <1>2
<1> QED BY <1>1, <1>4, <1>5, <1>6 DEF JudgedConstraints, c, C

LEMMA ObjectiveVerdictsAre ==
  ASSUME NEW objectives \in SUBSET Nat, IsFiniteSet(objectives), NEW mentions \in Mentioned
  PROVE  LET o == ObjectiveVerdicts(objectives, mentions)
         IN /\ o \in JudgedObjectives
            /\ {o[n].rank : n \in DOMAIN o} = objectives
            /\ \A n, m \in DOMAIN o : n < m => o[n].rank < o[m].rank
            /\ \A n \in DOMAIN o : o[n].verdict = VerdictOf(mentions, o[n].rank)
<1> DEFINE o == ObjectiveVerdicts(objectives, mentions)
           ranked == InOrder(objectives)
           size == Cardinality(objectives)
           O == [rank : Nat, verdict : FitVerdict]
<1>1. /\ size \in Nat /\ ranked \in [1..size -> objectives]
      /\ \A n, m \in 1..size : n < m => ranked[n] < ranked[m]
      /\ \A k \in objectives : \E n \in 1..size : ranked[n] = k
  BY InOrderIs
<1>2. o = [n \in DOMAIN ranked |-> [rank |-> ranked[n], verdict |-> VerdictOf(mentions, ranked[n])]]
  BY DEF ObjectiveVerdicts
<1> HIDE DEF o, ranked, size
<1>3. \A n \in 1..size : [rank |-> ranked[n], verdict |-> VerdictOf(mentions, ranked[n])] \in O
  <2>1. \A n \in 1..size : ranked[n] \in Nat
    BY <1>1
  <2> QED BY <2>1, VerdictOfIs
<1> HIDE DEF O
<1>4. DOMAIN ranked = 1..size
  BY <1>1
<1>5. o \in [1..size -> O]
  BY <1>2, <1>3, <1>4
<1>6. o \in Seq(O)
  BY <1>1, <1>5, SeqMadeIs
<1>7. \A n \in 1..size : o[n].rank = ranked[n] /\ o[n].verdict = VerdictOf(mentions, ranked[n])
  BY <1>2, <1>4
<1>8. DOMAIN o = 1..size
  BY <1>5
<1>9. {o[n].rank : n \in 1..size} = objectives
  BY <1>1, <1>7
<1>10. \A n, m \in 1..size : n < m => o[n].rank < o[m].rank
  BY <1>1, <1>7
<1>11. \A n \in 1..size : o[n].verdict = VerdictOf(mentions, o[n].rank)
  BY <1>7
<1> QED BY <1>6, <1>8, <1>9, <1>10, <1>11 DEF JudgedObjectives, o, O

LEMMA ClaimedAre ==
  ASSUME NEW p, IsProfile(p)
  PROVE  \A n \in DOMAIN ClaimedItems(p) :
           ClaimedItems(p)[n].tier # "absent" /\ ~ClaimedItems(p)[n].evidence
<1> DEFINE rated == p.capabilities
           bare == {n \in DOMAIN rated : rated[n].tier # "absent" /\ ~rated[n].evidence}
           claimed == InOrder(bare)
           size == Cardinality(bare)
           A == [n \in DOMAIN claimed |-> rated[claimed[n]]]
           B == [n \in 1..p.facts |-> Fact]
           Item == {x \in Capabilities \union {Fact} : x.tier # "absent" /\ ~x.evidence}
<1>1. rated \in Seq(Capabilities) /\ p.facts \in Nat
  BY DEF IsProfile
<1>2. Len(rated) \in Nat /\ DOMAIN rated = 1..Len(rated) /\ \A n \in 1..Len(rated) : rated[n] \in Capabilities
  <2> HIDE DEF rated
  <2> QED BY <1>1, SeqIs
<1>3. bare \in SUBSET Nat /\ IsFiniteSet(bare)
  <2> HIDE DEF rated
  <2>1. bare \in SUBSET (1..Len(rated)) /\ 1..Len(rated) \in SUBSET Nat
    BY <1>2
  <2> HIDE DEF bare
  <2> QED BY <1>2, <2>1, UpTo
<1>4. ClaimedItems(p) = A \o B
  BY DEF ClaimedItems
<1>5. \A k \in bare : rated[k] \in Item
  <2> HIDE DEF rated
  <2> QED BY <1>2
<1>6. Fact \in Item
  BY DEF Fact
<1> HIDE DEF rated, bare, claimed
<1>7. size \in Nat /\ claimed \in [1..size -> bare]
  BY <1>3, InOrderIs DEF claimed
<1>8. \A x \in Item : x.tier # "absent" /\ ~x.evidence
  OBVIOUS
<1> HIDE DEF size, Item
<1>9. A \in [1..size -> Item] /\ B \in [1..p.facts -> Item]
  BY <1>5, <1>6, <1>7
<1> HIDE DEF A, B
<1>10. A \in Seq(Item) /\ B \in Seq(Item)
  BY <1>1, <1>7, <1>9, SeqMadeIs
<1>11. A \o B \in Seq(Item)
  BY <1>10
<1>12. \A n \in DOMAIN (A \o B) : (A \o B)[n] \in Item
  BY <1>11, SeqIs
<1> QED BY <1>4, <1>8, <1>12

LEMMA LeversAre ==
  ASSUME NEW mentions \in Levered, NEW claims, NEW could \in Int
  PROVE  LET l == Levers(mentions, claims, could)
         IN /\ \A n \in DOMAIN l : /\ l[n].claim \in DOMAIN claims
                                   /\ l[n].to # Nothing => l[n].to > could
            /\ \A n, m \in DOMAIN l : l[n].claim = l[m].claim => n = m
<1> DEFINE l == Levers(mentions, claims, could)
           first == {n \in DOMAIN mentions :
                       /\ mentions[n].number \in DOMAIN claims
                       /\ \A m \in 1..(n - 1) : mentions[m].number # mentions[n].number}
           kept == InOrder(first)
           size == Cardinality(first)
           moves == (could + 1)..MaxScore
<1>1. l = [n \in DOMAIN kept |->
             [claim |-> mentions[kept[n]].number,
              to |-> IF mentions[kept[n]].to \in moves THEN mentions[kept[n]].to ELSE Nothing]]
  BY DEF Levers
<1>2. Len(mentions) \in Nat /\ DOMAIN mentions = 1..Len(mentions)
  BY MentionedIs
<1>3. first \in SUBSET Nat /\ IsFiniteSet(first)
  <2>1. first \in SUBSET (1..Len(mentions)) /\ 1..Len(mentions) \in SUBSET Nat
    BY <1>2
  <2> HIDE DEF first
  <2> QED BY <1>2, <2>1, UpTo
<1>4. /\ \A k \in first : mentions[k].number \in DOMAIN claims
      /\ \A j, k \in first : mentions[j].number = mentions[k].number => j = k
  <2>1. \A j, k \in first : j < k => mentions[j].number # mentions[k].number
    <3> SUFFICES ASSUME NEW j \in first, NEW k \in first, j < k
                 PROVE  mentions[j].number # mentions[k].number
      OBVIOUS
    <3>1. j \in Nat /\ k \in Nat /\ j >= 1
      BY <1>2
    <3>2. j \in 1..(k - 1)
      BY <3>1
    <3> QED BY <3>2
  <2>2. \A j, k \in first : j < k \/ k < j \/ j = k
    BY <1>3
  <2>3. \A k \in first : mentions[k].number \in DOMAIN claims
    OBVIOUS
  <2> HIDE DEF first
  <2> QED BY <2>1, <2>2, <2>3
<1> HIDE DEF l, first, moves
<1>5. /\ size \in Nat /\ kept \in [1..size -> first]
      /\ \A n, m \in 1..size : n < m => kept[n] < kept[m]
  BY <1>3, InOrderIs
<1> HIDE DEF size, kept
<1>6. \A n, m \in 1..size : kept[n] = kept[m] => n = m
  <2> SUFFICES ASSUME NEW n \in 1..size, NEW m \in 1..size, kept[n] = kept[m] PROVE n = m
    OBVIOUS
  <2>1. n \in Int /\ m \in Int /\ kept[n] \in Nat
    <3>1. kept[n] \in first
      BY <1>5
    <3>2. kept[n] \in Nat
      BY <1>3, <3>1
    <3>3. \A k \in 1..size : k \in Int
      BY <1>5
    <3> QED BY <3>2, <3>3
  <2>2. ~ (n < m) /\ ~ (m < n)
    BY <1>5, <2>1
  <2> QED BY <2>1, <2>2
<1>7. DOMAIN kept = 1..size /\ \A n \in 1..size : kept[n] \in first
  BY <1>5
<1>8. DOMAIN l = 1..size
  BY <1>1, <1>7
<1>9. \A n \in 1..size :
        /\ l[n].claim = mentions[kept[n]].number
        /\ l[n].to = IF mentions[kept[n]].to \in moves THEN mentions[kept[n]].to ELSE Nothing
  BY <1>1, <1>7
<1>10. \A x \in moves : x > could
  BY DEF moves
<1>11. \A n \in 1..size : /\ l[n].claim \in DOMAIN claims
                          /\ l[n].to # Nothing => l[n].to > could
  BY <1>4, <1>7, <1>9, <1>10
<1>12. \A n, m \in 1..size : l[n].claim = l[m].claim => n = m
  BY <1>4, <1>6, <1>7, <1>9
<1> QED BY <1>8, <1>11, <1>12 DEF l

LEMMA AnswersAre ==
  ASSUME NEW p, IsProfile(p), NEW a \in VerdictAnswers(p) \union LeverAnswers(p)
  PROVE  IsAnswer(a)
<1>1. \A s \in SUBSET Int : Mentions(s) \subseteq Mentioned
  <2> SUFFICES ASSUME NEW s \in SUBSET Int PROVE Mentions(s) \subseteq Mentioned
    OBVIOUS
  <2>1. [number : s, verdict : FitVerdict] \subseteq [number : Int, verdict : FitVerdict]
    OBVIOUS
  <2> QED BY <2>1, SeqOfIs, FitAssumption DEF Mentions, Mentioned
<1>2. \A s \in SUBSET Int : SeqOf([number : s, to : Could], MaxMentions) \subseteq Levered
  <2> SUFFICES ASSUME NEW s \in SUBSET Int PROVE SeqOf([number : s, to : Could], MaxMentions) \subseteq Levered
    OBVIOUS
  <2>1. [number : s, to : Could] \subseteq [number : Int, to : Int]
    BY FitAssumption
  <2> QED BY <2>1, SeqOfIs, FitAssumption DEF Levered
<1>3. CASE a \in VerdictAnswers(p)
  <2> DEFINE S == Mentions(0..Len(p.constraints))
             T == Mentions(p.objectives \union {1})
             R(c, o) == [of |-> "score", could |-> MinScore, constraints |-> c, objectives |-> o, levers |-> <<>>]
  <2>0. VerdictAnswers(p) = {R(c, o) : c \in S, o \in T}
    BY DEF VerdictAnswers
  <2> HIDE DEF S, T
  <2>1. PICK c \in S, o \in T : a = R(c, o)
    <3> HIDE DEF R
    <3> QED BY <1>3, <2>0
  <2>2. 0..Len(p.constraints) \in SUBSET Int /\ p.objectives \union {1} \in SUBSET Int
    BY DEF IsProfile
  <2>3. c \in Mentioned /\ o \in Mentioned
    BY <1>1, <2>2 DEF S, T
  <2> QED BY <2>1, <2>3, EmptyIs DEF IsAnswer, MinScore
<1>4. CASE a \in LeverAnswers(p)
  <2> DEFINE T == SeqOf([number : 0..(Len(ClaimedItems(p)) + 1), to : Could], MaxMentions)
             R(could, l) ==
               [of |-> "score", could |-> could, constraints |-> <<>>, objectives |-> <<>>, levers |-> l]
  <2>0. LeverAnswers(p) = {R(could, l) : could \in Could, l \in T}
    BY DEF LeverAnswers
  <2> HIDE DEF T
  <2>1. PICK could \in Could, l \in T : a = R(could, l)
    <3> HIDE DEF R
    <3> QED BY <1>4, <2>0
  <2>2. 0..(Len(ClaimedItems(p)) + 1) \in SUBSET Int /\ could \in Int
    BY FitAssumption
  <2>3. l \in Levered
    BY <1>2, <2>1, <2>2 DEF T
  <2> QED BY <2>1, <2>2, <2>3, EmptyIs DEF IsAnswer
<1> QED BY <1>3, <1>4

\* A number over the ceiling comes down to it, and no further than the verdicts allow.
LEMMA CeilingIs ==
  ASSUME NEW score \in Int, NEW weight \in Nat \ {0}, NEW earned \in Nat, score > BreachCeiling,
         (score - MinScore) * 2 * weight - (MaxScore - MinScore) * earned <= weight
  PROVE  (BreachCeiling - MinScore) * 2 * weight - (MaxScore - MinScore) * earned < 0
<1> DEFINE b == (score - MinScore) * 2
<1>1. b \in Int /\ 4 <= b
  BY DEF BreachCeiling, MinScore
<1>2. b * weight - 9 * earned <= weight
  BY DEF MinScore, MaxScore
<1> HIDE DEF b
<1>3. 4 * weight <= b * weight /\ b * weight \in Int
  BY <1>1, TimesIs
<1>4. 2 * weight - 9 * earned < 0
  BY <1>2, <1>3
<1> QED BY <1>4 DEF BreachCeiling, MinScore, MaxScore

Raised(s, n) == [s EXCEPT ![n].verdict = "evidenced"]

LEMMA RaisedIs ==
  /\ \A c \in JudgedConstraints : \A n \in DOMAIN c :
       /\ Raised(c, n) \in JudgedConstraints /\ Len(Raised(c, n)) = Len(c)
       /\ \A m \in 1..Len(c) : /\ Raised(c, n)[m].stance = c[m].stance
                               /\ Raised(c, n)[m].verdict \in {c[m].verdict, "evidenced"}
  /\ \A o \in JudgedObjectives : \A n \in DOMAIN o :
       /\ Raised(o, n) \in JudgedObjectives /\ Len(Raised(o, n)) = Len(o)
       /\ \A m \in 1..Len(o) : /\ Raised(o, n)[m].rank = o[m].rank
                               /\ Raised(o, n)[m].verdict \in {o[m].verdict, "evidenced"}
<1>1. ASSUME NEW c \in JudgedConstraints, NEW n \in DOMAIN c
      PROVE  /\ Raised(c, n) \in JudgedConstraints /\ Len(Raised(c, n)) = Len(c)
             /\ \A m \in 1..Len(c) : /\ Raised(c, n)[m].stance = c[m].stance
                                     /\ Raised(c, n)[m].verdict \in {c[m].verdict, "evidenced"}
  <2> DEFINE C == [stance : Stances, verdict : FitVerdict]
             new == [stance |-> c[n].stance, verdict |-> "evidenced"]
             d == [m \in 1..Len(c) |-> IF m = n THEN new ELSE c[m]]
  <2>1. /\ Len(c) \in Nat /\ DOMAIN c = 1..Len(c)
        /\ \A m \in 1..Len(c) : c[m] = [stance |-> c[m].stance, verdict |-> c[m].verdict]
                                /\ c[m].stance \in Stances /\ c[m].verdict \in FitVerdict
    BY JudgedIs
  <2>2. [c[n] EXCEPT !.verdict = "evidenced"] = new
    BY <2>1
  <2>3. Raised(c, n) = d
    BY <2>1, <2>2 DEF Raised
  <2>4. new \in C /\ new.stance = c[n].stance /\ new.verdict = "evidenced"
    BY <2>1 DEF FitVerdict
  <2>5. \A m \in 1..Len(c) : c[m] \in C
    BY <2>1
  <2> HIDE DEF C, new
  <2>6. d \in [1..Len(c) -> C]
    BY <2>4, <2>5
  <2>7. \A m \in 1..Len(c) : d[m] = IF m = n THEN new ELSE c[m]
    OBVIOUS
  <2> HIDE DEF d
  <2>8. d \in Seq(C) /\ Len(d) = Len(c)
    BY <2>1, <2>6, SeqMadeIs
  <2>9. \A m \in 1..Len(c) : d[m].stance = c[m].stance /\ d[m].verdict \in {c[m].verdict, "evidenced"}
    BY <2>4, <2>7
  <2> QED BY <2>3, <2>8, <2>9 DEF JudgedConstraints, C
<1>2. ASSUME NEW o \in JudgedObjectives, NEW n \in DOMAIN o
      PROVE  /\ Raised(o, n) \in JudgedObjectives /\ Len(Raised(o, n)) = Len(o)
             /\ \A m \in 1..Len(o) : /\ Raised(o, n)[m].rank = o[m].rank
                                     /\ Raised(o, n)[m].verdict \in {o[m].verdict, "evidenced"}
  <2> DEFINE O == [rank : Nat, verdict : FitVerdict]
             new == [rank |-> o[n].rank, verdict |-> "evidenced"]
             d == [m \in 1..Len(o) |-> IF m = n THEN new ELSE o[m]]
  <2>1. /\ Len(o) \in Nat /\ DOMAIN o = 1..Len(o)
        /\ \A m \in 1..Len(o) : o[m] = [rank |-> o[m].rank, verdict |-> o[m].verdict]
                                /\ o[m].rank \in Nat /\ o[m].verdict \in FitVerdict
    BY JudgedIs
  <2>2. [o[n] EXCEPT !.verdict = "evidenced"] = new
    BY <2>1
  <2>3. Raised(o, n) = d
    BY <2>1, <2>2 DEF Raised
  <2>4. new \in O /\ new.rank = o[n].rank /\ new.verdict = "evidenced"
    BY <2>1 DEF FitVerdict
  <2>5. \A m \in 1..Len(o) : o[m] \in O
    BY <2>1
  <2> HIDE DEF O, new
  <2>6. d \in [1..Len(o) -> O]
    BY <2>4, <2>5
  <2>7. \A m \in 1..Len(o) : d[m] = IF m = n THEN new ELSE o[m]
    OBVIOUS
  <2> HIDE DEF d
  <2>8. d \in Seq(O) /\ Len(d) = Len(o)
    BY <2>1, <2>6, SeqMadeIs
  <2>9. \A m \in 1..Len(o) : d[m].rank = o[m].rank /\ d[m].verdict \in {o[m].verdict, "evidenced"}
    BY <2>4, <2>7
  <2> QED BY <2>3, <2>8, <2>9 DEF JudgedObjectives, O
<1> QED BY <1>1, <1>2

\* The number of any verdicts, and of one of them raised.
LEMMA NumberIs ==
  ASSUME NEW c \in JudgedConstraints, NEW o \in JudgedObjectives
  PROVE  LET want   == Basis(c, o).score
             items  == Items(c, o)
             weight == Weight(items)
             off == (want - MinScore) * 2 * weight - (MaxScore - MinScore) * Earns(items)
         IN /\ weight = 0 => want = Nothing
            /\ weight # 0 =>
                 /\ want \in MinScore..MaxScore
                 /\ off \in -weight..weight \/ (Breaches(c) # {} /\ want = BreachCeiling /\ off < 0)
                 /\ Breaches(c) # {} => want <= BreachCeiling
                 /\ \A n \in DOMAIN c : Basis(Raised(c, n), o).score >= want
                 /\ \A n \in DOMAIN o : Basis(c, Raised(o, n)).score >= want
<1> DEFINE want == Basis(c, o).score
           weight == Weight(Items(c, o))
           earned == Earns(Items(c, o))
           score == ScoreOf(Items(c, o))
           off(n) == (n - MinScore) * 2 * weight - (MaxScore - MinScore) * earned
<1>1. /\ weight \in Nat /\ earned \in Nat
      /\ weight = 0 => want = Nothing
      /\ weight # 0 => /\ score \in MinScore..MaxScore
                       /\ off(score) \in -weight..weight
                       /\ want = IF Breaches(c) = {} THEN score
                                 ELSE IF score <= BreachCeiling THEN score ELSE BreachCeiling
  BY BasisIs
<1>2. ASSUME weight # 0
      PROVE  /\ \A n \in DOMAIN c : Basis(Raised(c, n), o).score >= want
             /\ \A n \in DOMAIN o : Basis(c, Raised(o, n)).score >= want
  <2>1. ASSUME NEW n \in DOMAIN c PROVE Basis(Raised(c, n), o).score >= want
    <3>1. /\ Raised(c, n) \in JudgedConstraints /\ Len(Raised(c, n)) = Len(c)
          /\ \A m \in 1..Len(c) : /\ Raised(c, n)[m].stance = c[m].stance
                                  /\ Raised(c, n)[m].verdict \in {c[m].verdict, "evidenced"}
      BY RaisedIs
    <3> QED BY <1>2, <3>1, LiftedBasis
  <2>2. ASSUME NEW n \in DOMAIN o PROVE Basis(c, Raised(o, n)).score >= want
    <3>1. /\ Raised(o, n) \in JudgedObjectives /\ Len(Raised(o, n)) = Len(o)
          /\ \A m \in 1..Len(o) : /\ Raised(o, n)[m].rank = o[m].rank
                                  /\ Raised(o, n)[m].verdict \in {o[m].verdict, "evidenced"}
      BY RaisedIs
    <3> QED BY <1>2, <3>1, LiftedBasis
  <2> QED BY <2>1, <2>2
<1> HIDE DEF want, weight, earned, score
<1>3. ASSUME weight # 0
      PROVE  /\ want \in MinScore..MaxScore
             /\ off(want) \in -weight..weight \/ (Breaches(c) # {} /\ want = BreachCeiling /\ off(want) < 0)
             /\ Breaches(c) # {} => want <= BreachCeiling
  <2>1. /\ score \in MinScore..MaxScore /\ off(score) \in -weight..weight /\ score \in Int
        /\ want = IF Breaches(c) = {} THEN score
                  ELSE IF score <= BreachCeiling THEN score ELSE BreachCeiling
    BY <1>1, <1>3 DEF MinScore, MaxScore
  <2>2. CASE want = score
    BY <2>1, <2>2
  <2>3. CASE Breaches(c) # {} /\ score > BreachCeiling /\ want = BreachCeiling
    <3>1. off(score) <= weight
      BY <1>1, <2>1
    <3>2. off(BreachCeiling) < 0
      BY <1>1, <1>3, <2>1, <2>3, <3>1, CeilingIs
    <3>3. BreachCeiling \in MinScore..MaxScore /\ BreachCeiling <= BreachCeiling
      BY DEF BreachCeiling, MinScore, MaxScore
    <3> HIDE DEF off
    <3> QED BY <2>3, <3>2, <3>3
  <2>4. score <= BreachCeiling \/ score > BreachCeiling
    BY <2>1 DEF BreachCeiling
  <2> HIDE DEF off
  <2> QED BY <2>1, <2>2, <2>3, <2>4
<1> QED BY <1>1, <1>2, <1>3 DEF want, weight, earned, score

----------------------------------------------------------------------------
(* What is kept of an answer: everywhere a coverage check, or a score, goes. *)

CoverageKept ==
  \E n \in 1..MaxMentions, results \in SeqOf(CoverageResult, MaxMentions) :
    /\ said = [of |-> "coverage", required |-> n, results |-> results]
    /\ stored = IF Len(results) # n THEN Nothing
                ELSE [m \in DOMAIN results |-> DropUnverifiable(results[m])]

ScoreKept ==
  \E p \in Profiles : \E a \in VerdictAnswers(p) \union LeverAnswers(p) :
    /\ said = a /\ profile \in {p, Cleared}
    /\ stored = IF a.could \in MinScore..MaxScore THEN BuildResult(a, p) ELSE Nothing

FitInv == /\ profile \in Profiles
          /\ (said = Nothing /\ stored = Nothing) \/ CoverageKept \/ ScoreKept

LEMMA FitKeeps ==
  ASSUME FitInv, FitNext \/ UNCHANGED fitVars
  PROVE  FitInv'
<1>1. CASE UNCHANGED fitVars
  BY <1>1 DEF fitVars, FitInv, CoverageKept, ScoreKept
<1>2. CASE CheckCoverage
  BY <1>2 DEF CheckCoverage, FitInv, CoverageKept
<1>3. CASE Score
  <2>1. PICK a \in VerdictAnswers(profile) \union LeverAnswers(profile) :
          /\ said' = a
          /\ stored' = IF a.could \in MinScore..MaxScore THEN BuildResult(a, profile) ELSE Nothing
    BY <1>3 DEF Score
  <2>2. profile \in Profiles /\ profile' = profile
    BY <1>3 DEF Score, FitInv
  <2>3. ScoreKept'
    BY <2>1, <2>2 DEF ScoreKept
  <2> QED BY <2>2, <2>3 DEF FitInv
<1>4. CASE ClearProfile
  <2>1. profile' = Cleared /\ said' = said /\ stored' = stored /\ said # Nothing
    BY <1>4 DEF ClearProfile
  <2>2. profile' \in Profiles
    BY <2>1, ClearedIs
  <2>3. CASE CoverageKept
    <3>1. CoverageKept'
      BY <2>1, <2>3 DEF CoverageKept
    <3> QED BY <2>2, <3>1 DEF FitInv
  <2>4. CASE ScoreKept
    <3>1. ScoreKept'
      BY <2>1, <2>4 DEF ScoreKept
    <3> QED BY <2>2, <3>1 DEF FitInv
  <2> QED BY <2>1, <2>3, <2>4 DEF FitInv
<1> QED BY <1>1, <1>2, <1>3, <1>4 DEF FitNext

LEMMA CoverageSays ==
  ASSUME CoverageKept
  PROVE  CoverageIsGrounded
<1> SUFFICES ASSUME IsCoverage PROVE CoverageIsGrounded
  BY DEF CoverageIsGrounded
<1>1. PICK n \in 1..MaxMentions, results \in SeqOf(CoverageResult, MaxMentions) :
        /\ said = [of |-> "coverage", required |-> n, results |-> results]
        /\ stored = IF Len(results) # n THEN Nothing
                    ELSE [m \in DOMAIN results |-> DropUnverifiable(results[m])]
  BY DEF CoverageKept
<1>2. Len(results) = n /\ stored = [m \in DOMAIN results |-> DropUnverifiable(results[m])]
  BY <1>1 DEF IsCoverage
<1>3. results \in Seq(CoverageResult)
  BY SeqOfIs, FitAssumption
<1>4. /\ Len(results) \in Nat /\ DOMAIN results = 1..Len(results)
      /\ \A m \in 1..Len(results) : results[m] \in CoverageResult
  BY <1>3, SeqIs
<1>5. DOMAIN stored = 1..Len(results) /\ Len(stored) = said.required /\ said.results = results
  BY <1>1, <1>2, <1>4
<1>6. \A r \in CoverageResult :
        LET kept == DropUnverifiable(r)
        IN /\ kept.cited = r.cited \ Made
           /\ kept.status = r.status \/ kept.cited = {}
           /\ kept.status # r.status <=>
                r.status \in {"evidenced", "partial"} /\ r.cited # {} /\ r.cited \subseteq Made
  <2> SUFFICES ASSUME NEW r \in CoverageResult
               PROVE  LET kept == DropUnverifiable(r)
                      IN /\ kept.cited = r.cited \ Made
                         /\ kept.status = r.status \/ kept.cited = {}
                         /\ kept.status # r.status <=>
                              r.status \in {"evidenced", "partial"} /\ r.cited # {} /\ r.cited \subseteq Made
    OBVIOUS
  <2> DEFINE cited == r.cited
             status == r.status
             kept == cited \intersect Corpus
             down == kept # cited /\ kept = {}
  <2>1. cited \in SUBSET (Corpus \union Made) /\ status \in CoverageStatus
    BY DEF CoverageResult
  <2>2. /\ DropUnverifiable(r).cited = kept
        /\ DropUnverifiable(r).status = IF down THEN Downgrade[status] ELSE status
    BY DEF DropUnverifiable
  <2> HIDE DEF cited, status
  <2>3. kept = cited \ Made
    BY <2>1, FitAssumption
  <2>4. down <=> cited # {} /\ cited \subseteq Made
    BY <2>1, FitAssumption
  <2>5. Downgrade[status] # status <=> status \in {"evidenced", "partial"}
    BY <2>1 DEF Downgrade, CoverageStatus
  <2> QED BY <2>2, <2>3, <2>4, <2>5 DEF cited, status
<1>7. \A m \in 1..Len(results) : stored[m] = DropUnverifiable(results[m])
  BY <1>2, <1>4
<1> QED BY <1>4, <1>5, <1>6, <1>7 DEF CoverageIsGrounded

LEMMA ScoreSays ==
  ASSUME ScoreKept
  PROVE  NumberIsItsVerdicts /\ AnswerIsOfTheProfile
<1> SUFFICES ASSUME IsScore PROVE NumberIsItsVerdicts /\ AnswerIsOfTheProfile
  BY DEF NumberIsItsVerdicts, AnswerIsOfTheProfile
<1>1. PICK p \in Profiles : \E a \in VerdictAnswers(p) \union LeverAnswers(p) :
        /\ said = a /\ profile \in {p, Cleared}
        /\ stored = IF a.could \in MinScore..MaxScore THEN BuildResult(a, p) ELSE Nothing
  BY DEF ScoreKept
<1>2. IsProfile(p) /\ profile \in {p, Cleared}
  BY <1>1, ProfilesAre
<1>3. said \in VerdictAnswers(p) \union LeverAnswers(p) /\ stored = BuildResult(said, p)
  BY <1>1 DEF IsScore
<1>4. IsAnswer(said)
  BY <1>2, <1>3, AnswersAre
<1> DEFINE c == ConstraintVerdicts(p.constraints, said.constraints)
           o == ObjectiveVerdicts(p.objectives, said.objectives)
           l == Levers(said.levers, ClaimedItems(p), said.could)
<1>5. /\ stored.could = said.could /\ stored.want = Basis(c, o).score
      /\ stored.constraints = c /\ stored.objectives = o
      /\ stored.breaches = Breaches(c) /\ stored.levers = l
  BY <1>3 DEF BuildResult
<1>6. /\ c \in JudgedConstraints /\ DOMAIN c = DOMAIN p.constraints
      /\ \A n \in DOMAIN c : /\ c[n].stance = p.constraints[n]
                             /\ c[n].verdict = VerdictOf(said.constraints, n)
  BY <1>2, <1>4, ConstraintVerdictsAre DEF IsProfile, IsAnswer
<1>7. /\ o \in JudgedObjectives
      /\ {o[n].rank : n \in DOMAIN o} = p.objectives
      /\ \A n, m \in DOMAIN o : n < m => o[n].rank < o[m].rank
      /\ \A n \in DOMAIN o : o[n].verdict = VerdictOf(said.objectives, o[n].rank)
  BY <1>2, <1>4, ObjectiveVerdictsAre DEF IsProfile, IsAnswer
<1>8. /\ \A n \in DOMAIN l : /\ l[n].claim \in DOMAIN ClaimedItems(p)
                             /\ l[n].to # Nothing => l[n].to > said.could
      /\ \A n, m \in DOMAIN l : l[n].claim = l[m].claim => n = m
  BY <1>4, LeversAre DEF IsAnswer
<1> HIDE DEF c, o, l
<1>9. NumberIsItsVerdicts
  <2> DEFINE want == Basis(c, o).score
             items == Items(c, o)
             weight == Weight(items)
             off == (want - MinScore) * 2 * weight - (MaxScore - MinScore) * Earns(items)
  <2>1. /\ weight = 0 => want = Nothing
        /\ weight # 0 =>
             /\ want \in MinScore..MaxScore
             /\ off \in -weight..weight \/ (Breaches(c) # {} /\ want = BreachCeiling /\ off < 0)
             /\ Breaches(c) # {} => want <= BreachCeiling
             /\ \A n \in DOMAIN c : Basis([c EXCEPT ![n].verdict = "evidenced"], o).score >= want
             /\ \A n \in DOMAIN o : Basis(c, [o EXCEPT ![n].verdict = "evidenced"]).score >= want
    BY <1>6, <1>7, NumberIs DEF Raised
  <2>2. WantItSummary(stored).score = want /\ WantItSummary(stored).breaches = Cardinality(Breaches(c))
    BY <1>5, <1>6, <1>7, BasisIs DEF WantItSummary
  <2> QED BY <1>5, <2>1, <2>2 DEF NumberIsItsVerdicts
<1>10. ASSUME profile # Cleared
       PROVE  /\ [n \in DOMAIN c |-> c[n].stance] = profile.constraints
              /\ {o[n].rank : n \in DOMAIN o} = profile.objectives
              /\ \A n \in DOMAIN l : l[n].claim \in DOMAIN ClaimedItems(profile)
              /\ \A n \in DOMAIN ClaimedItems(profile) :
                   ClaimedItems(profile)[n].tier # "absent" /\ ~ClaimedItems(profile)[n].evidence
  <2>1. profile = p
    BY <1>2, <1>10
  <2>2. [n \in DOMAIN c |-> c[n].stance] = p.constraints
    <3>1. Len(p.constraints) \in Nat /\ p.constraints \in [1..Len(p.constraints) -> Stances]
      BY <1>2 DEF IsProfile
    <3> QED BY <1>6, <3>1
  <2>3. \A n \in DOMAIN ClaimedItems(p) :
          ClaimedItems(p)[n].tier # "absent" /\ ~ClaimedItems(p)[n].evidence
    BY <1>2, ClaimedAre
  <2> QED BY <1>7, <1>8, <2>1, <2>2, <2>3
<1>11. \A n \in DOMAIN c : c[n].verdict # "silent" =>
         \E m \in DOMAIN said.constraints :
           said.constraints[m] = [number |-> n, verdict |-> c[n].verdict]
  BY <1>4, <1>6, VerdictOfIs DEF IsAnswer
<1>12. \A n \in DOMAIN o : o[n].verdict # "silent" =>
         \E m \in DOMAIN said.objectives :
           said.objectives[m] = [number |-> o[n].rank, verdict |-> o[n].verdict]
  BY <1>4, <1>7, VerdictOfIs DEF IsAnswer
<1>13. AnswerIsOfTheProfile
  BY <1>5, <1>7, <1>8, <1>10, <1>11, <1>12 DEF AnswerIsOfTheProfile
<1> QED BY <1>9, <1>13

LEMMA FitSays ==
  ASSUME FitInv
  PROVE  CoverageIsGrounded /\ NumberIsItsVerdicts /\ AnswerIsOfTheProfile
<1>1. CASE said = Nothing /\ stored = Nothing
  BY <1>1 DEF CoverageIsGrounded, NumberIsItsVerdicts, AnswerIsOfTheProfile, IsCoverage, IsScore
<1>2. CASE CoverageKept
  <2>1. ~IsScore
    BY <1>2 DEF CoverageKept, IsScore
  <2> QED BY <1>2, <2>1, CoverageSays DEF NumberIsItsVerdicts, AnswerIsOfTheProfile
<1>3. CASE ScoreKept
  <2>1. ~IsCoverage
    <3>1. PICK p \in Profiles : said \in VerdictAnswers(p) \union LeverAnswers(p)
      BY <1>3 DEF ScoreKept
    <3>2. said.of = "score"
      BY <3>1, ProfilesAre, AnswersAre DEF IsAnswer
    <3> QED BY <3>2 DEF IsCoverage
  <2> QED BY <1>3, <2>1, ScoreSays DEF CoverageIsGrounded
<1> QED BY <1>1, <1>2, <1>3 DEF FitInv

\* What is kept of a coverage check cites the corpus alone and is a step down from what the
\* model said only where all it cited is not there; a stored score is what its verdicts come
\* to, held down by a breach and never lowered by finding more; and it is of the user's own
\* constraints, objectives and claims, also after the profile is emptied. For any corpus,
\* profile and answer.
THEOREM ScoreHonest == VerdictsSpec => []ScoreIsHonest
<1>1. VerdictsInit => (mode = "fit" => FitInv)
  BY DEF VerdictsInit, FitInit, FitInv
<1>2. (mode = "fit" => FitInv) /\ [VerdictsNext]_VerdictsVars => (mode = "fit" => FitInv)'
  BY FitKeeps DEF VerdictsNext, VerdictsVars
<1>3. (mode = "fit" => FitInv) => ScoreIsHonest
  BY FitSays DEF ScoreIsHonest
<1> QED BY <1>1, <1>2, <1>3, PTL DEF VerdictsSpec

----------------------------------------------------------------------------
(* The claim gate.  What holds of one place in a list whenever it holds of *)
(* those before holds of each: there would be a first of the others.       *)

LEMMA FirstOf ==
  ASSUME NEW n \in Nat, NEW S \in SUBSET (0..n), S # {}
  PROVE  \E k \in S : k \in 0..n /\ \A m \in 0..n : m < k => m \notin S
<1>1. IsFiniteSet(0..n) /\ 0..n \in SUBSET Nat
  BY FS_Interval
<1>2. IsFiniteSet(S) /\ S \in SUBSET Nat
  BY <1>1, FS_Subset
<1>3. Min(S) \in S /\ \A k \in S : Min(S) <= k
  BY <1>2, EndsAre
<1>4. \A m \in 0..n : m < Min(S) => m \notin S
  <2>1. \A m \in Nat : \A k \in Nat : m < k => ~ (k <= m)
    OBVIOUS
  <2>2. \A m \in 0..n : m \in Nat
    OBVIOUS
  <2>3. Min(S) \in Nat
    BY <1>2, <1>3
  <2> QED BY <1>3, <2>1, <2>2, <2>3
<1> QED BY <1>3, <1>4

\* What is before each of the blocks of a list, and in all of them.
IsFlat(f, blocks, n) == f = [i \in 1..n |-> IF i = 1 THEN blocks[i] ELSE f[i - 1] \o blocks[i]]
StartsAre(start, blocks, n) ==
  /\ start \in [1..(n + 1) -> Nat] /\ start[1] = 0
  /\ \A i \in 1..n : start[i + 1] = start[i] + Len(blocks[i])

LEMMA FlatExists ==
  ASSUME NEW blocks, NEW n \in Nat \ {0}
  PROVE  \E f : IsFlat(f, blocks, n)
<1> DEFINE S == {m \in 0..n : m # 0 /\ ~ \E f : IsFlat(f, blocks, m)}
<1> SUFFICES ASSUME S # {} PROVE FALSE
  OBVIOUS
<1>1. \A m \in 1..n : m \notin S => \E f : IsFlat(f, blocks, m)
  OBVIOUS
<1>2. S \in SUBSET (0..n) /\ 0 \notin S /\ \A m \in S : ~ \E f : IsFlat(f, blocks, m)
  OBVIOUS
<1> HIDE DEF S
<1>3. PICK k \in S : k \in 0..n /\ \A m \in 0..n : m < k => m \notin S
  BY <1>2, FirstOf
<1>4. CASE k = 1
  <2>1. IsFlat([i \in 1..1 |-> blocks[i]], blocks, 1)
    BY DEF IsFlat
  <2> QED BY <1>2, <1>4, <2>1
<1>5. CASE k # 1
  <2>1. k - 1 \in 1..n /\ k - 1 < k /\ k \in Nat /\ k > 1
    BY <1>2, <1>3, <1>5
  <2>2. PICK f : IsFlat(f, blocks, k - 1)
    BY <1>1, <1>3, <2>1
  <2> DEFINE g == [i \in 1..k |-> IF i = k THEN f[k - 1] \o blocks[k] ELSE f[i]]
  <2>3. \A i \in 1..(k - 1) : f[i] = IF i = 1 THEN blocks[i] ELSE f[i - 1] \o blocks[i]
    BY <2>2 DEF IsFlat
  <2>4. \A i \in 1..k : g[i] = IF i = 1 THEN blocks[i] ELSE g[i - 1] \o blocks[i]
    <3> SUFFICES ASSUME NEW i \in 1..k PROVE g[i] = IF i = 1 THEN blocks[i] ELSE g[i - 1] \o blocks[i]
      OBVIOUS
    <3>1. CASE i = k
      <4>0. k \in 1..k /\ k - 1 \in 1..k /\ k - 1 # k
        BY <2>1
      <4>1. g[k] = f[k - 1] \o blocks[k] /\ g[k - 1] = f[k - 1] /\ k # 1
        BY <1>5, <4>0
      <4> HIDE DEF g
      <4> QED BY <3>1, <4>1
    <3>2. CASE i # k
      <4>1. i \in 1..(k - 1) /\ g[i] = f[i]
        BY <2>1, <3>2
      <4>2. i # 1 => i - 1 \in 1..k /\ i - 1 # k /\ g[i - 1] = f[i - 1]
        BY <2>1, <4>1
      <4> HIDE DEF g
      <4> QED BY <2>3, <4>1, <4>2
    <3> QED BY <3>1, <3>2
  <2>5. g = [i \in 1..k |-> g[i]]
    OBVIOUS
  <2> HIDE DEF g
  <2>6. g = [i \in 1..k |-> IF i = 1 THEN blocks[i] ELSE g[i - 1] \o blocks[i]]
    BY <2>4, <2>5
  <2> QED BY <1>2, <2>6 DEF IsFlat
<1> QED BY <1>4, <1>5

Flattened(start, flat, blocks, n, rows) ==
  /\ StartsAre(start, blocks, n)
  /\ flat \in Seq(rows) /\ Len(flat) = start[n + 1]
  /\ \A i \in 1..n : \A k \in 1..Len(blocks[i]) :
       start[i] + k \in 1..Len(flat) /\ flat[start[i] + k] = blocks[i][k]
  /\ \A m \in 1..Len(flat) : \E i \in 1..n : \E k \in 1..Len(blocks[i]) : m = start[i] + k

LEMMA FlattenIs ==
  ASSUME NEW T, NEW n \in Nat \ {0}, NEW blocks \in [1..n -> Seq(T)]
  PROVE  \E start : Flattened(start, FlattenSeq(blocks), blocks, n, T)
<1> DEFINE f == CHOOSE flat : IsFlat(flat, blocks, n)
           start == [i \in 1..(n + 1) |-> IF i = 1 THEN 0 ELSE Len(f[i - 1])]
<1>1. Len(blocks) = n
  OBVIOUS
<1>2. FlattenSeq(blocks) = f[n]
  BY <1>1 DEF FlattenSeq, IsFlat
<1>3. IsFlat(f, blocks, n)
  BY FlatExists
<1> HIDE DEF f
<1>4. \A i \in 1..n : f[i] = IF i = 1 THEN blocks[i] ELSE f[i - 1] \o blocks[i]
  BY <1>3 DEF IsFlat
<1>5. start[1] = 0 /\ \A i \in 1..n : start[i + 1] = Len(f[i])
  OBVIOUS
<1>6. DOMAIN start = 1..(n + 1) /\ start = [i \in 1..(n + 1) |-> start[i]]
  OBVIOUS
<1> HIDE DEF start
<1> DEFINE Holds(m) ==
             /\ f[m] \in Seq(T) /\ start[m] \in Nat /\ Len(f[m]) = start[m] + Len(blocks[m])
             /\ \A i \in 1..m : \A k \in 1..Len(blocks[i]) :
                  start[i] + k \in 1..Len(f[m]) /\ f[m][start[i] + k] = blocks[i][k]
             /\ \A x \in 1..Len(f[m]) : \E i \in 1..m : \E k \in 1..Len(blocks[i]) : x = start[i] + k
<1>7. \A i \in 1..n : blocks[i] \in Seq(T) /\ Len(blocks[i]) \in Nat
  OBVIOUS
<1>8. Holds(1)
  <2>1. f[1] = blocks[1] /\ start[1] = 0 /\ 1 \in 1..n
    BY <1>4, <1>5
  <2>2. f[1] \in Seq(T) /\ Len(f[1]) = start[1] + Len(blocks[1])
    BY <1>7, <2>1
  <2>3. \A k \in 1..Len(blocks[1]) : start[1] + k = k /\ f[1][start[1] + k] = blocks[1][k]
    BY <1>7, <2>1
  <2>4. \A i \in 1..1 : i = 1
    OBVIOUS
  <2> QED BY <1>7, <2>1, <2>2, <2>3, <2>4
<1>9. ASSUME NEW m \in 1..n, m + 1 \in 1..n, Holds(m) PROVE Holds(m + 1)
  <2> DEFINE b == blocks[m + 1]
             u == f[m]
             v == f[m + 1]
  <2>1. v = u \o b /\ start[m + 1] = Len(u) /\ m \in Nat
    <3>1. m \in Nat /\ m + 1 # 1 /\ (m + 1) - 1 = m
      OBVIOUS
    <3>2. f[m + 1] = f[(m + 1) - 1] \o blocks[m + 1]
      BY <1>4, <1>9, <3>1
    <3> QED BY <1>5, <3>1, <3>2
  <2>2. u \in Seq(T) /\ b \in Seq(T) /\ Len(u) \in Nat /\ Len(b) \in Nat
    BY <1>7, <1>9
  <2>3. /\ v \in Seq(T) /\ Len(v) = Len(u) + Len(b)
        /\ \A x \in 1..Len(u) : v[x] = u[x]
        /\ \A x \in 1..Len(b) : v[Len(u) + x] = b[x]
    <3> HIDE DEF u, v, b
    <3>1. /\ u \o b \in Seq(T) /\ Len(u \o b) = Len(u) + Len(b)
          /\ \A x \in 1..Len(u) : (u \o b)[x] = u[x]
      BY <2>2
    <3>2. \A x \in 1..Len(b) : (u \o b)[Len(u) + x] = b[x]
      <4> SUFFICES ASSUME NEW x \in 1..Len(b) PROVE (u \o b)[Len(u) + x] = b[x]
        OBVIOUS
      <4>1. Len(u) + x \in 1..(Len(u) + Len(b)) /\ Len(u) + x > Len(u) /\ (Len(u) + x) - Len(u) = x
        BY <2>2
      <4> QED BY <2>2, <4>1
    <3>3. v = u \o b
      BY <2>1
    <3> QED BY <3>1, <3>2, <3>3, Zenon
  <2>4. ASSUME NEW i \in 1..(m + 1), NEW k \in 1..Len(blocks[i])
        PROVE  start[i] + k \in 1..Len(v) /\ v[start[i] + k] = blocks[i][k]
    <3>1. CASE i = m + 1
      <4>1. start[i] + k = Len(u) + k /\ k \in 1..Len(b) /\ blocks[i] = b
        BY <2>1, <3>1
      <4> HIDE DEF u, v, b
      <4>2. Len(u) + k \in 1..(Len(u) + Len(b))
        BY <2>2, <4>1
      <4> QED BY <2>3, <4>1, <4>2
    <3>2. CASE i \in 1..m
      <4>1. start[i] + k \in 1..Len(u) /\ u[start[i] + k] = blocks[i][k]
        BY <1>9, <3>2
      <4> HIDE DEF u, v, b
      <4>2. start[i] + k \in 1..Len(v)
        BY <2>2, <2>3, <4>1
      <4> QED BY <2>3, <4>1, <4>2
    <3>3. i = m + 1 \/ i \in 1..m
      BY <2>1
    <3> QED BY <3>1, <3>2, <3>3
  <2>5. ASSUME NEW x \in 1..Len(v)
        PROVE  \E i \in 1..(m + 1) : \E k \in 1..Len(blocks[i]) : x = start[i] + k
    <3>1. CASE x <= Len(u)
      <4>1. x \in 1..Len(u)
        BY <2>2, <3>1
      <4>2. PICK i \in 1..m : \E k \in 1..Len(blocks[i]) : x = start[i] + k
        BY <1>9, <4>1
      <4>3. i \in 1..(m + 1)
        BY <2>1
      <4> QED BY <4>2, <4>3
    <3>2. CASE x > Len(u)
      <4>1. x - Len(u) \in 1..Len(b) /\ x = Len(u) + (x - Len(u))
        <5> HIDE DEF u, v, b
        <5> QED BY <2>2, <2>3, <3>2
      <4>2. m + 1 \in 1..(m + 1)
        BY <2>1
      <4> QED BY <2>1, <4>1, <4>2
    <3>3. x <= Len(u) \/ x > Len(u)
      <4> HIDE DEF u, v
      <4> QED BY <2>2, <2>3
    <3> QED BY <3>1, <3>2, <3>3
  <2>6. v \in Seq(T) /\ start[m + 1] \in Nat /\ Len(v) = start[m + 1] + Len(b)
    BY <2>1, <2>2, <2>3
  <2> QED BY <2>4, <2>5, <2>6
<1>10. \A m \in 1..n : Holds(m)
  <2> HIDE DEF Holds
  <2> DEFINE S == {m \in 0..n : m # 0 /\ ~ Holds(m)}
  <2>1. ASSUME NEW m \in 1..n, m \notin S PROVE Holds(m)
    <3>1. m \in 0..n /\ m # 0
      OBVIOUS
    <3> QED BY <2>1, <3>1, Zenon
  <2>2. S \in SUBSET (0..n) /\ 0 \notin S /\ \A m \in S : ~ Holds(m)
    OBVIOUS
  <2> HIDE DEF S
  <2>3. ASSUME S # {} PROVE FALSE
    <3>1. PICK k \in S : k \in 0..n /\ \A m \in 0..n : m < k => m \notin S
      BY <2>2, <2>3, FirstOf
    <3>2. CASE k = 1
      BY <1>8, <2>2, <3>2
    <3>3. CASE k # 1
      <4>1. k - 1 \in 1..n /\ (k - 1) + 1 = k /\ k \in 1..n /\ k - 1 \in 0..n /\ k - 1 < k
        BY <2>2, <3>1, <3>3
      <4>2. Holds(k - 1)
        BY <2>1, <3>1, <4>1
      <4>3. Holds((k - 1) + 1)
        BY <1>9, <4>1, <4>2
      <4> QED BY <2>2, <4>1, <4>3
    <3> QED BY <3>2, <3>3
  <2> QED BY <2>1, <2>3
<1>11. StartsAre(start, blocks, n)
  <2>1. \A i \in 1..n : start[i] \in Nat /\ start[i + 1] = start[i] + Len(blocks[i])
    BY <1>5, <1>10
  <2>2. start[n + 1] \in Nat
    <3>1. n \in 1..n
      OBVIOUS
    <3>2. start[n] \in Nat /\ Len(blocks[n]) \in Nat /\ start[n + 1] = start[n] + Len(blocks[n])
      BY <1>7, <2>1, <3>1
    <3> QED BY <3>2
  <2>3. \A i \in 1..(n + 1) : start[i] \in Nat
    BY <2>1, <2>2
  <2> QED BY <1>5, <1>6, <2>1, <2>3 DEF StartsAre
<1>12. Holds(n) /\ start[n + 1] = Len(f[n])
  BY <1>5, <1>10
<1>13. Flattened(start, f[n], blocks, n, T)
  BY <1>11, <1>12 DEF Flattened
<1> QED BY <1>2, <1>13

LEMMA StartsGrow ==
  ASSUME NEW n \in Nat, NEW blocks, \A i \in 1..n : Len(blocks[i]) \in Nat,
         NEW start, StartsAre(start, blocks, n)
  PROVE  \A i \in 1..(n + 1) : \A j \in 1..(n + 1) : i <= j => start[i] <= start[j]
<1>1. /\ \A i \in 1..(n + 1) : start[i] \in Nat
      /\ \A i \in 1..n : start[i] <= start[i + 1]
  <2>1. \A i \in 1..n : i \in 1..(n + 1) /\ start[i] \in Nat /\ start[i + 1] = start[i] + Len(blocks[i])
    BY DEF StartsAre
  <2>2. ASSUME NEW i \in 1..n PROVE start[i] <= start[i + 1]
    <3>1. start[i] \in Nat /\ start[i + 1] = start[i] + Len(blocks[i]) /\ Len(blocks[i]) \in Nat
      BY <2>1
    <3> QED BY <3>1
  <2> QED BY <2>2 DEF StartsAre
<1> SUFFICES ASSUME NEW i \in 1..(n + 1)
             PROVE  \A j \in 1..(n + 1) : i <= j => start[i] <= start[j]
  OBVIOUS
<1> DEFINE S == {j \in 0..(n + 1) : j >= i /\ ~ (start[i] <= start[j])}
<1>2. ASSUME NEW j \in 1..(n + 1), i <= j, j \notin S PROVE start[i] <= start[j]
  <2>1. j \in 0..(n + 1) /\ j >= i
    BY <1>2
  <2> QED BY <1>2, <2>1
<1>3. S \in SUBSET (0..(n + 1)) /\ \A j \in S : j >= i /\ ~ (start[i] <= start[j])
  OBVIOUS
<1>4. ASSUME NEW j \in 0..(n + 1), j \notin S, j >= i PROVE start[i] <= start[j]
  BY <1>4
<1> HIDE DEF S
<1>5. ASSUME S # {} PROVE FALSE
  <2>1. PICK k \in S : k \in 0..(n + 1) /\ \A m \in 0..(n + 1) : m < k => m \notin S
    <3>1. n + 1 \in Nat
      OBVIOUS
    <3> QED BY <1>3, <1>5, <3>1, FirstOf
  <2>2. k >= i /\ ~ (start[i] <= start[k])
    BY <1>3
  <2>3. k # i
    BY <1>1, <2>2
  <2>4. k - 1 \in 0..(n + 1) /\ k - 1 >= i /\ k - 1 < k /\ k - 1 \in 1..n /\ (k - 1) + 1 = k
    BY <2>1, <2>2, <2>3
  <2>5. start[i] <= start[k - 1]
    BY <1>4, <2>1, <2>4
  <2>6. start[k - 1] <= start[(k - 1) + 1]
    BY <1>1, <2>4
  <2>7. start[k - 1] \in Nat /\ start[k] \in Nat /\ start[i] \in Nat
    BY <1>1, <2>1, <2>4
  <2> QED BY <2>2, <2>4, <2>5, <2>6, <2>7
<1> QED BY <1>2, <1>5

\* Adding up the first i of some numbers, one more at a time.
LEMMA SumGrows ==
  ASSUME NEW n \in Nat, NEW w \in [1..n -> Nat]
  PROVE  /\ Sum(SubSeq(w, 1, 0)) = 0
         /\ \A i \in 1..n : Sum(SubSeq(w, 1, i)) = Sum(SubSeq(w, 1, i - 1)) + w[i]
         /\ Sum(w) = Sum(SubSeq(w, 1, n))
<1> DEFINE First(i) == SubSeq(w, 1, i)
           g(i) == CHOOSE sum : IsSum(First(i), 1..i, sum)
<1>0. Len(w) = n /\ DOMAIN w = 1..n
  OBVIOUS
<1>1. \A i \in 0..n : DOMAIN First(i) = 1..i /\ \A k \in 1..i : First(i)[k] = w[k]
  BY <1>0
<1>2. \A i \in 0..n : 1..i \in SUBSET Nat /\ Positions(1..i)
  <2>1. \A i \in 0..n : IsFiniteSet(1..i)
    BY FS_Interval
  <2> QED BY <2>1 DEF Positions
<1>3. \A i \in 0..n : IsSum(First(i), 1..i, g(i))
  BY <1>2, SumExists
<1>4. \A i \in 0..n : Sum(First(i)) = g(i)[1..i]
  BY <1>1, SumIsFold
<1> HIDE DEF g
<1>5. First(n) = w
  <2>1. First(n) \in Seq(Nat) /\ Len(First(n)) = n
    BY <1>0
  <2>2. \A k \in 1..n : First(n)[k] = w[k]
    BY <1>1
  <2>3. First(n) = [k \in 1..n |-> First(n)[k]]
    BY <2>1
  <2>4. w = [k \in 1..n |-> w[k]]
    OBVIOUS
  <2> HIDE DEF First
  <2> QED BY <2>2, <2>3, <2>4
<1> HIDE DEF First
<1>6. Sum(First(0)) = 0
  <2>1. 1..0 = {} /\ 0 \in 0..n
    OBVIOUS
  <2>2. g(0)[{}] = SumStep(First(0), g(0), {})
    BY <1>3, <2>1 DEF IsSum
  <2> QED BY <1>4, <2>1, <2>2 DEF SumStep
<1>7. ASSUME NEW i \in 1..n PROVE Sum(First(i)) = Sum(First(i - 1)) + w[i]
  <2> DEFINE T == 1..i
             U == 1..(i - 1)
  <2>1. i \in 0..n /\ i - 1 \in 0..n /\ T # {} /\ i \in T
    OBVIOUS
  <2>2. Positions(T) /\ U \in SUBSET T
    BY <1>2, <2>1
  <2>3. Max(T) = i
    <3>1. \A k \in T : k <= i /\ k \in Nat
      OBVIOUS
    <3>2. Max(T) \in T /\ \A k \in T : Max(T) >= k
      BY <2>1, <2>2, EndsAre DEF Positions
    <3> QED BY <2>1, <3>1, <3>2
  <2>4. T \ {i} = U
    OBVIOUS
  <2>5. IsSum(First(i), T, g(i)) /\ IsSum(First(i - 1), U, g(i - 1))
    BY <1>3, <2>1
  <2>6. \A k \in U : First(i)[k] = First(i - 1)[k]
    <3>1. \A k \in U : k \in T
      OBVIOUS
    <3> QED BY <1>1, <2>1, <3>1
  <2>7. Sum(First(i)) = g(i)[T] /\ Sum(First(i - 1)) = g(i - 1)[U] /\ First(i)[i] = w[i]
    BY <1>1, <1>4, <2>1
  <2> HIDE DEF T, U
  <2>8. g(i)[U] = g(i - 1)[U]
    BY <2>2, <2>5, <2>6, SumMeets
  <2>9. g(i)[T] = SumStep(First(i), g(i), T)
    BY <2>5 DEF IsSum
  <2> QED BY <2>1, <2>3, <2>4, <2>7, <2>8, <2>9 DEF SumStep
<1> QED BY <1>5, <1>6, <1>7 DEF First

\* What is counted line by line is where each line's own begins.
CountsOf(counts, blocks, n) == /\ counts \in [1..n -> Nat]
                               /\ \A i \in 1..n : counts[i] = Len(blocks[i])

LEMMA BeforeIs ==
  ASSUME NEW n \in Nat \ {0}, NEW counts, NEW blocks, NEW start,
         StartsAre(start, blocks, n), CountsOf(counts, blocks, n)
  PROVE  /\ \A i \in 1..n : Before(counts, i) = start[i]
         /\ Sum(counts) = start[n + 1]
<1> DEFINE S == {i \in 0..n : Sum(SubSeq(counts, 1, i)) # start[i + 1]}
<1>0. counts \in [1..n -> Nat] /\ \A i \in 1..n : counts[i] = Len(blocks[i])
  BY DEF CountsOf
<1>1. /\ Sum(SubSeq(counts, 1, 0)) = 0
      /\ \A i \in 1..n : Sum(SubSeq(counts, 1, i)) = Sum(SubSeq(counts, 1, i - 1)) + counts[i]
      /\ Sum(counts) = Sum(SubSeq(counts, 1, n))
  BY <1>0, SumGrows
<1>2. S \in SUBSET (0..n) /\ \A i \in S : Sum(SubSeq(counts, 1, i)) # start[i + 1]
  OBVIOUS
<1>3. \A i \in 0..n : i \notin S => Sum(SubSeq(counts, 1, i)) = start[i + 1]
  OBVIOUS
<1> HIDE DEF S
<1>4. ASSUME S # {} PROVE FALSE
  <2>1. PICK k \in S : k \in 0..n /\ \A m \in 0..n : m < k => m \notin S
    BY <1>2, <1>4, FirstOf
  <2>2. CASE k = 0
    BY <1>1, <1>2, <2>2 DEF StartsAre
  <2>3. CASE k # 0
    <3>1. k \in 1..n /\ k - 1 \in 0..n /\ k - 1 < k /\ (k - 1) + 1 = k
      BY <2>1, <2>3
    <3>2. Sum(SubSeq(counts, 1, k - 1)) = start[(k - 1) + 1]
      BY <1>3, <2>1, <3>1
    <3>3. start[k + 1] = start[k] + counts[k]
      BY <1>0, <3>1 DEF StartsAre
    <3>4. Sum(SubSeq(counts, 1, k)) = start[k + 1]
      BY <1>1, <3>1, <3>2, <3>3
    <3> QED BY <1>2, <3>4
  <2> QED BY <2>2, <2>3
<1>5. \A i \in 0..n : Sum(SubSeq(counts, 1, i)) = start[i + 1]
  BY <1>3, <1>4
<1>6. \A i \in 1..n : Before(counts, i) = start[i]
  <2> SUFFICES ASSUME NEW i \in 1..n PROVE Before(counts, i) = start[i]
    OBVIOUS
  <2>1. i - 1 \in 0..n /\ (i - 1) + 1 = i
    OBVIOUS
  <2>2. Before(counts, i) = Sum(SubSeq(counts, 1, i - 1))
    BY DEF Before, Sum
  <2> QED BY <1>5, <2>1, <2>2
<1>8. n \in 0..n
  OBVIOUS
<1> QED BY <1>1, <1>5, <1>6, <1>8

----------------------------------------------------------------------------
(* What is made of one result, and of those of a line.                     *)

Ruled(r) == ApplyRules([r EXCEPT !.cited = ResolveAbbreviated(r.cited)])
Claims   == {r \in Results : r.kind = "claim" /\ r.verdict # NoVerdict}

LEMMA RulesAre ==
  ASSUME NEW r \in Results
  PROVE  /\ Ruled(r).kind = r.kind
         /\ r \in Claims => /\ Ruled(r).verdict \in Verdicts
                            /\ Ruled(r).verdict = "supported" <=> Earned(r)
                            /\ Ruled(r).verdict = "unsupported" <=> r.verdict = "unsupported"
<1> DEFINE cited == r.cited
           found == ResolveAbbreviated(cited)
           q == [r EXCEPT !.cited = found]
<1>1. /\ cited \in SUBSET (Spans \union {Unknown} \union Abbreviated)
      /\ r.kind \in {"claim", "framing", "title"} /\ r.verdict \in Verdicts \union {NoVerdict}
      /\ r = [kind |-> r.kind, verdict |-> r.verdict, cited |-> r.cited]
  BY DEF Results
<1>2. q.kind = r.kind /\ q.verdict = r.verdict /\ q.cited = found
      /\ q = [kind |-> r.kind, verdict |-> r.verdict, cited |-> found]
  BY <1>1
<1> HIDE DEF q
<1>3. Ruled(r) = IF q.kind = "claim" /\ q.verdict = "supported" /\ Flagged(q)
                 THEN [q EXCEPT !.verdict = "review"] ELSE q
  BY DEF Ruled, ApplyRules, q
<1>4. [q EXCEPT !.verdict = "review"] = [kind |-> r.kind, verdict |-> "review", cited |-> found]
  BY <1>2
<1>5. /\ Ruled(r).kind = r.kind
      /\ Ruled(r).verdict = IF q.kind = "claim" /\ q.verdict = "supported" /\ Flagged(q)
                            THEN "review" ELSE r.verdict
  BY <1>2, <1>3, <1>4
<1>6. ASSUME r.verdict = "supported"
      PROVE  Flagged(q) <=> ~ (cited # {} /\ \A c \in cited : Traces(c))
  <2> DEFINE clear == {c \in cited : c \notin Abbreviated \/ Cardinality(Begins[c]) # 1}
             short == {a \in cited \intersect Abbreviated : Cardinality(Begins[a]) = 1}
  <2>1. found = clear \union UNION {Begins[c] : c \in short}
    BY DEF ResolveAbbreviated
  <2>2. \A a \in Abbreviated : Begins[a] \in SUBSET Spans
    BY GateAssumption
  <2>3. \A a \in short : a \in Abbreviated /\ Begins[a] # {} /\ Begins[a] \subseteq found
    <3>1. \A a \in short : Begins[a] # {}
      BY FS_EmptySet
    <3> QED BY <2>1, <3>1
  <2>4. clear \subseteq found
    BY <2>1
  <2>5. found \subseteq Spans <=> \A c \in cited : Traces(c)
    <3>1. ASSUME found \subseteq Spans, NEW c \in cited PROVE Traces(c)
      <4>1. CASE c \in clear
        BY <2>4, <3>1, <4>1 DEF Traces
      <4>2. CASE c \notin clear
        BY <4>2 DEF Traces
      <4> QED BY <4>1, <4>2
    <3>2. ASSUME \A c \in cited : Traces(c) PROVE found \subseteq Spans
      <4>1. \A c \in clear : c \in Spans
        BY <3>2 DEF Traces
      <4>2. \A c \in short : Begins[c] \subseteq Spans
        BY <2>2, <2>3
      <4> HIDE DEF clear, short
      <4> QED BY <2>1, <4>1, <4>2
    <3> QED BY <3>1, <3>2
  <2>6. found \subseteq Spans => (found \subseteq Abbreviated <=> cited = {})
    <3>1. found \subseteq Spans => (found \subseteq Abbreviated <=> found = {})
      BY GateAssumption
    <3>2. found = {} => cited = {}
      <4>1. ASSUME found = {} PROVE clear = {} /\ short = {}
        BY <2>3, <2>4, <4>1
      <4>2. cited \subseteq clear \union short
        OBVIOUS
      <4> QED BY <4>1, <4>2
    <3>3. cited = {} => found = {}
      BY <2>1
    <3> QED BY <3>1, <3>2, <3>3
  <2> HIDE DEF found, cited
  <2>7. Flagged(q) <=> ~ (found \subseteq Spans) \/ found \subseteq Abbreviated
    BY <1>2, <1>6 DEF Flagged
  <2> QED BY <2>5, <2>6, <2>7
<1>7. r \in Claims => r.kind = "claim" /\ r.verdict \in Verdicts
  BY <1>1 DEF Claims
<1> HIDE DEF cited, found
<1>8. Earned(r) <=> r.verdict = "supported" /\ cited # {} /\ \A c \in cited : Traces(c)
  BY DEF Earned, cited
<1>9. ASSUME r \in Claims
      PROVE  /\ Ruled(r).verdict \in Verdicts
             /\ Ruled(r).verdict = "supported" <=> Earned(r)
             /\ Ruled(r).verdict = "unsupported" <=> r.verdict = "unsupported"
  <2>1. CASE r.verdict = "supported"
    BY <1>2, <1>5, <1>6, <1>7, <1>8, <1>9, <2>1 DEF Verdicts
  <2>2. CASE r.verdict # "supported"
    BY <1>2, <1>5, <1>7, <1>8, <1>9, <2>2 DEF Verdicts
  <2> QED BY <2>1, <2>2
<1> QED BY <1>5, <1>9

LEMMA WorstIs ==
  ASSUME NEW V \in SUBSET Verdicts
  PROVE  /\ Worst(V) \in Verdicts \union {"framing"}
         /\ Worst(V) = "framing" <=> V = {}
         /\ Worst(V) = "supported" <=> V # {} /\ \A v \in V : v = "supported"
         /\ Worst(V) = "unsupported" <=> "unsupported" \in V
<1>1. CASE V = {}
  BY <1>1 DEF Worst
<1>2. CASE V # {}
  <2> DEFINE w == Worst(V)
  <2>1. w = CHOOSE v \in V : \A u \in V : Severity[u] <= Severity[v]
    BY <1>2 DEF Worst
  <2>2. /\ Severity["supported"] = 1 /\ Severity["review"] = 2 /\ Severity["unsupported"] = 3
    BY DEF Severity
  <2>3. \E v \in V : \A u \in V : Severity[u] <= Severity[v]
    <3>1. CASE "unsupported" \in V
      BY <2>2, <3>1 DEF Verdicts
    <3>2. CASE "unsupported" \notin V /\ "review" \in V
      BY <2>2, <3>2 DEF Verdicts
    <3>3. CASE "unsupported" \notin V /\ "review" \notin V
      <4>1. \A u \in V : u = "supported"
        BY <3>3 DEF Verdicts
      <4>2. PICK v \in V : TRUE
        BY <1>2
      <4>3. \A u \in V : Severity[u] = 1 /\ Severity[v] = 1
        BY <2>2, <4>1, <4>2
      <4> QED BY <4>2, <4>3
    <3> QED BY <3>1, <3>2, <3>3
  <2>4. w \in V /\ \A u \in V : Severity[u] <= Severity[w]
    BY <2>1, <2>3
  <2> HIDE DEF w
  <2>5. w \in Verdicts
    BY <2>4
  <2>6. w = "supported" <=> \A v \in V : v = "supported"
    BY <2>2, <2>4, <2>5 DEF Verdicts
  <2>7. w = "unsupported" <=> "unsupported" \in V
    BY <2>2, <2>4, <2>5 DEF Verdicts
  <2> QED BY <1>2, <2>5, <2>6, <2>7 DEF w, Verdicts
<1> QED BY <1>1, <1>2

\* A line that takes the worst of its claims is shown as what they are.
LEMMA WorstOfClaims ==
  ASSUME NEW C \in SUBSET Claims
  PROVE  LET verdict == Worst({Ruled(r).verdict : r \in C})
         IN /\ verdict \in Verdicts \union {"framing"} /\ verdict # NoVerdict
            /\ verdict = "framing" <=> C = {}
            /\ verdict = "supported" <=> C # {} /\ \A r \in C : Earned(r)
            /\ verdict = "unsupported" <=> \E r \in C : r.verdict = "unsupported"
<1> DEFINE V == {Ruled(r).verdict : r \in C}
<1>1. \A r \in C : /\ Ruled(r).verdict \in Verdicts
                   /\ Ruled(r).verdict = "supported" <=> Earned(r)
                   /\ Ruled(r).verdict = "unsupported" <=> r.verdict = "unsupported"
  BY RulesAre DEF Claims
<1>2. V \in SUBSET Verdicts
  BY <1>1
<1>3. V = {} <=> C = {}
  OBVIOUS
<1>4. (\A v \in V : v = "supported") <=> \A r \in C : Earned(r)
  BY <1>1
<1>5. "unsupported" \in V <=> \E r \in C : r.verdict = "unsupported"
  BY <1>1
<1> HIDE DEF V
<1>6. /\ Worst(V) \in Verdicts \union {"framing"}
      /\ Worst(V) = "framing" <=> V = {}
      /\ Worst(V) = "supported" <=> V # {} /\ \A v \in V : v = "supported"
      /\ Worst(V) = "unsupported" <=> "unsupported" \in V
  BY <1>2, WorstIs
<1>7. Worst(V) # NoVerdict
  BY <1>6, GateAssumption
<1> QED BY <1>3, <1>4, <1>5, <1>6, <1>7 DEF V

----------------------------------------------------------------------------
(* Splitting and numbering.                                                *)

LEMMA TextIs ==
  ASSUME NEW s \in Texts
  PROVE  s \in Seq(Sentences) /\ Len(s) \in 1..MaxSaid /\ DOMAIN s = 1..Len(s)
<1>1. PICK n \in 1..MaxSaid : s \in [1..n -> Sentences]
  BY DEF Texts
<1>2. n \in Nat
  BY <1>1, GateAssumption
<1>3. DOMAIN s = 1..n /\ Len(s) = n /\ s \in Seq(Sentences)
  BY <1>1, <1>2
<1> QED BY <1>1, <1>3

LEMMA LineIs ==
  ASSUME NEW line \in Lines
  PROVE  /\ line.says \in Seq(Sentences) /\ Len(line.says) \in 1..MaxSaid
         /\ Len(line.says) \in Nat \ {0} /\ DOMAIN line.says = 1..Len(line.says)
         /\ line.heading \in BOOLEAN
         /\ line.verdict \in Verdicts \union {"framing", NoVerdict}
<1>1. line.says \in Texts
  BY DEF Lines
<1>2. Len(line.says) \in 1..MaxSaid /\ MaxSaid \in Nat
  BY <1>1, TextIs, GateAssumption
<1> QED BY <1>1, <1>2, TextIs DEF Lines

LEMMA TitleIs ==
  ASSUME NEW n \in Nat, NEW L \in [1..n -> Lines]
  PROVE  /\ TitleAt(L) \in 0..n
         /\ (\A i \in 1..n : ~L[i].heading) => TitleAt(L) = 0
<1> DEFINE headings == {i \in DOMAIN L : L[i].heading}
<1>1. TitleAt(L) = IF Cardinality(headings) = 1 THEN CHOOSE i \in headings : TRUE ELSE 0
  BY DEF TitleAt
<1>2. headings \in SUBSET (1..n)
  OBVIOUS
<1>3. (\A i \in 1..n : ~L[i].heading) => headings = {}
  OBVIOUS
<1>4. IsFiniteSet(headings)
  <2>1. IsFiniteSet(1..n)
    BY FS_Interval
  <2> QED BY <1>2, <2>1, FS_Subset
<1> HIDE DEF headings
<1>5. Cardinality(headings) = 1 => headings # {}
  BY FS_EmptySet
<1>6. \A i \in 1..n : i \in 0..n
  OBVIOUS
<1>7. 0 \in 0..n
  OBVIOUS
<1> QED BY <1>1, <1>2, <1>3, <1>5, <1>6, <1>7

\* The units of a line, and of all of them.
BlockOf(L, i) ==
  IF i = TitleAt(L) THEN <<[kind |-> "title", line |-> i, text |-> NoVerdict]>>
  ELSE [k \in DOMAIN L[i].says |-> [kind |-> "sentence", line |-> i, text |-> L[i].says[k]]]
UnitRows == [kind : {"title", "sentence"}, line : Nat, text : Sentences \union {NoVerdict}]
Split(L, U, start) ==
  /\ start \in [1..(Len(L) + 1) -> Nat] /\ start[1] = 0
  /\ U \in Seq(UnitRows) /\ Len(U) = start[Len(L) + 1]
  /\ \A i \in 1..Len(L) : \A k \in 1..Len(L[i].says) : i # TitleAt(L) =>
       /\ start[i] + k \in 1..Len(U) /\ U[start[i] + k].kind = "sentence"
       /\ U[start[i] + k].line = i /\ U[start[i] + k].text = L[i].says[k]
  /\ \A m \in 1..Len(U) : U[m].kind # "title" =>
       \E i \in 1..Len(L) : \E k \in 1..Len(L[i].says) : i # TitleAt(L) /\ m = start[i] + k
  /\ TitleAt(L) = 0 => \A m \in 1..Len(U) : U[m].kind = "sentence"
  /\ \A i \in 1..Len(L) : start[i + 1] = start[i] + Len(BlockOf(L, i))
  /\ \A i \in 1..Len(L) : i # TitleAt(L) => Len(BlockOf(L, i)) = Len(L[i].says)
  /\ \A i \in 1..Len(L), j \in 1..Len(L) : i < j => start[i + 1] <= start[j]

LEMMA BlocksAre ==
  ASSUME NEW n \in Nat, NEW L \in [1..n -> Lines], NEW i \in 1..n
  PROVE  /\ BlockOf(L, i) \in Seq(UnitRows) /\ Len(BlockOf(L, i)) \in Nat
         /\ i = TitleAt(L) => Len(BlockOf(L, i)) = 1 /\ BlockOf(L, i)[1].kind = "title"
         /\ i # TitleAt(L) =>
              /\ Len(BlockOf(L, i)) = Len(L[i].says)
              /\ \A k \in 1..Len(L[i].says) :
                   /\ BlockOf(L, i)[k].kind = "sentence" /\ BlockOf(L, i)[k].line = i
                   /\ BlockOf(L, i)[k].text = L[i].says[k]
<1>1. L[i] \in Lines /\ i \in Nat
  OBVIOUS
<1>2. /\ L[i].says \in Seq(Sentences) /\ Len(L[i].says) \in Nat
      /\ DOMAIN L[i].says = 1..Len(L[i].says)
  BY <1>1, LineIs
<1>3. CASE i = TitleAt(L)
  <2> DEFINE t == [kind |-> "title", line |-> i, text |-> NoVerdict]
  <2>1. t \in UnitRows /\ t.kind = "title"
    BY <1>1 DEF UnitRows
  <2>2. BlockOf(L, i) = <<t>>
    BY <1>3 DEF BlockOf
  <2> HIDE DEF t
  <2> QED BY <1>3, <2>1, <2>2
<1>4. CASE i # TitleAt(L)
  <2> DEFINE its == L[i].says
             u(k) == [kind |-> "sentence", line |-> i, text |-> its[k]]
             b == BlockOf(L, i)
  <2>1. b = [k \in 1..Len(its) |-> u(k)]
    BY <1>2, <1>4 DEF BlockOf
  <2>2. \A k \in 1..Len(its) : u(k) \in UnitRows
    BY <1>1, <1>2 DEF UnitRows
  <2>3. \A k \in 1..Len(its) : u(k).kind = "sentence" /\ u(k).line = i /\ u(k).text = its[k]
    OBVIOUS
  <2>4. Len(its) \in Nat
    BY <1>2
  <2> HIDE DEF u, b, its
  <2>5. Len(b) = Len(its) /\ b \in Seq(UnitRows) /\ \A k \in 1..Len(its) : b[k] = u(k)
    BY <2>1, <2>2, <2>4
  <2> QED BY <1>4, <2>3, <2>4, <2>5 DEF b, its
<1> QED BY <1>3, <1>4

LEMMA SplitIs ==
  ASSUME NEW L \in Seq(Lines), Len(L) # 0
  PROVE  \E start : Split(L, SplitUnits(L), start)
<1> DEFINE n == Len(L)
           T == TitleAt(L)
           U == SplitUnits(L)
           blocks == [i \in DOMAIN L |-> BlockOf(L, i)]
<1>1. n \in Nat \ {0} /\ DOMAIN L = 1..n /\ L \in [1..n -> Lines]
  OBVIOUS
<1>2. U = FlattenSeq(blocks)
  BY DEF SplitUnits, BlockOf
<1>3. \A i \in 1..n : blocks[i] = BlockOf(L, i)
  BY <1>1
<1> HIDE DEF n
<1>4. blocks \in [1..n -> Seq(UnitRows)]
  BY <1>1, BlocksAre
<1> HIDE DEF blocks, U
<1>13. PICK start : Flattened(start, U, blocks, n, UnitRows)
  BY <1>1, <1>2, <1>4, FlattenIs
<1>5. /\ StartsAre(start, blocks, n)
      /\ U \in Seq(UnitRows) /\ Len(U) = start[n + 1]
      /\ \A i \in 1..n : \A k \in 1..Len(blocks[i]) :
           start[i] + k \in 1..Len(U) /\ U[start[i] + k] = blocks[i][k]
      /\ \A m \in 1..Len(U) : \E i \in 1..n : \E k \in 1..Len(blocks[i]) : m = start[i] + k
  BY <1>13 DEF Flattened
<1>6. start \in [1..(n + 1) -> Nat] /\ start[1] = 0 /\ U \in Seq(UnitRows) /\ Len(U) = start[n + 1]
  BY <1>5 DEF StartsAre
<1>7. ASSUME NEW i \in 1..n, NEW k \in 1..Len(L[i].says), i # T
      PROVE  /\ start[i] + k \in 1..Len(U) /\ U[start[i] + k].kind = "sentence"
             /\ U[start[i] + k].line = i /\ U[start[i] + k].text = L[i].says[k]
  <2>1. /\ Len(blocks[i]) = Len(L[i].says) /\ blocks[i][k].kind = "sentence"
        /\ blocks[i][k].line = i /\ blocks[i][k].text = L[i].says[k]
    BY <1>1, <1>3, <1>7, BlocksAre
  <2>2. start[i] + k \in 1..Len(U) /\ U[start[i] + k] = blocks[i][k]
    BY <1>5, <2>1
  <2> QED BY <2>1, <2>2
<1>8. ASSUME NEW m \in 1..Len(U)
      PROVE  \E i \in 1..n : \/ i = T /\ U[m].kind = "title"
                             \/ i # T /\ \E k \in 1..Len(L[i].says) : m = start[i] + k
  <2>1. PICK i \in 1..n : \E k \in 1..Len(blocks[i]) : m = start[i] + k
    BY <1>5
  <2>2. PICK k \in 1..Len(blocks[i]) : m = start[i] + k
    BY <2>1
  <2>3. U[m] = blocks[i][k]
    BY <1>5, <2>2
  <2>4. CASE i = T
    <3>1. Len(BlockOf(L, i)) = 1 /\ BlockOf(L, i)[1].kind = "title"
      BY <1>1, <2>4, BlocksAre
    <3>3. Len(blocks[i]) = 1
      BY <1>3, <3>1
    <3>2. k = 1
      BY <2>2, <3>3
    <3> QED BY <1>3, <2>3, <2>4, <3>1, <3>2
  <2>5. CASE i # T
    <3>1. Len(BlockOf(L, i)) = Len(L[i].says)
      BY <1>1, <2>5, BlocksAre
    <3> QED BY <1>3, <2>2, <2>5, <3>1
  <2> QED BY <2>4, <2>5
<1>9. ASSUME NEW m \in 1..Len(U), U[m].kind # "title"
      PROVE  \E i \in 1..n : \E k \in 1..Len(L[i].says) : i # T /\ m = start[i] + k
  BY <1>8, <1>9
<1>10. ASSUME T = 0, NEW m \in 1..Len(U) PROVE U[m].kind = "sentence"
  <2>1. PICK i \in 1..n : \/ i = T /\ U[m].kind = "title"
                          \/ i # T /\ \E k \in 1..Len(L[i].says) : m = start[i] + k
    BY <1>8
  <2>2. i # T
    BY <1>1, <1>10
  <2>3. PICK k \in 1..Len(L[i].says) : m = start[i] + k
    BY <2>1, <2>2
  <2> QED BY <1>7, <2>2, <2>3
<1>11. \A i \in 1..n : /\ start[i + 1] = start[i] + Len(BlockOf(L, i))
                       /\ i # T => Len(BlockOf(L, i)) = Len(L[i].says)
  <2> SUFFICES ASSUME NEW i \in 1..n
               PROVE  /\ start[i + 1] = start[i] + Len(BlockOf(L, i))
                      /\ i # T => Len(BlockOf(L, i)) = Len(L[i].says)
    OBVIOUS
  <2>1. start[i + 1] = start[i] + Len(BlockOf(L, i))
    BY <1>3, <1>5 DEF StartsAre
  <2>2. i # T => Len(BlockOf(L, i)) = Len(L[i].says)
    BY <1>1, BlocksAre
  <2> QED BY <2>1, <2>2
<1>12. \A i \in 1..n, j \in 1..n : i < j => start[i + 1] <= start[j]
  <2>1. \A i \in 1..n : Len(blocks[i]) \in Nat
    BY <1>1, <1>3, BlocksAre
  <2>2. \A i \in 1..(n + 1) : \A j \in 1..(n + 1) : i <= j => start[i] <= start[j]
    BY <1>1, <1>5, <2>1, StartsGrow
  <2>3. \A i \in 1..n, j \in 1..n : i < j => i + 1 \in 1..(n + 1) /\ j \in 1..(n + 1) /\ i + 1 <= j
    BY <1>1
  <2> QED BY <2>2, <2>3
<1>14. Split(L, U, start)
  BY <1>6, <1>7, <1>9, <1>10, <1>11, <1>12 DEF Split, n
<1> QED BY <1>14 DEF U

\* The verdicts of the lines do not matter to how they are split.
Alike(L, K) == /\ DOMAIN L = DOMAIN K
               /\ \A i \in DOMAIN L : L[i].says = K[i].says /\ L[i].heading = K[i].heading

OnlyOf(S) == IF Cardinality(S) = 1 THEN CHOOSE i \in S : TRUE ELSE 0

LEMMA SplitAlike ==
  ASSUME NEW L, NEW K, Alike(L, K)
  PROVE  TitleAt(L) = TitleAt(K) /\ SplitUnits(L) = SplitUnits(K)
<1>1. {i \in DOMAIN L : L[i].heading} = {i \in DOMAIN K : K[i].heading}
  BY DEF Alike
<1>2. TitleAt(L) = TitleAt(K)
  <2>1. TitleAt(L) = OnlyOf({i \in DOMAIN L : L[i].heading})
    BY DEF TitleAt, OnlyOf
  <2>2. TitleAt(K) = OnlyOf({i \in DOMAIN K : K[i].heading})
    BY DEF TitleAt, OnlyOf
  <2> QED BY <1>1, <2>1, <2>2
<1>3. \A i \in DOMAIN L : BlockOf(L, i) = BlockOf(K, i)
  BY <1>2 DEF BlockOf, Alike
<1>4. [i \in DOMAIN L |-> BlockOf(L, i)] = [i \in DOMAIN K |-> BlockOf(K, i)]
  BY <1>3 DEF Alike
<1>5. SplitUnits(L) = FlattenSeq([i \in DOMAIN L |-> BlockOf(L, i)])
  BY DEF SplitUnits, BlockOf
<1>6. SplitUnits(K) = FlattenSeq([i \in DOMAIN K |-> BlockOf(K, i)])
  BY DEF SplitUnits, BlockOf
<1> QED BY <1>2, <1>4, <1>5, <1>6

LEMMA UnitNumberIs ==
  ASSUME NEW U \in Seq(UnitRows)
  PROVE  /\ Cardinality(SentencesOf(U)) \in Nat
         /\ \A n \in SentencesOf(U) : NumberOf(U, n) \in 1..Cardinality(SentencesOf(U))
<1>1. IsFiniteSet(SentencesOf(U)) /\ SentencesOf(U) \in SUBSET Nat
  <2>1. IsFiniteSet(1..Len(U)) /\ 1..Len(U) \in SUBSET Nat
    BY FS_Interval
  <2>2. SentencesOf(U) \in SUBSET (1..Len(U))
    BY DEF SentencesOf
  <2> QED BY <2>1, <2>2, FS_Subset
<1>2. Cardinality(SentencesOf(U)) \in Nat
  BY <1>1, FS_CardinalityType
<1>3. ASSUME NEW n \in SentencesOf(U)
      PROVE  NumberOf(U, n) \in 1..Cardinality(SentencesOf(U))
  <2> DEFINE first == {m \in SentencesOf(U) : m <= n}
  <2>1. NumberOf(U, n) = Cardinality(first)
    BY DEF NumberOf
  <2>2. first \in SUBSET SentencesOf(U) /\ n \in first
    BY <1>1
  <2> HIDE DEF first
  <2>3. IsFiniteSet(first) /\ Cardinality(first) <= Cardinality(SentencesOf(U))
    BY <1>1, <2>2, FS_Subset
  <2>4. Cardinality(first) \in Nat /\ Cardinality(first) # 0
    BY <2>2, <2>3, FS_CardinalityType, FS_EmptySet
  <2> QED BY <1>2, <2>1, <2>3, <2>4
<1> QED BY <1>2, <1>3

----------------------------------------------------------------------------
(* What came out of the gate for a unit is what the model said of it.      *)

AnswerRows == [index : Nat, result : Palette]
Answered(U, results) ==
  /\ results \in Seq(AnswerRows)
  /\ FromTheModel(results) /\ Aligned(SentencesOf(U), results)
SaidOf(U, results, i) ==
  {results[NumberOf(U, m)].result : m \in {k \in SentencesOf(U) :
     U[k].line = i /\ results[NumberOf(U, k)].result.kind = "claim"}}

LEMMA AnswerIs ==
  ASSUME NEW U \in Seq(UnitRows), NEW results, Answered(U, results)
  PROVE  /\ DOMAIN results = 1..Cardinality(SentencesOf(U))
         /\ \A n \in DOMAIN results :
              /\ results[n].index = n /\ results[n].result \in Results
              /\ results[n].result.kind # "title" /\ results[n].result.verdict # NoVerdict
         /\ \A m \in SentencesOf(U) : NumberOf(U, m) \in DOMAIN results
<1> DEFINE N == Cardinality(SentencesOf(U))
<1>1. /\ results \in Seq(AnswerRows)
      /\ FromTheModel(results)
      /\ [n \in DOMAIN results |-> results[n].index] = [n \in 1..N |-> n]
  BY DEF Answered, Aligned
<1>2. DOMAIN results = 1..N
  BY <1>1, Zenon
<1>3. \A n \in DOMAIN results : results[n].index = n
  <2> DEFINE g == [n \in DOMAIN results |-> results[n].index]
  <2>1. \A n \in DOMAIN results : g[n] = results[n].index
    OBVIOUS
  <2>2. g = [n \in 1..N |-> n]
    BY <1>1, Zenon
  <2> HIDE DEF g, N
  <2>3. \A n \in 1..N : g[n] = n
    BY <2>2
  <2> QED BY <1>2, <2>1, <2>3
<1>4. \A n \in DOMAIN results : results[n].result \in Results
  <2>1. results \in Seq(AnswerRows)
    BY <1>1
  <2>2. \A n \in 1..Len(results) : results[n] \in AnswerRows
    BY <2>1
  <2>3. DOMAIN results = 1..Len(results)
    BY <2>1
  <2> QED BY <2>2, <2>3, GateAssumption DEF AnswerRows
<1>5. \A m \in SentencesOf(U) : NumberOf(U, m) \in 1..N
  BY UnitNumberIs
<1> QED BY <1>1, <1>2, <1>3, <1>4, <1>5 DEF FromTheModel

LEMMA OutputIs ==
  ASSUME NEW U \in Seq(UnitRows), NEW results, Answered(U, results),
         NEW out, out = Checked(Assemble(U, results))
  PROVE  /\ DOMAIN out = 1..Len(U) /\ Len(out) = Len(U) /\ out = [m \in 1..Len(U) |-> out[m]]
         /\ \A m \in 1..Len(U) :
              /\ out[m].kind = "title" <=> U[m].kind = "title"
              /\ U[m].kind = "sentence" =>
                   /\ out[m] = Ruled(results[NumberOf(U, m)].result)
                   /\ out[m].kind = results[NumberOf(U, m)].result.kind
<1> DEFINE whole == Assemble(U, results)
<1>0. DOMAIN U = 1..Len(U) /\ Len(U) \in Nat
  OBVIOUS
<1>1. /\ DOMAIN whole = 1..Len(U)
      /\ \A m \in 1..Len(U) : whole[m] = IF U[m].kind = "title" THEN Title
                                         ELSE results[NumberOf(U, m)].result
  BY <1>0 DEF Assemble
<1> HIDE DEF whole
<1>2. out = [m \in DOMAIN whole |-> Ruled(whole[m])]
  BY DEF Checked, Ruled, whole
<1>3. DOMAIN out = 1..Len(U) /\ \A m \in 1..Len(U) : out[m] = Ruled(whole[m])
  BY <1>1, <1>2
<1>4. out = [m \in 1..Len(U) |-> out[m]] /\ Len(out) = Len(U)
  <2>1. out = [m \in 1..Len(U) |-> Ruled(whole[m])]
    BY <1>1, <1>2
  <2>2. out = [m \in 1..Len(U) |-> out[m]]
    BY <1>3, <2>1
  <2> QED BY <1>0, <1>3, <2>2
<1>5. Title \in Results /\ Title.kind = "title"
  BY DEF Title, Results
<1>6. ASSUME NEW m \in 1..Len(U)
      PROVE  /\ out[m].kind = "title" <=> U[m].kind = "title"
             /\ U[m].kind = "sentence" =>
                  /\ out[m] = Ruled(results[NumberOf(U, m)].result)
                  /\ out[m].kind = results[NumberOf(U, m)].result.kind
  <2>1. U[m].kind \in {"title", "sentence"}
    <3>1. U[m] \in UnitRows
      BY <1>0
    <3> QED BY <3>1 DEF UnitRows
  <2>2. CASE U[m].kind = "title"
    <3>1. out[m] = Ruled(Title)
      BY <1>1, <1>3, <2>2
    <3>2. Ruled(Title).kind = "title"
      BY <1>5, RulesAre
    <3> QED BY <2>2, <3>1, <3>2
  <2>3. CASE U[m].kind = "sentence"
    <3> DEFINE r == results[NumberOf(U, m)].result
    <3>1. m \in SentencesOf(U)
      BY <1>0, <2>3 DEF SentencesOf
    <3>2. r \in Results /\ r.kind # "title"
      BY <3>1, AnswerIs
    <3>3. out[m] = Ruled(r)
      BY <1>1, <1>3, <2>3
    <3> HIDE DEF r
    <3>4. Ruled(r).kind = r.kind
      BY <3>2, RulesAre
    <3>5. out[m].kind = r.kind
      BY <3>3, <3>4
    <3> QED BY <2>3, <3>2, <3>3, <3>5 DEF r
  <2> QED BY <2>1, <2>2, <2>3
<1> QED BY <1>3, <1>4, <1>6

VerdictsIn(U, out, i) ==
  {out[n].verdict : n \in {m \in SentencesOf(U) : U[m].line = i /\ out[m].kind = "claim"}}
VerdictsOn(C) == {Ruled(r).verdict : r \in C}

LEMMA VerdictsOfLine ==
  ASSUME NEW U \in Seq(UnitRows), NEW results, Answered(U, results),
         NEW out, out = Checked(Assemble(U, results)), NEW i
  PROVE  /\ SaidOf(U, results, i) \in SUBSET Claims
         /\ VerdictsIn(U, out, i) = VerdictsOn(SaidOf(U, results, i))
<1> DEFINE C == SaidOf(U, results, i)
           r(m) == results[NumberOf(U, m)].result
           P == {m \in SentencesOf(U) : U[m].line = i /\ out[m].kind = "claim"}
<1>1. \A m \in SentencesOf(U) : m \in 1..Len(U) /\ U[m].kind = "sentence"
  BY DEF SentencesOf
<1>2. \A m \in SentencesOf(U) : out[m] = Ruled(r(m)) /\ out[m].kind = r(m).kind
  BY <1>1, OutputIs
<1>3. \A m \in SentencesOf(U) : r(m) \in Results /\ r(m).verdict # NoVerdict
  BY AnswerIs
<1>4. C = {r(m) : m \in {k \in SentencesOf(U) : U[k].line = i /\ r(k).kind = "claim"}}
  BY DEF SaidOf
<1> HIDE DEF C, r
<1>5. P = {k \in SentencesOf(U) : U[k].line = i /\ r(k).kind = "claim"}
  BY <1>2
<1>6. \A m \in P : m \in SentencesOf(U) /\ r(m).kind = "claim"
  BY <1>5
<1>7. C = {r(m) : m \in P}
  BY <1>4, <1>5
<1> HIDE DEF P
<1>8. C \in SUBSET Claims
  BY <1>3, <1>6, <1>7 DEF Claims
<1>9. \A m \in P : out[m].verdict = Ruled(r(m)).verdict
  BY <1>2, <1>6
<1>10. {out[m].verdict : m \in P} = {Ruled(q).verdict : q \in C}
  BY <1>7, <1>9
<1>11. VerdictsIn(U, out, i) = {out[m].verdict : m \in P}
  BY DEF VerdictsIn, P
<1>12. VerdictsOn(C) = {Ruled(q).verdict : q \in C}
  BY DEF VerdictsOn
<1> QED BY <1>8, <1>10, <1>11, <1>12 DEF C

\* What the model said of the claims of a line, found by the numbers it gave them.
ClaimsIn(L, results, i) ==
  {results[n].result : n \in {m \in DOMAIN results :
     /\ results[m].result.kind = "claim"
     /\ \E k \in SentencesOf(SplitUnits(L)) :
          NumberOf(SplitUnits(L), k) = results[m].index /\ SplitUnits(L)[k].line = i}}

LEMMA ClaimsAre ==
  ASSUME NEW L, SplitUnits(L) \in Seq(UnitRows), NEW results,
         Answered(SplitUnits(L), results), NEW i
  PROVE  ClaimsIn(L, results, i) = SaidOf(SplitUnits(L), results, i)
<1> DEFINE U == SplitUnits(L)
           A == {m \in DOMAIN results :
                   /\ results[m].result.kind = "claim"
                   /\ \E k \in SentencesOf(U) : NumberOf(U, k) = results[m].index /\ U[k].line = i}
           B == {k \in SentencesOf(U) :
                   U[k].line = i /\ results[NumberOf(U, k)].result.kind = "claim"}
<1>1. /\ \A n \in DOMAIN results : results[n].index = n
      /\ \A m \in SentencesOf(U) : NumberOf(U, m) \in DOMAIN results
  BY AnswerIs
<1> HIDE DEF U
<1>2. \A m \in A : \E k \in B : m = NumberOf(U, k)
  BY <1>1
<1>3. \A k \in B : NumberOf(U, k) \in A
  BY <1>1
<1> HIDE DEF A, B
<1>4. {results[m].result : m \in A} = {results[NumberOf(U, k)].result : k \in B}
  BY <1>2, <1>3
<1> QED BY <1>4 DEF ClaimsIn, SaidOf, A, B, U

\* What a line may be shown as, with these claims.
ShownAs(verdict, C) ==
  /\ verdict \in Verdicts \union {"framing"} /\ verdict # NoVerdict
  /\ verdict = "framing" <=> C = {}
  /\ verdict = "supported" <=> C # {} /\ \A r \in C : Earned(r)
  /\ verdict = "unsupported" <=> \E r \in C : r.verdict = "unsupported"

LEMMA WorstIsShown ==
  ASSUME NEW C \in SUBSET Claims
  PROVE  ShownAs(Worst(VerdictsOn(C)), C)
<1> DEFINE w == Worst(VerdictsOn(C))
<1>1. /\ w \in Verdicts \union {"framing"} /\ w # NoVerdict
      /\ w = "framing" <=> C = {}
      /\ w = "supported" <=> C # {} /\ \A r \in C : Earned(r)
      /\ w = "unsupported" <=> \E r \in C : r.verdict = "unsupported"
  BY WorstOfClaims DEF VerdictsOn
<1> HIDE DEF w
<1>2. ShownAs(w, C)
  BY <1>1 DEF ShownAs
<1> QED BY <1>2 DEF w

----------------------------------------------------------------------------
(* What the model wrote: by counting.                                      *)

LEMMA CountsAre ==
  ASSUME NEW L \in Seq(Lines), Len(L) # 0, TitleAt(L) = 0, \A i \in DOMAIN L : ~L[i].heading
  PROVE  /\ Counts(L) \in [1..Len(L) -> Nat]
         /\ \A i \in 1..Len(L) : Counts(L)[i] = Len(L[i].says)
<1>1. /\ DOMAIN L = 1..Len(L) /\ Len(L) \in Nat
      /\ \A i \in 1..Len(L) : L[i] \in Lines
  OBVIOUS
<1>2. ASSUME NEW i \in 1..Len(L) PROVE Len(SplitUnits(<<L[i]>>)) = Len(L[i].says)
  <2> DEFINE K == <<L[i]>>
  <2>1. K \in Seq(Lines) /\ Len(K) = 1 /\ K[1] = L[i] /\ K \in [1..1 -> Lines] /\ 1 \in 1..1
    BY <1>1
  <2>2. ~K[1].heading
    BY <1>1, <2>1
  <2> HIDE DEF K
  <2>3. TitleAt(K) = 0
    <3>1. \A j \in 1..1 : ~K[j].heading
      BY <2>2
    <3> QED BY <2>1, <3>1, TitleIs
  <2>4. PICK start : Split(K, SplitUnits(K), start)
    <3>1. K \in Seq(Lines) /\ Len(K) # 0
      BY <2>1
    <3> QED BY <3>1, SplitIs
  <2>5. /\ start[1] = 0 /\ Len(SplitUnits(K)) = start[2]
        /\ start[2] = start[1] + Len(BlockOf(K, 1)) /\ Len(BlockOf(K, 1)) = Len(K[1].says)
    <3>1. /\ start[1] = 0 /\ Len(SplitUnits(K)) = start[Len(K) + 1]
          /\ \A j \in 1..Len(K) : start[j + 1] = start[j] + Len(BlockOf(K, j))
          /\ \A j \in 1..Len(K) : j # TitleAt(K) => Len(BlockOf(K, j)) = Len(K[j].says)
      BY <2>4 DEF Split
    <3>2. 1 \in 1..Len(K) /\ 1 # TitleAt(K) /\ 1 + 1 = 2
      BY <2>1, <2>3
    <3> QED BY <2>1, <3>1, <3>2
  <2>6. Len(K[1].says) \in Nat
    BY <1>1, <2>1, LineIs
  <2>7. Len(SplitUnits(K)) = Len(K[1].says)
    BY <2>5, <2>6
  <2> QED BY <2>1, <2>7 DEF K
<1>3. Counts(L) = [i \in 1..Len(L) |-> Len(SplitUnits(<<L[i]>>))]
  BY <1>1 DEF Counts
<1>4. \A i \in 1..Len(L) : Len(L[i].says) \in Nat
  BY <1>1, LineIs
<1> QED BY <1>2, <1>3, <1>4

LEMMA CountedIs ==
  ASSUME NEW L \in Seq(Lines), Len(L) # 0, \A i \in DOMAIN L : ~L[i].heading,
         NEW results, Answered(SplitUnits(L), results),
         NEW out, out = Checked(Assemble(SplitUnits(L), results))
  PROVE  /\ LinesUp(L, out)
         /\ \A i \in 1..Len(L) :
              LineVerdict(SubSeq(out, Before(Counts(L), i) + 1, Before(Counts(L), i) + Counts(L)[i]))
                = Worst(VerdictsOn(SaidOf(SplitUnits(L), results, i)))
<1> DEFINE n == Len(L)
           U == SplitUnits(L)
           counts == Counts(L)
           blocks == [i \in 1..n |-> BlockOf(L, i)]
<1>1. /\ DOMAIN L = 1..n /\ n \in Nat \ {0} /\ L \in [1..n -> Lines]
      /\ \A i \in 1..n : L[i] \in Lines
  OBVIOUS
<1>2. TitleAt(L) = 0
  BY <1>1, TitleIs
<1>3. counts \in [1..n -> Nat] /\ \A i \in 1..n : counts[i] = Len(L[i].says)
  BY <1>2, CountsAre
<1>4. PICK start : Split(L, U, start)
  BY SplitIs
<1>5. /\ start \in [1..(n + 1) -> Nat] /\ start[1] = 0
      /\ U \in Seq(UnitRows) /\ Len(U) = start[n + 1]
      /\ \A i \in 1..n : \A k \in 1..Len(L[i].says) :
           /\ start[i] + k \in 1..Len(U) /\ U[start[i] + k].kind = "sentence"
           /\ U[start[i] + k].line = i
      /\ \A m \in 1..Len(U) : U[m].kind = "sentence" /\
           \E i \in 1..n : \E k \in 1..Len(L[i].says) : m = start[i] + k
      /\ \A i \in 1..n : /\ start[i + 1] = start[i] + Len(BlockOf(L, i))
                         /\ Len(BlockOf(L, i)) = Len(L[i].says)
  <2>1. \A i \in 1..n : i # TitleAt(L)
    BY <1>1, <1>2
  <2>2. /\ start \in [1..(n + 1) -> Nat] /\ start[1] = 0
        /\ U \in Seq(UnitRows) /\ Len(U) = start[n + 1]
    BY <1>4 DEF Split
  <2>3. \A i \in 1..n : \A k \in 1..Len(L[i].says) : i # TitleAt(L) =>
           /\ start[i] + k \in 1..Len(U) /\ U[start[i] + k].kind = "sentence"
           /\ U[start[i] + k].line = i
    BY <1>4 DEF Split
  <2>4. \A m \in 1..Len(U) : U[m].kind = "sentence"
    BY <1>2, <1>4 DEF Split
  <2>5. \A m \in 1..Len(U) : U[m].kind # "title" =>
           \E i \in 1..n : \E k \in 1..Len(L[i].says) : m = start[i] + k
    BY <1>4 DEF Split
  <2>6. \A i \in 1..n : /\ start[i + 1] = start[i] + Len(BlockOf(L, i))
                        /\ i # TitleAt(L) => Len(BlockOf(L, i)) = Len(L[i].says)
    BY <1>4 DEF Split
  <2> HIDE DEF U, n
  <2>7. \A i \in 1..n : \A k \in 1..Len(L[i].says) :
           /\ start[i] + k \in 1..Len(U) /\ U[start[i] + k].kind = "sentence"
           /\ U[start[i] + k].line = i
    BY <2>1, <2>3
  <2>8. \A m \in 1..Len(U) : U[m].kind # "title"
    BY <2>4
  <2>9. \A m \in 1..Len(U) : U[m].kind = "sentence" /\
           \E i \in 1..n : \E k \in 1..Len(L[i].says) : m = start[i] + k
    BY <2>4, <2>5, <2>8
  <2>10. \A i \in 1..n : /\ start[i + 1] = start[i] + Len(BlockOf(L, i))
                         /\ Len(BlockOf(L, i)) = Len(L[i].says)
    BY <2>1, <2>6
  <2> QED BY <2>2, <2>7, <2>9, <2>10
<1>6. /\ DOMAIN out = 1..Len(U) /\ Len(out) = Len(U) /\ out = [m \in 1..Len(U) |-> out[m]]
      /\ \A m \in 1..Len(U) : out[m].kind = "title" <=> U[m].kind = "title"
  BY <1>5, OutputIs
<1>12. U \in Seq(UnitRows) /\ Answered(U, results) /\ out = Checked(Assemble(U, results))
  BY <1>5
<1> HIDE DEF n, U
<1>7. \A i \in 1..n : blocks[i] = BlockOf(L, i)
  OBVIOUS
<1> HIDE DEF blocks, counts
<1>8. StartsAre(start, blocks, n) /\ CountsOf(counts, blocks, n)
  <2>1. start \in [1..(n + 1) -> Nat] /\ start[1] = 0
    BY <1>5
  <2>2. \A i \in 1..n : /\ start[i + 1] = start[i] + Len(blocks[i])
                         /\ Len(blocks[i]) = Len(L[i].says)
    <3> SUFFICES ASSUME NEW i \in 1..n
                 PROVE  /\ start[i + 1] = start[i] + Len(blocks[i])
                        /\ Len(blocks[i]) = Len(L[i].says)
      OBVIOUS
    <3>1. /\ start[i + 1] = start[i] + Len(BlockOf(L, i))
          /\ Len(BlockOf(L, i)) = Len(L[i].says)
      BY <1>5
    <3>2. blocks[i] = BlockOf(L, i)
      BY <1>7
    <3> QED BY <3>1, <3>2
  <2>3. \A i \in 1..n : counts[i] = Len(blocks[i])
    BY <1>3, <2>2
  <2> QED BY <1>3, <2>1, <2>2, <2>3 DEF StartsAre, CountsOf
<1>9. (\A i \in 1..n : Before(counts, i) = start[i]) /\ Sum(counts) = start[n + 1]
  <2>1. n \in Nat \ {0}
    BY <1>1
  <2> QED BY <1>8, <2>1, BeforeIs
<1>13. \A i \in 1..n : start[i] + counts[i] <= Len(U)
  <2>1. \A i \in 1..n : Len(blocks[i]) \in Nat
    BY <1>8 DEF CountsOf
  <2>2. \A i \in 1..(n + 1) : \A j \in 1..(n + 1) : i <= j => start[i] <= start[j]
    BY <1>1, <1>8, <2>1, StartsGrow
  <2>3. \A i \in 1..n : i + 1 \in 1..(n + 1) /\ n + 1 \in 1..(n + 1) /\ i + 1 <= n + 1
    BY <1>1
  <2>4. \A i \in 1..n : start[i + 1] <= start[n + 1]
    BY <2>2, <2>3
  <2>5. \A i \in 1..n : start[i + 1] = start[i] + counts[i]
    BY <1>8 DEF StartsAre, CountsOf
  <2> QED BY <1>5, <2>4, <2>5
<1>10. LinesUp(L, out)
  <2>1. \A m \in DOMAIN out : out[m].kind # "title"
    BY <1>5, <1>6
  <2>2. FoldLeft(+, 0, Counts(L)) = Len(out)
    BY <1>5, <1>6, <1>9 DEF counts, Sum
  <2> QED BY <2>1, <2>2 DEF LinesUp
<1>11. ASSUME NEW i \in 1..n
       PROVE  LineVerdict(SubSeq(out, Before(counts, i) + 1, Before(counts, i) + counts[i]))
                = Worst(VerdictsOn(SaidOf(U, results, i)))
  <2> DEFINE s == start[i]
             c == counts[i]
             part == SubSeq(out, s + 1, s + c)
             P == {m \in SentencesOf(U) : U[m].line = i /\ out[m].kind = "claim"}
             Q == {k \in DOMAIN part : part[k].kind = "claim"}
  <2>1. s \in Nat /\ c \in Nat /\ Before(counts, i) = s /\ c = Len(L[i].says)
    <3>1. i \in 1..(n + 1)
      BY <1>1
    <3>2. start[i] \in Nat
      BY <1>5, <3>1
    <3>3. counts[i] \in Nat /\ counts[i] = Len(L[i].says)
      BY <1>3
    <3> QED BY <1>9, <3>2, <3>3
  <2>2. \A k \in 1..c : s + k \in 1..Len(U) /\ U[s + k].kind = "sentence" /\ U[s + k].line = i
    BY <1>5, <2>1
  <2>3. ASSUME NEW m \in 1..Len(U), U[m].line = i PROVE \E k \in 1..c : m = s + k
    <3>1. PICK j \in 1..n : \E k \in 1..Len(L[j].says) : m = start[j] + k
      BY <1>5
    <3>2. PICK k \in 1..Len(L[j].says) : m = start[j] + k
      BY <3>1
    <3>3. U[m].line = j
      BY <1>5, <3>2
    <3>4. j = i
      BY <2>3, <3>3
    <3> QED BY <2>1, <3>2, <3>4
  <2>4. /\ \A m \in SentencesOf(U) : m \in 1..Len(U)
        /\ \A m \in 1..Len(U) : m \in SentencesOf(U)
    BY <1>5 DEF SentencesOf
  <2> HIDE DEF s, c
  <2>5. DOMAIN part = 1..c /\ \A k \in 1..c : part[k] = out[s + k]
    <3> DEFINE all == {out[m] : m \in 1..Len(U)}
    <3>1. s + 1 \in Int /\ s + c \in Int /\ s + c <= Len(U) /\ Len(U) \in Nat
      BY <1>12, <1>13, <2>1 DEF s, c
    <3>2. \A m \in (s + 1)..(s + c) : out[m] \in all
      <4>1. \A m \in (s + 1)..(s + c) : m \in 1..Len(U)
        BY <2>1, <3>1
      <4> QED BY <4>1
    <3> HIDE DEF all
    <3>3. /\ part \in Seq(all)
          /\ Len(part) = IF s + 1 <= s + c THEN (s + c) - (s + 1) + 1 ELSE 0
          /\ \A k \in 1..((s + c) - (s + 1) + 1) : part[k] = out[(s + 1) + k - 1]
      BY <3>1, <3>2, SubSeqProperties
    <3>4. Len(part) = c /\ (s + c) - (s + 1) + 1 = c /\ DOMAIN part = 1..Len(part)
      BY <2>1, <3>3
    <3>5. \A k \in 1..c : (s + 1) + k - 1 = s + k
      BY <2>1
    <3> HIDE DEF part
    <3> QED BY <3>3, <3>4, <3>5
  <2> HIDE DEF part
  <2>6. \A k \in Q : s + k \in P /\ part[k] = out[s + k]
    BY <2>2, <2>4, <2>5
  <2>7. \A m \in P : \E k \in Q : m = s + k
    <3> SUFFICES ASSUME NEW m \in P PROVE \E k \in Q : m = s + k
      OBVIOUS
    <3>1. m \in 1..Len(U) /\ U[m].line = i /\ out[m].kind = "claim"
      BY <2>4
    <3>2. PICK k \in 1..c : m = s + k
      BY <2>3, <3>1
    <3> QED BY <2>5, <3>1, <3>2
  <2> HIDE DEF P, Q
  <2>8. {part[k].verdict : k \in Q} = {out[m].verdict : m \in P}
    BY <2>6, <2>7
  <2>9. {out[m].verdict : m \in P} = VerdictsOn(SaidOf(U, results, i))
    <3>1. VerdictsIn(U, out, i) = VerdictsOn(SaidOf(U, results, i))
      BY <1>12, VerdictsOfLine
    <3> QED BY <3>1 DEF P, VerdictsIn
  <2>10. LineVerdict(part) = Worst({part[k].verdict : k \in Q})
    BY DEF LineVerdict, Q
  <2>11. Before(counts, i) = s /\ counts[i] = c
    BY <2>1 DEF c
  <2> QED BY <2>8, <2>9, <2>10, <2>11 DEF part
<1> QED BY <1>10, <1>11 DEF n, U, counts

----------------------------------------------------------------------------
(* What the user typed: by finding each sentence again, from where the     *)
(* last one was found.                                                     *)

After(p, from) == p[1] > from[1] \/ (p[1] = from[1] /\ p[2] > from[2])
HeldBy(L, from, text) ==
  {p \in (DOMAIN L) \X (1..MaxSaid) :
     /\ p[2] \in DOMAIN L[p[1]].says
     /\ (p[1] > from[1] \/ (p[1] = from[1] /\ p[2] > from[2]))
     /\ <<text, L[p[1]].says[p[2]]>> \in Within}

LEMMA FindIs ==
  ASSUME NEW L \in Seq(Lines), NEW from, NEW text, NEW i \in Nat, NEW k \in Nat,
         <<i, k>> \in HeldBy(L, from, text),
         \A q \in HeldBy(L, from, text) : i < q[1] \/ (i = q[1] /\ k <= q[2])
  PROVE  Find(L, from, text) = <<i, k>>
<1> DEFINE H == HeldBy(L, from, text)
           Least(p) == \A q \in H : p[1] < q[1] \/ (p[1] = q[1] /\ p[2] <= q[2])
           r == CHOOSE p \in H : Least(p)
<1>1. Find(L, from, text) = IF H = {} THEN <<>> ELSE r
  BY DEF Find, HeldBy
<1>2. \A q \in H : q[1] \in Nat /\ q[2] \in Nat /\ q = <<q[1], q[2]>>
  <2>1. DOMAIN L \in SUBSET Nat /\ 1..MaxSaid \in SUBSET Nat
    BY GateAssumption
  <2> QED BY <2>1 DEF HeldBy
<1>3. <<i, k>> \in H /\ Least(<<i, k>>)
  OBVIOUS
<1>4. r \in H /\ Least(r)
  <2> HIDE DEF H, Least
  <2> QED BY <1>3
<1> HIDE DEF r
<1>5. \/ r[1] < i
      \/ r[1] = i /\ r[2] <= k
  <2>1. \A q \in H : r[1] < q[1] \/ (r[1] = q[1] /\ r[2] <= q[2])
    BY <1>4
  <2>2. r[1] < <<i, k>>[1] \/ (r[1] = <<i, k>>[1] /\ r[2] <= <<i, k>>[2])
    BY <1>3, <2>1
  <2> QED BY <2>2
<1>6. i < r[1] \/ (i = r[1] /\ k <= r[2])
  BY <1>4
<1>7. r[1] \in Nat /\ r[2] \in Nat /\ r = <<r[1], r[2]>> /\ H # {}
  BY <1>2, <1>4
<1> HIDE DEF H, Least
<1>8. r[1] = i /\ r[2] = k
  BY <1>5, <1>6, <1>7
<1> QED BY <1>1, <1>7, <1>8

PlaceStep(L, U, out, d, n) ==
  LET p == IF out[n].kind = "title" THEN <<>> ELSE Find(L, d.from, U[n].text)
  IN IF p = <<>> THEN d ELSE [from |-> p, of |-> d.of \union {<<p[1], n>>}]
Nowhere == [from |-> <<1, 0>>, of |-> {}]
IsPlacing(d, N, L, U, out) ==
  d = [n \in 0..N |-> IF n = 0 THEN Nowhere ELSE PlaceStep(L, U, out, d[n - 1], n)]

LEMMA PlacingExists ==
  ASSUME NEW L, NEW U, NEW out, NEW N \in Nat
  PROVE  \E d : IsPlacing(d, N, L, U, out)
<1> DEFINE S == {m \in 0..N : ~ \E d : IsPlacing(d, m, L, U, out)}
<1>1. S \in SUBSET (0..N) /\ \A m \in S : ~ \E d : IsPlacing(d, m, L, U, out)
  OBVIOUS
<1>2. \A m \in 0..N : m \notin S => \E d : IsPlacing(d, m, L, U, out)
  OBVIOUS
<1> HIDE DEF S
<1>3. ASSUME S # {} PROVE FALSE
  <2>1. PICK k \in S : k \in 0..N /\ \A m \in 0..N : m < k => m \notin S
    BY <1>1, <1>3, FirstOf
  <2>2. CASE k = 0
    <3> DEFINE g == [n \in 0..0 |-> Nowhere]
    <3>1. \A n \in 0..0 : n = 0
      OBVIOUS
    <3>2. IsPlacing(g, 0, L, U, out)
      <4>1. [n \in 0..0 |-> IF n = 0 THEN Nowhere ELSE PlaceStep(L, U, out, g[n - 1], n)] = g
        BY <3>1
      <4> QED BY <4>1 DEF IsPlacing
    <3> QED BY <1>1, <2>2, <3>2
  <2>3. CASE k # 0
    <3>1. k - 1 \in 0..N /\ k - 1 < k /\ k \in Nat /\ k > 0
      BY <2>1, <2>3
    <3>2. PICK f : IsPlacing(f, k - 1, L, U, out)
      BY <1>2, <2>1, <3>1
    <3> DEFINE Next1(h, n) == IF n = 0 THEN Nowhere ELSE PlaceStep(L, U, out, h[n - 1], n)
               g == [n \in 0..k |-> IF n = k THEN PlaceStep(L, U, out, f[k - 1], k) ELSE f[n]]
    <3>3. f = [n \in 0..(k - 1) |-> Next1(f, n)]
      BY <3>2 DEF IsPlacing
    <3>4. \A n \in 0..(k - 1) : f[n] = Next1(f, n)
      <4> HIDE DEF Next1
      <4> QED BY <3>3
    <3>5. /\ DOMAIN g = 0..k /\ g = [n \in 0..k |-> g[n]]
          /\ g[k] = PlaceStep(L, U, out, f[k - 1], k)
          /\ \A n \in 0..(k - 1) : g[n] = f[n]
      BY <3>1
    <3> HIDE DEF g
    <3>6. \A n \in 0..k : g[n] = Next1(g, n)
      <4> SUFFICES ASSUME NEW n \in 0..k PROVE g[n] = Next1(g, n)
        OBVIOUS
      <4>1. CASE n = k
        <5>1. k - 1 \in 0..(k - 1)
          BY <3>1
        <5>2. g[k - 1] = f[k - 1]
          BY <3>5, <5>1
        <5> QED BY <2>3, <3>5, <4>1, <5>2
      <4>2. CASE n # k
        <5>1. n \in 0..(k - 1) /\ (n # 0 => n - 1 \in 0..(k - 1))
          BY <3>1, <4>2
        <5>2. g[n] = f[n] /\ (n # 0 => g[n - 1] = f[n - 1])
          BY <3>5, <5>1
        <5>3. f[n] = Next1(f, n)
          BY <3>4, <5>1
        <5> QED BY <5>2, <5>3
      <4> QED BY <4>1, <4>2
    <3>7. g = [n \in 0..k |-> Next1(g, n)]
      <4> HIDE DEF Next1
      <4> QED BY <3>5, <3>6
    <3>8. IsPlacing(g, k, L, U, out)
      BY <3>7 DEF IsPlacing
    <3> QED BY <1>1, <3>8
  <2> QED BY <2>2, <2>3
<1>4. N \in 0..N
  OBVIOUS
<1> QED BY <1>2, <1>3, <1>4

\* In the order of the document is in the order of the units.
LEMMA OrderIs ==
  ASSUME NEW L \in Seq(Lines), NEW U, NEW start, Split(L, U, start),
         NEW i \in 1..Len(L), NEW k \in 1..Len(L[i].says), i # TitleAt(L),
         NEW j \in 1..Len(L), NEW l \in 1..Len(L[j].says), j # TitleAt(L)
  PROVE  (j > i \/ (j = i /\ l > k)) <=> start[j] + l > start[i] + k
<1> DEFINE n == Len(L)
           li == Len(L[i].says)
           lj == Len(L[j].says)
<1>1. n \in Nat /\ L[i] \in Lines /\ L[j] \in Lines
  OBVIOUS
<1>2. li \in Nat /\ lj \in Nat
  BY <1>1, LineIs
<1>3. /\ start \in [1..(n + 1) -> Nat]
      /\ \A a \in 1..n : start[a + 1] = start[a] + Len(BlockOf(L, a))
      /\ \A a \in 1..n : a # TitleAt(L) => Len(BlockOf(L, a)) = Len(L[a].says)
      /\ \A a \in 1..n, b \in 1..n : a < b => start[a + 1] <= start[b]
  BY DEF Split
<1>4. start[i] \in Nat /\ start[j] \in Nat
  <2>1. i \in 1..(n + 1) /\ j \in 1..(n + 1)
    BY <1>1
  <2> HIDE DEF n
  <2> QED BY <1>3, <2>1
<1>5. start[i + 1] = start[i] + li /\ start[j + 1] = start[j] + lj
  BY <1>3
<1>6. (i < j => start[i + 1] <= start[j]) /\ (j < i => start[j + 1] <= start[i])
  BY <1>3
<1>7. i \in Nat /\ j \in Nat /\ k \in Nat /\ l \in Nat /\ k >= 1 /\ l >= 1 /\ k <= li /\ l <= lj
  BY <1>1, <1>2
<1> HIDE DEF li, lj, n
<1>8. CASE j > i
  BY <1>2, <1>4, <1>5, <1>6, <1>7, <1>8
<1>9. CASE j < i
  BY <1>2, <1>4, <1>5, <1>6, <1>7, <1>9
<1>10. CASE j = i
  BY <1>4, <1>7, <1>10
<1> QED BY <1>7, <1>8, <1>9, <1>10

SentencesTo(U, n) == {<<U[m].line, m>> : m \in {k \in SentencesOf(U) : k <= n}}
PlacedTo(L, U, start, d, n) ==
  /\ d.of = SentencesTo(U, n)
  /\ \A i \in 1..Len(L) : \A k \in 1..Len(L[i].says) :
       i # TitleAt(L) => (After(<<i, k>>, d.from) <=> start[i] + k > n)
UnmistakableIn(L) == \A i \in (TitleAt(L) + 1)..Len(L) : TitleAt(L) # 0 =>
  \A n \in DOMAIN L[i].says, m \in DOMAIN L[TitleAt(L)].says :
    <<L[i].says[n], L[TitleAt(L)].says[m]>> \notin Within

\* The next sentence is found where it stands, and where a sentence of the title
\* comes first it does not occur in it.
LEMMA NextIsFound ==
  ASSUME NEW L \in Seq(Lines), NEW U, NEW start, Split(L, U, start), UnmistakableIn(L),
         NEW d, NEW n \in Nat, PlacedTo(L, U, start, d, n),
         NEW i \in 1..Len(L), NEW k \in 1..Len(L[i].says), i # TitleAt(L), n + 1 = start[i] + k
  PROVE  Find(L, d.from, L[i].says[k]) = <<i, k>>
<1> DEFINE text == L[i].says[k]
           H == HeldBy(L, d.from, text)
<1>1. /\ DOMAIN L = 1..Len(L) /\ Len(L) \in Nat
      /\ \A j \in 1..Len(L) : /\ L[j].says \in Seq(Sentences) /\ Len(L[j].says) \in 1..MaxSaid
                              /\ Len(L[j].says) \in Nat
                              /\ DOMAIN L[j].says = 1..Len(L[j].says)
  BY LineIs
<1>2. MaxSaid \in Nat /\ \A a \in Sentences : <<a, a>> \in Within
  BY GateAssumption
<1>3. TitleAt(L) \in 0..Len(L)
  <2>1. L \in [1..Len(L) -> Lines]
    OBVIOUS
  <2> QED BY <1>1, <2>1, TitleIs
<1>4. i \in Nat /\ k \in Nat /\ k \in 1..MaxSaid /\ k \in DOMAIN L[i].says
  BY <1>1, <1>2
<1>5. text \in Sentences
  BY <1>1, <1>4
<1>6. start[i] + k > n
  BY <1>4
<1>7. After(<<i, k>>, d.from)
  BY <1>6 DEF PlacedTo
<1>8. <<i, k>> \in H
  <2>1. <<i, k>> \in (DOMAIN L) \X (1..MaxSaid)
    BY <1>1, <1>4
  <2>2. i > d.from[1] \/ (i = d.from[1] /\ k > d.from[2])
    BY <1>7 DEF After
  <2>3. <<text, L[i].says[k]>> \in Within
    BY <1>2, <1>5
  <2> QED BY <1>4, <2>1, <2>2, <2>3 DEF HeldBy
<1>9. ASSUME NEW q \in H PROVE i < q[1] \/ (i = q[1] /\ k <= q[2])
  <2> DEFINE j == q[1]
             l == q[2]
  <2>1. /\ j \in 1..Len(L) /\ l \in 1..MaxSaid /\ l \in DOMAIN L[j].says
        /\ (j > d.from[1] \/ (j = d.from[1] /\ l > d.from[2]))
        /\ <<text, L[j].says[l]>> \in Within
    BY <1>1 DEF HeldBy
  <2>2. l \in 1..Len(L[j].says) /\ j \in Nat /\ l \in Nat
    BY <1>1, <2>1
  <2> HIDE DEF j, l, text
  <2>3. CASE j # TitleAt(L)
    <3>1. After(<<j, l>>, d.from)
      BY <2>1 DEF After
    <3>2. start[j] + l > n
      BY <2>1, <2>2, <2>3, <3>1 DEF PlacedTo
    <3>3. start[j] + l \in Nat /\ start[i] + k \in Nat
      <4>1. start \in [1..(Len(L) + 1) -> Nat]
        BY DEF Split
      <4>2. i \in 1..(Len(L) + 1) /\ j \in 1..(Len(L) + 1)
        BY <1>1, <2>1
      <4>3. start[i] \in Nat /\ start[j] \in Nat
        BY <4>1, <4>2
      <4>4. k \in Nat /\ l \in Nat
        BY <1>4, <2>2
      <4> QED BY <4>3, <4>4
    <3>4. ~ (start[i] + k > start[j] + l)
      BY <3>2, <3>3
    <3>5. ~ (i > j \/ (i = j /\ k > l))
      BY <2>1, <2>2, <2>3, <3>4, OrderIs
    <3> QED BY <1>4, <2>2, <3>5 DEF j, l
  <2>4. CASE j = TitleAt(L)
    <3>1. CASE i > j
      <4>1. i \in (TitleAt(L) + 1)..Len(L) /\ TitleAt(L) # 0
        BY <1>1, <1>3, <1>4, <2>1, <2>2, <2>4, <3>1
      <4>2. \A a \in DOMAIN L[i].says, b \in DOMAIN L[TitleAt(L)].says :
              <<L[i].says[a], L[TitleAt(L)].says[b]>> \notin Within
        BY <4>1 DEF UnmistakableIn
      <4>3. <<L[i].says[k], L[j].says[l]>> \notin Within
        BY <1>4, <2>1, <2>4, <4>2
      <4> QED BY <2>1, <4>3 DEF text
    <3>2. CASE i < j
      BY <3>2 DEF j
    <3> QED BY <1>4, <2>2, <2>4, <3>1, <3>2
  <2> QED BY <2>3, <2>4
<1> HIDE DEF H, text
<1>10. Find(L, d.from, text) = <<i, k>>
  BY <1>4, <1>8, <1>9, FindIs DEF H
<1> QED BY <1>10 DEF text

LEMMA PlacedNext ==
  ASSUME NEW L \in Seq(Lines), NEW U, NEW start, Split(L, U, start), UnmistakableIn(L),
         NEW out, \A m \in 1..Len(U) : out[m].kind = "title" <=> U[m].kind = "title",
         NEW d, NEW n \in Nat, n + 1 \in 1..Len(U), PlacedTo(L, U, start, d, n)
  PROVE  PlacedTo(L, U, start, PlaceStep(L, U, out, d, n + 1), n + 1)
<1> DEFINE x == n + 1
           e == PlaceStep(L, U, out, d, x)
<1>1. /\ U \in Seq(UnitRows) /\ DOMAIN U = 1..Len(U) /\ Len(U) \in Nat
      /\ \A m \in 1..Len(U) : U[m].kind \in {"title", "sentence"}
  <2>1. U \in Seq(UnitRows)
    BY DEF Split
  <2>2. \A m \in 1..Len(U) : U[m] \in UnitRows
    BY <2>1
  <2> QED BY <2>1, <2>2 DEF UnitRows
<1>2. \A m \in SentencesOf(U) : m \in 1..Len(U) /\ m \in Nat /\ U[m].kind = "sentence"
  BY <1>1 DEF SentencesOf
<1>3. /\ d.of = SentencesTo(U, n)
      /\ \A i \in 1..Len(L) : \A k \in 1..Len(L[i].says) :
           i # TitleAt(L) => (After(<<i, k>>, d.from) <=> start[i] + k > n)
  BY DEF PlacedTo
<1>4. \A i \in 1..Len(L) : \A k \in 1..Len(L[i].says) : i # TitleAt(L) =>
        /\ start[i] + k \in 1..Len(U) /\ U[start[i] + k].kind = "sentence"
        /\ U[start[i] + k].line = i /\ U[start[i] + k].text = L[i].says[k]
  BY DEF Split
<1>5. CASE U[x].kind = "title"
  <2>1. e = d
    BY <1>5 DEF PlaceStep
  <2>2. {k \in SentencesOf(U) : k <= n + 1} = {k \in SentencesOf(U) : k <= n}
    BY <1>2, <1>5
  <2>3. SentencesTo(U, n + 1) = SentencesTo(U, n)
    BY <2>2 DEF SentencesTo
  <2>4. \A i \in 1..Len(L) : \A k \in 1..Len(L[i].says) :
          i # TitleAt(L) => (After(<<i, k>>, d.from) <=> start[i] + k > n + 1)
    <3> SUFFICES ASSUME NEW i \in 1..Len(L), NEW k \in 1..Len(L[i].says), i # TitleAt(L)
                 PROVE  After(<<i, k>>, d.from) <=> start[i] + k > n + 1
      OBVIOUS
    <3>1. start[i] + k \in 1..Len(U) /\ U[start[i] + k].kind = "sentence"
      BY <1>4
    <3>2. start[i] + k # n + 1
      BY <1>5, <3>1
    <3>3. After(<<i, k>>, d.from) <=> start[i] + k > n
      BY <1>3
    <3> QED BY <3>1, <3>2, <3>3
  <2>5. PlacedTo(L, U, start, d, n + 1)
    BY <1>3, <2>3, <2>4 DEF PlacedTo
  <2> QED BY <2>1, <2>5
<1>6. CASE U[x].kind = "sentence"
  <2>1. PICK i \in 1..Len(L) : \E k \in 1..Len(L[i].says) : i # TitleAt(L) /\ x = start[i] + k
    BY <1>6 DEF Split
  <2>2. PICK k \in 1..Len(L[i].says) : i # TitleAt(L) /\ x = start[i] + k
    BY <2>1
  <2>3. U[x].text = L[i].says[k] /\ U[x].line = i
    BY <1>4, <2>2
  <2>4. Find(L, d.from, U[x].text) = <<i, k>>
    BY <2>2, <2>3, NextIsFound
  <2>5. out[x].kind # "title"
    BY <1>6
  <2>6. e = [from |-> <<i, k>>, of |-> d.of \union {<<i, x>>}]
    <3>1. <<i, k>> # <<>> /\ <<i, k>>[1] = i
      OBVIOUS
    <3> HIDE DEF x
    <3> QED BY <2>4, <2>5, <3>1 DEF PlaceStep
  <2>7. e.from = <<i, k>> /\ e.of = d.of \union {<<i, x>>}
    <3> HIDE DEF x, e
    <3> QED BY <2>6
  <2>8. SentencesTo(U, x) = SentencesTo(U, n) \union {<<i, x>>}
    <3>1. x \in SentencesOf(U)
      BY <1>1, <1>6 DEF SentencesOf
    <3>2. {m \in SentencesOf(U) : m <= x} = {m \in SentencesOf(U) : m <= n} \union {x}
      BY <1>2, <3>1
    <3> DEFINE First(a) == {m \in SentencesOf(U) : m <= a}
    <3>3. SentencesTo(U, x) = {<<U[m].line, m>> : m \in First(x)}
      BY DEF SentencesTo
    <3>4. SentencesTo(U, n) = {<<U[m].line, m>> : m \in First(n)}
      BY DEF SentencesTo
    <3>5. First(x) = First(n) \union {x}
      BY <3>2
    <3> HIDE DEF First, x
    <3> QED BY <2>3, <3>3, <3>4, <3>5
  <2>9. ASSUME NEW j \in 1..Len(L), NEW l \in 1..Len(L[j].says), j # TitleAt(L)
        PROVE  After(<<j, l>>, e.from) <=> start[j] + l > n + 1
    <3>1. (j > i \/ (j = i /\ l > k)) <=> start[j] + l > start[i] + k
      BY <2>2, <2>9, OrderIs
    <3>2. After(<<j, l>>, <<i, k>>) <=> j > i \/ (j = i /\ l > k)
      BY DEF After
    <3> HIDE DEF e
    <3> QED BY <2>2, <2>7, <3>1, <3>2
  <2> HIDE DEF e
  <2>10. e.of = SentencesTo(U, n + 1)
    BY <1>3, <2>7, <2>8
  <2>11. PlacedTo(L, U, start, e, n + 1)
    BY <2>9, <2>10 DEF PlacedTo
  <2> QED BY <2>11 DEF e
<1> QED BY <1>1, <1>5, <1>6

LEMMA PlacedIs ==
  ASSUME NEW L \in Seq(Lines), NEW U, NEW start, Split(L, U, start), UnmistakableIn(L),
         NEW out, Len(out) = Len(U),
         \A m \in 1..Len(U) : out[m].kind = "title" <=> U[m].kind = "title"
  PROVE  PlacedIn(L, U, out) = SentencesTo(U, Len(U))
<1> DEFINE N == Len(U)
           d == CHOOSE f : IsPlacing(f, N, L, U, out)
<1>1. PlacedIn(L, U, out) = d[N].of
  BY DEF PlacedIn, IsPlacing, PlaceStep, Nowhere
<1>2. U \in Seq(UnitRows) /\ N \in Nat
  BY DEF Split
<1>3. IsPlacing(d, N, L, U, out)
  BY <1>2, PlacingExists
<1> HIDE DEF d
<1>4. /\ d[0] = Nowhere
      /\ \A n \in 1..N : d[n] = PlaceStep(L, U, out, d[n - 1], n)
  BY <1>2, <1>3 DEF IsPlacing
<1>5. PlacedTo(L, U, start, d[0], 0)
  <2>1. SentencesTo(U, 0) = {}
    BY <1>2 DEF SentencesTo, SentencesOf
  <2>2. d[0].of = {} /\ d[0].from = <<1, 0>>
    BY <1>4 DEF Nowhere
  <2>3. ASSUME NEW i \in 1..Len(L), NEW k \in 1..Len(L[i].says), i # TitleAt(L)
        PROVE  After(<<i, k>>, d[0].from) /\ start[i] + k > 0
    <3>1. start[i] + k \in 1..Len(U)
      BY <2>3 DEF Split
    <3>2. L[i] \in Lines /\ i \in Nat /\ i >= 1
      OBVIOUS
    <3>3. k \in Nat /\ k >= 1
      BY <3>2, LineIs
    <3>4. After(<<i, k>>, <<1, 0>>)
      BY <3>2, <3>3 DEF After
    <3> QED BY <2>2, <3>1, <3>4
  <2> QED BY <2>1, <2>2, <2>3 DEF PlacedTo
<1> DEFINE S == {n \in 0..N : ~ PlacedTo(L, U, start, d[n], n)}
<1>6. S \in SUBSET (0..N) /\ \A n \in S : ~ PlacedTo(L, U, start, d[n], n)
  OBVIOUS
<1>7. \A n \in 0..N : n \notin S => PlacedTo(L, U, start, d[n], n)
  OBVIOUS
<1> HIDE DEF S, N
<1>8. ASSUME S # {} PROVE FALSE
  <2>1. PICK k \in S : k \in 0..N /\ \A m \in 0..N : m < k => m \notin S
    BY <1>2, <1>6, <1>8, FirstOf
  <2>2. k # 0
    BY <1>5, <1>6
  <2>3. k - 1 \in Nat /\ k - 1 \in 0..N /\ k - 1 < k /\ (k - 1) + 1 = k /\ k \in 1..N
    BY <1>2, <2>1, <2>2
  <2>4. PlacedTo(L, U, start, d[k - 1], k - 1)
    BY <1>7, <2>1, <2>3
  <2>5. (k - 1) + 1 \in 1..Len(U)
    BY <2>3 DEF N
  <2>6. PlacedTo(L, U, start, PlaceStep(L, U, out, d[k - 1], (k - 1) + 1), (k - 1) + 1)
    BY <2>3, <2>4, <2>5, PlacedNext
  <2> QED BY <1>4, <1>6, <2>3, <2>6
<1>9. PlacedTo(L, U, start, d[N], N)
  <2>1. N \in 0..N
    BY <1>2
  <2> QED BY <1>7, <1>8, <2>1
<1> QED BY <1>1, <1>9 DEF PlacedTo, N

\* Each line that is not the title takes the worst of what was said of it.
LEMMA ForLinesAre ==
  ASSUME NEW L \in Seq(Lines), Len(L) # 0, UnmistakableIn(L), NEW out, Len(out) = Len(SplitUnits(L)),
         DOMAIN out = 1..Len(SplitUnits(L)),
         \A m \in 1..Len(SplitUnits(L)) :
           out[m].kind = "title" <=> SplitUnits(L)[m].kind = "title"
  PROVE  /\ DOMAIN VerdictsForLines(L, SplitUnits(L), out) = 1..Len(L)
         /\ \A i \in 1..Len(L) : VerdictsForLines(L, SplitUnits(L), out)[i] =
              IF i = TitleAt(L) THEN L[i]
              ELSE [L[i] EXCEPT !.verdict = Worst(VerdictsIn(SplitUnits(L), out, i))]
<1> DEFINE U == SplitUnits(L)
           placed == PlacedIn(L, U, out)
           Of(i) == {n \in DOMAIN out : <<i, n>> \in placed}
           V == VerdictsForLines(L, U, out)
<1>1. PICK start : Split(L, U, start)
  BY SplitIs
<1>2. placed = SentencesTo(U, Len(U))
  BY <1>1, PlacedIs
<1>3. V = [i \in DOMAIN L |-> IF Of(i) = {} THEN L[i]
            ELSE [L[i] EXCEPT !.verdict =
              Worst({out[n].verdict : n \in {m \in Of(i) : out[m].kind = "claim"}})]]
  BY DEF VerdictsForLines
<1>4. DOMAIN L = 1..Len(L) /\ DOMAIN out = 1..Len(U)
  OBVIOUS
<1>5. U \in Seq(UnitRows) /\ DOMAIN U = 1..Len(U) /\ Len(U) \in Nat
  BY <1>1 DEF Split
<1> HIDE DEF U, placed, V
<1>6. \A m \in SentencesOf(U) : m \in 1..Len(U) /\ m <= Len(U) /\ U[m].kind = "sentence"
  BY <1>5 DEF SentencesOf
<1>7. \A i, n : <<i, n>> \in placed <=> n \in SentencesOf(U) /\ U[n].line = i
  <2>1. {k \in SentencesOf(U) : k <= Len(U)} = SentencesOf(U)
    BY <1>6
  <2>2. placed = {<<U[m].line, m>> : m \in SentencesOf(U)}
    BY <1>2, <2>1 DEF SentencesTo
  <2> QED BY <2>2
<1>8. \A i : Of(i) = {m \in SentencesOf(U) : U[m].line = i}
  BY <1>4, <1>6, <1>7
<1> HIDE DEF Of
<1>9. ASSUME NEW i \in 1..Len(L)
      PROVE  V[i] = IF i = TitleAt(L) THEN L[i]
                    ELSE [L[i] EXCEPT !.verdict = Worst(VerdictsIn(U, out, i))]
  <2>1. CASE i = TitleAt(L)
    <3>1. \A m \in SentencesOf(U) : U[m].line # i
      <4> SUFFICES ASSUME NEW m \in SentencesOf(U) PROVE U[m].line # i
        OBVIOUS
      <4>1. m \in 1..Len(U) /\ U[m].kind # "title"
        BY <1>6
      <4>2. PICK j \in 1..Len(L) : \E k \in 1..Len(L[j].says) : j # TitleAt(L) /\ m = start[j] + k
        BY <1>1, <4>1 DEF Split
      <4>3. PICK k \in 1..Len(L[j].says) : j # TitleAt(L) /\ m = start[j] + k
        BY <4>2
      <4>4. U[start[j] + k].line = j
        BY <1>1, <4>3 DEF Split
      <4> QED BY <2>1, <4>3, <4>4
    <3>2. Of(i) = {}
      BY <1>8, <3>1
    <3> QED BY <1>3, <1>4, <2>1, <3>2
  <2>2. CASE i # TitleAt(L)
    <3>1. 1 \in 1..Len(L[i].says)
      <4>1. L[i] \in Lines
        OBVIOUS
      <4>2. Len(L[i].says) \in Nat \ {0}
        BY <4>1, LineIs
      <4> QED BY <4>2
    <3>2. start[i] + 1 \in 1..Len(U) /\ U[start[i] + 1].kind = "sentence" /\ U[start[i] + 1].line = i
      BY <1>1, <2>2, <3>1 DEF Split
    <3>3. start[i] + 1 \in SentencesOf(U)
      BY <1>5, <3>2 DEF SentencesOf
    <3>4. Of(i) # {}
      BY <1>8, <3>2, <3>3
    <3>5. {m \in Of(i) : out[m].kind = "claim"}
            = {m \in SentencesOf(U) : U[m].line = i /\ out[m].kind = "claim"}
      BY <1>8
    <3>6. {out[n].verdict : n \in {m \in Of(i) : out[m].kind = "claim"}} = VerdictsIn(U, out, i)
      BY <3>5 DEF VerdictsIn
    <3> QED BY <1>3, <1>4, <2>2, <3>4, <3>6
  <2> QED BY <2>1, <2>2
<1>10. DOMAIN V = 1..Len(L)
  BY <1>3, <1>4
<1> QED BY <1>9, <1>10 DEF U, V

----------------------------------------------------------------------------
(* The answer put back on the lines.                                       *)

ShownLines(K, results) ==
  UnmistakableIn(K) => \A i \in DOMAIN K :
    IF i = TitleAt(K) THEN K[i].verdict = NoVerdict
    ELSE ShownAs(K[i].verdict, ClaimsIn(K, results, i))

LEMMA AlikeUnmistakable ==
  ASSUME NEW L, NEW K, Alike(L, K), TitleAt(K) \in Nat,
         DOMAIN K = 1..Len(K), DOMAIN L = 1..Len(L), Len(L) = Len(K), Len(K) \in Nat,
         TitleAt(K) = 0 \/ TitleAt(K) \in 1..Len(K), UnmistakableIn(K)
  PROVE  UnmistakableIn(L)
<1>1. TitleAt(L) = TitleAt(K)
  BY SplitAlike
<1>2. SUFFICES ASSUME NEW i \in (TitleAt(K) + 1)..Len(K), TitleAt(K) # 0,
                      NEW n \in DOMAIN L[i].says, NEW m \in DOMAIN L[TitleAt(K)].says
               PROVE  <<L[i].says[n], L[TitleAt(K)].says[m]>> \notin Within
  BY <1>1 DEF UnmistakableIn
<1>3. i \in 1..Len(K) /\ TitleAt(K) \in 1..Len(K)
  BY <1>2
<1>4. L[i].says = K[i].says /\ L[TitleAt(K)].says = K[TitleAt(K)].says
  BY <1>3 DEF Alike
<1>5. n \in DOMAIN K[i].says /\ m \in DOMAIN K[TitleAt(K)].says
  BY <1>2, <1>4
<1>6. <<K[i].says[n], K[TitleAt(K)].says[m]>> \notin Within
  BY <1>2, <1>5 DEF UnmistakableIn
<1> QED BY <1>4, <1>6

LEMMA LinesPlaced ==
  ASSUME NEW L \in Seq(Lines), Len(L) # 0, \A i \in 1..Len(L) : L[i].verdict = NoVerdict,
         NEW results, Answered(SplitUnits(L), results),
         NEW out, out = Checked(Assemble(SplitUnits(L), results)),
         NEW K, Alike(K, L),
         \A i \in 1..Len(L) : IF i = TitleAt(L) THEN K[i].verdict = L[i].verdict
                              ELSE K[i].verdict = Worst(VerdictsIn(SplitUnits(L), out, i))
  PROVE  \A i \in DOMAIN K : IF i = TitleAt(K) THEN K[i].verdict = NoVerdict
                             ELSE ShownAs(K[i].verdict, ClaimsIn(K, results, i))
<1> DEFINE U == SplitUnits(L)
<1>1. TitleAt(K) = TitleAt(L) /\ SplitUnits(K) = U
  BY SplitAlike
<1>2. U \in Seq(UnitRows)
  BY SplitIs DEF Split
<1>3. DOMAIN K = 1..Len(L)
  BY DEF Alike
<1> HIDE DEF U
<1>4. ASSUME NEW i \in 1..Len(L), i # TitleAt(L)
      PROVE  ShownAs(K[i].verdict, ClaimsIn(K, results, i))
  <2>1. Answered(U, results) /\ out = Checked(Assemble(U, results))
    BY DEF U
  <2>2. SaidOf(U, results, i) \in SUBSET Claims
    BY <1>2, <2>1, VerdictsOfLine
  <2>3. VerdictsIn(U, out, i) = VerdictsOn(SaidOf(U, results, i))
    BY <1>2, <2>1, VerdictsOfLine
  <2>4. ClaimsIn(K, results, i) = SaidOf(U, results, i)
    <3>1. SplitUnits(K) \in Seq(UnitRows) /\ Answered(SplitUnits(K), results)
      BY <1>1, <1>2, <2>1
    <3> QED BY <1>1, <3>1, ClaimsAre
  <2>5. K[i].verdict = Worst(VerdictsIn(U, out, i))
    BY <1>4 DEF U
  <2>6. ShownAs(Worst(VerdictsOn(SaidOf(U, results, i))), SaidOf(U, results, i))
    BY <2>2, WorstIsShown
  <2> QED BY <2>3, <2>4, <2>5, <2>6
<1> QED BY <1>1, <1>3, <1>4

\* The verdicts of some of the claims.
VerdictsAt(out, P) == {out[n].verdict : n \in P}

\* Whatever is put on a line is something a line may be shown as.
LEMMA VerdictsTyped ==
  ASSUME NEW U \in Seq(UnitRows), NEW results, Answered(U, results),
         NEW out, out = Checked(Assemble(U, results)), NEW P, P \subseteq 1..Len(U),
         \A n \in P : out[n].kind = "claim"
  PROVE  Worst(VerdictsAt(out, P)) \in Verdicts \union {"framing"}
<1>1. ASSUME NEW n \in P PROVE out[n].verdict \in Verdicts
  <2> DEFINE r == results[NumberOf(U, n)].result
  <2>1. n \in 1..Len(U) /\ out[n].kind = "claim"
    OBVIOUS
  <2>2. U[n].kind = "sentence"
    <3>1. U[n] \in UnitRows
      BY <2>1
    <3>2. U[n].kind # "title"
      BY <2>1, OutputIs
    <3> QED BY <3>1, <3>2 DEF UnitRows
  <2>3. n \in SentencesOf(U)
    BY <2>1, <2>2 DEF SentencesOf
  <2>4. out[n] = Ruled(r) /\ out[n].kind = r.kind
    BY <2>1, <2>2, OutputIs
  <2>5. r \in Results /\ r.verdict # NoVerdict
    BY <2>3, AnswerIs
  <2> HIDE DEF r
  <2>6. r \in Claims
    BY <2>1, <2>4, <2>5 DEF Claims
  <2>7. Ruled(r).verdict \in Verdicts
    BY <2>5, <2>6, RulesAre
  <2> QED BY <2>4, <2>7
<1>2. VerdictsAt(out, P) \in SUBSET Verdicts
  BY <1>1 DEF VerdictsAt
<1> QED BY <1>2, WorstIs

\* A line takes a verdict and keeps the rest.
LEMMA LineTakes ==
  ASSUME NEW line \in Lines, NEW w \in Verdicts \union {"framing", NoVerdict}
  PROVE  LET new == [line EXCEPT !.verdict = w]
         IN new \in Lines /\ new.says = line.says /\ new.heading = line.heading /\ new.verdict = w
BY DEF Lines

LEMMA UserTyped ==
  ASSUME NEW L \in Seq(Lines), Len(L) # 0,
         NEW results, Answered(SplitUnits(L), results),
         NEW out, out = Checked(Assemble(SplitUnits(L), results))
  PROVE  /\ VerdictsForLines(L, SplitUnits(L), out) \in Seq(Lines)
         /\ Len(VerdictsForLines(L, SplitUnits(L), out)) = Len(L)
         /\ Alike(VerdictsForLines(L, SplitUnits(L), out), L)
<1> DEFINE U == SplitUnits(L)
           placed == PlacedIn(L, U, out)
           Of(i) == {n \in DOMAIN out : <<i, n>> \in placed}
           w(i) == Worst({out[n].verdict : n \in {m \in Of(i) : out[m].kind = "claim"}})
           V == VerdictsForLines(L, U, out)
<1>1. V = [i \in DOMAIN L |-> IF Of(i) = {} THEN L[i] ELSE [L[i] EXCEPT !.verdict = w(i)]]
  BY DEF VerdictsForLines
<1>2. U \in Seq(UnitRows)
  BY SplitIs DEF Split
<1>3. DOMAIN L = 1..Len(L) /\ Len(L) \in Nat /\ \A i \in 1..Len(L) : L[i] \in Lines
  OBVIOUS
<1>4. Answered(U, results) /\ out = Checked(Assemble(U, results))
  OBVIOUS
<1> HIDE DEF U, V, placed
<1>5. DOMAIN out = 1..Len(U)
  BY <1>2, <1>4, OutputIs
<1>6. \A i : w(i) \in Verdicts \union {"framing"}
  <2> SUFFICES ASSUME NEW i PROVE w(i) \in Verdicts \union {"framing"}
    OBVIOUS
  <2> DEFINE P == {m \in Of(i) : out[m].kind = "claim"}
  <2>1. P \subseteq 1..Len(U) /\ \A n \in P : out[n].kind = "claim"
    BY <1>5
  <2> HIDE DEF P, Of
  <2>2. Worst(VerdictsAt(out, P)) \in Verdicts \union {"framing"}
    BY <1>2, <1>4, <2>1, VerdictsTyped
  <2> QED BY <2>2 DEF P, VerdictsAt
<1> HIDE DEF w, Of
<1>7. \A i \in 1..Len(L) :
        V[i] \in Lines /\ V[i].says = L[i].says /\ V[i].heading = L[i].heading
  <2> SUFFICES ASSUME NEW i \in 1..Len(L)
               PROVE  V[i] \in Lines /\ V[i].says = L[i].says /\ V[i].heading = L[i].heading
    OBVIOUS
  <2>1. V[i] = L[i] \/ V[i] = [L[i] EXCEPT !.verdict = w(i)]
    BY <1>1, <1>3
  <2>2. L[i] \in Lines /\ w(i) \in Verdicts \union {"framing", NoVerdict}
    BY <1>3, <1>6
  <2>3. LET new == [L[i] EXCEPT !.verdict = w(i)]
        IN new \in Lines /\ new.says = L[i].says /\ new.heading = L[i].heading
    BY <2>2, LineTakes
  <2> QED BY <2>1, <2>2, <2>3
<1>8. DOMAIN V = 1..Len(L) /\ V = [i \in 1..Len(L) |-> V[i]]
  BY <1>1, <1>3
<1>9. V \in Seq(Lines) /\ Len(V) = Len(L)
  BY <1>3, <1>7, <1>8
<1>10. Alike(V, L)
  BY <1>3, <1>7, <1>8 DEF Alike
<1> QED BY <1>9, <1>10 DEF U, V

LEMMA UserShown ==
  ASSUME NEW L \in Seq(Lines), Len(L) # 0, \A i \in 1..Len(L) : L[i].verdict = NoVerdict,
         NEW results, Answered(SplitUnits(L), results),
         NEW out, out = Checked(Assemble(SplitUnits(L), results))
  PROVE  ShownLines(VerdictsForLines(L, SplitUnits(L), out), results)
<1> DEFINE U == SplitUnits(L)
           K == VerdictsForLines(L, U, out)
<1>1. K \in Seq(Lines) /\ Len(K) = Len(L) /\ Alike(K, L)
  BY UserTyped
<1>2. U \in Seq(UnitRows)
  BY SplitIs DEF Split
<1>3. /\ Len(out) = Len(U) /\ DOMAIN out = 1..Len(U)
      /\ \A m \in 1..Len(U) : out[m].kind = "title" <=> U[m].kind = "title"
  BY <1>2, OutputIs
<1>4. SUFFICES ASSUME UnmistakableIn(K)
               PROVE  \A i \in DOMAIN K : IF i = TitleAt(K) THEN K[i].verdict = NoVerdict
                                          ELSE ShownAs(K[i].verdict, ClaimsIn(K, results, i))
  BY DEF ShownLines
<1>5. Alike(L, K)
  BY <1>1 DEF Alike
<1>6. TitleAt(K) = TitleAt(L)
  BY <1>1, SplitAlike
<1>7. TitleAt(L) \in 0..Len(L)
  <2>1. L \in [1..Len(L) -> Lines] /\ Len(L) \in Nat
    OBVIOUS
  <2> QED BY <2>1, TitleIs
<1> HIDE DEF K
<1>8. UnmistakableIn(L)
  <2>1. DOMAIN K = 1..Len(K) /\ DOMAIN L = 1..Len(L) /\ Len(K) \in Nat
    BY <1>1
  <2>2. TitleAt(K) \in Nat /\ (TitleAt(K) = 0 \/ TitleAt(K) \in 1..Len(K))
    BY <1>1, <1>6, <1>7, <2>1
  <2> QED BY <1>1, <1>4, <1>5, <2>1, <2>2, AlikeUnmistakable
<1>9. \A i \in 1..Len(L) : K[i] = IF i = TitleAt(L) THEN L[i]
         ELSE [L[i] EXCEPT !.verdict = Worst(VerdictsIn(U, out, i))]
  BY <1>3, <1>8, ForLinesAre DEF K
<1>10. \A i \in 1..Len(L) : IF i = TitleAt(L) THEN K[i].verdict = L[i].verdict
                            ELSE K[i].verdict = Worst(VerdictsIn(U, out, i))
  <2> SUFFICES ASSUME NEW i \in 1..Len(L)
               PROVE  IF i = TitleAt(L) THEN K[i].verdict = L[i].verdict
                      ELSE K[i].verdict = Worst(VerdictsIn(U, out, i))
    OBVIOUS
  <2> DEFINE x == Worst(VerdictsIn(U, out, i))
             line == L[i]
  <2>1. line \in Lines
    OBVIOUS
  <2>2. K[i] = IF i = TitleAt(L) THEN line ELSE [line EXCEPT !.verdict = x]
    BY <1>9
  <2> HIDE DEF x, line
  <2>3. [line EXCEPT !.verdict = x].verdict = x
    BY <2>1 DEF Lines
  <2> QED BY <2>2, <2>3 DEF x, line
<1> QED BY <1>1, <1>10, LinesPlaced

LEMMA GeneratedShown ==
  ASSUME NEW L \in Seq(Lines), Len(L) # 0, \A i \in 1..Len(L) : L[i].verdict = NoVerdict,
         \A i \in DOMAIN L : ~L[i].heading,
         NEW results, Answered(SplitUnits(L), results),
         NEW out, out = Checked(Assemble(SplitUnits(L), results))
  PROVE  /\ LinesUp(L, out)
         /\ ApplyGateOutput(L, out) \in Seq(Lines) /\ Len(ApplyGateOutput(L, out)) = Len(L)
         /\ Alike(ApplyGateOutput(L, out), L)
         /\ ShownLines(ApplyGateOutput(L, out), results)
<1> DEFINE U == SplitUnits(L)
           K == ApplyGateOutput(L, out)
           w(i) == Worst(VerdictsOn(SaidOf(U, results, i)))
<1>1. DOMAIN L = 1..Len(L) /\ Len(L) \in Nat /\ \A i \in 1..Len(L) : L[i] \in Lines
  OBVIOUS
<1>2. U \in Seq(UnitRows)
  BY SplitIs DEF Split
<1>3. LinesUp(L, out)
  BY CountedIs
<1>4. \A i \in 1..Len(L) :
        LineVerdict(SubSeq(out, Before(Counts(L), i) + 1, Before(Counts(L), i) + Counts(L)[i])) = w(i)
  BY CountedIs
<1>5. K = [i \in 1..Len(L) |-> [L[i] EXCEPT !.verdict =
             LineVerdict(SubSeq(out, Before(Counts(L), i) + 1, Before(Counts(L), i) + Counts(L)[i]))]]
  BY <1>1 DEF ApplyGateOutput
<1>6. Answered(U, results) /\ out = Checked(Assemble(U, results))
  OBVIOUS
<1> HIDE DEF K, U, w
<1>7. DOMAIN K = 1..Len(L) /\ \A i \in 1..Len(L) : K[i] = [L[i] EXCEPT !.verdict = w(i)]
  BY <1>4, <1>5
<1>8. \A i \in 1..Len(L) : w(i) \in Verdicts \union {"framing"} /\ w(i) = Worst(VerdictsIn(U, out, i))
  <2> SUFFICES ASSUME NEW i \in 1..Len(L)
               PROVE  w(i) \in Verdicts \union {"framing"} /\ w(i) = Worst(VerdictsIn(U, out, i))
    OBVIOUS
  <2>1. SaidOf(U, results, i) \in SUBSET Claims
    BY <1>2, <1>6, VerdictsOfLine
  <2>2. VerdictsIn(U, out, i) = VerdictsOn(SaidOf(U, results, i))
    BY <1>2, <1>6, VerdictsOfLine
  <2>3. ShownAs(w(i), SaidOf(U, results, i))
    BY <2>1, WorstIsShown DEF w
  <2> QED BY <2>2, <2>3 DEF ShownAs, w
<1>9. \A i \in 1..Len(L) : /\ K[i] \in Lines /\ K[i].says = L[i].says
                           /\ K[i].heading = L[i].heading /\ K[i].verdict = w(i)
  <2> SUFFICES ASSUME NEW i \in 1..Len(L)
               PROVE  /\ K[i] \in Lines /\ K[i].says = L[i].says
                      /\ K[i].heading = L[i].heading /\ K[i].verdict = w(i)
    OBVIOUS
  <2>1. L[i] \in Lines /\ w(i) \in Verdicts \union {"framing", NoVerdict}
    BY <1>1, <1>8
  <2>2. LET new == [L[i] EXCEPT !.verdict = w(i)]
        IN new \in Lines /\ new.says = L[i].says /\ new.heading = L[i].heading /\ new.verdict = w(i)
    BY <2>1, LineTakes
  <2> QED BY <1>7, <2>2
<1>10. K \in Seq(Lines) /\ Len(K) = Len(L)
  <2>1. K = [i \in 1..Len(L) |-> K[i]]
    BY <1>5, <1>7
  <2> QED BY <1>1, <1>9, <2>1
<1>11. Alike(K, L)
  BY <1>1, <1>7, <1>9 DEF Alike
<1>12. TitleAt(L) = 0
  <2>1. L \in [1..Len(L) -> Lines]
    OBVIOUS
  <2> QED BY <1>1, <2>1, TitleIs
<1>13. \A i \in 1..Len(L) : IF i = TitleAt(L) THEN K[i].verdict = L[i].verdict
                            ELSE K[i].verdict = Worst(VerdictsIn(U, out, i))
  <2>1. \A i \in 1..Len(L) : i # 0
    BY <1>1
  <2> QED BY <1>8, <1>9, <1>12, <2>1
<1>14. ShownLines(K, results)
  BY <1>11, <1>13, LinesPlaced DEF ShownLines, U
<1> QED BY <1>3, <1>10, <1>11, <1>14 DEF K

\* What is said of each sentence, left out or swapped, is a sequence of answers.
LEMMA AnswersTyped ==
  ASSUME NEW N \in Nat \ {0}, NEW heard \in [1..N -> Palette],
         NEW a \in Permuted([n \in DOMAIN heard |-> [index |-> n, result |-> heard[n]]])
  PROVE  a \in Seq(AnswerRows)
<1> DEFINE row(n) == [index |-> n, result |-> heard[n]]
           all == [n \in DOMAIN heard |-> row(n)]
           m == Len(all)
           swapped == [all EXCEPT ![m] = all[m - 1], ![m - 1] = all[m]]
<1>1. DOMAIN heard = 1..N /\ \A n \in 1..N : row(n) \in AnswerRows
  BY DEF AnswerRows
<1> HIDE DEF row
<1>2. all \in [1..N -> AnswerRows] /\ all \in Seq(AnswerRows) /\ Len(all) = N /\ N \in Nat
  BY <1>1
<1>3. a \in {all, Tail(all)} \union IF m < 2 THEN {} ELSE {swapped}
  BY DEF Permuted, row
<1> HIDE DEF all
<1>4. Tail(all) \in Seq(AnswerRows)
  <2>1. all # <<>>
    BY <1>2
  <2> QED BY <1>2, <2>1
<1>5. ~ (m < 2) => swapped \in Seq(AnswerRows)
  <2> SUFFICES ASSUME ~ (m < 2) PROVE swapped \in Seq(AnswerRows)
    OBVIOUS
  <2>1. N \in 1..N /\ N - 1 \in 1..N
    BY <1>2
  <2>2. all[N] \in AnswerRows /\ all[N - 1] \in AnswerRows
    BY <1>2, <2>1
  <2>3. [all EXCEPT ![N] = all[N - 1], ![N - 1] = all[N]] \in [1..N -> AnswerRows]
    BY <1>2, <2>2
  <2>4. swapped = [all EXCEPT ![N] = all[N - 1], ![N - 1] = all[N]]
    BY <1>2
  <2>5. swapped \in [1..N -> AnswerRows]
    BY <2>3, <2>4
  <2> HIDE DEF swapped
  <2> QED BY <1>2, <2>5
<1> HIDE DEF swapped, m
<1> QED BY <1>2, <1>3, <1>4, <1>5

Asks == [by : {"generated", "user"},
         at : {"written", "sent", "unsent", "rejected", "checked", "placed"}]
GateInv ==
  /\ cv \in Seq(Lines) /\ Len(cv) # 0 /\ asked \in Asks
  /\ asked.by = "generated" => \A i \in DOMAIN cv : ~cv[i].heading
  /\ asked.at # "placed" => \A i \in 1..Len(cv) : cv[i].verdict = NoVerdict
  /\ asked.at = "sent" => SentencesOf(SplitUnits(cv)) # {}
  /\ asked.at = "checked" => /\ Answered(SplitUnits(cv), answer)
                             /\ output = Checked(Assemble(SplitUnits(cv), answer))
  /\ asked.at = "placed" => ShownLines(cv, answer)

LEMMA GateStarts ==
  ASSUME GateInit PROVE GateInv
<1>1. PICK n \in 1..MaxLines : cv \in [1..n -> {line \in Lines : line.verdict = NoVerdict}]
  BY DEF GateInit
<1>2. n \in Nat \ {0}
  BY GateAssumption
<1>3. cv \in Seq(Lines) /\ Len(cv) = n /\ DOMAIN cv = 1..n
      /\ \A i \in 1..n : cv[i].verdict = NoVerdict
  BY <1>1, <1>2
<1>4. asked \in Asks /\ asked.at = "written"
      /\ (asked.by = "generated" => \A i \in DOMAIN cv : ~cv[i].heading)
  BY DEF GateInit, Asks
<1> QED BY <1>2, <1>3, <1>4 DEF GateInv

LEMMA GateKeeps ==
  ASSUME GateInv, GateNext \/ UNCHANGED gateVars PROVE GateInv'
<1>1. CASE UNCHANGED gateVars
  BY <1>1 DEF gateVars, GateInv
<1>0. asked \in Asks /\ \A x : [asked EXCEPT !.at = x].by = asked.by
      /\ [asked EXCEPT !.at = x].at = x
  BY DEF GateInv, Asks
<1>2. CASE Send
  <2> DEFINE x == IF SentencesOf(SplitUnits(cv)) = {} THEN "unsent" ELSE "sent"
  <2>1. asked.at = "written" /\ asked' = [asked EXCEPT !.at = x]
        /\ cv' = cv /\ answer' = answer /\ output' = output
    BY <1>2 DEF Send
  <2>2. x \in {"unsent", "sent"} /\ (x = "sent" => SentencesOf(SplitUnits(cv)) # {})
    OBVIOUS
  <2> HIDE DEF x
  <2>3. asked' \in Asks /\ asked'.by = asked.by /\ asked'.at = x
    BY <1>0, <2>1, <2>2 DEF Asks
  <2> QED BY <2>1, <2>2, <2>3 DEF GateInv
<1>3. CASE Answer
  <2> DEFINE U == SplitUnits(cv)
             N == Cardinality(SentencesOf(U))
             fine == FromTheModel(answer') /\ Aligned(SentencesOf(U), answer')
  <2>0. cv \in Seq(Lines) /\ Len(cv) # 0
    BY DEF GateInv
  <2>1. /\ asked.at = "sent" /\ cv' = cv
        /\ \E heard \in [1..N -> Palette] :
             answer' \in Permuted([n \in DOMAIN heard |-> [index |-> n, result |-> heard[n]]])
        /\ IF fine THEN output' = Checked(Assemble(U, answer')) /\ asked' = [asked EXCEPT !.at = "checked"]
           ELSE asked' = [asked EXCEPT !.at = "rejected"] /\ output' = output
    BY <1>3 DEF Answer
  <2>2. U \in Seq(UnitRows)
    BY <2>0, SplitIs DEF Split
  <2>3. N \in Nat \ {0}
    <3>1. SentencesOf(U) # {}
      BY <2>1 DEF GateInv
    <3>2. IsFiniteSet(SentencesOf(U))
      <4>1. IsFiniteSet(1..Len(U)) /\ SentencesOf(U) \in SUBSET (1..Len(U))
        BY <2>2, FS_Interval DEF SentencesOf
      <4> QED BY <4>1, FS_Subset
    <3> HIDE DEF U
    <3>3. N \in Nat /\ N # 0
      BY <3>1, <3>2, FS_CardinalityType, FS_EmptySet
    <3> QED BY <3>3
  <2>4. answer' \in Seq(AnswerRows)
    <3>1. PICK heard \in [1..N -> Palette] :
             answer' \in Permuted([n \in DOMAIN heard |-> [index |-> n, result |-> heard[n]]])
      BY <2>1
    <3> HIDE DEF N
    <3> QED BY <2>3, <3>1, AnswersTyped
  <2>5. CASE fine
    <3>1. Answered(U, answer')
      BY <2>4, <2>5 DEF Answered
    <3>2. output' = Checked(Assemble(U, answer')) /\ asked' = [asked EXCEPT !.at = "checked"]
      BY <2>1, <2>5
    <3>3. asked' \in Asks /\ asked'.by = asked.by /\ asked'.at = "checked"
      BY <1>0, <3>2 DEF Asks
    <3> HIDE DEF fine
    <3> QED BY <2>1, <3>1, <3>2, <3>3 DEF GateInv
  <2>6. CASE ~fine
    <3>1. asked' = [asked EXCEPT !.at = "rejected"]
      BY <2>1, <2>6
    <3>2. asked' \in Asks /\ asked'.by = asked.by /\ asked'.at = "rejected"
      BY <1>0, <3>1 DEF Asks
    <3> HIDE DEF fine
    <3> QED BY <2>1, <3>2 DEF GateInv
  <2> QED BY <2>5, <2>6
<1>4. CASE Place
  <2>0. /\ cv \in Seq(Lines) /\ Len(cv) # 0 /\ DOMAIN cv = 1..Len(cv) /\ asked.at = "checked"
        /\ \A i \in 1..Len(cv) : cv[i].verdict = NoVerdict
        /\ Answered(SplitUnits(cv), answer) /\ output = Checked(Assemble(SplitUnits(cv), answer))
        /\ answer' = answer
        /\ asked.by = "generated" => \A i \in DOMAIN cv : ~cv[i].heading
    BY <1>4 DEF Place, GateInv
  <2>1. CASE asked.by = "user"
    <3>1. cv' = VerdictsForLines(cv, SplitUnits(cv), output) /\ asked' = [asked EXCEPT !.at = "placed"]
      BY <1>4, <2>1 DEF Place
    <3>2. asked' \in Asks /\ asked'.by = "user" /\ asked'.at = "placed"
      BY <1>0, <2>1, <3>1 DEF Asks
    <3>3. cv' \in Seq(Lines) /\ Len(cv') = Len(cv)
      BY <2>0, <3>1, UserTyped
    <3>4. ShownLines(cv', answer')
      BY <2>0, <3>1, UserShown
    <3> QED BY <2>0, <3>2, <3>3, <3>4 DEF GateInv
  <2>2. CASE asked.by = "generated"
    <3>0. \A i \in DOMAIN cv : ~cv[i].heading
      BY <2>0, <2>2
    <3>1. LinesUp(cv, output)
      BY <2>0, <3>0, GeneratedShown
    <3>2. cv' = ApplyGateOutput(cv, output) /\ asked' = [asked EXCEPT !.at = "placed"]
      BY <1>4, <2>2, <3>1 DEF Place
    <3>3. asked' \in Asks /\ asked'.at = "placed"
      BY <1>0, <3>2 DEF Asks
    <3>4. cv' \in Seq(Lines) /\ Len(cv') = Len(cv) /\ Alike(cv', cv) /\ ShownLines(cv', answer')
      BY <2>0, <3>0, <3>2, GeneratedShown
    <3>5. \A i \in DOMAIN cv' : ~cv'[i].heading
      BY <3>0, <3>4 DEF Alike
    <3> QED BY <2>0, <3>3, <3>4, <3>5 DEF GateInv
  <2>3. asked.by \in {"user", "generated"}
    BY <1>0 DEF Asks
  <2> QED BY <2>1, <2>2, <2>3
<1> QED BY <1>1, <1>2, <1>3, <1>4 DEF GateNext

LEMMA GateSays ==
  ASSUME GateInv PROVE GateTypeOK /\ LinesAreEarned
<1>1. GateTypeOK /\ asked.at # "misplaced"
  BY DEF GateInv, GateTypeOK, Asks
<1>2. ASSUME asked.at = "placed", Unmistakable, NEW i \in DOMAIN cv
      PROVE  IF i = TitleAt(cv) THEN cv[i].verdict = NoVerdict
             ELSE /\ cv[i].verdict # NoVerdict
                  /\ cv[i].verdict = "framing" <=> ClaimsOf(i) = {}
                  /\ cv[i].verdict = "supported" <=>
                       ClaimsOf(i) # {} /\ \A result \in ClaimsOf(i) : Earned(result)
                  /\ cv[i].verdict = "unsupported" <=>
                       \E result \in ClaimsOf(i) : result.verdict = "unsupported"
  <2>1. ShownLines(cv, answer)
    BY <1>2 DEF GateInv
  <2>2. UnmistakableIn(cv)
    BY <1>2 DEF Unmistakable, UnmistakableIn
  <2>3. ClaimsOf(i) = ClaimsIn(cv, answer, i)
    BY DEF ClaimsOf, ClaimsIn
  <2>4. IF i = TitleAt(cv) THEN cv[i].verdict = NoVerdict
        ELSE ShownAs(cv[i].verdict, ClaimsIn(cv, answer, i))
    BY <2>1, <2>2 DEF ShownLines
  <2> QED BY <2>3, <2>4 DEF ShownAs
<1> QED BY <1>1, <1>2 DEF LinesAreEarned

\* A line is shown as supported exactly if the model supported every claim it makes with
\* citations that can all be looked up, as unsupported if one claim is, as framing if it
\* claims nothing, and a lone heading stays as it was; and what the model wrote never fails
\* to line up with what was asked about it. For any lines, spans, ids and answers.
THEOREM VerdictsEarned == VerdictsSpec => []VerdictsAreEarned
<1>1. VerdictsInit => (mode = "gate" => GateInv)
  BY GateStarts DEF VerdictsInit
<1>2. (mode = "gate" => GateInv) /\ [VerdictsNext]_VerdictsVars => (mode = "gate" => GateInv)'
  BY GateKeeps DEF VerdictsNext, VerdictsVars
<1>3. (mode = "gate" => GateInv) => VerdictsAreEarned
  BY GateSays DEF VerdictsAreEarned
<1> QED BY <1>1, <1>2, <1>3, PTL DEF VerdictsSpec
==============================================================================
