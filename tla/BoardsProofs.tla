---------------------------- MODULE BoardsProofs ----------------------------
(***************************************************************************)
(* What a board's history is worth, for any postings, any number of checks *)
(* and of tasks under way, any drop guard and any repost window: it is what *)
(* complete checks saw, whatever order they come back in. What one check   *)
(* may say, for any board, pages and limits: it is complete only if it saw *)
(* the board, though the board moved once. And what is made of one posting *)
(* and of one answer to the fetch of its text.                             *)
(***************************************************************************)
EXTENDS MCBoards, FiniteSetTheorems, SequenceTheorems, TLAPS

----------------------------------------------------------------------------
(* The inductive invariant, in named parts.                                *)

RunRows == [pc : {"idle", "queued", "fetching", "fetched"}, tries : 0..MaxAttempts,
            status : Statuses \union {"none"}, found : Listings \union {None}, at : 0..MaxNow]

\* A task that is queued has a try left, and one that has fetched knows what.
RunInv ==
  /\ run \in [Slots -> RunRows]
  /\ \A s \in Slots :
       /\ run[s].pc = "queued" => run[s].tries < MaxAttempts
       /\ run[s].pc = "fetched" => run[s].status \in Statuses /\ run[s].found \in Listings

\* There is room for what has been fetched.
Fetched == {s \in Slots : run[s].pc = "fetched"}
RoomInv == Len(checks) + Cardinality(Fetched) <= MaxChecks

\* The flags are about checks that were: the baseline is the first complete one.
FlagsInv ==
  /\ board.failures <= Len(checks)
  /\ board.baseline # 0 => board.baseline \in Complete
  /\ board.held \in DOMAIN checks \union {0}
  /\ HeldIsLatest

\* What a board has ever seen it knows.
BornInv == \A p \in presence : p.job \in Known

HistoryInv ==
  /\ BornInv
  /\ HistoryIsSeen
  /\ RepostsAreReplacements
  /\ OpenIsLastSeen
  /\ IsFiniteSet(shown)

IInv == TypeOK /\ RunInv /\ RoomInv /\ FlagsInv /\ HistoryInv

----------------------------------------------------------------------------
(* Facts about the rows.                                                   *)

\* The limits are numbers.
LEMMA Limits ==
  /\ MaxAttempts \in Nat /\ MaxAttempts > 0
  /\ MaxNow \in Nat /\ MaxChecks \in Nat
BY BoardsAssumption

\* A row of a posting is none of the values that stand for its absence.
LEMMA RowsAreSome == None \notin JobRows
<1>1. JobRows \subseteq [print : Prints, first : Nat, from : Ids \union {None}]
  BY BoardsAssumption DEF JobRows
<1> QED BY <1>1, BoardsAssumption

\* Checks are numbered in the order in which they are recorded.
LEMMA CompleteAre ==
  ASSUME TypeOK
  PROVE  Len(checks) \in Nat /\ \A c \in Complete : c \in 1..Len(checks) /\ checks[c] = "complete"
BY DEF TypeOK, Complete

\* A check recorded leaves those before it as they are.
LEMMA AppendKeeps ==
  ASSUME TypeOK, NEW plan, checks' = Append(checks, plan)
  PROVE  /\ Len(checks') = Len(checks) + 1
         /\ DOMAIN checks' = 1..(Len(checks) + 1)
         /\ \A c \in DOMAIN checks : c \in DOMAIN checks' /\ checks'[c] = checks[c]
         /\ checks'[Len(checks) + 1] = plan
         /\ Complete' = IF plan = "complete" THEN Complete \union {Len(checks) + 1} ELSE Complete
<1>1. checks \in Seq(CheckRows)
  BY DEF TypeOK
<1>2. /\ Len(checks) \in Nat /\ DOMAIN checks = 1..Len(checks)
      /\ Len(checks') = Len(checks) + 1
      /\ DOMAIN checks' = 1..(Len(checks) + 1)
      /\ \A c \in DOMAIN checks : checks'[c] = checks[c]
      /\ checks'[Len(checks) + 1] = plan
  BY <1>1
<1>3. \A c : c \in 1..(Len(checks) + 1) <=> c \in 1..Len(checks) \/ c = Len(checks) + 1
  BY <1>2
<1> QED BY <1>2, <1>3 DEF Complete

\* A board without a baseline has no history.
LEMMA NothingBefore ==
  ASSUME IInv, board.baseline = 0
  PROVE  Complete = {} /\ presence = {} /\ Known = {}
<1>1. Complete = {}
  BY CompleteAre DEF IInv, HistoryInv, HistoryIsSeen, Complete
<1>2. presence = {}
  BY <1>1 DEF IInv, HistoryInv, HistoryIsSeen, TypeOK, Intervals
<1> QED BY <1>1, <1>2 DEF IInv, HistoryInv, HistoryIsSeen, Spans

----------------------------------------------------------------------------
(* A complete check applied.                                               *)

\* What the check with this id makes of an interval: it closes what is gone.
Became(p, id, found, at) ==
  IF p.job \in Gone(found) /\ p.closed = 0 THEN [p EXCEPT !.closed = id, !.closedAt = at] ELSE p

\* The interval it opens for what is new or back.
Begun(i, id, at) == [job |-> i, opened |-> id, openedAt |-> at, closed |-> 0, closedAt |-> 0]
Opens(found) == (DOMAIN found \ Known) \union Back(found)

\* The intervals there are after it: those that were, closed or not, and the new.
LEMMA PresenceAfter ==
  ASSUME TypeOK, NEW id, NEW found, NEW at, ApplyJobs(id, found, at)
  PROVE  /\ \A p \in presence' : \/ \E o \in presence : p = Became(o, id, found, at)
                                 \/ \E i \in Opens(found) : p = Begun(i, id, at)
         /\ \A o \in presence : Became(o, id, found, at) \in presence'
         /\ \A i \in Opens(found) : Begun(i, id, at) \in presence'
<1>1. presence' = {Became(p, id, found, at) : p \in presence}
                    \union {Begun(i, id, at) : i \in Opens(found)}
  BY DEF ApplyJobs, Became, Begun, Opens
<1> QED BY <1>1

\* What became of an interval.
LEMMA BecameIs ==
  ASSUME TypeOK, NEW id, NEW found, NEW at, NEW o \in presence
  PROVE  LET p == Became(o, id, found, at)
         IN /\ p.job = o.job /\ p.opened = o.opened /\ p.openedAt = o.openedAt
            /\ \/ p.closed = id /\ p.closedAt = at /\ o.closed = 0 /\ o.job \notin DOMAIN found
               \/ p = o /\ (o.closed = 0 => o.job \in DOMAIN found)
<1>1. o \in Intervals
  BY DEF TypeOK
<1>2. o.closed = 0 => o.job \in OpenJobs
  BY <1>1 DEF OpenJobs, Open, Intervals
<1> QED BY <1>1, <1>2 DEF Became, Gone, Intervals

\* What it opens is listed, and was not open.
LEMMA OpensAre ==
  ASSUME BornInv, TypeOK, NEW found \in Listings
  PROVE  Opens(found) \subseteq (DOMAIN found \ OpenJobs) /\ DOMAIN found \subseteq Ids
         /\ (DOMAIN found) \ OpenJobs \subseteq Opens(found)
<1>1. DOMAIN found \subseteq Ids
  BY BoardsAssumption
<1>2. OpenJobs \subseteq Known
  BY DEF BornInv, OpenJobs, Open, Known
<1> QED BY <1>1, <1>2 DEF Opens, Back

\* Its open jobs are those it saw.
LEMMA OpenAreSeen ==
  ASSUME TypeOK, BornInv, NEW id \in Nat \ {0}, NEW found \in Listings, NEW at,
         ApplyJobs(id, found, at)
  PROVE  OpenJobs' = DOMAIN found
<1>1. ASSUME NEW i \in DOMAIN found
      PROVE  i \in OpenJobs'
  <2>1. CASE i \in OpenJobs
    <3>1. PICK o \in presence : o.job = i /\ o.closed = 0
      BY <2>1 DEF OpenJobs, Open
    <3>2. Became(o, id, found, at) = o
      BY <3>1, BecameIs
    <3>3. o \in presence'
      BY <3>2, PresenceAfter
    <3> QED BY <2>1, <3>1, <3>3 DEF OpenJobs, Open
  <2>2. CASE i \notin OpenJobs
    <3>1. Begun(i, id, at) \in presence'
      BY <2>2, OpensAre, PresenceAfter
    <3> QED BY <3>1, OpensAre DEF OpenJobs, Open, Begun
  <2> QED BY <2>1, <2>2
<1>2. ASSUME NEW i \in Ids, NEW p \in presence', p.job = i, p.closed = 0
      PROVE  i \in DOMAIN found
  <2>1. CASE \E o \in presence : p = Became(o, id, found, at)
    BY <1>2, <2>1, BecameIs
  <2>2. CASE \E j \in Opens(found) : p = Begun(j, id, at)
    BY <1>2, <2>2, OpensAre DEF Begun
  <2> QED BY <2>1, <2>2, PresenceAfter
<1> QED BY <1>1, <1>2 DEF OpenJobs, Open

\* What was known stays known, with the check that first saw it and what it replaced;
\* what is new is known from this check on.
LEMMA JobsAfter ==
  ASSUME TypeOK, NEW id \in 1..MaxChecks, NEW found \in Listings, NEW at, ApplyJobs(id, found, at)
  PROVE  /\ Known' = Known \union DOMAIN found
         /\ jobs' \in [Ids -> JobRows \union {None}]
         /\ \A i \in Known : jobs'[i].first = jobs[i].first /\ jobs'[i].from = jobs[i].from
         /\ \A i \in DOMAIN found \ Known : jobs'[i].first = id
<1> DEFINE new == DOMAIN found \ Known
<1>1. PICK from \in IF board.baseline = 0 THEN {[i \in new |-> None]} ELSE Reposts(new, found, at) :
        jobs' = [i \in Ids |->
                   IF i \in new THEN [print |-> found[i], first |-> id, from |-> from[i]]
                   ELSE IF i \in DOMAIN found THEN [jobs[i] EXCEPT !.print = found[i]]
                   ELSE jobs[i]]
  BY DEF ApplyJobs
<1>2. \A i \in new : from[i] \in Ids \union {None}
  BY <1>1 DEF Reposts, Sources, Known
<1>3. DOMAIN found \subseteq Ids /\ \A i \in DOMAIN found : found[i] \in Prints
  BY BoardsAssumption
<1>4. ASSUME NEW i \in Ids
      PROVE  /\ i \in new => jobs'[i] \in JobRows /\ jobs'[i].first = id
             /\ i \in Known => /\ jobs'[i] \in JobRows
                               /\ jobs'[i].first = jobs[i].first /\ jobs'[i].from = jobs[i].from
             /\ i \notin DOMAIN found => jobs'[i] = jobs[i]
  BY <1>1, <1>2, <1>3 DEF TypeOK, Known, JobRows
<1> HIDE DEF new
<1>5. new = DOMAIN found \ Known /\ jobs \in [Ids -> JobRows \union {None}]
  BY DEF new, TypeOK
<1>6. \A i \in Ids : jobs'[i] \in JobRows \/ (i \notin DOMAIN found /\ jobs'[i] = jobs[i])
  BY <1>4, <1>5
<1>7. jobs' \in [Ids -> JobRows \union {None}]
  <2>1. \A i \in Ids : jobs'[i] \in JobRows \union {None}
    BY <1>5, <1>6
  <2> QED BY <1>1, <2>1
<1>8. \A i \in Ids : i \in Known <=> jobs[i] # None
  BY DEF Known
<1>9. \A i \in Ids : jobs'[i] # None <=> i \in Known \/ i \in DOMAIN found
  <2> SUFFICES ASSUME NEW i \in Ids PROVE jobs'[i] # None <=> i \in Known \/ i \in DOMAIN found
    OBVIOUS
  <2>1. CASE i \in Known \/ i \in DOMAIN found
    <3>1. jobs'[i] \in JobRows
      BY <1>4, <1>5, <2>1
    <3> QED BY <2>1, <3>1, RowsAreSome
  <2>2. CASE ~ (i \in Known \/ i \in DOMAIN found)
    BY <1>4, <1>8, <2>2
  <2> QED BY <2>1, <2>2
<1>10. Known' = Known \union DOMAIN found
  <2>1. Known' = {i \in Ids : jobs'[i] # None} /\ Known \subseteq Ids
    BY DEF Known
  <2> QED BY <1>3, <1>9, <2>1
<1>11. \A i \in Known : i \in Ids
  BY DEF Known
<1> QED BY <1>3, <1>4, <1>5, <1>7, <1>10, <1>11

\* New postings replace what was known, has no successor and is not listed now, each
\* another.
LEMMA FromAfter ==
  ASSUME TypeOK, NEW id \in 1..MaxChecks, NEW found \in Listings, NEW at, ApplyJobs(id, found, at),
         board.baseline = 0 => Known = {}
  PROVE  /\ \A i \in DOMAIN found \ Known : jobs'[i].from # None =>
              /\ jobs'[i].from \in Known \ DOMAIN found
              /\ \A j \in Known : jobs[j].from # jobs'[i].from
         /\ \A i, j \in DOMAIN found \ Known :
              jobs'[i].from = jobs'[j].from /\ jobs'[i].from # None => i = j
<1> DEFINE new == DOMAIN found \ Known
<1>1. PICK from \in IF board.baseline = 0 THEN {[i \in new |-> None]} ELSE Reposts(new, found, at) :
        jobs' = [i \in Ids |->
                   IF i \in new THEN [print |-> found[i], first |-> id, from |-> from[i]]
                   ELSE IF i \in DOMAIN found THEN [jobs[i] EXCEPT !.print = found[i]]
                   ELSE jobs[i]]
  BY DEF ApplyJobs
<1>2. /\ \A i, j \in new : from[i] = from[j] /\ from[i] # None => i = j
      /\ \A i \in new : from[i] \in Sources(found, at) \union {None}
  BY <1>1 DEF Reposts
<1>3. \A i \in new : jobs'[i].from = from[i]
  BY <1>1, BoardsAssumption
<1> QED BY <1>2, <1>3 DEF Sources, HasSuccessor

\* Of one posting, intervals follow one another.
Apart(p, q) == p.closed \in 1..(q.opened - 1) \/ q.closed \in 1..(p.opened - 1)

\* The history is what complete checks saw, with this one.
LEMMA HistoryAfter ==
  ASSUME IInv, NEW found \in Listings, NEW at, Len(checks) + 1 <= MaxChecks,
         checks' = Append(checks, "complete"), board' = Applied(Len(checks) + 1),
         ApplyJobs(Len(checks) + 1, found, at)
  PROVE  BornInv' /\ HistoryIsSeen'
<1> DEFINE id == Len(checks) + 1
<1>0. TypeOK /\ BornInv /\ HistoryIsSeen /\ id \in 1..MaxChecks
  BY CompleteAre DEF IInv, HistoryInv, BoardsAssumption
<1>1. Complete' = Complete \union {id} /\ \A c \in Complete : c \in 1..(id - 1)
  BY <1>0, AppendKeeps, CompleteAre
<1>2. \A o \in presence : /\ o.job \in Ids /\ o.opened \in 1..(id - 1) /\ o.closed \in 0..(id - 1)
                          /\ o.opened \in Complete /\ o.closed \in Complete \union {0}
  BY <1>0, <1>1 DEF HistoryIsSeen, TypeOK, Intervals
<1>3. BornInv'
  <2>1. ASSUME NEW p \in presence'
        PROVE  p.job \in Known \union DOMAIN found
    <3>1. CASE \E o \in presence : p = Became(o, id, found, at)
      BY <1>0, <3>1, BecameIs DEF BornInv
    <3>2. CASE \E i \in Opens(found) : p = Begun(i, id, at)
      BY <1>0, <3>2, OpensAre DEF Begun
    <3> QED BY <1>0, <3>1, <3>2, PresenceAfter
  <2> QED BY <1>0, <2>1, JobsAfter DEF BornInv
<1>4. \A p \in presence' : {p.opened, p.closed} \subseteq Complete' \union {0}
  <2> SUFFICES ASSUME NEW p \in presence'
               PROVE  p.opened \in Complete' \union {0} /\ p.closed \in Complete' \union {0}
    OBVIOUS
  <2>1. CASE \E o \in presence : p = Became(o, id, found, at)
    BY <1>0, <1>1, <1>2, <2>1, BecameIs
  <2>2. CASE \E i \in Opens(found) : p = Begun(i, id, at)
    BY <1>1, <2>2 DEF Begun
  <2> QED BY <1>0, <2>1, <2>2, PresenceAfter
<1>5. /\ board'.baseline \in Complete'
      /\ \A c \in Complete' : board'.baseline <= c
  <2>1. board'.baseline = IF board.baseline = 0 THEN id ELSE board.baseline
    BY DEF Applied, Unheld
  <2>2. CASE board.baseline = 0
    BY <1>1, <2>1, <2>2, NothingBefore
  <2>3. CASE board.baseline # 0
    <3>1. board.baseline \in Complete /\ \A c \in Complete : board.baseline <= c
      BY <1>0, <2>3 DEF IInv, FlagsInv, HistoryIsSeen
    <3> QED BY <1>1, <2>1, <2>3, <3>1
  <2> QED BY <2>2, <2>3
<1>6. ASSUME NEW i \in Known'
      PROVE  /\ \E p \in presence' : p.job = i /\ p.opened = jobs'[i].first
             /\ \A p \in presence' : p.job = i => p.opened >= jobs'[i].first
  <2>1. CASE i \in Known
    <3>1. jobs'[i].first = jobs[i].first
      BY <1>0, <2>1, JobsAfter
    <3>2. PICK o \in presence : o.job = i /\ o.opened = jobs[i].first
      BY <1>0, <2>1 DEF HistoryIsSeen, Spans
    <3>3. Became(o, id, found, at) \in presence'
      BY <1>0, PresenceAfter
    <3>4. ASSUME NEW p \in presence', p.job = i
          PROVE  p.opened >= jobs[i].first
      <4>1. CASE \E q \in presence : p = Became(q, id, found, at)
        BY <1>0, <2>1, <3>4, <4>1, BecameIs DEF HistoryIsSeen, Spans
      <4>2. CASE \E j \in Opens(found) : p = Begun(j, id, at)
        BY <1>2, <3>2, <4>2 DEF Begun
      <4> QED BY <1>0, <4>1, <4>2, PresenceAfter
    <3> QED BY <1>0, <3>1, <3>2, <3>3, <3>4, BecameIs
  <2>2. CASE i \notin Known
    <3>1. i \in DOMAIN found \ Known /\ jobs'[i].first = id
      BY <1>0, <1>6, <2>2, JobsAfter
    <3>2. Begun(i, id, at) \in presence'
      BY <1>0, <3>1, PresenceAfter DEF Opens
    <3>3. ASSUME NEW p \in presence', p.job = i
          PROVE  p.opened >= id
      <4>1. CASE \E q \in presence : p = Became(q, id, found, at)
        BY <1>0, <2>2, <3>3, <4>1, BecameIs DEF BornInv
      <4>2. CASE \E j \in Opens(found) : p = Begun(j, id, at)
        BY <1>0, <4>2 DEF Begun
      <4> QED BY <1>0, <4>1, <4>2, PresenceAfter
    <3> QED BY <3>1, <3>2, <3>3 DEF Begun
  <2> QED BY <2>1, <2>2
<1>7. \A p \in presence' : p.closed # 0 => p.opened < p.closed
  <2> SUFFICES ASSUME NEW p \in presence', p.closed # 0
               PROVE  p.opened < p.closed
    OBVIOUS
  <2>1. CASE \E o \in presence : p = Became(o, id, found, at)
    BY <1>0, <1>2, <2>1, BecameIs DEF HistoryIsSeen
  <2>2. CASE \E i \in Opens(found) : p = Begun(i, id, at)
    BY <2>2 DEF Begun
  <2> QED BY <1>0, <2>1, <2>2, PresenceAfter
<1>8. ASSUME NEW p \in presence', NEW q \in presence', p.job = q.job, p # q
      PROVE  Apart(p, q)
  <2>1. ASSUME NEW x \in presence', NEW y \in presence', x.job = y.job,
               \E o \in presence : x = Became(o, id, found, at),
               \E i \in Opens(found) : y = Begun(i, id, at)
        PROVE  x.closed \in 1..(y.opened - 1)
    <3>1. PICK o \in presence : x = Became(o, id, found, at)
      BY <2>1
    <3>2. y.opened = id /\ x.job \in DOMAIN found \ OpenJobs
      BY <1>0, <2>1, OpensAre DEF Begun
    <3>3. o.job = x.job /\ o.closed # 0
      BY <1>0, <1>2, <3>1, <3>2, BecameIs DEF OpenJobs, Open
    <3> QED BY <1>0, <1>2, <3>1, <3>2, <3>3, BecameIs
  <2>2. CASE /\ \E o \in presence : p = Became(o, id, found, at)
             /\ \E o \in presence : q = Became(o, id, found, at)
    <3>1. PICK o \in presence : p = Became(o, id, found, at)
      BY <2>2
    <3>2. PICK r \in presence : q = Became(r, id, found, at)
      BY <2>2
    <3>3. o # r /\ o.job = r.job
      BY <1>0, <1>8, <3>1, <3>2, BecameIs
    <3>4. o.closed \in 1..(r.opened - 1) \/ r.closed \in 1..(o.opened - 1)
      BY <1>0, <3>3 DEF HistoryIsSeen, Spans
    <3> QED BY <1>0, <3>1, <3>2, <3>4, BecameIs DEF Apart
  <2>3. CASE /\ \E i \in Opens(found) : p = Begun(i, id, at)
             /\ \E i \in Opens(found) : q = Begun(i, id, at)
    BY <1>8, <2>3 DEF Begun
  <2> QED BY <1>0, <1>8, <2>1, <2>2, <2>3, PresenceAfter DEF Apart
<1> QED BY <1>3, <1>4, <1>5, <1>6, <1>7, <1>8 DEF HistoryIsSeen, Spans, Apart

\* A new posting's source is gone when it comes, and no source serves two.
LEMMA RepostsAfter ==
  ASSUME IInv, NEW found \in Listings, NEW at, Len(checks) + 1 <= MaxChecks,
         ApplyJobs(Len(checks) + 1, found, at)
  PROVE  RepostsAreReplacements'
<1> DEFINE id == Len(checks) + 1
<1>0. /\ TypeOK /\ BornInv /\ HistoryIsSeen /\ RepostsAreReplacements /\ id \in 1..MaxChecks
      /\ board.baseline = 0 => Known = {}
  BY CompleteAre, NothingBefore DEF IInv, HistoryInv, BoardsAssumption
<1>1. \A o \in presence : o.opened \in 1..(id - 1) /\ o.closed \in 0..(id - 1)
  BY <1>0, CompleteAre DEF HistoryIsSeen, TypeOK, Intervals
<1>2. \A i \in Known : jobs[i].first \in 1..(id - 1)
  BY <1>0, <1>1 DEF HistoryIsSeen, Spans
<1>3. /\ Known' = Known \union DOMAIN found
      /\ \A i \in Known : jobs'[i].first = jobs[i].first /\ jobs'[i].from = jobs[i].from
      /\ \A i \in DOMAIN found \ Known : jobs'[i].first = id
  BY <1>0, JobsAfter
<1>4. ASSUME NEW i \in Known', NEW source, source = jobs'[i].from, source # None
      PROVE  /\ source \in Known /\ jobs[source].first < jobs'[i].first
             /\ \A j \in Known' : jobs'[j].from = source => j = i
  <2>1. \A j \in Known : jobs[j].from = source =>
           source \in Known /\ \A k \in Known : jobs[k].from = source => k = j
    BY <1>0, <1>4 DEF RepostsAreReplacements
  <2>2. \A j \in DOMAIN found \ Known : jobs'[j].from = source =>
           /\ source \in Known /\ \A k \in Known : jobs[k].from # source
           /\ \A k \in DOMAIN found \ Known : jobs'[k].from = source => k = j
    BY <1>0, <1>4, FromAfter
  <2>3. CASE i \in Known
    BY <1>0, <1>3, <1>4, <2>1, <2>2, <2>3 DEF RepostsAreReplacements
  <2>4. CASE i \in DOMAIN found \ Known
    BY <1>2, <1>3, <1>4, <2>2, <2>4
  <2> QED BY <1>3, <2>3, <2>4
<1>5. ASSUME NEW i \in Known', NEW source, source = jobs'[i].from, source # None,
             NEW p \in presence', p.job = source, p.opened <= jobs'[i].first
      PROVE  p.closed # 0 /\ p.closed <= jobs'[i].first
  <2>1. CASE i \in Known
    <3>1. /\ jobs'[i].first = jobs[i].first /\ source = jobs[i].from
          /\ jobs[i].first \in 1..(id - 1)
      BY <1>2, <1>3, <1>5, <2>1
    <3>2. PICK o \in presence : p = Became(o, id, found, at)
      BY <1>0, <1>5, <3>1, PresenceAfter DEF Begun
    <3>3. o.job = source /\ o.opened <= jobs[i].first
      BY <1>0, <1>5, <3>1, <3>2, BecameIs
    <3>4. o.closed # 0 /\ ~(o.closed > jobs[i].first)
      BY <1>0, <1>5, <2>1, <3>1, <3>3 DEF RepostsAreReplacements, Spans
    <3> QED BY <1>0, <1>1, <3>1, <3>2, <3>4, BecameIs
  <2>2. CASE i \in DOMAIN found \ Known
    <3>1. jobs'[i].first = id /\ source \notin DOMAIN found
      BY <1>0, <1>3, <1>5, <2>2, FromAfter
    <3>2. PICK o \in presence : p = Became(o, id, found, at)
      BY <1>0, <1>5, <3>1, PresenceAfter, OpensAre DEF Begun
    <3> QED BY <1>0, <1>1, <1>5, <3>1, <3>2, BecameIs
  <2> QED BY <1>3, <2>1, <2>2
<1>6. \A i \in Known : jobs'[i].first = jobs[i].first
  BY <1>3
<1> QED
  <2> SUFFICES ASSUME NEW i \in Known', jobs'[i].from # None
               PROVE  LET source == jobs'[i].from IN
                      /\ source \in Known' /\ jobs'[source].first < jobs'[i].first
                      /\ \A p \in presence' : p.job = source =>
                           ~(p.opened <= jobs'[i].first /\ (p.closed = 0 \/ p.closed > jobs'[i].first))
                      /\ \A j \in Known' : jobs'[j].from = source => j = i
    BY DEF RepostsAreReplacements, Spans
  <2>1. jobs'[i].first \in Nat
    BY <1>2, <1>3
  <2>2. \A p \in presence' : p.closed \in Nat
    BY <1>0, <1>1, PresenceAfter, BecameIs DEF Begun
  <2> QED BY <1>3, <1>4, <1>5, <2>1, <2>2

----------------------------------------------------------------------------
(* Every step.                                                             *)

\* Tasks under way go on alone: a slot is set to a row of its own.
LEMMA RunSet ==
  ASSUME RunInv, NEW s \in Slots, NEW r \in RunRows, run' = [run EXCEPT ![s] = r],
         r.pc = "queued" => r.tries < MaxAttempts,
         r.pc = "fetched" => r.status \in Statuses /\ r.found \in Listings
  PROVE  RunInv'
BY DEF RunInv

\* One check fewer, or none more, is fetched: there is room still.
LEMMA RoomLeft ==
  ASSUME RoomInv, TypeOK, Fetched' \subseteq Fetched, checks' = checks \/ checks' = <<>>
  PROVE  RoomInv'
<1>1. IsFiniteSet(Fetched)
  BY BoardsAssumption, FS_Subset DEF Fetched
<1>2. /\ Cardinality(Fetched') \in Nat /\ Cardinality(Fetched) \in Nat
      /\ Cardinality(Fetched') <= Cardinality(Fetched)
  BY <1>1, FS_Subset, FS_CardinalityType
<1>3. Len(checks') \in Nat /\ Len(checks) \in Nat /\ Len(checks') <= Len(checks)
  BY DEF TypeOK
<1> QED BY <1>2, <1>3, BoardsAssumption DEF RoomInv

\* What touches neither the checks nor the history leaves it true, removed or not.
LEMMA HistoryStays ==
  ASSUME HistoryInv, checks' = checks, jobs' = jobs, presence' = presence, shown' = shown,
         board'.baseline = board.baseline
  PROVE  HistoryInv'
BY DEF HistoryInv, BornInv, HistoryIsSeen, RepostsAreReplacements, OpenIsLastSeen, Complete,
       Known, Spans, OpenJobs, Open

\* A row that goes back to the queue has a try left; if it has none, it is done.
LEMMA AgainIs ==
  ASSUME RunInv, NEW s \in Slots
  PROVE  /\ Again(s) \in RunRows /\ Idle \in RunRows
         /\ Again(s).pc \in {"queued", "idle"}
         /\ Again(s).pc = "queued" => Again(s).tries < MaxAttempts
<1>1. run[s].tries \in 0..MaxAttempts
  BY DEF RunInv, RunRows
<1>2. /\ Idle.pc = "idle" /\ Idle.tries = 0 /\ Idle.status = "none" /\ Idle.found = None /\ Idle.at = 0
      /\ Idle \in RunRows
  BY Limits DEF Idle, RunRows
<1>3. CASE run[s].tries < MaxAttempts
  <2>1. Again(s) = [pc |-> "queued", tries |-> run[s].tries, status |-> "none", found |-> None, at |-> 0]
    BY <1>3 DEF Again, Idle
  <2> QED BY <1>1, <1>2, <1>3, <2>1, Limits DEF RunRows
<1>4. CASE ~(run[s].tries < MaxAttempts)
  BY <1>2, <1>4 DEF Again
<1> QED BY <1>3, <1>4

\* A delivery that has begun.
LEMMA FetchingIs ==
  ASSUME NEW r \in RunRows, NEW n \in 0..MaxAttempts
  PROVE  LET f == [r EXCEPT !.pc = "fetching", !.tries = n] IN f \in RunRows /\ f.pc = "fetching"
BY DEF RunRows

\* Begin a delivery, or drop it.
LEMMA BeginStep ==
  ASSUME IInv, NEW s \in Slots, Begin(s)
  PROVE  IInv'
<1>1. RunInv'
  <2>1. run' = [run EXCEPT ![s] = Idle] \/
        run' = [run EXCEPT ![s] = [Idle EXCEPT !.pc = "fetching", !.tries = run[s].tries + 1]]
    BY DEF Begin
  <2>2. Idle \in RunRows /\ [Idle EXCEPT !.pc = "fetching", !.tries = run[s].tries + 1] \in RunRows
       /\ [Idle EXCEPT !.pc = "fetching", !.tries = run[s].tries + 1].pc = "fetching"
    <3>1. run[s].tries \in 0..MaxAttempts /\ run[s].tries < MaxAttempts
      BY DEF Begin, IInv, RunInv, RunRows
    <3>2. run[s].tries + 1 \in 0..MaxAttempts
      BY <3>1, Limits
    <3> QED BY <3>2, AgainIs, FetchingIs DEF IInv
  <2>3. Idle.pc = "idle"
    BY DEF Idle
  <2> QED BY <2>1, <2>2, <2>3, RunSet DEF IInv
<1>2. Fetched' \subseteq Fetched
  BY DEF Begin, Fetched, IInv, RunInv, Idle
<1>3. RoomInv' /\ HistoryInv'
  BY <1>2, RoomLeft, HistoryStays DEF Begin, IInv
<1>4. TypeOK' /\ FlagsInv'
  BY <1>1 DEF Begin, IInv, TypeOK, FlagsInv, HeldIsLatest, Complete, RunInv, RunRows
<1> QED BY <1>1, <1>3, <1>4 DEF IInv

\* Fetch: one more has been fetched, and there is room for it.
LEMMA FetchStep ==
  ASSUME IInv, NEW s \in Slots, Fetch(s)
  PROVE  IInv'
<1>1. PICK status \in Statuses, found \in Listings :
        run' = [run EXCEPT ![s].pc = "fetched", ![s].status = status, ![s].found = found, ![s].at = now]
  BY DEF Fetch
<1>2. RunInv'
  <2>1. [run[s] EXCEPT !.pc = "fetched", !.status = status, !.found = found, !.at = now] \in RunRows
    BY DEF IInv, TypeOK, RunInv, RunRows
  <2>2. run' = [run EXCEPT ![s] = [run[s] EXCEPT !.pc = "fetched", !.status = status, !.found = found, !.at = now]]
    BY <1>1
  <2> QED BY <2>1, <2>2, RunSet DEF IInv, RunInv, RunRows
<1>3. RoomInv'
  <2>1. Fetched' = Fetched \union {s} /\ s \notin Fetched
    BY <1>1 DEF Fetch, Fetched, IInv, RunInv
  <2>2. IsFiniteSet(Fetched)
    BY BoardsAssumption, FS_Subset DEF Fetched
  <2>3. Cardinality(Fetched') = Cardinality(Fetched) + 1 /\ Cardinality(Fetched) \in Nat
    BY <2>1, <2>2, FS_AddElement, FS_CardinalityType
  <2>4. Len(checks) + Cardinality(Fetched) < MaxChecks
    BY DEF Fetch, Fetched
  <2>5. checks' = checks /\ Len(checks) \in Nat
    BY DEF Fetch, IInv, TypeOK
  <2> QED BY <2>3, <2>4, <2>5, BoardsAssumption DEF RoomInv
<1>4. HistoryInv'
  BY HistoryStays DEF Fetch, IInv
<1>5. TypeOK' /\ FlagsInv'
  BY <1>2 DEF Fetch, IInv, TypeOK, FlagsInv, HeldIsLatest, Complete, RunInv, RunRows
<1> QED BY <1>2, <1>3, <1>4, <1>5 DEF IInv

\* A fetched check is one of those there is room for.
LEMMA RoomForOne ==
  ASSUME IInv, NEW s \in Fetched
  PROVE  Len(checks) + 1 <= MaxChecks
<1>1. IsFiniteSet(Fetched)
  BY BoardsAssumption, FS_Subset DEF Fetched
<1>2. Cardinality(Fetched) \in Nat \ {0}
  BY <1>1, FS_CardinalityType, FS_EmptySet
<1> QED BY <1>2, CompleteAre, BoardsAssumption DEF IInv, RoomInv

\* The delivery of a check ends, and its slot is free or queued again.
LEMMA SlotLeft ==
  ASSUME RunInv, NEW s \in Slots, run' = [run EXCEPT ![s] = Idle] \/ run' = [run EXCEPT ![s] = Again(s)]
  PROVE  RunInv' /\ Fetched' \subseteq Fetched \ {s}
<1>1. Idle.pc = "idle"
  BY DEF Idle
<1>2. RunInv'
  BY <1>1, AgainIs, RunSet
<1>3. \A r \in Slots : run'[r].pc = "fetched" => r # s /\ run[r].pc = "fetched"
  BY <1>1, AgainIs DEF RunInv
<1> QED BY <1>2, <1>3 DEF Fetched

LEMMA LoseStep ==
  ASSUME IInv, NEW s \in Slots, Lose(s)
  PROVE  IInv'
<1>1. RunInv' /\ Fetched' \subseteq Fetched
  BY SlotLeft DEF Lose, IInv
<1>2. RoomInv' /\ HistoryInv'
  BY <1>1, RoomLeft, HistoryStays DEF Lose, IInv
<1>3. TypeOK' /\ FlagsInv'
  BY <1>1 DEF Lose, IInv, TypeOK, FlagsInv, HeldIsLatest, Complete, RunInv, RunRows
<1> QED BY <1>1, <1>2, <1>3 DEF IInv

\* A flag of a board's row is set.
LEMMA RowSet ==
  ASSUME NEW r \in BoardRows, NEW n \in 0..MaxChecks
  PROVE  /\ [r EXCEPT !.baseline = n] \in BoardRows
         /\ [r EXCEPT !.baseline = n].baseline = n /\ [r EXCEPT !.baseline = n].held = r.held
         /\ [r EXCEPT !.baseline = n].accepted = r.accepted
         /\ [r EXCEPT !.baseline = n].failures = r.failures
         /\ [r EXCEPT !.held = n] \in BoardRows
         /\ [r EXCEPT !.failures = n] \in BoardRows
BY DEF BoardRows

\* An interval is closed.
LEMMA IntervalSet ==
  ASSUME NEW o \in Intervals, NEW n \in 0..MaxChecks, NEW t \in 0..MaxNow
  PROVE  [o EXCEPT !.closed = n, !.closedAt = t] \in Intervals
BY DEF Intervals

\* A complete check that was applied leaves the board and its history right.
LEMMA CompleteApplied ==
  ASSUME IInv, NEW found \in Listings, NEW at \in 0..MaxNow, Len(checks) + 1 <= MaxChecks,
         checks' = Append(checks, "complete"), board' = Applied(Len(checks) + 1),
         shown' = DOMAIN found, ApplyJobs(Len(checks) + 1, found, at)
  PROVE  /\ FlagsInv' /\ HistoryInv'
         /\ board' \in BoardRows /\ jobs' \in [Ids -> JobRows \union {None}]
         /\ presence' \subseteq Intervals /\ shown' \subseteq Ids
<1> DEFINE id == Len(checks) + 1
<1>0. TypeOK /\ BornInv /\ id \in 1..MaxChecks
  BY CompleteAre, Limits DEF IInv, HistoryInv
<1>1. BornInv' /\ HistoryIsSeen' /\ RepostsAreReplacements'
  BY HistoryAfter, RepostsAfter
<1>2. OpenJobs' = DOMAIN found
  BY <1>0, OpenAreSeen
<1>3. HistoryInv'
  BY <1>1, <1>2, BoardsAssumption DEF HistoryInv, OpenIsLastSeen
<1>4. /\ board' \in BoardRows
      /\ board'.baseline \in {board.baseline, id} \ {0}
      /\ board'.held = 0 /\ board'.failures = 0 /\ board'.accepted = FALSE
  <2>1. Unheld \in BoardRows /\ Unheld.held = 0 /\ Unheld.failures = 0 /\ Unheld.accepted = FALSE
    BY Limits DEF Unheld, BoardRows
  <2> DEFINE base == IF board.baseline = 0 THEN id ELSE board.baseline
  <2>2. base \in 0..MaxChecks /\ base \in {board.baseline, id} \ {0}
    BY <1>0 DEF TypeOK, BoardRows
  <2>3. board' = [Unheld EXCEPT !.baseline = base]
    BY DEF Applied
  <2> HIDE DEF base
  <2>4. /\ board' \in BoardRows /\ board'.baseline = base
        /\ board'.held = Unheld.held /\ board'.accepted = Unheld.accepted
        /\ board'.failures = Unheld.failures
    BY <2>1, <2>2, <2>3 DEF BoardRows
  <2> QED BY <2>1, <2>2, <2>4
<1>6. FlagsInv'
  <2>1. board'.baseline \in Complete'
    <3>1. Complete' = Complete \union {id}
      BY <1>0, AppendKeeps
    <3> QED BY <1>4, <3>1 DEF IInv, FlagsInv
  <2>2. Len(checks') = id
    BY <1>0, AppendKeeps
  <2> QED BY <1>0, <1>4, <2>1, <2>2 DEF FlagsInv, HeldIsLatest
<1>7. presence' \subseteq Intervals
  <2>1. ASSUME NEW o \in presence
        PROVE  Became(o, id, found, at) \in Intervals
    <3>1. o \in Intervals /\ id \in 0..MaxChecks
      BY <1>0 DEF TypeOK
    <3> QED BY <3>1, IntervalSet DEF Became
  <2>2. ASSUME NEW i \in Opens(found)
        PROVE  Begun(i, id, at) \in Intervals
    BY <1>0, <2>2, OpensAre, Limits DEF Begun, Intervals
  <2> QED BY <1>0, <2>1, <2>2, PresenceAfter
<1> QED BY <1>0, <1>3, <1>4, <1>6, <1>7, JobsAfter, BoardsAssumption

\* One that is recorded only, held or not complete, leaves the history as it was.
LEMMA Recorded ==
  ASSUME IInv, NEW plan \in CheckRows, plan # "complete", Len(checks) + 1 <= MaxChecks,
         checks' = Append(checks, plan), UNCHANGED <<jobs, presence, shown>>,
         board' = IF plan = "held" THEN [board EXCEPT !.held = Len(checks) + 1]
                  ELSE [board EXCEPT !.failures = @ + 1]
  PROVE  /\ FlagsInv' /\ HistoryInv' /\ board' \in BoardRows
<1> DEFINE id == Len(checks) + 1
<1>0. TypeOK /\ id \in 1..MaxChecks /\ Len(checks) \in Nat
  BY CompleteAre, Limits DEF IInv
<1>1. /\ Complete' = Complete
      /\ DOMAIN checks' = 1..id /\ Len(checks') = id /\ checks'[id] = plan
      /\ \A c \in DOMAIN checks : c \in DOMAIN checks' /\ checks'[c] = checks[c]
  BY <1>0, AppendKeeps
<1>2. board'.baseline = board.baseline /\ board'.accepted = board.accepted
  BY <1>0 DEF TypeOK, BoardRows
<1>3. HistoryInv'
  BY <1>1, <1>2 DEF IInv, HistoryInv, BornInv, HistoryIsSeen, RepostsAreReplacements,
     OpenIsLastSeen, Known, Spans, OpenJobs, Open
<1>4. board.failures \in Nat /\ board.failures <= Len(checks)
  BY <1>0 DEF TypeOK, BoardRows, IInv, FlagsInv
<1>5. CASE plan = "held"
  <2>1. board'.held = id /\ board'.failures = board.failures
    BY <1>0, <1>5 DEF TypeOK, BoardRows
  <2>2. board' \in BoardRows
    BY <1>0, <1>5 DEF TypeOK, BoardRows
  <2>3. FlagsInv'
    BY <1>0, <1>1, <1>2, <1>4, <1>5, <2>1, CompleteAre DEF IInv, FlagsInv, HeldIsLatest
  <2> QED BY <1>3, <2>2, <2>3
<1>6. CASE plan # "held"
  <2>1. board'.held = board.held /\ board'.failures = board.failures + 1
    BY <1>0, <1>6 DEF TypeOK, BoardRows
  <2>2. board' \in BoardRows
    <3>1. board.failures + 1 \in 0..MaxChecks /\ board \in BoardRows
      BY <1>0, <1>4, Limits DEF TypeOK
    <3> QED BY <1>6, <3>1, RowSet
  <2>3. FlagsInv'
    BY <1>0, <1>1, <1>2, <1>4, <2>1 DEF IInv, FlagsInv, HeldIsLatest
  <2> QED BY <1>3, <2>2, <2>3
<1> QED BY <1>5, <1>6

\* What a plan comes to.
LEMMA PlanIs ==
  ASSUME NEW status \in Statuses, NEW found
  PROVE  /\ PlanStatus(status, found) \in CheckRows
         /\ PlanStatus(status, found) = "complete" => status = "complete"
BY DEF PlanStatus, CheckRows, Statuses

\* Apply a check, or drop it with its board.
LEMMA ApplyStep ==
  ASSUME IInv, NEW s \in Slots, Apply(s)
  PROVE  IInv'
<1> DEFINE plan == PlanStatus(run[s].status, run[s].found)
           id   == Len(checks) + 1
<1>0. /\ TypeOK /\ RunInv /\ s \in Fetched
      /\ run[s].status \in Statuses /\ run[s].found \in Listings /\ run[s].at \in 0..MaxNow
      /\ Len(checks) \in Nat
  BY CompleteAre DEF Apply, IInv, RunInv, RunRows, Fetched
<1>1. RunInv' /\ Fetched' \subseteq Fetched \ {s}
  <2>1. run' = [run EXCEPT ![s] = Idle] \/ run' = [run EXCEPT ![s] = Again(s)]
    BY DEF Apply
  <2> QED BY <1>0, <2>1, SlotLeft
<1>2. UNCHANGED <<life, due, asking, now>>
  BY DEF Apply
<1>3. CASE life = "watched"
  <2>1. ApplyCheckPlan(run[s].status, run[s].found, run[s].at)
    BY <1>3 DEF Apply
  <2>2. checks' = Append(checks, plan) /\ plan \in CheckRows /\ id <= MaxChecks
    <3>1. checks' = Append(checks, plan)
      BY <2>1 DEF ApplyCheckPlan
    <3>2. Len(checks) + 1 <= MaxChecks
      BY <1>0, RoomForOne
    <3>3. plan \in CheckRows
      BY <1>0, PlanIs
    <3> QED BY <3>1, <3>2, <3>3
  <2>3. RoomInv'
    <3>1. IsFiniteSet(Fetched)
      BY BoardsAssumption, FS_Subset DEF Fetched
    <3>2. /\ Cardinality(Fetched \ {s}) = Cardinality(Fetched) - 1
          /\ Cardinality(Fetched') <= Cardinality(Fetched \ {s})
          /\ Cardinality(Fetched) \in Nat /\ Cardinality(Fetched') \in Nat
          /\ Cardinality(Fetched \ {s}) \in Nat
      BY <1>0, <1>1, <3>1, FS_RemoveElement, FS_Subset, FS_CardinalityType
    <3>3. Len(checks') = id
      BY <1>0, <2>2, AppendKeeps
    <3> QED BY <1>0, <3>2, <3>3, Limits DEF RoomInv, IInv
  <2>4. checks' \in Seq(CheckRows)
    BY <1>0, <2>2 DEF TypeOK
  <2>5. CASE plan = "complete"
    <3>1. /\ ApplyJobs(id, run[s].found, run[s].at) /\ shown' = DOMAIN run[s].found
          /\ board' = Applied(id) /\ checks' = Append(checks, "complete")
      BY <2>1, <2>5 DEF ApplyCheckPlan, ChangesJobState
    <3>2. /\ FlagsInv' /\ HistoryInv'
          /\ board' \in BoardRows /\ jobs' \in [Ids -> JobRows \union {None}]
          /\ presence' \subseteq Intervals /\ shown' \subseteq Ids
      BY <1>0, <2>2, <3>1, CompleteApplied
    <3>3. TypeOK'
      BY <1>0, <1>1, <1>2, <2>4, <3>2 DEF TypeOK, RunInv, RunRows
    <3> QED BY <1>1, <2>3, <3>2, <3>3 DEF IInv
  <2>6. CASE plan # "complete"
    <3>1. /\ UNCHANGED <<jobs, presence, shown>>
          /\ board' = IF plan = "held" THEN [board EXCEPT !.held = id] ELSE [board EXCEPT !.failures = @ + 1]
      BY <2>1, <2>6 DEF ApplyCheckPlan, ChangesJobState
    <3>2. FlagsInv' /\ HistoryInv' /\ board' \in BoardRows
      BY <2>2, <2>6, <3>1, Recorded
    <3>3. TypeOK'
      BY <1>0, <1>1, <1>2, <2>4, <3>1, <3>2 DEF TypeOK, RunInv, RunRows
    <3> QED BY <1>1, <2>3, <3>2, <3>3 DEF IInv
  <2> QED BY <2>5, <2>6
<1>4. CASE life # "watched"
  <2>1. UNCHANGED <<board, checks, jobs, presence, shown>>
    BY <1>4 DEF Apply
  <2>2. RoomInv' /\ HistoryInv'
    BY <1>1, <2>1, RoomLeft, HistoryStays DEF IInv
  <2>3. TypeOK' /\ FlagsInv'
    BY <1>1, <1>2, <2>1 DEF IInv, TypeOK, FlagsInv, HeldIsLatest, Complete, RunInv, RunRows
  <2> QED BY <1>1, <2>2, <2>3 DEF IInv
<1> QED BY <1>3, <1>4

\* What only queues a task, or asks for one, or passes the time.
LEMMA QueueStep ==
  ASSUME IInv, \E s \in Slots : Queue(s), UNCHANGED <<board, checks, jobs, presence, now, shown>>,
         life' \in {"watched", life}, due' \in BOOLEAN, asking' \subseteq {"press", "pass"}
  PROVE  IInv'
<1>1. PICK s \in Slots : Queue(s)
  OBVIOUS
<1>2. RunInv'
  <2>1. [Idle EXCEPT !.pc = "queued"] \in RunRows /\ [Idle EXCEPT !.pc = "queued"].pc = "queued"
        /\ [Idle EXCEPT !.pc = "queued"].tries < MaxAttempts
    BY Limits DEF Idle, RunRows
  <2> QED BY <1>1, <2>1, RunSet DEF Queue, IInv
<1>3. Fetched' \subseteq Fetched
  BY <1>1 DEF Queue, Fetched, IInv, RunInv, Idle
<1>4. RoomInv' /\ HistoryInv'
  BY <1>3, RoomLeft, HistoryStays DEF IInv
<1>5. TypeOK' /\ FlagsInv'
  BY <1>2 DEF IInv, TypeOK, FlagsInv, HeldIsLatest, Complete, RunInv, RunRows
<1> QED BY <1>2, <1>4, <1>5 DEF IInv

\* What leaves tasks and history alone.
LEMMA QuietStep ==
  ASSUME IInv, UNCHANGED <<board, checks, jobs, presence, run, shown>>,
         life' = life, due' \in BOOLEAN, asking' \subseteq {"press", "pass"}, now' \in 0..MaxNow
  PROVE  IInv'
<1>1. RoomInv' /\ HistoryInv'
  <2>1. Fetched' = Fetched
    BY DEF Fetched
  <2> QED BY <2>1, RoomLeft, HistoryStays DEF IInv
<1>2. TypeOK' /\ FlagsInv' /\ RunInv'
  BY DEF IInv, TypeOK, FlagsInv, HeldIsLatest, Complete, RunInv
<1> QED BY <1>1, <1>2 DEF IInv

LEMMA AcceptStep ==
  ASSUME IInv, AcceptDrop
  PROVE  IInv'
<1>1. /\ board' \in BoardRows /\ board'.accepted
      /\ board'.baseline = board.baseline /\ board'.held = board.held
      /\ board'.failures = board.failures
  BY DEF AcceptDrop, IInv, TypeOK, BoardRows
<1>2. RoomInv' /\ HistoryInv'
  <2>1. Fetched' = Fetched
    BY DEF Fetched, AcceptDrop
  <2> QED BY <1>1, <2>1, RoomLeft, HistoryStays DEF IInv, AcceptDrop
<1>3. TypeOK' /\ FlagsInv' /\ RunInv'
  BY <1>1 DEF IInv, TypeOK, FlagsInv, HeldIsLatest, Complete, RunInv, AcceptDrop
<1> QED BY <1>2, <1>3 DEF IInv

\* A board that is not there, or no more, has no checks and no history.
LEMMA NothingYet ==
  ASSUME board = Unheld, checks = <<>>, jobs = [i \in Ids |-> None], presence = {}, shown = {}
  PROVE  /\ FlagsInv /\ HistoryInv
         /\ board \in BoardRows /\ checks \in Seq(CheckRows)
         /\ jobs \in [Ids -> JobRows \union {None}]
<1>1. /\ board.baseline = 0 /\ board.held = 0 /\ board.failures = 0 /\ board.accepted = FALSE
      /\ board \in BoardRows
  BY Limits DEF Unheld, BoardRows
<1>2. Complete = {} /\ Known = {} /\ OpenJobs = {} /\ Len(checks) = 0
  BY DEF Complete, Known, OpenJobs, Open
<1>3. FlagsInv
  BY <1>1, <1>2 DEF FlagsInv, HeldIsLatest
<1>4. HistoryInv
  BY <1>1, <1>2, FS_EmptySet DEF HistoryInv, BornInv, HistoryIsSeen, RepostsAreReplacements, OpenIsLastSeen
<1> QED BY <1>1, <1>3, <1>4

LEMMA RemoveStep ==
  ASSUME IInv, RemoveBoard
  PROVE  IInv'
<1>1. /\ FlagsInv' /\ HistoryInv'
      /\ board' \in BoardRows /\ checks' \in Seq(CheckRows)
      /\ jobs' \in [Ids -> JobRows \union {None}]
  <2>1. /\ board' = Unheld /\ checks' = <<>> /\ jobs' = [i \in Ids |-> None] /\ presence' = {}
        /\ shown' = {}
    BY DEF RemoveBoard
  <2>2. /\ board'.baseline = 0 /\ board'.held = 0 /\ board'.failures = 0 /\ board'.accepted = FALSE
        /\ board' \in BoardRows
    BY <2>1, Limits DEF Unheld, BoardRows
  <2>3. Complete' = {} /\ Known' = {} /\ OpenJobs' = {} /\ Len(checks') = 0
    BY <2>1 DEF Complete, Known, OpenJobs, Open
  <2>4. FlagsInv'
    BY <2>1, <2>2, <2>3 DEF FlagsInv, HeldIsLatest
  <2>5. HistoryInv'
    BY <2>1, <2>2, <2>3, FS_EmptySet DEF HistoryInv, BornInv, HistoryIsSeen, RepostsAreReplacements,
       OpenIsLastSeen
  <2> QED BY <2>1, <2>2, <2>4, <2>5
<1>2. RoomInv'
  <2>1. Fetched' = Fetched
    BY DEF Fetched, RemoveBoard
  <2> QED BY <2>1, RoomLeft DEF IInv, RemoveBoard
<1>3. TypeOK' /\ RunInv'
  BY <1>1 DEF IInv, TypeOK, RunInv, RemoveBoard
<1> QED BY <1>1, <1>2, <1>3 DEF IInv

----------------------------------------------------------------------------
(* The theorems.                                                           *)

LEMMA Initially ==
  ASSUME Init
  PROVE  IInv
<1>1. FlagsInv /\ HistoryInv /\ board \in BoardRows /\ checks \in Seq(CheckRows)
      /\ jobs \in [Ids -> JobRows \union {None}]
  BY NothingYet DEF Init
<1>2. RunInv
  <2>1. Idle \in RunRows /\ Idle.pc = "idle"
    BY Limits DEF Idle, RunRows
  <2> QED BY <2>1 DEF RunInv, Init
<1>3. RoomInv
  <2>1. Fetched = {}
    BY DEF Fetched, Init, Idle
  <2> QED BY <2>1, FS_EmptySet, Limits DEF RoomInv, Init
<1>4. TypeOK
  <2>1. life = "unborn" /\ due = FALSE /\ asking = {} /\ presence = {} /\ shown = {} /\ now = 0
    BY DEF Init
  <2>2. now \in 0..MaxNow
    BY <2>1, Limits
  <2>3. \A s \in Slots : run[s] \in RunRows
    BY <1>2 DEF RunInv
  <2> QED BY <1>1, <2>1, <2>2, <2>3 DEF TypeOK, RunRows
<1> QED BY <1>1, <1>2, <1>3, <1>4 DEF IInv

\* Every step keeps the invariant.
LEMMA Always ==
  ASSUME IInv, [BoardsNext]_boardVars
  PROVE  IInv'
<1>0. /\ life' = life => life' \in {"watched", life}
      /\ due \in BOOLEAN /\ asking \subseteq {"press", "pass"} /\ now \in 0..MaxNow
  BY DEF IInv, TypeOK
<1>1. CASE \E s \in Slots : Begin(s) \/ Fetch(s) \/ Apply(s) \/ Lose(s)
  BY <1>1, BeginStep, FetchStep, ApplyStep, LoseStep
<1>2. CASE AddBoard \/ InsertCheck \/ PassCommits
  BY <1>0, <1>2, QueueStep DEF AddBoard, InsertCheck, PassCommits
<1>3. CASE AskToCheck \/ PassClaims \/ PassDies \/ SlotComes
  <2>1. /\ UNCHANGED <<board, checks, jobs, presence, run, shown, life, now>>
        /\ due' \in BOOLEAN /\ asking' \subseteq {"press", "pass"}
    BY <1>0, <1>3 DEF AskToCheck, PassClaims, PassDies, SlotComes
  <2> QED BY <1>0, <2>1, QuietStep
<1>4. CASE Tick
  BY <1>0, <1>4, Limits, QuietStep DEF Tick
<1>5. CASE UNCHANGED boardVars
  BY <1>0, <1>5, QuietStep DEF boardVars
<1> QED BY <1>1, <1>2, <1>3, <1>4, <1>5, AcceptStep, RemoveStep DEF BoardsNext

\* A board's steps, or none of the board's.
LEMMA OnTheBoard ==
  ASSUME [MCNext]_MCVars
  PROVE  [BoardsNext]_boardVars
BY DEF MCNext, MCVars

\* The inductive invariant of a board and its checks.
THEOREM Invariance == MCSpec => []IInv
<1>1. MCInit => IInv
  BY Initially DEF MCInit
<1>2. IInv /\ [MCNext]_MCVars => IInv'
  BY OnTheBoard, Always
<1> QED BY <1>1, <1>2, PTL DEF MCSpec

\* The open jobs are those the last applied complete check saw, and intervals and jobs
\* begin and end at complete checks, one after the other (Boards!OpenIsLastSeen,
\* Boards!HistoryIsSeen).
THEOREM BoardSeen == MCSpec => []BoardIsWhatWasSeen
<1>1. IInv => BoardIsWhatWasSeen
  BY DEF IInv, HistoryInv, BoardIsWhatWasSeen
<1> QED BY <1>1, Invariance, PTL

\* A repost replaced a posting that was known, and gone when it came, and nothing else
\* replaced that (Boards!RepostsAreReplacements).
THEOREM RepostsReplace == MCSpec => []RepostsAreReplacements
<1>1. IInv => RepostsAreReplacements
  BY DEF IInv, HistoryInv
<1> QED BY <1>1, Invariance, PTL

----------------------------------------------------------------------------
(* Collapses.                                                              *)

\* A board that stays as it is does not trip the guard.
LEMMA SameIsNoTrip ==
  ASSUME IInv, board.baseline # 0
  PROVE  ~Trips(Cardinality(OpenJobs), Cardinality(OpenJobs))
<1>1. OpenJobs = shown /\ IsFiniteSet(shown)
  BY DEF IInv, HistoryInv, OpenIsLastSeen
<1>2. Cardinality(OpenJobs) \in Nat
  BY <1>1, FS_CardinalityType
<1>3. EmptyMin \in Nat /\ EmptyMin > 0 /\ MinPrevious \in Nat
  BY BoardsAssumption
<1> QED BY <1>2, <1>3 DEF Trips

\* What a step that trips it has.
Answered ==
  /\ life' = "watched"
  /\ board.baseline # 0
  /\ Trips(Cardinality(OpenJobs), Cardinality(OpenJobs'))
  => /\ board.accepted /\ board.held # 0
     /\ ~board'.accepted /\ board'.held = 0

LEMMA StepAnswered ==
  ASSUME IInv, [BoardsNext]_boardVars
  PROVE  Answered
<1>1. CASE presence' = presence
  <2>1. OpenJobs' = OpenJobs
    BY <1>1 DEF OpenJobs, Open
  <2> QED BY <2>1, SameIsNoTrip DEF Answered
<1>2. ASSUME NEW s \in Slots, Apply(s), presence' # presence
      PROVE  Answered
  <2> DEFINE id == Len(checks) + 1
  <2>1. /\ TypeOK /\ BornInv /\ run[s].found \in Listings /\ Len(checks) \in Nat
        /\ board.accepted => board.held # 0
    BY <1>2, CompleteAre DEF Apply, IInv, HistoryInv, RunInv, FlagsInv, HeldIsLatest
  <2>2. ApplyCheckPlan(run[s].status, run[s].found, run[s].at)
    BY <1>2 DEF Apply
  <2>3. /\ PlanStatus(run[s].status, run[s].found) = "complete"
        /\ ApplyJobs(id, run[s].found, run[s].at)
        /\ board' = Applied(id)
    BY <1>2, <2>2 DEF ApplyCheckPlan, ChangesJobState
  <2>4. OpenJobs' = DOMAIN run[s].found
    BY <2>1, <2>3, OpenAreSeen
  <2>5. board.baseline # 0 /\ Trips(Cardinality(OpenJobs), Cardinality(DOMAIN run[s].found))
          => board.accepted
    BY <2>1, <2>3 DEF PlanStatus, TypeOK, BoardRows
  <2>6. board'.held = 0 /\ board'.accepted = FALSE
    BY <2>3 DEF Applied, Unheld
  <2> QED BY <2>1, <2>4, <2>5, <2>6 DEF Answered
<1>3. CASE RemoveBoard
  BY <1>3 DEF RemoveBoard, Answered
<1>4. CASE presence' # presence
  BY <1>2, <1>3, <1>4 DEF BoardsNext, Begin, Fetch, Lose, AddBoard, AskToCheck, InsertCheck,
     PassClaims, PassCommits, PassDies, AcceptDrop, SlotComes, Tick, boardVars
<1> QED BY <1>1, <1>4

\* Nothing applied is newer than a collapse that is held, and one goes through only when a
\* person has accepted it, once (Boards!HeldIsLatest, Boards!CollapseIsAccepted).
THEOREM CollapsesAnswered == MCSpec => CollapseIsAnswered
<1>1. IInv => HeldIsLatest
  BY DEF IInv, FlagsInv
<1>2. IInv /\ [MCNext]_MCVars => [ /\ life' = "watched"
                                   /\ board.baseline # 0
                                   /\ Trips(Cardinality(OpenJobs), Cardinality(OpenJobs'))
                                   => /\ board.accepted /\ board.held # 0
                                      /\ ~board'.accepted /\ board'.held = 0 ]_boardVars
  BY OnTheBoard, StepAnswered DEF Answered
<1> QED BY <1>1, <1>2, Invariance, PTL DEF MCSpec, CollapseIsAnswered, CollapseIsAccepted

----------------------------------------------------------------------------
(* The daily slot.                                                         *)

\* Division leaves a rest.
LEMMA Rest ==
  ASSUME NEW n \in Nat
  PROVE  n \div Day \in Nat /\ Day * (n \div Day) <= n /\ n < Day * (n \div Day) + Day
<1>1. Day \in Nat \ {0}
  BY BoardsAssumption
<1>2. n \div Day \in Nat
  BY <1>1
<1>3. Day * (n \div Day) <= n
  BY <1>1
<1>4. n < Day * (n \div Day) + Day
  BY <1>1
<1> QED BY <1>2, <1>3, <1>4

\* What is a whole number of days past a time of day comes at that time.
LEMMA TimeOfDay ==
  ASSUME NEW k \in Nat, NEW slot \in 0..(Day - 1)
  PROVE  (Day * k + slot) % Day = slot
<1>1. Day \in Nat \ {0}
  BY BoardsAssumption
<1> QED BY <1>1

\* The next check comes at the board's time of day, no sooner than MinGap from the pass
\* and within a day of that (Boards!NextSlotIsFirst, scheduling.next_check_at).
THEOREM SlotIsFirst == MCSpec => []NextSlotIsFirst
<1>1. IInv => NextSlotIsFirst
  <2> SUFFICES ASSUME IInv, NEW slot \in 0..(Day - 1), NEW after \in now..(now + Day)
               PROVE  LET next == NextCheckAt(slot, after)
                      IN /\ next % Day = slot
                         /\ next >= after + MinGap
                         /\ next < after + MinGap + Day
    BY DEF NextSlotIsFirst
  <2> DEFINE e == after + MinGap
             k == e \div Day
  <2>1. e \in Nat /\ Day \in Nat \ {0} /\ slot \in Nat /\ after \in Nat /\ MinGap \in Nat
    BY BoardsAssumption DEF IInv, TypeOK
  <2>2. k \in Nat /\ Day * k <= e /\ e < Day * k + Day
    BY <2>1, Rest
  <2>3. Day * (k + 1) = Day * k + Day /\ Day * k \in Nat
    <3> HIDE DEF k
    <3> QED BY <2>1, <2>2
  <2>4. (Day * k + slot) % Day = slot /\ (Day * (k + 1) + slot) % Day = slot
    BY <2>2, TimeOfDay
  <2> DEFINE m == Day * k + slot
             next == NextCheckAt(slot, after)
  <2>5. next = IF m < e THEN m + Day ELSE m
    BY DEF NextCheckAt
  <2>6. m \in Nat /\ e < m + Day /\ m - slot <= e /\ m % Day = slot /\ (m + Day) % Day = slot
    <3> DEFINE d == Day * k
    <3>1. Day * (k + 1) + slot = m + Day
      BY <2>1, <2>3
    <3>2. d \in Nat /\ d <= e /\ e < d + Day /\ m = d + slot
      BY <2>2, <2>3
    <3>3. m % Day = slot /\ (m + Day) % Day = slot
      BY <2>4, <3>1
    <3> HIDE DEF d, e, k, m
    <3> QED BY <2>1, <3>2, <3>3
  <2>7. next % Day = slot /\ next >= e /\ next < e + Day
    <3> HIDE DEF m, e, next
    <3> QED BY <2>1, <2>5, <2>6
  <2> QED BY <2>7
<1> QED BY <1>1, Invariance, PTL

----------------------------------------------------------------------------
(* The text of an ad, and what a posting says of its place.                   *)

\* One answer is made one result, or markup that is read to its end.
AskedInv ==
  mode = "text" =>
    /\ handler \in D!Handlers
    /\ page # None \/ result # None => answer \in D!Answers
    /\ page # None => D!FetchDescription(handler, answer) = D!Markup
    /\ result # None =>
         \/ result = D!FetchDescription(handler, answer)
         \/ D!FetchDescription(handler, answer) = D!Markup /\ result.code \in {"empty", None}

\* What each handler makes of an answer.
LEMMA AnswersMake ==
  ASSUME NEW h, h \in D!Handlers, NEW a, a \in D!Answers
  PROVE  LET r == D!FetchDescription(h, a) IN
         /\ r.code = "not_found" =>
              /\ r.requests = 1
              /\ a.status = "404" \/ (a.status = "200" /\ a.shaped /\ ~a.listed)
         /\ r.code = "unreachable" <=>
              /\ h # "breezy" /\ a.key
              /\ a.url \/ h \notin {"workday", "workable"}
              /\ a.status \in {"none", "429", "500"}
<1> DEFINE r == D!FetchDescription(h, a)
           Right(x) ==
             /\ x.code = "not_found" =>
                  /\ x.requests = 1
                  /\ a.status = "404" \/ (a.status = "200" /\ a.shaped /\ ~a.listed)
             /\ x.code = "unreachable" <=>
                  /\ a.url \/ h \notin {"workday", "workable"}
                  /\ a.status \in {"none", "429", "500"}
<1>1. \A code : \A n : D!Fail(code, n).code = code /\ D!Fail(code, n).requests = n
  BY DEF D!Fail
<1>2. None # "not_found" /\ None # "unreachable"
  BY PartsAssumption DEF D!ErrorCodes
<1>3. a.status \in {"200", "404", "429", "403", "500", "none"} /\ a.listed \in BOOLEAN
      /\ a.shaped \in BOOLEAN /\ a.url \in BOOLEAN /\ a.key \in BOOLEAN /\ a.described \in BOOLEAN
  BY DEF D!Answers
<1>4. D!Markup.code = None
  BY <1>1 DEF D!Markup
<1> DEFINE Got(x) == x.code # "not_found" /\ x.code # "unreachable"
           Left(x) == /\ x.code # "unreachable"
                      /\ x.code = "not_found" => x.requests = 1 /\ ~a.listed
           Sound(x) == /\ x.code = "not_found" =>
                            /\ x.requests = 1
                            /\ a.status = "404" \/ (a.status = "200" /\ a.shaped /\ ~a.listed)
                       /\ x.code = "unreachable" <=> a.status \in {"none", "429", "500"}
<1>5. Got(D!Described(a, "bad_response")) /\ Got(D!Described(a, "empty"))
  BY <1>1, <1>2, <1>4 DEF D!Described
<1>6. Left(D!InListing(a, "bad_response")) /\ Left(D!InListing(a, "empty"))
  BY <1>1, <1>5 DEF D!InListing
<1>7. ASSUME NEW x, Left(x) PROVE Sound(D!Asked(a, x))
  BY <1>1, <1>3, <1>7 DEF D!Asked, D!StatusCode
<1>8. Left(D!Described(a, "bad_response")) /\ Left(D!Described(a, "empty"))
  BY <1>5
<1> DEFINE Outcome == {D!Asked(a, x) : x \in {y \in {D!Described(a, "bad_response"),
             D!Described(a, "empty"), D!InListing(a, "bad_response"), D!InListing(a, "empty")} : TRUE}}
<1>9. \A x \in Outcome : Sound(x)
  BY <1>6, <1>7, <1>8
<1> HIDE DEF Sound, Left, Got
<1>10. CASE h \notin {"breezy", "workday", "workable"}
  <2>1. D!Handle(h, a) \in Outcome
    BY <1>10 DEF D!Handlers, D!Handle, D!Greenhouse, D!Ashby, D!Lever, D!SmartRecruiters,
         D!Pinpoint, D!Recruitee, D!Teamtailor, D!Personio, D!Rippling
  <2>2. Sound(D!Handle(h, a))
    BY <1>9, <2>1
  <2> QED BY <1>1, <1>3, <1>10, <2>2 DEF D!FetchDescription, Sound
<1>11. CASE h \in {"workday", "workable"}
  <2>1. D!Handle(h, a) = IF a.url THEN D!Asked(a, IF h = "workday" THEN D!Described(a, "bad_response")
                                                  ELSE D!InListing(a, "bad_response"))
                         ELSE D!Fail("bad_response", 0)
    BY <1>11 DEF D!Handle, D!Workday, D!Workable, D!WithUrl
  <2>2. a.url => Sound(D!Handle(h, a))
    BY <1>9, <2>1
  <2> QED BY <1>1, <1>3, <1>11, <2>1, <2>2 DEF D!FetchDescription, Sound
<1>12. CASE h = "breezy"
  <2>1. D!Handle(h, a) = D!Fail("unsupported_platform", 0)
    BY <1>12 DEF D!Handle, D!Breezy
  <2> QED BY <1>1, <1>3, <1>12, <2>1 DEF D!FetchDescription
<1> QED BY <1>10, <1>11, <1>12

LEMMA AskedStep ==
  ASSUME AskedInv, [MCNext]_MCVars
  PROVE  AskedInv'
<1>1. CASE UNCHANGED MCVars
  BY <1>1 DEF AskedInv, MCVars, textVars
<1>2. CASE mode # "text" /\ MCNext
  BY <1>2 DEF MCNext, AskedInv
<1>3. CASE mode = "text" /\ D!DescriptionsNext /\ mode' = mode
  <2>1. ASSUME NEW a \in D!Answers, D!Ask(a) PROVE AskedInv'
    BY <1>3, <2>1 DEF D!Ask, AskedInv
  <2>2. ASSUME NEW m \in D!Marks, D!Parse(m) PROVE AskedInv'
    BY <1>3, <2>2 DEF D!Parse, AskedInv
  <2>3. ASSUME D!Close PROVE AskedInv'
    <3>1. \A text : D!Finish(text).code \in {"empty", None}
      BY DEF D!Finish, D!Fail
    <3>2. result'.code \in {"empty", None} /\ UNCHANGED <<handler, answer>> /\ page # None
      BY <2>3, <3>1 DEF D!Close
    <3> QED BY <1>3, <3>2 DEF AskedInv
  <2> QED BY <1>3, <2>1, <2>2, <2>3 DEF D!DescriptionsNext
<1> QED BY <1>1, <1>2, <1>3 DEF MCNext

\* A posting is said to be gone only by its platform, and what may clear by itself, and
\* that alone, is tried again (Descriptions!GoneIsTheirWord, fetch_description).
THEOREM GoneIsSaid == MCSpec => [](mode = "text" => D!GoneIsTheirWord)
<1>1. MCInit => AskedInv
  BY DEF MCInit, AskedInv, D!DescriptionsInit
<1>2. AskedInv /\ [MCNext]_MCVars => AskedInv'
  BY AskedStep
<1>3. AskedInv => (mode = "text" => D!GoneIsTheirWord)
  <2> SUFFICES ASSUME AskedInv, mode = "text", result # None
               PROVE  D!GoneIsTheirWord
    BY DEF D!GoneIsTheirWord
  <2> DEFINE r == D!FetchDescription(handler, answer)
  <2>1. handler \in D!Handlers /\ answer \in D!Answers
    BY DEF AskedInv
  <2>2. /\ r.code = "not_found" =>
             /\ r.requests = 1
             /\ answer.status = "404" \/ (answer.status = "200" /\ answer.shaped /\ ~answer.listed)
        /\ r.code = "unreachable" <=>
             /\ handler # "breezy" /\ answer.key
             /\ answer.url \/ handler \notin {"workday", "workable"}
             /\ answer.status \in {"none", "429", "500"}
    BY <2>1, AnswersMake
  <2>3. None # "not_found" /\ None # "unreachable" /\ D!Markup.code = None
    BY PartsAssumption DEF D!ErrorCodes, D!Markup, D!Fail
  <2>4. result = r \/ (r = D!Markup /\ result.code \in {"empty", None})
    BY DEF AskedInv
  <2> HIDE DEF r
  <2>5. CASE result = r
    BY <2>2, <2>5 DEF D!GoneIsTheirWord
  <2>6. CASE r = D!Markup /\ result.code \in {"empty", None}
    <3>1. r.code = None /\ result.code # "not_found" /\ result.code # "unreachable"
      BY <2>3, <2>6
    <3> QED BY <2>2, <2>3, <3>1 DEF D!GoneIsTheirWord
  <2> QED BY <2>4, <2>5, <2>6
<1> QED BY <1>1, <1>2, <1>3, PTL DEF MCSpec

----------------------------------------------------------------------------
(* What a posting says of its place.                                          *)

\* A posting that is read is what its platform's parser makes of it.
ReadInv ==
  mode = "posting" =>
    /\ platform \in W!Platforms /\ raw \in W!Raw(platform)
    /\ job # None => job = W!ObservedJob(platform, raw)

\* What the words of a text name: a kind each, where it stands.
LEMMA NamesAre ==
  ASSUME NEW words, NEW at, NEW kind
  PROVE  [at |-> at, kind |-> kind] \in W!Names(words, FALSE)
           <=> at \in DOMAIN words /\ words[at] \in {"remote", "hybrid"} /\ kind = words[at]
BY DEF W!Names

LEMMA NamesShape ==
  ASSUME NEW words, NEW n \in W!Names(words, FALSE)
  PROVE  /\ n.at \in DOMAIN words /\ words[n.at] \in {"remote", "hybrid"} /\ n.kind = words[n.at]
         /\ n = [at |-> n.at, kind |-> n.kind]
BY DEF W!Names

\* What a text plainly states, none of it denied.
LEMMA NamedIs ==
  ASSUME NEW words
  PROVE  /\ W!Named(words, FALSE) # None =>
              /\ \A i \in DOMAIN words : words[i] \in {"remote", "hybrid"} =>
                   words[i] \in W!Named(words, FALSE) /\ ~ W!Negated(words, i)
              /\ \A w \in W!Named(words, FALSE) :
                   w \in {"remote", "hybrid"} /\ \E i \in DOMAIN words : words[i] = w
<1> DEFINE names == W!Names(words, FALSE)
           kinds == {n.kind : n \in names}
<1>1. kinds \subseteq {"remote", "hybrid"}
  BY NamesShape
<1>2. kinds # None
  BY <1>1, PartsAssumption DEF W!Workplaces
<1>3. \A i \in DOMAIN words : words[i] \in {"remote", "hybrid"} =>
        [at |-> i, kind |-> words[i]] \in names
  BY NamesAre
<1>4. W!Named(words, FALSE) = IF \E n \in names : W!Negated(words, n.at) THEN None ELSE kinds
  BY DEF W!Named
<1>5. \A w \in kinds : \E i \in DOMAIN words : words[i] = w
  BY NamesShape
<1> HIDE DEF names
<1>6. \A i \in DOMAIN words : words[i] \in {"remote", "hybrid"} =>
        words[i] \in kinds /\ ((\A n \in names : ~ W!Negated(words, n.at)) => ~ W!Negated(words, i))
  <2> SUFFICES ASSUME NEW i \in DOMAIN words, words[i] \in {"remote", "hybrid"}
               PROVE  /\ words[i] \in kinds
                      /\ (\A n \in names : ~ W!Negated(words, n.at)) => ~ W!Negated(words, i)
    OBVIOUS
  <2> DEFINE n == [at |-> i, kind |-> words[i]]
  <2>1. n \in names /\ n.kind = words[i] /\ n.at = i
    BY <1>3
  <2> HIDE DEF n
  <2> QED BY <2>1
<1> HIDE DEF kinds
<1> QED BY <1>1, <1>2, <1>4, <1>5, <1>6

\* A workplace taken from the text of places is one word of theirs, that none of them
\* denies or contradicts.
Plainly(texts, workplace) ==
  /\ workplace \in {"remote", "hybrid"}
  /\ \E t \in W!ToSet(texts) : workplace \in W!ToSet(Said[t])
  /\ \A t \in W!ToSet(texts) :
       /\ {"remote", "hybrid"} \intersect W!ToSet(Said[t]) \subseteq {workplace}
       /\ \A i \in DOMAIN Said[t] : Said[t][i] = workplace => ~ W!Negated(Said[t], i)

LEMMA CountingWords == \A S : W!Cardinality(S) = Cardinality(S)
BY DEF W!Cardinality, Cardinality

LEMMA TextStates ==
  ASSUME NEW texts, W!FromLocationText(texts) # "unknown"
  PROVE  Plainly(texts, W!FromLocationText(texts))
<1> DEFINE T == W!ToSet(texts)
           named == {W!Named(Said[t], FALSE) : t \in T}
           all == UNION (named \ {None})
           stated == W!FromLocationText(texts)
<1>1. stated = IF None \in named \/ W!Cardinality(all) # 1 THEN "unknown" ELSE CHOOSE w \in all : TRUE
  BY DEF W!FromLocationText
<1>2. None \notin named /\ Cardinality(all) = 1 /\ stated = CHOOSE w \in all : TRUE
  <2>1. W!Cardinality(all) = Cardinality(all)
    BY CountingWords
  <2>2. stated # "unknown"
    OBVIOUS
  <2> HIDE DEF named, all, stated
  <2> QED BY <1>1, <2>1, <2>2
<1>3. \A t \in T : W!Named(Said[t], FALSE) # None /\ W!Named(Said[t], FALSE) \subseteq all
  BY <1>2
<1>4. all \subseteq {"remote", "hybrid"}
  <2> SUFFICES ASSUME NEW t \in T, NEW x \in W!Named(Said[t], FALSE)
               PROVE  x \in {"remote", "hybrid"}
    OBVIOUS
  <2> QED BY <1>3, NamedIs
<1>5. PICK x : all = {x}
  <2>1. IsFiniteSet(all)
    <3>1. IsFiniteSet({"remote"}) /\ IsFiniteSet({"remote"} \union {"hybrid"})
      BY FS_Singleton, FS_AddElement
    <3>2. {"remote"} \union {"hybrid"} = {"remote", "hybrid"}
      OBVIOUS
    <3> QED BY <1>4, <3>1, <3>2, FS_Subset
  <2> HIDE DEF all
  <2> QED BY <1>2, <2>1, FS_Singleton
<1>6. stated = x /\ x \in {"remote", "hybrid"}
  <2> HIDE DEF all, stated
  <2> QED BY <1>2, <1>4, <1>5
<1>7. \E t \in T : x \in W!Named(Said[t], FALSE)
  <2>1. x \in all
    BY <1>5
  <2>2. PICK S \in named \ {None} : x \in S
    BY <2>1
  <2> QED BY <2>2
<1> HIDE DEF all, named, stated, T
<1>8. \E t \in T : x \in W!ToSet(Said[t])
  <2>1. PICK t \in T : x \in W!Named(Said[t], FALSE)
    BY <1>7
  <2>2. \E i \in DOMAIN Said[t] : Said[t][i] = x
    BY <1>3, <2>1, NamedIs
  <2> QED BY <2>1, <2>2 DEF W!ToSet
<1>9. ASSUME NEW t \in T, NEW i \in DOMAIN Said[t], Said[t][i] \in {"remote", "hybrid"}
      PROVE  Said[t][i] = x /\ ~ W!Negated(Said[t], i)
  <2>1. Said[t][i] \in W!Named(Said[t], FALSE) /\ ~ W!Negated(Said[t], i)
    BY <1>3, <1>9, NamedIs
  <2> QED BY <1>3, <1>5, <2>1
<1>10. \A t \in T : {"remote", "hybrid"} \intersect W!ToSet(Said[t]) \subseteq {x}
  BY <1>9 DEF W!ToSet
<1>11. \A t \in T : \A i \in DOMAIN Said[t] : Said[t][i] = x => ~ W!Negated(Said[t], i)
  BY <1>6, <1>9
<1> QED BY <1>6, <1>8, <1>10, <1>11 DEF Plainly, T, stated

\* Where the platform has nothing to say, the workplace is that of the text of the places.
LEMMA OnlyText ==
  ASSUME NEW r, NEW p, p \in W!Platforms, W!FromEnum(r.enum) = None,
         p = "teamtailor" => r.enum = None,
         r.remote = None, r.hybrid = None, r.onsite = None, W!GreenhouseMetadata(r.metadata) = None
  PROVE  W!ObservedJob(p, r).workplace = W!FromLocationText(W!ObservedJob(p, r).locations)
<1>1. None # TRUE /\ None # FALSE /\ W!RemoteStatus(None) = None
  BY PartsAssumption DEF W!RemoteStatus
<1>2. /\ W!Ashby(r).workplace = W!FromLocationText(W!Ashby(r).locations)
      /\ W!Lever(r).workplace = W!FromLocationText(W!Lever(r).locations)
      /\ W!Pinpoint(r).workplace = W!FromLocationText(W!Pinpoint(r).locations)
  BY DEF W!Ashby, W!Lever, W!Pinpoint
<1>3. /\ W!Workable(r).workplace = W!FromLocationText(W!Workable(r).locations)
      /\ W!Breezy(r).workplace = W!FromLocationText(W!Breezy(r).locations)
  BY <1>1 DEF W!Workable, W!Breezy
<1>4. W!SmartRecruiters(r).workplace = W!FromLocationText(W!SmartRecruiters(r).locations)
  BY DEF W!SmartRecruiters
<1>5. W!Recruitee(r).workplace = W!FromLocationText(W!Recruitee(r).locations)
  <2>1. {r.remote, r.hybrid, r.onsite} = {None}
    OBVIOUS
  <2> QED BY <2>1 DEF W!Recruitee
<1>6. p = "teamtailor" => W!Teamtailor(r).workplace = W!FromLocationText(W!Teamtailor(r).locations)
  BY <1>1 DEF W!Teamtailor
<1>7. /\ W!Greenhouse(r).workplace = W!FromLocationText(W!Greenhouse(r).locations)
      /\ W!Personio(r).workplace = W!FromLocationText(W!Personio(r).locations)
      /\ W!Workday(r).workplace = W!FromLocationText(W!Workday(r).locations)
      /\ W!Rippling(r).workplace = W!FromLocationText(W!Rippling(r).locations)
  BY DEF W!Greenhouse, W!Personio, W!Workday, W!Rippling
<1> QED BY <1>2, <1>3, <1>4, <1>5, <1>6, <1>7 DEF W!Platforms, W!ObservedJob

LEMMA ReadStep ==
  ASSUME ReadInv, [MCNext]_MCVars
  PROVE  ReadInv'
<1>1. CASE UNCHANGED MCVars
  BY <1>1 DEF ReadInv, MCVars, checkVars
<1>2. CASE mode # "posting" /\ MCNext
  BY <1>2 DEF MCNext, ReadInv
<1>3. CASE mode = "posting" /\ W!Read /\ mode' = mode
  BY <1>3 DEF W!Read, ReadInv
<1> QED BY <1>1, <1>2, <1>3 DEF MCNext

LEMMA ReadAlways == MCSpec => []ReadInv
<1>1. MCInit => ReadInv
  BY DEF MCInit, ReadInv, W!StatedInit, NoPosting
<1>2. ReadInv /\ [MCNext]_MCVars => ReadInv'
  BY ReadStep
<1> QED BY <1>1, <1>2, PTL DEF MCSpec

\* A workplace is the platform's own answer or a plain word of the posting's places,
\* never a guess (Stated!StatedNotInferred, jfl_intake.workplace and the adapters).
THEOREM WorkplaceIsStated == MCSpec => [](mode = "posting" => W!StatedNotInferred)
<1>1. ReadInv => (mode = "posting" => W!StatedNotInferred)
  <2> SUFFICES ASSUME ReadInv, mode = "posting", job # None, job.workplace # "unknown", ~ W!Answered
               PROVE  Plainly(job.locations, job.workplace)
    BY DEF W!StatedNotInferred, Plainly
  <2>1. platform \in W!Platforms /\ job = W!ObservedJob(platform, raw)
    BY DEF ReadInv
  <2>2. /\ W!FromEnum(raw.enum) = None /\ (platform = "teamtailor" => raw.enum = None)
        /\ {raw.remote, raw.hybrid, raw.onsite} = {None}
        /\ W!GreenhouseMetadata(raw.metadata) = None
    BY DEF W!Answered
  <2>3. raw.remote = None /\ raw.hybrid = None /\ raw.onsite = None
    BY <2>2
  <2>4. job.workplace = W!FromLocationText(job.locations)
    BY <2>1, <2>2, <2>3, OnlyText
  <2> QED BY <2>4, TextStates
<1> QED BY <1>1, ReadAlways, PTL

\* What Rippling's rows come to depends on which they are, not on their order.
LEMMA RowsAsASet ==
  ASSUME NEW r, NEW s, W!ToSet(r.rows) = W!ToSet(s.rows)
  PROVE  W!Rippling(r) = W!Rippling(s)
BY DEF W!Rippling

\* Rows that are listed in any order, each of them somewhere, are the same rows.
LEMMA SameRows ==
  ASSUME NEW rows, NEW order \in [DOMAIN rows -> DOMAIN rows],
         \A i \in DOMAIN order : \E k \in DOMAIN order : order[k] = i
  PROVE  W!ToSet([i \in DOMAIN rows |-> rows[order[i]]]) = W!ToSet(rows)
<1> DEFINE X == [i \in DOMAIN rows |-> rows[order[i]]]
<1>1. ASSUME NEW i \in DOMAIN rows PROVE X[i] \in W!ToSet(rows)
  BY <1>1 DEF W!ToSet
<1>2. ASSUME NEW i \in DOMAIN rows PROVE rows[i] \in W!ToSet(X)
  <2>1. PICK k \in DOMAIN rows : order[k] = i
    BY <1>2
  <2>2. X[k] = rows[i] /\ k \in DOMAIN X
    BY <2>1
  <2> HIDE DEF X
  <2> QED BY <2>2 DEF W!ToSet
<1>3. DOMAIN X = DOMAIN rows
  OBVIOUS
<1> HIDE DEF X
<1>4. W!ToSet(X) \subseteq W!ToSet(rows)
  BY <1>1, <1>3 DEF W!ToSet
<1>5. W!ToSet(rows) \subseteq W!ToSet(X)
  BY <1>2 DEF W!ToSet
<1> QED BY <1>4, <1>5 DEF X

\* The rows of one id mean the same in whatever order they come, the fingerprint included
\* (Stated!OrderMeansNothing, adapters/rippling.py).
THEOREM RowOrderIsNothing == MCSpec => [](mode = "posting" => W!OrderMeansNothing)
<1>1. ReadInv => (mode = "posting" => W!OrderMeansNothing)
  <2> SUFFICES ASSUME ReadInv, mode = "posting", job # None, platform = "rippling",
                      NEW order \in [DOMAIN raw.rows -> DOMAIN raw.rows],
                      \A i \in DOMAIN order : \E k \in DOMAIN order : order[k] = i
               PROVE  W!ObservedJob(platform, [raw EXCEPT !.rows =
                         [i \in DOMAIN raw.rows |-> raw.rows[order[i]]]]) = job
    BY DEF W!OrderMeansNothing
  <2> DEFINE X == [i \in DOMAIN raw.rows |-> raw.rows[order[i]]]
             s == [raw EXCEPT !.rows = X]
  <2>1. job = W!Rippling(raw) /\ raw \in W!Raw("rippling")
    BY DEF ReadInv, W!ObservedJob
  <2>2. W!ToSet(X) = W!ToSet(raw.rows)
    BY SameRows
  <2>3. "rows" \in DOMAIN raw
    BY <2>1 DEF W!Raw
  <2> HIDE DEF X
  <2>4. s.rows = X
    BY <2>3
  <2> HIDE DEF s
  <2>5. W!Rippling(s) = job
    BY <2>1, <2>2, <2>4, RowsAsASet
  <2>6. W!ObservedJob(platform, s) = W!Rippling(s)
    BY DEF W!ObservedJob
  <2> QED BY <2>5, <2>6 DEF s, X
<1> QED BY <1>1, ReadAlways, PTL

----------------------------------------------------------------------------
(* Lists.  What holds at 0, and after each place where it holds, holds at     *)
(* each: there would be a first place where it does not.                      *)

LEMMA Upward ==
  ASSUME NEW n \in Nat, NEW S, 0 \in S, \A m \in 0..n : m # n /\ m \in S => m + 1 \in S
  PROVE  \A m \in 0..n : m \in S
<1> DEFINE T == {m \in 0..n : m \notin S}
<1> SUFFICES ASSUME T # {} PROVE FALSE
  OBVIOUS
<1>1. T \subseteq Nat
  OBVIOUS
<1>2. PICK x \in T : \A y \in T : ~ (<<y, x>> \in OpToRel(<, Nat))
  BY <1>1, WFMin, NatLessThanWellFounded
<1>3. \A y \in T : ~ (y < x)
  <2>1. \A y, z \in Nat : y < z => <<y, z>> \in OpToRel(<, Nat)
    BY DEF OpToRel
  <2> QED BY <1>1, <1>2, <2>1
<1>4. x - 1 \in 0..n /\ x - 1 # n /\ x - 1 < x
  OBVIOUS
<1>5. x - 1 \in S
  BY <1>3, <1>4
<1>6. (x - 1) + 1 = x
  OBVIOUS
<1> QED BY <1>4, <1>5, <1>6

\* The part of a list that is in a set, in order.
Among(b, V) ==
  LET upTo[n \in 0..Len(b)] ==
        IF n = 0 THEN <<>>
        ELSE IF b[n] \in V THEN Append(upTo[n - 1], b[n]) ELSE upTo[n - 1]
  IN upTo[Len(b)]
IsAmong(u, b, V, m) ==
  u = [n \in 0..m |-> IF n = 0 THEN <<>>
                      ELSE IF b[n] \in V THEN Append(u[n - 1], b[n]) ELSE u[n - 1]]

LEMMA AmongExists ==
  ASSUME NEW b, NEW V, NEW n \in Nat
  PROVE  \E u : IsAmong(u, b, V, n)
<1> DEFINE S == {m \in 0..n : \E u : IsAmong(u, b, V, m)}
<1>1. 0 \in S
  <2>1. IsAmong([k \in 0..0 |-> <<>>], b, V, 0)
    BY DEF IsAmong
  <2> QED BY <2>1
<1>2. ASSUME NEW m \in 0..n, m # n, m \in S PROVE m + 1 \in S
  <2>5. m \in Nat /\ m + 1 \in 0..n
    BY <1>2
  <2>1. PICK u : IsAmong(u, b, V, m)
    BY <1>2
  <2>2. \A k \in 0..m : u[k] = IF k = 0 THEN <<>>
                               ELSE IF b[k] \in V THEN Append(u[k - 1], b[k]) ELSE u[k - 1]
    BY <2>1 DEF IsAmong
  <2> DEFINE x == IF b[m + 1] \in V THEN Append(u[m], b[m + 1]) ELSE u[m]
             v == [k \in 0..(m + 1) |-> IF k = m + 1 THEN x ELSE u[k]]
  <2>3. \A k \in 0..(m + 1) : v[k] = IF k = m + 1 THEN x ELSE u[k]
    OBVIOUS
  <2>4. v = [k \in 0..(m + 1) |-> v[k]]
    OBVIOUS
  <2> HIDE DEF v
  <2>6. \A k \in 0..(m + 1) : v[k] = IF k = 0 THEN <<>>
                               ELSE IF b[k] \in V THEN Append(v[k - 1], b[k]) ELSE v[k - 1]
    <3> SUFFICES ASSUME NEW k \in 0..(m + 1)
                 PROVE  v[k] = IF k = 0 THEN <<>>
                               ELSE IF b[k] \in V THEN Append(v[k - 1], b[k]) ELSE v[k - 1]
      OBVIOUS
    <3>1. CASE k = m + 1
      <4>1. k - 1 = m /\ m \in 0..(m + 1) /\ m # m + 1 /\ k # 0
        BY <2>5, <3>1
      <4>2. v[m] = u[m] /\ v[k] = x
        BY <2>3, <3>1, <4>1
      <4> QED BY <3>1, <4>1, <4>2
    <3>2. CASE k # m + 1
      <4>1. k \in 0..m
        BY <2>5, <3>2
      <4>2. v[k] = u[k]
        BY <2>3, <3>2
      <4>3. k # 0 => k - 1 \in 0..(m + 1) /\ k - 1 # m + 1
        BY <2>5, <4>1
      <4>4. k # 0 => v[k - 1] = u[k - 1]
        BY <2>3, <4>3
      <4> QED BY <2>2, <4>1, <4>2, <4>4
    <3> QED BY <3>1, <3>2
  <2>7. IsAmong(v, b, V, m + 1)
    BY <2>4, <2>6 DEF IsAmong
  <2> QED BY <2>5, <2>7
<1> HIDE DEF S
<1>3. \A m \in 0..n : m \in S
  BY <1>1, <1>2, Upward
<1>4. n \in 0..n
  OBVIOUS
<1> QED BY <1>3, <1>4 DEF S

\* How it comes about.
Gathers(u, b, V) ==
  /\ Among(b, V) = u[Len(b)] /\ u[0] = <<>>
  /\ \A n \in 1..Len(b) : u[n] = IF b[n] \in V THEN Append(u[n - 1], b[n]) ELSE u[n - 1]

LEMMA AmongIs ==
  ASSUME NEW b, NEW V, Len(b) \in Nat
  PROVE  \E u : Gathers(u, b, V)
<1> DEFINE u == CHOOSE upTo : IsAmong(upTo, b, V, Len(b))
<1>1. IsAmong(u, b, V, Len(b))
  BY AmongExists
<1>2. Among(b, V) = u[Len(b)]
  BY DEF Among, IsAmong
<1> HIDE DEF u
<1>3. \A n \in 0..Len(b) : u[n] = IF n = 0 THEN <<>>
                                  ELSE IF b[n] \in V THEN Append(u[n - 1], b[n]) ELSE u[n - 1]
  BY <1>1 DEF IsAmong
<1>4. u[0] = <<>> /\ \A n \in 1..Len(b) :
         u[n] = IF b[n] \in V THEN Append(u[n - 1], b[n]) ELSE u[n - 1]
  BY <1>3
<1> QED BY <1>2, <1>4 DEF Gathers

LEMMA ListedIs == \A V : L!Listed(V) = Among(listed, V)
BY DEF L!Listed, Among

Distinct(b) == \A i, j \in 1..Len(b) : b[i] = b[j] => i = j

\* The part of a list that is in a set has those of its elements that are, each as often.
LEMMA AmongOf ==
  ASSUME NEW P, NEW b \in Seq(P), NEW V
  PROVE  /\ Among(b, V) \in Seq(P)
         /\ \A i \in 1..Len(Among(b, V)) :
              Among(b, V)[i] \in V /\ \E k \in 1..Len(b) : b[k] = Among(b, V)[i]
         /\ \A k \in 1..Len(b) : b[k] \in V => \E i \in 1..Len(Among(b, V)) : Among(b, V)[i] = b[k]
         /\ Distinct(b) => Distinct(Among(b, V))
<1> DEFINE n == Len(b)
<1>1. n \in Nat /\ \A k \in 1..n : b[k] \in P
  OBVIOUS
<1>2. PICK u : /\ Among(b, V) = u[n] /\ u[0] = <<>>
               /\ \A m \in 1..n : u[m] = IF b[m] \in V THEN Append(u[m - 1], b[m]) ELSE u[m - 1]
  <2>1. Len(b) \in Nat
    OBVIOUS
  <2>2. PICK u : Gathers(u, b, V)
    BY <2>1, AmongIs
  <2> QED BY <2>2 DEF Gathers
<1> DEFINE Q(m) == /\ u[m] \in Seq(P)
                   /\ \A i \in 1..Len(u[m]) : u[m][i] \in V /\ \E k \in 1..m : b[k] = u[m][i]
                   /\ \A k \in 1..m : b[k] \in V => \E i \in 1..Len(u[m]) : u[m][i] = b[k]
                   /\ Distinct(b) => Distinct(u[m])
           S == {m \in 0..n : Q(m)}
<1>3. 0 \in S
  <2>1. Q(0)
    BY <1>2 DEF Distinct
  <2> QED BY <1>1, <2>1
<1>4. ASSUME NEW m \in 0..n, m # n, m \in S PROVE m + 1 \in S
  <2>1. m \in Nat /\ m + 1 \in 1..n /\ m + 1 \in 0..n /\ (m + 1) - 1 = m
    BY <1>1, <1>4
  <2>2. u[m + 1] = IF b[m + 1] \in V THEN Append(u[m], b[m + 1]) ELSE u[m]
    BY <1>2, <2>1
  <2>3. Q(m)
    BY <1>4
  <2> DEFINE s == u[m]
             e == b[m + 1]
             t == u[m + 1]
  <2>4. e \in P /\ s \in Seq(P) /\ Len(s) \in Nat
    BY <1>1, <2>1, <2>3
  <2>5. \A k \in 1..(m + 1) : k = m + 1 \/ k \in 1..m
    BY <2>1
  <2>6. CASE e \notin V
    <3>1. t = s
      BY <2>2, <2>6
    <3>2. Q(m + 1)
      BY <2>1, <2>3, <2>5, <2>6, <3>1
    <3> QED BY <2>1, <3>2
  <2>7. CASE e \in V
    <3>1. /\ t \in Seq(P) /\ Len(t) = Len(s) + 1 /\ t[Len(s) + 1] = e
          /\ \A i \in 1..Len(s) : t[i] = s[i]
      BY <2>2, <2>4, <2>7, AppendProperties
    <3>2. \A i \in 1..Len(t) : i = Len(s) + 1 \/ i \in 1..Len(s)
      BY <2>4, <3>1
    <3>3. Len(s) + 1 \in 1..Len(t) /\ \A i \in 1..Len(s) : i \in 1..Len(t)
      BY <2>4, <3>1
    <3>4. m + 1 \in 1..(m + 1) /\ \A k \in 1..m : k \in 1..(m + 1)
      BY <2>1
    <3>5. \A i \in 1..Len(s) : s[i] \in V /\ \E k \in 1..m : b[k] = s[i]
      BY <2>3
    <3>6. \A k \in 1..m : b[k] \in V => \E i \in 1..Len(s) : s[i] = b[k]
      BY <2>3
    <3>7. Distinct(b) => Distinct(s)
      BY <2>3
    <3> HIDE DEF s, t, e, Q
    <3>8. \A i \in 1..Len(t) : t[i] \in V /\ \E k \in 1..(m + 1) : b[k] = t[i]
      BY <2>7, <3>1, <3>2, <3>4, <3>5 DEF e
    <3>9. \A k \in 1..(m + 1) : b[k] \in V => \E i \in 1..Len(t) : t[i] = b[k]
      BY <2>5, <3>1, <3>3, <3>6 DEF e
    <3>10. Distinct(b) => Distinct(t)
      <4> SUFFICES ASSUME Distinct(b), NEW i \in 1..Len(t), NEW j \in 1..Len(t), t[i] = t[j]
                   PROVE  i = j
        BY DEF Distinct
      <4>1. \A x \in 1..Len(s) : s[x] # e
        <5> SUFFICES ASSUME NEW x \in 1..Len(s), s[x] = e PROVE FALSE
          OBVIOUS
        <5>1. PICK k \in 1..m : b[k] = e
          BY <3>5
        <5>2. k \in 1..n /\ k # m + 1
          BY <1>1, <2>1
        <5> QED BY <2>1, <5>1, <5>2 DEF Distinct, e
      <4>2. \A x, y \in 1..Len(s) : s[x] = s[y] => x = y
        BY <3>7 DEF Distinct
      <4> QED BY <3>1, <3>2, <4>1, <4>2
    <3>11. Q(m + 1)
      BY <3>1, <3>8, <3>9, <3>10 DEF Q, t
    <3> QED BY <2>1, <3>11
  <2> QED BY <2>6, <2>7
<1> HIDE DEF S, Q
<1>5. \A m \in 0..n : m \in S
  BY <1>1, <1>3, <1>4, Upward
<1>6. Q(n)
  BY <1>1, <1>5 DEF S
<1> QED BY <1>2, <1>6 DEF Q

\* One more at the end, and one more in front.
LEMMA AmongBack ==
  ASSUME NEW P, NEW b \in Seq(P), NEW p \in P, NEW V
  PROVE  Among(b \o <<p>>, V) = IF p \in V THEN Append(Among(b, V), p) ELSE Among(b, V)
<1> DEFINE n == Len(b)
           c == b \o <<p>>
<1>1. n \in Nat /\ Len(c) = n + 1 /\ c[n + 1] = p /\ \A k \in 1..n : c[k] = b[k]
  OBVIOUS
<1> HIDE DEF n, c
<1>2. PICK u : /\ Among(b, V) = u[n] /\ u[0] = <<>>
               /\ \A m \in 1..n : u[m] = IF b[m] \in V THEN Append(u[m - 1], b[m]) ELSE u[m - 1]
  <2>1. Len(b) \in Nat
    BY <1>1 DEF n
  <2>2. PICK u : Gathers(u, b, V)
    BY <2>1, AmongIs
  <2> QED BY <2>2 DEF Gathers, n
<1>10. Len(c) \in Nat
  BY <1>1
<1>11. PICK w : /\ Among(c, V) = w[Len(c)] /\ w[0] = <<>>
                /\ \A m \in 1..Len(c) : w[m] = IF c[m] \in V THEN Append(w[m - 1], c[m]) ELSE w[m - 1]
  <2>1. PICK w : Gathers(w, c, V)
    BY <1>10, AmongIs
  <2> QED BY <2>1 DEF Gathers
<1>3. /\ Among(c, V) = w[n + 1] /\ w[0] = <<>>
      /\ \A m \in 1..(n + 1) : w[m] = IF c[m] \in V THEN Append(w[m - 1], c[m]) ELSE w[m - 1]
  BY <1>1, <1>11
<1> DEFINE S == {m \in 0..n : u[m] = w[m]}
<1>4. 0 \in S
  BY <1>1, <1>2, <1>3
<1>5. ASSUME NEW m \in 0..n, m # n, m \in S PROVE m + 1 \in S
  <2>1. m + 1 \in 1..n /\ m + 1 \in 1..(n + 1) /\ m + 1 \in 0..n /\ (m + 1) - 1 = m
    BY <1>1, <1>5
  <2>2. u[m] = w[m] /\ c[m + 1] = b[m + 1]
    BY <1>1, <1>5, <2>1
  <2>3. /\ u[m + 1] = IF b[m + 1] \in V THEN Append(u[m], b[m + 1]) ELSE u[m]
        /\ w[m + 1] = IF c[m + 1] \in V THEN Append(w[m], c[m + 1]) ELSE w[m]
    BY <1>2, <1>3, <2>1
  <2> QED BY <2>1, <2>2, <2>3
<1> HIDE DEF S
<1>6. \A m \in 0..n : m \in S
  BY <1>1, <1>4, <1>5, Upward
<1>7. u[n] = w[n]
  BY <1>1, <1>6 DEF S
<1>8. w[n + 1] = IF c[n + 1] \in V THEN Append(w[n], c[n + 1]) ELSE w[n]
  <2>1. n + 1 \in 1..(n + 1) /\ (n + 1) - 1 = n
    BY <1>1
  <2> QED BY <1>3, <2>1
<1> QED BY <1>1, <1>2, <1>3, <1>7, <1>8 DEF c

LEMMA AmongFront ==
  ASSUME NEW P, NEW b \in Seq(P), NEW p \in P, NEW V
  PROVE  Among(<<p>> \o b, V) = IF p \in V THEN <<p>> \o Among(b, V) ELSE Among(b, V)
<1> DEFINE n == Len(b)
           c == <<p>> \o b
           pre == IF p \in V THEN <<p>> ELSE <<>>
<1>1. n \in Nat /\ Len(c) = n + 1 /\ c[1] = p /\ \A k \in 1..n : c[k + 1] = b[k] /\ b[k] \in P
  OBVIOUS
<1>9. pre \in Seq(P)
  OBVIOUS
<1> HIDE DEF n, c
<1>2. PICK u : /\ Among(b, V) = u[n] /\ u[0] = <<>>
               /\ \A m \in 1..n : u[m] = IF b[m] \in V THEN Append(u[m - 1], b[m]) ELSE u[m - 1]
  <2>1. Len(b) \in Nat
    BY <1>1 DEF n
  <2>2. PICK u : Gathers(u, b, V)
    BY <2>1, AmongIs
  <2> QED BY <2>2 DEF Gathers, n
<1>10. Len(c) \in Nat
  BY <1>1
<1>11. PICK w : /\ Among(c, V) = w[Len(c)] /\ w[0] = <<>>
                /\ \A m \in 1..Len(c) : w[m] = IF c[m] \in V THEN Append(w[m - 1], c[m]) ELSE w[m - 1]
  <2>1. PICK w : Gathers(w, c, V)
    BY <1>10, AmongIs
  <2> QED BY <2>1 DEF Gathers
<1>3. /\ Among(c, V) = w[n + 1] /\ w[0] = <<>>
      /\ \A m \in 1..(n + 1) : w[m] = IF c[m] \in V THEN Append(w[m - 1], c[m]) ELSE w[m - 1]
  BY <1>1, <1>11
<1> DEFINE S == {m \in 0..n : u[m] \in Seq(P) /\ w[m + 1] = pre \o u[m]}
<1>4. 0 \in S
  <2>1. 1 \in 1..(n + 1) /\ 1 - 1 = 0 /\ 0 + 1 = 1 /\ 0 \in 0..n
    BY <1>1
  <2>2. w[1] = IF p \in V THEN Append(<<>>, p) ELSE <<>>
    BY <1>1, <1>3, <2>1
  <2>3. Append(<<>>, p) = <<p>> /\ pre \o <<>> = pre
    BY <1>9
  <2>4. u[0] = <<>> /\ u[0] \in Seq(P)
    BY <1>2
  <2>5. w[1] = pre
    BY <2>2, <2>3
  <2> HIDE DEF pre
  <2> QED BY <2>1, <2>3, <2>4, <2>5
<1>5. ASSUME NEW m \in 0..n, m # n, m \in S PROVE m + 1 \in S
  <2>1. /\ m + 1 \in 1..n /\ (m + 1) + 1 \in 1..(n + 1) /\ m + 1 \in 0..n
        /\ (m + 1) - 1 = m /\ ((m + 1) + 1) - 1 = m + 1
    BY <1>1, <1>5
  <2>2. u[m] \in Seq(P) /\ w[m + 1] = pre \o u[m] /\ c[(m + 1) + 1] = b[m + 1] /\ b[m + 1] \in P
    BY <1>1, <1>5, <2>1
  <2>3. /\ u[m + 1] = IF b[m + 1] \in V THEN Append(u[m], b[m + 1]) ELSE u[m]
        /\ w[(m + 1) + 1] = IF b[m + 1] \in V THEN Append(w[m + 1], b[m + 1]) ELSE w[m + 1]
    <3> HIDE DEF pre
    <3> QED BY <1>2, <1>3, <2>1, <2>2
  <2>4. Append(pre \o u[m], b[m + 1]) = pre \o Append(u[m], b[m + 1])
    <3> DEFINE s == u[m]
               e == b[m + 1]
    <3>1. s \in Seq(P) /\ e \in P /\ <<e>> \in Seq(P) /\ pre \o s \in Seq(P)
      BY <1>9, <2>2
    <3> HIDE DEF s, e, pre
    <3>2. Append(pre \o s, e) = (pre \o s) \o <<e>> /\ Append(s, e) = s \o <<e>>
      BY <3>1, AppendIsConcat
    <3>3. (pre \o s) \o <<e>> = pre \o (s \o <<e>>)
      BY <1>9, <3>1, ConcatAssociative
    <3> QED BY <3>2, <3>3 DEF s, e
  <2>5. Append(u[m], b[m + 1]) \in Seq(P)
    BY <2>2
  <2> HIDE DEF pre
  <2> QED BY <2>1, <2>2, <2>3, <2>4, <2>5
<1> HIDE DEF S
<1>6. \A m \in 0..n : m \in S
  BY <1>1, <1>4, <1>5, Upward
<1>7. u[n] \in Seq(P) /\ w[n + 1] = pre \o u[n]
  <2>1. n \in S
    BY <1>1, <1>6
  <2> HIDE DEF pre
  <2> QED BY <2>1 DEF S
<1>8. <<>> \o u[n] = u[n]
  BY <1>7, ConcatEmptySeq
<1> QED BY <1>2, <1>3, <1>7, <1>8 DEF c

\* A list of different elements is as long as they are many.
LEMMA DistinctLen ==
  ASSUME NEW P, NEW b \in Seq(P), Distinct(b)
  PROVE  IsFiniteSet(L!ToSet(b)) /\ Cardinality(L!ToSet(b)) = Len(b)
<1> DEFINE n == Len(b)
           T == L!ToSet(b)
<1>1. n \in Nat /\ DOMAIN b = 1..n
  OBVIOUS
<1>2. T = {b[i] : i \in 1..n}
  BY <1>1 DEF L!ToSet
<1>3. b \in [1..n -> T]
  <2>1. b \in [1..n -> P]
    BY <1>1
  <2> HIDE DEF T, n
  <2> QED BY <1>2, <2>1
<1>4. b \in Bijection(1..n, T)
  <2>1. \A i, j \in 1..n : b[i] = b[j] => i = j
    BY DEF Distinct
  <2> HIDE DEF T, n
  <2> QED BY <1>2, <1>3, <2>1 DEF Bijection, Injection, Surjection, IsInjective
<1>5. IsFiniteSet(1..n) /\ Cardinality(1..n) = n
  <2> HIDE DEF n
  <2>1. 1 \in Int /\ n \in Int
    BY <1>1
  <2>2. IsFiniteSet(1..n) /\ Cardinality(1..n) = IF 1 > n THEN 0 ELSE n - 1 + 1
    BY <2>1, FS_Interval
  <2> QED BY <1>1, <2>2
<1>6. ExistsBijection(1..n, T)
  BY <1>4 DEF ExistsBijection
<1> HIDE DEF n, T
<1>7. IsFiniteSet(T) /\ Cardinality(T) = Cardinality(1..n)
  BY <1>5, <1>6, FS_Bijection
<1> QED BY <1>5, <1>7 DEF n, T

LEMMA AmongSet ==
  ASSUME NEW P, NEW b \in Seq(P), NEW V
  PROVE  /\ Among(b, V) \in Seq(P)
         /\ L!ToSet(Among(b, V)) = L!ToSet(b) \intersect V
         /\ Distinct(b) => /\ Distinct(Among(b, V))
                           /\ IsFiniteSet(V \intersect L!ToSet(b))
                           /\ Len(Among(b, V)) = Cardinality(V \intersect L!ToSet(b))
<1> DEFINE s == Among(b, V)
<1>1. /\ s \in Seq(P)
      /\ \A i \in 1..Len(s) : s[i] \in V /\ \E k \in 1..Len(b) : b[k] = s[i]
      /\ \A k \in 1..Len(b) : b[k] \in V => \E i \in 1..Len(s) : s[i] = b[k]
      /\ Distinct(b) => Distinct(s)
  BY AmongOf
<1> HIDE DEF s
<1>2. DOMAIN s = 1..Len(s) /\ DOMAIN b = 1..Len(b)
  BY <1>1
<1>3. L!ToSet(s) = L!ToSet(b) \intersect V
  <2>1. L!ToSet(s) = {s[i] : i \in 1..Len(s)} /\ L!ToSet(b) = {b[i] : i \in 1..Len(b)}
    BY <1>2 DEF L!ToSet
  <2>2. \A x : x \in L!ToSet(s) <=> \E i \in 1..Len(s) : s[i] = x
    BY <2>1
  <2>3. \A x : x \in L!ToSet(b) <=> \E i \in 1..Len(b) : b[i] = x
    BY <2>1
  <2>4. \A x : x \in L!ToSet(s) <=> x \in L!ToSet(b) /\ x \in V
    BY <1>1, <2>2, <2>3
  <2> QED BY <2>4
<1>4. Distinct(b) => IsFiniteSet(L!ToSet(s)) /\ Cardinality(L!ToSet(s)) = Len(s)
  BY <1>1, DistinctLen
<1>5. V \intersect L!ToSet(b) = L!ToSet(b) \intersect V
  OBVIOUS
<1> QED BY <1>1, <1>3, <1>4, <1>5 DEF s

----------------------------------------------------------------------------
(* What a check collects, and what it comes to.                               *)

KeysOf(S) == {L!AsKey(p) : p \in S}
JobsOf(C) == {c.p : c \in {d \in C : d.key = "tracked"}}
Untracked(C) == \E c \in C : c.key = "untracked"

LEMMA KeyIs ==
  \A p : /\ p \in Nameless => L!AsKey(p).key = "untracked"
         /\ p \notin Nameless => L!AsKey(p).key = "tracked" /\ L!AsKey(p).p = p
BY DEF L!AsKey, L!Key

LEMMA KeysAre ==
  ASSUME NEW B, IsFiniteSet(B)
  PROVE  /\ IsFiniteSet(KeysOf(B)) /\ Cardinality(KeysOf(B)) <= Cardinality(B)
         /\ (\A p \in B : p \notin Nameless) => Cardinality(KeysOf(B)) = Cardinality(B)
<1> DEFINE f == [p \in B |-> L!AsKey(p)]
           K == KeysOf(B)
<1>1. f \in [B -> K] /\ \A c \in K : \E p \in B : f[p] = c
  BY DEF KeysOf
<1>2. f \in Surjection(B, K)
  BY <1>1 DEF Surjection
<1>3. (\A p \in B : p \notin Nameless) => f \in Injection(B, K)
  <2>1. \A p \in B : f[p] = L!AsKey(p)
    OBVIOUS
  <2>2. DOMAIN f = B
    OBVIOUS
  <2> HIDE DEF f, K
  <2> QED BY <1>1, <2>1, <2>2, KeyIs DEF Injection, IsInjective
<1> HIDE DEF f, K
<1>4. /\ IsFiniteSet(K) /\ Cardinality(K) <= Cardinality(B)
      /\ Cardinality(K) = Cardinality(B) <=> f \in Injection(B, K)
  BY <1>2, FS_Surjection
<1> QED BY <1>3, <1>4 DEF K

LEMMA AllCounted ==
  ASSUME NEW B, IsFiniteSet(B), ~ Untracked(KeysOf(B))
  PROVE  Cardinality(KeysOf(B)) = Cardinality(B) /\ JobsOf(KeysOf(B)) = B
<1>1. \A p \in B : p \notin Nameless
  BY KeyIs DEF Untracked, KeysOf
<1>2. Cardinality(KeysOf(B)) = Cardinality(B)
  BY <1>1, KeysAre
<1>3. \A p \in B : L!AsKey(p).key = "tracked" /\ L!AsKey(p).p = p
  BY <1>1, KeyIs
<1>4. \A x : x \in JobsOf(KeysOf(B)) <=> \E p \in B : L!AsKey(p).key = "tracked" /\ x = L!AsKey(p).p
  BY DEF JobsOf, KeysOf
<1>5. \A x : x \in JobsOf(KeysOf(B)) <=> x \in B
  BY <1>3, <1>4
<1> QED BY <1>2, <1>5

\* As many as a set has, all of it: that set.
LEMMA CountedIs ==
  ASSUME NEW B, IsFiniteSet(B), NEW C, C \subseteq KeysOf(B), ~ Untracked(C),
         NEW e \in Nat, Cardinality(B) <= e, Cardinality(C) = e
  PROVE  JobsOf(C) = B
<1>1. IsFiniteSet(KeysOf(B)) /\ Cardinality(KeysOf(B)) <= Cardinality(B)
  BY KeysAre
<1>2. Cardinality(C) <= Cardinality(KeysOf(B)) /\ (Cardinality(KeysOf(B)) = Cardinality(C) => KeysOf(B) = C)
  BY <1>1, FS_Subset
<1>3. Cardinality(B) \in Nat /\ Cardinality(KeysOf(B)) \in Nat
  BY <1>1, FS_CardinalityType
<1>4. KeysOf(B) = C
  BY <1>1, <1>2, <1>3
<1> QED BY <1>4, AllCounted

\* As many as a set has, and that all among them: that set.
LEMMA CoveredIs ==
  ASSUME NEW B, IsFiniteSet(B), NEW M, IsFiniteSet(M), NEW C, C \subseteq KeysOf(M), ~ Untracked(C),
         KeysOf(B) \subseteq C, Cardinality(C) = Cardinality(B)
  PROVE  JobsOf(C) = B
<1>1. IsFiniteSet(C)
  BY KeysAre, FS_Subset
<1>2. ~ Untracked(KeysOf(B))
  BY DEF Untracked
<1>3. Cardinality(KeysOf(B)) = Cardinality(B) /\ JobsOf(KeysOf(B)) = B
  BY <1>2, AllCounted
<1>4. C = KeysOf(B)
  BY <1>1, <1>3, FS_Subset
<1> QED BY <1>3, <1>4

\* A check under way, and one that has ended as it may.
FetchFields == {"at", "collected", "seen", "given", "offset", "pages", "requests", "total",
                "expected", "slices", "slice", "status", "code"}
IsFetch(f) == DOMAIN f = FetchFields
Going(f) == f.at \in {"first", "page"} /\ f.status = None /\ f.code = None
Shut(f, past, b, c) ==
  /\ f.at = "done"
  /\ f.status = "complete" => JobsOf(f.collected) \in past
  /\ c = 0 /\ (platform = "workday" => Len(b) < Ceiling)
     => f.code \notin {"count_mismatch", "duplicate_posting"}

LEMMA ResultIs ==
  ASSUME NEW f, IsFetch(f), NEW status, NEW code
  PROVE  LET r == L!Result(f, status, code) IN
         IsFetch(r) /\ r.at = "done" /\ r.status = status /\ r.code = code /\ r.collected = f.collected
BY DEF L!Result, IsFetch, FetchFields

\* A check that is given up says so.
LEMMA GivenUp ==
  ASSUME NEW f, IsFetch(f), NEW status, NEW code, NEW past, NEW b, NEW c,
         status # "complete", c # 0 \/ code \notin {"count_mismatch", "duplicate_posting"}
  PROVE  IsFetch(L!Result(f, status, code)) /\ Shut(L!Result(f, status, code), past, b, c)
BY ResultIs DEF Shut

LEMMA CountingPostings == \A S : L!Cardinality(S) = Cardinality(S)
BY DEF L!Cardinality, Cardinality

LEMMA UnfoundedIs == \A f : L!Unfounded(f) <=> Untracked(f.collected)
BY DEF L!Unfounded, Untracked

LEMMA VerdictShuts ==
  ASSUME NEW f, IsFetch(f), NEW e, NEW past, NEW b, NEW c,
         ~ Untracked(f.collected) /\ (e = None \/ Cardinality(f.collected) = e) => JobsOf(f.collected) \in past,
         c = 0 /\ (platform = "workday" => Len(b) < Ceiling) /\ ~ Untracked(f.collected) /\ e # None
           => Cardinality(f.collected) = e
  PROVE  IsFetch(L!Verdict(f, e)) /\ Shut(L!Verdict(f, e), past, b, c)
<1> DEFINE counted == [f EXCEPT !.expected = e]
<1>1. IsFetch(counted) /\ counted.collected = f.collected
  BY DEF IsFetch, FetchFields
<1>2. L!Verdict(f, e) = IF L!Unfounded(f) THEN L!Result(counted, "incomplete", "unidentifiable_job")
                        ELSE IF e # None /\ L!Cardinality(f.collected) # e
                             THEN L!Result(counted, "incomplete", "count_mismatch")
                             ELSE L!Result(counted, "complete", None)
  BY DEF L!Verdict
<1> HIDE DEF counted
<1>3. CASE L!Unfounded(f)
  BY <1>1, <1>2, <1>3, GivenUp
<1>4. CASE ~ L!Unfounded(f) /\ e # None /\ Cardinality(f.collected) # e
  <2>1. L!Verdict(f, e) = L!Result(counted, "incomplete", "count_mismatch")
    BY <1>2, <1>4, CountingPostings
  <2>2. ~ (c = 0 /\ (platform = "workday" => Len(b) < Ceiling))
    BY <1>4, UnfoundedIs
  <2> QED BY <1>1, <2>1, <2>2, ResultIs DEF Shut
<1>5. CASE ~ L!Unfounded(f) /\ (e = None \/ Cardinality(f.collected) = e)
  <2>1. L!Verdict(f, e) = L!Result(counted, "complete", None)
    BY <1>2, <1>5, CountingPostings
  <2>2. JobsOf(f.collected) \in past
    BY <1>5, UnfoundedIs
  <2>3. None \notin {"count_mismatch", "duplicate_posting"}
    BY PartsAssumption
  <2> QED BY <1>1, <2>1, <2>2, <2>3, ResultIs DEF Shut
<1> QED BY <1>3, <1>4, <1>5

\* No more than a set that was the board, which is no more than is expected.
LEMMA VerdictInside ==
  ASSUME NEW f, IsFetch(f), NEW e \in Nat, NEW past, NEW B \in past, IsFiniteSet(B), Cardinality(B) <= e,
         f.collected \subseteq KeysOf(B), NEW b, NEW c,
         c # 0 \/ (platform = "workday" /\ ~ (Len(b) < Ceiling))
  PROVE  IsFetch(L!Verdict(f, e)) /\ Shut(L!Verdict(f, e), past, b, c)
<1>1. e # None
  BY PartsAssumption
<1>2. ~ Untracked(f.collected) /\ (e = None \/ Cardinality(f.collected) = e) => JobsOf(f.collected) \in past
  BY <1>1, CountedIs
<1> QED BY <1>2, VerdictShuts

\* All of a set that was the board, which is what is expected.
LEMMA VerdictOfAll ==
  ASSUME NEW f, IsFetch(f), NEW past, NEW B \in past, IsFiniteSet(B), NEW M, IsFiniteSet(M),
         KeysOf(B) \subseteq f.collected, f.collected \subseteq KeysOf(M), NEW b, NEW c,
         c = 0 => M = B
  PROVE  IsFetch(L!Verdict(f, Cardinality(B))) /\ Shut(L!Verdict(f, Cardinality(B)), past, b, c)
<1> DEFINE e == Cardinality(B)
<1>1. e # None
  <2>1. e \in Nat
    BY FS_CardinalityType
  <2> QED BY <2>1, PartsAssumption
<1>2. ~ Untracked(f.collected) /\ Cardinality(f.collected) = e => JobsOf(f.collected) = B
  BY CoveredIs
<1>3. c = 0 /\ ~ Untracked(f.collected) => Cardinality(f.collected) = e
  <2> SUFFICES ASSUME c = 0, ~ Untracked(f.collected) PROVE Cardinality(f.collected) = e
    OBVIOUS
  <2>1. f.collected = KeysOf(B)
    OBVIOUS
  <2> QED BY <2>1, AllCounted
<1> HIDE DEF e
<1>4. IsFetch(L!Verdict(f, e)) /\ Shut(L!Verdict(f, e), past, b, c)
  BY <1>1, <1>2, <1>3, VerdictShuts
<1> QED BY <1>4 DEF e

\* What a page adds.
LEMMA AbsorbIs ==
  ASSUME NEW f, IsFetch(f), NEW s
  PROVE  LET r == L!Absorb(f, s) IN
         /\ IsFetch(r) /\ r.collected = f.collected \union KeysOf(L!ToSet(s))
         /\ r.seen = f.seen \union KeysOf(L!ToSet(s))
         /\ r.at = f.at /\ r.status = f.status /\ r.code = f.code /\ r.offset = f.offset
         /\ r.given = f.given /\ r.total = f.total /\ r.expected = f.expected
         /\ r.slices = f.slices /\ r.slice = f.slice /\ r.pages = f.pages
BY DEF L!Absorb, L!AsKeys, KeysOf, IsFetch, FetchFields

----------------------------------------------------------------------------
(* The board a check began with, and one that a posting was put up on.        *)

Start(n) == [i \in 1..n |-> i]
Ahead(b, n, p)  == p \in Postings \ (1..n) /\ b = <<p>> \o Start(n)
Behind(b, n, p) == p \in Postings \ (1..n) /\ b = Start(n) \o <<p>>

LEMMA StartIs ==
  ASSUME NEW n \in Posted
  PROVE  /\ n \in Nat /\ Start(n) \in Seq(Postings) /\ Len(Start(n)) = n
         /\ L!ToSet(Start(n)) = 1..n /\ Distinct(Start(n))
         /\ \A i \in 1..n : Start(n)[i] = i
         /\ IsFiniteSet(1..n) /\ Cardinality(1..n) = n
<1>1. n \in Nat /\ 1..n \subseteq Postings
  BY PartsAssumption
<1>2. /\ Start(n) \in Seq(Postings) /\ Len(Start(n)) = n /\ DOMAIN Start(n) = 1..n
      /\ \A i \in 1..n : Start(n)[i] = i
  BY <1>1 DEF Start
<1>3. L!ToSet(Start(n)) = 1..n
  BY <1>2 DEF L!ToSet
<1>4. IsFiniteSet(1..n) /\ Cardinality(1..n) = n
  <2>1. IsFiniteSet(1..n) /\ Cardinality(1..n) = IF 1 > n THEN 0 ELSE n - 1 + 1
    BY <1>1, FS_Interval
  <2> QED BY <1>1, <2>1
<1> QED BY <1>1, <1>2, <1>3, <1>4 DEF Distinct

LEMMA GrownIs ==
  ASSUME NEW n \in Posted, NEW p, NEW b, Ahead(b, n, p) \/ Behind(b, n, p)
  PROVE  /\ n \in Nat /\ p \in Postings /\ p \notin 1..n
         /\ b \in Seq(Postings) /\ Len(b) = n + 1 /\ Distinct(b)
         /\ L!ToSet(b) = (1..n) \union {p}
         /\ IsFiniteSet((1..n) \union {p}) /\ Cardinality((1..n) \union {p}) = n + 1
         /\ Ahead(b, n, p) => b[1] = p /\ \A i \in 1..n : b[i + 1] = i
         /\ Behind(b, n, p) => b[n + 1] = p /\ \A i \in 1..n : b[i] = i
<1>1. /\ n \in Nat /\ Start(n) \in Seq(Postings) /\ Len(Start(n)) = n
      /\ \A i \in 1..n : Start(n)[i] = i
      /\ IsFiniteSet(1..n) /\ Cardinality(1..n) = n
  BY StartIs
<1>2. p \in Postings /\ p \notin 1..n
  BY DEF Ahead, Behind
<1>3. IsFiniteSet((1..n) \union {p}) /\ Cardinality((1..n) \union {p}) = n + 1
  BY <1>1, <1>2, FS_AddElement
<1>4. /\ b \in Seq(Postings) /\ Len(b) = n + 1
      /\ Ahead(b, n, p) => b[1] = p /\ \A i \in 1..n : b[i + 1] = i
      /\ Behind(b, n, p) => b[n + 1] = p /\ \A i \in 1..n : b[i] = i
  <2>1. <<p>> \in Seq(Postings) /\ Len(<<p>>) = 1 /\ <<p>>[1] = p
    BY <1>2
  <2>2. CASE Ahead(b, n, p)
    <3>1. b = <<p>> \o Start(n)
      BY <2>2 DEF Ahead
    <3>2. /\ b \in Seq(Postings) /\ Len(b) = 1 + n
          /\ \A i \in 1..(1 + n) : b[i] = IF i <= 1 THEN <<p>>[i] ELSE Start(n)[i - 1]
      BY <1>1, <2>1, <3>1, ConcatProperties
    <3>3. b[1] = p
      BY <1>1, <2>1, <3>2
    <3>4. \A i \in 1..n : i + 1 \in 1..(1 + n) /\ ~ (i + 1 <= 1) /\ (i + 1) - 1 = i
      BY <1>1
    <3>5. \A i \in 1..n : b[i + 1] = i
      BY <1>1, <3>2, <3>4
    <3>6. ~ Behind(b, n, p) \/ n = 0
      <4> SUFFICES ASSUME Behind(b, n, p), n # 0 PROVE FALSE
        OBVIOUS
      <4>1. b = Start(n) \o <<p>>
        BY DEF Behind
      <4>2. b[1] = Start(n)[1]
        BY <1>1, <2>1, <4>1, ConcatProperties
      <4> QED BY <1>1, <1>2, <3>3, <4>2
    <3> QED BY <1>1, <3>2, <3>3, <3>5, <3>6
  <2>3. CASE Behind(b, n, p)
    <3>1. b = Start(n) \o <<p>>
      BY <2>3 DEF Behind
    <3>2. /\ b \in Seq(Postings) /\ Len(b) = n + 1
          /\ \A i \in 1..(n + 1) : b[i] = IF i <= n THEN Start(n)[i] ELSE <<p>>[i - n]
      BY <1>1, <2>1, <3>1, ConcatProperties
    <3>3. b[n + 1] = p
      BY <1>1, <2>1, <3>2
    <3>4. \A i \in 1..n : b[i] = i
      BY <1>1, <3>2
    <3> QED BY <2>2, <3>2, <3>3, <3>4
  <2> QED BY <2>2, <2>3
<1>5. \A i \in 1..Len(b) : i = 1 \/ (i - 1 \in 1..n /\ (i - 1) + 1 = i)
  BY <1>1, <1>4
<1>6. \A i \in 1..Len(b) : i = n + 1 \/ i \in 1..n
  BY <1>1, <1>4
<1>7. Distinct(b)
  <2>1. CASE Ahead(b, n, p)
    <3>1. \A i \in 1..Len(b) : b[i] = IF i = 1 THEN p ELSE i - 1
      BY <1>4, <1>5, <2>1
    <3> QED BY <1>1, <1>2, <1>4, <1>5, <3>1 DEF Distinct
  <2>2. CASE Behind(b, n, p)
    <3>1. \A i \in 1..Len(b) : b[i] = IF i = n + 1 THEN p ELSE i
      BY <1>4, <1>6, <2>2
    <3> QED BY <1>1, <1>2, <1>4, <1>6, <3>1 DEF Distinct
  <2> QED BY <2>1, <2>2
<1>8. L!ToSet(b) = (1..n) \union {p}
  <2>1. L!ToSet(b) = {b[i] : i \in 1..Len(b)}
    BY <1>4 DEF L!ToSet
  <2>2. \A x : x \in L!ToSet(b) <=> \E i \in 1..Len(b) : b[i] = x
    BY <2>1
  <2>3. 1 \in 1..Len(b) /\ n + 1 \in 1..Len(b) /\ \A i \in 1..n : i \in 1..Len(b) /\ i + 1 \in 1..Len(b)
    BY <1>1, <1>4
  <2>4. \A x : x \in L!ToSet(b) => x = p \/ x \in 1..n
    BY <1>4, <1>5, <1>6, <2>2
  <2>5. p \in L!ToSet(b) /\ \A x \in 1..n : x \in L!ToSet(b)
    BY <1>4, <2>2, <2>3
  <2> QED BY <2>4, <2>5
<1> QED BY <1>1, <1>2, <1>3, <1>4, <1>7, <1>8

\* A posting that is taken down is the only one that goes.
LEMMA Removed ==
  ASSUME NEW b \in Seq(Postings), NEW i \in DOMAIN b
  PROVE  L!RemoveAt(b, i) \in Seq(Postings) /\ L!ToSet(L!RemoveAt(b, i)) \subseteq L!ToSet(b)
<1> DEFINE one == SubSeq(b, 1, i - 1)
           two == SubSeq(b, i + 1, Len(b))
           r == one \o two
<1>1. Len(b) \in Nat /\ DOMAIN b = 1..Len(b) /\ i \in 1..Len(b)
  OBVIOUS
<1>2. \A k \in 1..Len(b) : b[k] \in L!ToSet(b)
  BY <1>1 DEF L!ToSet
<1>3. i - 1 \in Int /\ i + 1 \in Int /\ 1 \in Int /\ Len(b) \in Int
  BY <1>1
<1>4. \A P : (\A k \in 1..Len(b) : b[k] \in P) => one \in Seq(P) /\ two \in Seq(P)
  <2> SUFFICES ASSUME NEW P, \A k \in 1..Len(b) : b[k] \in P PROVE one \in Seq(P) /\ two \in Seq(P)
    OBVIOUS
  <2>1. \A k \in 1..(i - 1) : b[k] \in P
    BY <1>1
  <2>2. \A k \in (i + 1)..Len(b) : b[k] \in P
    BY <1>1
  <2>3. one \in Seq(P)
    BY <1>3, <2>1, SubSeqProperties
  <2>4. two \in Seq(P)
    BY <1>3, <2>2, SubSeqProperties
  <2> QED BY <2>3, <2>4
<1> HIDE DEF one, two
<1>5. r \in Seq(L!ToSet(b)) /\ r \in Seq(Postings)
  <2>1. \A k \in 1..Len(b) : b[k] \in Postings
    BY <1>1
  <2>2. one \in Seq(L!ToSet(b)) /\ two \in Seq(L!ToSet(b)) /\ one \in Seq(Postings) /\ two \in Seq(Postings)
    BY <1>2, <1>4, <2>1
  <2> QED BY <2>2, ConcatProperties
<1>6. L!RemoveAt(b, i) = r
  BY DEF L!RemoveAt, one, two
<1> HIDE DEF r
<1>7. \A k \in 1..Len(r) : r[k] \in L!ToSet(b)
  BY <1>5, ElementOfSeq
<1>8. DOMAIN r = 1..Len(r)
  BY <1>5, LenProperties
<1>9. L!ToSet(r) \subseteq L!ToSet(b)
  BY <1>7, <1>8 DEF L!ToSet
<1> QED BY <1>5, <1>6, <1>9

\* A page that is part of a list.
Span(b, from, to) == {b[i] : i \in (from + 1)..to}

LEMMA PartIs ==
  ASSUME NEW P, NEW b \in Seq(P), NEW from \in Nat, NEW to \in Nat, to <= Len(b)
  PROVE  LET s == SubSeq(b, from + 1, to) IN
         /\ s \in Seq(P)
         /\ Len(s) = IF from < to THEN to - from ELSE 0
         /\ L!ToSet(s) = Span(b, from, to)
         /\ \A i \in 1..Len(s) : s[i] = b[from + i]
<1> DEFINE s == SubSeq(b, from + 1, to)
<1>1. from + 1 \in Int /\ to \in Int /\ Len(b) \in Nat
  OBVIOUS
<1>2. \A i \in (from + 1)..to : b[i] \in P
  BY <1>1
<1>3. /\ s \in Seq(P)
      /\ Len(s) = IF from + 1 <= to THEN to - (from + 1) + 1 ELSE 0
      /\ \A i \in 1..(to - (from + 1) + 1) : s[i] = b[(from + 1) + i - 1]
  BY <1>1, <1>2, SubSeqProperties
<1> HIDE DEF s
<1>4. Len(s) = IF from < to THEN to - from ELSE 0
  BY <1>1, <1>3
<1>5. \A i \in 1..Len(s) : i \in 1..(to - (from + 1) + 1) /\ (from + 1) + i - 1 = from + i
                           /\ from + i \in (from + 1)..to
  BY <1>1, <1>4
<1>6. \A i \in 1..Len(s) : s[i] = b[from + i]
  BY <1>3, <1>5
<1>7. DOMAIN s = 1..Len(s)
  BY <1>3
<1>8. L!ToSet(s) \subseteq {b[i] : i \in (from + 1)..to}
  <2> SUFFICES ASSUME NEW i \in 1..Len(s) PROVE s[i] \in {b[k] : k \in (from + 1)..to}
    BY <1>7 DEF L!ToSet
  <2>1. s[i] = b[from + i] /\ from + i \in (from + 1)..to
    BY <1>5, <1>6
  <2> QED BY <2>1
<1>9. ASSUME NEW i \in (from + 1)..to PROVE b[i] \in L!ToSet(s)
  <2>1. i - from \in 1..Len(s) /\ from + (i - from) = i
    BY <1>1, <1>4
  <2>2. s[i - from] = b[i]
    BY <1>6, <2>1
  <2> QED BY <1>7, <2>1, <2>2 DEF L!ToSet
<1>10. L!ToSet(s) = Span(b, from, to)
  BY <1>8, <1>9 DEF Span
<1> QED BY <1>3, <1>4, <1>6, <1>10 DEF s

LEMMA LeastIs ==
  ASSUME NEW m \in Nat, NEW n \in Nat
  PROVE  /\ L!Least(m, n) \in Nat /\ L!Least(m, n) <= m /\ L!Least(m, n) <= n
         /\ L!Least(m, n) = m \/ L!Least(m, n) = n
BY DEF L!Least

----------------------------------------------------------------------------
(* The platforms that answer at once.                                         *)

\* A check before its first answer; it may count that it asks.
Fresh(f) ==
  /\ f.at = "first" /\ f.collected = {} /\ f.seen = {} /\ f.given = {} /\ f.offset = 0
  /\ f.pages = 0 /\ f.total = None /\ f.expected = None /\ f.slices = <<>>
  /\ f.slice = Postings /\ f.status = None /\ f.code = None

\* The board when a check began.
Began(n, c) ==
  /\ n \in Posted /\ 1..n \in was /\ listed \in Seq(Postings)
  /\ L!ToSet(listed) \in was
  /\ c = 0 => listed = Start(n)

LEMMA SingleAnswer ==
  ASSUME NEW n, NEW f, IsFetch(f), Fresh(f), listed = Start(n), Began(n, 0),
         platform # "workday", NEW hollow \in BOOLEAN,
         NEW r, \/ platform \in {"ashby", "greenhouse"} /\ r = L!FetchSingle(f, hollow)
                \/ platform = "teamtailor" /\ r = L!FetchSingleXml(f),
         hollow => platform \notin {"ashby", "teamtailor"},
         NEW c, c = IF hollow THEN 1 ELSE 0
  PROVE  IsFetch(r) /\ Shut(r, was, listed, c)
<1>1. /\ n \in Nat /\ Len(listed) = n /\ L!ToSet(listed) = 1..n
      /\ IsFiniteSet(1..n) /\ Cardinality(1..n) = n /\ 1..n \in was
  BY StartIs DEF Began
<1>2. KeysOf({}) = {}
  BY DEF KeysOf
<1>3. f.collected = {}
  BY DEF Fresh
<1>4. L!ToSet(<<>>) = {}
  BY DEF L!ToSet
<1> DEFINE whole == L!Absorb(f, listed)
           none == L!Absorb(f, <<>>)
<1>5. IsFetch(whole) /\ whole.collected = KeysOf(1..n)
  <2>1. IsFetch(whole) /\ whole.collected = f.collected \union KeysOf(L!ToSet(listed))
    BY AbsorbIs
  <2> HIDE DEF whole
  <2> QED BY <1>1, <1>3, <2>1
<1>6. IsFetch(none) /\ none.collected = {}
  <2>1. IsFetch(none) /\ none.collected = f.collected \union KeysOf(L!ToSet(<<>>))
    BY AbsorbIs
  <2> HIDE DEF none
  <2> QED BY <1>2, <1>3, <1>4, <2>1
<1> HIDE DEF whole, none
<1>7. IsFetch(L!Verdict(whole, n)) /\ Shut(L!Verdict(whole, n), was, listed, c)
  <2>1. /\ IsFetch(L!Verdict(whole, Cardinality(1..n)))
        /\ Shut(L!Verdict(whole, Cardinality(1..n)), was, listed, c)
    BY <1>1, <1>5, VerdictOfAll
  <2> QED BY <1>1, <2>1
<1>8. IsFetch(L!Verdict(whole, None)) /\ Shut(L!Verdict(whole, None), was, listed, c)
  <2>1. ~ Untracked(whole.collected) => JobsOf(whole.collected) \in was
    BY <1>1, <1>5, AllCounted
  <2> QED BY <1>5, <2>1, VerdictShuts
<1>9. hollow => IsFetch(L!Verdict(none, n)) /\ Shut(L!Verdict(none, n), was, listed, c)
  <2> SUFFICES ASSUME hollow PROVE IsFetch(L!Verdict(none, n)) /\ Shut(L!Verdict(none, n), was, listed, c)
    OBVIOUS
  <2>1. c # 0 /\ none.collected \subseteq KeysOf(1..n) /\ Cardinality(1..n) <= n
    BY <1>1, <1>6
  <2> QED BY <1>1, <1>6, <2>1, VerdictInside
<1>10. CASE platform = "teamtailor"
  BY <1>8, <1>10 DEF L!FetchSingleXml, whole
<1>11. CASE platform \in {"ashby", "greenhouse"}
  <2>1. r = L!Verdict(L!Absorb(f, IF hollow THEN <<>> ELSE listed),
                      IF platform = "greenhouse" THEN Len(listed) ELSE None)
    BY <1>11 DEF L!FetchSingle
  <2>2. CASE platform = "ashby"
    <3>1. ~ hollow
      BY <2>2
    <3> QED BY <1>8, <2>1, <2>2, <3>1 DEF whole
  <2>3. CASE platform = "greenhouse"
    <3>1. r = IF hollow THEN L!Verdict(none, n) ELSE L!Verdict(whole, n)
      BY <1>1, <2>1, <2>3 DEF whole, none
    <3> QED BY <1>7, <1>9, <3>1
  <2> QED BY <1>11, <2>2, <2>3
<1> QED BY <1>10, <1>11

----------------------------------------------------------------------------
(* SmartRecruiters.                                                           *)

\* A board as it was, or with one more at its end.
Extends(b, n, c) == (c = 0 /\ b = Start(n)) \/ (c = 1 /\ \E p \in Postings : Behind(b, n, p))

LEMMA ExtendsIs ==
  ASSUME NEW n \in Posted, NEW b, NEW c, Extends(b, n, c)
  PROVE  /\ n \in Nat /\ b \in Seq(Postings) /\ Len(b) \in Nat /\ n <= Len(b) /\ Distinct(b)
         /\ \A x \in 1..n : x \in 1..Len(b) /\ b[x] = x
         /\ IsFiniteSet(L!ToSet(b)) /\ 1..n \subseteq L!ToSet(b)
         /\ c = 0 => L!ToSet(b) = 1..n /\ Len(b) = n
<1>1. CASE c = 0 /\ b = Start(n)
  BY <1>1, StartIs
<1>2. CASE c = 1 /\ \E p \in Postings : Behind(b, n, p)
  <2>1. PICK p \in Postings : Behind(b, n, p)
    BY <1>2
  <2>2. /\ n \in Nat /\ b \in Seq(Postings) /\ Len(b) = n + 1 /\ Distinct(b)
        /\ L!ToSet(b) = (1..n) \union {p} /\ IsFiniteSet((1..n) \union {p})
        /\ \A i \in 1..n : b[i] = i
    BY <2>1, GrownIs
  <2> QED BY <1>2, <2>2
<1> QED BY <1>1, <1>2 DEF Extends

\* A check that can only collect what the board had when it began.
Adrift(f, b, n) ==
  f.collected \subseteq KeysOf(1..n) /\ \A i \in 1..Len(b) : i > f.offset => b[i] \in 1..n
\* One that has collected all that it has passed.
InStep(f, b, n, c) ==
  /\ Extends(b, n, c) /\ f.collected \subseteq KeysOf(L!ToSet(b))
  /\ \A x \in 1..n : x <= f.offset => L!AsKey(x) \in f.collected
Follows(f, b, n, c) ==
  /\ f.total = n /\ f.offset \in Nat \ {0}
  /\ (c = 1 /\ Adrift(f, b, n)) \/ InStep(f, b, n, c)

LEMMA InStart ==
  ASSUME NEW n \in Posted, NEW c, Began(n, c), c = 0, NEW f,
         Fresh(f) \/ f.collected \subseteq KeysOf(L!ToSet(listed))
  PROVE  f.collected \subseteq KeysOf(1..n)
<1>1. L!ToSet(listed) = 1..n
  BY StartIs DEF Began
<1> QED BY <1>1 DEF Fresh

LEMMA KeysGrow == \A S, T : S \subseteq T => KeysOf(S) \subseteq KeysOf(T)
BY DEF KeysOf

LEMMA SmartAnswer ==
  ASSUME NEW n \in Posted, NEW c \in {0, 1}, Began(n, c), NEW f, IsFetch(f),
         (Fresh(f) /\ c = 0) \/ (Going(f) /\ Follows(f, listed, n, c)),
         NEW hollow \in BOOLEAN, hollow => c = 0, NEW limit \in {1, PageSize},
         NEW k, k = IF hollow THEN 1 ELSE c
  PROVE  LET r == L!SmartRecruiters(f, hollow, limit) IN
         IsFetch(r) /\ (Shut(r, was, listed, k) \/ (Going(r) /\ Follows(r, listed, n, k)))
<1> DEFINE r == L!SmartRecruiters(f, hollow, limit)
           Right(x) == IsFetch(x) /\ (Shut(x, was, listed, k) \/ (Going(x) /\ Follows(x, listed, n, k)))
<1>1. /\ n \in Nat /\ 1..n \in was /\ listed \in Seq(Postings) /\ Len(listed) \in Nat
      /\ IsFiniteSet(1..n) /\ Cardinality(1..n) = n
  BY StartIs DEF Began
<1>2. limit \in Nat /\ limit > 0 /\ f.offset \in Nat
  BY PartsAssumption DEF Fresh, Follows
<1> DEFINE to == L!Least(Len(listed), f.offset + limit)
           part == SubSeq(listed, f.offset + 1, to)
           pg == IF hollow THEN <<>> ELSE part
           total == IF f.total = None THEN Len(listed) ELSE f.total
           done == [L!Absorb(f, pg) EXCEPT !.total = total]
           next == [done EXCEPT !.pages = @ + 1, !.offset = @ + limit, !.at = "page"]
<1>3. total = n
  <2>1. CASE Fresh(f) /\ c = 0
    BY <2>1, StartIs DEF Fresh, Began
  <2>2. CASE Follows(f, listed, n, c)
    BY <1>1, <2>2, PartsAssumption DEF Follows
  <2> QED BY <2>1, <2>2
<1>4. r = IF Len(pg) < limit THEN L!Verdict(done, n)
          ELSE IF next.pages >= MaxPages THEN L!Result(done, "incomplete", "page_cap_reached")
          ELSE next
  BY <1>3 DEF L!SmartRecruiters, L!SmartPage
<1>5. /\ IsFetch(done) /\ done.collected = f.collected \union KeysOf(L!ToSet(pg))
      /\ done.offset = f.offset /\ done.status = f.status /\ done.code = f.code /\ done.total = n
  <2>1. /\ IsFetch(L!Absorb(f, pg)) /\ L!Absorb(f, pg).collected = f.collected \union KeysOf(L!ToSet(pg))
        /\ L!Absorb(f, pg).offset = f.offset /\ L!Absorb(f, pg).status = f.status
        /\ L!Absorb(f, pg).code = f.code
    BY AbsorbIs
  <2> HIDE DEF pg, total
  <2> QED BY <1>3, <2>1 DEF IsFetch, FetchFields
<1>6. /\ IsFetch(next) /\ next.collected = done.collected /\ next.offset = f.offset + limit
      /\ next.at = "page" /\ next.status = f.status /\ next.code = f.code /\ next.total = n
  <2> HIDE DEF done
  <2> QED BY <1>5 DEF IsFetch, FetchFields
<1>7. Going(next)
  BY <1>6, PartsAssumption DEF Going, Fresh
<1>8. Right(L!Result(done, "incomplete", "page_cap_reached"))
  <2> HIDE DEF done
  <2> QED BY <1>5, GivenUp
<1>9. to \in Nat /\ to <= Len(listed) /\ to <= f.offset + limit /\ (to = Len(listed) \/ to = f.offset + limit)
  <2>1. f.offset + limit \in Nat
    BY <1>2
  <2> HIDE DEF r, total, done, next, part, pg
  <2> QED BY <1>1, <2>1, LeastIs
<1> HIDE DEF r, to, total, done, next
<1>10. /\ Len(part) = IF f.offset < to THEN to - f.offset ELSE 0
       /\ L!ToSet(part) = Span(listed, f.offset, to)
  <2> DEFINE from == f.offset
  <2>1. from \in Nat /\ to \in Nat /\ to <= Len(listed) /\ listed \in Seq(Postings)
    BY <1>1, <1>2, <1>9
  <2> HIDE DEF from
  <2>2. LET s == SubSeq(listed, from + 1, to) IN
        /\ Len(s) = IF from < to THEN to - from ELSE 0
        /\ L!ToSet(s) = Span(listed, from, to)
    BY <2>1, PartIs
  <2> QED BY <2>2 DEF from
<1> HIDE DEF part
<1>11. CASE hollow
  <2>1. pg = <<>> /\ Len(pg) < limit /\ L!ToSet(pg) = {}
    BY <1>2, <1>11 DEF L!ToSet
  <2>2. done.collected = f.collected
    BY <1>5, <2>1 DEF KeysOf
  <2>3. f.collected \subseteq KeysOf(1..n)
    <3>1. c = 0
      BY <1>11
    <3>2. Fresh(f) \/ f.collected \subseteq KeysOf(L!ToSet(listed))
      BY <3>1 DEF Follows, InStep
    <3> QED BY <3>1, <3>2, InStart
  <2>4. r = L!Verdict(done, n)
    BY <1>4, <2>1
  <2>5. k # 0 /\ Cardinality(1..n) <= n
    BY <1>1, <1>11
  <2>6. IsFetch(L!Verdict(done, n)) /\ Shut(L!Verdict(done, n), was, listed, k)
    BY <1>1, <1>5, <2>2, <2>3, <2>5, VerdictInside
  <2> QED BY <2>4, <2>6 DEF r
<1>12. CASE ~ hollow /\ c = 1 /\ Follows(f, listed, n, c) /\ Adrift(f, listed, n)
  <2>1. pg = part /\ k = 1
    BY <1>12
  <2>2. \A i \in (f.offset + 1)..to : i \in 1..Len(listed) /\ i > f.offset
    BY <1>1, <1>2, <1>9
  <2>3. L!ToSet(part) \subseteq 1..n
    BY <1>10, <1>12, <2>2 DEF Adrift, Span
  <2>4. done.collected \subseteq KeysOf(1..n)
    BY <1>5, <1>12, <2>1, <2>3, KeysGrow DEF Adrift
  <2>5. IsFetch(L!Verdict(done, n)) /\ Shut(L!Verdict(done, n), was, listed, k)
    <3>1. k # 0 /\ Cardinality(1..n) <= n
      BY <1>1, <2>1
    <3> QED BY <1>1, <1>5, <2>4, <3>1, VerdictInside
  <2>6. Follows(next, listed, n, k)
    <3>1. next.offset \in Nat \ {0} /\ \A i \in 1..Len(listed) : i > next.offset => i > f.offset
      BY <1>1, <1>2, <1>6
    <3>2. Adrift(next, listed, n)
      BY <1>6, <1>12, <2>4, <3>1 DEF Adrift
    <3> QED BY <1>6, <2>1, <3>1, <3>2 DEF Follows
  <2>7. Right(L!Verdict(done, n)) /\ Right(next)
    BY <1>6, <1>7, <2>5, <2>6
  <2> HIDE DEF Right
  <2>8. Right(r)
    BY <1>4, <1>8, <2>7
  <2> QED BY <2>8 DEF Right, r
<1>13. CASE ~ hollow /\ (Fresh(f) \/ InStep(f, listed, n, c))
  <2>1. pg = part /\ k = c
    BY <1>13
  <2>2. InStep(f, listed, n, c)
    <3>1. CASE Fresh(f)
      <4>1. c = 0
        BY <3>1, <1>1, PartsAssumption DEF Fresh, Follows
      <4>2. Extends(listed, n, c)
        BY <4>1 DEF Began, Extends
      <4> QED BY <3>1, <4>2 DEF Fresh, InStep
    <3> QED BY <1>13, <3>1
  <2>3. /\ n <= Len(listed) /\ \A x \in 1..n : x \in 1..Len(listed) /\ listed[x] = x
        /\ IsFiniteSet(L!ToSet(listed)) /\ 1..n \subseteq L!ToSet(listed)
        /\ c = 0 => L!ToSet(listed) = 1..n
    BY <2>2, ExtendsIs DEF InStep
  <2>4. L!ToSet(part) \subseteq L!ToSet(listed)
    <3>1. \A i \in (f.offset + 1)..to : i \in DOMAIN listed
      BY <1>1, <1>2, <1>9
    <3> QED BY <1>10, <3>1 DEF L!ToSet, Span
  <2>5. done.collected \subseteq KeysOf(L!ToSet(listed))
    BY <1>5, <2>1, <2>2, <2>4, KeysGrow DEF InStep
  <2>6. \A x \in 1..n : x <= to => L!AsKey(x) \in done.collected
    <3> SUFFICES ASSUME NEW x \in 1..n, x <= to PROVE L!AsKey(x) \in done.collected
      OBVIOUS
    <3>1. CASE x <= f.offset
      BY <1>5, <2>2, <3>1 DEF InStep
    <3>2. CASE ~ (x <= f.offset)
      <4>1. x \in (f.offset + 1)..to
        BY <1>1, <1>2, <1>9, <3>2
      <4>2. x \in L!ToSet(part)
        BY <1>10, <2>3, <4>1 DEF Span
      <4> QED BY <1>5, <2>1, <4>2 DEF KeysOf
    <3> QED BY <3>1, <3>2
  <2>7. CASE Len(pg) < limit
    <3>1. to = Len(listed)
      BY <1>1, <1>2, <1>9, <1>10, <2>1, <2>7
    <3>2. KeysOf(1..n) \subseteq done.collected
      <4>1. \A x \in 1..n : x <= to
        BY <1>1, <2>3, <3>1
      <4> QED BY <2>6, <4>1 DEF KeysOf
    <3>3. /\ IsFetch(L!Verdict(done, Cardinality(1..n)))
          /\ Shut(L!Verdict(done, Cardinality(1..n)), was, listed, k)
      BY <1>1, <1>5, <2>1, <2>3, <2>5, <3>2, VerdictOfAll
    <3> QED BY <1>1, <1>4, <2>7, <3>3 DEF r
  <2>8. CASE ~ (Len(pg) < limit)
    <3>1. to = f.offset + limit
      BY <1>1, <1>2, <1>9, <1>10, <2>1, <2>8
    <3>2. InStep(next, listed, n, k)
      BY <1>6, <2>1, <2>2, <2>5, <2>6, <3>1 DEF InStep
    <3>3. next.offset \in Nat \ {0}
      BY <1>2, <1>6
    <3>4. Right(next)
      BY <1>6, <1>7, <3>2, <3>3 DEF Follows
    <3> HIDE DEF Right
    <3>5. Right(r)
      BY <1>4, <1>8, <2>8, <3>4
    <3> QED BY <3>5 DEF Right, r
  <2> QED BY <2>7, <2>8
<1> QED BY <1>11, <1>12, <1>13 DEF Follows

----------------------------------------------------------------------------
(* Workable.                                                                  *)

LEMMA LastOf ==
  ASSUME NEW n \in Nat, NEW S, S \subseteq 1..n, S # {}
  PROVE  \E i \in S : \A k \in S : k <= i
<1> DEFINE T == {n - k : k \in S}
<1>1. T \subseteq Nat /\ T # {}
  <2>1. \A k \in S : k \in 1..n /\ n - k \in Nat
    OBVIOUS
  <2>2. PICK k \in S : TRUE
    OBVIOUS
  <2> QED BY <2>1, <2>2
<1>2. PICK x \in T : \A y \in T : ~ (<<y, x>> \in OpToRel(<, Nat))
  BY <1>1, WFMin, NatLessThanWellFounded
<1>3. \A y \in T : ~ (y < x)
  <2>1. \A y, z \in Nat : y < z => <<y, z>> \in OpToRel(<, Nat)
    BY DEF OpToRel
  <2> QED BY <1>1, <1>2, <2>1
<1>4. PICK i \in S : x = n - i
  BY <1>2
<1>5. \A k \in S : ~ (n - k < n - i)
  BY <1>3, <1>4
<1>6. \A k \in S : k \in Nat
  OBVIOUS
<1> QED BY <1>5, <1>6

\* How far a token stands for.
LEMMA AfterIs ==
  ASSUME listed \in Seq(Postings), NEW g
  PROVE  /\ L!After(g) \in 0..Len(listed)
         /\ \A i \in 1..Len(listed) : listed[i] \in g => i <= L!After(g)
         /\ L!After(g) # 0 => listed[L!After(g)] \in g
<1> DEFINE S == L!Given(g)
<1>1. Len(listed) \in Nat /\ S = {i \in 1..Len(listed) : listed[i] \in g}
  BY DEF L!Given
<1>2. L!After(g) = IF S = {} THEN 0 ELSE CHOOSE i \in S : \A k \in S : k <= i
  BY DEF L!After
<1> HIDE DEF S
<1>3. CASE S = {}
  BY <1>1, <1>2, <1>3
<1>4. CASE S # {}
  <2>1. S \subseteq 1..Len(listed)
    BY <1>1
  <2>2. \E i \in S : \A k \in S : k <= i
    BY <1>1, <1>4, <2>1, LastOf
  <2>3. L!After(g) \in S /\ \A k \in S : k <= L!After(g)
    BY <1>2, <1>4, <2>2
  <2> QED BY <1>1, <2>3
<1> QED BY <1>3, <1>4

\* A check that can only collect what the board had when it began: what it had not is
\* before what was given out.
CutOff(f, b, n) ==
  /\ f.collected \subseteq KeysOf(1..n)
  /\ \A i \in 1..Len(b) : b[i] \notin 1..n => \E k \in i..Len(b) : b[k] \in f.given
\* One that has been given all so far.
GivenAll(f, b, n, c, m) ==
  /\ Extends(b, n, c) /\ m \in 0..Len(b)
  /\ f.given = Span(b, 0, m) /\ f.collected = KeysOf(Span(b, 0, m))
HandedOut(f, b, n, c) ==
  /\ f.total = n
  /\ (c = 1 /\ CutOff(f, b, n)) \/ (\E m \in 1..Len(b) : GivenAll(f, b, n, c, m))

LEMMA SpanIs ==
  ASSUME NEW b \in Seq(Postings), Distinct(b), NEW m \in 0..Len(b), NEW to \in Nat, m <= to, to <= Len(b)
  PROVE  /\ Span(b, 0, m) \union Span(b, m, to) = Span(b, 0, to)
         /\ \A x \in Span(b, m, to) : x \notin Span(b, 0, m)
         /\ Span(b, 0, to) \subseteq L!ToSet(b)
         /\ to = Len(b) => Span(b, 0, to) = L!ToSet(b)
<1>1. Len(b) \in Nat /\ DOMAIN b = 1..Len(b) /\ m \in Nat
  OBVIOUS
<1>2. \A i : i \in (0 + 1)..to <=> (i \in (0 + 1)..m \/ i \in (m + 1)..to)
  BY <1>1
<1>3. Span(b, 0, m) \union Span(b, m, to) = Span(b, 0, to)
  BY <1>2 DEF Span
<1>4. ASSUME NEW i \in (m + 1)..to, NEW j \in (0 + 1)..m, b[i] = b[j] PROVE FALSE
  <2>1. i \in 1..Len(b) /\ j \in 1..Len(b) /\ i # j
    BY <1>1
  <2> QED BY <1>4, <2>1 DEF Distinct
<1>5. \A x \in Span(b, m, to) : x \notin Span(b, 0, m)
  BY <1>4 DEF Span
<1>6. \A i \in (0 + 1)..to : i \in DOMAIN b
  BY <1>1
<1>7. Span(b, 0, to) \subseteq L!ToSet(b)
  BY <1>6 DEF Span, L!ToSet
<1>8. to = Len(b) => Span(b, 0, to) = L!ToSet(b)
  BY <1>1 DEF Span, L!ToSet
<1> QED BY <1>3, <1>5, <1>7, <1>8

LEMMA WorkableAnswer ==
  ASSUME NEW n \in Posted, NEW c \in {0, 1}, Began(n, c), NEW f, IsFetch(f),
         (Fresh(f) /\ c = 0) \/ (Going(f) /\ HandedOut(f, listed, n, c)),
         NEW hollow \in BOOLEAN, hollow => c = 0,
         NEW k, k = IF hollow THEN 1 ELSE c
  PROVE  LET r == L!Workable(f, hollow) IN
         IsFetch(r) /\ (Shut(r, was, listed, k) \/ (Going(r) /\ HandedOut(r, listed, n, k)))
<1> DEFINE r == L!Workable(f, hollow)
           Right(x) == IsFetch(x) /\ (Shut(x, was, listed, k) \/ (Going(x) /\ HandedOut(x, listed, n, k)))
<1>1. /\ n \in Nat /\ 1..n \in was /\ listed \in Seq(Postings) /\ Len(listed) \in Nat
      /\ IsFiniteSet(1..n) /\ Cardinality(1..n) = n
  BY StartIs DEF Began
<1> DEFINE after == L!After(f.given)
           to == L!Least(Len(listed), after + PageSize)
           part == SubSeq(listed, after + 1, to)
           pg == IF hollow THEN <<>> ELSE part
           again == {i \in DOMAIN pg : pg[i] \notin Nameless /\ L!AsKey(pg[i]) \in f.collected}
           total == IF f.total = None THEN Len(listed) ELSE f.total
           done == [L!Absorb(f, pg) EXCEPT !.total = total, !.pages = @ + 1, !.at = "page",
                      !.given = @ \union L!ToSet(pg)]
           cut == L!Absorb(f, SubSeq(pg, 1, L!Min(again) - 1))
<1>2. total = n
  <2>1. CASE Fresh(f) /\ c = 0
    BY <2>1, StartIs DEF Fresh, Began
  <2>2. CASE HandedOut(f, listed, n, c)
    BY <1>1, <2>2, PartsAssumption DEF HandedOut
  <2> QED BY <2>1, <2>2
<1>3. r = IF again # {} THEN L!Result(cut, "incomplete", "duplicate_posting")
          ELSE IF hollow \/ ~ (after + PageSize < Len(listed)) THEN L!Verdict(done, n)
          ELSE IF done.pages >= MaxPages THEN L!Result(done, "incomplete", "page_cap_reached")
          ELSE done
  BY <1>2 DEF L!Workable, L!WorkablePage, L!WorkableToken
<1>4. /\ IsFetch(done) /\ done.collected = f.collected \union KeysOf(L!ToSet(pg))
      /\ done.at = "page" /\ done.status = f.status /\ done.code = f.code /\ done.total = n
      /\ done.given = f.given \union L!ToSet(pg)
  <2>1. /\ IsFetch(L!Absorb(f, pg)) /\ L!Absorb(f, pg).collected = f.collected \union KeysOf(L!ToSet(pg))
        /\ L!Absorb(f, pg).given = f.given /\ L!Absorb(f, pg).status = f.status
        /\ L!Absorb(f, pg).code = f.code
    BY AbsorbIs
  <2> HIDE DEF pg, total
  <2> QED BY <1>2, <2>1 DEF IsFetch, FetchFields
<1>5. IsFetch(cut)
  <2> HIDE DEF pg, again
  <2> QED BY AbsorbIs
<1>6. after \in 0..Len(listed) /\ \A i \in 1..Len(listed) : listed[i] \in f.given => i <= after
  BY <1>1, AfterIs
<1>7. /\ to \in Nat /\ to <= Len(listed) /\ after <= to
      /\ ~ (after + PageSize < Len(listed)) => to = Len(listed)
      /\ after + PageSize < Len(listed) => to = after + PageSize
  <2> HIDE DEF after
  <2> QED BY <1>1, <1>6, PartsAssumption DEF L!Least
<1> HIDE DEF r, to, total, done, cut, after
<1>8. L!ToSet(part) = Span(listed, after, to) /\ part \in Seq(Postings)
  <2>1. after \in Nat /\ to \in Nat /\ to <= Len(listed) /\ listed \in Seq(Postings)
    BY <1>1, <1>6, <1>7
  <2>2. L!ToSet(SubSeq(listed, after + 1, to)) = Span(listed, after, to)
        /\ SubSeq(listed, after + 1, to) \in Seq(Postings)
    BY <2>1, PartIs
  <2> QED BY <2>2
<1> HIDE DEF part
<1>9. Going(done)
  BY <1>4, PartsAssumption DEF Going, Fresh
<1>10. Right(L!Result(done, "incomplete", "page_cap_reached"))
  <2> QED BY <1>4, GivenUp
<1>11. ASSUME k # 0 PROVE Right(L!Result(cut, "incomplete", "duplicate_posting"))
  BY <1>5, <1>11, GivenUp
<1>12. CASE hollow
  <2>1. pg = <<>> /\ L!ToSet(pg) = {} /\ again = {}
    BY <1>12 DEF L!ToSet
  <2>2. done.collected = f.collected
    BY <1>4, <2>1 DEF KeysOf
  <2>3. f.collected \subseteq KeysOf(1..n)
    <3>1. c = 0
      BY <1>12
    <3>2. Fresh(f) \/ f.collected \subseteq KeysOf(L!ToSet(listed))
      <4> SUFFICES ASSUME ~ Fresh(f) PROVE f.collected \subseteq KeysOf(L!ToSet(listed))
        OBVIOUS
      <4>1. PICK m \in 1..Len(listed) : GivenAll(f, listed, n, c, m)
        BY <3>1 DEF HandedOut
      <4>2. Span(listed, 0, m) \subseteq L!ToSet(listed)
        <5>1. \A i \in (0 + 1)..m : i \in DOMAIN listed
          BY <1>1
        <5> QED BY <5>1 DEF Span, L!ToSet
      <4> QED BY <4>1, <4>2, KeysGrow DEF GivenAll
    <3> QED BY <3>1, <3>2, InStart
  <2>4. r = L!Verdict(done, n)
    <3> HIDE DEF again
    <3> QED BY <1>3, <1>12, <2>1
  <2>5. k # 0 /\ Cardinality(1..n) <= n
    BY <1>1, <1>12
  <2>6. IsFetch(L!Verdict(done, n)) /\ Shut(L!Verdict(done, n), was, listed, k)
    BY <1>1, <1>4, <2>2, <2>3, <2>5, VerdictInside
  <2> QED BY <2>4, <2>6 DEF r
<1>13. CASE ~ hollow /\ c = 1 /\ HandedOut(f, listed, n, c) /\ CutOff(f, listed, n)
  <2>1. pg = part /\ k = 1
    BY <1>13
  <2>2. ASSUME NEW i \in (after + 1)..to PROVE listed[i] \in 1..n
    <3>1. i \in 1..Len(listed) /\ i > after
      BY <1>1, <1>6, <1>7
    <3>2. \A j \in i..Len(listed) : j \in 1..Len(listed) /\ ~ (j <= after)
      BY <1>1, <1>6, <3>1
    <3> QED BY <1>6, <1>13, <3>1, <3>2 DEF CutOff
  <2>3. L!ToSet(part) \subseteq 1..n
    BY <1>8, <2>2 DEF Span
  <2>4. done.collected \subseteq KeysOf(1..n)
    BY <1>4, <1>13, <2>1, <2>3, KeysGrow DEF CutOff
  <2>5. IsFetch(L!Verdict(done, n)) /\ Shut(L!Verdict(done, n), was, listed, k)
    <3>1. k # 0 /\ Cardinality(1..n) <= n
      BY <1>1, <2>1
    <3> QED BY <1>1, <1>4, <2>4, <3>1, VerdictInside
  <2>6. HandedOut(done, listed, n, k)
    BY <1>4, <1>13, <2>1, <2>4 DEF HandedOut, CutOff
  <2>7. Right(L!Verdict(done, n)) /\ Right(done) /\ Right(L!Result(cut, "incomplete", "duplicate_posting"))
    BY <1>4, <1>9, <1>11, <2>1, <2>5, <2>6
  <2> HIDE DEF Right, again
  <2>8. Right(r)
    BY <1>3, <1>10, <2>7
  <2> QED BY <2>8 DEF Right, r
<1>14. CASE ~ hollow /\ \E m \in 0..Len(listed) : GivenAll(f, listed, n, c, m)
  <2>1. PICK m \in 0..Len(listed) : GivenAll(f, listed, n, c, m)
    BY <1>14
  <2>2. pg = part /\ k = c
    BY <1>14
  <2>3. /\ n <= Len(listed) /\ Distinct(listed) /\ Extends(listed, n, c)
        /\ IsFiniteSet(L!ToSet(listed)) /\ 1..n \subseteq L!ToSet(listed)
        /\ c = 0 => L!ToSet(listed) = 1..n
    BY <2>1, ExtendsIs DEF GivenAll
  <2>4. f.given = Span(listed, 0, m) /\ f.collected = KeysOf(Span(listed, 0, m))
    BY <2>1 DEF GivenAll
  <2>5. after = m
    <3>1. \A i \in 1..Len(listed) : listed[i] \in f.given <=> i <= m
      <4>1. ASSUME NEW i \in 1..Len(listed), listed[i] \in f.given PROVE i <= m
        <5>1. PICK j \in (0 + 1)..m : listed[i] = listed[j]
          BY <2>4, <4>1 DEF Span
        <5>2. j \in 1..Len(listed)
          BY <1>1
        <5> QED BY <2>3, <5>1, <5>2 DEF Distinct
      <4>2. ASSUME NEW i \in 1..Len(listed), i <= m PROVE listed[i] \in f.given
        <5>1. i \in (0 + 1)..m
          BY <4>2
        <5> QED BY <2>4, <5>1 DEF Span
      <4> QED BY <4>1, <4>2
    <3>2. m # 0 => m <= after
      <4> SUFFICES ASSUME m # 0 PROVE m <= after
        OBVIOUS
      <4>1. m \in 1..Len(listed) /\ m <= m
        BY <1>1
      <4> QED BY <1>6, <3>1, <4>1
    <3>3. after # 0 => after <= m
      <4>1. after # 0 => listed[after] \in f.given
        BY <1>1, AfterIs DEF after
      <4> QED BY <1>1, <1>6, <3>1, <4>1
    <3> QED BY <1>1, <1>6, <3>2, <3>3
  <2>6. /\ Span(listed, 0, m) \union Span(listed, m, to) = Span(listed, 0, to)
        /\ \A x \in Span(listed, m, to) : x \notin Span(listed, 0, m)
        /\ Span(listed, 0, to) \subseteq L!ToSet(listed)
        /\ to = Len(listed) => Span(listed, 0, to) = L!ToSet(listed)
    BY <1>1, <1>7, <2>3, <2>5, SpanIs
  <2>7. done.given = Span(listed, 0, to) /\ done.collected = KeysOf(Span(listed, 0, to))
    <3>1. L!ToSet(pg) = Span(listed, m, to)
      BY <1>8, <2>2, <2>5
    <3>2. \A S, T : KeysOf(S) \union KeysOf(T) = KeysOf(S \union T)
      BY DEF KeysOf
    <3> QED BY <1>4, <2>4, <2>6, <3>1, <3>2
  <2>8. again = {}
    <3> SUFFICES ASSUME NEW i \in DOMAIN pg, pg[i] \notin Nameless, L!AsKey(pg[i]) \in f.collected
                 PROVE  FALSE
      OBVIOUS
    <3>1. PICK q \in Span(listed, 0, m) : L!AsKey(pg[i]) = L!AsKey(q)
      BY <2>4 DEF KeysOf
    <3>2. q = pg[i]
      BY <3>1, KeyIs
    <3>3. pg[i] \in Span(listed, m, to)
      BY <1>8, <2>2, <2>5 DEF L!ToSet
    <3> QED BY <2>6, <3>1, <3>2, <3>3
  <2>9. CASE ~ (after + PageSize < Len(listed))
    <3>1. done.collected = KeysOf(L!ToSet(listed))
      BY <1>7, <2>6, <2>7, <2>9
    <3>2. /\ IsFetch(L!Verdict(done, Cardinality(1..n)))
          /\ Shut(L!Verdict(done, Cardinality(1..n)), was, listed, k)
      BY <1>1, <1>4, <2>2, <2>3, <3>1, KeysGrow, VerdictOfAll
    <3> HIDE DEF again
    <3>3. r = L!Verdict(done, n)
      BY <1>3, <2>8, <2>9
    <3> QED BY <1>1, <3>2, <3>3 DEF r
  <2>10. CASE after + PageSize < Len(listed)
    <3>1. to \in 1..Len(listed)
      BY <1>1, <1>6, <1>7, <2>10, PartsAssumption
    <3>2. to \in 0..Len(listed)
      BY <3>1
    <3>3. GivenAll(done, listed, n, k, to)
      BY <2>2, <2>3, <2>7, <3>2 DEF GivenAll
    <3>4. Right(done)
      BY <1>4, <1>9, <3>1, <3>3 DEF HandedOut
    <3> HIDE DEF Right, again
    <3>5. Right(r)
      <4>1. r = L!Result(done, "incomplete", "page_cap_reached") \/ r = done
        BY <1>3, <1>14, <2>8, <2>10
      <4> QED BY <1>10, <3>4, <4>1
    <3> QED BY <3>5 DEF Right, r
  <2> QED BY <2>9, <2>10
<1>15. CASE ~ hollow /\ Fresh(f)
  <2>1. c = 0
    BY <1>1, <1>15, PartsAssumption DEF Fresh, HandedOut
  <2>2. Extends(listed, n, c)
    BY <2>1 DEF Began, Extends
  <2>3. Span(listed, 0, 0) = {} /\ KeysOf({}) = {}
    BY DEF Span, KeysOf
  <2>4. GivenAll(f, listed, n, c, 0)
    <3>1. f.given = {} /\ f.collected = {}
      BY <1>15 DEF Fresh
    <3>2. 0 \in 0..Len(listed)
      BY <1>1
    <3> HIDE DEF Right, again, pg
    <3> QED BY <2>2, <2>3, <3>1, <3>2 DEF GivenAll
  <2> QED BY <1>1, <1>14, <1>15, <2>4
<1>16. HandedOut(f, listed, n, c) =>
         (c = 1 /\ CutOff(f, listed, n)) \/ \E m \in 0..Len(listed) : GivenAll(f, listed, n, c, m)
  BY <1>1 DEF HandedOut
<1> HIDE DEF Right, again, pg
<1> QED BY <1>12, <1>13, <1>14, <1>15, <1>16

----------------------------------------------------------------------------
(* Workday: a board split by a facet.                                         *)

\* Of the facets, at most one lacks a posting; of a board at the ceiling, the posting that an
\* overlapping facet has twice (Values: the fourth) was there from the start.
OneChange ==
  /\ MaxChanges \in {0, 1} /\ LackingGroups \in {0, 1}
  /\ \A n \in Posted : n >= Ceiling => n >= 4
Faceted ==
  /\ facets \in [L!Groups -> L!Kinds]
  /\ Cardinality({g \in L!Groups : facets[g] = "lacking"}) <= LackingGroups

One(g) == L!Values(facets[g])[1]
Two(g) == L!Values(facets[g])[2]

LEMMA ValuesAre ==
  ASSUME NEW kind \in L!Kinds, 4 \in Postings, 1 \in Postings
  PROVE  LET v == L!Values(kind)[1]  w == L!Values(kind)[2] IN
         /\ kind \in {"parity", "halves", "lopsided"} => v \intersect w = {} /\ v \union w = Postings
         /\ kind = "several" => v \intersect w = {4} /\ v \union w = Postings
         /\ kind = "lacking" => v \intersect w = {} /\ v \union w = Postings \ {1}
<1>1. Postings \subseteq Nat
  BY PartsAssumption
<1> DEFINE odd == L!Odd(Postings)
<1>2. odd \subseteq Postings /\ 4 \notin odd /\ 1 \in odd
  BY DEF L!Odd
<1> HIDE DEF odd
<1>3. CASE kind = "parity"
  <2>1. L!Values(kind) = <<odd, Postings \ odd>>
    BY <1>3 DEF L!Values, odd
  <2> QED BY <1>2, <1>3, <2>1
<1>4. CASE kind = "halves"
  <2>1. L!Values(kind) = <<{p \in Postings : p <= 2}, {p \in Postings : p > 2}>>
    BY <1>4 DEF L!Values
  <2>2. \A p \in Postings : p <= 2 <=> ~ (p > 2)
    BY <1>1
  <2> QED BY <1>4, <2>1, <2>2
<1>5. CASE kind = "lopsided"
  <2>1. L!Values(kind) = <<Postings, {}>>
    BY <1>5 DEF L!Values
  <2> QED BY <1>5, <2>1
<1>6. CASE kind = "several"
  <2>1. L!Values(kind) = <<odd \union {4}, Postings \ odd>>
    BY <1>6 DEF L!Values, odd
  <2> QED BY <1>2, <1>6, <2>1
<1>7. CASE kind = "lacking"
  <2>1. L!Values(kind) = <<odd \ {1}, Postings \ odd>>
    BY <1>7 DEF L!Values, odd
  <2> QED BY <1>2, <1>7, <2>1
<1> QED BY <1>3, <1>4, <1>5, <1>6, <1>7 DEF L!Kinds

\* What a facet's values come to.
LEMMA TotalIs ==
  ASSUME NEW n \in Posted, n >= 4, listed = Start(n), Faceted, NEW g \in L!Groups
  PROVE  /\ facets[g] \in L!Kinds
         /\ facets[g] \in {"parity", "halves", "lopsided"} => L!Total(g) = n
         /\ facets[g] = "several" => L!Total(g) = n + 1
         /\ facets[g] = "lacking" => L!Total(g) = n - 1
<1> DEFINE v == One(g)
           w == Two(g)
           B == 1..n
<1>1. /\ n \in Nat /\ L!ToSet(listed) = B /\ IsFiniteSet(B) /\ Cardinality(B) = n
      /\ B \subseteq Postings
  BY StartIs, PartsAssumption
<1>2. 4 \in B /\ 1 \in B
  BY <1>1
<1>3. facets[g] \in L!Kinds
  BY DEF Faceted
<1>4. L!Total(g) = Cardinality(v \intersect B) + Cardinality(w \intersect B)
  BY <1>1, CountingPostings DEF L!Total, L!Count, One, Two
<1>5. /\ facets[g] \in {"parity", "halves", "lopsided"} => v \intersect w = {} /\ v \union w = Postings
      /\ facets[g] = "several" => v \intersect w = {4} /\ v \union w = Postings
      /\ facets[g] = "lacking" => v \intersect w = {} /\ v \union w = Postings \ {1}
  <2>1. 4 \in Postings /\ 1 \in Postings
    BY <1>1, <1>2
  <2> QED BY <1>3, <2>1, ValuesAre DEF One, Two
<1> HIDE DEF v, w, B
<1> DEFINE x == v \intersect B
           y == w \intersect B
<1>6. IsFiniteSet(x) /\ IsFiniteSet(y)
  BY <1>1, FS_Subset
<1>7. Cardinality(x \union y) = Cardinality(x) + Cardinality(y) - Cardinality(x \intersect y)
  BY <1>6, FS_Union
<1>8. Cardinality(x) \in Nat /\ Cardinality(y) \in Nat
  BY <1>6, FS_CardinalityType
<1>13. L!Total(g) = Cardinality(x) + Cardinality(y)
  BY <1>4
<1> DEFINE both == Cardinality(x \intersect y)
           either == Cardinality(x \union y)
<1>14. either = Cardinality(x) + Cardinality(y) - both
  BY <1>7
<1>15. L!Total(g) = either + both
  <2>1. both \in Nat
    BY <1>6, FS_Intersection, FS_CardinalityType
  <2> HIDE DEF x, y, both, either
  <2> QED BY <1>8, <1>13, <1>14, <2>1
<1>9. Cardinality({}) = 0 /\ Cardinality({4}) = 1
  BY FS_EmptySet, FS_Singleton
<1>10. CASE facets[g] \in {"parity", "halves", "lopsided"}
  <2>1. x \intersect y = {} /\ x \union y = B
    BY <1>1, <1>5, <1>10
  <2>2. both = 0 /\ either = n
    BY <1>1, <1>9, <2>1
  <2> HIDE DEF x, y, both, either
  <2> QED BY <1>1, <1>3, <1>10, <1>15, <2>2
<1>11. CASE facets[g] = "several"
  <2>1. x \intersect y = {4} /\ x \union y = B
    BY <1>1, <1>2, <1>5, <1>11
  <2>2. both = 1 /\ either = n
    BY <1>1, <1>9, <2>1
  <2> HIDE DEF x, y, both, either
  <2> QED BY <1>1, <1>3, <1>11, <1>15, <2>2
<1>12. CASE facets[g] = "lacking"
  <2>1. x \intersect y = {} /\ x \union y = B \ {1}
    BY <1>1, <1>5, <1>12
  <2>2. Cardinality(B \ {1}) = n - 1
    <3>1. IsFiniteSet(B) /\ 1 \in B
      BY <1>1, <1>2
    <3>2. Cardinality(B \ {1}) = Cardinality(B) - 1
      BY <3>1, FS_RemoveElement
    <3> QED BY <1>1, <3>2
  <2>3. both = 0 /\ either = n - 1
    BY <1>9, <2>1, <2>2
  <2> HIDE DEF x, y, both, either
  <2> QED BY <1>1, <1>3, <1>12, <1>15, <2>3
<1> QED BY <1>3, <1>10, <1>11, <1>12 DEF L!Kinds

\* Of some facets there is one that is no worse than the others.
LEMMA BestIs ==
  ASSUME NEW S, S \subseteq L!Groups, S # {}, IsFiniteSet(L!ToSet(listed))
  PROVE  \E g \in S : \A h \in S : L!Better(g, h)
<1>1. \A V : L!Count(V) \in Nat
  <2> SUFFICES ASSUME NEW V PROVE L!Count(V) \in Nat
    OBVIOUS
  <2>1. IsFiniteSet(V \intersect L!ToSet(listed))
    BY FS_Subset
  <2> QED BY <2>1, FS_CardinalityType, CountingPostings DEF L!Count
<1>2. \A g : L!Largest(g) \in Nat
  BY <1>1 DEF L!Largest
<1>3. \A g : L!NonZero(g) \in Nat
  <2> SUFFICES ASSUME NEW g PROVE L!NonZero(g) \in Nat
    OBVIOUS
  <2> DEFINE I == {i \in {1, 2} : L!Count(L!Values(facets[g])[i]) > 0}
  <2>1. IsFiniteSet({1, 2})
    <3>1. IsFiniteSet({1}) /\ {1, 2} = {1} \union {2}
      BY FS_Singleton
    <3> QED BY <3>1, FS_AddElement
  <2>2. IsFiniteSet(I)
    BY <2>1, FS_Subset
  <2>3. Cardinality(I) \in Nat
    BY <2>2, FS_CardinalityType
  <2> QED BY <2>3, CountingPostings DEF L!NonZero
<1>4. L!Rank("family") = 1 /\ L!Rank("place") = 2 /\ L!Rank("type") = 3
  BY DEF L!Rank
<1>5. \A g, h \in L!Groups : L!Better(g, h) \/ L!Better(h, g)
  BY <1>2, <1>3, <1>4 DEF L!Better, L!Groups
<1>6. \A g, h, i \in L!Groups : L!Better(g, h) /\ L!Better(h, i) => L!Better(g, i)
  BY <1>2, <1>3, <1>4 DEF L!Better, L!Groups
<1>7. \A g \in S : g = "family" \/ g = "place" \/ g = "type"
  BY DEF L!Groups
<1>8. \A g \in S : g \in L!Groups
  OBVIOUS
<1>9. PICK one \in S : TRUE
  OBVIOUS
<1>10. PICK two \in S : /\ L!Better(two, one)
                        /\ "family" \in S => L!Better(two, "family")
  BY <1>5, <1>6, <1>8
<1>11. PICK three \in S : /\ L!Better(three, two)
                          /\ "place" \in S => L!Better(three, "place")
  BY <1>5, <1>6, <1>8
<1>12. PICK four \in S : /\ L!Better(four, three)
                         /\ "type" \in S => L!Better(four, "type")
  BY <1>5, <1>6, <1>8
<1>13. \A h \in S : L!Better(four, h)
  <2> SUFFICES ASSUME NEW h \in S PROVE L!Better(four, h)
    OBVIOUS
  <2>1. L!Better(four, two)
    BY <1>6, <1>8, <1>11, <1>12
  <2>2. CASE h = "family"
    BY <1>6, <1>8, <1>10, <2>1, <2>2
  <2>3. CASE h = "place"
    BY <1>6, <1>8, <1>11, <1>12, <2>3
  <2>4. CASE h = "type"
    BY <1>12, <2>4
  <2> QED BY <1>7, <2>2, <2>3, <2>4
<1> QED BY <1>13

\* The facet that is chosen has what the board has, each in one value, or one more than that.
LEMMA PartitionIs ==
  ASSUME NEW n \in Posted, n >= 4, listed = Start(n), Faceted, OneChange,
         NEW part, part = L!ChoosePartition, part # None
  PROVE  LET v == L!Values(facets[part.group])[1]  w == L!Values(facets[part.group])[2] IN
         /\ part.total \in {n, n + 1}
         /\ part.total = n => v \intersect w = {} /\ 1..n \subseteq v \union w
         /\ Cardinality(v \intersect (1..n)) < Ceiling /\ Cardinality(w \intersect (1..n)) < Ceiling
<1> DEFINE m == CHOOSE m \in L!Agreed : TRUE
           g == CHOOSE g \in L!Listable(m) : \A h \in L!Listable(m) : L!Better(g, h)
<1>1. L!ChoosePartition = IF L!Cardinality(L!Agreed) # 1 THEN None
                          ELSE IF L!Listable(m) = {} THEN None ELSE [group |-> g, total |-> m]
  BY DEF L!ChoosePartition
<1>2. Cardinality(L!Agreed) = 1 /\ L!Listable(m) # {} /\ part = [group |-> g, total |-> m]
  <2>1. L!Cardinality(L!Agreed) = Cardinality(L!Agreed)
    BY CountingPostings
  <2> HIDE DEF m, g
  <2> QED BY <1>1, <2>1
<1>3. n \in Nat /\ L!ToSet(listed) = 1..n
  BY StartIs
<1> HIDE DEF m
<1>4. m \in L!Agreed
  <2>1. L!Agreed # {}
    BY <1>2, FS_EmptySet
  <2> QED BY <2>1 DEF m
<1>5. Cardinality({h \in L!Groups : L!Total(h) = m}) >= 2
  <2>1. L!Cardinality({h \in L!Groups : L!Total(h) = m}) >= 2
    BY <1>4 DEF L!Agreed
  <2> QED BY <2>1, CountingPostings
<1>6. \A h \in L!Listable(m) : h \in L!Groups /\ L!Total(h) = m /\ L!Largest(h) < Ceiling
  BY DEF L!Listable
<1> HIDE DEF g
<1>7. g \in L!Listable(m)
  <2>1. L!Listable(m) \subseteq L!Groups
    BY <1>6
  <2>2. IsFiniteSet(L!ToSet(listed))
    BY <1>3, StartIs
  <2>3. \E h \in L!Listable(m) : \A i \in L!Listable(m) : L!Better(h, i)
    BY <1>2, <2>1, <2>2, BestIs
  <2> QED BY <2>3 DEF g
<1>8. g \in L!Groups /\ L!Total(g) = m /\ L!Largest(g) < Ceiling
  BY <1>6, <1>7
<1> HIDE DEF g
<1>9. \A h \in L!Groups : /\ facets[h] \in L!Kinds
                          /\ facets[h] \in {"parity", "halves", "lopsided"} => L!Total(h) = n
                          /\ facets[h] = "several" => L!Total(h) = n + 1
                          /\ facets[h] = "lacking" => L!Total(h) = n - 1
  BY TotalIs
<1>10. m # n - 1
  <2> SUFFICES ASSUME m = n - 1 PROVE FALSE
    OBVIOUS
  <2> DEFINE those == {h \in L!Groups : L!Total(h) = m}
             lacking == {h \in L!Groups : facets[h] = "lacking"}
  <2>1. those \subseteq lacking
    BY <1>3, <1>9 DEF L!Kinds
  <2>2. IsFiniteSet(L!Groups)
    <3>1. L!Groups = ({"family"} \union {"type"}) \union {"place"} /\ IsFiniteSet({"family"})
      BY FS_Singleton DEF L!Groups
    <3> QED BY <3>1, FS_AddElement
  <2>3. IsFiniteSet(lacking)
    BY <2>2, FS_Subset
  <2>4. Cardinality(those) <= Cardinality(lacking) /\ IsFiniteSet(those)
    BY <2>1, <2>3, FS_Subset
  <2>5. Cardinality(lacking) <= LackingGroups
    BY DEF Faceted
  <2>6. Cardinality(those) >= 2
    BY <1>5
  <2>7. Cardinality(those) \in Nat /\ Cardinality(lacking) \in Nat
    BY <2>3, <2>4, FS_CardinalityType
  <2> HIDE DEF those, lacking
  <2> QED BY <2>4, <2>5, <2>6, <2>7 DEF OneChange
<1>11. m \in {n, n + 1}
  BY <1>8, <1>9, <1>10 DEF L!Kinds
<1> DEFINE v == L!Values(facets[g])[1]
           w == L!Values(facets[g])[2]
<1>12. 1..n \subseteq Postings /\ 1 \in 1..n /\ 4 \in 1..n
  BY <1>3, PartsAssumption
<1>13. m = n => v \intersect w = {} /\ 1..n \subseteq v \union w
  <2> SUFFICES ASSUME m = n PROVE v \intersect w = {} /\ 1..n \subseteq v \union w
    OBVIOUS
  <2>1. facets[g] \in {"parity", "halves", "lopsided"}
    BY <1>3, <1>8, <1>9 DEF L!Kinds
  <2>2. facets[g] \in L!Kinds
    BY <1>8, <1>9
  <2>3. v \intersect w = {} /\ v \union w = Postings
    BY <1>12, <2>1, <2>2, ValuesAre
  <2> QED BY <1>12, <2>3
<1>14. Cardinality(v \intersect (1..n)) < Ceiling /\ Cardinality(w \intersect (1..n)) < Ceiling
  <2> DEFINE one == L!Count(v)
             two == L!Count(w)
  <2>1. one = Cardinality(v \intersect (1..n)) /\ two = Cardinality(w \intersect (1..n))
    BY <1>3, CountingPostings DEF L!Count
  <2>2. IsFiniteSet(v \intersect (1..n)) /\ IsFiniteSet(w \intersect (1..n))
    BY StartIs, FS_Subset
  <2>3. one \in Nat /\ two \in Nat
    BY <2>1, <2>2, FS_CardinalityType
  <2>4. L!Largest(g) = IF one > two THEN one ELSE two
    BY DEF L!Largest
  <2> HIDE DEF one, two
  <2>5. one < Ceiling /\ two < Ceiling
    BY <1>8, <2>3, <2>4, PartsAssumption
  <2> QED BY <2>1, <2>5
<1>15. part.group = g /\ part.total = m
  BY <1>2
<1> HIDE DEF v, w
<1> QED BY <1>11, <1>13, <1>14, <1>15 DEF v, w

----------------------------------------------------------------------------
(* Workday: one listing after another.                                        *)

\* What is still to be listed after this: one slice, or none.
Later(f, V) == (f.slices = <<>> /\ V = {}) \/ f.slices = <<V>>

\* A check that can only collect what is in a set that was the board, and expects no fewer.
Within(f, b, B) ==
  /\ B \in was /\ IsFiniteSet(B) /\ f.expected \in Nat /\ Cardinality(B) <= f.expected
  /\ f.collected \subseteq KeysOf(B)
  /\ \E V : Later(f, V) /\ V \intersect L!ToSet(b) \subseteq B
Inside(f, b, B) ==
  Within(f, b, B) /\ f.slice \intersect L!ToSet(b) \subseteq B /\ f.offset \in Nat
\* A check that has collected a posting without a name.
Spoilt(f) == f.expected \in Nat /\ Untracked(f.collected) /\ \E V : Later(f, V)

\* The next listing of a check.
Opened(f, V) ==
  [f EXCEPT !.at = "first", !.slice = V, !.slices = <<>>,
            !.seen = {}, !.offset = 0, !.pages = 0, !.total = None]

LEMMA NextIs ==
  ASSUME NEW f, IsFetch(f), NEW V, Later(f, V)
  PROVE  /\ f.slices = <<>> => L!NextSlice(f) = L!Verdict(f, f.expected)
         /\ f.slices # <<>> => f.slices = <<V>> /\ L!NextSlice(f) = Opened(f, V)
<1>1. Head(<<V>>) = V /\ Tail(<<V>>) = <<>> /\ <<V>> # <<>>
  OBVIOUS
<1>2. f.slices # <<>> => f.slices = <<V>>
  BY DEF Later
<1>3. CASE f.slices = <<>>
  BY <1>3 DEF L!NextSlice
<1>4. CASE f.slices # <<>>
  <2>1. L!NextSlice(f) = [f EXCEPT !.at = "first", !.slice = Head(f.slices), !.slices = Tail(f.slices),
                                   !.seen = {}, !.offset = 0, !.pages = 0, !.total = None]
    BY <1>4 DEF L!NextSlice
  <2>2. Head(f.slices) = V /\ Tail(f.slices) = <<>>
    BY <1>1, <1>2, <1>4
  <2>3. L!NextSlice(f) = Opened(f, V)
    BY <2>1, <2>2 DEF Opened
  <2> QED BY <1>2, <1>4, <2>3
<1> QED BY <1>3, <1>4

LEMMA OpenedIs ==
  ASSUME NEW f, IsFetch(f), NEW V
  PROVE  LET r == Opened(f, V) IN
         /\ IsFetch(r) /\ r.at = "first" /\ r.slice = V /\ r.slices = <<>> /\ r.seen = {}
         /\ r.offset = 0 /\ r.expected = f.expected /\ r.collected = f.collected
         /\ r.status = f.status /\ r.code = f.code
BY DEF Opened, IsFetch, FetchFields

LEMMA NextInside ==
  ASSUME NEW f, IsFetch(f), f.status = None, f.code = None, NEW b, NEW B, Within(f, b, B),
         NEW k, platform = "workday", k # 0 \/ ~ (Len(b) < Ceiling)
  PROVE  LET r == L!NextSlice(f) IN
         IsFetch(r) /\ (Shut(r, was, b, k) \/ (Going(r) /\ Inside(r, b, B) /\ r.expected = f.expected))
<1>1. PICK V : Later(f, V) /\ V \intersect L!ToSet(b) \subseteq B
  BY DEF Within
<1>2. CASE f.slices = <<>>
  <2>1. L!NextSlice(f) = L!Verdict(f, f.expected)
    BY <1>1, <1>2, NextIs
  <2>2. /\ B \in was /\ IsFiniteSet(B) /\ f.expected \in Nat /\ Cardinality(B) <= f.expected
        /\ f.collected \subseteq KeysOf(B)
    BY DEF Within
  <2>3. k # 0 \/ (platform = "workday" /\ ~ (Len(b) < Ceiling))
    OBVIOUS
  <2>4. IsFetch(L!Verdict(f, f.expected)) /\ Shut(L!Verdict(f, f.expected), was, b, k)
    BY <2>2, <2>3, VerdictInside
  <2> QED BY <2>1, <2>4
<1>3. CASE f.slices # <<>>
  <2> DEFINE r == Opened(f, V)
  <2>1. L!NextSlice(f) = r
    BY <1>1, <1>3, NextIs
  <2>2. /\ IsFetch(r) /\ r.at = "first" /\ r.slice = V /\ r.slices = <<>> /\ r.offset = 0
        /\ r.expected = f.expected /\ r.collected = f.collected
        /\ r.status = f.status /\ r.code = f.code
    BY OpenedIs
  <2> HIDE DEF r
  <2>3. Later(r, {}) /\ {} \intersect L!ToSet(b) \subseteq B /\ r.slice \intersect L!ToSet(b) \subseteq B
    BY <1>1, <2>2 DEF Later
  <2>4. Within(r, b, B)
    BY <2>2, <2>3 DEF Within
  <2>5. Inside(r, b, B)
    BY <2>2, <2>3, <2>4 DEF Inside
  <2> QED BY <2>1, <2>2, <2>5 DEF Going
<1> QED BY <1>2, <1>3

LEMMA NextSpoilt ==
  ASSUME NEW f, IsFetch(f), f.status = None, f.code = None, Spoilt(f), NEW b, NEW k
  PROVE  LET r == L!NextSlice(f) IN IsFetch(r) /\ (Shut(r, was, b, k) \/ (Going(r) /\ Spoilt(r)))
<1>3. PICK V : Later(f, V)
  BY DEF Spoilt
<1>1. CASE f.slices = <<>>
  <2>1. L!NextSlice(f) = L!Verdict(f, f.expected)
    BY <1>1, <1>3, NextIs
  <2> QED BY <2>1, VerdictShuts DEF Spoilt
<1>2. CASE f.slices # <<>>
  <2> DEFINE r == Opened(f, V)
  <2>1. L!NextSlice(f) = r
    BY <1>2, <1>3, NextIs
  <2>2. /\ IsFetch(r) /\ r.at = "first" /\ r.expected = f.expected /\ r.collected = f.collected
        /\ r.status = f.status /\ r.code = f.code /\ r.slices = <<>>
    BY OpenedIs
  <2> HIDE DEF r
  <2>3. Later(r, {})
    BY <2>2 DEF Later
  <2> QED BY <2>1, <2>2, <2>3 DEF Going, Spoilt
<1> QED BY <1>1, <1>2

\* What a page of a listing comes to.
Paging(f, pg) == [L!Absorb(f, pg) EXCEPT !.offset = @ + PageSize, !.at = "page", !.pages = @ + 1]
Ends(f, pg, isFirst) == Len(pg) < PageSize \/ (~isFirst /\ L!Wrapped(f, pg))
Filled(f) == f.total < Ceiling /\ f.offset + PageSize >= f.total

LEMMA ListingIs ==
  ASSUME NEW f, IsFetch(f), NEW pg, NEW isFirst
  PROVE  LET r == L!Listing(f, pg, isFirst)  done == L!Absorb(f, pg)  next == Paging(f, pg) IN
         /\ r = IF Ends(f, pg, isFirst) \/ Filled(f) THEN L!NextSlice(done)
                ELSE IF next.pages >= MaxPages THEN L!Result(done, "incomplete", "page_cap_reached")
                ELSE next
         /\ IsFetch(next) /\ next.at = "page" /\ next.offset = f.offset + PageSize
         /\ next.collected = done.collected /\ next.seen = done.seen /\ next.total = f.total
         /\ next.slice = f.slice /\ next.slices = f.slices /\ next.expected = f.expected
         /\ next.status = f.status /\ next.code = f.code
<1> DEFINE done == L!Absorb(f, pg)
           next == Paging(f, pg)
<1>1. /\ IsFetch(done) /\ done.offset = f.offset /\ done.status = f.status /\ done.code = f.code
      /\ done.total = f.total /\ done.expected = f.expected /\ done.slices = f.slices
      /\ done.slice = f.slice
  BY AbsorbIs
<1>2. next = [done EXCEPT !.offset = @ + PageSize, !.at = "page", !.pages = @ + 1]
  BY DEF Paging
<1> HIDE DEF done, next
<1>3. /\ IsFetch(next) /\ next.at = "page" /\ next.offset = f.offset + PageSize
      /\ next.collected = done.collected /\ next.seen = done.seen /\ next.total = f.total
      /\ next.slice = f.slice /\ next.slices = f.slices /\ next.expected = f.expected
      /\ next.status = f.status /\ next.code = f.code
  BY <1>1, <1>2 DEF IsFetch, FetchFields
<1>4. L!Listing(f, pg, isFirst) =
        IF Ends(f, pg, isFirst) \/ (f.total < Ceiling /\ next.offset >= f.total) THEN L!NextSlice(done)
        ELSE IF next.pages >= MaxPages THEN L!Result(done, "incomplete", "page_cap_reached")
        ELSE next
  BY <1>2 DEF L!Listing, Ends, done
<1> QED BY <1>3, <1>4 DEF done, next, Filled

LEMMA ListingInside ==
  ASSUME NEW f, IsFetch(f), f.status = None, f.code = None, NEW b, NEW B, Inside(f, b, B),
         NEW k, platform = "workday", k # 0 \/ ~ (Len(b) < Ceiling),
         NEW pg, L!ToSet(pg) \subseteq B, NEW isFirst
  PROVE  LET r == L!Listing(f, pg, isFirst) IN
         IsFetch(r) /\ (Shut(r, was, b, k) \/ (Going(r) /\ Inside(r, b, B) /\ r.expected = f.expected))
<1> DEFINE done == L!Absorb(f, pg)
           next == Paging(f, pg)
           r == L!Listing(f, pg, isFirst)
           Right(x) == IsFetch(x) /\ (Shut(x, was, b, k) \/ (Going(x) /\ Inside(x, b, B)
                                                            /\ x.expected = f.expected))
<1>1. /\ r = IF Ends(f, pg, isFirst) \/ Filled(f) THEN L!NextSlice(done)
             ELSE IF next.pages >= MaxPages THEN L!Result(done, "incomplete", "page_cap_reached")
             ELSE next
      /\ IsFetch(next) /\ next.at = "page" /\ next.collected = done.collected
      /\ next.offset = f.offset + PageSize
      /\ next.slice = f.slice /\ next.slices = f.slices /\ next.expected = f.expected
      /\ next.status = f.status /\ next.code = f.code
  BY ListingIs
<1>2. /\ IsFetch(done) /\ done.collected = f.collected \union KeysOf(L!ToSet(pg))
      /\ done.status = f.status /\ done.code = f.code /\ done.expected = f.expected
      /\ done.slices = f.slices /\ done.slice = f.slice
  BY AbsorbIs
<1> HIDE DEF r, done, next
<1>3. done.collected \subseteq KeysOf(B)
  BY <1>2, KeysGrow DEF Inside, Within
<1>4. Within(done, b, B) /\ Inside(next, b, B)
  <2>1. Within(done, b, B)
    BY <1>2, <1>3 DEF Inside, Within, Later
  <2>2. Within(next, b, B)
    BY <1>1, <1>2, <1>3 DEF Inside, Within, Later
  <2>3. next.offset \in Nat
    BY <1>1, PartsAssumption DEF Inside
  <2> QED BY <1>1, <2>1, <2>2, <2>3 DEF Inside
<1>5. Right(L!NextSlice(done))
  BY <1>2, <1>4, NextInside
<1>6. Right(L!Result(done, "incomplete", "page_cap_reached"))
  BY <1>2, GivenUp
<1>7. Right(next)
  BY <1>1, <1>4 DEF Going
<1> HIDE DEF Right
<1>8. Right(r)
  BY <1>1, <1>5, <1>6, <1>7
<1> QED BY <1>8 DEF Right, r

LEMMA ListingSpoilt ==
  ASSUME NEW f, IsFetch(f), f.status = None, f.code = None,
         NEW b, NEW k, NEW pg, NEW isFirst, Spoilt(L!Absorb(f, pg))
  PROVE  LET r == L!Listing(f, pg, isFirst) IN
         IsFetch(r) /\ (Shut(r, was, b, k) \/ (Going(r) /\ Spoilt(r)))
<1> DEFINE done == L!Absorb(f, pg)
           next == Paging(f, pg)
           r == L!Listing(f, pg, isFirst)
           Right(x) == IsFetch(x) /\ (Shut(x, was, b, k) \/ (Going(x) /\ Spoilt(x)))
<1>1. /\ r = IF Ends(f, pg, isFirst) \/ Filled(f) THEN L!NextSlice(done)
             ELSE IF next.pages >= MaxPages THEN L!Result(done, "incomplete", "page_cap_reached")
             ELSE next
      /\ IsFetch(next) /\ next.at = "page" /\ next.collected = done.collected
      /\ next.expected = f.expected /\ next.status = f.status /\ next.code = f.code
      /\ next.slices = f.slices
  BY ListingIs
<1>2. /\ IsFetch(done) /\ done.status = f.status /\ done.code = f.code /\ done.expected = f.expected
      /\ done.slices = f.slices
  BY AbsorbIs
<1>3. Spoilt(done)
  OBVIOUS
<1> HIDE DEF r, done, next
<1>4. Spoilt(next)
  BY <1>1, <1>2, <1>3 DEF Spoilt, Later
<1>5. Right(L!NextSlice(done))
  BY <1>2, <1>3, NextSpoilt
<1>6. Right(L!Result(done, "incomplete", "page_cap_reached"))
  BY <1>2, GivenUp
<1>7. Right(next)
  BY <1>1, <1>4 DEF Going
<1> HIDE DEF Right
<1>8. Right(r)
  BY <1>1, <1>5, <1>6, <1>7
<1> QED BY <1>8 DEF Right, r

\* A page of a slice of the board.
LEMMA WorkdayPageIs ==
  ASSUME NEW S, NEW o \in Nat, listed \in Seq(Postings),
         NEW s, s = Among(listed, S), NEW from, from = IF o >= Len(s) THEN 0 ELSE o,
         NEW to, to = L!Least(Len(s), from + PageSize)
  PROVE  /\ s \in Seq(Postings)
         /\ L!WorkdayPage(S, o) \in Seq(Postings)
         /\ L!ToSet(L!WorkdayPage(S, o)) \subseteq L!ToSet(listed) \intersect S
         /\ Len(s) <= Ceiling => L!WorkdayPage(S, o) = SubSeq(s, from + 1, to)
<1>1. s \in Seq(Postings) /\ L!ToSet(s) = L!ToSet(listed) \intersect S /\ Len(s) \in Nat
  <2>1. Among(listed, S) \in Seq(Postings) /\ L!ToSet(Among(listed, S)) = L!ToSet(listed) \intersect S
    BY AmongSet
  <2>2. s \in Seq(Postings) /\ L!ToSet(s) = L!ToSet(listed) \intersect S
    BY <2>1
  <2>3. Len(s) \in Nat
    BY <2>2, LenProperties
  <2> QED BY <2>2, <2>3
<1> DEFINE m == L!Least(Len(s), Ceiling)
           top == SubSeq(s, 1, m)
           start == IF o >= Len(top) THEN 0 ELSE o
           stop == L!Least(Len(top), start + PageSize)
           pg == SubSeq(top, start + 1, stop)
<1>2. L!WorkdayPage(S, o) = pg
  BY ListedIs DEF L!WorkdayPage
<1>3. Ceiling \in Nat /\ PageSize \in Nat
  BY PartsAssumption
<1>4. m \in Nat /\ m <= Len(s) /\ (Len(s) <= Ceiling => m = Len(s))
  BY <1>1, <1>3, LeastIs DEF L!Least
<1> HIDE DEF m
<1>5. top \in Seq(Postings) /\ L!ToSet(top) = Span(s, 0, m) /\ Len(top) = m
      /\ \A i \in 1..Len(top) : top[i] = s[i]
  <2>1. 0 \in Nat /\ 0 + 1 = 1
    OBVIOUS
  <2>2. LET u == SubSeq(s, 0 + 1, m) IN
        /\ u \in Seq(Postings)
        /\ Len(u) = IF 0 < m THEN m - 0 ELSE 0
        /\ L!ToSet(u) = Span(s, 0, m)
        /\ \A i \in 1..Len(u) : u[i] = s[0 + i]
    <3>1. \A a, z \in Nat :
            z <= Len(s) => LET u == SubSeq(s, a + 1, z) IN
                           /\ u \in Seq(Postings)
                           /\ Len(u) = IF a < z THEN z - a ELSE 0
                           /\ L!ToSet(u) = Span(s, a, z)
                           /\ \A i \in 1..Len(u) : u[i] = s[a + i]
      <4> HIDE DEF top, start, stop, pg
      <4> SUFFICES ASSUME NEW a \in Nat, NEW z \in Nat, z <= Len(s)
                   PROVE  LET u == SubSeq(s, a + 1, z) IN
                          /\ u \in Seq(Postings)
                          /\ Len(u) = IF a < z THEN z - a ELSE 0
                          /\ L!ToSet(u) = Span(s, a, z)
                          /\ \A i \in 1..Len(u) : u[i] = s[a + i]
        OBVIOUS
      <4>1. s \in Seq(Postings)
        BY <1>1
      <4> QED BY ONLY <4>1, a \in Nat, z \in Nat, z <= Len(s), PartIs
    <3> QED BY <1>4, <2>1, <3>1
  <2>3. SubSeq(s, 0 + 1, m) = top
    BY <2>1
  <2> HIDE DEF top
  <2>4. \A i \in 1..Len(top) : 0 + i = i
    OBVIOUS
  <2>5. Len(top) = m
    BY <1>4, <2>2, <2>3
  <2> QED BY <2>2, <2>3, <2>4, <2>5
<1>6. Len(s) <= Ceiling => top = s
  <2> SUFFICES ASSUME Len(s) <= Ceiling PROVE top = s
    OBVIOUS
  <2>1. Len(top) = Len(s)
    BY <1>4, <1>5
  <2> HIDE DEF top
  <2> QED BY <1>1, <1>5, <2>1, SeqEqual
<1>7. Len(s) <= Ceiling => pg = SubSeq(s, from + 1, to)
  <2> HIDE DEF top
  <2> QED BY <1>6
<1> HIDE DEF top
<1>8. start \in Nat /\ stop \in Nat /\ stop <= Len(top)
  <2>1. start \in Nat /\ Len(top) \in Nat
    BY <1>4, <1>5
  <2>2. start + PageSize \in Nat
    BY <1>3, <2>1
  <2> HIDE DEF start
  <2> QED BY <2>1, <2>2, LeastIs
<1> HIDE DEF start, stop
<1>9. pg \in Seq(Postings) /\ L!ToSet(pg) = Span(top, start, stop)
  BY <1>5, <1>8, PartIs
<1>10. Span(top, start, stop) \subseteq L!ToSet(s)
  <2>1. \A i \in (start + 1)..stop : i \in 1..Len(top)
    BY <1>5, <1>8, <1>4
  <2>2. \A i \in 1..Len(top) : i \in DOMAIN s
    BY <1>1, <1>4, <1>5
  <2>3. \A i \in (start + 1)..stop : top[i] \in L!ToSet(s)
    BY <1>5, <2>1, <2>2 DEF L!ToSet
  <2> QED BY <2>3 DEF Span
<1> QED BY <1>1, <1>2, <1>7, <1>9, <1>10

\* A board as it was, or with one more.
Grown(b, n, c) ==
  (c = 0 /\ b = Start(n)) \/ (c = 1 /\ \E p \in Postings : Ahead(b, n, p) \/ Behind(b, n, p))
Short(S, n) == Cardinality(S \intersect (1..n)) < Ceiling

LEMMA GrownIn ==
  ASSUME NEW n \in Posted, NEW b, NEW c, Grown(b, n, c)
  PROVE  /\ n \in Nat /\ b \in Seq(Postings) /\ Distinct(b) /\ IsFiniteSet(L!ToSet(b))
         /\ 1..n \subseteq L!ToSet(b) /\ IsFiniteSet(1..n) /\ Cardinality(1..n) = n
         /\ c = 0 => L!ToSet(b) = 1..n
         /\ \A S : Short(S, n) => /\ Len(Among(b, S)) \in Nat /\ Len(Among(b, S)) <= Ceiling
                                  /\ c = 0 => Len(Among(b, S)) < Ceiling
<1>1. n \in Nat /\ IsFiniteSet(1..n) /\ Cardinality(1..n) = n
  BY StartIs
<1>2. Ceiling \in Nat
  BY PartsAssumption
<1>3. \A S : IsFiniteSet(S \intersect (1..n)) /\ Cardinality(S \intersect (1..n)) \in Nat
  BY <1>1, FS_Subset, FS_CardinalityType
<1>4. CASE c = 0 /\ b = Start(n)
  <2>1. b \in Seq(Postings) /\ Distinct(b) /\ L!ToSet(b) = 1..n
    BY <1>4, StartIs
  <2>2. \A S : Len(Among(b, S)) = Cardinality(S \intersect (1..n))
    BY <2>1, AmongSet
  <2> QED BY <1>1, <1>2, <1>3, <1>4, <2>1, <2>2 DEF Short
<1>5. CASE c = 1 /\ \E p \in Postings : Ahead(b, n, p) \/ Behind(b, n, p)
  <2>1. PICK p \in Postings : Ahead(b, n, p) \/ Behind(b, n, p)
    BY <1>5
  <2>2. /\ p \notin 1..n /\ b \in Seq(Postings) /\ Distinct(b) /\ L!ToSet(b) = (1..n) \union {p}
        /\ IsFiniteSet((1..n) \union {p})
    BY <2>1, GrownIs
  <2>3. ASSUME NEW S, Short(S, n) PROVE Len(Among(b, S)) \in Nat /\ Len(Among(b, S)) <= Ceiling
    <3> DEFINE U == S \intersect (1..n)
               V == S \intersect L!ToSet(b)
    <3>1. Len(Among(b, S)) = Cardinality(V)
      BY <2>2, AmongSet
    <3>2. IsFiniteSet(U) /\ Cardinality(U) \in Nat /\ Cardinality(U) < Ceiling
      BY <1>3, <2>3 DEF Short
    <3>3. V = U \/ (V = U \union {p} /\ p \notin U)
      BY <2>2
    <3> HIDE DEF U, V
    <3>4. Cardinality(V) = Cardinality(U) \/ Cardinality(V) = Cardinality(U) + 1
      BY <3>2, <3>3, FS_AddElement
    <3> QED BY <1>2, <3>1, <3>2, <3>4
  <2> QED BY <1>1, <1>5, <2>2, <2>3
<1> QED BY <1>4, <1>5 DEF Grown

\* What is left to list has what is not yet collected, once.
Parted(f, n) ==
  \E V : /\ Later(f, V) /\ V \intersect f.slice = {} /\ Short(f.slice, n) /\ Short(V, n)
         /\ \A x \in 1..n : L!AsKey(x) \in f.collected \/ x \in f.slice \/ x \in V
\* What was passed of a listing is collected, and the rest of it is before its total.
Mid(f, b, n) ==
  LET s == Among(b, f.slice) IN
  /\ f.offset \in Nat /\ f.total \in Nat /\ f.total <= Ceiling
  /\ \A i \in 1..Len(s) : /\ i <= f.offset => L!AsKey(s[i]) \in f.collected
                          /\ i > f.total => s[i] \notin 1..n
  /\ \A k \in f.seen : \E i \in 1..Len(s) : i <= f.offset /\ k = L!AsKey(s[i])
Covers(f, b, n, c) ==
  /\ Grown(b, n, c) /\ f.expected = n /\ f.collected \subseteq KeysOf(L!ToSet(b)) /\ Parted(f, n)
  /\ \/ f.at = "first" /\ f.offset = 0 /\ f.seen = {}
     \/ /\ f.at = "page" /\ f.offset > 0 /\ Mid(f, b, n)
        /\ f.offset < f.total \/ f.total = Ceiling
        /\ c = 0 => f.total = Len(Among(b, f.slice))

LEMMA NextCovers ==
  ASSUME NEW n \in Posted, 1..n \in was, NEW f, IsFetch(f), f.status = None, f.code = None, NEW b, NEW c,
         Grown(b, n, c), f.expected = n, f.collected \subseteq KeysOf(L!ToSet(b)), Parted(f, n),
         \A x \in 1..n : x \in f.slice => L!AsKey(x) \in f.collected
  PROVE  LET r == L!NextSlice(f) IN
         IsFetch(r) /\ (Shut(r, was, b, c) \/ (Going(r) /\ Covers(r, b, n, c)))
<1>1. PICK V : /\ Later(f, V) /\ V \intersect f.slice = {} /\ Short(f.slice, n) /\ Short(V, n)
               /\ \A x \in 1..n : L!AsKey(x) \in f.collected \/ x \in f.slice \/ x \in V
  BY DEF Parted
<1>2. /\ n \in Nat /\ IsFiniteSet(L!ToSet(b)) /\ 1..n \subseteq L!ToSet(b)
      /\ IsFiniteSet(1..n) /\ Cardinality(1..n) = n /\ (c = 0 => L!ToSet(b) = 1..n)
  BY GrownIn
<1>3. CASE f.slices = <<>>
  <2>1. V = {}
    BY <1>1, <1>3 DEF Later
  <2>2. KeysOf(1..n) \subseteq f.collected
    BY <1>1, <2>1 DEF KeysOf
  <2>3. L!NextSlice(f) = L!Verdict(f, Cardinality(1..n))
    BY <1>1, <1>2, <1>3, NextIs
  <2>4. /\ IsFetch(L!Verdict(f, Cardinality(1..n)))
        /\ Shut(L!Verdict(f, Cardinality(1..n)), was, b, c)
    BY <1>2, <2>2, VerdictOfAll
  <2> QED BY <2>3, <2>4
<1>4. CASE f.slices # <<>>
  <2> DEFINE r == Opened(f, V)
  <2>1. L!NextSlice(f) = r
    BY <1>1, <1>4, NextIs
  <2>2. /\ IsFetch(r) /\ r.at = "first" /\ r.slice = V /\ r.slices = <<>> /\ r.seen = {}
        /\ r.offset = 0 /\ r.expected = f.expected /\ r.collected = f.collected
        /\ r.status = f.status /\ r.code = f.code
    BY OpenedIs
  <2> HIDE DEF r
  <2>3. Short({}, n)
    <3>1. {} \intersect (1..n) = {} /\ Cardinality({}) = 0
      BY FS_EmptySet
    <3> QED BY <3>1, PartsAssumption DEF Short
  <2>4. Parted(r, n)
    <3>1. Later(r, {}) /\ {} \intersect r.slice = {} /\ Short(r.slice, n)
      BY <1>1, <2>2 DEF Later
    <3>2. \A x \in 1..n : L!AsKey(x) \in r.collected \/ x \in r.slice
      BY <1>1, <2>2
    <3> QED BY <2>3, <3>1, <3>2 DEF Parted
  <2>5. Covers(r, b, n, c)
    BY <2>2, <2>4 DEF Covers
  <2> QED BY <2>1, <2>2, <2>5 DEF Going
<1> QED BY <1>3, <1>4

LEMMA ListingCovers ==
  ASSUME NEW n \in Posted, NEW c, Began(n, c), platform = "workday",
         NEW f, IsFetch(f), f.status = None, f.code = None,
         Grown(listed, n, c), f.expected = n, f.collected \subseteq KeysOf(L!ToSet(listed)), Parted(f, n),
         Mid(f, listed, n), c = 0 => f.total = Len(Among(listed, f.slice)),
         NEW isFirst \in BOOLEAN,
         isFirst => f.offset = 0,
         ~ isFirst => f.offset < f.total \/ f.total = Ceiling,
         NEW pg, pg = L!WorkdayPage(f.slice, f.offset)
  PROVE  LET r == L!Listing(f, pg, isFirst) IN
         /\ IsFetch(r)
         /\ Shut(r, was, listed, c) \/ (Going(r) /\ (Spoilt(r) \/ Covers(r, listed, n, c)))
<1> DEFINE done == L!Absorb(f, pg)
           next == Paging(f, pg)
           r == L!Listing(f, pg, isFirst)
           Right(x) == /\ IsFetch(x)
                       /\ Shut(x, was, listed, c) \/ (Going(x) /\ (Spoilt(x) \/ Covers(x, listed, n, c)))
           s == Among(listed, f.slice)
           off == f.offset
           from == IF off >= Len(s) THEN 0 ELSE off
           to == L!Least(Len(s), from + PageSize)
<1>1. /\ r = IF Ends(f, pg, isFirst) \/ Filled(f) THEN L!NextSlice(done)
             ELSE IF next.pages >= MaxPages THEN L!Result(done, "incomplete", "page_cap_reached")
             ELSE next
      /\ IsFetch(next) /\ next.at = "page" /\ next.offset = f.offset + PageSize
      /\ next.collected = done.collected /\ next.seen = done.seen /\ next.total = f.total
      /\ next.slice = f.slice /\ next.slices = f.slices /\ next.expected = f.expected
      /\ next.status = f.status /\ next.code = f.code
  BY ListingIs
<1>2. /\ IsFetch(done) /\ done.collected = f.collected \union KeysOf(L!ToSet(pg))
      /\ done.seen = f.seen \union KeysOf(L!ToSet(pg))
      /\ done.status = f.status /\ done.code = f.code /\ done.expected = f.expected
      /\ done.slices = f.slices /\ done.slice = f.slice
  BY AbsorbIs
<1> HIDE DEF r, done, next
<1>3. PICK V : /\ Later(f, V) /\ V \intersect f.slice = {} /\ Short(f.slice, n) /\ Short(V, n)
               /\ \A x \in 1..n : L!AsKey(x) \in f.collected \/ x \in f.slice \/ x \in V
  BY DEF Parted
<1>4. /\ n \in Nat /\ 1..n \in was /\ listed \in Seq(Postings) /\ Distinct(listed)
      /\ 1..n \subseteq L!ToSet(listed)
      /\ Len(s) \in Nat /\ Len(s) <= Ceiling
  BY <1>3, GrownIn DEF Began
<1>5. /\ off \in Nat /\ f.total \in Nat /\ f.total <= Ceiling
      /\ \A i \in 1..Len(s) : /\ i <= off => L!AsKey(s[i]) \in f.collected
                              /\ i > f.total => s[i] \notin 1..n
      /\ \A k \in f.seen : \E i \in 1..Len(s) : i <= off /\ k = L!AsKey(s[i])
  BY DEF Mid
<1>6. PageSize \in Nat /\ PageSize > 0 /\ Ceiling \in Nat
  BY PartsAssumption
<1>7. /\ s \in Seq(Postings) /\ pg \in Seq(Postings)
      /\ L!ToSet(pg) \subseteq L!ToSet(listed) \intersect f.slice
      /\ pg = SubSeq(s, from + 1, to)
  <2>1. \A F, T : F = (IF off >= Len(s) THEN 0 ELSE off) /\ T = L!Least(Len(s), F + PageSize) =>
          /\ s \in Seq(Postings) /\ pg \in Seq(Postings)
          /\ L!ToSet(pg) \subseteq L!ToSet(listed) \intersect f.slice
          /\ Len(s) <= Ceiling => pg = SubSeq(s, F + 1, T)
    BY <1>4, <1>5, WorkdayPageIs
  <2>2. from = (IF off >= Len(s) THEN 0 ELSE off) /\ to = L!Least(Len(s), from + PageSize)
    OBVIOUS
  <2> HIDE DEF s, off, from, to
  <2> QED BY <1>4, <2>1, <2>2
<1>8. /\ L!ToSet(s) = L!ToSet(listed) \intersect f.slice /\ Distinct(s)
  <2>3. listed \in Seq(Postings)
    BY <1>4
  <2>4. \A S : L!ToSet(Among(listed, S)) = L!ToSet(listed) \intersect S
    BY <2>3, AmongSet
  <2>1. L!ToSet(s) = L!ToSet(listed) \intersect f.slice
    BY <2>4
  <2>2. Distinct(listed) => Distinct(s)
    BY <1>4, AmongOf
  <2> HIDE DEF s
  <2> QED BY <1>4, <2>1, <2>2
<1> HIDE DEF s, off
<1>9. from \in Nat /\ from <= off /\ (from = off \/ (off >= Len(s) /\ from = 0))
  BY <1>4, <1>5
<1> HIDE DEF from
<1>10. /\ to \in Nat /\ to <= Len(s) /\ to <= from + PageSize
       /\ to = Len(s) \/ to = from + PageSize
  <2>1. from + PageSize \in Nat
    BY <1>6, <1>9
  <2> QED BY <1>4, <2>1, LeastIs
<1> HIDE DEF to
<1>11. /\ Len(pg) = IF from < to THEN to - from ELSE 0
       /\ L!ToSet(pg) = Span(s, from, to)
       /\ \A i \in 1..Len(pg) : pg[i] = s[from + i]
  BY <1>7, <1>9, <1>10, PartIs
\* All that the page passes is collected.
<1>12. \A i \in 1..Len(s) : i <= off + PageSize => L!AsKey(s[i]) \in done.collected \/ (i > to /\ i > off)
  <2> SUFFICES ASSUME NEW i \in 1..Len(s), ~ (i > to /\ i > off) PROVE L!AsKey(s[i]) \in done.collected
    OBVIOUS
  <2>1. CASE i <= off
    BY <1>2, <1>5, <2>1
  <2>2. CASE ~ (i <= off)
    <3>1. i \in (from + 1)..to
      BY <1>4, <1>5, <1>9, <1>10, <2>2
    <3>2. s[i] \in L!ToSet(pg)
      BY <1>11, <3>1 DEF Span
    <3> QED BY <1>2, <3>2 DEF KeysOf
  <2> QED BY <2>1, <2>2
<1>13. \A i \in 1..Len(s) : i <= off + PageSize => L!AsKey(s[i]) \in done.collected
  <2> SUFFICES ASSUME NEW i \in 1..Len(s), i <= off + PageSize, i > to, i > off PROVE FALSE
    BY <1>12
  <2>1. from = off /\ to = from + PageSize
    BY <1>4, <1>5, <1>9, <1>10
  <2> QED BY <1>5, <1>6, <2>1
<1>14. \A k \in done.seen : \E i \in 1..Len(s) : i <= off + PageSize /\ k = L!AsKey(s[i])
  <2> SUFFICES ASSUME NEW k \in done.seen PROVE \E i \in 1..Len(s) : i <= off + PageSize /\ k = L!AsKey(s[i])
    OBVIOUS
  <2>1. CASE k \in f.seen
    <3>1. PICK i \in 1..Len(s) : i <= off /\ k = L!AsKey(s[i])
      BY <1>5, <2>1
    <3>2. i <= off + PageSize
      BY <1>5, <1>6, <3>1
    <3> QED BY <3>1, <3>2
  <2>2. CASE k \in KeysOf(L!ToSet(pg))
    <3>1. PICK p \in Span(s, from, to) : k = L!AsKey(p)
      BY <1>11, <2>2 DEF KeysOf
    <3>2. PICK i \in (from + 1)..to : p = s[i]
      BY <3>1 DEF Span
    <3>3. i \in 1..Len(s) /\ i <= off + PageSize
      BY <1>4, <1>5, <1>6, <1>9, <1>10
    <3> QED BY <3>1, <3>2, <3>3
  <2> QED BY <1>2, <2>1, <2>2
<1>15. done.collected \subseteq KeysOf(L!ToSet(listed)) /\ f.collected \subseteq done.collected
  BY <1>2, <1>7, KeysGrow
<1>16. Parted(done, n)
  BY <1>2, <1>3, <1>15 DEF Parted, Later
\* Of a listing that ends, what the board began with is collected.
<1> DEFINE AllOf == \A x \in 1..n : x \in f.slice => L!AsKey(x) \in done.collected
<1>17. (\A i \in 1..Len(s) : s[i] \in 1..n => i <= off + PageSize) => AllOf
  <2> SUFFICES ASSUME \A i \in 1..Len(s) : s[i] \in 1..n => i <= off + PageSize,
                      NEW x \in 1..n, x \in f.slice
               PROVE  L!AsKey(x) \in done.collected
    OBVIOUS
  <2>1. x \in L!ToSet(s)
    BY <1>4, <1>8
  <2>2. PICK i \in 1..Len(s) : s[i] = x
    <3>1. DOMAIN s = 1..Len(s)
      BY <1>7, LenProperties
    <3> QED BY <2>1, <3>1 DEF L!ToSet
  <2> QED BY <1>13, <2>2
<1>18. AllOf => Right(L!NextSlice(done))
  <2> SUFFICES ASSUME AllOf PROVE Right(L!NextSlice(done))
    OBVIOUS
  <2>1. /\ IsFetch(L!NextSlice(done))
        /\ Shut(L!NextSlice(done), was, listed, c)
           \/ (Going(L!NextSlice(done)) /\ Covers(L!NextSlice(done), listed, n, c))
    BY <1>2, <1>4, <1>15, <1>16, NextCovers
  <2> QED BY <2>1
<1> HIDE DEF AllOf
<1>19. Right(L!Result(done, "incomplete", "page_cap_reached"))
  BY <1>2, GivenUp
<1>20. Len(pg) < PageSize => AllOf
  <2> SUFFICES ASSUME Len(pg) < PageSize, NEW i \in 1..Len(s) PROVE i <= off + PageSize
    BY <1>17
  <2> QED BY <1>4, <1>5, <1>6, <1>9, <1>10, <1>11
<1>21. Filled(f) => AllOf
  <2> SUFFICES ASSUME Filled(f), NEW i \in 1..Len(s), s[i] \in 1..n PROVE i <= off + PageSize
    BY <1>17
  <2>1. off + PageSize >= f.total
    BY DEF Filled, off
  <2>2. i <= f.total
    BY <1>5
  <2> QED BY <1>4, <1>5, <1>6, <2>1, <2>2
<1>22. ~ isFirst /\ L!Wrapped(f, pg) => AllOf \/ Spoilt(done)
  <2> SUFFICES ASSUME ~ isFirst, L!Wrapped(f, pg), from = off PROVE Spoilt(done)
    <3>1. from # off => \A i \in 1..Len(s) : i <= off + PageSize
      BY <1>4, <1>5, <1>6, <1>9
    <3> QED BY <1>17, <3>1
  <2>1. \E i, j \in 1..Len(s) : i # j /\ L!AsKey(s[i]) = L!AsKey(s[j]) /\ s[i] \in L!ToSet(pg)
    <3> DEFINE K == KeysOf(L!ToSet(pg))
    <3>1. K \intersect f.seen # {} \/ Cardinality(K) < Len(pg)
      BY CountingPostings DEF L!Wrapped, L!AsKeys, KeysOf
    <3>2. CASE K \intersect f.seen # {}
      <4>1. PICK k \in f.seen : k \in K
        BY <3>2
      <4>2. PICK j \in 1..Len(s) : j <= off /\ k = L!AsKey(s[j])
        BY <1>5
      <4>3. PICK p \in Span(s, from, to) : k = L!AsKey(p)
        BY <1>11, <4>1 DEF KeysOf
      <4>4. PICK i \in (from + 1)..to : p = s[i]
        BY <4>3 DEF Span
      <4>5. i \in 1..Len(s) /\ i # j
        BY <1>4, <1>5, <1>9, <1>10, <4>2
      <4> QED BY <1>11, <4>2, <4>3, <4>4, <4>5
    <3>3. CASE Cardinality(K) < Len(pg)
      <4>1. \A i \in 1..Len(pg) : /\ from + i \in 1..Len(s) /\ pg[i] = s[from + i]
                                  /\ pg[i] \in L!ToSet(pg)
        <5>1. \A i \in 1..Len(pg) : from + i \in 1..Len(s)
          BY <1>4, <1>9, <1>10, <1>11
        <5>2. DOMAIN pg = 1..Len(pg)
          BY <1>7, LenProperties
        <5> QED BY <1>11, <5>1, <5>2 DEF L!ToSet
      <4>2. PICK i, j \in 1..Len(pg) : i # j /\ L!AsKey(pg[i]) = L!AsKey(pg[j])
        <5> SUFFICES ASSUME \A i, j \in 1..Len(pg) : L!AsKey(pg[i]) = L!AsKey(pg[j]) => i = j
                     PROVE  FALSE
          OBVIOUS
        <5> DEFINE u == [i \in 1..Len(pg) |-> L!AsKey(pg[i])]
        <5>1. Len(pg) \in Nat /\ DOMAIN pg = 1..Len(pg)
          BY <1>7, LenProperties
        <5>2. \A i \in 1..Len(pg) : u[i] = L!AsKey(pg[i])
          OBVIOUS
        <5>3. u \in Seq(K) /\ Len(u) = Len(pg) /\ DOMAIN u = 1..Len(pg)
          <6>1. \A i \in 1..Len(pg) : L!AsKey(pg[i]) \in K
            BY <4>1 DEF KeysOf
          <6> HIDE DEF K
          <6>2. u \in [1..Len(pg) -> K]
            BY <6>1
          <6> QED BY <5>1, <6>2, LenProperties
        <5> HIDE DEF u
        <5>4. Distinct(u)
          BY <5>2, <5>3 DEF Distinct
        <5>5. L!ToSet(u) = K
          <6>1. L!ToSet(u) = {u[i] : i \in 1..Len(pg)} /\ L!ToSet(pg) = {pg[i] : i \in 1..Len(pg)}
            BY <5>1, <5>3 DEF L!ToSet
          <6>2. \A k : k \in K <=> \E i \in 1..Len(pg) : k = L!AsKey(pg[i])
            BY <6>1 DEF KeysOf
          <6> HIDE DEF K
          <6> QED BY <5>2, <6>1, <6>2
        <5> HIDE DEF K
        <5>6. Cardinality(K) = Len(pg)
          BY <5>3, <5>4, <5>5, DistinctLen
        <5> QED BY <3>3, <5>1, <5>6
      <4>3. from + i # from + j
        BY <1>9, <4>2
      <4> QED BY <4>1, <4>2, <4>3
    <3> QED BY <3>1, <3>2, <3>3
  <2>2. PICK i, j \in 1..Len(s) : i # j /\ L!AsKey(s[i]) = L!AsKey(s[j]) /\ s[i] \in L!ToSet(pg)
    BY <2>1
  <2>3. s[i] # s[j]
    BY <1>8, <2>2 DEF Distinct
  <2>4. s[i] \in Nameless
    BY <2>2, <2>3, KeyIs
  <2>5. L!AsKey(s[i]).key = "untracked" /\ L!AsKey(s[i]) \in done.collected
    BY <1>2, <2>2, <2>4, KeyIs DEF KeysOf
  <2> QED BY <1>2, <1>3, <1>4, <2>5 DEF Spoilt, Untracked, Later
<1>23. Spoilt(done) => Right(L!NextSlice(done))
  <2> SUFFICES ASSUME Spoilt(done) PROVE Right(L!NextSlice(done))
    OBVIOUS
  <2>1. /\ IsFetch(L!NextSlice(done))
        /\ Shut(L!NextSlice(done), was, listed, c) \/ (Going(L!NextSlice(done)) /\ Spoilt(L!NextSlice(done)))
    BY <1>2, NextSpoilt
  <2> QED BY <2>1
<1>24. ~ Filled(f) => Right(next)
  <2> SUFFICES ASSUME ~ Filled(f) PROVE Right(next)
    OBVIOUS
  <2>1. next.offset = off + PageSize /\ next.offset \in Nat /\ next.offset > 0
    BY <1>1, <1>5, <1>6 DEF off
  <2>2. Mid(next, listed, n)
    BY <1>1, <1>5, <1>13, <1>14, <2>1 DEF Mid, s
  <2>3. next.offset < next.total \/ next.total = Ceiling
    BY <1>1, <1>5, <1>6, <2>1 DEF Filled, off
  <2>4. c = 0 => next.total = Len(Among(listed, next.slice))
    BY <1>1
  <2>5. Parted(next, n)
    BY <1>1, <1>2, <1>16 DEF Parted, Later
  <2>6. Covers(next, listed, n, c)
    BY <1>1, <1>15, <2>1, <2>2, <2>3, <2>4, <2>5 DEF Covers
  <2>7. Going(next)
    BY <1>1 DEF Going
  <2> QED BY <1>1, <2>6, <2>7
<1> HIDE DEF Right
<1>25. Right(r)
  BY <1>1, <1>18, <1>19, <1>20, <1>21, <1>22, <1>23, <1>24 DEF Ends
<1> QED BY <1>25 DEF Right, r

\* A listing that the board was put up on in front of, past what was put up.
Passed(f, b, n) ==
  \E p \in Postings :
    /\ Ahead(b, n, p) /\ p \in f.slice /\ f.at = "page"
    /\ f.expected = n /\ f.collected \subseteq KeysOf(1..n)
    /\ \E V : Later(f, V) /\ p \notin V
    /\ f.offset \in Nat \ {0} /\ f.total \in Nat /\ f.offset < f.total /\ f.total < Ceiling
    /\ f.total = Cardinality(f.slice \intersect (1..n))
\* A check of a facet that has a posting twice: it expects one more than there are.
Over(f, b, n) == Inside(f, b, 1..n) /\ f.expected = n + 1 /\ ~ (n < Ceiling)
OfWorkday(f, b, n, c) ==
  \/ Spoilt(f)
  \/ Covers(f, b, n, c)
  \/ c = 1 /\ Passed(f, b, n)
  \/ c = 1 /\ \E B : Inside(f, b, B)
  \/ c = 0 /\ Over(f, b, n)

Sized(f, total) == [f EXCEPT !.total = total]

LEMMA SizedIs ==
  ASSUME NEW f, IsFetch(f), NEW total
  PROVE  LET r == Sized(f, total) IN
         /\ IsFetch(r) /\ r.total = total /\ r.collected = f.collected /\ r.seen = f.seen
         /\ r.at = f.at /\ r.status = f.status /\ r.code = f.code /\ r.offset = f.offset
         /\ r.expected = f.expected /\ r.slices = f.slices /\ r.slice = f.slice
BY DEF Sized, IsFetch, FetchFields

LEMMA WorkdayIs ==
  ASSUME NEW f, IsFetch(f), NEW hollow \in BOOLEAN,
         NEW pg, pg = IF hollow THEN <<>> ELSE L!WorkdayPage(f.slice, f.offset),
         NEW total, total = L!Least(Len(Among(listed, f.slice)), Ceiling)
  PROVE  /\ f.at = "page" => L!Workday(f, hollow) = L!Listing(f, pg, FALSE)
         /\ f.at = "first" /\ f.expected # None
              => \/ L!Workday(f, hollow) = L!Result(f, "failed", "malformed_response")
                 \/ L!Workday(f, hollow) = L!Listing(Sized(f, total), pg, TRUE)
<1>1. total = L!Least(Len(L!Listed(f.slice)), Ceiling)
  BY ListedIs
<1>2. L!Workday(f, hollow) =
        IF f.at = "first"
        THEN IF (total = 0) # (pg = <<>>) THEN L!Result(f, "failed", "malformed_response")
             ELSE L!WorkdayFirst(f, pg, total)
        ELSE L!Listing(f, pg, FALSE)
  BY <1>1 DEF L!Workday
<1>3. f.expected # None => L!WorkdayFirst(f, pg, total) = L!Listing(Sized(f, total), pg, TRUE)
  BY DEF L!WorkdayFirst, Sized
<1> QED BY <1>2, <1>3

\* The answers a check that knows what to expect gets.
LEMMA InsideAnswer ==
  ASSUME NEW f, IsFetch(f), Going(f), listed \in Seq(Postings), platform = "workday",
         NEW B, Inside(f, listed, B), NEW k, k # 0 \/ ~ (Len(listed) < Ceiling),
         NEW hollow \in BOOLEAN
  PROVE  LET r == L!Workday(f, hollow) IN
         /\ IsFetch(r)
         /\ Shut(r, was, listed, k) \/ (Going(r) /\ Inside(r, listed, B) /\ r.expected = f.expected)
<1> DEFINE pg == IF hollow THEN <<>> ELSE L!WorkdayPage(f.slice, f.offset)
           total == L!Least(Len(Among(listed, f.slice)), Ceiling)
           Right(x) == /\ IsFetch(x)
                       /\ Shut(x, was, listed, k) \/ (Going(x) /\ Inside(x, listed, B)
                                                     /\ x.expected = f.expected)
<1>1. /\ f.at = "page" => L!Workday(f, hollow) = L!Listing(f, pg, FALSE)
      /\ f.at = "first" /\ f.expected # None
           => \/ L!Workday(f, hollow) = L!Result(f, "failed", "malformed_response")
              \/ L!Workday(f, hollow) = L!Listing(Sized(f, total), pg, TRUE)
  BY WorkdayIs
<1> HIDE DEF total
<1>2. L!ToSet(pg) \subseteq B
  <2>1. L!ToSet(<<>>) = {}
    BY DEF L!ToSet
  <2>2. f.offset \in Nat /\ f.slice \intersect L!ToSet(listed) \subseteq B
    BY DEF Inside
  <2>3. L!ToSet(L!WorkdayPage(f.slice, f.offset)) \subseteq L!ToSet(listed) \intersect f.slice
    BY <2>2, WorkdayPageIs
  <2> QED BY <2>1, <2>2, <2>3
<1> HIDE DEF pg
<1>3. f.expected # None
  <2>1. f.expected \in Nat
    BY DEF Inside, Within
  <2> QED BY <2>1, PartsAssumption
<1>4. f.status = None /\ f.code = None /\ f.at \in {"first", "page"}
  BY DEF Going
<1>9. ASSUME NEW g, IsFetch(g), g.status = None, g.code = None, Inside(g, listed, B), NEW isFirst
      PROVE  /\ IsFetch(L!Listing(g, pg, isFirst))
             /\ \/ Shut(L!Listing(g, pg, isFirst), was, listed, k)
                \/ /\ Going(L!Listing(g, pg, isFirst)) /\ Inside(L!Listing(g, pg, isFirst), listed, B)
                   /\ L!Listing(g, pg, isFirst).expected = g.expected
  <2> HIDE DEF Right
  <2>1. k # 0 \/ ~ (Len(listed) < Ceiling)
    OBVIOUS
  <2> QED BY <1>2, <1>9, <2>1, ListingInside
<1>5. Right(L!Listing(f, pg, FALSE))
  BY <1>4, <1>9
<1>6. Right(L!Listing(Sized(f, total), pg, TRUE))
  <2> DEFINE g == Sized(f, total)
  <2>1. /\ IsFetch(g) /\ g.collected = f.collected /\ g.status = f.status /\ g.code = f.code
        /\ g.offset = f.offset /\ g.expected = f.expected /\ g.slices = f.slices /\ g.slice = f.slice
    BY SizedIs
  <2> HIDE DEF g
  <2>2. Inside(g, listed, B)
    BY <2>1 DEF Inside, Within, Later
  <2>3. /\ IsFetch(L!Listing(g, pg, TRUE))
        /\ Shut(L!Listing(g, pg, TRUE), was, listed, k)
           \/ (Going(L!Listing(g, pg, TRUE)) /\ Inside(L!Listing(g, pg, TRUE), listed, B)
               /\ L!Listing(g, pg, TRUE).expected = g.expected)
    BY <1>4, <1>9, <2>1, <2>2
  <2> QED BY <2>1, <2>3 DEF g
<1>7. Right(L!Result(f, "failed", "malformed_response"))
  BY GivenUp
<1> HIDE DEF Right
<1>8. Right(L!Workday(f, hollow))
  BY <1>1, <1>3, <1>4, <1>5, <1>6, <1>7
<1> QED BY <1>8 DEF Right

LEMMA SpoiltAnswer ==
  ASSUME NEW f, IsFetch(f), Going(f), Spoilt(f), NEW k, NEW hollow \in BOOLEAN
  PROVE  LET r == L!Workday(f, hollow) IN
         IsFetch(r) /\ (Shut(r, was, listed, k) \/ (Going(r) /\ Spoilt(r)))
<1> DEFINE pg == IF hollow THEN <<>> ELSE L!WorkdayPage(f.slice, f.offset)
           total == L!Least(Len(Among(listed, f.slice)), Ceiling)
           Right(x) == IsFetch(x) /\ (Shut(x, was, listed, k) \/ (Going(x) /\ Spoilt(x)))
<1>1. /\ f.at = "page" => L!Workday(f, hollow) = L!Listing(f, pg, FALSE)
      /\ f.at = "first" /\ f.expected # None
           => \/ L!Workday(f, hollow) = L!Result(f, "failed", "malformed_response")
              \/ L!Workday(f, hollow) = L!Listing(Sized(f, total), pg, TRUE)
  BY WorkdayIs
<1> HIDE DEF total, pg
<1>2. f.expected # None
  BY PartsAssumption DEF Spoilt
<1>3. f.status = None /\ f.code = None /\ f.at \in {"first", "page"}
  BY DEF Going
<1>4. ASSUME NEW g, IsFetch(g), g.status = None, g.code = None, Spoilt(g), NEW isFirst
      PROVE  Right(L!Listing(g, pg, isFirst))
  <2> DEFINE done == L!Absorb(g, pg)
  <2>1. /\ done.collected = g.collected \union KeysOf(L!ToSet(pg)) /\ done.expected = g.expected
        /\ done.slices = g.slices
    BY <1>4, AbsorbIs
  <2> HIDE DEF done
  <2>2. Spoilt(done)
    BY <1>4, <2>1 DEF Spoilt, Untracked, Later
  <2> QED BY <1>4, <2>2, ListingSpoilt DEF done
<1>5. Right(L!Listing(Sized(f, total), pg, TRUE))
  <2> DEFINE g == Sized(f, total)
  <2>1. /\ IsFetch(g) /\ g.collected = f.collected /\ g.status = f.status /\ g.code = f.code
        /\ g.expected = f.expected /\ g.slices = f.slices
    BY SizedIs
  <2> HIDE DEF g, Right
  <2>2. Spoilt(g)
    BY <2>1 DEF Spoilt, Later
  <2>3. Right(L!Listing(g, pg, TRUE))
    BY <1>3, <1>4, <2>1, <2>2
  <2> QED BY <2>3 DEF g
<1>6. Right(L!Result(f, "failed", "malformed_response"))
  BY GivenUp
<1> HIDE DEF Right
<1>7. Right(L!Workday(f, hollow))
  BY <1>1, <1>2, <1>3, <1>4, <1>5, <1>6
<1> QED BY <1>7 DEF Right

LEMMA CoversAnswer ==
  ASSUME NEW n \in Posted, NEW c, Began(n, c), platform = "workday", NEW f, IsFetch(f), Going(f),
         Covers(f, listed, n, c)
  PROVE  LET r == L!Workday(f, FALSE) IN
         /\ IsFetch(r)
         /\ Shut(r, was, listed, c) \/ (Going(r) /\ (Spoilt(r) \/ Covers(r, listed, n, c)))
<1> DEFINE pg == L!WorkdayPage(f.slice, f.offset)
           s == Among(listed, f.slice)
           total == L!Least(Len(s), Ceiling)
           Right(x) == /\ IsFetch(x)
                       /\ Shut(x, was, listed, c) \/ (Going(x) /\ (Spoilt(x) \/ Covers(x, listed, n, c)))
<1>1. /\ f.at = "page" => L!Workday(f, FALSE) = L!Listing(f, pg, FALSE)
      /\ f.at = "first" /\ f.expected # None
           => \/ L!Workday(f, FALSE) = L!Result(f, "failed", "malformed_response")
              \/ L!Workday(f, FALSE) = L!Listing(Sized(f, total), pg, TRUE)
  BY WorkdayIs
<1>2. /\ Grown(listed, n, c) /\ f.expected = n /\ f.collected \subseteq KeysOf(L!ToSet(listed))
      /\ Parted(f, n) /\ Short(f.slice, n)
  BY DEF Covers, Parted
<1>3. n \in Nat /\ Len(s) \in Nat /\ Len(s) <= Ceiling /\ listed \in Seq(Postings)
  BY <1>2, GrownIn
<1>4. total = Len(s)
  BY <1>3, PartsAssumption DEF L!Least
<1>5. f.expected # None
  BY <1>2, <1>3, PartsAssumption
<1>6. f.status = None /\ f.code = None /\ f.at \in {"first", "page"}
  BY DEF Going
<1>7. ASSUME f.at = "page" PROVE Right(L!Listing(f, pg, FALSE))
  <2>1. /\ Mid(f, listed, n) /\ (f.offset < f.total \/ f.total = Ceiling)
        /\ c = 0 => f.total = Len(Among(listed, f.slice))
    BY <1>7 DEF Covers
  <2> HIDE DEF s, total
  <2> QED BY <1>2, <1>6, <2>1, ListingCovers
<1>8. ASSUME f.at = "first" PROVE Right(L!Listing(Sized(f, total), pg, TRUE))
  <2> DEFINE g == Sized(f, total)
  <2>1. /\ IsFetch(g) /\ g.total = total /\ g.collected = f.collected /\ g.seen = f.seen
        /\ g.status = f.status /\ g.code = f.code /\ g.offset = f.offset
        /\ g.expected = f.expected /\ g.slices = f.slices /\ g.slice = f.slice
    BY SizedIs
  <2>2. f.offset = 0 /\ f.seen = {}
    BY <1>8 DEF Covers
  <2> HIDE DEF g, total
  <2>3. Parted(g, n)
    BY <1>2, <2>1 DEF Parted, Later
  <2>4. Mid(g, listed, n)
    <3>1. /\ g.offset \in Nat /\ g.total \in Nat /\ g.total <= Ceiling /\ g.seen = {}
          /\ \A i \in 1..Len(s) : ~ (i <= g.offset) /\ ~ (i > g.total)
      BY <1>3, <1>4, <2>1, <2>2
    <3> QED BY <2>1, <3>1 DEF Mid, s
  <2>5. g.total = Len(Among(listed, g.slice))
    BY <1>4, <2>1 DEF s
  <2>6. pg = L!WorkdayPage(g.slice, g.offset)
    BY <2>1
  <2> HIDE DEF pg, s
  <2>7. Right(L!Listing(g, pg, TRUE))
    BY <1>2, <1>6, <2>1, <2>2, <2>3, <2>4, <2>5, <2>6, ListingCovers
  <2> HIDE DEF Right
  <2> QED BY <2>7 DEF g
<1>9. Right(L!Result(f, "failed", "malformed_response"))
  BY GivenUp
<1> HIDE DEF Right, pg, total
<1>10. Right(L!Workday(f, FALSE))
  BY <1>1, <1>5, <1>6, <1>7, <1>8, <1>9
<1> QED BY <1>10 DEF Right

LEMMA PassedAnswer ==
  ASSUME NEW n \in Posted, Began(n, 1), platform = "workday", NEW f, IsFetch(f), Going(f),
         Passed(f, listed, n)
  PROVE  LET r == L!Workday(f, FALSE) IN
         /\ IsFetch(r)
         /\ Shut(r, was, listed, 1)
            \/ (Going(r) /\ (Passed(r, listed, n) \/ Inside(r, listed, 1..n)))
<1> DEFINE pg == L!WorkdayPage(f.slice, f.offset)
           done == L!Absorb(f, pg)
           next == Paging(f, pg)
           r == L!Listing(f, pg, FALSE)
           Right(x) == /\ IsFetch(x)
                       /\ Shut(x, was, listed, 1)
                          \/ (Going(x) /\ (Passed(x, listed, n) \/ Inside(x, listed, 1..n)))
           s == Among(listed, f.slice)
           off == f.offset
           from == IF off >= Len(s) THEN 0 ELSE off
           to == L!Least(Len(s), from + PageSize)
<1>1. PICK p \in Postings :
        /\ Ahead(listed, n, p) /\ p \in f.slice /\ f.at = "page"
        /\ f.expected = n /\ f.collected \subseteq KeysOf(1..n)
        /\ \E V : Later(f, V) /\ p \notin V
        /\ f.offset \in Nat \ {0} /\ f.total \in Nat /\ f.offset < f.total /\ f.total < Ceiling
        /\ f.total = Cardinality(f.slice \intersect (1..n))
  BY DEF Passed
<1>2. PICK V : Later(f, V) /\ p \notin V
  BY <1>1
<1>3. /\ n \in Nat /\ p \notin 1..n /\ listed \in Seq(Postings) /\ Distinct(listed)
      /\ L!ToSet(listed) = (1..n) \union {p}
  <2>1. Ahead(listed, n, p) \/ Behind(listed, n, p)
    BY <1>1
  <2> QED BY <2>1, GrownIs
<1>4. 1..n \in was /\ IsFiniteSet(1..n) /\ Cardinality(1..n) = n
  BY StartIs DEF Began
<1>5. L!Workday(f, FALSE) = r
  BY <1>1, WorkdayIs
<1>6. /\ r = IF Ends(f, pg, FALSE) \/ Filled(f) THEN L!NextSlice(done)
             ELSE IF next.pages >= MaxPages THEN L!Result(done, "incomplete", "page_cap_reached")
             ELSE next
      /\ IsFetch(next) /\ next.at = "page" /\ next.offset = f.offset + PageSize
      /\ next.collected = done.collected /\ next.total = f.total
      /\ next.slice = f.slice /\ next.slices = f.slices /\ next.expected = f.expected
      /\ next.status = f.status /\ next.code = f.code
  BY ListingIs
<1>7. /\ IsFetch(done) /\ done.collected = f.collected \union KeysOf(L!ToSet(pg))
      /\ done.status = f.status /\ done.code = f.code /\ done.expected = f.expected
      /\ done.slices = f.slices /\ done.slice = f.slice
  BY AbsorbIs
<1> HIDE DEF r, done, next
<1>8. s \in Seq(Postings) /\ Distinct(s) /\ Len(s) = f.total + 1 /\ s[1] = p
  <2>1. listed = <<p>> \o Start(n) /\ Start(n) \in Seq(Postings) /\ Len(Start(n)) = n
        /\ L!ToSet(Start(n)) = 1..n /\ Distinct(Start(n))
    BY <1>1, StartIs DEF Ahead
  <2> DEFINE u == Among(Start(n), f.slice)
  <2>2. s = <<p>> \o u
    <3> DEFINE S == f.slice
    <3>1. Start(n) \in Seq(Postings) /\ p \in S /\ p \in Postings
      BY <1>1, <2>1
    <3> HIDE DEF S
    <3>2. \A b \in Seq(Postings) : \A x \in Postings :
            Among(<<x>> \o b, S) = IF x \in S THEN <<x>> \o Among(b, S) ELSE Among(b, S)
      BY AmongFront
    <3>3. Among(<<p>> \o Start(n), S) = <<p>> \o Among(Start(n), S)
      BY <3>1, <3>2
    <3> QED BY <2>1, <3>3 DEF S
  <2>3. \A S : /\ Among(Start(n), S) \in Seq(Postings)
               /\ Len(Among(Start(n), S)) = Cardinality(S \intersect L!ToSet(Start(n)))
    BY <2>1, AmongSet
  <2>4. u \in Seq(Postings) /\ Len(u) = f.total
    BY <1>1, <2>1, <2>3
  <2>5. \A S : Distinct(Among(listed, S))
    BY <1>3, AmongOf
  <2>6. Distinct(s)
    BY <2>5
  <2> HIDE DEF u, s
  <2>7. <<p>> \in Seq(Postings) /\ Len(<<p>>) = 1 /\ <<p>>[1] = p
    OBVIOUS
  <2>8. s \in Seq(Postings) /\ Len(s) = 1 + Len(u) /\ s[1] = <<p>>[1]
    BY <2>2, <2>4, <2>7, ConcatProperties
  <2> QED BY <1>1, <2>4, <2>6, <2>7, <2>8
<1>9. PageSize \in Nat /\ PageSize > 0 /\ Ceiling \in Nat
  BY PartsAssumption
<1>10. Len(s) <= Ceiling /\ off \in Nat /\ off > 0 /\ off < Len(s) /\ Len(s) \in Nat
  BY <1>1, <1>8, <1>9
<1>11. /\ L!ToSet(pg) \subseteq L!ToSet(listed)
       /\ pg = SubSeq(s, from + 1, to)
  BY <1>3, <1>10, WorkdayPageIs
<1> HIDE DEF s, pg
<1>12. from = off
  BY <1>10
<1> HIDE DEF off, from
<1>13. to \in Nat /\ to <= Len(s)
  <2>1. from + PageSize \in Nat
    BY <1>9, <1>10, <1>12
  <2> QED BY <1>10, <2>1, LeastIs
<1> HIDE DEF to
<1>14. L!ToSet(pg) = Span(s, from, to)
  BY <1>8, <1>10, <1>11, <1>12, <1>13, PartIs
<1>15. p \notin L!ToSet(pg)
  <2> SUFFICES ASSUME p \in L!ToSet(pg) PROVE FALSE
    OBVIOUS
  <2>1. PICK i \in (from + 1)..to : s[i] = p
    BY <1>14 DEF Span
  <2>2. i \in 1..Len(s) /\ 1 \in 1..Len(s) /\ i # 1
    BY <1>10, <1>12, <1>13
  <2> QED BY <1>8, <2>1, <2>2 DEF Distinct
<1>16. done.collected \subseteq KeysOf(1..n)
  <2>1. L!ToSet(pg) \subseteq 1..n
    BY <1>3, <1>11, <1>15
  <2> QED BY <1>1, <1>7, <2>1, KeysGrow
<1>17. Right(L!NextSlice(done))
  <2>1. Later(done, V) /\ V \intersect L!ToSet(listed) \subseteq 1..n
    BY <1>2, <1>3, <1>7 DEF Later
  <2>2. Within(done, listed, 1..n)
    <3>1. done.expected \in Nat /\ Cardinality(1..n) <= done.expected
      BY <1>1, <1>3, <1>4, <1>7
    <3> QED BY <1>4, <1>16, <2>1, <3>1 DEF Within
  <2>3. done.status = None /\ done.code = None
    BY <1>7 DEF Going
  <2>4. /\ IsFetch(L!NextSlice(done))
        /\ Shut(L!NextSlice(done), was, listed, 1)
           \/ (Going(L!NextSlice(done)) /\ Inside(L!NextSlice(done), listed, 1..n))
    BY <1>7, <2>2, <2>3, NextInside
  <2> QED BY <2>4
<1>18. Right(L!Result(done, "incomplete", "page_cap_reached"))
  BY <1>7, GivenUp
<1>19. ~ Filled(f) => Right(next)
  <2> SUFFICES ASSUME ~ Filled(f) PROVE Right(next)
    OBVIOUS
  <2>1. next.offset \in Nat \ {0} /\ next.offset < next.total
    BY <1>1, <1>6, <1>9, <1>10 DEF Filled, off
  <2>2. Later(next, V)
    BY <1>2, <1>6 DEF Later
  <2>3. Passed(next, listed, n)
    BY <1>1, <1>2, <1>6, <1>16, <2>1, <2>2 DEF Passed
  <2>4. Going(next)
    BY <1>6 DEF Going
  <2> QED BY <1>6, <2>3, <2>4
<1> HIDE DEF Right
<1>20. Right(r)
  BY <1>6, <1>17, <1>18, <1>19
<1> QED BY <1>5, <1>20 DEF Right

LEMMA OneAfter ==
  ASSUME NEW x, NEW y
  PROVE  <<x>> \o <<>> = <<x>> /\ <<>> \o <<x>> = <<x>> /\ <<x>> \o <<y>> = <<x, y>>
<1>1. <<x>> \in Seq({x, y}) /\ <<y>> \in Seq({x, y}) /\ <<x, y>> \in Seq({x, y})
  OBVIOUS
<1>2. <<x>> \o <<>> = <<x>> /\ <<>> \o <<x>> = <<x>>
  BY <1>1, ConcatEmptySeq
<1>3. <<x>> \o <<y>> = Append(<<x>>, y)
  BY <1>1, AppendIsConcat
<1>4. Append(<<x>>, y) = <<x, y>>
  <2> DEFINE u == Append(<<x>>, y)
             v == <<x, y>>
  <2>1. Len(<<x>>) = 1 /\ <<x>>[1] = x /\ Len(v) = 2 /\ v[1] = x /\ v[2] = y
    OBVIOUS
  <2>2. u \in Seq({x, y}) /\ Len(u) = 2 /\ u[1] = x /\ u[2] = y
    BY <1>1, <2>1, AppendProperties
  <2> HIDE DEF u, v
  <2>3. \A i \in 1..2 : u[i] = v[i]
    BY <2>1, <2>2
  <2> QED BY <1>1, <2>1, <2>2, <2>3, SeqEqual DEF u, v
<1> QED BY <1>2, <1>3, <1>4

\* A listing of a board that has just been split by a facet.
Sliced(f, S, T, total) ==
  /\ IsFetch(f) /\ f.at = "first" /\ f.slice = S /\ Later(f, T) /\ f.seen = {} /\ f.offset = 0
  /\ f.expected = total /\ f.collected = {} /\ f.status = None /\ f.code = None

LEMMA SlicedIs ==
  ASSUME NEW n \in Posted, Began(n, 0), listed = Start(n), platform = "workday", ~ (n < Ceiling),
         NEW f, NEW S, NEW T, NEW total \in {n, n + 1}, Sliced(f, S, T, total),
         total = n => S \intersect T = {} /\ 1..n \subseteq S \union T,
         Short(S, n), Short(T, n)
  PROVE  Going(f) /\ OfWorkday(f, listed, n, 0)
<1>1. n \in Nat /\ 1..n \in was /\ IsFiniteSet(1..n) /\ Cardinality(1..n) = n /\ L!ToSet(listed) = 1..n
  BY StartIs DEF Began
<1>2. Going(f)
  BY DEF Going, Sliced
<1>3. CASE total = n + 1
  <2>1. Within(f, listed, 1..n)
    <3>1. f.expected \in Nat /\ Cardinality(1..n) <= f.expected /\ f.collected \subseteq KeysOf(1..n)
      BY <1>1, <1>3 DEF Sliced
    <3>2. Later(f, T) /\ T \intersect L!ToSet(listed) \subseteq 1..n
      BY <1>1 DEF Sliced
    <3> QED BY <1>1, <3>1, <3>2 DEF Within
  <2>2. f.slice \intersect L!ToSet(listed) \subseteq 1..n /\ f.offset \in Nat /\ f.expected = n + 1
    BY <1>1, <1>3 DEF Sliced
  <2>3. Over(f, listed, n)
    BY <2>1, <2>2 DEF Over, Inside
  <2> QED BY <1>2, <2>3 DEF OfWorkday
<1>4. CASE total = n
  <2>1. Parted(f, n)
    BY <1>4 DEF Parted, Sliced
  <2>2. Grown(listed, n, 0)
    BY DEF Grown
  <2>3. Covers(f, listed, n, 0)
    BY <1>4, <2>1, <2>2 DEF Covers, Sliced
  <2> QED BY <1>2, <2>3 DEF OfWorkday
<1> QED BY <1>3, <1>4

LEMMA SplitAnswer ==
  ASSUME NEW n \in Posted, Began(n, 0), listed = Start(n), platform = "workday", ~ (n < Ceiling),
         OneChange, Faceted, NEW f, IsFetch(f), Fresh(f), NEW pg, NEW total, ~ (total < Ceiling)
  PROVE  LET r == L!WorkdayFirst(f, pg, total) IN
         IsFetch(r) /\ (Shut(r, was, listed, 0) \/ (Going(r) /\ OfWorkday(r, listed, n, 0)))
<1>1. /\ n \in Nat /\ 1..n \in was /\ IsFiniteSet(1..n) /\ Cardinality(1..n) = n
      /\ L!ToSet(listed) = 1..n /\ Len(listed) = n /\ n >= 4
  <2>1. /\ n \in Nat /\ IsFiniteSet(1..n) /\ Cardinality(1..n) = n
        /\ L!ToSet(listed) = 1..n /\ Len(listed) = n
    BY StartIs
  <2>2. Ceiling \in Nat /\ 1..n \in was
    BY PartsAssumption DEF Began
  <2> QED BY <2>1, <2>2 DEF OneChange
<1> DEFINE part == L!ChoosePartition
           values == L!Values(facets[part.group])
           v == values[1]
           w == values[2]
           Part(i) == IF L!Count(values[i]) > 0 THEN <<values[i]>> ELSE <<>>
           g == [f EXCEPT !.slices = Part(1) \o Part(2), !.expected = part.total]
           r == L!WorkdayFirst(f, pg, total)
           Right(x) == IsFetch(x) /\ (Shut(x, was, listed, 0) \/ (Going(x) /\ OfWorkday(x, listed, n, 0)))
<1>2. r = IF part = None THEN L!Result(f, "truncated", "listing_ceiling") ELSE L!NextSlice(g)
  BY DEF L!WorkdayFirst, Fresh
<1>3. CASE part = None
  BY <1>2, <1>3, GivenUp
<1>4. CASE part # None
  <2>1. /\ part.total \in {n, n + 1}
        /\ part.total = n => v \intersect w = {} /\ 1..n \subseteq v \union w
        /\ Cardinality(v \intersect (1..n)) < Ceiling /\ Cardinality(w \intersect (1..n)) < Ceiling
    BY <1>1, <1>4, PartitionIs
  <2>2. Short(v, n) /\ Short(w, n)
    BY <2>1 DEF Short
  <2>3. Short({}, n)
    <3>1. {} \intersect (1..n) = {} /\ Cardinality({}) = 0
      BY FS_EmptySet
    <3> QED BY <3>1, PartsAssumption DEF Short
  <2>4. \A S : ~ (L!Count(S) > 0) => S \intersect (1..n) = {}
    <3> SUFFICES ASSUME NEW S, ~ (L!Count(S) > 0) PROVE S \intersect (1..n) = {}
      OBVIOUS
    <3>1. L!Count(S) = Cardinality(S \intersect (1..n))
      BY <1>1, CountingPostings DEF L!Count
    <3>2. IsFiniteSet(S \intersect (1..n))
      BY <1>1, FS_Subset
    <3>3. Cardinality(S \intersect (1..n)) \in Nat
      BY <3>2, FS_CardinalityType
    <3>4. Cardinality(S \intersect (1..n)) = 0
      BY <3>1, <3>3
    <3> QED BY <3>2, <3>4, FS_EmptySet
  <2>5. /\ IsFetch(g) /\ g.expected = part.total /\ g.collected = {} /\ g.status = None /\ g.code = None
        /\ g.slices = Part(1) \o Part(2)
    <3> HIDE DEF part, Part
    <3> QED BY DEF Fresh, IsFetch, FetchFields
  <2>6. /\ L!Count(v) > 0 => Part(1) = <<v>>
        /\ ~ (L!Count(v) > 0) => Part(1) = <<>> /\ v \intersect (1..n) = {}
        /\ L!Count(w) > 0 => Part(2) = <<w>>
        /\ ~ (L!Count(w) > 0) => Part(2) = <<>> /\ w \intersect (1..n) = {}
    BY <2>4
  <2>16. \A x, y : <<x>> \o <<>> = <<x>> /\ <<>> \o <<x>> = <<x>> /\ <<x>> \o <<y>> = <<x, y>>
    BY OneAfter
  <2>17. <<>> \o <<>> = <<>>
    OBVIOUS
  <2>7. r = L!NextSlice(g)
    BY <1>2, <1>4
  <2> DEFINE total2 == part.total
  <2>8. total2 \in {n, n + 1} /\ g.expected = total2
        /\ (total2 = n => v \intersect w = {} /\ 1..n \subseteq v \union w)
    BY <2>1, <2>5
  <2> HIDE DEF g, r, Part, v, w, total2, part, Right
  <2>9. ASSUME NEW S, NEW T, Sliced(r, S, T, total2), Short(S, n), Short(T, n),
               total2 = n => S \intersect T = {} /\ 1..n \subseteq S \union T
        PROVE  Right(r)
    <3>1. IsFetch(r)
      BY <2>9 DEF Sliced
    <3>2. Going(r) /\ OfWorkday(r, listed, n, 0)
      BY <2>8, <2>9, SlicedIs
    <3> QED BY <3>1, <3>2 DEF Right
  <2>10. ASSUME NEW S, g.slices = <<S>>, Short(S, n), total2 = n => 1..n \subseteq S PROVE Right(r)
    <3>1. Later(g, S) /\ g.slices # <<>>
      BY <2>10 DEF Later
    <3>2. r = Opened(g, S)
      BY <2>5, <2>7, <3>1, NextIs
    <3>3. /\ IsFetch(r) /\ r.at = "first" /\ r.slice = S /\ r.slices = <<>> /\ r.seen = {}
          /\ r.offset = 0 /\ r.expected = g.expected /\ r.collected = g.collected
          /\ r.status = g.status /\ r.code = g.code
      BY <2>5, <3>2, OpenedIs
    <3>4. Sliced(r, S, {}, total2)
      BY <2>5, <2>8, <3>3 DEF Sliced, Later
    <3> QED BY <2>3, <2>9, <2>10, <3>4
  <2>11. ASSUME ~ (L!Count(v) > 0), ~ (L!Count(w) > 0) PROVE Right(r)
    <3>1. g.slices = <<>>
      BY <2>5, <2>6, <2>11, <2>17
    <3>2. r = L!Verdict(g, total2)
      <4>1. Later(g, {})
        BY <3>1 DEF Later
      <4> QED BY <2>5, <2>7, <2>8, <3>1, <4>1, NextIs
    <3>3. total2 \in Nat /\ Cardinality(1..n) <= total2 /\ g.collected \subseteq KeysOf(1..n)
      BY <1>1, <2>5, <2>8
    <3>4. ~ (Len(listed) < Ceiling)
      BY <1>1
    <3>5. IsFetch(r) /\ Shut(r, was, listed, 0)
      BY <1>1, <2>5, <3>2, <3>3, <3>4, VerdictInside
    <3> QED BY <3>5 DEF Right
  <2>12. ASSUME L!Count(v) > 0, ~ (L!Count(w) > 0) PROVE Right(r)
    <3>1. g.slices = <<v>> /\ w \intersect (1..n) = {}
      BY <2>5, <2>6, <2>12, <2>16
    <3>2. total2 = n => 1..n \subseteq v
      BY <2>8, <3>1
    <3> QED BY <2>2, <2>10, <3>1, <3>2
  <2>13. ASSUME ~ (L!Count(v) > 0), L!Count(w) > 0 PROVE Right(r)
    <3>1. g.slices = <<w>> /\ v \intersect (1..n) = {}
      BY <2>5, <2>6, <2>13, <2>16
    <3>2. total2 = n => 1..n \subseteq w
      BY <2>8, <3>1
    <3> QED BY <2>2, <2>10, <3>1, <3>2
  <2>14. ASSUME L!Count(v) > 0, L!Count(w) > 0 PROVE Right(r)
    <3>1. g.slices = <<v>> \o <<w>>
      BY <2>5, <2>6, <2>14
    <3>2. g.slices = <<v, w>>
      BY <2>16, <3>1
    <3>3. Head(<<v, w>>) = v /\ Tail(<<v, w>>) = <<w>> /\ <<v, w>> # <<>>
      OBVIOUS
    <3>4. r = [g EXCEPT !.at = "first", !.slice = v, !.slices = <<w>>,
                        !.seen = {}, !.offset = 0, !.pages = 0, !.total = None]
      BY <2>7, <3>2, <3>3 DEF L!NextSlice
    <3>5. /\ IsFetch(r) /\ r.at = "first" /\ r.slice = v /\ r.slices = <<w>> /\ r.seen = {}
          /\ r.offset = 0 /\ r.expected = g.expected /\ r.collected = g.collected
          /\ r.status = g.status /\ r.code = g.code
      BY <2>5, <3>4 DEF IsFetch, FetchFields
    <3>6. Sliced(r, v, w, total2)
      BY <2>5, <2>8, <3>5 DEF Sliced, Later
    <3> QED BY <2>2, <2>8, <2>9, <3>6
  <2>15. Right(r)
    BY <2>11, <2>12, <2>13, <2>14
  <2> QED BY <2>15 DEF Right, r
<1> QED BY <1>3, <1>4

LEMMA FirstAnswer ==
  ASSUME NEW n \in Posted, Began(n, 0), listed = Start(n), platform = "workday",
         OneChange, Faceted, NEW f, IsFetch(f), Fresh(f), NEW hollow \in BOOLEAN,
         NEW k, k = IF hollow THEN 1 ELSE 0
  PROVE  LET r == L!Workday(f, hollow) IN
         IsFetch(r) /\ (Shut(r, was, listed, k) \/ (Going(r) /\ OfWorkday(r, listed, n, k)))
<1> DEFINE s == Among(listed, f.slice)
           pg == IF hollow THEN <<>> ELSE L!WorkdayPage(f.slice, f.offset)
           total == L!Least(Len(s), Ceiling)
           r == L!Workday(f, hollow)
           Right(x) == IsFetch(x) /\ (Shut(x, was, listed, k) \/ (Going(x) /\ OfWorkday(x, listed, n, k)))
<1>1. /\ n \in Nat /\ 1..n \in was /\ IsFiniteSet(1..n) /\ Cardinality(1..n) = n
      /\ L!ToSet(listed) = 1..n /\ listed \in Seq(Postings) /\ Distinct(listed) /\ 1..n \subseteq Postings
  <2>1. /\ n \in Nat /\ IsFiniteSet(1..n) /\ Cardinality(1..n) = n
        /\ L!ToSet(listed) = 1..n /\ listed \in Seq(Postings) /\ Distinct(listed)
    BY StartIs
  <2>2. 1..n \subseteq Postings /\ 1..n \in was
    BY PartsAssumption DEF Began
  <2> QED BY <2>1, <2>2
<1>2. Ceiling \in Nat /\ Ceiling > 0
  BY PartsAssumption
<1>3. Len(s) = n
  <2>1. \A S : Len(Among(listed, S)) = Cardinality(S \intersect L!ToSet(listed))
    BY <1>1, AmongSet
  <2>2. f.slice \intersect L!ToSet(listed) = 1..n
    BY <1>1 DEF Fresh
  <2> QED BY <1>1, <2>1, <2>2
<1>4. r = IF (total = 0) # (pg = <<>>) THEN L!Result(f, "failed", "malformed_response")
          ELSE L!WorkdayFirst(f, pg, total)
  BY ListedIs DEF L!Workday, Fresh
<1>5. total = IF n < Ceiling THEN n ELSE Ceiling
  BY <1>1, <1>2, <1>3 DEF L!Least
<1>6. CASE (total = 0) # (pg = <<>>)
  <2>1. IsFetch(r) /\ Shut(r, was, listed, k)
    <3> HIDE DEF pg, total, r
    <3> QED BY <1>4, <1>6, GivenUp
  <2> QED BY <2>1
<1>7. CASE ~ ((total = 0) # (pg = <<>>)) /\ ~ (n < Ceiling)
  <2>1. total = Ceiling /\ total # 0
    BY <1>2, <1>5, <1>7
  <2>2. ~ hollow
    BY <1>7, <2>1
  <2>3. k = 0 /\ ~ (total < Ceiling)
    BY <1>2, <2>1, <2>2
  <2> HIDE DEF pg, total, r
  <2>4. r = L!WorkdayFirst(f, pg, total)
    BY <1>4, <1>7
  <2>5. /\ IsFetch(L!WorkdayFirst(f, pg, total))
        /\ Shut(L!WorkdayFirst(f, pg, total), was, listed, 0)
           \/ (Going(L!WorkdayFirst(f, pg, total)) /\ OfWorkday(L!WorkdayFirst(f, pg, total), listed, n, 0))
    BY <1>7, <2>3, SplitAnswer
  <2> QED BY <2>3, <2>4, <2>5 DEF r
<1>8. CASE ~ ((total = 0) # (pg = <<>>)) /\ n < Ceiling
  <2> DEFINE g == [f EXCEPT !.total = total, !.expected = total]
  <2>1. total = n
    BY <1>5, <1>8
  <2>2. r = L!Listing(g, pg, TRUE)
    BY <1>4, <1>8, <2>1 DEF L!WorkdayFirst, Fresh
  <2>3. /\ IsFetch(g) /\ g.total = n /\ g.expected = n /\ g.collected = {} /\ g.seen = {}
        /\ g.offset = 0 /\ g.slices = <<>> /\ g.slice = Postings /\ g.status = None /\ g.code = None
    <3> HIDE DEF total
    <3> QED BY <2>1 DEF Fresh, IsFetch, FetchFields
  <2> HIDE DEF g
  <2>4. Later(g, {})
    BY <2>3 DEF Later
  <2>5. CASE hollow
    <3>1. k = 1 /\ L!ToSet(pg) = {}
      BY <2>5 DEF L!ToSet
    <3>2. Inside(g, listed, 1..n)
      <4>1. Within(g, listed, 1..n)
        <5>1. g.expected \in Nat /\ Cardinality(1..n) <= g.expected /\ g.collected \subseteq KeysOf(1..n)
          BY <1>1, <2>3
        <5>2. {} \intersect L!ToSet(listed) \subseteq 1..n
          OBVIOUS
        <5> QED BY <1>1, <2>4, <5>1, <5>2 DEF Within
      <4> QED BY <1>1, <2>3, <4>1 DEF Inside
    <3> HIDE DEF pg, r
    <3>3. L!ToSet(pg) \subseteq 1..n /\ k # 0
      BY <3>1
    <3>a. IsFetch(g) /\ g.status = None /\ g.code = None /\ platform = "workday"
      BY <2>3 DEF Fresh
    <3>4. /\ IsFetch(L!Listing(g, pg, TRUE))
          /\ Shut(L!Listing(g, pg, TRUE), was, listed, k)
             \/ (Going(L!Listing(g, pg, TRUE)) /\ Inside(L!Listing(g, pg, TRUE), listed, 1..n))
      BY <3>a, <3>2, <3>3, ListingInside
    <3>5. IsFetch(r) /\ (Shut(r, was, listed, k) \/ (Going(r) /\ Inside(r, listed, 1..n)))
      BY <2>2, <3>4
    <3> QED BY <3>1, <3>5 DEF OfWorkday, r
  <2>6. CASE ~ hollow
    <3>1. k = 0 /\ pg = L!WorkdayPage(g.slice, g.offset)
      BY <2>3, <2>6 DEF Fresh
    <3>2. Grown(listed, n, 0) /\ g.collected \subseteq KeysOf(L!ToSet(listed))
      BY <2>3 DEF Grown
    <3>3. Short(Postings, n) /\ Short({}, n)
      <4>1. Postings \intersect (1..n) = 1..n /\ {} \intersect (1..n) = {} /\ Cardinality({}) = 0
        BY <1>1, FS_EmptySet
      <4> QED BY <1>1, <1>2, <1>8, <4>1 DEF Short
    <3>4. Parted(g, n)
      <4>1. {} \intersect g.slice = {} /\ \A x \in 1..n : x \in g.slice
        BY <1>1, <2>3
      <4> QED BY <2>3, <2>4, <3>3, <4>1 DEF Parted
    <3>5. Among(listed, g.slice) = s
      BY <2>3 DEF Fresh
    <3>6. Mid(g, listed, n) /\ g.total = Len(Among(listed, g.slice))
      <4>1. /\ g.offset \in Nat /\ g.total \in Nat /\ g.total <= Ceiling
            /\ \A i \in 1..Len(s) : ~ (i <= g.offset) /\ ~ (i > g.total)
        BY <1>1, <1>2, <1>3, <1>8, <2>3
      <4> HIDE DEF s
      <4> QED BY <1>3, <2>3, <3>5, <4>1 DEF Mid
    <3> HIDE DEF pg, r, s
    <3>7. /\ IsFetch(L!Listing(g, pg, TRUE))
          /\ Shut(L!Listing(g, pg, TRUE), was, listed, 0)
             \/ (Going(L!Listing(g, pg, TRUE))
                 /\ (Spoilt(L!Listing(g, pg, TRUE)) \/ Covers(L!Listing(g, pg, TRUE), listed, n, 0)))
      BY <2>3, <3>1, <3>2, <3>4, <3>6, ListingCovers
    <3>8. IsFetch(r) /\ (Shut(r, was, listed, 0) \/ (Going(r) /\ (Spoilt(r) \/ Covers(r, listed, n, 0))))
      BY <2>2, <3>7
    <3> QED BY <3>1, <3>8 DEF OfWorkday, r
  <2> QED BY <2>5, <2>6
<1> QED BY <1>6, <1>7, <1>8

\* As long as nothing moves, a check collects what the board had when it began.
LEMMA CoversInside ==
  ASSUME NEW n \in Posted, Began(n, 0), NEW f, Covers(f, Start(n), n, 0), NEW b, L!ToSet(b) \subseteq 1..n
  PROVE  Inside(f, b, 1..n)
<1>1. n \in Nat /\ IsFiniteSet(1..n) /\ Cardinality(1..n) = n /\ L!ToSet(Start(n)) = 1..n
  BY StartIs
<1>2. /\ f.expected = n /\ f.collected \subseteq KeysOf(1..n) /\ \E V : Later(f, V)
      /\ f.offset \in Nat
  BY <1>1 DEF Covers, Parted, Mid
<1>3. Within(f, b, 1..n)
  <2>1. Cardinality(1..n) <= f.expected /\ f.expected \in Nat
    BY <1>1, <1>2
  <2> QED BY <1>1, <1>2, <2>1 DEF Within, Began
<1> QED BY <1>2, <1>3 DEF Inside

LEMMA WorkdayAnswer ==
  ASSUME NEW n \in Posted, NEW c \in {0, 1}, Began(n, c), platform = "workday", OneChange, Faceted,
         NEW f, IsFetch(f), (Fresh(f) /\ c = 0) \/ (Going(f) /\ OfWorkday(f, listed, n, c)),
         NEW hollow \in BOOLEAN, hollow => c = 0, NEW k, k = IF hollow THEN 1 ELSE c
  PROVE  LET r == L!Workday(f, hollow) IN
         IsFetch(r) /\ (Shut(r, was, listed, k) \/ (Going(r) /\ OfWorkday(r, listed, n, k)))
<1> DEFINE r == L!Workday(f, hollow)
           Right == IsFetch(r) /\ (Shut(r, was, listed, k) \/ (Going(r) /\ OfWorkday(r, listed, n, k)))
<1>1. listed \in Seq(Postings) /\ (c = 0 => listed = Start(n))
  BY DEF Began
<1>2. CASE Fresh(f) /\ c = 0
  BY <1>1, <1>2, FirstAnswer
<1>3. CASE Going(f) /\ Spoilt(f)
  BY <1>3, SpoiltAnswer DEF OfWorkday
<1>4. ASSUME Going(f), NEW B, Inside(f, listed, B), k = 1 \/ (Over(f, listed, n) /\ B = 1..n /\ k = 0 /\ c = 0)
      PROVE  Right
  <2>1. k # 0 \/ ~ (Len(listed) < Ceiling)
    <3>1. c = 0 => Len(listed) = n
      BY <1>1, StartIs
    <3> QED BY <1>4, <3>1 DEF Over
  <2>2. /\ IsFetch(r)
        /\ Shut(r, was, listed, k) \/ (Going(r) /\ Inside(r, listed, B) /\ r.expected = f.expected)
    BY <1>1, <1>4, <2>1, InsideAnswer
  <2> HIDE DEF r
  <2> QED BY <1>4, <2>2 DEF OfWorkday, Over
<1>5. CASE Going(f) /\ c = 1 /\ \E B : Inside(f, listed, B)
  BY <1>4, <1>5
<1>6. CASE Going(f) /\ c = 0 /\ Over(f, listed, n)
  BY <1>4, <1>6 DEF Over
<1>7. CASE Going(f) /\ c = 1 /\ Passed(f, listed, n)
  <2>1. ~ hollow /\ k = 1
    BY <1>7
  <2>2. /\ IsFetch(L!Workday(f, FALSE))
        /\ Shut(L!Workday(f, FALSE), was, listed, 1)
           \/ (Going(L!Workday(f, FALSE))
               /\ (Passed(L!Workday(f, FALSE), listed, n) \/ Inside(L!Workday(f, FALSE), listed, 1..n)))
    BY <1>7, PassedAnswer
  <2> QED BY <2>1, <2>2 DEF OfWorkday
<1>8. CASE Going(f) /\ Covers(f, listed, n, c) /\ ~ hollow
  <2>1. k = c /\ hollow = FALSE
    BY <1>8
  <2>2. /\ IsFetch(L!Workday(f, FALSE))
        /\ Shut(L!Workday(f, FALSE), was, listed, c)
           \/ (Going(L!Workday(f, FALSE))
               /\ (Spoilt(L!Workday(f, FALSE)) \/ Covers(L!Workday(f, FALSE), listed, n, c)))
    BY <1>8, CoversAnswer
  <2> QED BY <2>1, <2>2 DEF OfWorkday
<1>9. CASE Going(f) /\ Covers(f, listed, n, c) /\ hollow
  <2>1. c = 0 /\ k = 1
    BY <1>9
  <2>2. Inside(f, listed, 1..n)
    <3>1. listed = Start(n) /\ L!ToSet(listed) \subseteq 1..n
      BY <1>1, <2>1, StartIs
    <3> QED BY <1>9, <2>1, <3>1, CoversInside
  <2> QED BY <1>4, <1>9, <2>1, <2>2
<1> QED BY <1>2, <1>3, <1>5, <1>6, <1>7, <1>8, <1>9 DEF OfWorkday

----------------------------------------------------------------------------
(* A check, whichever platform it is of.                                      *)

Underway(f, n, c) ==
  \/ Fresh(f) /\ f.requests = 0 /\ c = 0
  \/ /\ Going(f)
     /\ \/ platform = "workday" /\ OfWorkday(f, listed, n, c)
        \/ platform = "smartrecruiters" /\ Follows(f, listed, n, c)
        \/ platform = "workable" /\ HandedOut(f, listed, n, c)
CheckOf(n) ==
  /\ platform \in L!SingleResponse \union L!Paged /\ Faceted
  /\ n \in Posted /\ changes \in {0, 1} /\ Began(n, changes) /\ IsFetch(fetch)
  /\ Shut(fetch, was, listed, changes) \/ Underway(fetch, n, changes)
CheckInv == mode = "check" => \E n \in Posted : CheckOf(n)

\* That a request is made, nothing else.
Asked(f) == [f EXCEPT !.requests = @ + 1]
LEMMA AskedIs ==
  ASSUME NEW f, IsFetch(f)
  PROVE  LET r == Asked(f) IN
         /\ IsFetch(r) /\ r.at = f.at /\ r.collected = f.collected /\ r.seen = f.seen
         /\ r.given = f.given /\ r.offset = f.offset /\ r.pages = f.pages /\ r.total = f.total
         /\ r.expected = f.expected /\ r.slices = f.slices /\ r.slice = f.slice
         /\ r.status = f.status /\ r.code = f.code
BY DEF Asked, IsFetch, FetchFields

LEMMA AskedUnderway ==
  ASSUME NEW f, IsFetch(f), NEW n, NEW c, Underway(f, n, c)
  PROVE  LET r == Asked(f) IN
         \/ Fresh(r) /\ c = 0
         \/ /\ Going(r)
            /\ \/ platform = "workday" /\ OfWorkday(r, listed, n, c)
               \/ platform = "smartrecruiters" /\ Follows(r, listed, n, c)
               \/ platform = "workable" /\ HandedOut(r, listed, n, c)
<1> DEFINE r == Asked(f)
<1>1. /\ IsFetch(r) /\ r.at = f.at /\ r.collected = f.collected /\ r.seen = f.seen
      /\ r.given = f.given /\ r.offset = f.offset /\ r.pages = f.pages /\ r.total = f.total
      /\ r.expected = f.expected /\ r.slices = f.slices /\ r.slice = f.slice
      /\ r.status = f.status /\ r.code = f.code
  BY AskedIs
<1> HIDE DEF r
<1>2. Fresh(f) => Fresh(r)
  BY <1>1 DEF Fresh
<1>3. Going(f) => Going(r)
  BY <1>1 DEF Going
<1>4. Follows(f, listed, n, c) => Follows(r, listed, n, c)
  BY <1>1 DEF Follows, Adrift, InStep
<1>5. HandedOut(f, listed, n, c) => HandedOut(r, listed, n, c)
  BY <1>1 DEF HandedOut, CutOff, GivenAll
<1>6. OfWorkday(f, listed, n, c) => OfWorkday(r, listed, n, c)
  <2>1. \A V : Later(f, V) => Later(r, V)
    BY <1>1 DEF Later
  <2>2. Spoilt(f) => Spoilt(r)
    BY <1>1, <2>1 DEF Spoilt
  <2>3. \A B : Within(f, listed, B) => Within(r, listed, B)
    BY <1>1, <2>1 DEF Within
  <2>4. \A B : Inside(f, listed, B) => Inside(r, listed, B)
    BY <1>1, <2>3 DEF Inside
  <2>5. Over(f, listed, n) => Over(r, listed, n)
    BY <1>1, <2>4 DEF Over
  <2>6. Passed(f, listed, n) => Passed(r, listed, n)
    BY <1>1, <2>1 DEF Passed
  <2>7. Parted(f, n) => Parted(r, n)
    BY <1>1, <2>1 DEF Parted
  <2>8. Mid(f, listed, n) => Mid(r, listed, n)
    BY <1>1 DEF Mid
  <2>9. Covers(f, listed, n, c) => Covers(r, listed, n, c)
    BY <1>1, <2>7, <2>8 DEF Covers
  <2> QED BY <2>2, <2>4, <2>5, <2>6, <2>9 DEF OfWorkday
<1> QED BY <1>2, <1>3, <1>4, <1>5, <1>6 DEF Underway, r

\* What an answer comes to, by the platform.
LEMMA AnswerIs ==
  ASSUME OneChange, NEW n, CheckOf(n), fetch.at # "done", NEW hollow \in BOOLEAN, L!Answer(hollow)
  PROVE  /\ changes' \in {0, 1} /\ IsFetch(fetch')
         /\ \/ Shut(fetch', was, listed, changes')
            \/ /\ Going(fetch')
               /\ \/ platform = "workday" /\ OfWorkday(fetch', listed, n, changes')
                  \/ platform = "smartrecruiters" /\ Follows(fetch', listed, n, changes')
                  \/ platform = "workable" /\ HandedOut(fetch', listed, n, changes')
<1> DEFINE f == Asked(fetch)
           c == changes
           k == IF hollow THEN 1 ELSE c
<1>1. /\ n \in Posted /\ c \in {0, 1} /\ Began(n, c) /\ IsFetch(fetch) /\ Faceted
      /\ platform \in L!SingleResponse \union L!Paged
  BY DEF CheckOf
<1>2. Underway(fetch, n, c)
  BY DEF CheckOf, Shut
<1>3. /\ hollow => platform \notin {"ashby", "teamtailor"} /\ changes < MaxChanges
      /\ changes' = IF hollow THEN changes + 1 ELSE changes
      /\ \/ platform = "workday" /\ fetch' = L!Workday(f, hollow)
         \/ platform = "workable" /\ fetch' = L!Workable(f, hollow)
         \/ \E limit \in {1, PageSize} :
              platform = "smartrecruiters" /\ fetch' = L!SmartRecruiters(f, hollow, limit)
         \/ platform \in {"ashby", "greenhouse"} /\ fetch' = L!FetchSingle(f, hollow)
         \/ platform = "teamtailor" /\ fetch' = L!FetchSingleXml(f)
  BY DEF L!Answer, Asked
<1>4. (hollow => c = 0) /\ changes' = k /\ k \in {0, 1}
  BY <1>1, <1>3 DEF OneChange
<1>5. IsFetch(f)
  BY <1>1, AskedIs
<1>6. \/ Fresh(f) /\ c = 0
      \/ /\ Going(f)
         /\ \/ platform = "workday" /\ OfWorkday(f, listed, n, c)
            \/ platform = "smartrecruiters" /\ Follows(f, listed, n, c)
            \/ platform = "workable" /\ HandedOut(f, listed, n, c)
  BY <1>1, <1>2, AskedUnderway
<1> HIDE DEF f
<1>7. CASE platform = "workday"
  <2>1. fetch' = L!Workday(f, hollow)
    BY <1>3, <1>7
  <2>2. (Fresh(f) /\ c = 0) \/ (Going(f) /\ OfWorkday(f, listed, n, c))
    BY <1>6, <1>7
  <2>3. /\ IsFetch(L!Workday(f, hollow))
        /\ Shut(L!Workday(f, hollow), was, listed, k)
           \/ (Going(L!Workday(f, hollow)) /\ OfWorkday(L!Workday(f, hollow), listed, n, k))
    BY <1>1, <1>4, <1>5, <1>7, <2>2, WorkdayAnswer
  <2> QED BY <1>4, <1>7, <2>1, <2>3
<1>8. CASE platform = "workable"
  <2>1. fetch' = L!Workable(f, hollow)
    BY <1>3, <1>8
  <2>2. (Fresh(f) /\ c = 0) \/ (Going(f) /\ HandedOut(f, listed, n, c))
    BY <1>6, <1>8
  <2>3. /\ IsFetch(L!Workable(f, hollow))
        /\ Shut(L!Workable(f, hollow), was, listed, k)
           \/ (Going(L!Workable(f, hollow)) /\ HandedOut(L!Workable(f, hollow), listed, n, k))
    BY <1>1, <1>4, <1>5, <2>2, WorkableAnswer
  <2> QED BY <1>4, <1>8, <2>1, <2>3
<1>9. CASE platform = "smartrecruiters"
  <2>1. PICK limit \in {1, PageSize} : fetch' = L!SmartRecruiters(f, hollow, limit)
    BY <1>3, <1>9
  <2>2. (Fresh(f) /\ c = 0) \/ (Going(f) /\ Follows(f, listed, n, c))
    BY <1>6, <1>9
  <2> DEFINE r == L!SmartRecruiters(f, hollow, limit)
  <2>3. IsFetch(r) /\ (Shut(r, was, listed, k) \/ (Going(r) /\ Follows(r, listed, n, k)))
    BY <1>1, <1>4, <1>5, <2>2, SmartAnswer
  <2> HIDE DEF r
  <2>4. fetch' = r
    BY <2>1 DEF r
  <2> QED BY <1>4, <1>9, <2>3, <2>4
<1>10. CASE platform \in L!SingleResponse
  <2>1. \/ platform \in {"ashby", "greenhouse"} /\ fetch' = L!FetchSingle(f, hollow)
        \/ platform = "teamtailor" /\ fetch' = L!FetchSingleXml(f)
    BY <1>3, <1>10 DEF L!SingleResponse
  <2>2. Fresh(f) /\ c = 0 /\ platform # "workday"
    BY <1>6, <1>10 DEF L!SingleResponse
  <2>3. listed = Start(n) /\ Began(n, 0) /\ (hollow => platform \notin {"ashby", "teamtailor"})
    BY <1>1, <1>3, <2>2 DEF Began
  <2>4. k = IF hollow THEN 1 ELSE 0
    BY <2>2
  <2> HIDE DEF k, c
  <2>5. IsFetch(fetch') /\ Shut(fetch', was, listed, k)
    BY <1>5, <2>1, <2>2, <2>3, <2>4, SingleAnswer
  <2> QED BY <1>4, <2>5 DEF k, c
<1> QED BY <1>1, <1>7, <1>8, <1>9, <1>10 DEF L!Paged

\* What is so of a check after an answer, said of the check as it then is.
LEMMA Carried ==
  ASSUME NEW n \in Posted, was' = was, listed' = listed, platform' = platform
  PROVE  /\ Shut(fetch', was, listed, changes') => Shut(fetch, was, listed, changes)'
         /\ OfWorkday(fetch', listed, n, changes') => OfWorkday(fetch, listed, n, changes)'
         /\ Follows(fetch', listed, n, changes') => Follows(fetch, listed, n, changes)'
         /\ HandedOut(fetch', listed, n, changes') => HandedOut(fetch, listed, n, changes)'
         /\ Going(fetch') => Going(fetch)'
<1>1. Shut(fetch', was, listed, changes') => Shut(fetch, was, listed, changes)'
  BY DEF Shut
<1>2. Going(fetch') => Going(fetch)'
  BY DEF Going
<1>3. Follows(fetch', listed, n, changes') => Follows(fetch, listed, n, changes)'
  BY DEF Follows, Adrift, InStep, Extends
<1>4. HandedOut(fetch', listed, n, changes') => HandedOut(fetch, listed, n, changes)'
  BY DEF HandedOut, CutOff, GivenAll, Extends
<1>5. OfWorkday(fetch', listed, n, changes') => OfWorkday(fetch, listed, n, changes)'
  <2>1. Spoilt(fetch') => Spoilt(fetch)'
    BY DEF Spoilt
  <2>2. Covers(fetch', listed, n, changes') => Covers(fetch, listed, n, changes)'
    BY DEF Covers
  <2>3. Passed(fetch', listed, n) => Passed(fetch, listed, n)'
    BY DEF Passed
  <2>4. \A B : Inside(fetch', listed, B) => Inside(fetch, listed, B)'
    BY DEF Inside, Within
  <2>5. Over(fetch', listed, n) => Over(fetch, listed, n)'
    BY <2>4 DEF Over
  <2> QED BY <2>1, <2>2, <2>3, <2>4, <2>5 DEF OfWorkday
<1> QED BY <1>1, <1>2, <1>3, <1>4, <1>5

\* What the board can come to at its one change: some of it, or one more posting.
Lesser(b, n) == b \in Seq(Postings) /\ L!ToSet(b) \subseteq 1..n
Changed(b, n) == Lesser(b, n) \/ \E p \in Postings : Ahead(b, n, p) \/ Behind(b, n, p)

LEMMA LesserIs ==
  ASSUME NEW n, NEW b, Lesser(b, n)
  PROVE  \A i \in 1..Len(b) : b[i] \in 1..n
<1>1. \A i \in 1..Len(b) : b[i] \in L!ToSet(b)
  BY DEF L!ToSet, Lesser
<1> QED BY <1>1 DEF Lesser

LEMMA AheadHas ==
  ASSUME NEW n \in Posted, NEW p, NEW b, Ahead(b, n, p)
  PROVE  \A i \in 1..Len(b) : i > 1 => b[i] \in 1..n
<1>1. Len(b) = n + 1 /\ n \in Nat /\ \A i \in 1..n : b[i + 1] = i
  BY GrownIs
<1>2. ASSUME NEW i \in 1..Len(b), i > 1 PROVE b[i] \in 1..n
  <2>1. i - 1 \in 1..n /\ (i - 1) + 1 = i
    BY <1>1, <1>2
  <2> QED BY <1>1, <2>1
<1> QED BY <1>2

LEMMA BehindHas ==
  ASSUME NEW n \in Posted, NEW p, NEW b, Behind(b, n, p)
  PROVE  Len(b) = n + 1 /\ \A i \in 1..n : b[i] = i
<1>1. Ahead(b, n, p) \/ Behind(b, n, p)
  OBVIOUS
<1>2. n \in Nat /\ Len(b) = n + 1
  BY <1>1, GrownIs
<1>3. \A i \in 1..n : b[i] = i
  <2>1. b = Start(n) \o <<p>> /\ p \in Postings
    BY DEF Behind
  <2>2. /\ Start(n) \in Seq(Postings) /\ Len(Start(n)) = n
        /\ \A i \in 1..n : Start(n)[i] = i
    BY StartIs
  <2>3. <<p>> \in Seq(Postings) /\ Len(<<p>>) = 1
    BY <2>1
  <2>4. \A i \in 1..(n + 1) : b[i] = IF i <= n THEN Start(n)[i] ELSE <<p>>[i - n]
    BY <1>2, <2>1, <2>2, <2>3, ConcatProperties
  <2> QED BY <1>2, <2>2, <2>4
<1> QED BY <1>2, <1>3

\* SmartRecruiters: a posting put up in front is behind what was passed.
LEMMA SmartMoves ==
  ASSUME NEW n \in Posted, NEW f, Follows(f, Start(n), n, 0), NEW b, Changed(b, n)
  PROVE  Follows(f, b, n, 1)
<1>1. /\ f.total = n /\ f.offset \in Nat \ {0} /\ f.collected \subseteq KeysOf(1..n)
      /\ \A x \in 1..n : x <= f.offset => L!AsKey(x) \in f.collected
  BY StartIs DEF Follows, InStep
<1>2. CASE Lesser(b, n)
  BY <1>1, <1>2, LesserIs DEF Follows, Adrift
<1>3. ASSUME NEW p \in Postings, Ahead(b, n, p) PROVE Follows(f, b, n, 1)
  <2>1. \A i \in 1..Len(b) : i > 1 => b[i] \in 1..n
    BY <1>3, AheadHas
  <2>2. Len(b) = n + 1 /\ n \in Nat
    BY <1>3, GrownIs
  <2>3. \A i \in 1..Len(b) : i > f.offset => i > 1
    BY <1>1, <2>2
  <2> QED BY <1>1, <2>1, <2>3 DEF Follows, Adrift
<1>4. ASSUME NEW p \in Postings, Behind(b, n, p) PROVE Follows(f, b, n, 1)
  <2>1. L!ToSet(b) = (1..n) \union {p}
    BY <1>4, GrownIs
  <2>2. f.collected \subseteq KeysOf(L!ToSet(b))
    BY <1>1, <2>1, KeysGrow
  <2> QED BY <1>1, <1>4, <2>2 DEF Follows, InStep, Extends
<1> QED BY <1>2, <1>3, <1>4 DEF Changed

\* Workable: a posting put up in front is before the last that was given out.
LEMMA WorkableMoves ==
  ASSUME NEW n \in Posted, NEW f, HandedOut(f, Start(n), n, 0), NEW b, Changed(b, n)
  PROVE  HandedOut(f, b, n, 1)
<1>1. n \in Nat /\ Len(Start(n)) = n /\ \A i \in 1..n : Start(n)[i] = i
  BY StartIs
<1>2. PICK m \in 1..n : GivenAll(f, Start(n), n, 0, m)
  BY <1>1 DEF HandedOut
<1>3. /\ f.total = n /\ f.given = Span(Start(n), 0, m)
      /\ f.collected = KeysOf(Span(Start(n), 0, m))
  BY <1>2 DEF HandedOut, GivenAll
<1>4. Span(Start(n), 0, m) = 1..m
  BY <1>1, <1>2 DEF Span
<1>5. f.collected \subseteq KeysOf(1..n)
  BY <1>1, <1>2, <1>3, <1>4, KeysGrow
<1>6. CASE Lesser(b, n)
  BY <1>3, <1>5, <1>6, LesserIs DEF HandedOut, CutOff
<1>7. ASSUME NEW p \in Postings, Ahead(b, n, p) PROVE HandedOut(f, b, n, 1)
  <2>1. Len(b) = n + 1 /\ \A i \in 1..n : b[i + 1] = i
    BY <1>7, GrownIs
  <2>2. \A i \in 1..Len(b) : i > 1 => b[i] \in 1..n
    BY <1>7, AheadHas
  <2>3. 2 \in 1..Len(b) /\ b[2] \in f.given
    <3>1. 1 \in 1..n /\ 1 \in 1..m
      BY <1>1, <1>2
    <3>2. b[1 + 1] = 1
      BY <2>1, <3>1
    <3> QED BY <1>1, <1>3, <1>4, <2>1, <3>1, <3>2
  <2>4. ASSUME NEW i \in 1..Len(b), b[i] \notin 1..n PROVE \E k \in i..Len(b) : b[k] \in f.given
    <3>1. i = 1
      BY <1>1, <2>1, <2>2, <2>4
    <3>2. 2 \in i..Len(b)
      BY <1>1, <2>1, <2>3, <3>1
    <3> QED BY <2>3, <3>2
  <2> QED BY <1>3, <1>5, <2>4 DEF HandedOut, CutOff
<1>8. ASSUME NEW p \in Postings, Behind(b, n, p) PROVE HandedOut(f, b, n, 1)
  <2>1. Len(b) = n + 1 /\ \A i \in 1..n : b[i] = i
    BY <1>8, BehindHas
  <2>2. m \in 1..Len(b) /\ m \in 0..Len(b)
    BY <1>1, <1>2, <2>1
  <2>3. Span(b, 0, m) = 1..m
    BY <1>1, <1>2, <2>1 DEF Span
  <2>4. Extends(b, n, 1)
    BY <1>8 DEF Extends
  <2>5. GivenAll(f, b, n, 1, m)
    BY <1>3, <1>4, <2>2, <2>3, <2>4 DEF GivenAll
  <2> QED BY <1>3, <2>2, <2>5 DEF HandedOut
<1> QED BY <1>6, <1>7, <1>8 DEF Changed

\* Workday.
Bounded(f, b, B) ==
  /\ IsFiniteSet(B) /\ f.expected \in Nat /\ Cardinality(B) <= f.expected
  /\ f.collected \subseteq KeysOf(B) /\ f.offset \in Nat
  /\ f.slice \intersect L!ToSet(b) \subseteq B
  /\ \E V : Later(f, V) /\ V \intersect L!ToSet(b) \subseteq B

LEMMA CoversMoves ==
  ASSUME NEW n \in Posted, Began(n, 0), listed = Start(n), NEW f, Covers(f, Start(n), n, 0),
         NEW b, Changed(b, n)
  PROVE  Covers(f, b, n, 1) \/ Passed(f, b, n) \/ Bounded(f, b, 1..n)
<1>1. CASE Lesser(b, n)
  <2>1. Inside(f, b, 1..n)
    BY <1>1, CoversInside DEF Lesser
  <2> QED BY <2>1 DEF Bounded, Inside, Within
<1>2. ASSUME NEW p \in Postings, Ahead(b, n, p) \/ Behind(b, n, p)
      PROVE  Covers(f, b, n, 1) \/ Passed(f, b, n)
  <2> DEFINE u == Among(Start(n), f.slice)
             s == Among(b, f.slice)
  <2>1. /\ n \in Nat /\ p \notin 1..n /\ L!ToSet(b) = (1..n) \union {p}
    BY <1>2, GrownIs
  <2>2. /\ Start(n) \in Seq(Postings) /\ L!ToSet(Start(n)) = 1..n /\ Distinct(Start(n))
    BY StartIs
  <2>3. Grown(b, n, 1)
    BY <1>2 DEF Grown
  <2>4. /\ f.expected = n /\ Parted(f, n) /\ f.collected \subseteq KeysOf(1..n)
        /\ f.at \in {"first", "page"} /\ Grown(Start(n), n, 0)
    BY <2>2 DEF Covers
  <2>5. f.collected \subseteq KeysOf(L!ToSet(b))
    BY <2>1, <2>4, KeysGrow
  <2>6. CASE f.at = "first"
    <3>1. f.offset = 0 /\ f.seen = {}
      BY <2>6 DEF Covers
    <3> QED BY <2>3, <2>4, <2>5, <2>6, <3>1 DEF Covers
  <2>7. CASE f.at = "page"
    <3>1. f.offset > 0 /\ Mid(f, Start(n), n) /\ (f.offset < f.total \/ f.total = Ceiling)
          /\ f.total = Len(u)
      BY <2>7 DEF Covers
    <3>2. PICK V : /\ Later(f, V) /\ V \intersect f.slice = {} /\ Short(f.slice, n)
      BY <2>4 DEF Parted
    <3>3. Len(u) \in Nat /\ Len(u) < Ceiling
      <4>1. Len(Among(Start(n), f.slice)) \in Nat /\ Len(Among(Start(n), f.slice)) < Ceiling
        BY <2>4, <3>2, GrownIn
      <4> QED BY <4>1
    <3>4. /\ f.offset \in Nat /\ f.offset < f.total /\ f.total \in Nat /\ f.total < Ceiling
      <4>1. f.offset \in Nat
        BY <3>1 DEF Mid
      <4> HIDE DEF u
      <4>2. f.total # Ceiling
        BY <3>1, <3>3, PartsAssumption
      <4> QED BY <3>1, <3>3, <4>1, <4>2
    <3>5. \A S : /\ Among(Start(n), S) \in Seq(Postings)
                 /\ Len(Among(Start(n), S)) = Cardinality(S \intersect L!ToSet(Start(n)))
      BY <2>2, AmongSet
    <3>6. u \in Seq(Postings) /\ f.total = Cardinality(f.slice \intersect (1..n))
      BY <2>2, <3>1, <3>5
    <3>7. /\ \A i \in 1..Len(u) : i <= f.offset => L!AsKey(u[i]) \in f.collected
          /\ \A k \in f.seen : \E i \in 1..Len(u) : i <= f.offset /\ k = L!AsKey(u[i])
      BY <3>1 DEF Mid
    <3>8. ASSUME Ahead(b, n, p), p \in f.slice PROVE Passed(f, b, n)
      <4>1. p \notin V
        BY <3>2, <3>8
      <4>2. f.offset \in Nat \ {0}
        BY <3>1, <3>4
      <4> QED BY <2>4, <2>7, <3>2, <3>4, <3>6, <3>8, <4>1, <4>2 DEF Passed
    <3>9. ASSUME NEW t, t = Among(b, f.slice), t = u \/ t = Append(u, p) PROVE Mid(f, b, n)
      <4> HIDE DEF u, s
      <4>1. /\ Len(t) \in {Len(u), Len(u) + 1} /\ \A i \in 1..Len(u) : i \in 1..Len(t) /\ t[i] = u[i]
        <5>1. CASE t = u
          BY <3>3, <5>1
        <5>2. CASE t = Append(u, p)
          BY <2>1, <3>3, <3>6, <5>2
        <5> QED BY <3>9, <5>1, <5>2
      <4>2. ASSUME NEW i \in 1..Len(t), i > f.total PROVE t[i] \notin 1..n
        <5>1. t = Append(u, p) /\ i = Len(u) + 1
          BY <3>1, <3>3, <3>9, <4>1, <4>2
        <5>2. t[i] = p
          BY <3>3, <3>6, <5>1
        <5> QED BY <2>1, <5>2
      <4>3. ASSUME NEW i \in 1..Len(t), i <= f.offset PROVE L!AsKey(t[i]) \in f.collected
        <5>1. i \in 1..Len(u)
          BY <3>1, <3>3, <3>4, <4>1, <4>3
        <5> QED BY <3>7, <4>1, <4>3, <5>1
      <4>4. \A k \in f.seen : \E i \in 1..Len(t) : i <= f.offset /\ k = L!AsKey(t[i])
        BY <3>7, <4>1
      <4>5. f.total <= Ceiling
        BY <3>4, PartsAssumption
      <4> QED BY <3>4, <3>9, <4>2, <4>3, <4>4, <4>5 DEF Mid
    <3>10. ASSUME Mid(f, b, n) PROVE Covers(f, b, n, 1)
      BY <2>3, <2>4, <2>5, <2>7, <3>1, <3>4, <3>10 DEF Covers
    <3>11. ASSUME Behind(b, n, p) PROVE Mid(f, b, n)
      <4>1. b = Start(n) \o <<p>>
        BY <3>11 DEF Behind
      <4> DEFINE S == f.slice
      <4> HIDE DEF S
      <4>2. Among(Start(n) \o <<p>>, S) = IF p \in S THEN Append(Among(Start(n), S), p)
                                          ELSE Among(Start(n), S)
        BY <2>2, AmongBack
      <4>3. Among(b, f.slice) = u \/ Among(b, f.slice) = Append(u, p)
        BY <4>1, <4>2 DEF S
      <4> QED BY <3>9, <4>3
    <3>12. ASSUME Ahead(b, n, p), p \notin f.slice PROVE Mid(f, b, n)
      <4>1. b = <<p>> \o Start(n)
        BY <3>12 DEF Ahead
      <4> DEFINE S == f.slice
      <4> HIDE DEF S
      <4>2. Among(<<p>> \o Start(n), S) = IF p \in S THEN <<p>> \o Among(Start(n), S)
                                          ELSE Among(Start(n), S)
        BY <2>2, AmongFront
      <4>3. Among(b, f.slice) = u
        BY <3>12, <4>1, <4>2 DEF S
      <4> QED BY <3>9, <4>3
    <3> QED BY <1>2, <3>8, <3>10, <3>11, <3>12
  <2> QED BY <2>4, <2>6, <2>7
<1> QED BY <1>1, <1>2 DEF Changed

LEMMA OverMoves ==
  ASSUME NEW n \in Posted, NEW f, Over(f, Start(n), n), NEW b, Changed(b, n)
  PROVE  Bounded(f, b, 1..n) \/ Bounded(f, b, L!ToSet(b))
<1>1. /\ f.expected = n + 1 /\ f.offset \in Nat /\ f.collected \subseteq KeysOf(1..n)
  BY DEF Over, Inside, Within
<1>2. PICK V : Later(f, V)
  BY DEF Over, Inside, Within
<1>3. n \in Nat /\ IsFiniteSet(1..n) /\ Cardinality(1..n) = n
  BY StartIs
<1>4. CASE Lesser(b, n)
  BY <1>1, <1>2, <1>3, <1>4 DEF Lesser, Bounded
<1>5. ASSUME NEW p \in Postings, Ahead(b, n, p) \/ Behind(b, n, p) PROVE Bounded(f, b, L!ToSet(b))
  <2>1. /\ L!ToSet(b) = (1..n) \union {p} /\ IsFiniteSet((1..n) \union {p})
        /\ Cardinality((1..n) \union {p}) = n + 1
    BY <1>5, GrownIs
  <2> DEFINE B == L!ToSet(b)
  <2>2. IsFiniteSet(B) /\ Cardinality(B) = n + 1 /\ 1..n \subseteq B
    BY <2>1
  <2> HIDE DEF B
  <2>3. f.collected \subseteq KeysOf(B)
    BY <1>1, <2>2, KeysGrow
  <2>4. B = L!ToSet(b)
    BY DEF B
  <2> QED BY <1>1, <1>2, <1>3, <2>2, <2>3, <2>4 DEF Bounded
<1> QED BY <1>4, <1>5 DEF Changed

LEMMA CheckStarts ==
  ASSUME L!ListingsInit
  PROVE  \E n \in Posted : CheckOf(n)
<1>1. PICK n \in Posted : listed = [i \in 1..n |-> i]
  BY DEF L!ListingsInit
<1>2. listed = Start(n)
  BY <1>1 DEF Start
<1>3. L!ToSet(listed) = 1..n /\ listed \in Seq(Postings)
  BY <1>2, StartIs
<1>4. Faceted
  <2>1. Cardinality({g \in L!Groups : facets[g] = "lacking"}) <= LackingGroups
    BY CountingPostings DEF L!ListingsInit
  <2> QED BY <2>1 DEF Faceted, L!ListingsInit
<1>5. platform \in L!SingleResponse \union L!Paged /\ was = {L!ToSet(listed)} /\ changes = 0
  BY DEF L!ListingsInit
<1>6. fetch = L!NoFetch
  BY DEF L!ListingsInit
<1>7. IsFetch(fetch) /\ Fresh(fetch) /\ fetch.requests = 0
  BY <1>6 DEF L!NoFetch, IsFetch, FetchFields, Fresh
<1>8. Began(n, changes)
  BY <1>2, <1>3, <1>5 DEF Began
<1> QED BY <1>4, <1>5, <1>7, <1>8 DEF CheckOf, Underway

LEMMA CheckAnswered ==
  ASSUME OneChange, NEW n, CheckOf(n), NEW hollow \in BOOLEAN, L!Answer(hollow)
  PROVE  CheckOf(n)'
<1>1. UNCHANGED <<platform, listed, facets, was>> /\ fetch.at # "done"
      /\ changes' = IF hollow THEN changes + 1 ELSE changes
  BY DEF L!Answer
<1>2. /\ n \in Posted /\ changes \in {0, 1} /\ Began(n, changes) /\ Faceted
      /\ platform \in L!SingleResponse \union L!Paged
  BY DEF CheckOf
<1>3. /\ changes' \in {0, 1} /\ IsFetch(fetch')
      /\ \/ Shut(fetch', was, listed, changes')
         \/ /\ Going(fetch')
            /\ \/ platform = "workday" /\ OfWorkday(fetch', listed, n, changes')
               \/ platform = "smartrecruiters" /\ Follows(fetch', listed, n, changes')
               \/ platform = "workable" /\ HandedOut(fetch', listed, n, changes')
  BY <1>1, AnswerIs
<1>4. /\ Shut(fetch', was, listed, changes') => Shut(fetch, was, listed, changes)'
      /\ OfWorkday(fetch', listed, n, changes') => OfWorkday(fetch, listed, n, changes)'
      /\ Follows(fetch', listed, n, changes') => Follows(fetch, listed, n, changes)'
      /\ HandedOut(fetch', listed, n, changes') => HandedOut(fetch, listed, n, changes)'
      /\ Going(fetch') => Going(fetch)'
  BY <1>1, <1>2, Carried
<1>5. Shut(fetch, was, listed, changes)' \/ Underway(fetch, n, changes)'
  BY <1>1, <1>3, <1>4 DEF Underway
<1>6. Began(n, changes)'
  <2>1. changes' = 0 => changes = 0
    BY <1>1, <1>2
  <2> QED BY <1>1, <1>2, <2>1 DEF Began
<1>7. Faceted'
  BY <1>1, <1>2 DEF Faceted
<1>8. IsFetch(fetch)'
  BY <1>3 DEF IsFetch
<1>9. (platform \in L!SingleResponse \union L!Paged)'
  BY <1>1, <1>2 DEF L!SingleResponse, L!Paged
<1> QED BY <1>2, <1>3, <1>5, <1>6, <1>7, <1>8, <1>9 DEF CheckOf

\* Any other answer, or none, is no verdict.
LEMMA RefusedIs ==
  ASSUME NEW refusal \in L!Refusals
  PROVE  L!Failure(refusal) # "complete" /\ refusal \notin {"count_mismatch", "duplicate_posting"}
BY DEF L!Refusals, L!Failure, L!StatusFailure, L!TransportFailure

LEMMA CheckRefused ==
  ASSUME NEW n, CheckOf(n), NEW refusal \in L!Refusals, L!Refuse(refusal)
  PROVE  CheckOf(n)'
<1>1. /\ UNCHANGED <<platform, listed, facets, was, changes>>
      /\ fetch' = L!Result(fetch, L!Failure(refusal), refusal)
  BY DEF L!Refuse
<1>2. /\ n \in Posted /\ changes \in {0, 1} /\ Began(n, changes) /\ Faceted /\ IsFetch(fetch)
      /\ platform \in L!SingleResponse \union L!Paged
  BY DEF CheckOf
<1> DEFINE r == L!Result(fetch, L!Failure(refusal), refusal)
<1>3. IsFetch(r) /\ Shut(r, was, listed, changes)
  BY <1>2, RefusedIs, GivenUp
<1> HIDE DEF r
<1>4. fetch' = r
  BY <1>1 DEF r
<1>5. Shut(fetch, was, listed, changes)' /\ IsFetch(fetch)'
  BY <1>1, <1>3, <1>4 DEF Shut, IsFetch
<1>6. Began(n, changes)' /\ Faceted' /\ (changes \in {0, 1})'
  BY <1>1, <1>2 DEF Began, Faceted
<1>7. (platform \in L!SingleResponse \union L!Paged)'
  BY <1>1, <1>2 DEF L!SingleResponse, L!Paged
<1> QED BY <1>2, <1>5, <1>6, <1>7 DEF CheckOf

LEMMA CheckMoved ==
  ASSUME OneChange, NEW n, CheckOf(n), NEW b, Changed(b, n), L!Moves(b)
  PROVE  CheckOf(n)'
<1>1. /\ fetch.at # "done" /\ fetch.requests > 0 /\ changes < MaxChanges /\ changes' = changes + 1
      /\ listed' = b /\ was' = was \union {L!ToSet(b)} /\ UNCHANGED <<platform, facets, fetch>>
  BY DEF L!Moves
<1>2. /\ n \in Posted /\ changes \in {0, 1} /\ Began(n, changes) /\ Faceted /\ IsFetch(fetch)
      /\ platform \in L!SingleResponse \union L!Paged
  BY DEF CheckOf
<1>3. changes = 0 /\ changes' = 1
  BY <1>1, <1>2 DEF OneChange
<1>4. listed = Start(n) /\ Began(n, 0) /\ 1..n \in was
  BY <1>2, <1>3 DEF Began
<1>5. /\ Going(fetch)
      /\ \/ platform = "workday" /\ OfWorkday(fetch, Start(n), n, 0)
         \/ platform = "smartrecruiters" /\ Follows(fetch, Start(n), n, 0)
         \/ platform = "workable" /\ HandedOut(fetch, Start(n), n, 0)
  <2>1. ~ Shut(fetch, was, listed, changes)
    BY <1>1 DEF Shut
  <2>2. Underway(fetch, n, 0)
    BY <1>3, <2>1 DEF CheckOf
  <2>3. fetch.requests # 0
    BY <1>1
  <2> QED BY <1>4, <2>2, <2>3 DEF Underway
<1>6. Going(fetch)'
  BY <1>1, <1>5 DEF Going
<1>7. Follows(fetch, b, n, 1) => Follows(fetch, listed, n, changes)'
  BY <1>1, <1>3 DEF Follows, Adrift, InStep, Extends
<1>8. HandedOut(fetch, b, n, 1) => HandedOut(fetch, listed, n, changes)'
  BY <1>1, <1>3 DEF HandedOut, CutOff, GivenAll, Extends
<1>9. OfWorkday(fetch, Start(n), n, 0) => OfWorkday(fetch, listed, n, changes)'
  <2> SUFFICES ASSUME OfWorkday(fetch, Start(n), n, 0) PROVE OfWorkday(fetch, listed, n, changes)'
    OBVIOUS
  <2>1. CASE Spoilt(fetch)
    <3>1. Spoilt(fetch)'
      BY <1>1, <2>1 DEF Spoilt
    <3> QED BY <3>1 DEF OfWorkday
  <2>2. ASSUME Covers(fetch, b, n, 1) PROVE OfWorkday(fetch, listed, n, changes)'
    <3>1. Covers(fetch, listed, n, changes)'
      BY <1>1, <1>3, <2>2 DEF Covers
    <3> QED BY <3>1 DEF OfWorkday
  <2>3. ASSUME Passed(fetch, b, n) PROVE OfWorkday(fetch, listed, n, changes)'
    <3>1. Passed(fetch, listed, n)'
      BY <1>1, <2>3 DEF Passed
    <3> QED BY <1>3, <3>1 DEF OfWorkday
  <2>4. ASSUME NEW B, B \in {1..n, L!ToSet(b)}, Bounded(fetch, b, B)
        PROVE  OfWorkday(fetch, listed, n, changes)'
    <3>1. B \in was'
      BY <1>1, <1>4, <2>4
    <3>2. Within(fetch, listed, B)'
      BY <1>1, <2>4, <3>1 DEF Within, Bounded
    <3>3. Inside(fetch, listed, B)'
      BY <1>1, <2>4, <3>2 DEF Inside, Bounded
    <3> QED BY <1>3, <3>3 DEF OfWorkday
  <2>5. CASE Covers(fetch, Start(n), n, 0)
    BY <1>2, <1>4, <2>2, <2>3, <2>4, <2>5, CoversMoves
  <2>6. CASE Over(fetch, Start(n), n)
    BY <1>2, <2>4, <2>6, OverMoves
  <2> QED BY <2>1, <2>5, <2>6 DEF OfWorkday
<1>10. Underway(fetch, n, changes)'
  <2>1. CASE platform = "workday"
    BY <1>1, <1>5, <1>6, <1>9, <2>1 DEF Underway
  <2>2. CASE platform = "smartrecruiters"
    <3>1. Follows(fetch, b, n, 1)
      BY <1>2, <1>5, <2>2, SmartMoves
    <3> QED BY <1>1, <1>6, <1>7, <2>2, <3>1 DEF Underway
  <2>3. CASE platform = "workable"
    <3>1. HandedOut(fetch, b, n, 1)
      BY <1>2, <1>5, <2>3, WorkableMoves
    <3> QED BY <1>1, <1>6, <1>8, <2>3, <3>1 DEF Underway
  <2> QED BY <1>5, <2>1, <2>2, <2>3
<1>11. Began(n, changes)'
  <2>1. b \in Seq(Postings)
    <3>1. ASSUME NEW p \in Postings, Ahead(b, n, p) \/ Behind(b, n, p) PROVE b \in Seq(Postings)
      BY <1>2, <3>1, GrownIs
    <3> QED BY <3>1 DEF Changed, Lesser
  <2> QED BY <1>1, <1>2, <1>3, <1>4, <2>1 DEF Began
<1>12. Faceted' /\ IsFetch(fetch)' /\ (changes \in {0, 1})'
  BY <1>1, <1>2, <1>3 DEF Faceted, IsFetch
<1>13. (platform \in L!SingleResponse \union L!Paged)'
  BY <1>1, <1>2 DEF L!SingleResponse, L!Paged
<1> QED BY <1>2, <1>10, <1>11, <1>12, <1>13 DEF CheckOf

LEMMA CheckSteps ==
  ASSUME OneChange, NEW n, CheckOf(n), L!ListingsNext
  PROVE  CheckOf(n)'
<1>1. n \in Posted /\ changes \in {0, 1} /\ Began(n, changes)
  BY DEF CheckOf
<1>2. ASSUME NEW b, L!Moves(b) PROVE listed = Start(n) /\ listed \in Seq(Postings) /\ L!ToSet(listed) = 1..n
  <2>1. changes = 0
    BY <1>1, <1>2 DEF L!Moves, OneChange
  <2>2. listed = Start(n)
    BY <1>1, <2>1 DEF Began
  <2> QED BY <1>1, <2>2, StartIs
<1>3. ASSUME NEW i \in DOMAIN listed, L!TakeDown(i) PROVE CheckOf(n)'
  <2>1. L!Moves(L!RemoveAt(listed, i))
    BY <1>3 DEF L!TakeDown
  <2>2. Changed(L!RemoveAt(listed, i), n)
    BY <1>2, <2>1, Removed DEF Changed, Lesser
  <2> QED BY <2>1, <2>2, CheckMoved
<1>4. ASSUME NEW p \in Postings, L!PutUp(p) PROVE CheckOf(n)'
  <2>1. PICK b : L!Moves(b) /\ (b = <<p>> \o listed \/ b = listed \o <<p>>) /\ p \notin L!ToSet(listed)
    BY <1>4 DEF L!PutUp
  <2>2. p \in Postings \ (1..n) /\ listed = Start(n)
    BY <1>2, <2>1
  <2>3. Ahead(b, n, p) \/ Behind(b, n, p)
    BY <2>1, <2>2 DEF Ahead, Behind
  <2>4. Changed(b, n)
    BY <2>3 DEF Changed
  <2> QED BY <2>1, <2>4, CheckMoved
<1>5. ASSUME NEW hollow \in BOOLEAN, L!Answer(hollow) PROVE CheckOf(n)'
  BY <1>5, CheckAnswered
<1>6. ASSUME NEW refusal \in L!Refusals, L!Refuse(refusal) PROVE CheckOf(n)'
  BY <1>6, CheckRefused
<1> QED BY <1>3, <1>4, <1>5, <1>6 DEF L!ListingsNext

LEMMA ChecksAlways ==
  ASSUME OneChange
  PROVE  MCSpec => []CheckInv
<1>1. MCInit => CheckInv
  <2> SUFFICES ASSUME MCInit, mode = "check" PROVE \E n \in Posted : CheckOf(n)
    BY DEF CheckInv
  <2>1. L!ListingsInit
    BY DEF MCInit
  <2> QED BY <2>1, CheckStarts
<1>2. CheckInv /\ [MCNext]_MCVars => CheckInv'
  <2> SUFFICES ASSUME CheckInv, [MCNext]_MCVars, mode' = "check"
               PROVE  \E n \in Posted : CheckOf(n)'
    BY DEF CheckInv
  <2>1. mode = "check"
    BY DEF MCNext, MCVars
  <2>2. PICK n \in Posted : CheckOf(n)
    BY <2>1 DEF CheckInv
  <2>3. CASE L!ListingsNext
    BY <2>2, <2>3, CheckSteps
  <2>4. CASE UNCHANGED <<platform, listed, facets, was, changes, fetch>>
    <3>1. CheckOf(n)'
      <4>1. Began(n, changes)' /\ Faceted' /\ IsFetch(fetch)' /\ (changes \in {0, 1})'
        BY <2>2, <2>4 DEF CheckOf, Began, Faceted, IsFetch
      <4>2. (platform \in L!SingleResponse \union L!Paged)'
        BY <2>2, <2>4 DEF CheckOf, L!SingleResponse, L!Paged
      <4>3. /\ Shut(fetch, was, listed, changes) => Shut(fetch', was, listed, changes')
            /\ OfWorkday(fetch, listed, n, changes) => OfWorkday(fetch', listed, n, changes')
            /\ Follows(fetch, listed, n, changes) => Follows(fetch', listed, n, changes')
            /\ HandedOut(fetch, listed, n, changes) => HandedOut(fetch', listed, n, changes')
            /\ Going(fetch) => Going(fetch')
            /\ Fresh(fetch) => Fresh(fetch')
        BY <2>4
      <4>4. /\ Shut(fetch', was, listed, changes') => Shut(fetch, was, listed, changes)'
            /\ OfWorkday(fetch', listed, n, changes') => OfWorkday(fetch, listed, n, changes)'
            /\ Follows(fetch', listed, n, changes') => Follows(fetch, listed, n, changes)'
            /\ HandedOut(fetch', listed, n, changes') => HandedOut(fetch, listed, n, changes)'
            /\ Going(fetch') => Going(fetch)'
        BY <2>4, Carried
      <4>5. Fresh(fetch) /\ fetch.requests = 0 => Fresh(fetch)' /\ (fetch.requests = 0)'
        BY <2>4 DEF Fresh
      <4>6. Underway(fetch, n, changes) => Underway(fetch, n, changes)'
        BY <2>4, <4>3, <4>4, <4>5 DEF Underway
      <4>7. Shut(fetch, was, listed, changes)' \/ Underway(fetch, n, changes)'
        BY <2>2, <4>3, <4>4, <4>6 DEF CheckOf
      <4> QED BY <4>1, <4>2, <4>7 DEF CheckOf
    <3> QED BY <3>1
  <2> QED BY <2>1, <2>3, <2>4 DEF MCNext, MCVars, checkVars
<1> QED BY <1>1, <1>2, PTL DEF MCSpec

LEMMA CheckSays ==
  ASSUME CheckInv, mode = "check"
  PROVE  L!CompleteIsTheBoard /\ L!QuietIsWhole
<1>1. PICK n \in Posted : CheckOf(n)
  BY DEF CheckInv
<1>2. Shut(fetch, was, listed, changes) \/ (fetch.status = None /\ fetch.code = None)
  BY <1>1 DEF CheckOf, Underway, Fresh, Going
<1>3. L!Jobs = JobsOf(fetch.collected)
  BY DEF L!Jobs, JobsOf
<1>4. L!CompleteIsTheBoard
  BY <1>2, <1>3, PartsAssumption DEF L!CompleteIsTheBoard, Shut
<1>5. L!QuietIsWhole
  BY <1>2, PartsAssumption DEF L!QuietIsWhole, Shut
<1> QED BY <1>4, <1>5

\* A check that says it saw the whole board lists exactly what the board listed at some
\* moment of the check, whatever its platform, its pages and its limits. Only such a check
\* may close a job (jfl_intake.adapters, the verdict). Of boards that change no more than
\* once while they are read, no more than one facet of which lacks a posting, and which
\* hold what an overlapping facet has twice if they are too long for Workday to list.
THEOREM CompleteIsSeen ==
  ASSUME OneChange
  PROVE  MCSpec => [](mode = "check" => L!CompleteIsTheBoard)
<1>1. CheckInv => (mode = "check" => L!CompleteIsTheBoard)
  BY CheckSays
<1> QED BY <1>1, ChecksAlways, PTL

\* A check of a board that stays still, and that lists whole, never takes a wrap or its own
\* paging for a board that does not add up: it counts as many as it was told, and is handed
\* no posting twice (jfl_intake.adapters, the paged platforms).
THEOREM QuietStaysWhole ==
  ASSUME OneChange
  PROVE  MCSpec => [](mode = "check" => L!QuietIsWhole)
<1>1. CheckInv => (mode = "check" => L!QuietIsWhole)
  BY CheckSays
<1> QED BY <1>1, ChecksAlways, PTL

----------------------------------------------------------------------------
(* The lines of an ad: lists that rise, and lists of lists.                   *)

Rising(s) == \A i, k \in 1..Len(s) : i < k => s[i] < s[k]

LEMMA TextsOf ==
  ASSUME NEW P, NEW s \in Seq(P)
  PROVE  /\ \A x : x \in D!ToSet(s) <=> \E i \in 1..Len(s) : s[i] = x
         /\ DOMAIN s = 1..Len(s) /\ D!ToSet(s) \subseteq P
BY DEF D!ToSet

LEMMA JoinedRising ==
  ASSUME NEW s \in Seq(Nat), NEW t \in Seq(Nat), Rising(s), Rising(t),
         \A i \in 1..Len(s) : \A k \in 1..Len(t) : s[i] < t[k]
  PROVE  /\ s \o t \in Seq(Nat) /\ Rising(s \o t)
         /\ \A x : x \in D!ToSet(s \o t) <=> x \in D!ToSet(s) \/ x \in D!ToSet(t)
<1> DEFINE r == s \o t  m == Len(s)
<1>1. /\ r \in Seq(Nat) /\ Len(r) = m + Len(t)
      /\ \A i \in 1..(m + Len(t)) : r[i] = IF i <= m THEN s[i] ELSE t[i - m]
  BY ConcatProperties
<1>2. m \in Nat /\ Len(t) \in Nat
  OBVIOUS
<1> HIDE DEF r, m
<1>3. \A i \in 1..Len(r) : (i <= m /\ i \in 1..m) \/ (~ (i <= m) /\ i - m \in 1..Len(t))
  BY <1>1, <1>2
<1>4. Rising(r)
  <2> SUFFICES ASSUME NEW i \in 1..Len(r), NEW k \in 1..Len(r), i < k PROVE r[i] < r[k]
    BY DEF Rising
  <2>1. /\ r[i] = IF i <= m THEN s[i] ELSE t[i - m]
        /\ r[k] = IF k <= m THEN s[k] ELSE t[k - m]
    BY <1>1
  <2>2. CASE k <= m
    <3>1. i <= m /\ i \in 1..m /\ k \in 1..m
      BY <1>2, <1>3, <2>2
    <3> QED BY <2>1, <2>2, <3>1 DEF Rising, m
  <2>3. CASE ~ (k <= m) /\ i <= m
    BY <1>3, <2>1, <2>3 DEF m
  <2>4. CASE ~ (k <= m) /\ ~ (i <= m)
    <3>1. i - m < k - m /\ i - m \in 1..Len(t) /\ k - m \in 1..Len(t)
      BY <1>2, <1>3, <2>4
    <3> QED BY <2>1, <2>4, <3>1 DEF Rising
  <2> QED BY <2>2, <2>3, <2>4
<1>5. ASSUME NEW x PROVE x \in D!ToSet(r) <=> x \in D!ToSet(s) \/ x \in D!ToSet(t)
  <2>1. /\ x \in D!ToSet(r) <=> \E i \in 1..Len(r) : r[i] = x
        /\ x \in D!ToSet(s) <=> \E i \in 1..m : s[i] = x
        /\ x \in D!ToSet(t) <=> \E i \in 1..Len(t) : t[i] = x
    BY <1>1, TextsOf DEF m
  <2>2. x \in D!ToSet(r) => x \in D!ToSet(s) \/ x \in D!ToSet(t)
    BY <1>1, <1>3, <2>1
  <2>3. ASSUME NEW i \in 1..m, s[i] = x PROVE x \in D!ToSet(r)
    <3>1. i \in 1..(m + Len(t)) /\ i <= m
      BY <1>2
    <3> QED BY <1>1, <2>1, <2>3, <3>1
  <2>4. ASSUME NEW i \in 1..Len(t), t[i] = x PROVE x \in D!ToSet(r)
    <3>1. i + m \in 1..(m + Len(t)) /\ ~ (i + m <= m) /\ (i + m) - m = i
      BY <1>2
    <3> QED BY <1>1, <2>1, <2>4, <3>1
  <2> QED BY <2>1, <2>2, <2>3, <2>4
<1> QED BY <1>1, <1>4, <1>5 DEF r

IsFlat(u, s, m) == u = [i \in 1..m |-> IF i = 1 THEN s[i] ELSE u[i - 1] \o s[i]]

LEMMA FlatExists ==
  ASSUME NEW s, NEW n \in Nat
  PROVE  \E u : IsFlat(u, s, n)
<1> DEFINE S == {m \in 0..n : \E u : IsFlat(u, s, m)}
<1>1. 0 \in S
  <2>1. IsFlat([k \in 1..0 |-> <<>>], s, 0)
    BY DEF IsFlat
  <2> QED BY <2>1
<1>2. ASSUME NEW m \in 0..n, m # n, m \in S PROVE m + 1 \in S
  <2>1. m \in Nat /\ m + 1 \in 0..n
    BY <1>2
  <2>2. PICK u : IsFlat(u, s, m)
    BY <1>2
  <2>3. \A k \in 1..m : u[k] = IF k = 1 THEN s[k] ELSE u[k - 1] \o s[k]
    BY <2>2 DEF IsFlat
  <2> DEFINE x == IF m = 0 THEN s[1] ELSE u[m] \o s[m + 1]
             v == [k \in 1..(m + 1) |-> IF k = m + 1 THEN x ELSE u[k]]
  <2>4. \A k \in 1..(m + 1) : v[k] = IF k = m + 1 THEN x ELSE u[k]
    OBVIOUS
  <2>5. v = [k \in 1..(m + 1) |-> v[k]]
    OBVIOUS
  <2> HIDE DEF v
  <2>6. \A k \in 1..(m + 1) : v[k] = IF k = 1 THEN s[k] ELSE v[k - 1] \o s[k]
    <3> SUFFICES ASSUME NEW k \in 1..(m + 1)
                 PROVE  v[k] = IF k = 1 THEN s[k] ELSE v[k - 1] \o s[k]
      OBVIOUS
    <3>1. CASE k = m + 1
      <4>1. v[k] = x
        BY <2>4, <3>1
      <4>2. CASE m = 0
        BY <3>1, <4>1, <4>2
      <4>3. CASE m # 0
        <5>1. k - 1 = m /\ m \in 1..(m + 1) /\ m # m + 1 /\ k # 1
          BY <2>1, <3>1, <4>3
        <5>2. v[m] = u[m]
          BY <2>4, <5>1
        <5> QED BY <3>1, <4>1, <4>3, <5>1, <5>2
      <4> QED BY <4>2, <4>3
    <3>2. CASE k # m + 1
      <4>1. k \in 1..m
        BY <2>1, <3>2
      <4>2. v[k] = u[k]
        BY <2>4, <3>2
      <4>3. k # 1 => k - 1 \in 1..(m + 1) /\ k - 1 # m + 1
        BY <2>1, <4>1
      <4>4. k # 1 => v[k - 1] = u[k - 1]
        BY <2>4, <4>3
      <4> QED BY <2>3, <4>1, <4>2, <4>4
    <3> QED BY <3>1, <3>2
  <2>7. IsFlat(v, s, m + 1)
    BY <2>5, <2>6 DEF IsFlat
  <2> QED BY <2>1, <2>7
<1> HIDE DEF S
<1>3. \A m \in 0..n : m \in S
  BY <1>1, <1>2, Upward
<1>4. n \in 0..n
  OBVIOUS
<1> QED BY <1>3, <1>4 DEF S

LEMMA FlatIs ==
  ASSUME NEW s, Len(s) \in Nat, Len(s) # 0
  PROVE  \E u : /\ D!FlattenSeq(s) = u[Len(s)]
                /\ \A i \in 1..Len(s) : u[i] = IF i = 1 THEN s[i] ELSE u[i - 1] \o s[i]
<1> DEFINE u == CHOOSE flatten : IsFlat(flatten, s, Len(s))
<1>1. IsFlat(u, s, Len(s))
  BY FlatExists
<1>2. D!FlattenSeq(s) = u[Len(s)]
  BY DEF D!FlattenSeq, IsFlat
<1> HIDE DEF u
<1>3. \A i \in 1..Len(s) : u[i] = IF i = 1 THEN s[i] ELSE u[i - 1] \o s[i]
  BY <1>1 DEF IsFlat
<1> QED BY <1>2, <1>3

\* Lists that rise one after the other, taken together, rise, and have what they have.
LEMMA FlatRising ==
  ASSUME NEW s \in Seq(Seq(Nat)), \A b \in 1..Len(s) : Rising(s[b]),
         \A b, c \in 1..Len(s) :
            b < c => \A i \in 1..Len(s[b]) : \A k \in 1..Len(s[c]) : s[b][i] < s[c][k]
  PROVE  LET r == D!FlattenSeq(s) IN
         /\ r \in Seq(Nat) /\ Rising(r)
         /\ \A x : x \in D!ToSet(r) <=> \E b \in 1..Len(s) : x \in D!ToSet(s[b])
<1>1. Len(s) \in Nat /\ \A b \in 1..Len(s) : s[b] \in Seq(Nat)
  OBVIOUS
<1> DEFINE r == D!FlattenSeq(s)
           Flat(t) == /\ t \in Seq(Nat) /\ Rising(t)
                      /\ \A x : x \in D!ToSet(t) <=> \E b \in 1..Len(s) : x \in D!ToSet(s[b])
<1>2. CASE Len(s) = 0
  <2>1. r = s /\ s = <<>>
    BY <1>2 DEF D!FlattenSeq
  <2>2. <<>> \in Seq(Nat) /\ Len(<<>>) = 0
    OBVIOUS
  <2>3. Rising(<<>>)
    BY <2>2 DEF Rising
  <2>4. D!ToSet(<<>>) = {}
    BY DEF D!ToSet
  <2> HIDE DEF r
  <2>5. ~ \E b \in 1..Len(s) : TRUE
    BY <1>2
  <2> QED BY <2>1, <2>2, <2>3, <2>4, <2>5 DEF r
<1>3. CASE Len(s) # 0
  <2>1. PICK u : /\ r = u[Len(s)]
                 /\ \A i \in 1..Len(s) : u[i] = IF i = 1 THEN s[i] ELSE u[i - 1] \o s[i]
    BY <1>1, <1>3, FlatIs
  <2> HIDE DEF r
  <2> DEFINE n == Len(s) - 1
             Q(m) == /\ u[m] \in Seq(Nat) /\ Rising(u[m])
                     /\ \A x : x \in D!ToSet(u[m]) <=> \E b \in 1..m : x \in D!ToSet(s[b])
             S == {m \in 0..n : Q(m + 1)}
  <2>2. n \in Nat /\ n + 1 = Len(s)
    BY <1>1, <1>3
  <2> HIDE DEF n
  <2>3. 0 \in S
    <3>1. 1 \in 1..Len(s) /\ u[1] = s[1]
      BY <2>1, <2>2
    <3>2. 1..1 = {1}
      OBVIOUS
    <3>3. Q(1)
      BY <1>1, <3>1, <3>2
    <3>4. 0 + 1 = 1 /\ 0 \in 0..n
      BY <2>2
    <3> QED BY <3>3, <3>4
  <2>4. ASSUME NEW m \in 0..n, m # n, m \in S PROVE m + 1 \in S
    <3> DEFINE a == m + 1  z == m + 2
    <3>1. /\ a \in 0..n /\ z \in 1..Len(s) /\ z # 1 /\ z - 1 = a /\ a + 1 = z
          /\ \A b \in 1..z : b = z \/ b \in 1..a
          /\ \A b \in 1..a : b \in 1..Len(s) /\ b < z /\ b \in 1..z
          /\ z \in 1..z
      <4>1. m \in Nat /\ m < n
        BY <2>2, <2>4
      <4>2. a \in Nat /\ z \in Nat /\ a + 1 = z /\ z - 1 = a /\ z # 1 /\ a <= n
        BY <2>2, <4>1
      <4> HIDE DEF a, z
      <4> QED BY <2>2, <4>2
    <3>2. Q(a)
      BY <2>4
    <3> HIDE DEF a, z
    <3>3. u[z] = u[a] \o s[z]
      BY <2>1, <3>1
    <3>4. u[a] \in Seq(Nat) /\ Rising(u[a]) /\ s[z] \in Seq(Nat) /\ Rising(s[z])
          /\ \A x : x \in D!ToSet(u[a]) <=> \E b \in 1..a : x \in D!ToSet(s[b])
      BY <1>1, <3>1, <3>2
    <3>5. ASSUME NEW i \in 1..Len(u[a]), NEW k \in 1..Len(s[z]) PROVE u[a][i] < s[z][k]
      <4>1. u[a][i] \in D!ToSet(u[a])
        BY <3>4, TextsOf
      <4>2. PICK b \in 1..a : u[a][i] \in D!ToSet(s[b])
        BY <3>4, <4>1
      <4>3. b \in 1..Len(s) /\ b < z /\ s[b] \in Seq(Nat)
        BY <1>1, <3>1
      <4>4. PICK j \in 1..Len(s[b]) : s[b][j] = u[a][i]
        BY <4>2, <4>3, TextsOf
      <4>5. s[b][j] < s[z][k]
        BY <3>1, <4>3
      <4> QED BY <4>4, <4>5
    <3>6. /\ u[a] \o s[z] \in Seq(Nat) /\ Rising(u[a] \o s[z])
          /\ \A x : x \in D!ToSet(u[a] \o s[z]) <=> x \in D!ToSet(u[a]) \/ x \in D!ToSet(s[z])
      BY <3>4, <3>5, JoinedRising
    <3>7. ASSUME NEW x PROVE x \in D!ToSet(u[z]) <=> \E b \in 1..z : x \in D!ToSet(s[b])
      BY <3>1, <3>3, <3>4, <3>6
    <3>8. Q(z)
      BY <3>3, <3>6, <3>7
    <3> QED BY <3>1, <3>8 DEF a
  <2> HIDE DEF S, Q
  <2>5. \A m \in 0..n : m \in S
    BY <2>2, <2>3, <2>4, Upward
  <2>6. Q(Len(s))
    BY <2>2, <2>5 DEF S
  <2>7. Flat(r)
    BY <2>1, <2>6 DEF Q
  <2> QED BY <2>7 DEF r
<1> QED BY <1>2, <1>3

\* What rises where it is in a set, rises in the part of it that is.
LEMMA AmongRising ==
  ASSUME NEW b \in Seq(Nat), NEW V,
         \A i, k \in 1..Len(b) : i < k /\ b[i] \in V /\ b[k] \in V => b[i] < b[k]
  PROVE  Rising(Among(b, V))
<1> DEFINE n == Len(b)
<1>1. n \in Nat /\ \A k \in 1..n : b[k] \in Nat
  OBVIOUS
<1>2. PICK u : /\ Among(b, V) = u[n] /\ u[0] = <<>>
               /\ \A m \in 1..n : u[m] = IF b[m] \in V THEN Append(u[m - 1], b[m]) ELSE u[m - 1]
  <2>1. Len(b) \in Nat
    OBVIOUS
  <2>2. PICK u : Gathers(u, b, V)
    BY <2>1, AmongIs
  <2> QED BY <2>2 DEF Gathers
<1> DEFINE Q(m) == /\ u[m] \in Seq(Nat) /\ Rising(u[m])
                   /\ \A i \in 1..Len(u[m]) : \E k \in 1..m : b[k] = u[m][i] /\ b[k] \in V
           S == {m \in 0..n : Q(m)}
<1>3. 0 \in S
  <2>1. Q(0)
    BY <1>2 DEF Rising
  <2> QED BY <1>1, <2>1
<1>4. ASSUME NEW m \in 0..n, m # n, m \in S PROVE m + 1 \in S
  <2>1. m \in Nat /\ m + 1 \in 1..n /\ m + 1 \in 0..n /\ (m + 1) - 1 = m
    BY <1>1, <1>4
  <2>2. u[m + 1] = IF b[m + 1] \in V THEN Append(u[m], b[m + 1]) ELSE u[m]
    BY <1>2, <2>1
  <2>3. Q(m)
    BY <1>4
  <2> DEFINE s == u[m]
             e == b[m + 1]
             t == u[m + 1]
  <2>4. e \in Nat /\ s \in Seq(Nat) /\ Len(s) \in Nat
    BY <1>1, <2>1, <2>3
  <2>5. \A k \in 1..m : k \in 1..(m + 1) /\ k \in 1..n /\ k < m + 1
    BY <1>1, <2>1
  <2>6. CASE e \notin V
    <3>1. t = s
      BY <2>2, <2>6
    <3>2. Q(m + 1)
      BY <2>3, <2>5, <3>1
    <3> QED BY <2>1, <3>2
  <2>7. CASE e \in V
    <3>1. /\ t \in Seq(Nat) /\ Len(t) = Len(s) + 1 /\ t[Len(s) + 1] = e
          /\ \A i \in 1..Len(s) : t[i] = s[i]
      BY <2>2, <2>4, <2>7, AppendProperties
    <3>2. \A i \in 1..Len(t) : i = Len(s) + 1 \/ i \in 1..Len(s)
      BY <2>4, <3>1
    <3>3. \A i \in 1..Len(s) : \E k \in 1..m : b[k] = s[i] /\ b[k] \in V
      BY <2>3
    <3>4. Rising(s)
      BY <2>3
    <3>5. \A i \in 1..Len(s) : s[i] < e
      BY <1>1, <2>1, <2>5, <2>7, <3>3
    <3>6. m + 1 \in 1..(m + 1)
      BY <2>1
    <3> HIDE DEF s, t, e, Q
    <3>7. Rising(t)
      <4> SUFFICES ASSUME NEW i \in 1..Len(t), NEW k \in 1..Len(t), i < k PROVE t[i] < t[k]
        BY DEF Rising
      <4>1. i \in 1..Len(s)
        BY <2>4, <3>1, <3>2
      <4> QED BY <3>1, <3>2, <3>4, <3>5, <4>1 DEF Rising
    <3>8. \A i \in 1..Len(t) : \E k \in 1..(m + 1) : b[k] = t[i] /\ b[k] \in V
      <4> SUFFICES ASSUME NEW i \in 1..Len(t) PROVE \E k \in 1..(m + 1) : b[k] = t[i] /\ b[k] \in V
        OBVIOUS
      <4>1. CASE i = Len(s) + 1
        BY <2>7, <3>1, <3>6, <4>1 DEF e
      <4>2. CASE i \in 1..Len(s)
        <5>1. PICK k \in 1..m : b[k] = s[i] /\ b[k] \in V
          BY <3>3, <4>2
        <5> QED BY <2>5, <3>1, <4>2, <5>1
      <4> QED BY <3>2, <4>1, <4>2
    <3>9. Q(m + 1)
      BY <3>1, <3>7, <3>8 DEF Q, t
    <3> QED BY <2>1, <3>9
  <2> QED BY <2>6, <2>7
<1> HIDE DEF S, Q
<1>5. \A m \in 0..n : m \in S
  BY <1>1, <1>3, <1>4, Upward
<1>6. Q(n)
  BY <1>1, <1>5 DEF S
<1> QED BY <1>2, <1>6 DEF Q

\* The texts that are kept of those that wait.
LEMMA KeptIs ==
  ASSUME NEW b \in Seq(Nat),
         \A i, k \in 1..Len(b) : i < k /\ b[i] # 0 /\ b[k] # 0 => b[i] < b[k]
  PROVE  /\ D!Kept(b) \in Seq(Nat) /\ Rising(D!Kept(b))
         /\ \A x : x \in D!ToSet(D!Kept(b)) <=> x # 0 /\ x \in D!ToSet(b)
<1>1. D!Kept(b) = Among(b, D!Texts)
  BY DEF D!Kept, Among
<1>2. \A i \in 1..Len(b) : b[i] \in D!Texts <=> b[i] # 0
  BY DEF D!Texts, D!Br
<1>3. Rising(Among(b, D!Texts))
  BY <1>2, AmongRising
<1>4. /\ Among(b, D!Texts) \in Seq(Nat)
      /\ \A i \in 1..Len(Among(b, D!Texts)) :
           Among(b, D!Texts)[i] \in D!Texts /\ \E k \in 1..Len(b) : b[k] = Among(b, D!Texts)[i]
      /\ \A k \in 1..Len(b) : b[k] \in D!Texts
           => \E i \in 1..Len(Among(b, D!Texts)) : Among(b, D!Texts)[i] = b[k]
  BY AmongOf
<1> DEFINE r == Among(b, D!Texts)
<1>5. ASSUME NEW x PROVE x \in D!ToSet(r) <=> x # 0 /\ x \in D!ToSet(b)
  <2>1. /\ x \in D!ToSet(r) <=> \E i \in 1..Len(r) : r[i] = x
        /\ x \in D!ToSet(b) <=> \E i \in 1..Len(b) : b[i] = x
    BY <1>4, TextsOf
  <2> HIDE DEF r
  <2>2. /\ \A i \in 1..Len(r) : r[i] \in D!Texts /\ \E k \in 1..Len(b) : b[k] = r[i]
        /\ \A k \in 1..Len(b) : b[k] \in D!Texts => \E i \in 1..Len(r) : r[i] = b[k]
    BY <1>4 DEF r
  <2> QED BY <1>2, <2>1, <2>2
<1> QED BY <1>1, <1>3, <1>4, <1>5

----------------------------------------------------------------------------
(* What opens and what closes: the open ones are a stack.                     *)

\* How many of a set there are after one place and up to another.
In(S, j, k) == Cardinality({i \in (j + 1)..k : i \in S})
\* Those that open and are not closed by then.
StillOpen(U, E, n) ==
  {j \in 1..n : j \in U /\ \A k \in (j + 1)..n : In(U, j, k) + 1 > In(E, j, k)}
\* The open ones, the innermost last: each is closed by as many as there are from it on.
Nest(st, U, E, n) ==
  /\ st \in Seq(Nat) /\ Rising(st)
  /\ \A x : x \in StillOpen(U, E, n) <=> \E k \in 1..Len(st) : st[k] = x
  /\ \A k \in 1..Len(st) : In(U, st[k], n) + 1 = In(E, st[k], n) + (Len(st) - k + 1)

LEMMA InIs ==
  ASSUME NEW S
  PROVE  /\ \A j, k \in Nat : In(S, j, k) \in Nat
         /\ \A k \in Nat : In(S, k, k) = 0
         /\ \A j, k \in Nat : j <= k =>
              In(S, j, k + 1) = IF k + 1 \in S THEN In(S, j, k) + 1 ELSE In(S, j, k)
<1>1. ASSUME NEW j \in Nat, NEW k \in Nat PROVE IsFiniteSet({i \in (j + 1)..k : i \in S})
  <2>1. IsFiniteSet((j + 1)..k)
    BY <1>1, FS_Interval
  <2> QED BY <2>1, FS_Subset
<1>2. ASSUME NEW j \in Nat, NEW k \in Nat PROVE In(S, j, k) \in Nat
  BY <1>1, <1>2, FS_CardinalityType DEF In
<1>3. ASSUME NEW k \in Nat PROVE In(S, k, k) = 0
  <2>1. {i \in (k + 1)..k : i \in S} = {}
    BY <1>3
  <2> QED BY <2>1, FS_EmptySet DEF In
<1>4. ASSUME NEW j \in Nat, NEW k \in Nat, j <= k
      PROVE  In(S, j, k + 1) = IF k + 1 \in S THEN In(S, j, k) + 1 ELSE In(S, j, k)
  <2> DEFINE A == {i \in (j + 1)..k : i \in S}
             B == {i \in (j + 1)..(k + 1) : i \in S}
  <2>1. (j + 1)..(k + 1) = ((j + 1)..k) \union {k + 1} /\ k + 1 \notin (j + 1)..k
    BY <1>4
  <2>2. CASE k + 1 \in S
    <3>1. B = A \union {k + 1} /\ k + 1 \notin A
      BY <2>1, <2>2
    <3>2. IsFiniteSet(A)
      BY <1>1, <1>4
    <3> HIDE DEF A, B
    <3>3. Cardinality(B) = Cardinality(A) + 1
      BY <3>1, <3>2, FS_AddElement
    <3> QED BY <2>2, <3>3 DEF In, A, B
  <2>3. CASE k + 1 \notin S
    <3>1. B = A
      BY <2>1, <2>3
    <3> QED BY <2>3, <3>1 DEF In
  <2> QED BY <2>2, <2>3
<1> QED BY <1>2, <1>3, <1>4

\* What comes after does not count.
Alike(S, T, n) == \A i \in 1..n : i \in S <=> i \in T
LEMMA InOfMore ==
  ASSUME NEW S, NEW T, NEW n \in Nat, Alike(S, T, n)
  PROVE  \A j \in Nat : \A k \in 0..n : In(S, j, k) = In(T, j, k)
<1> SUFFICES ASSUME NEW j \in Nat, NEW k \in 0..n PROVE In(S, j, k) = In(T, j, k)
  OBVIOUS
<1>1. \A i \in (j + 1)..k : i \in 1..n
  OBVIOUS
<1>2. {i \in (j + 1)..k : i \in S} = {i \in (j + 1)..k : i \in T}
  BY <1>1 DEF Alike
<1> QED BY <1>2 DEF In

LEMMA OpensOfMore ==
  ASSUME NEW U, NEW E, NEW V, NEW F, NEW n \in Nat,
         Alike(U, V, n), Alike(E, F, n)
  PROVE  \A k \in 0..n : StillOpen(U, E, k) = StillOpen(V, F, k)
<1>1. \A j \in Nat : \A k \in 0..n : In(U, j, k) = In(V, j, k) /\ In(E, j, k) = In(F, j, k)
  BY InOfMore
<1> SUFFICES ASSUME NEW k \in 0..n PROVE StillOpen(U, E, k) = StillOpen(V, F, k)
  OBVIOUS
<1>2. ASSUME NEW j \in 1..k
      PROVE  (j \in U /\ \A i \in (j + 1)..k : In(U, j, i) + 1 > In(E, j, i))
               <=> (j \in V /\ \A i \in (j + 1)..k : In(V, j, i) + 1 > In(F, j, i))
  <2>1. j \in Nat /\ j \in 1..n /\ \A i \in (j + 1)..k : i \in 0..n
    OBVIOUS
  <2>2. j \in U <=> j \in V
    BY <2>1 DEF Alike
  <2> QED BY <1>1, <2>1, <2>2
<1> QED BY <1>2 DEF StillOpen

\* One more place.
LEMMA OpensNext ==
  ASSUME NEW U, NEW E, NEW n \in Nat
  PROVE  /\ \A j \in 1..n : j \in StillOpen(U, E, n + 1) <=>
              j \in StillOpen(U, E, n) /\ In(U, j, n + 1) + 1 > In(E, j, n + 1)
         /\ n + 1 \in StillOpen(U, E, n + 1) <=> n + 1 \in U
         /\ \A j \in StillOpen(U, E, n + 1) : j = n + 1 \/ j \in 1..n
         /\ StillOpen(U, E, n) \subseteq 1..n
<1>1. /\ 1..(n + 1) = (1..n) \union {n + 1} /\ n + 1 \notin 1..n
      /\ \A j \in 1..n : (j + 1)..(n + 1) = ((j + 1)..n) \union {n + 1}
      /\ ((n + 1) + 1)..(n + 1) = {}
  OBVIOUS
<1>2. ASSUME NEW j \in 1..n
      PROVE  j \in StillOpen(U, E, n + 1) <=>
               j \in StillOpen(U, E, n) /\ In(U, j, n + 1) + 1 > In(E, j, n + 1)
  <2>1. (j + 1)..(n + 1) = ((j + 1)..n) \union {n + 1} /\ j \in 1..(n + 1)
    BY <1>1
  <2> QED BY <2>1 DEF StillOpen
<1>3. n + 1 \in StillOpen(U, E, n + 1) <=> n + 1 \in U
  BY <1>1 DEF StillOpen
<1>4. \A j \in StillOpen(U, E, n + 1) : j = n + 1 \/ j \in 1..n
  BY <1>1 DEF StillOpen
<1>5. StillOpen(U, E, n) \subseteq 1..n
  BY DEF StillOpen
<1> QED BY <1>2, <1>3, <1>4, <1>5

LEMMA NestOpens ==
  ASSUME NEW n \in Nat, NEW U, NEW E, NEW st, Nest(st, U, E, n)
  PROVE  /\ st \in Seq(Nat) /\ Len(st) \in Nat
         /\ \A k \in 1..Len(st) : st[k] \in 1..n /\ st[k] \in StillOpen(U, E, n)
         /\ StillOpen(U, E, n) = {} <=> Len(st) = 0
<1>1. /\ st \in Seq(Nat) /\ Len(st) \in Nat
      /\ \A x : x \in StillOpen(U, E, n) <=> \E k \in 1..Len(st) : st[k] = x
  BY DEF Nest
<1>2. StillOpen(U, E, n) \subseteq 1..n
  BY DEF StillOpen
<1>3. \A k \in 1..Len(st) : st[k] \in 1..n /\ st[k] \in StillOpen(U, E, n)
  BY <1>1, <1>2
<1>4. StillOpen(U, E, n) = {} <=> ~ \E k \in 1..Len(st) : TRUE
  BY <1>1
<1>5. (~ \E k \in 1..Len(st) : TRUE) <=> Len(st) = 0
  <2>1. Len(st) # 0 => 1 \in 1..Len(st)
    BY <1>1
  <2>2. Len(st) = 0 => 1..Len(st) = {}
    BY <1>1
  <2> QED BY <2>1, <2>2
<1> QED BY <1>1, <1>3, <1>4, <1>5

LEMMA NestOfMore ==
  ASSUME NEW U, NEW E, NEW V, NEW F, NEW n \in Nat,
         Alike(U, V, n), Alike(E, F, n),
         NEW st, Nest(st, U, E, n)
  PROVE  Nest(st, V, F, n)
<1>1. /\ \A j \in Nat : \A k \in 0..n : In(U, j, k) = In(V, j, k)
      /\ \A j \in Nat : \A k \in 0..n : In(E, j, k) = In(F, j, k)
  BY InOfMore
<1>2. StillOpen(U, E, n) = StillOpen(V, F, n)
  <2>1. \A k \in 0..n : StillOpen(U, E, k) = StillOpen(V, F, k)
    BY OpensOfMore
  <2> QED BY <2>1
<1>3. \A k \in 1..Len(st) : st[k] \in 1..n
  BY NestOpens
<1>4. \A k \in 1..Len(st) : In(U, st[k], n) = In(V, st[k], n) /\ In(E, st[k], n) = In(F, st[k], n)
  BY <1>1, <1>3
<1> QED BY <1>2, <1>4 DEF Nest

\* What the counts of the open ones come to at one more place.
LEMMA NestCounts ==
  ASSUME NEW n \in Nat, NEW U, NEW E, NEW st, Nest(st, U, E, n)
  PROVE  /\ st \in Seq(Nat) /\ Len(st) \in Nat
         /\ \A k \in 1..Len(st) :
              /\ st[k] \in 1..n
              /\ In(U, st[k], n) \in Nat /\ In(E, st[k], n) \in Nat
              /\ In(U, st[k], n) + 1 = In(E, st[k], n) + (Len(st) - k + 1)
              /\ In(U, st[k], n + 1) = IF n + 1 \in U THEN In(U, st[k], n) + 1 ELSE In(U, st[k], n)
              /\ In(E, st[k], n + 1) = IF n + 1 \in E THEN In(E, st[k], n) + 1 ELSE In(E, st[k], n)
<1>1. /\ st \in Seq(Nat) /\ Len(st) \in Nat /\ \A k \in 1..Len(st) : st[k] \in 1..n
  BY NestOpens
<1>2. \A k \in 1..Len(st) : In(U, st[k], n) + 1 = In(E, st[k], n) + (Len(st) - k + 1)
  BY DEF Nest
<1>3. ASSUME NEW S, NEW j \in 1..n
      PROVE  /\ In(S, j, n) \in Nat
             /\ In(S, j, n + 1) = IF n + 1 \in S THEN In(S, j, n) + 1 ELSE In(S, j, n)
  <2>1. j \in Nat /\ j <= n
    BY <1>3
  <2> QED BY <2>1, InIs
<1> QED BY <1>1, <1>2, <1>3

LEMMA NestStays ==
  ASSUME NEW n \in Nat, NEW U, NEW E, NEW st, Nest(st, U, E, n), n + 1 \notin U, n + 1 \notin E
  PROVE  Nest(st, U, E, n + 1)
<1>1. /\ st \in Seq(Nat) /\ Len(st) \in Nat
      /\ \A k \in 1..Len(st) :
           /\ st[k] \in 1..n
           /\ In(U, st[k], n) \in Nat /\ In(E, st[k], n) \in Nat
           /\ In(U, st[k], n) + 1 = In(E, st[k], n) + (Len(st) - k + 1)
           /\ In(U, st[k], n + 1) = In(U, st[k], n)
           /\ In(E, st[k], n + 1) = In(E, st[k], n)
  BY NestCounts
<1>2. Rising(st) /\ \A x : x \in StillOpen(U, E, n) <=> \E k \in 1..Len(st) : st[k] = x
  BY DEF Nest
<1>3. \A k \in 1..Len(st) : In(U, st[k], n + 1) + 1 = In(E, st[k], n + 1) + (Len(st) - k + 1)
  BY <1>1
<1>4. \A k \in 1..Len(st) : In(U, st[k], n + 1) + 1 > In(E, st[k], n + 1)
  BY <1>1
<1>5. /\ \A j \in 1..n : j \in StillOpen(U, E, n + 1) <=>
            j \in StillOpen(U, E, n) /\ In(U, j, n + 1) + 1 > In(E, j, n + 1)
      /\ n + 1 \notin StillOpen(U, E, n + 1)
      /\ \A j \in StillOpen(U, E, n + 1) : j = n + 1 \/ j \in 1..n
      /\ StillOpen(U, E, n) \subseteq 1..n
  BY OpensNext
<1>6. ASSUME NEW x PROVE x \in StillOpen(U, E, n + 1) <=> \E k \in 1..Len(st) : st[k] = x
  BY <1>1, <1>2, <1>4, <1>5
<1> QED BY <1>1, <1>2, <1>3, <1>6 DEF Nest

LEMMA NestPush ==
  ASSUME NEW n \in Nat, NEW U, NEW E, NEW st, Nest(st, U, E, n), n + 1 \in U, n + 1 \notin E
  PROVE  Nest(Append(st, n + 1), U, E, n + 1)
<1> DEFINE d == Len(st)
           r == Append(st, n + 1)
<1>1. /\ st \in Seq(Nat) /\ d \in Nat
      /\ \A k \in 1..d :
           /\ st[k] \in 1..n
           /\ In(U, st[k], n) \in Nat /\ In(E, st[k], n) \in Nat
           /\ In(U, st[k], n) + 1 = In(E, st[k], n) + (d - k + 1)
           /\ In(U, st[k], n + 1) = In(U, st[k], n) + 1
           /\ In(E, st[k], n + 1) = In(E, st[k], n)
  BY NestCounts
<1>2. Rising(st) /\ \A x : x \in StillOpen(U, E, n) <=> \E k \in 1..d : st[k] = x
  BY DEF Nest
<1>3. /\ r \in Seq(Nat) /\ Len(r) = d + 1 /\ r[d + 1] = n + 1 /\ \A k \in 1..d : r[k] = st[k]
  BY <1>1, AppendProperties
<1> HIDE DEF r, d
<1>4. \A k \in 1..Len(r) : k = d + 1 \/ k \in 1..d
  BY <1>1, <1>3
<1>5. Rising(r)
  <2> SUFFICES ASSUME NEW i \in 1..Len(r), NEW k \in 1..Len(r), i < k PROVE r[i] < r[k]
    BY DEF Rising
  <2>1. i \in 1..d
    BY <1>1, <1>3, <1>4
  <2>3. st[i] \in 1..n /\ r[i] = st[i]
    BY <1>1, <1>3, <2>1
  <2>2. st[i] < n + 1
    BY <2>3
  <2> QED BY <1>2, <1>3, <1>4, <2>1, <2>2, <2>3 DEF Rising, d
<1>6. \A k \in 1..d : In(U, st[k], n + 1) + 1 > In(E, st[k], n + 1)
  BY <1>1
<1>7. ASSUME NEW k \in 1..Len(r) PROVE In(U, r[k], n + 1) + 1 = In(E, r[k], n + 1) + (Len(r) - k + 1)
  <2>1. CASE k = d + 1
    <3>1. In(U, n + 1, n + 1) = 0 /\ In(E, n + 1, n + 1) = 0
      BY InIs
    <3>3. d \in Nat /\ Len(r) = d + 1 /\ k = d + 1 /\ r[k] = n + 1
      BY <1>1, <1>3, <2>1
    <3>2. Len(r) - k + 1 = 1
      BY <3>3
    <3> QED BY <3>1, <3>2, <3>3
  <2>2. CASE k \in 1..d
    <3> DEFINE a == In(U, st[k], n)  c == In(E, st[k], n)
    <3>1. /\ a \in Nat /\ c \in Nat /\ a + 1 = c + (d - k + 1) /\ r[k] = st[k]
          /\ In(U, st[k], n + 1) = a + 1 /\ In(E, st[k], n + 1) = c
      BY <1>1, <1>3, <2>2
    <3>2. Len(r) - k + 1 = (d - k + 1) + 1 /\ d - k + 1 \in Nat
      BY <1>1, <1>3, <2>2
    <3> HIDE DEF a, c
    <3>3. (a + 1) + 1 = c + (Len(r) - k + 1)
      BY <3>1, <3>2
    <3> QED BY <3>1, <3>3
  <2> QED BY <1>4, <2>1, <2>2
<1>8. /\ \A j \in 1..n : j \in StillOpen(U, E, n + 1) <=>
            j \in StillOpen(U, E, n) /\ In(U, j, n + 1) + 1 > In(E, j, n + 1)
      /\ n + 1 \in StillOpen(U, E, n + 1)
      /\ \A j \in StillOpen(U, E, n + 1) : j = n + 1 \/ j \in 1..n
      /\ StillOpen(U, E, n) \subseteq 1..n
  BY OpensNext
<1>9. ASSUME NEW x PROVE x \in StillOpen(U, E, n + 1) <=> \E k \in 1..Len(r) : r[k] = x
  <2>1. ASSUME x \in StillOpen(U, E, n + 1) PROVE \E k \in 1..Len(r) : r[k] = x
    <3>1. CASE x = n + 1
      <4>1. d + 1 \in 1..Len(r)
        BY <1>1, <1>3
      <4> QED BY <1>3, <3>1, <4>1
    <3>2. CASE x \in 1..n
      <4>1. PICK k \in 1..d : st[k] = x
        BY <1>2, <1>8, <2>1, <3>2
      <4>2. k \in 1..Len(r)
        BY <1>1, <1>3
      <4> QED BY <1>3, <4>1, <4>2
    <3> QED BY <1>8, <2>1, <3>1, <3>2
  <2>2. ASSUME NEW k \in 1..Len(r), r[k] = x PROVE x \in StillOpen(U, E, n + 1)
    BY <1>1, <1>2, <1>3, <1>4, <1>6, <1>8, <2>2
  <2> QED BY <2>1, <2>2
<1>10. Nest(r, U, E, n + 1)
  BY <1>3, <1>5, <1>7, <1>9 DEF Nest
<1> QED BY <1>10 DEF r

\* Without its last.
Less(st) == IF st = <<>> THEN st ELSE D!Front(st)

LEMMA LessIs ==
  ASSUME NEW P, NEW st \in Seq(P)
  PROVE  /\ Less(st) \in Seq(P)
         /\ Len(Less(st)) = IF Len(st) = 0 THEN 0 ELSE Len(st) - 1
         /\ \A k \in 1..Len(Less(st)) : k \in 1..Len(st) /\ k # Len(st) /\ Less(st)[k] = st[k]
         /\ \A k \in 1..Len(st) : k # Len(st) => k \in 1..Len(Less(st))
<1>1. CASE st = <<>>
  <2>1. Less(st) = st /\ Len(st) = 0 /\ 1..0 = {}
    BY <1>1 DEF Less
  <2> QED BY <2>1
<1>2. CASE st # <<>>
  <2> DEFINE n == Len(st) - 1
  <2>1. n \in Nat /\ Len(st) = n + 1
    BY <1>2, EmptySeq
  <2> HIDE DEF n
  <2>2. Less(st) = SubSeq(st, 1, n)
    BY <1>2 DEF Less, D!Front, n
  <2>3. SubSeq(st, 1, n) \in Seq(P) /\ Len(SubSeq(st, 1, n)) = n
        /\ \A k \in 1..n : SubSeq(st, 1, n)[k] = st[k]
    <3>1. \A k \in 1..n : st[k] \in P /\ k \in 1..Len(st)
      BY <2>1
    <3>2. SubSeq(st, 1, n) = [k \in 1..n |-> st[k]]
      BY <2>1
    <3> QED BY <2>1, <3>1, <3>2
  <2> QED BY <2>1, <2>2, <2>3
<1> QED BY <1>1, <1>2

LEMMA NestPop ==
  ASSUME NEW n \in Nat, NEW U, NEW E, NEW st, Nest(st, U, E, n), n + 1 \notin U, n + 1 \in E
  PROVE  Nest(Less(st), U, E, n + 1)
<1> DEFINE d == Len(st)
           r == Less(st)
<1>1. /\ st \in Seq(Nat) /\ d \in Nat
      /\ \A k \in 1..d :
           /\ st[k] \in 1..n
           /\ In(U, st[k], n) \in Nat /\ In(E, st[k], n) \in Nat
           /\ In(U, st[k], n) + 1 = In(E, st[k], n) + (d - k + 1)
           /\ In(U, st[k], n + 1) = In(U, st[k], n)
           /\ In(E, st[k], n + 1) = In(E, st[k], n) + 1
  BY NestCounts
<1>2. Rising(st) /\ \A x : x \in StillOpen(U, E, n) <=> \E k \in 1..d : st[k] = x
  BY DEF Nest
<1>3. /\ r \in Seq(Nat) /\ Len(r) = IF d = 0 THEN 0 ELSE d - 1
      /\ \A k \in 1..Len(r) : k \in 1..d /\ k # d /\ r[k] = st[k]
      /\ \A k \in 1..d : k # d => k \in 1..Len(r)
  BY <1>1, LessIs
<1> HIDE DEF r, d
<1>4. Rising(r)
  <2> SUFFICES ASSUME NEW i \in 1..Len(r), NEW k \in 1..Len(r), i < k PROVE r[i] < r[k]
    BY DEF Rising
  <2> QED BY <1>2, <1>3 DEF Rising, d
<1>5. ASSUME NEW k \in 1..d PROVE In(U, st[k], n + 1) + 1 > In(E, st[k], n + 1) <=> k # d
  <2> DEFINE a == In(U, st[k], n)  c == In(E, st[k], n)
  <2>1. /\ a \in Nat /\ c \in Nat /\ a + 1 = c + (d - k + 1) /\ k \in Nat /\ k <= d
        /\ In(U, st[k], n + 1) = a /\ In(E, st[k], n + 1) = c + 1
    BY <1>1
  <2> HIDE DEF a, c
  <2>3. d \in Nat
    BY <1>1
  <2>2. a + 1 > c + 1 <=> k # d
    BY <2>1, <2>3
  <2> QED BY <2>1, <2>2
<1>6. ASSUME NEW k \in 1..Len(r) PROVE In(U, r[k], n + 1) + 1 = In(E, r[k], n + 1) + (Len(r) - k + 1)
  <2>1. k \in 1..d /\ r[k] = st[k] /\ d # 0 /\ Len(r) = d - 1
    BY <1>1, <1>3
  <2> DEFINE a == In(U, st[k], n)  c == In(E, st[k], n)
  <2>2. /\ a \in Nat /\ c \in Nat /\ a + 1 = c + (d - k + 1)
        /\ In(U, st[k], n + 1) = a /\ In(E, st[k], n + 1) = c + 1
    BY <1>1, <2>1
  <2>5. d \in Nat /\ k \in Nat /\ Len(r) = d - 1
    BY <1>1, <2>1
  <2>3. d - k + 1 = 1 + (Len(r) - k + 1) /\ Len(r) - k + 1 \in Int
    BY <2>5
  <2> HIDE DEF a, c
  <2>4. a + 1 = (c + 1) + (Len(r) - k + 1)
    BY <2>2, <2>3
  <2> QED BY <2>1, <2>2, <2>4
<1>7. /\ \A j \in 1..n : j \in StillOpen(U, E, n + 1) <=>
            j \in StillOpen(U, E, n) /\ In(U, j, n + 1) + 1 > In(E, j, n + 1)
      /\ n + 1 \notin StillOpen(U, E, n + 1)
      /\ \A j \in StillOpen(U, E, n + 1) : j = n + 1 \/ j \in 1..n
      /\ StillOpen(U, E, n) \subseteq 1..n
  BY OpensNext
<1>8. ASSUME NEW x PROVE x \in StillOpen(U, E, n + 1) <=> \E k \in 1..Len(r) : r[k] = x
  <2>1. ASSUME x \in StillOpen(U, E, n + 1) PROVE \E k \in 1..Len(r) : r[k] = x
    <3>1. x \in 1..n /\ x \in StillOpen(U, E, n) /\ In(U, x, n + 1) + 1 > In(E, x, n + 1)
      BY <1>7, <2>1
    <3>2. PICK k \in 1..d : st[k] = x
      BY <1>2, <3>1
    <3>3. k # d
      BY <1>5, <3>1, <3>2
    <3> QED BY <1>3, <3>2, <3>3
  <2>2. ASSUME NEW k \in 1..Len(r), r[k] = x PROVE x \in StillOpen(U, E, n + 1)
    <3>1. k \in 1..d /\ k # d /\ st[k] = x
      BY <1>3, <2>2
    <3> QED BY <1>1, <1>2, <1>5, <1>7, <3>1
  <2> QED BY <2>1, <2>2
<1>9. Nest(r, U, E, n + 1)
  BY <1>3, <1>4, <1>6, <1>8 DEF Nest
<1> QED BY <1>9 DEF r

----------------------------------------------------------------------------
(* Markup: what is hidden, and which item holds what.                         *)

At(s, m) == {i \in 1..Len(s) : s[i] = m}
Unseen(s, i) == StillOpen(At(s, "skip"), At(s, "/skip"), i - 1) # {}
Shown(s, m) == {i \in At(s, m) : ~ Unseen(s, i)}
Around(s, i) == StillOpen(Shown(s, "li"), Shown(s, "/li"), i - 1)
Holder(s, i) == IF Around(s, i) = {} THEN 0 ELSE CHOOSE j \in Around(s, i) : \A k \in Around(s, i) : k <= j
Top(st) == IF Len(st) = 0 THEN 0 ELSE st[Len(st)]

LEMMA CountingMarks == \A S : D!Cardinality(S) = Cardinality(S)
BY DEF D!Cardinality, Cardinality

\* The properties' words and these are one.
LEMMA HiddenIs ==
  ASSUME Len(marks) \in Nat, NEW i \in 1..(Len(marks) + 1)
  PROVE  D!Hidden(i) <=> Unseen(marks, i)
<1>1. ASSUME NEW m, NEW j \in 1..(i - 1), NEW k \in (j + 1)..(i - 1)
      PROVE  D!Tally(m, j + 1, k) = In(At(marks, m), j, k)
  <2>1. \A x \in (j + 1)..k : x \in 1..Len(marks)
    OBVIOUS
  <2>2. {x \in (j + 1)..k : marks[x] = m} = {x \in (j + 1)..k : x \in At(marks, m)}
    BY <2>1 DEF At
  <2> QED BY <2>2, CountingMarks DEF D!Tally, In
<1>2. ASSUME NEW j \in 1..(i - 1)
      PROVE  D!OpenAt("skip", "/skip", j, i) <=> j \in StillOpen(At(marks, "skip"), At(marks, "/skip"), i - 1)
  <2>1. j \in 1..Len(marks)
    OBVIOUS
  <2>2. marks[j] = "skip" <=> j \in At(marks, "skip")
    BY <2>1 DEF At
  <2>3. \A k \in (j + 1)..(i - 1) :
          /\ D!Tally("skip", j + 1, k) = In(At(marks, "skip"), j, k)
          /\ D!Tally("/skip", j + 1, k) = In(At(marks, "/skip"), j, k)
    BY <1>1
  <2> QED BY <2>2, <2>3 DEF D!OpenAt, StillOpen
<1>3. StillOpen(At(marks, "skip"), At(marks, "/skip"), i - 1) \subseteq 1..(i - 1)
  BY DEF StillOpen
<1> QED BY <1>2, <1>3 DEF D!Hidden, Unseen

LEMMA VisibleIs ==
  ASSUME Len(marks) \in Nat, DOMAIN marks = 1..Len(marks)
  PROVE  D!Visible = Shown(marks, "text")
<1>1. \A i \in 1..Len(marks) : D!Hidden(i) <=> Unseen(marks, i)
  BY HiddenIs
<1> QED BY <1>1 DEF D!Visible, Shown, At, D!Text

LEMMA ItemIs ==
  ASSUME Len(marks) \in Nat, NEW i \in 1..(Len(marks) + 1)
  PROVE  D!Item(i) = Holder(marks, i)
<1> DEFINE open == {j \in 1..(i-1) : ~D!Hidden(j) /\ marks[j] = "li"
                 /\ \A k \in (j + 1)..(i-1) :
                      D!Cardinality({n \in (j + 1)..k : marks[n] = "li" /\ ~D!Hidden(n)}) + 1
                        > D!Cardinality({n \in (j + 1)..k : marks[n] = "/li" /\ ~D!Hidden(n)})}
<1>1. \A x \in 1..Len(marks) : D!Hidden(x) <=> Unseen(marks, x)
  BY HiddenIs
<1>2. ASSUME NEW m, NEW j \in 1..(i - 1), NEW k \in (j + 1)..(i - 1)
      PROVE  D!Cardinality({n \in (j + 1)..k : marks[n] = m /\ ~D!Hidden(n)}) = In(Shown(marks, m), j, k)
  <2>1. \A x \in (j + 1)..k : x \in 1..Len(marks)
    OBVIOUS
  <2>2. {n \in (j + 1)..k : marks[n] = m /\ ~D!Hidden(n)} = {n \in (j + 1)..k : n \in Shown(marks, m)}
    BY <1>1, <2>1 DEF Shown, At
  <2> QED BY <2>2, CountingMarks DEF In
<1>3. ASSUME NEW j \in 1..(i - 1)
      PROVE  j \in open <=> j \in Around(marks, i)
  <2>1. j \in 1..Len(marks)
    OBVIOUS
  <2>2. ~D!Hidden(j) /\ marks[j] = "li" <=> j \in Shown(marks, "li")
    BY <1>1, <2>1 DEF Shown, At
  <2>3. \A k \in (j + 1)..(i - 1) :
          /\ D!Cardinality({n \in (j + 1)..k : marks[n] = "li" /\ ~D!Hidden(n)}) = In(Shown(marks, "li"), j, k)
          /\ D!Cardinality({n \in (j + 1)..k : marks[n] = "/li" /\ ~D!Hidden(n)}) = In(Shown(marks, "/li"), j, k)
    BY <1>2
  <2> QED BY <2>2, <2>3 DEF Around, StillOpen
<1>4. Around(marks, i) \subseteq 1..(i - 1) /\ open \subseteq 1..(i - 1)
  BY DEF Around, StillOpen
<1>5. D!Item(i) = IF open = {} THEN 0 ELSE CHOOSE j \in open : \A k \in open : k <= j
  BY DEF D!Item
<1> HIDE DEF open
<1>6. open = Around(marks, i)
  BY <1>3, <1>4
<1> QED BY <1>5, <1>6 DEF Holder

LEMMA HolderIn ==
  ASSUME NEW s, NEW i \in Nat \ {0}
  PROVE  Holder(s, i) \in 0..(i - 1)
<1>1. Around(s, i) \subseteq 1..(i - 1) /\ i - 1 \in Nat
  BY DEF Around, StillOpen
<1>2. CASE Around(s, i) = {}
  BY <1>1, <1>2 DEF Holder
<1>3. CASE Around(s, i) # {}
  <2>1. \E j \in Around(s, i) : \A k \in Around(s, i) : k <= j
    BY <1>1, <1>3, LastOf
  <2>2. Holder(s, i) \in Around(s, i)
    BY <1>3, <2>1 DEF Holder
  <2> QED BY <1>1, <2>2
<1> QED BY <1>2, <1>3

LEMMA TopIs ==
  ASSUME NEW s, Len(s) \in Nat, NEW st, Nest(st, Shown(s, "li"), Shown(s, "/li"), Len(s))
  PROVE  Holder(s, Len(s) + 1) = Top(st)
<1> DEFINE i == Len(s) + 1
           o == Around(s, i)
           d == Len(st)
<1>1. i - 1 = Len(s)
  OBVIOUS
<1>2. /\ st \in Seq(Nat) /\ d \in Nat /\ Rising(st)
      /\ \A x : x \in o <=> \E k \in 1..d : st[k] = x
      /\ o = {} <=> d = 0
  <2>1. o = StillOpen(Shown(s, "li"), Shown(s, "/li"), Len(s))
    BY <1>1 DEF Around
  <2>2. /\ st \in Seq(Nat) /\ d \in Nat
        /\ StillOpen(Shown(s, "li"), Shown(s, "/li"), Len(s)) = {} <=> d = 0
    BY NestOpens
  <2>3. /\ Rising(st)
        /\ \A x : x \in StillOpen(Shown(s, "li"), Shown(s, "/li"), Len(s)) <=> \E k \in 1..d : st[k] = x
    BY DEF Nest
  <2> HIDE DEF o, d
  <2> QED BY <2>1, <2>2, <2>3
<1>3. CASE d = 0
  BY <1>2, <1>3 DEF Holder, Top
<1>4. CASE d # 0
  <2>1. d \in 1..d /\ st[d] \in o
    BY <1>2, <1>4
  <2>2. \A k \in 1..d : st[k] \in Nat /\ (k = d \/ st[k] < st[d])
    BY <1>2, <2>1 DEF Rising
  <2>3. \A x \in o : x \in Nat /\ x <= st[d]
    BY <1>2, <2>2
  <2> HIDE DEF o, d
  <2>4. \A j \in o : (\A k \in o : k <= j) => j = st[d]
    BY <2>1, <2>3
  <2>5. (CHOOSE j \in o : \A k \in o : k <= j) = st[d]
    BY <2>1, <2>3, <2>4
  <2> QED BY <1>2, <1>4, <2>5 DEF Holder, Top, o, d
<1> QED BY <1>3, <1>4

\* One more mark.
More(s, m, t, n) ==
  /\ n \in Nat /\ t \in Seq(D!Marks) /\ Len(t) = n + 1
  /\ \A x : Alike(At(s, x), At(t, x), n) /\ n + 1 \notin At(s, x) /\ (n + 1 \in At(t, x) <=> m = x)
  /\ \A i \in 1..(n + 1) : Unseen(t, i) <=> Unseen(s, i)
  /\ \A x : Alike(Shown(s, x), Shown(t, x), n) /\ n + 1 \notin Shown(s, x)
  /\ \A x : n + 1 \in Shown(t, x) <=> m = x /\ ~ Unseen(s, n + 1)
  /\ \A x : Shown(s, x) \subseteq 1..n /\ Shown(t, x) \subseteq 1..(n + 1)
  /\ \A i \in 1..(n + 1) : Holder(t, i) = Holder(s, i)
LEMMA MarkedOn ==
  ASSUME NEW s \in Seq(D!Marks), NEW m \in D!Marks, NEW t, t = Append(s, m), NEW n, n = Len(s)
  PROVE  More(s, m, t, n)
<1>1. /\ n \in Nat /\ t \in Seq(D!Marks) /\ Len(t) = n + 1 /\ t[n + 1] = m
      /\ \A i \in 1..n : t[i] = s[i]
  BY AppendProperties
<1>2. ASSUME NEW x
      PROVE  Alike(At(s, x), At(t, x), n) /\ n + 1 \notin At(s, x) /\ (n + 1 \in At(t, x) <=> m = x)
             /\ At(s, x) \subseteq 1..n /\ At(t, x) \subseteq 1..(n + 1)
  BY <1>1 DEF At, Alike
<1>3. ASSUME NEW i \in 1..(n + 1) PROVE Unseen(t, i) <=> Unseen(s, i)
  <2>1. i - 1 \in 0..n
    BY <1>1
  <2>2. \A k \in 0..n : StillOpen(At(s, "skip"), At(s, "/skip"), k) = StillOpen(At(t, "skip"), At(t, "/skip"), k)
    BY <1>1, <1>2, OpensOfMore
  <2> QED BY <2>1, <2>2 DEF Unseen
<1>4. n + 1 \in 1..(n + 1) /\ \A i \in 1..n : i \in 1..(n + 1)
  BY <1>1
<1>5. ASSUME NEW x
      PROVE  /\ Alike(Shown(s, x), Shown(t, x), n) /\ n + 1 \notin Shown(s, x)
             /\ n + 1 \in Shown(t, x) <=> m = x /\ ~ Unseen(s, n + 1)
             /\ Shown(s, x) \subseteq 1..n /\ Shown(t, x) \subseteq 1..(n + 1)
  <2>1. /\ Alike(At(s, x), At(t, x), n) /\ n + 1 \notin At(s, x) /\ (n + 1 \in At(t, x) <=> m = x)
        /\ At(s, x) \subseteq 1..n /\ At(t, x) \subseteq 1..(n + 1)
    BY <1>2
  <2>2. Alike(Shown(s, x), Shown(t, x), n)
    BY <1>3, <1>4, <2>1 DEF Alike, Shown
  <2> QED BY <1>3, <1>4, <2>1, <2>2 DEF Shown
<1>6. ASSUME NEW i \in 1..(n + 1) PROVE Holder(t, i) = Holder(s, i)
  <2>1. i - 1 \in 0..n
    BY <1>1
  <2>2. \A k \in 0..n : StillOpen(Shown(s, "li"), Shown(s, "/li"), k) = StillOpen(Shown(t, "li"), Shown(t, "/li"), k)
    BY <1>1, <1>5, OpensOfMore
  <2>3. Around(t, i) = Around(s, i)
    BY <2>1, <2>2 DEF Around
  <2> QED BY <2>3 DEF Holder
<1> QED BY <1>1, <1>2, <1>3, <1>5, <1>6 DEF More

----------------------------------------------------------------------------
(* A page as it is parsed.                                                    *)

Blocks == [marked : BOOLEAN, texts : Seq(Nat)]
IsPage(pg) ==
  pg \in [blocks : Seq(Blocks), current : Seq(Nat), skipDepth : Nat, liPending : Seq(BOOLEAN)]
\* The texts that are in blocks, and those that are yet to be.
Lines(pg, b) == pg.blocks[b].texts
Flushed(pg) == UNION {D!ToSet(Lines(pg, b)) : b \in 1..Len(pg.blocks)}
Waiting(pg) == D!ToSet(pg.current) \ {0}

\* An item that is open has its mark to give if no text that it holds is in a block, and
\* what waits is held by the innermost.
InItems(s, pg, st) ==
  /\ Len(st) = Len(pg.liPending)
  /\ \A k \in 1..Len(st) : pg.liPending[k] <=> \A x \in Flushed(pg) : Holder(s, x) # st[k]
  /\ \A x \in Waiting(pg) : Holder(s, x) = Top(st)
\* All that is to be shown is in blocks or waits, in the order in which it was written.
InLines(pg, V) ==
  /\ Flushed(pg) \union Waiting(pg) = V
  /\ \A b \in 1..Len(pg.blocks) : Len(Lines(pg, b)) # 0 /\ Rising(Lines(pg, b))
  /\ \A b, c \in 1..Len(pg.blocks) : b < c =>
       \A i \in 1..Len(Lines(pg, b)) : \A k \in 1..Len(Lines(pg, c)) : Lines(pg, b)[i] < Lines(pg, c)[k]
  /\ \A x \in Flushed(pg) : \A y \in Waiting(pg) : x < y
  /\ \A i, k \in 1..Len(pg.current) :
       i < k /\ pg.current[i] # 0 /\ pg.current[k] # 0 => pg.current[i] < pg.current[k]
\* The first text of the item it is in.
FirstOf(s, V, x) == Holder(s, x) # 0 /\ \A y \in V : y < x => Holder(s, y) # Holder(s, x)
InBullets(s, pg, V) ==
  \A b \in 1..Len(pg.blocks) : pg.blocks[b].marked <=> FirstOf(s, V, Lines(pg, b)[1])

LEMMA PageFields ==
  ASSUME NEW pg, IsPage(pg)
  PROVE  /\ pg.blocks \in Seq(Blocks) /\ pg.current \in Seq(Nat) /\ pg.skipDepth \in Nat
         /\ pg.liPending \in Seq(BOOLEAN) /\ Len(pg.blocks) \in Nat /\ Len(pg.liPending) \in Nat
         /\ \A b \in 1..Len(pg.blocks) : Lines(pg, b) \in Seq(Nat) /\ pg.blocks[b].marked \in BOOLEAN
         /\ Waiting(pg) \subseteq Nat /\ Flushed(pg) \subseteq Nat
         /\ \A x : x \in Flushed(pg) <=> \E b \in 1..Len(pg.blocks) : x \in D!ToSet(Lines(pg, b))
         /\ \A x : x \in Waiting(pg) <=> x # 0 /\ x \in D!ToSet(pg.current)
<1>1. /\ pg.blocks \in Seq(Blocks) /\ pg.current \in Seq(Nat) /\ pg.skipDepth \in Nat
      /\ pg.liPending \in Seq(BOOLEAN)
  BY DEF IsPage
<1>2. Len(pg.blocks) \in Nat /\ Len(pg.liPending) \in Nat
  BY <1>1
<1>3. \A b \in 1..Len(pg.blocks) : pg.blocks[b] \in Blocks
  BY <1>1
<1>4. \A b \in 1..Len(pg.blocks) : Lines(pg, b) \in Seq(Nat) /\ pg.blocks[b].marked \in BOOLEAN
  BY <1>3 DEF Blocks, Lines
<1>5. D!ToSet(pg.current) \subseteq Nat
  BY <1>1, TextsOf
<1>6. \A b \in 1..Len(pg.blocks) : D!ToSet(Lines(pg, b)) \subseteq Nat
  BY <1>4, TextsOf
<1> QED BY <1>1, <1>2, <1>4, <1>5, <1>6 DEF Waiting, Flushed

\* What a flush comes to.
LEMMA FlushIs ==
  ASSUME NEW pg, IsPage(pg)
  PROVE  LET r == D!Flush(pg)
             kept == D!Kept(pg.current)
             items == pg.liPending
             pending == items # <<>> /\ items[Len(items)]
         IN /\ kept = <<>> => r = [pg EXCEPT !.current = <<>>]
            /\ kept # <<>> =>
                 r = [pg EXCEPT !.current = <<>>,
                                !.blocks = Append(pg.blocks, [marked |-> pending, texts |-> kept]),
                                !.liPending = IF pending THEN Append(Less(items), FALSE) ELSE items]
<1> DEFINE items == pg.liPending
<1>1. D!Last(items) = items[Len(items)]
  BY DEF D!Last
<1>2. items # <<>> => Less(items) = D!Front(items)
  BY DEF Less
<1> QED BY <1>1, <1>2 DEF D!Flush

\* Nothing waited.
LEMMA Emptied ==
  ASSUME NEW s, NEW pg, IsPage(pg), NEW st, NEW V, InItems(s, pg, st), InLines(pg, V), InBullets(s, pg, V),
         Waiting(pg) = {}
  PROVE  LET r == [pg EXCEPT !.current = <<>>] IN
         /\ IsPage(r) /\ InItems(s, r, st) /\ InLines(r, V) /\ InBullets(s, r, V)
         /\ r.current = <<>> /\ r.skipDepth = pg.skipDepth
<1> DEFINE r == [pg EXCEPT !.current = <<>>]
<1>1. /\ IsPage(r) /\ r.blocks = pg.blocks /\ r.current = <<>> /\ r.skipDepth = pg.skipDepth
      /\ r.liPending = pg.liPending
  <2>1. r = [pg EXCEPT !.current = <<>>]
    OBVIOUS
  <2>2. <<>> \in Seq(Nat)
    OBVIOUS
  <2> HIDE DEF r
  <2> QED BY <2>1, <2>2 DEF IsPage
<1> HIDE DEF r
<1>2. Waiting(r) = {}
  BY <1>1 DEF Waiting, D!ToSet
<1>3. Flushed(r) = Flushed(pg) /\ \A b : Lines(r, b) = Lines(pg, b)
  BY <1>1 DEF Flushed, Lines
<1>4. Len(r.current) = 0
  BY <1>1
<1>5. InItems(s, r, st)
  BY <1>1, <1>2, <1>3 DEF InItems
<1>6. InLines(r, V)
  BY <1>1, <1>2, <1>3, <1>4 DEF InLines
<1>7. InBullets(s, r, V)
  BY <1>1, <1>3 DEF InBullets
<1> QED BY <1>1, <1>5, <1>6, <1>7 DEF r

LEMMA Filed ==
  ASSUME NEW s, NEW pg, IsPage(pg), NEW st \in Seq(Nat), Rising(st), \A k \in 1..Len(st) : st[k] # 0,
         NEW V, InItems(s, pg, st), InLines(pg, V), InBullets(s, pg, V), Waiting(pg) # {}
  PROVE  LET r == D!Flush(pg) IN
         /\ IsPage(r) /\ InItems(s, r, st) /\ InLines(r, V) /\ InBullets(s, r, V)
         /\ r.current = <<>> /\ r.skipDepth = pg.skipDepth
<1> DEFINE r == D!Flush(pg)
           kept == D!Kept(pg.current)
           items == pg.liPending
           d == Len(st)
           pending == items # <<>> /\ items[Len(items)]
           block == [marked |-> pending, texts |-> kept]
           n == Len(pg.blocks)
<1>1. /\ pg.blocks \in Seq(Blocks) /\ pg.current \in Seq(Nat) /\ pg.skipDepth \in Nat
      /\ items \in Seq(BOOLEAN) /\ n \in Nat /\ Len(items) \in Nat
      /\ \A b \in 1..n : Lines(pg, b) \in Seq(Nat) /\ pg.blocks[b].marked \in BOOLEAN
      /\ \A x : x \in Flushed(pg) <=> \E b \in 1..n : x \in D!ToSet(Lines(pg, b))
      /\ \A x : x \in Waiting(pg) <=> x # 0 /\ x \in D!ToSet(pg.current)
  BY PageFields
<1>2. /\ kept \in Seq(Nat) /\ Rising(kept)
      /\ \A x : x \in D!ToSet(kept) <=> x # 0 /\ x \in D!ToSet(pg.current)
  <2>1. \A i, k \in 1..Len(pg.current) :
          i < k /\ pg.current[i] # 0 /\ pg.current[k] # 0 => pg.current[i] < pg.current[k]
    BY DEF InLines
  <2> QED BY <1>1, <2>1, KeptIs
<1>3. /\ \A x : x \in Waiting(pg) <=> \E i \in 1..Len(kept) : kept[i] = x
      /\ Len(kept) \in Nat /\ Len(kept) # 0 /\ kept # <<>> /\ 1 \in 1..Len(kept)
  <2>1. \A x : x \in D!ToSet(kept) <=> \E i \in 1..Len(kept) : kept[i] = x
    BY <1>2, TextsOf
  <2>2. \A x : x \in Waiting(pg) <=> \E i \in 1..Len(kept) : kept[i] = x
    BY <1>1, <1>2, <2>1
  <2> HIDE DEF kept
  <2>3. Len(kept) \in Nat
    BY <1>2
  <2>4. Len(kept) # 0
    <3>1. PICK x : x \in Waiting(pg)
      OBVIOUS
    <3>2. PICK i \in 1..Len(kept) : kept[i] = x
      BY <2>2, <3>1
    <3> QED BY <2>3, <3>2
  <2> QED BY <2>2, <2>3, <2>4
<1>4. /\ d \in Nat /\ Len(items) = d
      /\ \A k \in 1..d : items[k] <=> \A x \in Flushed(pg) : Holder(s, x) # st[k]
      /\ \A x \in Waiting(pg) : Holder(s, x) = Top(st)
  BY DEF InItems
<1>5. pending \in BOOLEAN /\ (pending <=> d # 0 /\ items[d])
  <2>1. items # <<>> <=> d # 0
    BY <1>1, <1>4, EmptySeq
  <2>2. d # 0 => d \in 1..d
    BY <1>4
  <2>3. d # 0 => items[d] \in BOOLEAN
    BY <1>1, <1>4, <2>2
  <2> QED BY <1>4, <2>1, <2>3
<1> DEFINE next == IF pending THEN Append(Less(items), FALSE) ELSE items
<1>6. r = [pg EXCEPT !.current = <<>>, !.blocks = Append(pg.blocks, block), !.liPending = next]
  BY <1>3, FlushIs
<1> HIDE DEF r, pending, kept
<1>7. next \in Seq(BOOLEAN) /\ Len(next) = d
      /\ \A k \in 1..d : next[k] <=> (k # d /\ items[k])
  <2>1. CASE pending
    <3>1. d # 0 /\ items[d]
      BY <1>5, <2>1
    <3>2. /\ Less(items) \in Seq(BOOLEAN) /\ Len(Less(items)) = d - 1
          /\ \A k \in 1..Len(Less(items)) : Less(items)[k] = items[k]
      BY <1>1, <1>4, <3>1, LessIs
    <3> DEFINE l == Less(items)
    <3>a. l \in Seq(BOOLEAN) /\ FALSE \in BOOLEAN
      BY <3>2
    <3> HIDE DEF l
    <3>3. /\ Append(l, FALSE) \in Seq(BOOLEAN) /\ Len(Append(l, FALSE)) = Len(l) + 1
          /\ Append(l, FALSE)[Len(l) + 1] = FALSE
          /\ \A k \in 1..Len(l) : Append(l, FALSE)[k] = l[k]
      BY <3>a, AppendProperties
    <3>4. d - 1 + 1 = d /\ \A k \in 1..d : k = d \/ k \in 1..(d - 1)
      BY <1>4
    <3> QED BY <2>1, <3>2, <3>3, <3>4 DEF l
  <2>2. CASE ~ pending
    <3>1. next = items
      BY <2>2
    <3>2. d # 0 => ~ items[d]
      BY <1>5, <2>2
    <3>3. \A k \in 1..d : items[k] \in BOOLEAN /\ (k = d => d # 0)
      BY <1>1, <1>4
    <3> QED BY <1>1, <1>4, <3>1, <3>2, <3>3
  <2> QED BY <1>5, <2>1, <2>2
<1> HIDE DEF next
<1>8. block \in Blocks /\ block.marked = pending /\ block.texts = kept
  BY <1>2, <1>5 DEF Blocks
<1> HIDE DEF block
<1>9. /\ IsPage(r) /\ r.blocks = Append(pg.blocks, block) /\ r.current = <<>>
      /\ r.skipDepth = pg.skipDepth /\ r.liPending = next
  <2>1. Append(pg.blocks, block) \in Seq(Blocks) /\ <<>> \in Seq(Nat)
    BY <1>1, <1>8
  <2> QED BY <1>6, <1>7, <2>1 DEF IsPage
<1>10. /\ Len(r.blocks) = n + 1 /\ Lines(r, n + 1) = kept /\ r.blocks[n + 1].marked = pending
       /\ \A b \in 1..n : Lines(r, b) = Lines(pg, b) /\ r.blocks[b] = pg.blocks[b]
       /\ \A b \in 1..(n + 1) : b = n + 1 \/ b \in 1..n
       /\ \A b \in 1..n : b \in 1..(n + 1) /\ b < n + 1
       /\ n + 1 \in 1..(n + 1)
  BY <1>1, <1>8, <1>9, AppendProperties DEF Lines
<1>11. Waiting(r) = {} /\ Len(r.current) = 0
  BY <1>9 DEF Waiting, D!ToSet
<1>12. Flushed(r) = Flushed(pg) \union Waiting(pg)
  <2>1. \A x : x \in Flushed(r) <=> \E b \in 1..(n + 1) : x \in D!ToSet(Lines(r, b))
    BY <1>9, <1>10, PageFields
  <2>2. \A x : x \in D!ToSet(kept) <=> x \in Waiting(pg)
    BY <1>1, <1>2
  <2>3. D!ToSet(Lines(r, n + 1)) = D!ToSet(kept)
    BY <1>10
  <2>4. \A b \in 1..n : D!ToSet(Lines(r, b)) = D!ToSet(Lines(pg, b))
    BY <1>10
  <2>5. \A x : x \in Flushed(pg) <=> \E b \in 1..n : x \in D!ToSet(Lines(pg, b))
    BY <1>1
  <2>6. \A b : b \in 1..(n + 1) <=> b = n + 1 \/ b \in 1..n
    BY <1>10
  <2>7. \A x : x \in Flushed(r) <=> x \in Flushed(pg) \/ x \in Waiting(pg)
    BY <2>1, <2>2, <2>3, <2>4, <2>5, <2>6
  <2> QED BY <2>7
<1>13. InItems(s, r, st)
  <2>1. \A k \in 1..d : next[k] <=> \A x \in Flushed(r) : Holder(s, x) # st[k]
    <3> SUFFICES ASSUME NEW k \in 1..d PROVE next[k] <=> \A x \in Flushed(r) : Holder(s, x) # st[k]
      OBVIOUS
    <3>1. Top(st) = st[d] /\ d \in 1..d /\ k <= d
      BY <1>4 DEF Top
    <3>2. CASE k = d
      BY <1>3, <1>4, <1>7, <1>12, <3>1, <3>2
    <3>3. CASE k # d
      <4>1. st[k] # st[d]
        <5>1. st[k] < st[d] /\ st[k] \in Nat /\ st[d] \in Nat
          BY <1>4, <3>1, <3>3 DEF Rising
        <5> QED BY <5>1
      <4> QED BY <1>4, <1>7, <1>12, <3>1, <3>3, <4>1
    <3> QED BY <3>2, <3>3
  <2> QED BY <1>4, <1>7, <1>9, <1>11, <2>1 DEF InItems
<1>14. InLines(r, V)
  <2>1. Flushed(r) \union Waiting(r) = V
    BY <1>11, <1>12 DEF InLines
  <2>2. \A b \in 1..Len(r.blocks) : Len(Lines(r, b)) # 0 /\ Rising(Lines(r, b))
    BY <1>2, <1>3, <1>10 DEF InLines
  <2>3. ASSUME NEW b \in 1..Len(r.blocks), NEW c \in 1..Len(r.blocks), b < c,
               NEW i \in 1..Len(Lines(r, b)), NEW k \in 1..Len(Lines(r, c))
        PROVE  Lines(r, b)[i] < Lines(r, c)[k]
    <3>1. b \in 1..n
      BY <1>1, <1>10, <2>3
    <3>2. CASE c \in 1..n
      BY <1>10, <2>3, <3>1, <3>2 DEF InLines
    <3>3. CASE c = n + 1
      <4>1. Lines(pg, b)[i] \in D!ToSet(Lines(pg, b))
        BY <1>1, <1>10, <3>1, TextsOf
      <4>2. Lines(pg, b)[i] \in Flushed(pg)
        BY <1>1, <3>1, <4>1
      <4>3. kept[k] \in Waiting(pg)
        BY <1>3, <1>10, <3>3
      <4>4. Lines(pg, b)[i] < kept[k]
        BY <4>2, <4>3 DEF InLines
      <4> QED BY <1>10, <3>1, <3>3, <4>4
    <3> QED BY <1>10, <3>2, <3>3
  <2> QED BY <1>11, <2>1, <2>2, <2>3 DEF InLines
<1>15. pending <=> FirstOf(s, V, kept[1])
  <2>1. kept[1] \in Waiting(pg) /\ Holder(s, kept[1]) = Top(st)
    BY <1>3, <1>4
  <2>2. \A x \in Waiting(pg) : ~ (x < kept[1])
    <3> SUFFICES ASSUME NEW i \in 1..Len(kept) PROVE ~ (kept[i] < kept[1])
      BY <1>3
    <3>1. i = 1 \/ 1 < i
      BY <1>3
    <3>2. kept[i] \in Nat /\ kept[1] \in Nat
      BY <1>2, <1>3
    <3>3. 1 < i => kept[1] < kept[i]
      BY <1>2, <1>3 DEF Rising
    <3> QED BY <3>1, <3>2, <3>3
  <2>3. \A x \in V : x < kept[1] <=> x \in Flushed(pg)
    <3>1. \A x \in Flushed(pg) : x < kept[1]
      BY <2>1 DEF InLines
    <3>2. \A x \in V : x \in Flushed(pg) \/ x \in Waiting(pg)
      BY DEF InLines
    <3> QED BY <2>2, <3>1, <3>2
  <2>4. Flushed(pg) \subseteq V
    BY DEF InLines
  <2>5. FirstOf(s, V, kept[1]) <=> Top(st) # 0 /\ \A x \in Flushed(pg) : Holder(s, x) # Top(st)
    BY <2>1, <2>3, <2>4 DEF FirstOf
  <2>6. CASE d = 0
    BY <1>5, <2>5, <2>6 DEF Top
  <2>7. CASE d # 0
    <3>1. Top(st) = st[d] /\ d \in 1..d /\ st[d] # 0
      BY <1>4, <2>7 DEF Top
    <3> QED BY <1>4, <1>5, <2>5, <2>7, <3>1
  <2> QED BY <2>6, <2>7
<1>16. InBullets(s, r, V)
  BY <1>10, <1>15 DEF InBullets
<1> QED BY <1>9, <1>13, <1>14, <1>16 DEF r

LEMMA Flushing ==
  ASSUME NEW s, NEW pg, IsPage(pg), NEW st \in Seq(Nat), Rising(st), \A k \in 1..Len(st) : st[k] # 0,
         NEW V, InItems(s, pg, st), InLines(pg, V), InBullets(s, pg, V)
  PROVE  LET r == D!Flush(pg) IN
         /\ IsPage(r) /\ InItems(s, r, st) /\ InLines(r, V) /\ InBullets(s, r, V)
         /\ r.current = <<>> /\ r.skipDepth = pg.skipDepth /\ Waiting(r) = {}
<1> DEFINE r == D!Flush(pg)
<1>1. ASSUME r.current = <<>> PROVE Waiting(r) = {}
  BY <1>1 DEF Waiting, D!ToSet
<1>2. CASE Waiting(pg) # {}
  <2>1. /\ IsPage(r) /\ InItems(s, r, st) /\ InLines(r, V) /\ InBullets(s, r, V)
        /\ r.current = <<>> /\ r.skipDepth = pg.skipDepth
    BY <1>2, Filed
  <2> QED BY <1>1, <2>1
<1>3. CASE Waiting(pg) = {}
  <2> DEFINE kept == D!Kept(pg.current)
  <2>1. /\ pg.current \in Seq(Nat)
        /\ \A x : x \in Waiting(pg) <=> x # 0 /\ x \in D!ToSet(pg.current)
    BY PageFields
  <2>2. \A i, k \in 1..Len(pg.current) :
          i < k /\ pg.current[i] # 0 /\ pg.current[k] # 0 => pg.current[i] < pg.current[k]
    BY DEF InLines
  <2>3. kept \in Seq(Nat) /\ \A x : x \in D!ToSet(kept) <=> x # 0 /\ x \in D!ToSet(pg.current)
    BY <2>1, <2>2, KeptIs
  <2>4. \A x : x \notin D!ToSet(kept)
    BY <1>3, <2>1, <2>3
  <2> HIDE DEF kept
  <2>5. \A i \in 1..Len(kept) : FALSE
    BY <2>3, <2>4, TextsOf
  <2>6. kept = <<>>
    BY <2>3, <2>5
  <2>7. r = [pg EXCEPT !.current = <<>>]
    BY <2>6, FlushIs DEF kept
  <2> DEFINE q == [pg EXCEPT !.current = <<>>]
  <2>8. /\ IsPage(q) /\ InItems(s, q, st) /\ InLines(q, V) /\ InBullets(s, q, V)
        /\ q.current = <<>> /\ q.skipDepth = pg.skipDepth
    BY <1>3, Emptied
  <2> HIDE DEF r, q
  <2>9. r = q
    BY <2>7 DEF q
  <2> QED BY <1>1, <2>8, <2>9 DEF r
<1> QED BY <1>2, <1>3

----------------------------------------------------------------------------
(* One more mark.                                                             *)

\* The depth of what is skipped, and the items that are open, are what the marks say.
Skips(s, d) == \E sk : Nest(sk, At(s, "skip"), At(s, "/skip"), Len(s)) /\ Len(sk) = d
Holds(s, pg, st) ==
  /\ Nest(st, Shown(s, "li"), Shown(s, "/li"), Len(s)) /\ InItems(s, pg, st)
  /\ InLines(pg, Shown(s, "text")) /\ InBullets(s, pg, Shown(s, "text"))
PageInv(s, pg) == IsPage(pg) /\ Skips(s, pg.skipDepth) /\ \E st : Holds(s, pg, st)

LEMMA SkipsIs ==
  ASSUME NEW s \in Seq(D!Marks), NEW e, Skips(s, e)
  PROVE  e \in Nat /\ (Unseen(s, Len(s) + 1) <=> e # 0)
<1>1. PICK sk : Nest(sk, At(s, "skip"), At(s, "/skip"), Len(s)) /\ Len(sk) = e
  BY DEF Skips
<1>2. Len(s) \in Nat /\ Len(s) + 1 - 1 = Len(s)
  OBVIOUS
<1>3. Len(sk) \in Nat /\ (StillOpen(At(s, "skip"), At(s, "/skip"), Len(s)) = {} <=> Len(sk) = 0)
  BY <1>1, <1>2, NestOpens
<1> QED BY <1>1, <1>2, <1>3 DEF Unseen

LEMMA SkipsOn ==
  ASSUME NEW s \in Seq(D!Marks), NEW m \in D!Marks, NEW t, t = Append(s, m), NEW e, Skips(s, e)
  PROVE  Skips(t, IF m = "skip" THEN e + 1 ELSE IF m = "/skip" THEN (IF e = 0 THEN 0 ELSE e - 1) ELSE e)
<1> DEFINE n == Len(s)
<1>1. PICK sk : Nest(sk, At(s, "skip"), At(s, "/skip"), n) /\ Len(sk) = e
  BY DEF Skips
<1>a. n = Len(s)
  OBVIOUS
<1> HIDE DEF n
<1>b. /\ n \in Nat /\ t \in Seq(D!Marks) /\ Len(t) = n + 1
      /\ \A x : Alike(At(s, x), At(t, x), n) /\ n + 1 \notin At(s, x) /\ (n + 1 \in At(t, x) <=> m = x)
      /\ \A i \in 1..(n + 1) : Unseen(t, i) <=> Unseen(s, i)
      /\ \A x : Alike(Shown(s, x), Shown(t, x), n) /\ n + 1 \notin Shown(s, x)
      /\ \A x : n + 1 \in Shown(t, x) <=> m = x /\ ~ Unseen(s, n + 1)
      /\ \A x : Shown(s, x) \subseteq 1..n /\ Shown(t, x) \subseteq 1..(n + 1)
      /\ \A i \in 1..(n + 1) : Holder(t, i) = Holder(s, i)
  <2>1. More(s, m, t, n)
    BY <1>a, MarkedOn
  <2> QED BY <2>1 DEF More
<1>2. /\ n \in Nat /\ Len(t) = n + 1
      /\ Alike(At(s, "skip"), At(t, "skip"), n) /\ Alike(At(s, "/skip"), At(t, "/skip"), n)
      /\ n + 1 \in At(t, "skip") <=> m = "skip"
      /\ n + 1 \in At(t, "/skip") <=> m = "/skip"
  BY <1>b
<1>3. Nest(sk, At(t, "skip"), At(t, "/skip"), n)
  BY <1>1, <1>2, NestOfMore
<1>4. sk \in Seq(Nat) /\ Len(sk) = e /\ e \in Nat
  BY <1>1, <1>3 DEF Nest
<1>5. CASE m = "skip"
  <2>1. Nest(Append(sk, n + 1), At(t, "skip"), At(t, "/skip"), n + 1)
    BY <1>2, <1>3, <1>5, NestPush
  <2>2. Len(Append(sk, n + 1)) = e + 1
    BY <1>2, <1>4
  <2> QED BY <1>2, <1>5, <2>1, <2>2 DEF Skips
<1>6. CASE m = "/skip"
  <2>1. Nest(Less(sk), At(t, "skip"), At(t, "/skip"), n + 1)
    BY <1>2, <1>3, <1>6, NestPop
  <2>2. Len(Less(sk)) = IF e = 0 THEN 0 ELSE e - 1
    BY <1>4, LessIs
  <2> QED BY <1>2, <1>6, <2>1, <2>2 DEF Skips
<1>7. CASE m # "skip" /\ m # "/skip"
  <2>1. Nest(sk, At(t, "skip"), At(t, "/skip"), n + 1)
    BY <1>2, <1>3, <1>7, NestStays
  <2> QED BY <1>2, <1>4, <1>7, <2>1 DEF Skips
<1> QED BY <1>5, <1>6, <1>7

\* Which text is in which item does not change.
LEMMA SameItems ==
  ASSUME NEW s, NEW t, NEW n \in Nat, \A i \in 1..n : Holder(t, i) = Holder(s, i),
         NEW pg, IsPage(pg), NEW st, NEW V, V \subseteq 1..n,
         InItems(s, pg, st), InLines(pg, V), InBullets(s, pg, V)
  PROVE  InItems(t, pg, st) /\ InBullets(t, pg, V)
<1>1. \A x \in Flushed(pg) \union Waiting(pg) : Holder(t, x) = Holder(s, x)
  BY DEF InLines
<1>2. InItems(t, pg, st)
  BY <1>1 DEF InItems
<1>3. \A b \in 1..Len(pg.blocks) : Lines(pg, b)[1] \in V
  <2> SUFFICES ASSUME NEW b \in 1..Len(pg.blocks) PROVE Lines(pg, b)[1] \in V
    OBVIOUS
  <2>1. Lines(pg, b) \in Seq(Nat) /\ Len(Lines(pg, b)) # 0
    BY PageFields DEF InLines
  <2> DEFINE l == Lines(pg, b)
  <2> HIDE DEF l
  <2>2. l \in Seq(Nat) /\ Len(l) # 0
    BY <2>1 DEF l
  <2>3. 1 \in 1..Len(l)
    BY <2>2
  <2>4. l[1] \in D!ToSet(l)
    BY <2>2, <2>3, TextsOf
  <2>5. l[1] \in Flushed(pg)
    BY <2>4, PageFields DEF l
  <2> QED BY <2>5 DEF InLines, l
<1>4. \A x \in V : Holder(t, x) = Holder(s, x)
  OBVIOUS
<1>5. \A x \in V : FirstOf(t, V, x) <=> FirstOf(s, V, x)
  BY <1>4 DEF FirstOf
<1>6. InBullets(t, pg, V)
  BY <1>3, <1>5 DEF InBullets
<1> QED BY <1>2, <1>6

\* A mark that opens, closes and shows nothing.
LEMMA HoldsOn ==
  ASSUME NEW s \in Seq(D!Marks), NEW m \in D!Marks, NEW t, t = Append(s, m),
         m \notin {"li", "/li", "text"} \/ Unseen(s, Len(s) + 1),
         NEW pg, IsPage(pg), NEW st, Holds(s, pg, st)
  PROVE  Holds(t, pg, st)
<1> DEFINE n == Len(s)
<1>a. n = Len(s)
  OBVIOUS
<1> HIDE DEF n
<1>1. /\ n \in Nat /\ t \in Seq(D!Marks) /\ Len(t) = n + 1
      /\ \A x : Alike(At(s, x), At(t, x), n) /\ n + 1 \notin At(s, x) /\ (n + 1 \in At(t, x) <=> m = x)
      /\ \A i \in 1..(n + 1) : Unseen(t, i) <=> Unseen(s, i)
      /\ \A x : Alike(Shown(s, x), Shown(t, x), n) /\ n + 1 \notin Shown(s, x)
      /\ \A x : n + 1 \in Shown(t, x) <=> m = x /\ ~ Unseen(s, n + 1)
      /\ \A x : Shown(s, x) \subseteq 1..n /\ Shown(t, x) \subseteq 1..(n + 1)
      /\ \A i \in 1..(n + 1) : Holder(t, i) = Holder(s, i)
  <2>1. More(s, m, t, n)
    BY <1>a, MarkedOn
  <2> QED BY <2>1 DEF More
<1>2. n + 1 \notin Shown(t, "li") /\ n + 1 \notin Shown(t, "/li") /\ n + 1 \notin Shown(t, "text")
  BY <1>1, <1>a
<1>3. /\ Nest(st, Shown(s, "li"), Shown(s, "/li"), n) /\ InItems(s, pg, st)
      /\ InLines(pg, Shown(s, "text")) /\ InBullets(s, pg, Shown(s, "text"))
  BY <1>a DEF Holds
<1>4. Nest(st, Shown(t, "li"), Shown(t, "/li"), n + 1)
  <2>1. Nest(st, Shown(t, "li"), Shown(t, "/li"), n)
    BY <1>1, <1>3, NestOfMore
  <2> QED BY <1>1, <1>2, <2>1, NestStays
<1>5. Shown(t, "text") = Shown(s, "text")
  <2>1. \A i \in 1..(n + 1) : i = n + 1 \/ i \in 1..n
    BY <1>1
  <2>2. \A i \in 1..n : i \in Shown(s, "text") <=> i \in Shown(t, "text")
    BY <1>1 DEF Alike
  <2> QED BY <1>1, <1>2, <2>1, <2>2
<1>6. \A i \in 1..n : Holder(t, i) = Holder(s, i)
  <2>1. \A i \in 1..n : i \in 1..(n + 1)
    BY <1>1
  <2> QED BY <1>1, <2>1
<1>7. InItems(t, pg, st) /\ InBullets(t, pg, Shown(s, "text"))
  BY <1>1, <1>3, <1>6, SameItems
<1> QED BY <1>1, <1>3, <1>4, <1>5, <1>7 DEF Holds

LEMMA HoldsIs ==
  ASSUME NEW s, Len(s) \in Nat, NEW pg, NEW st, Holds(s, pg, st)
  PROVE  /\ st \in Seq(Nat) /\ Rising(st) /\ \A k \in 1..Len(st) : st[k] \in 1..Len(s) /\ st[k] # 0
         /\ Nest(st, Shown(s, "li"), Shown(s, "/li"), Len(s)) /\ InItems(s, pg, st)
         /\ InLines(pg, Shown(s, "text")) /\ InBullets(s, pg, Shown(s, "text"))
<1>1. /\ Nest(st, Shown(s, "li"), Shown(s, "/li"), Len(s)) /\ InItems(s, pg, st)
      /\ InLines(pg, Shown(s, "text")) /\ InBullets(s, pg, Shown(s, "text"))
  BY DEF Holds
<1>2. st \in Seq(Nat) /\ \A k \in 1..Len(st) : st[k] \in 1..Len(s)
  BY <1>1, NestOpens
<1>3. Rising(st)
  BY <1>1 DEF Nest
<1>4. \A k \in 1..Len(st) : st[k] # 0
  BY <1>2
<1> QED BY <1>1, <1>2, <1>3, <1>4

\* What waits is filed.
LEMMA HoldsFlushed ==
  ASSUME NEW s, Len(s) \in Nat, NEW pg, IsPage(pg), NEW st, Holds(s, pg, st)
  PROVE  LET r == D!Flush(pg) IN
         /\ IsPage(r) /\ Holds(s, r, st) /\ r.skipDepth = pg.skipDepth /\ Waiting(r) = {} /\ r.current = <<>>
<1> DEFINE r == D!Flush(pg)
           V == Shown(s, "text")
<1>1. /\ st \in Seq(Nat) /\ Rising(st) /\ \A k \in 1..Len(st) : st[k] # 0
      /\ Nest(st, Shown(s, "li"), Shown(s, "/li"), Len(s))
      /\ InItems(s, pg, st) /\ InLines(pg, V) /\ InBullets(s, pg, V)
  BY HoldsIs
<1> HIDE DEF V
<1>2. /\ IsPage(r) /\ InItems(s, r, st) /\ InLines(r, V) /\ InBullets(s, r, V)
      /\ r.current = <<>> /\ r.skipDepth = pg.skipDepth /\ Waiting(r) = {}
  BY <1>1, Flushing
<1> HIDE DEF r
<1>3. Holds(s, r, st)
  BY <1>1, <1>2 DEF Holds, V
<1> QED BY <1>2, <1>3 DEF r

\* A break.
LEMMA Broken ==
  ASSUME NEW s, NEW pg, IsPage(pg), NEW st, Holds(s, pg, st)
  PROVE  LET r == [pg EXCEPT !.current = Append(@, 0)] IN
         IsPage(r) /\ Holds(s, r, st) /\ r.skipDepth = pg.skipDepth
<1> DEFINE c == pg.current
           b == Append(c, 0)
           r == [pg EXCEPT !.current = b]
           V == Shown(s, "text")
<1>1. c \in Seq(Nat) /\ Len(c) \in Nat /\ \A x : x \in Waiting(pg) <=> x # 0 /\ x \in D!ToSet(c)
  BY PageFields
<1> HIDE DEF c
<1>2. /\ b \in Seq(Nat) /\ Len(b) = Len(c) + 1 /\ b[Len(c) + 1] = 0
      /\ \A i \in 1..Len(c) : b[i] = c[i]
  BY <1>1, AppendProperties
<1> HIDE DEF b
<1>3. /\ IsPage(r) /\ r.blocks = pg.blocks /\ r.current = b /\ r.skipDepth = pg.skipDepth
      /\ r.liPending = pg.liPending
  <2>1. r = [pg EXCEPT !.current = b]
    OBVIOUS
  <2> HIDE DEF r
  <2> QED BY <1>2, <2>1 DEF IsPage
<1> HIDE DEF r
<1>4. Waiting(r) = Waiting(pg)
  <2>1. \A x : x \in D!ToSet(b) <=> \E i \in 1..Len(b) : b[i] = x
    BY <1>2, TextsOf
  <2>2. \A x : x \in D!ToSet(c) <=> \E i \in 1..Len(c) : c[i] = x
    BY <1>1, TextsOf
  <2>3. \A i \in 1..Len(b) : i = Len(c) + 1 \/ i \in 1..Len(c)
    BY <1>1, <1>2
  <2>4. \A i \in 1..Len(c) : i \in 1..Len(b)
    BY <1>1, <1>2
  <2>5. \A x : x # 0 => (x \in D!ToSet(b) <=> x \in D!ToSet(c))
    BY <1>2, <2>1, <2>2, <2>3, <2>4
  <2>6. \A x : x \in Waiting(r) <=> x # 0 /\ x \in D!ToSet(b)
    BY <1>3 DEF Waiting
  <2> QED BY <1>1, <2>5, <2>6
<1>5. Flushed(r) = Flushed(pg) /\ \A k : Lines(r, k) = Lines(pg, k)
  BY <1>3 DEF Flushed, Lines
<1>6. InItems(s, pg, st) /\ InLines(pg, V) /\ InBullets(s, pg, V) /\ Nest(st, Shown(s, "li"), Shown(s, "/li"), Len(s))
  BY DEF Holds
<1> HIDE DEF V
<1>7. InItems(s, r, st)
  BY <1>3, <1>4, <1>5, <1>6 DEF InItems
<1>8. InLines(r, V)
  <2>1. ASSUME NEW i \in 1..Len(b), NEW k \in 1..Len(b), i < k, b[i] # 0, b[k] # 0 PROVE b[i] < b[k]
    <3>1. i \in 1..Len(c) /\ k \in 1..Len(c)
      <4>1. \A j \in 1..Len(b) : j = Len(c) + 1 \/ j \in 1..Len(c)
        BY <1>1, <1>2
      <4> QED BY <1>2, <2>1, <4>1
    <3>2. c[i] < c[k]
      BY <1>2, <1>6, <2>1, <3>1 DEF InLines, c
    <3> QED BY <1>2, <3>1, <3>2
  <2> QED BY <1>3, <1>4, <1>5, <1>6, <2>1 DEF InLines
<1>9. InBullets(s, r, V)
  BY <1>3, <1>5, <1>6 DEF InBullets
<1>10. Holds(s, r, st)
  BY <1>6, <1>7, <1>8, <1>9 DEF Holds, V
<1> QED BY <1>3, <1>10 DEF r, b, c

\* With another list of marks to give, and nothing that waits.
LEMMA OtherMarks ==
  ASSUME NEW pg, IsPage(pg), NEW l \in Seq(BOOLEAN), NEW V, InLines(pg, V), NEW s, InBullets(s, pg, V)
  PROVE  LET r == [pg EXCEPT !.liPending = l] IN
         /\ IsPage(r) /\ r.liPending = l /\ r.skipDepth = pg.skipDepth
         /\ Flushed(r) = Flushed(pg) /\ Waiting(r) = Waiting(pg)
         /\ InLines(r, V) /\ InBullets(s, r, V)
<1> DEFINE r == [pg EXCEPT !.liPending = l]
<1>1. /\ IsPage(r) /\ r.blocks = pg.blocks /\ r.current = pg.current /\ r.skipDepth = pg.skipDepth
      /\ r.liPending = l
  <2>1. r = [pg EXCEPT !.liPending = l]
    OBVIOUS
  <2> HIDE DEF r
  <2> QED BY <2>1 DEF IsPage
<1> HIDE DEF r
<1>2. Flushed(r) = Flushed(pg) /\ Waiting(r) = Waiting(pg) /\ \A k : Lines(r, k) = Lines(pg, k)
  BY <1>1 DEF Flushed, Lines, Waiting
<1>3. InLines(r, V)
  BY <1>1, <1>2 DEF InLines
<1>4. InBullets(s, r, V)
  BY <1>1, <1>2 DEF InBullets
<1> QED BY <1>1, <1>2, <1>3, <1>4 DEF r

\* Nothing else is shown, and nothing shown before is held by another.
LEMMA SameText ==
  ASSUME NEW s, NEW t, NEW m, NEW n, More(s, m, t, n), m # "text"
  PROVE  /\ Shown(t, "text") = Shown(s, "text") /\ Shown(s, "text") \subseteq 1..n
         /\ n \in Nat /\ \A i \in 1..n : Holder(t, i) = Holder(s, i)
<1>1. /\ n \in Nat /\ n + 1 \notin Shown(t, "text")
      /\ Alike(Shown(s, "text"), Shown(t, "text"), n)
      /\ Shown(s, "text") \subseteq 1..n /\ Shown(t, "text") \subseteq 1..(n + 1)
      /\ \A i \in 1..(n + 1) : Holder(t, i) = Holder(s, i)
  BY DEF More
<1>2. \A i \in 1..(n + 1) : i = n + 1 \/ i \in 1..n
  BY <1>1
<1>3. \A i \in 1..n : i \in 1..(n + 1)
  BY <1>1
<1>4. \A i \in 1..n : i \in Shown(s, "text") <=> i \in Shown(t, "text")
  BY <1>1 DEF Alike
<1> QED BY <1>1, <1>2, <1>3, <1>4

\* An item opens.
LEMMA ItemOpened ==
  ASSUME NEW s, Len(s) \in Nat, NEW t, NEW m, NEW n, n = Len(s), More(s, m, t, n), m = "li", ~ Unseen(s, n + 1),
         NEW pg, IsPage(pg), NEW st, Holds(s, pg, st), Waiting(pg) = {},
         NEW r, r = [pg EXCEPT !.liPending = Append(@, TRUE)]
  PROVE  IsPage(r) /\ r.skipDepth = pg.skipDepth /\ \E w : Holds(t, r, w)
<1> DEFINE V == Shown(s, "text")
           u == Append(st, n + 1)
           l == Append(pg.liPending, TRUE)
           d == Len(st)
<1>1. /\ st \in Seq(Nat) /\ \A k \in 1..d : st[k] \in 1..n /\ st[k] # 0
      /\ Nest(st, Shown(s, "li"), Shown(s, "/li"), n) /\ InItems(s, pg, st)
      /\ InLines(pg, V) /\ InBullets(s, pg, V)
  BY HoldsIs
<1>2. Shown(t, "text") = V /\ V \subseteq 1..n /\ n \in Nat /\ \A i \in 1..n : Holder(t, i) = Holder(s, i)
  BY SameText
<1>3. /\ Len(t) = n + 1 /\ n + 1 \in Shown(t, "li") /\ n + 1 \notin Shown(t, "/li")
      /\ Alike(Shown(s, "li"), Shown(t, "li"), n) /\ Alike(Shown(s, "/li"), Shown(t, "/li"), n)
  BY DEF More
<1> HIDE DEF V
<1>4. InItems(t, pg, st) /\ InBullets(t, pg, V)
  BY <1>1, <1>2, SameItems
<1>5. Nest(u, Shown(t, "li"), Shown(t, "/li"), n + 1)
  <2>1. Nest(st, Shown(t, "li"), Shown(t, "/li"), n)
    BY <1>1, <1>2, <1>3, NestOfMore
  <2> QED BY <1>2, <1>3, <2>1, NestPush
<1>6. pg.liPending \in Seq(BOOLEAN) /\ TRUE \in BOOLEAN /\ Len(pg.liPending) = d /\ d \in Nat
      /\ Flushed(pg) \subseteq V
  BY <1>1, PageFields DEF InItems, InLines
<1>7. /\ u \in Seq(Nat) /\ Len(u) = d + 1 /\ u[d + 1] = n + 1 /\ \A k \in 1..d : u[k] = st[k]
  BY <1>1, <1>2, AppendProperties
<1>8. /\ l \in Seq(BOOLEAN) /\ Len(l) = d + 1 /\ l[d + 1] = TRUE
      /\ \A k \in 1..d : l[k] = pg.liPending[k]
  <2> DEFINE q == pg.liPending
  <2>1. q \in Seq(BOOLEAN) /\ TRUE \in BOOLEAN /\ Len(q) = d
    BY <1>6
  <2> HIDE DEF q
  <2> DEFINE e == TRUE
  <2>a. q \in Seq(BOOLEAN) /\ e \in BOOLEAN
    BY <2>1
  <2> HIDE DEF e
  <2>b. /\ Append(q, e) \in Seq(BOOLEAN) /\ Len(Append(q, e)) = Len(q) + 1
        /\ Append(q, e)[Len(q) + 1] = e
        /\ \A k \in 1..Len(q) : Append(q, e)[k] = q[k]
    BY <2>a, AppendProperties
  <2>2. /\ Append(q, TRUE) \in Seq(BOOLEAN) /\ Len(Append(q, TRUE)) = Len(q) + 1
        /\ Append(q, TRUE)[Len(q) + 1] = TRUE
        /\ \A k \in 1..Len(q) : Append(q, TRUE)[k] = q[k]
    BY <2>b DEF e
  <2> QED BY <2>1, <2>2 DEF q
<1>a. r = [pg EXCEPT !.liPending = l]
  OBVIOUS
<1> HIDE DEF u, l
<1>9. /\ IsPage(r) /\ r.liPending = l /\ r.skipDepth = pg.skipDepth
      /\ Flushed(r) = Flushed(pg) /\ Waiting(r) = Waiting(pg)
      /\ InLines(r, V) /\ InBullets(t, r, V)
  <2> DEFINE q == [pg EXCEPT !.liPending = l]
  <2>1. /\ IsPage(q) /\ q.liPending = l /\ q.skipDepth = pg.skipDepth
        /\ Flushed(q) = Flushed(pg) /\ Waiting(q) = Waiting(pg)
        /\ InLines(q, V) /\ InBullets(t, q, V)
    BY <1>1, <1>4, <1>8, OtherMarks
  <2> HIDE DEF q
  <2>2. r = q
    BY <1>a DEF q
  <2> QED BY <2>1, <2>2
<1>10. \A x \in Flushed(pg) : Holder(t, x) # n + 1
  <2> SUFFICES ASSUME NEW x \in 1..n PROVE Holder(t, x) # n + 1
    BY <1>2, <1>6
  <2>1. Holder(t, x) \in 0..(x - 1)
    BY <1>2, HolderIn
  <2> QED BY <1>2, <2>1
<1>11. InItems(t, r, u)
  <2>1. \A k \in 1..d : l[k] <=> \A x \in Flushed(r) : Holder(t, x) # u[k]
    <3>1. \A k \in 1..d : pg.liPending[k] <=> \A x \in Flushed(pg) : Holder(t, x) # st[k]
      BY <1>4, <1>6 DEF InItems
    <3>2. Flushed(r) = Flushed(pg) /\ \A k \in 1..d : u[k] = st[k] /\ l[k] = pg.liPending[k]
      BY <1>7, <1>8, <1>9
    <3> HIDE DEF d
    <3> SUFFICES ASSUME NEW k \in 1..d PROVE l[k] <=> \A x \in Flushed(pg) : Holder(t, x) # u[k]
      BY <3>2
    <3>3. u[k] = st[k] /\ l[k] = pg.liPending[k]
      BY <3>2
    <3>4. pg.liPending[k] <=> \A x \in Flushed(pg) : Holder(t, x) # st[k]
      BY <3>1
    <3> QED BY <3>3, <3>4
  <2>2. l[d + 1] <=> \A x \in Flushed(r) : Holder(t, x) # u[d + 1]
    BY <1>7, <1>8, <1>9, <1>10
  <2>3. \A k \in 1..(d + 1) : k = d + 1 \/ k \in 1..d
    BY <1>6
  <2>4. \A k \in 1..Len(u) : r.liPending[k] <=> \A x \in Flushed(r) : Holder(t, x) # u[k]
    BY <1>7, <1>9, <2>1, <2>2, <2>3
  <2> QED BY <1>7, <1>8, <1>9, <2>4 DEF InItems
<1>12. Holds(t, r, u)
  BY <1>2, <1>3, <1>5, <1>9, <1>11 DEF Holds
<1>13. \E w : Holds(t, r, w)
  BY <1>12
<1> QED BY <1>9, <1>13

\* An item closes, if one is open.
LEMMA ItemClosed ==
  ASSUME NEW s, Len(s) \in Nat, NEW t, NEW m, NEW n, n = Len(s), More(s, m, t, n), m = "/li", ~ Unseen(s, n + 1),
         NEW pg, IsPage(pg), NEW st, Holds(s, pg, st), Waiting(pg) = {}
  PROVE  LET r == IF pg.liPending # <<>> THEN [pg EXCEPT !.liPending = D!Front(@)] ELSE pg IN
         IsPage(r) /\ r.skipDepth = pg.skipDepth /\ \E w : Holds(t, r, w)
<1> DEFINE V == Shown(s, "text")
           u == Less(st)
           l == Less(pg.liPending)
           r == [pg EXCEPT !.liPending = l]
           d == Len(st)
<1>1. /\ st \in Seq(Nat) /\ \A k \in 1..d : st[k] \in 1..n /\ st[k] # 0
      /\ Nest(st, Shown(s, "li"), Shown(s, "/li"), n) /\ InItems(s, pg, st)
      /\ InLines(pg, V) /\ InBullets(s, pg, V)
  BY HoldsIs
<1>2. Shown(t, "text") = V /\ V \subseteq 1..n /\ n \in Nat /\ \A i \in 1..n : Holder(t, i) = Holder(s, i)
  BY SameText
<1>3. /\ Len(t) = n + 1 /\ n + 1 \notin Shown(t, "li") /\ n + 1 \in Shown(t, "/li")
      /\ Alike(Shown(s, "li"), Shown(t, "li"), n) /\ Alike(Shown(s, "/li"), Shown(t, "/li"), n)
  BY DEF More
<1> HIDE DEF V
<1>4. InItems(t, pg, st) /\ InBullets(t, pg, V)
  BY <1>1, <1>2, SameItems
<1>5. Nest(u, Shown(t, "li"), Shown(t, "/li"), n + 1)
  <2>1. Nest(st, Shown(t, "li"), Shown(t, "/li"), n)
    BY <1>1, <1>2, <1>3, NestOfMore
  <2> QED BY <1>2, <1>3, <2>1, NestPop
<1>6. pg.liPending \in Seq(BOOLEAN) /\ Len(pg.liPending) = d /\ d \in Nat
  BY <1>1, PageFields DEF InItems
<1>7. u \in Seq(Nat) /\ Len(u) = (IF d = 0 THEN 0 ELSE d - 1)
      /\ \A k \in 1..Len(u) : k \in 1..d /\ u[k] = st[k]
  BY <1>1, LessIs
<1>8. l \in Seq(BOOLEAN) /\ Len(l) = Len(u) /\ \A k \in 1..Len(u) : l[k] = pg.liPending[k]
  <2> DEFINE q == pg.liPending
  <2>1. q \in Seq(BOOLEAN) /\ Len(q) = d
    BY <1>6
  <2> HIDE DEF q
  <2>2. /\ Less(q) \in Seq(BOOLEAN) /\ Len(Less(q)) = IF Len(q) = 0 THEN 0 ELSE Len(q) - 1
        /\ \A k \in 1..Len(Less(q)) : Less(q)[k] = q[k]
    BY <2>1, LessIs
  <2> QED BY <1>7, <2>1, <2>2 DEF q
<1> HIDE DEF u
<1>a. r = IF pg.liPending # <<>> THEN [pg EXCEPT !.liPending = D!Front(@)] ELSE pg
  <2>1. CASE pg.liPending = <<>>
    <3>1. pg = [pg EXCEPT !.liPending = pg.liPending]
      BY DEF IsPage
    <3> QED BY <2>1, <3>1 DEF Less
  <2>2. CASE pg.liPending # <<>>
    BY <2>2 DEF Less
  <2> QED BY <2>1, <2>2
<1> HIDE DEF l
<1>9. /\ IsPage(r) /\ r.liPending = l /\ r.skipDepth = pg.skipDepth
      /\ Flushed(r) = Flushed(pg) /\ Waiting(r) = Waiting(pg)
      /\ InLines(r, V) /\ InBullets(t, r, V)
  BY <1>1, <1>4, <1>8, OtherMarks
<1> HIDE DEF r
<1>10. InItems(t, r, u)
  <2>1. \A k \in 1..Len(u) : r.liPending[k] <=> \A x \in Flushed(r) : Holder(t, x) # u[k]
    BY <1>4, <1>7, <1>8, <1>9 DEF InItems
  <2> QED BY <1>8, <1>9, <2>1 DEF InItems
<1>11. Holds(t, r, u)
  BY <1>2, <1>3, <1>5, <1>9, <1>10 DEF Holds
<1> QED BY <1>9, <1>11, <1>a

\* A text.
LEMMA TextWritten ==
  ASSUME NEW s, Len(s) \in Nat, NEW t, NEW m, NEW n, n = Len(s), More(s, m, t, n), m = "text", ~ Unseen(s, n + 1),
         NEW pg, IsPage(pg), NEW st, Holds(s, pg, st),
         NEW i, i = n + 1, NEW r, r = [pg EXCEPT !.current = Append(@, i)]
  PROVE  IsPage(r) /\ r.skipDepth = pg.skipDepth /\ Holds(t, r, st)
<1>0. r = [pg EXCEPT !.current = Append(@, n + 1)]
  OBVIOUS
<1> DEFINE V == Shown(s, "text")
           Y == Shown(t, "text")
           c == pg.current
           b == Append(c, n + 1)
<1>1. /\ st \in Seq(Nat) /\ Nest(st, Shown(s, "li"), Shown(s, "/li"), n) /\ InItems(s, pg, st)
      /\ InLines(pg, V) /\ InBullets(s, pg, V)
  BY HoldsIs
<1>2. /\ n \in Nat /\ Len(t) = n + 1 /\ n + 1 \notin Shown(t, "li") /\ n + 1 \notin Shown(t, "/li")
      /\ Alike(Shown(s, "li"), Shown(t, "li"), n) /\ Alike(Shown(s, "/li"), Shown(t, "/li"), n)
      /\ Alike(V, Y, n) /\ n + 1 \in Y /\ V \subseteq 1..n /\ Y \subseteq 1..(n + 1)
      /\ \A j \in 1..(n + 1) : Holder(t, j) = Holder(s, j)
  BY DEF More
<1>3. \A j \in 1..(n + 1) : j = n + 1 \/ j \in 1..n
  BY <1>2
<1>4. \A j \in 1..n : j \in 1..(n + 1) /\ j < n + 1 /\ j # n + 1 /\ j # 0
  BY <1>2
<1>5. \A x : x \in Y <=> x \in V \/ x = n + 1
  <2>1. \A j \in 1..n : j \in V <=> j \in Y
    BY <1>2 DEF Alike
  <2> HIDE DEF V, Y
  <2> QED BY <1>2, <1>3, <2>1
<1>6. Holder(t, n + 1) = Top(st)
  <2>1. Holder(s, n + 1) = Top(st)
    BY <1>1, TopIs
  <2>2. n + 1 \in 1..(n + 1)
    BY <1>2
  <2> QED BY <1>2, <2>1, <2>2
<1>7. Nest(st, Shown(t, "li"), Shown(t, "/li"), n + 1)
  <2>1. Nest(st, Shown(t, "li"), Shown(t, "/li"), n)
    BY <1>1, <1>2, NestOfMore
  <2> QED BY <1>2, <2>1, NestStays
<1> HIDE DEF V, Y
<1>8. InItems(t, pg, st) /\ InBullets(t, pg, V)
  <2>1. \A j \in 1..n : Holder(t, j) = Holder(s, j)
    BY <1>2, <1>4
  <2> QED BY <1>1, <1>2, <2>1, SameItems
<1>a. r = [pg EXCEPT !.current = b]
  BY <1>0
<1>9. c \in Seq(Nat) /\ Len(c) \in Nat /\ \A x : x \in Waiting(pg) <=> x # 0 /\ x \in D!ToSet(c)
  BY PageFields
<1> HIDE DEF c
<1>10. n + 1 \in Nat /\ n + 1 # 0
  BY <1>2
<1>11. /\ b \in Seq(Nat) /\ Len(b) = Len(c) + 1 /\ b[Len(c) + 1] = n + 1
       /\ \A j \in 1..Len(c) : b[j] = c[j]
  BY <1>9, <1>10, AppendProperties
<1> HIDE DEF b
<1>12. /\ IsPage(r) /\ r.blocks = pg.blocks /\ r.current = b /\ r.skipDepth = pg.skipDepth
       /\ r.liPending = pg.liPending
  BY <1>11, <1>a DEF IsPage
<1>13. /\ \A j \in 1..Len(b) : j = Len(c) + 1 \/ j \in 1..Len(c)
       /\ \A j \in 1..Len(c) : j \in 1..Len(b) /\ j < Len(c) + 1
       /\ Len(c) + 1 \in 1..Len(b)
  BY <1>9, <1>11
<1>14. \A x : x \in Waiting(r) <=> x \in Waiting(pg) \/ x = n + 1
  <2>1. \A x : x \in D!ToSet(b) <=> \E j \in 1..Len(b) : b[j] = x
    BY <1>11, TextsOf
  <2>2. \A x : x \in D!ToSet(c) <=> \E j \in 1..Len(c) : c[j] = x
    BY <1>9, TextsOf
  <2>3. \A x : x \in D!ToSet(b) <=> x \in D!ToSet(c) \/ x = n + 1
    BY <1>11, <1>13, <2>1, <2>2
  <2>4. \A x : x \in Waiting(r) <=> x # 0 /\ x \in D!ToSet(b)
    BY <1>12 DEF Waiting
  <2> QED BY <1>9, <1>10, <2>3, <2>4
<1>15. Flushed(r) = Flushed(pg) /\ \A k : Lines(r, k) = Lines(pg, k)
  BY <1>12 DEF Flushed, Lines
<1>16. \A x \in Flushed(pg) \union Waiting(pg) : x \in V /\ x \in 1..n
  BY <1>1, <1>2 DEF InLines
<1>17. InItems(t, r, st)
  <2>1. \A x \in Waiting(r) : Holder(t, x) = Top(st)
    BY <1>6, <1>8, <1>14 DEF InItems
  <2> QED BY <1>8, <1>12, <1>15, <2>1 DEF InItems
<1>18. InLines(r, Y)
  <2>1. Flushed(r) \union Waiting(r) = Y
    BY <1>1, <1>5, <1>14, <1>15 DEF InLines
  <2>2. \A x \in Flushed(r) : \A y \in Waiting(r) : x < y
    BY <1>1, <1>4, <1>14, <1>15, <1>16 DEF InLines
  <2>3. ASSUME NEW j \in 1..Len(b), NEW k \in 1..Len(b), j < k, b[j] # 0, b[k] # 0 PROVE b[j] < b[k]
    <3>1. j \in 1..Len(c)
      <4>1. j # Len(c) + 1
        BY <1>9, <1>11, <2>3
      <4> QED BY <1>13, <4>1
    <3>2. b[j] = c[j]
      BY <1>11, <3>1
    <3>3. CASE k \in 1..Len(c)
      <4>1. c[j] < c[k]
        BY <1>1, <1>11, <2>3, <3>1, <3>3 DEF InLines, c
      <4> QED BY <1>11, <3>2, <3>3, <4>1
    <3>4. CASE k = Len(c) + 1
      <4>1. c[j] \in D!ToSet(c)
        BY <1>9, <3>1, TextsOf
      <4>2. c[j] \in 1..n
        BY <1>9, <1>16, <2>3, <3>2, <4>1
      <4> QED BY <1>4, <1>11, <3>2, <3>4, <4>2
    <3> QED BY <1>13, <3>3, <3>4
  <2>4. /\ \A f \in 1..Len(r.blocks) : Len(Lines(r, f)) # 0 /\ Rising(Lines(r, f))
        /\ \A f, g \in 1..Len(r.blocks) : f < g =>
             \A j \in 1..Len(Lines(r, f)) : \A k \in 1..Len(Lines(r, g)) : Lines(r, f)[j] < Lines(r, g)[k]
    <3>1. /\ \A f \in 1..Len(pg.blocks) : Len(Lines(pg, f)) # 0 /\ Rising(Lines(pg, f))
          /\ \A f, g \in 1..Len(pg.blocks) : f < g =>
               \A j \in 1..Len(Lines(pg, f)) : \A k \in 1..Len(Lines(pg, g)) : Lines(pg, f)[j] < Lines(pg, g)[k]
      BY <1>1 DEF InLines
    <3>2. Len(r.blocks) = Len(pg.blocks)
      BY <1>12
    <3> QED BY <1>12, <3>1 DEF Lines
  <2>5. \A j, k \in 1..Len(r.current) :
          j < k /\ r.current[j] # 0 /\ r.current[k] # 0 => r.current[j] < r.current[k]
    BY <1>12, <2>3
  <2> QED BY <2>1, <2>2, <2>4, <2>5 DEF InLines
<1>19. InBullets(t, r, Y)
  <2>1. ASSUME NEW k \in 1..Len(pg.blocks) PROVE FirstOf(t, Y, Lines(pg, k)[1]) <=> FirstOf(t, V, Lines(pg, k)[1])
    <3> DEFINE l == Lines(pg, k)
    <3>1. l \in Seq(Nat) /\ Len(l) # 0
      BY <1>1, PageFields DEF InLines
    <3>2. \A x \in D!ToSet(l) : x \in Flushed(pg)
      BY PageFields
    <3> HIDE DEF l
    <3>3. 1 \in 1..Len(l)
      BY <3>1
    <3>4. l[1] \in D!ToSet(l)
      BY <3>1, <3>3, TextsOf
    <3>5. l[1] \in 1..n
      BY <1>16, <3>2, <3>4
    <3>6. ~ (n + 1 < l[1])
      BY <1>2, <3>5
    <3>7. FirstOf(t, Y, l[1]) <=> FirstOf(t, V, l[1])
      BY <1>5, <3>6 DEF FirstOf
    <3> QED BY <3>7 DEF l
  <2> QED BY <1>8, <1>12, <1>15, <2>1 DEF InBullets
<1>20. Holds(t, r, st)
  BY <1>2, <1>7, <1>17, <1>18, <1>19 DEF Holds, Y
<1> QED BY <1>12, <1>20

\* At another depth.
LEMMA OtherDepth ==
  ASSUME NEW t, NEW pg, IsPage(pg), NEW e \in Nat, NEW st, Holds(t, pg, st)
  PROVE  LET r == [pg EXCEPT !.skipDepth = e] IN IsPage(r) /\ Holds(t, r, st) /\ r.skipDepth = e
<1> DEFINE r == [pg EXCEPT !.skipDepth = e]
<1>1. /\ IsPage(r) /\ r.blocks = pg.blocks /\ r.current = pg.current /\ r.skipDepth = e
      /\ r.liPending = pg.liPending
  <2>1. r = [pg EXCEPT !.skipDepth = e]
    OBVIOUS
  <2> HIDE DEF r
  <2> QED BY <2>1 DEF IsPage
<1> HIDE DEF r
<1>2. Flushed(r) = Flushed(pg) /\ Waiting(r) = Waiting(pg) /\ \A k : Lines(r, k) = Lines(pg, k)
  BY <1>1 DEF Flushed, Lines, Waiting
<1>3. InItems(t, r, st)
  BY <1>1, <1>2 DEF InItems, Holds
<1>4. \A V : InLines(pg, V) => InLines(r, V)
  BY <1>1, <1>2 DEF InLines
<1>5. \A V : InBullets(t, pg, V) => InBullets(t, r, V)
  BY <1>1, <1>2 DEF InBullets
<1>6. Holds(t, r, st)
  BY <1>3, <1>4, <1>5 DEF Holds
<1> QED BY <1>1, <1>6 DEF r

\* What the parser does with a mark.
Parsed(pg, m, i) ==
  IF m = "text" THEN D!HandleData(pg, i)
  ELSE IF m \in D!Tags THEN D!HandleStartTag(pg, m) ELSE D!HandleEndTag(pg, m)

LEMMA ParsedIs ==
  ASSUME NEW pg, NEW i, pg.skipDepth \in Nat
  PROVE  /\ Parsed(pg, "skip", i) = [pg EXCEPT !.skipDepth = @ + 1]
         /\ Parsed(pg, "/skip", i) = [pg EXCEPT !.skipDepth = IF @ = 0 THEN 0 ELSE @ - 1]
         /\ \A m \in D!Marks : pg.skipDepth # 0 /\ m \notin {"skip", "/skip"} => Parsed(pg, m, i) = pg
         /\ pg.skipDepth = 0 =>
              /\ Parsed(pg, "text", i) = [pg EXCEPT !.current = Append(@, i)]
              /\ Parsed(pg, "br", i) = [pg EXCEPT !.current = Append(@, 0)]
              /\ Parsed(pg, "p", i) = D!Flush(pg) /\ Parsed(pg, "/p", i) = D!Flush(pg)
              /\ LET f == D!Flush(pg) IN
                   /\ Parsed(pg, "li", i) = [f EXCEPT !.liPending = Append(@, TRUE)]
                   /\ Parsed(pg, "/li", i) = IF f.liPending # <<>> THEN [f EXCEPT !.liPending = D!Front(@)] ELSE f
<1>1. pg.skipDepth > 0 <=> pg.skipDepth # 0
  OBVIOUS
<1>2. Parsed(pg, "skip", i) = [pg EXCEPT !.skipDepth = @ + 1]
  BY DEF Parsed, D!Tags, D!HandleStartTag
<1>3. Parsed(pg, "/skip", i) = [pg EXCEPT !.skipDepth = IF @ = 0 THEN 0 ELSE @ - 1]
  BY DEF Parsed, D!Tags, D!HandleEndTag
<1>4. ASSUME NEW m \in D!Marks, pg.skipDepth # 0, m \notin {"skip", "/skip"} PROVE Parsed(pg, m, i) = pg
  BY <1>1, <1>4 DEF Parsed, D!HandleData, D!HandleStartTag, D!HandleEndTag
<1>5. ASSUME pg.skipDepth = 0
      PROVE  /\ Parsed(pg, "text", i) = [pg EXCEPT !.current = Append(@, i)]
             /\ Parsed(pg, "br", i) = [pg EXCEPT !.current = Append(@, 0)]
             /\ Parsed(pg, "p", i) = D!Flush(pg) /\ Parsed(pg, "/p", i) = D!Flush(pg)
             /\ LET f == D!Flush(pg) IN
                  /\ Parsed(pg, "li", i) = [f EXCEPT !.liPending = Append(@, TRUE)]
                  /\ Parsed(pg, "/li", i) = IF f.liPending # <<>> THEN [f EXCEPT !.liPending = D!Front(@)] ELSE f
  <2>1. ~ (pg.skipDepth > 0)
    BY <1>1, <1>5
  <2>2. Parsed(pg, "text", i) = [pg EXCEPT !.current = Append(@, i)]
    BY <2>1 DEF Parsed, D!HandleData
  <2>3. Parsed(pg, "br", i) = [pg EXCEPT !.current = Append(@, 0)]
    BY <2>1 DEF Parsed, D!Tags, D!HandleStartTag, D!Br
  <2>4. Parsed(pg, "p", i) = D!Flush(pg)
    BY <2>1 DEF Parsed, D!Tags, D!HandleStartTag
  <2>5. Parsed(pg, "/p", i) = D!Flush(pg)
    BY <2>1 DEF Parsed, D!Tags, D!HandleEndTag
  <2>6. Parsed(pg, "li", i) = [D!Flush(pg) EXCEPT !.liPending = Append(@, TRUE)]
    BY <2>1 DEF Parsed, D!Tags, D!HandleStartTag
  <2>7. Parsed(pg, "/li", i) = IF D!Flush(pg).liPending # <<>>
                               THEN [D!Flush(pg) EXCEPT !.liPending = D!Front(@)] ELSE D!Flush(pg)
    BY <2>1 DEF Parsed, D!Tags, D!HandleEndTag
  <2> QED BY <2>2, <2>3, <2>4, <2>5, <2>6, <2>7
<1> QED BY <1>2, <1>3, <1>4, <1>5

LEMMA ParsedOn ==
  ASSUME NEW s \in Seq(D!Marks), NEW m \in D!Marks, NEW pg, PageInv(s, pg)
  PROVE  PageInv(Append(s, m), Parsed(pg, m, Len(s) + 1))
<1> DEFINE t == Append(s, m)
           n == Len(s)
           e == pg.skipDepth
           r == Parsed(pg, m, n + 1)
<1>1. IsPage(pg) /\ Skips(s, e)
  BY DEF PageInv
<1>2. PICK st : Holds(s, pg, st)
  BY DEF PageInv
<1>3. n \in Nat /\ Len(s) \in Nat /\ n = Len(s) /\ e \in Nat /\ (Unseen(s, n + 1) <=> e # 0)
  BY <1>1, SkipsIs
<1>4. Skips(t, IF m = "skip" THEN e + 1 ELSE IF m = "/skip" THEN (IF e = 0 THEN 0 ELSE e - 1) ELSE e)
  BY <1>1, SkipsOn
<1>5. More(s, m, t, n)
  BY MarkedOn
<1>6. t = Append(s, m)
  OBVIOUS
<1> HIDE DEF t, n
<1>7. ASSUME m \notin {"li", "/li", "text"} \/ Unseen(s, n + 1), NEW q, IsPage(q), Holds(s, q, st)
      PROVE  Holds(t, q, st)
  <2>1. m \notin {"li", "/li", "text"} \/ Unseen(s, Len(s) + 1)
    BY <1>3, <1>7
  <2> QED BY <1>6, <1>7, <2>1, HoldsOn
<1>8. ASSUME IsPage(r), r.skipDepth = (IF m = "skip" THEN e + 1 ELSE IF m = "/skip" THEN (IF e = 0 THEN 0 ELSE e - 1) ELSE e),
             \E u : Holds(t, r, u)
      PROVE  PageInv(t, r)
  BY <1>4, <1>8 DEF PageInv
<1>9. ASSUME m = "skip" PROVE PageInv(t, r)
  <2>1. r = [pg EXCEPT !.skipDepth = e + 1]
    BY <1>3, <1>9, ParsedIs
  <2>2. Holds(t, pg, st)
    BY <1>1, <1>2, <1>7, <1>9
  <2>3. e + 1 \in Nat
    BY <1>3
  <2> DEFINE q == [pg EXCEPT !.skipDepth = e + 1]
  <2>4. IsPage(q) /\ Holds(t, q, st) /\ q.skipDepth = e + 1
    BY <1>1, <2>2, <2>3, OtherDepth
  <2>5. r = q
    BY <2>1
  <2> HIDE DEF q, r
  <2> QED BY <1>8, <1>9, <2>4, <2>5
<1>10. ASSUME m = "/skip" PROVE PageInv(t, r)
  <2> DEFINE f == IF e = 0 THEN 0 ELSE e - 1
  <2>1. r = [pg EXCEPT !.skipDepth = f]
    BY <1>3, <1>10, ParsedIs
  <2>2. Holds(t, pg, st)
    BY <1>1, <1>2, <1>7, <1>10
  <2>3. f \in Nat
    BY <1>3
  <2> HIDE DEF f
  <2> DEFINE q == [pg EXCEPT !.skipDepth = f]
  <2>4. IsPage(q) /\ Holds(t, q, st) /\ q.skipDepth = f
    BY <1>1, <2>2, <2>3, OtherDepth
  <2>5. r = q
    BY <2>1
  <2> HIDE DEF q, r
  <2>6. PageInv(t, r) <=> PageInv(t, q)
    BY <2>5
  <2> QED BY <1>8, <1>10, <2>4, <2>5 DEF f
<1>11. ASSUME e # 0, m \notin {"skip", "/skip"} PROVE PageInv(t, r)
  <2>1. r = pg
    BY <1>3, <1>11, ParsedIs
  <2>2. Holds(t, pg, st)
    BY <1>1, <1>2, <1>3, <1>7, <1>11
  <2> HIDE DEF r
  <2> QED BY <1>1, <1>8, <1>11, <2>1, <2>2
<1>12. ASSUME e = 0, m \notin {"skip", "/skip"} PROVE PageInv(t, r)
  <2>1. ~ Unseen(s, n + 1) /\ pg.skipDepth = 0
    BY <1>3, <1>12
  <2>2. /\ m = "text" => r = [pg EXCEPT !.current = Append(@, n + 1)]
        /\ m = "br" => r = [pg EXCEPT !.current = Append(@, 0)]
        /\ m = "p" \/ m = "/p" => r = D!Flush(pg)
        /\ LET g == D!Flush(pg) IN
             /\ m = "li" => r = [g EXCEPT !.liPending = Append(@, TRUE)]
             /\ m = "/li" => r = IF g.liPending # <<>> THEN [g EXCEPT !.liPending = D!Front(@)] ELSE g
    <3>1. /\ Parsed(pg, "text", n + 1) = [pg EXCEPT !.current = Append(@, n + 1)]
          /\ Parsed(pg, "br", n + 1) = [pg EXCEPT !.current = Append(@, 0)]
          /\ Parsed(pg, "p", n + 1) = D!Flush(pg) /\ Parsed(pg, "/p", n + 1) = D!Flush(pg)
          /\ LET f == D!Flush(pg) IN
               /\ Parsed(pg, "li", n + 1) = [f EXCEPT !.liPending = Append(@, TRUE)]
               /\ Parsed(pg, "/li", n + 1) = IF f.liPending # <<>> THEN [f EXCEPT !.liPending = D!Front(@)] ELSE f
      BY <1>3, <2>1, ParsedIs
    <3> QED BY <3>1
  <2> DEFINE g == D!Flush(pg)
  <2>3. /\ IsPage(g) /\ Holds(s, g, st) /\ g.skipDepth = e /\ Waiting(g) = {}
    BY <1>1, <1>2, <1>3, HoldsFlushed
  <2> HIDE DEF r, g, e
  <2>4. m \in {"p", "li", "br", "/p", "/li", "text"}
    BY <1>12 DEF D!Marks, D!Tags, D!Ends, D!Text
  <2>5. ASSUME IsPage(r), r.skipDepth = e, \E u : Holds(t, r, u) PROVE PageInv(t, r)
    BY <1>8, <1>12, <2>5
  <2>6. CASE m = "text"
    <3> DEFINE i == n + 1
               q == [pg EXCEPT !.current = Append(@, i)]
    <3>2. r = q
      BY <2>2, <2>6
    <3>a. i = n + 1
      OBVIOUS
    <3> HIDE DEF i
    <3>3. q = [pg EXCEPT !.current = Append(@, i)]
      OBVIOUS
    <3> HIDE DEF q
    <3>1. IsPage(q) /\ q.skipDepth = pg.skipDepth /\ Holds(t, q, st)
      BY <1>1, <1>2, <1>3, <1>5, <2>1, <2>6, <3>3, <3>a, TextWritten
    <3> QED BY <2>5, <3>1, <3>2 DEF e
  <2>7. CASE m = "br"
    <3> DEFINE q == [pg EXCEPT !.current = Append(@, 0)]
    <3>1. IsPage(q) /\ q.skipDepth = pg.skipDepth /\ Holds(s, q, st)
      BY <1>1, <1>2, Broken
    <3>2. r = q
      BY <2>2, <2>7
    <3> HIDE DEF q
    <3>3. Holds(t, q, st)
      BY <1>7, <2>7, <3>1
    <3> QED BY <2>5, <3>1, <3>2, <3>3 DEF e
  <2>8. CASE m = "p" \/ m = "/p"
    <3>1. r = g
      BY <2>2, <2>8 DEF g
    <3>2. Holds(t, g, st)
      BY <1>7, <2>3, <2>8
    <3> QED BY <2>3, <2>5, <3>1, <3>2
  <2>9. CASE m = "li"
    <3> DEFINE q == [g EXCEPT !.liPending = Append(@, TRUE)]
    <3>2. r = q
      BY <2>2, <2>9 DEF g
    <3> HIDE DEF q
    <3>3. q = [g EXCEPT !.liPending = Append(@, TRUE)]
      BY DEF q
    <3>1. IsPage(q) /\ q.skipDepth = g.skipDepth /\ \E w : Holds(t, q, w)
      BY <1>3, <1>5, <2>1, <2>3, <2>9, <3>3, ItemOpened
    <3> QED BY <2>3, <2>5, <3>1, <3>2
  <2>10. CASE m = "/li"
    <3> DEFINE q == IF g.liPending # <<>> THEN [g EXCEPT !.liPending = D!Front(@)] ELSE g
    <3>1. IsPage(q) /\ q.skipDepth = g.skipDepth /\ \E w : Holds(t, q, w)
      BY <1>3, <1>5, <2>1, <2>3, <2>10, ItemClosed
    <3>2. r = q
      BY <2>2, <2>10 DEF g
    <3> HIDE DEF q
    <3> QED BY <2>3, <2>5, <3>1, <3>2
  <2> QED BY <2>4, <2>6, <2>7, <2>8, <2>9, <2>10
<1>13. PageInv(t, r)
  BY <1>9, <1>10, <1>11, <1>12
<1> QED BY <1>13 DEF t, n

LEMMA PageStarts == PageInv(<<>>, D!NewPage)
<1> DEFINE pg == D!NewPage
<1>1. pg = [blocks |-> <<>>, current |-> <<>>, skipDepth |-> 0, liPending |-> <<>>]
  BY DEF D!NewPage
<1>2. <<>> \in Seq(Blocks) /\ <<>> \in Seq(Nat) /\ <<>> \in Seq(BOOLEAN) /\ Len(<<>>) = 0
  OBVIOUS
<1> HIDE DEF pg
<1>3. IsPage(pg) /\ pg.blocks = <<>> /\ pg.current = <<>> /\ pg.skipDepth = 0 /\ pg.liPending = <<>>
  BY <1>1, <1>2 DEF IsPage
<1>4. \A U, E : Nest(<<>>, U, E, 0)
  <2> SUFFICES ASSUME NEW U, NEW E PROVE Nest(<<>>, U, E, 0)
    OBVIOUS
  <2>1. StillOpen(U, E, 0) = {}
    BY DEF StillOpen
  <2> QED BY <1>2, <2>1 DEF Nest, Rising
<1>5. Skips(<<>>, 0)
  BY <1>2, <1>4 DEF Skips
<1>6. Flushed(pg) = {} /\ Waiting(pg) = {}
  BY <1>2, <1>3 DEF Flushed, Waiting, D!ToSet
<1>7. Shown(<<>>, "text") = {}
  BY <1>2 DEF Shown, At
<1>8. InItems(<<>>, pg, <<>>)
  BY <1>2, <1>3, <1>6 DEF InItems
<1>9. InLines(pg, {})
  BY <1>2, <1>3, <1>6 DEF InLines
<1>10. InBullets(<<>>, pg, {})
  BY <1>2, <1>3 DEF InBullets
<1>11. Holds(<<>>, pg, <<>>)
  BY <1>2, <1>4, <1>7, <1>8, <1>9, <1>10 DEF Holds
<1> QED BY <1>3, <1>5, <1>11 DEF PageInv, pg

----------------------------------------------------------------------------
(* The text of an ad.                                                         *)

TextInv ==
  mode = "text" =>
    /\ marks \in Seq(D!Marks)
    /\ answer = None => page = None /\ marks = <<>> /\ result = None
    /\ page # None => PageInv(marks, page)
    /\ page # None /\ result # None => Waiting(page) = {} /\ result = D!Finish(D!TextOf(page))

LEMMA TextStep ==
  ASSUME TextInv, [MCNext]_MCVars
  PROVE  TextInv'
<1>1. CASE UNCHANGED MCVars
  <2>1. UNCHANGED <<mode, answer, marks, page, result>>
    BY <1>1 DEF MCVars, textVars
  <2> QED BY <2>1 DEF TextInv
<1>2. CASE mode # "text" /\ MCNext
  BY <1>2 DEF MCNext, TextInv
<1>3. ASSUME mode = "text", D!DescriptionsNext, mode' = mode PROVE TextInv'
  <2>1. /\ marks \in Seq(D!Marks)
        /\ answer = None => page = None /\ marks = <<>> /\ result = None
        /\ page # None => PageInv(marks, page)
        /\ page # None /\ result # None => Waiting(page) = {} /\ result = D!Finish(D!TextOf(page))
    BY <1>3 DEF TextInv
  <2>2. ASSUME NEW a \in D!Answers, D!Ask(a) PROVE TextInv'
    <3>1. answer = None /\ answer' = a /\ marks' = marks /\ marks = <<>>
      BY <2>1, <2>2 DEF D!Ask
    <3>2. answer' # None
      BY <2>2, <3>1, PartsAssumption
    <3>3. (page' = D!NewPage /\ result' = None) \/ page' = None
      BY <2>2 DEF D!Ask
    <3>4. page' # None => PageInv(marks', page') /\ result' = None
      BY <3>1, <3>3, PageStarts
    <3>5. marks' \in Seq(D!Marks)
      BY <2>1, <3>1
    <3> QED BY <3>2, <3>4, <3>5 DEF TextInv
  <2>3. ASSUME NEW m \in D!Marks, D!Parse(m) PROVE TextInv'
    <3>1. /\ page # None /\ result = None /\ marks' = Append(marks, m) /\ result' = result
          /\ answer' = answer /\ page' = Parsed(page, m, Len(marks'))
      BY <2>3 DEF D!Parse, D!Text, Parsed
    <3>2. Len(Append(marks, m)) = Len(marks) + 1 /\ Append(marks, m) \in Seq(D!Marks)
      BY <2>1, AppendProperties
    <3>3. PageInv(marks', page')
      BY <2>1, <3>1, <3>2, ParsedOn
    <3>4. answer # None
      BY <2>1, <3>1
    <3> QED BY <3>1, <3>2, <3>3, <3>4 DEF TextInv
  <2>4. ASSUME D!Close PROVE TextInv'
    <3>1. /\ page # None /\ result = None /\ page' = D!Flush(page) /\ marks' = marks /\ answer' = answer
          /\ result' = D!Finish(D!TextOf(page'))
      BY <2>4 DEF D!Close
    <3>2. IsPage(page) /\ Skips(marks, page.skipDepth) /\ Len(marks) \in Nat
      BY <2>1, <3>1 DEF PageInv
    <3>3. PICK st : Holds(marks, page, st)
      BY <2>1, <3>1 DEF PageInv
    <3>4. /\ IsPage(page') /\ Holds(marks, page', st) /\ page'.skipDepth = page.skipDepth
          /\ Waiting(page') = {}
      BY <3>1, <3>2, <3>3, HoldsFlushed
    <3>5. PageInv(marks', page')
      BY <3>1, <3>2, <3>4 DEF PageInv
    <3>6. answer # None
      BY <2>1, <3>1
    <3> QED BY <2>1, <3>1, <3>4, <3>5, <3>6 DEF TextInv
  <2> QED BY <1>3, <2>2, <2>3, <2>4 DEF D!DescriptionsNext
<1> QED BY <1>1, <1>2, <1>3 DEF MCNext

LEMMA TextAlways == MCSpec => []TextInv
<1>1. MCInit => TextInv
  <2> SUFFICES ASSUME MCInit PROVE TextInv
    OBVIOUS
  <2>1. mode = "text" => answer = None /\ marks = <<>> /\ page = None /\ result = None
    BY DEF MCInit, D!DescriptionsInit
  <2>2. <<>> \in Seq(D!Marks)
    OBVIOUS
  <2> QED BY <2>1, <2>2 DEF TextInv
<1>2. TextInv /\ [MCNext]_MCVars => TextInv'
  BY TextStep
<1> QED BY <1>1, <1>2, PTL DEF MCSpec

\* The texts of a page of which nothing waits.
LEMMA PageText ==
  ASSUME NEW pg, IsPage(pg), NEW V, InLines(pg, V), Waiting(pg) = {}
  PROVE  /\ D!TextOf(pg) \in Seq(Nat) /\ D!ToSet(D!TextOf(pg)) = V
         /\ D!InOrder(D!TextOf(pg))
<1> DEFINE n == Len(pg.blocks)
           s == [i \in DOMAIN pg.blocks |-> pg.blocks[i].texts]
           r == D!FlattenSeq(s)
<1>1. /\ pg.blocks \in Seq(Blocks) /\ n \in Nat /\ DOMAIN pg.blocks = 1..n
      /\ \A b \in 1..n : Lines(pg, b) \in Seq(Nat)
      /\ \A x : x \in Flushed(pg) <=> \E b \in 1..n : x \in D!ToSet(Lines(pg, b))
  <2>1. pg.blocks \in Seq(Blocks) /\ n \in Nat
    BY PageFields
  <2>2. DOMAIN pg.blocks = 1..n
    BY <2>1
  <2> QED BY <2>1, <2>2, PageFields
<1>2. s \in Seq(Seq(Nat)) /\ Len(s) = n /\ \A b \in 1..n : s[b] = Lines(pg, b)
  BY <1>1 DEF Lines
<1> HIDE DEF n, s
<1>3. /\ \A b \in 1..n : Rising(Lines(pg, b))
      /\ \A b, c \in 1..n : b < c =>
           \A i \in 1..Len(Lines(pg, b)) : \A k \in 1..Len(Lines(pg, c)) : Lines(pg, b)[i] < Lines(pg, c)[k]
      /\ Flushed(pg) = V
  BY DEF InLines, n
<1>4. /\ \A b \in 1..Len(s) : Rising(s[b])
      /\ \A b, c \in 1..Len(s) :
            b < c => \A i \in 1..Len(s[b]) : \A k \in 1..Len(s[c]) : s[b][i] < s[c][k]
  BY <1>2, <1>3
<1>5. r \in Seq(Nat) /\ Rising(r) /\ \A x : x \in D!ToSet(r) <=> \E b \in 1..Len(s) : x \in D!ToSet(s[b])
  BY <1>2, <1>4, FlatRising
<1>6. D!ToSet(r) = V
  BY <1>1, <1>2, <1>3, <1>5
<1>7. D!InOrder(r)
  <2> HIDE DEF r
  <2>1. DOMAIN r = 1..Len(r)
    BY <1>5
  <2> QED BY <1>5, <2>1 DEF D!InOrder, Rising
<1> QED BY <1>5, <1>6, <1>7 DEF D!TextOf, s

\* What is returned of them.
LEMMA FinishIs ==
  ASSUME NEW t \in Seq(Nat)
  PROVE  /\ D!Finish(t).code = None <=> t # <<>>
         /\ D!IsPrefix(D!Finish(t).text, t)
<1>1. CASE t = <<>>
  <2>1. D!Finish(t) = D!Fail("empty", 1)
    BY <1>1 DEF D!Finish
  <2>2. D!Finish(t).code = "empty" /\ D!Finish(t).text = <<>>
    BY <2>1 DEF D!Fail
  <2>3. None # "empty"
    BY PartsAssumption DEF D!ErrorCodes
  <2>4. D!IsPrefix(<<>>, <<>>)
    BY DEF D!IsPrefix
  <2> QED BY <1>1, <2>2, <2>3, <2>4
<1>2. CASE t # <<>>
  <2> DEFINE n == Len(t)
             k == IF n > MaxChars THEN MaxChars ELSE n
             u == SubSeq(t, 1, k)
  <2>1. D!Finish(t).code = None /\ D!Finish(t).text = u
    BY <1>2 DEF D!Finish
  <2>2. n \in Nat /\ k \in Nat /\ k <= n
    BY PartsAssumption
  <2>3. \A i \in 1..k : t[i] \in Nat
    BY <2>2
  <2> HIDE DEF n, k
  <2>4. k - 1 + 1 = k /\ (IF 1 <= k THEN k - 1 + 1 ELSE 0) = k /\ 1 \in Int /\ k \in Int
        /\ \A i \in 1..k : 1 + i - 1 = i
    BY <2>2
  <2>5. u \in Seq(Nat) /\ Len(u) = k /\ \A i \in 1..(k - 1 + 1) : u[i] = t[1 + i - 1]
    BY <2>3, <2>4, SubSeqProperties
  <2>6. \A i \in 1..k : u[i] = t[i]
    BY <2>4, <2>5
  <2> HIDE DEF u
  <2> DEFINE v == SubSeq(u, 1, k)
  <2>7. \A i \in 1..k : u[i] \in Nat
    BY <2>3, <2>6
  <2>8. v \in Seq(Nat) /\ Len(v) = k /\ \A i \in 1..(k - 1 + 1) : v[i] = u[1 + i - 1]
    BY <2>4, <2>7, SubSeqProperties
  <2>9. \A i \in 1..k : v[i] = u[i]
    BY <2>4, <2>8
  <2> HIDE DEF v
  <2>10. v = u
    BY <2>5, <2>8, <2>9, SeqEqual
  <2>11. SubSeq(u, 1, Len(u)) = SubSeq(t, 1, Len(u)) /\ Len(u) <= Len(t)
    BY <2>2, <2>5, <2>10 DEF u, v, n
  <2>12. D!IsPrefix(u, t)
    BY <2>11 DEF D!IsPrefix
  <2> QED BY <1>2, <2>1, <2>12
<1> QED BY <1>1, <1>2

LEMMA MarksAre ==
  ASSUME marks \in Seq(D!Marks)
  PROVE  Len(marks) \in Nat /\ DOMAIN marks = 1..Len(marks) /\ D!Visible = Shown(marks, "text")
         /\ D!Visible \subseteq 1..Len(marks)
<1>1. Len(marks) \in Nat /\ DOMAIN marks = 1..Len(marks)
  OBVIOUS
<1>2. D!Visible = Shown(marks, "text")
  BY <1>1, VisibleIs
<1> QED BY <1>1, <1>2 DEF Shown, At

\* What an employer wrote is all in the text, once and in its order, up to the bound, and
\* nothing of what a page does not show is; an ad with nothing to show is said to be empty
\* (Descriptions!NothingWrittenIsLost, html_to_text).
THEOREM NothingIsLost == MCSpec => [](mode = "text" => D!NothingWrittenIsLost)
<1>1. TextInv => (mode = "text" => D!NothingWrittenIsLost)
  <2> SUFFICES ASSUME TextInv, mode = "text", result # None, page # None
               PROVE  D!NothingWrittenIsLost
    BY DEF D!NothingWrittenIsLost
  <2> DEFINE t == D!TextOf(page)
             V == D!Visible
  <2>1. marks \in Seq(D!Marks) /\ PageInv(marks, page) /\ Waiting(page) = {} /\ result = D!Finish(t)
    BY DEF TextInv
  <2>2. IsPage(page) /\ InLines(page, V)
    BY <2>1, MarksAre DEF PageInv, Holds
  <2> HIDE DEF V
  <2>3. t \in Seq(Nat) /\ D!ToSet(t) = V /\ D!InOrder(t)
    BY <2>1, <2>2, PageText
  <2> HIDE DEF t
  <2>4. t # <<>> <=> V # {}
    <3>1. \A x : x \in V <=> \E i \in 1..Len(t) : t[i] = x
      BY <2>3, TextsOf
    <3>2. t # <<>> <=> Len(t) # 0
      BY <2>3, EmptySeq
    <3>3. Len(t) \in Nat /\ (Len(t) # 0 => 1 \in 1..Len(t)) /\ (Len(t) = 0 => 1..Len(t) = {})
      BY <2>3
    <3> QED BY <3>1, <3>2, <3>3
  <2>5. (result.code = None <=> V # {}) /\ D!IsPrefix(result.text, t)
    BY <2>1, <2>3, <2>4, FinishIs
  <2> QED BY <2>3, <2>5 DEF D!NothingWrittenIsLost, t, V
<1> QED BY <1>1, TextAlways, PTL

\* A line has a bullet if and only if it is the first of the list item that it is in: an
\* item in an item has its own, and the rest of an item has none (Descriptions!
\* BulletsAreItems, _HTMLTextExtractor).
THEOREM BulletsStay == MCSpec => [](mode = "text" => D!BulletsAreItems)
<1>1. TextInv => (mode = "text" => D!BulletsAreItems)
  <2> SUFFICES ASSUME TextInv, mode = "text", page # None, NEW b \in DOMAIN page.blocks
               PROVE  LET first == D!Head(page.blocks[b].texts)
                      IN page.blocks[b].marked
                           <=> D!Item(first) # 0
                               /\ \A i \in D!Visible : i < first => D!Item(i) # D!Item(first)
    BY DEF D!BulletsAreItems
  <2> DEFINE l == Lines(page, b)
             V == D!Visible
  <2>1. marks \in Seq(D!Marks) /\ PageInv(marks, page)
    BY DEF TextInv
  <2>2. IsPage(page) /\ InLines(page, V) /\ InBullets(marks, page, V)
    BY <2>1, MarksAre DEF PageInv, Holds
  <2>3. V \subseteq 1..Len(marks) /\ Len(marks) \in Nat
    BY <2>1, MarksAre
  <2> HIDE DEF V
  <2>4. b \in 1..Len(page.blocks)
    BY <2>2, PageFields
  <2>5. l \in Seq(Nat) /\ Len(l) # 0
    BY <2>2, <2>4, PageFields DEF InLines
  <2>6. \A x \in D!ToSet(l) : x \in Flushed(page)
    BY <2>2, <2>4, PageFields
  <2>7. page.blocks[b].marked <=> FirstOf(marks, V, l[1])
    BY <2>2, <2>4 DEF InBullets
  <2>8. D!Head(page.blocks[b].texts) = l[1]
    BY DEF Lines
  <2> HIDE DEF l
  <2>9. 1 \in 1..Len(l)
    BY <2>5
  <2>10. l[1] \in V
    <3>1. l[1] \in D!ToSet(l)
      BY <2>5, <2>9, TextsOf
    <3> QED BY <2>2, <2>6, <3>1 DEF InLines
  <2>11. \A x \in V : D!Item(x) = Holder(marks, x)
    <3>1. \A x \in V : x \in 1..(Len(marks) + 1)
      BY <2>3
    <3> QED BY <2>3, <3>1, ItemIs
  <2>12. FirstOf(marks, V, l[1])
           <=> D!Item(l[1]) # 0 /\ \A i \in V : i < l[1] => D!Item(i) # D!Item(l[1])
    BY <2>10, <2>11 DEF FirstOf
  <2> QED BY <2>7, <2>8, <2>12 DEF V
<1> QED BY <1>1, TextAlways, PTL

\* All that a check, a posting and its text say is what was there. Of the boards it says so
\* of those that change at most once while they are read, one facet of which at most lacks a
\* posting (jfl_intake: scheduling, the adapters, workplace and descriptions).
THEOREM ChecksSay ==
  ASSUME OneChange
  PROVE  MCSpec => []ChecksSayWhatIsThere
<1>1. MCSpec => []NextSlotIsFirst
  BY SlotIsFirst
<1>2. MCSpec => [](mode = "check" => L!CompleteIsTheBoard) /\ [](mode = "check" => L!QuietIsWhole)
  BY CompleteIsSeen, QuietStaysWhole
<1>3. MCSpec => [](mode = "posting" => W!StatedNotInferred) /\ [](mode = "posting" => W!OrderMeansNothing)
  BY WorkplaceIsStated, RowOrderIsNothing
<1>4. MCSpec => [](mode = "text" => D!NothingWrittenIsLost) /\ [](mode = "text" => D!BulletsAreItems)
                /\ [](mode = "text" => D!GoneIsTheirWord)
  BY NothingIsLost, BulletsStay, GoneIsSaid
<1>5. /\ NextSlotIsFirst
      /\ mode = "check" => L!CompleteIsTheBoard
      /\ mode = "check" => L!QuietIsWhole
      /\ mode = "posting" => W!StatedNotInferred
      /\ mode = "posting" => W!OrderMeansNothing
      /\ mode = "text" => D!NothingWrittenIsLost
      /\ mode = "text" => D!BulletsAreItems
      /\ mode = "text" => D!GoneIsTheirWord
      => ChecksSayWhatIsThere
  BY DEF ChecksSayWhatIsThere
<1> QED BY <1>1, <1>2, <1>3, <1>4, <1>5, PTL
=============================================================================
