------------------------------- MODULE Stated -------------------------------
(* What one listed posting says of itself, as each adapter reads it: its        *)
(* identity, its places, and its workplace (jfl_intake.adapters' parsers and    *)
(* jfl_intake.workplace). The rule is that a workplace is only ever what the    *)
(* employer or the platform stated.                                             *)
(*                                                                              *)
(* A text is a number, in alphabetical order; Said gives its words, normalised, *)
(* so that two spellings of one text are two numbers with the same words.       *)
EXTENDS Integers, Sequences, FiniteSets, SequencesExt

CONSTANTS
  Said,      \* the words of each text
  MaxPlaces, \* bound on the places a posting lists
  None

VARIABLES
  platform,
  raw,       \* the posting as the platform gives it
  job        \* what the adapter made of it, None before

statedVars == <<platform, raw, job>>

TextIds == DOMAIN Said
Lists   == UNION {[1..n -> TextIds] : n \in 0..MaxPlaces}
Answers == BOOLEAN \union {None}
Workplaces == {"remote", "hybrid", "onsite", "unknown"}

----------------------------------------------------------------------------
(* Texts.                                                                     *)

Negations == {"no", "non", "not"}
Negated(words, i) == i > 1 /\ words[i - 1] \in Negations

\* Where a text names a workplace by whole word; on-site counts only in a field that is
\* for it.
Names(words, allowOnsite) ==
  {[at |-> i, kind |-> words[i]] : i \in {k \in DOMAIN words : words[k] \in {"remote", "hybrid"}}}
  \union
  {[at |-> i, kind |-> "onsite"] : i \in
     {k \in DOMAIN words : /\ allowOnsite
                           /\ \/ words[k] \in {"onsite", "office"}
                              \/ words[k] = "on" /\ k < Len(words) /\ words[k + 1] = "site"}}

\* A wrong variant: a denial only takes itself away.
NamedAnyway(words, allowOnsite) ==
  {n.kind : n \in {m \in Names(words, allowOnsite) : ~Negated(words, m.at)}}

\* None if any of them is denied: then the text is no plain statement.
Named(words, allowOnsite) ==
  LET names == Names(words, allowOnsite)
  IN IF \E n \in names : Negated(words, n.at) THEN None ELSE {n.kind : n \in names}

\* Exactly one of the two, un-negated, across all of the posting's places.
FromLocationText(texts) ==
  LET named == {Named(Said[t], FALSE) : t \in ToSet(texts)}
      all   == UNION (named \ {None})
  IN IF None \in named \/ Cardinality(all) # 1 THEN "unknown" ELSE CHOOSE w \in all : TRUE

\* A platform's own value; `unspecified` and null carry no answer.
FromEnum(value) ==
  CASE value \in {"Remote", "remote"} -> "remote"
    [] value \in {"Hybrid", "hybrid"} -> "hybrid"
    [] value \in {"OnSite", "on_site", "onsite"} -> "onsite"
    [] OTHER -> None

\* What an employer's own Greenhouse fields state, if they agree, and in whose words.
GreenhouseMetadata(metadata) ==
  LET plain == {i \in DOMAIN metadata :
                  metadata[i].about /\ Named(Said[metadata[i].value], TRUE) # None
                  /\ Cardinality(Named(Said[metadata[i].value], TRUE)) = 1}
      Kind(i) == CHOOSE w \in Named(Said[metadata[i].value], TRUE) : TRUE
      first == CHOOSE i \in plain : \A k \in plain : i <= k
  IN IF Cardinality({Kind(i) : i \in plain}) # 1 THEN None
     ELSE [kind |-> Kind(first), label |-> metadata[first].value]

\* Places by their words, the first spelling and position kept.
DedupeLocations(texts) ==
  LET Before(i) == {Said[texts[k]] : k \in 1..(i - 1)}
      kept == {i \in DOMAIN texts : Said[texts[i]] \notin Before(i)}
  IN [n \in 1..Cardinality(kept) |->
        texts[CHOOSE i \in kept : Cardinality({k \in kept : k <= i}) = n]]

----------------------------------------------------------------------------
(* The adapters. `primary` is the platform's one place, `listed` its list of them, *)
(* `rows` those of the rows of one id. `location` is what the fingerprint is made  *)
(* of: one text, or several joined.                                                *)

Primary(places, primary) == DedupeLocations(IF primary = None THEN <<>> ELSE <<primary>>)
ListedOr(places, primary) ==
  IF places = <<>> THEN Primary(places, primary) ELSE DedupeLocations(places)
PrimaryAnd(places, primary) ==
  DedupeLocations(IF primary = None THEN places ELSE <<primary>> \o places)

Ashby(r) ==
  LET places == PrimaryAnd(r.listed, r.primary) stated == FromEnum(r.enum)
  IN [location |-> <<r.primary>>, locations |-> places, label |-> None,
      workplace |-> IF stated = None THEN FromLocationText(places) ELSE stated]
Lever(r) ==
  LET places == ListedOr(r.listed, r.primary) stated == FromEnum(r.enum)
  IN [location |-> <<r.primary>>, locations |-> places, label |-> None,
      workplace |-> IF stated = None THEN FromLocationText(places) ELSE stated]
Pinpoint(r) ==
  LET places == Primary(r.listed, r.primary) stated == FromEnum(r.enum)
  IN [location |-> <<r.primary>>, locations |-> places, label |-> None,
      workplace |-> IF stated = None THEN FromLocationText(places) ELSE stated]

\* Its field first, then the boolean, whose FALSE says nothing; the text only without both.
Workable(r) ==
  LET places == ListedOr(r.listed, r.primary) stated == FromEnum(r.enum)
  IN [location |-> <<r.primary>>, locations |-> places, label |-> None,
      workplace |-> IF stated # None THEN stated
                    ELSE IF r.remote = TRUE THEN "remote"
                    ELSE IF r.remote = FALSE THEN "unknown"
                    ELSE FromLocationText(places)]

\* Two independent booleans: neither is the absence of a claim, not on-site.
SmartRecruiters(r) ==
  LET places == IF r.listed = <<>> THEN Primary(<<>>, r.primary) ELSE Primary(<<>>, Head(r.listed))
  IN [location |-> <<r.primary>>, locations |-> places, label |-> None,
      workplace |-> IF r.remote = None /\ r.hybrid = None THEN FromLocationText(places)
                    ELSE IF r.remote = TRUE /\ r.hybrid # TRUE THEN "remote"
                    ELSE IF r.hybrid = TRUE /\ r.remote # TRUE THEN "hybrid"
                    ELSE "unknown"]
Breezy(r) ==
  LET places == ListedOr(r.listed, r.primary)
  IN [location |-> <<r.primary>>, locations |-> places, label |-> None,
      workplace |-> IF r.remote = TRUE THEN "remote"
                    ELSE IF r.remote = FALSE THEN "unknown"
                    ELSE FromLocationText(places)]
Recruitee(r) ==
  LET places == ListedOr(r.listed, r.primary)
      true == {k \in {"remote", "hybrid", "onsite"} :
                 [remote |-> r.remote, hybrid |-> r.hybrid, onsite |-> r.onsite][k] = TRUE}
  IN [location |-> <<r.primary>>, locations |-> places, label |-> None,
      workplace |-> IF {r.remote, r.hybrid, r.onsite} = {None} THEN FromLocationText(places)
                    ELSE IF Cardinality(true) = 1 THEN CHOOSE k \in true : TRUE
                    ELSE "unknown"]

\* `none` and `temporary` are answers, and are unknown.
RemoteStatus(value) ==
  CASE value \in {"fully", "remote"} -> "remote"
    [] value = "hybrid" -> "hybrid"
    [] value \in {"none", "temporary"} -> "unknown"
    [] OTHER -> None
Teamtailor(r) ==
  LET places == DedupeLocations(r.listed) stated == RemoteStatus(r.enum)
  IN [location |-> IF r.listed = <<>> THEN <<None>> ELSE <<Head(r.listed)>>,
      locations |-> places, label |-> None,
      workplace |-> IF stated = None THEN FromLocationText(places) ELSE stated]

Greenhouse(r) ==
  LET places == DedupeLocations(r.listed) stated == GreenhouseMetadata(r.metadata)
  IN [location |-> r.listed, locations |-> places,
      label |-> IF stated = None THEN None ELSE stated.label,
      workplace |-> IF stated = None THEN FromLocationText(places) ELSE stated.kind]
Personio(r) ==
  LET places == PrimaryAnd(r.listed, r.primary)
  IN [location |-> <<r.primary>>, locations |-> places, label |-> None,
      workplace |-> FromLocationText(places)]
Workday(r) ==
  LET places == Primary(r.listed, r.primary)
  IN [location |-> <<r.primary>>, locations |-> places, label |-> None,
      workplace |-> FromLocationText(places)]

\* A wrong variant: the rows of one id in the order they came.
RipplingAsGiven(r) ==
  LET rows == r.rows places == DedupeLocations(rows)
  IN [location |-> IF rows = <<>> THEN <<None>> ELSE rows, locations |-> places, label |-> None,
      workplace |-> FromLocationText(places)]

\* One id may be listed once per place: its places are merged, sorted, so that the order of
\* the rows, which means nothing, cannot make a new fingerprint.
Rippling(r) ==
  LET rows == SetToSortSeq(ToSet(r.rows), LAMBDA i, k : i < k)
      places == DedupeLocations(rows)
  IN [location |-> IF rows = <<>> THEN <<None>> ELSE rows, locations |-> places, label |-> None,
      workplace |-> FromLocationText(places)]

ObservedJob(p, r) ==
  CASE p = "ashby" -> Ashby(r)           [] p = "lever" -> Lever(r)
    [] p = "pinpoint" -> Pinpoint(r)     [] p = "workable" -> Workable(r)
    [] p = "smartrecruiters" -> SmartRecruiters(r)
    [] p = "breezy" -> Breezy(r)         [] p = "recruitee" -> Recruitee(r)
    [] p = "teamtailor" -> Teamtailor(r) [] p = "greenhouse" -> Greenhouse(r)
    [] p = "personio" -> Personio(r)     [] p = "workday" -> Workday(r)
    [] p = "rippling" -> Rippling(r)

----------------------------------------------------------------------------
(* One posting, read, and listed again.                                       *)

Silent == [enum |-> None, remote |-> None, hybrid |-> None, onsite |-> None,
           metadata |-> <<>>, primary |-> None, listed |-> <<>>, rows |-> <<>>]

\* What each platform can give.
Enums(p) ==
  CASE p \in {"ashby", "lever", "pinpoint", "workable"} ->
         {None, "Remote", "hybrid", "on_site", "unspecified"}
    [] p = "teamtailor" -> {None, "fully", "hybrid", "none", "temporary"}
    [] OTHER -> {None}
Flags(p) ==
  CASE p \in {"workable", "breezy"} -> [remote : Answers, hybrid : {None}, onsite : {None}]
    [] p = "smartrecruiters" -> [remote : Answers, hybrid : Answers, onsite : {None}]
    [] p = "recruitee" -> [remote : Answers, hybrid : Answers, onsite : Answers]
    [] OTHER -> [remote : {None}, hybrid : {None}, onsite : {None}]
Fields == [about : BOOLEAN, value : TextIds]
Metadata(p) ==
  IF p = "greenhouse" THEN {<<>>} \union [1..1 -> Fields] \union [1..2 -> Fields] ELSE {<<>>}
Places(p) ==
  CASE p = "rippling" -> {[primary |-> None, listed |-> <<>>, rows |-> l] : l \in Lists}
    [] p \in {"teamtailor", "greenhouse"} ->
         {[primary |-> None, listed |-> l, rows |-> <<>>] : l \in Lists}
    [] OTHER -> [primary : TextIds \union {None}, listed : {l \in Lists : Len(l) < MaxPlaces},
                 rows : {<<>>}]

Raw(p) ==
  {[enum |-> e, remote |-> f.remote, hybrid |-> f.hybrid, onsite |-> f.onsite,
    metadata |-> m, primary |-> l.primary, listed |-> l.listed, rows |-> l.rows] :
     e \in Enums(p), f \in Flags(p), m \in Metadata(p), l \in Places(p)}

Platforms == {"ashby", "lever", "pinpoint", "workable", "smartrecruiters", "breezy", "recruitee",
              "teamtailor", "greenhouse", "personio", "workday", "rippling"}

StatedInit == platform \in Platforms /\ raw \in Raw(platform) /\ job = None

Read == job = None /\ job' = ObservedJob(platform, raw) /\ UNCHANGED <<platform, raw>>

StatedSpec == StatedInit /\ [][Read]_statedVars

----------------------------------------------------------------------------
\* Where the platform has something to say of the workplace, even that it does not know.
Answered ==
  \/ FromEnum(raw.enum) # None
  \/ platform = "teamtailor" /\ raw.enum # None
  \/ {raw.remote, raw.hybrid, raw.onsite} # {None}
  \/ GreenhouseMetadata(raw.metadata) # None

\* A workplace other than unknown is one the employer stated: the platform's own answer,
\* which the text of the places never overrules; or, where there is none, one of the two
\* words in some place, with no place that denies or contradicts it. Never on-site from text.
StatedNotInferred ==
  job # None /\ job.workplace # "unknown" /\ ~Answered =>
    /\ job.workplace \in {"remote", "hybrid"}
    /\ \E t \in ToSet(job.locations) : job.workplace \in ToSet(Said[t])
    /\ \A t \in ToSet(job.locations) :
         /\ {"remote", "hybrid"} \intersect ToSet(Said[t]) \subseteq {job.workplace}
         /\ \A i \in DOMAIN Said[t] : Said[t][i] = job.workplace => ~Negated(Said[t], i)

\* The rows of one id mean the same in any order: neither the fingerprint a repost is
\* recognised by, nor the places, nor the workplace moves.
OrderMeansNothing ==
  job # None /\ platform = "rippling" =>
    \A order \in {f \in [DOMAIN raw.rows -> DOMAIN raw.rows] : \A i \in DOMAIN f : \E k \in DOMAIN f : f[k] = i} :
      ObservedJob(platform, [raw EXCEPT !.rows = [i \in DOMAIN raw.rows |-> raw.rows[order[i]]]]) = job
=============================================================================
