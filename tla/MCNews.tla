------------------------------- MODULE MCNews -------------------------------
(* The feed and the digest over one history of events, for TLC. Neither      *)
(* writes what the other reads, so a behaviour has one reader or the other.  *)
EXTENDS Feed, Digest, TLC

CONSTANTS e1, e2, g1, g2, m1, m2,
  PageNow   \* bound: the clock when it is the feed that reads

\* None is no row either.
ASSUME NoneAssumption == None \notin SettingsRows \union MarkRows

VARIABLE reader

MCVars == <<newsVars, feedVars, digestVars, reader>>

TypeOK == NewsTypeOK /\ FeedTypeOK /\ DigestTypeOK

MCInit == /\ NewsInit /\ FeedInit /\ DigestInit
          /\ reader \in {"page", "mail"}

\* The digest's windows tile the time since the user opted in: nothing committed in
\* it is left out, nothing from before it is mailed or counted. See Digest.
DigestIsExact == DigestMissesNothing /\ NeverTheHistory

\* Every event is seen: for its day, whatever looks come between, and at all,
\* unless it was committed too late for the look it fell before. See Feed.
ShownForItsDayOrLate == ShownForItsDay /\ MissedOnlyIfLate

\* An event happens, or the filter or the clock moves, whoever reads.
NewsNext ==
  \/ /\ \/ \E e \in Events : Stamp(e)
        \/ EditFilter
        \/ Tick
     /\ UNCHANGED feedVars
  \/ \E e \in Events : CommitSeen(e)

MCNext ==
  /\ \/ NewsNext /\ UNCHANGED digestVars
     \/ reader = "page" /\ FeedNext /\ UNCHANGED digestVars
     \/ reader = "mail" /\ DigestNext /\ UNCHANGED feedVars
  /\ UNCHANGED reader

MCSpec == MCInit /\ [][MCNext]_MCVars

PageBound == reader = "page" => now <= PageNow

MCSymmetry == Permutations(Pages) \union Permutations(Sends)
=============================================================================
