------------------------------ MODULE MCBoards ------------------------------
(* Small instances of Boards, Listings, Stated and Descriptions for TLC: one    *)
(* behaviour is a board and its checks, one check's requests, one posting as it *)
(* is read, or the fetch of its text.                                           *)
EXTENDS Boards, TLC

CONSTANTS
  job1, job2, job3, print1, print2, s1, s2,
  Postings, Nameless, Posted, PageSize, Ceiling, MaxPages, MaxRequests,
  MaxChanges, LackingGroups,   \* of Listings
  MaxPlaces,                   \* of Stated
  MaxMarks, MaxChars           \* of Descriptions

VARIABLES mode, platform, listed, facets, was, changes, fetch, raw, job,
          handler, answer, marks, page, result

\* Places as employers write them, by their normalised words.
Said == << <<"hybrid", "london">>, <<"london">>, <<"not", "remote">>, <<"remote", "friendly">>,
           <<"remote">>, <<"on", "site">>, <<"hybrid", "london">> >>

L == INSTANCE Listings WITH board <- listed
W == INSTANCE Stated
D == INSTANCE Descriptions

\* No value is no answer, no number, no code and no text; a page holds something, a listing
\* shows something, and the postings that a board may start with are postings.
ASSUME PartsAssumption ==
  /\ Postings \subseteq Nat /\ Posted \subseteq Nat /\ \A n \in Posted : 1..n \subseteq Postings
  /\ PageSize \in Nat \ {0} /\ Ceiling \in Nat \ {0}
  /\ None \notin Nat /\ None \notin {"complete", "count_mismatch", "duplicate_posting"}
  /\ None \notin D!ErrorCodes /\ None \notin D!Answers /\ None \notin BOOLEAN /\ MaxChars \in Nat
  /\ None \notin {"fully", "remote", "hybrid", "none", "temporary"}
  /\ \A names \in SUBSET W!Workplaces : None # names

\* job1 and job2 are postings of one role; job3 may be listed as one of it too, or as another.
MCPrints(i) == IF i = job3 THEN {print1, print2} ELSE {print1}
MCListings  == UNION {{l \in [S -> {print1, print2}] : \A i \in S : l[i] \in MCPrints(i)} :
                        S \in SUBSET {job1, job2, job3}}

checkVars == <<platform, listed, facets, was, changes, fetch>>
textVars  == <<handler, answer, marks, page, result>>
NoCheck == /\ listed = <<>> /\ facets = None /\ was = {} /\ changes = 0
           /\ fetch = L!NoFetch
NoPosting == raw = None /\ job = None
NoText == handler = None /\ answer = None /\ marks = <<>> /\ page = None /\ result = None

MCInit ==
  /\ Init
  /\ \/ mode = "board" /\ platform = None /\ NoCheck /\ NoPosting /\ NoText
     \/ mode = "check" /\ L!ListingsInit /\ NoPosting /\ NoText
     \/ mode = "posting" /\ W!StatedInit /\ NoCheck /\ NoText
     \/ mode = "text" /\ D!DescriptionsInit /\ platform = None /\ NoCheck /\ NoPosting

MCNext ==
  /\ UNCHANGED mode
  /\ \/ mode = "board" /\ BoardsNext /\ UNCHANGED <<checkVars, raw, job, textVars>>
     \/ mode = "check" /\ L!ListingsNext /\ UNCHANGED <<boardVars, raw, job, textVars>>
     \/ /\ mode = "posting" /\ W!Read
        /\ UNCHANGED <<boardVars, listed, facets, was, changes, fetch, textVars>>
     \/ mode = "text" /\ D!DescriptionsNext /\ UNCHANGED <<boardVars, checkVars, raw, job>>

MCVars == <<mode, boardVars, checkVars, raw, job, textVars>>
MCSpec == MCInit /\ [][MCNext]_MCVars

\* The open jobs and the history of each are what complete checks saw, no more and
\* no less, however the checks overlapped: see Boards.
BoardIsWhatWasSeen == OpenIsLastSeen /\ HistoryIsSeen

\* A check comes when its board's slot does, and says what was there: it is complete only
\* if it saw the board, whatever its pages did, and is when it can be; and where a posting
\* is, and what its text says, is what was said there: see Boards, Listings, Stated and
\* Descriptions.
ChecksSayWhatIsThere ==
  /\ NextSlotIsFirst
  /\ mode = "check" => L!CompleteIsTheBoard /\ L!QuietIsWhole
  /\ mode = "posting" => W!StatedNotInferred /\ W!OrderMeansNothing
  /\ mode = "text" => D!NothingWrittenIsLost /\ D!BulletsAreItems /\ D!GoneIsTheirWord

\* A collapse goes through only once accepted, and while one is held it is the
\* newest complete check that is: see Boards.
CollapseIsAnswered == []HeldIsLatest /\ CollapseIsAccepted

\* Tasks are interchangeable, and so are the two postings of one role.
BoardSymmetry == Permutations(Slots) \union Permutations({job1, job2})
=============================================================================
