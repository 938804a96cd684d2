------------------------------- MODULE Filter -------------------------------
(***************************************************************************)
(* The saved job filter (jfl_intake.filtering and boardfilter), pure: what   *)
(* becomes of one job on a board, given the filter, the board's exceptions   *)
(* and its two switches. A text is the set of its normalised words, a list   *)
(* of comma-separated alternatives a set of such sets.                       *)
(***************************************************************************)
CONSTANT Words

Texts      == SUBSET Words
Workplaces == {"remote", "hybrid", "onsite", "unknown"}
Passing    == {"filter", "exception", "unstated"}

\* `evidence`: the posting's own words say remote-friendly (says_remote_friendly).
Job    == [title : Texts, places : {{t} : t \in Texts}, workplace : Workplaces, evidence : BOOLEAN]
Terms  == {{}} \union {{t} : t \in Texts \ {{}}}
Saved  == [mode : {"remote_only", "remote_friendly", "custom"}, workplaces : SUBSET Workplaces,
           includes : Terms, excludes : Terms, location : Terms, unknown_shown : {FALSE}]
Rule   == [workplaces : SUBSET Workplaces, location : Terms]

-----------------------------------------------------------------------------
AnyAlternativeMatches(terms, targets) == \E alt \in terms, words \in targets : alt \subseteq words

TitlePasses(f, job) ==
  /\ ~AnyAlternativeMatches(f.excludes, {job.title})
  /\ f.includes = {} \/ AnyAlternativeMatches(f.includes, {job.title})

LocationPasses(terms, job) == terms = {} \/ AnyAlternativeMatches(terms, job.places)

WorkplacePasses(f, job, heavy) ==
  IF f.mode = "custom" THEN f.workplaces = {} \/ job.workplace \in f.workplaces
  ELSE \/ f.unknown_shown /\ job.workplace = "unknown" /\ ~job.evidence
       \/ job.workplace = "remote"
       \/ f.mode = "remote_friendly" /\ ~heavy /\ (job.workplace = "hybrid" \/ job.evidence)

\* Mutant: evidence of remote work does not count as having stated something.
UnstatedWhateverTheWords(f, job) == job.workplace = "unknown"
IsUnstated(f, job) == job.workplace = "unknown" /\ (f.mode = "custom" \/ ~job.evidence)

ExceptionMatches(rule, job) ==
  (rule.workplaces = {} \/ job.workplace \in rule.workplaces) /\ LocationPasses(rule.location, job)

\* The filter itself, then the exceptions, then the board's include-unstated switch.
Evaluate(job, f, includeUnstated, exceptions, heavy) ==
  LET located == LocationPasses(f.location, job)
  IN IF ~TitlePasses(f, job) THEN "excluded"
     ELSE IF located /\ WorkplacePasses(f, job, heavy) THEN "filter"
     ELSE IF \E rule \in exceptions : ExceptionMatches(rule, job) THEN "exception"
     ELSE IF ~(located /\ IsUnstated(f, job)) THEN "excluded"
     ELSE IF includeUnstated THEN "unstated" ELSE "hidden_unstated"

\* The page's one-click "show them".
WithUnknownWorkplace(f) ==
  IF f.mode # "custom" THEN [f EXCEPT !.unknown_shown = TRUE]
  ELSE IF f.workplaces = {} THEN f
  ELSE [f EXCEPT !.workplaces = @ \union {"unknown"}]

-----------------------------------------------------------------------------
(* Property.                                                                *)

\* The number the page gives as hidden for an unstated workplace is exactly what
\* "show them" adds, and nothing that passed is lost by pressing it; remote friendly
\* shows all that remote only shows; and no exception lets a job of another role through.
Honest(f, job, unstated, heavy, exceptions) ==
  LET verdict == Evaluate(job, f, unstated, exceptions, heavy)
      shown   == Evaluate(job, WithUnknownWorkplace(f), unstated, exceptions, heavy)
      friendly == Evaluate(job, [f EXCEPT !.mode = "remote_friendly"], unstated, exceptions, heavy)
  IN /\ shown \in Passing <=> verdict \in Passing \union {"hidden_unstated"}
     /\ f.mode = "remote_only" /\ verdict \in Passing => friendly \in Passing
     /\ ~TitlePasses(f, job) => verdict = "excluded"
=============================================================================
