------------------------------ MODULE Clusters ------------------------------
(***************************************************************************)
(* Capabilities: what the user can do, each with the lines of the corpus   *)
(* behind it.  A cheap model call groups the confirmed facts nothing on    *)
(* the profile cites yet (handlers/capability_clusters.py); its groups are *)
(* proposals on the run's row (storage/capability_clusters.py) until the   *)
(* user accepts them, under a name of their own if they like, or says no   *)
(* (routes/profile.py).  A request and what it read are Facts'.            *)
(***************************************************************************)
EXTENDS Facts, Sequences, SequencesExt

CONSTANTS
  Runs,      \* capability_clusters ids, in created_at order; bound on them
  RunTries,  \* tasks.max_attempts of a run's task
  CallSize,  \* MAX_FACTS_PER_CLUSTER_CALL; facts are listed in their order
  MaxItems   \* how many groups the model may come back with

ASSUME ClustersAssumption == MaxItems \in Nat

VARIABLES
  run,      \* run[k]: its row
  runTask,  \* runTask[k]: the cluster_capabilities task queued with it
  grouper   \* grouper[k]: where the thread that has that task stands

clusterVars == <<run, runTask, grouper>>
profileVars == <<factVars, clusterVars>>

Proposals == [label : Labels, facts : SUBSET Facts, spans : SUBSET Lines,
              state : {"open", "accepted", "rejected"}]
RunRows == [status : {"absent", "pending", "done", "failed"},
            proposals : Seq(Proposals),
            sent : SUBSET Facts,   \* history: those fact_count counts
            unplaced : SUBSET Facts, omitted : SUBSET Facts]

NoRun     == [status |-> "absent", proposals |-> <<>>,
              sent |-> {}, unplaced |-> {}, omitted |-> {}]
NoGrouper == [at |-> "none", sending |-> {}, omitted |-> {},
              spans |-> [f \in Facts |-> {}], proposals |-> <<>>]

ClustersInit ==
  /\ run = [k \in Runs |-> NoRun]
  /\ runTask = [k \in Runs |-> NoTask]
  /\ grouper = [k \in Runs |-> NoGrouper]

ClustersTypeOK == run \in [Runs -> RunRows]

----------------------------------------------------------------------------
(* What one call is given, and what its answer is made into.               *)

Cited(owner) == UNION {owner.evidence[l] : l \in owner.has}

\* Confirmed facts whose line no capability cites.
Eligible(facts, owner) ==
  {f \in Facts : facts[f].state = "confirmed" /\ facts[f].span \notin Cited(owner)}

\* facts_to_cluster: as many as fit in one call.
Sending(eligible) == {f \in eligible : Cardinality({g \in eligible : g < f}) < CallSize}

\* The model's answer: groups, each a label and the facts it names.
Item == [label : Labels, names : SUBSET Facts]
ModelAnswers == UNION {[1..n -> Item] : n \in 0..MaxItems}

Roles(facts) == {RoleOf[f] : f \in facts}

\* A wrong Sanitise: a fact may be in two groups.
SanitiseShared(answer, sending, spans) ==
  FoldLeft(
    LAMBDA kept, item :
      LET named == item.names \cap sending IN
      IF \/ item.label \in Roles(sending) \/ named = {}
         \/ \E i \in DOMAIN kept : kept[i].label = item.label
      THEN kept
      ELSE Append(kept, [label |-> item.label, facts |-> named,
                         spans |-> UNION {spans[f] : f \in named}, state |-> "open"]),
    <<>>, answer)

\* sanitise: a role is no capability, a label comes once, a fact is in one
\* group, and a group has a fact that was sent.
Sanitise(answer, sending, spans) ==
  FoldLeft(
    LAMBDA kept, item :
      LET placed == UNION {kept[i].facts : i \in DOMAIN kept}
          named  == (item.names \cap sending) \ placed
      IN
      IF \/ item.label \in Roles(sending) \/ named = {}
         \/ \E i \in DOMAIN kept : kept[i].label = item.label
      THEN kept
      ELSE Append(kept, [label |-> item.label, facts |-> named,
                         spans |-> UNION {spans[f] : f \in named}, state |-> "open"]),
    <<>>, answer)

\* unplaced_facts.
Unplaced(sending, proposals) == sending \ UNION {proposals[i].facts : i \in DOMAIN proposals}

----------------------------------------------------------------------------
(* The run: start_capability_cluster and its task.                         *)

BeginProfileRequest(p) == BeginRequest(p, run) /\ UNCHANGED clusterVars

NextRun(k) == run[k].status = "absent" /\ \A j \in Runs : j < k => run[j].status # "absent"

\* Nothing to group, or a run in flight: no call is bought.
StartGrouping(p) ==
  /\ request[p].on
  /\ \A k \in Runs : request[p].others[k].status # "pending"
  /\ Eligible(request[p].facts, request[p].profile) # {}
  /\ \E k \in Runs :
       /\ NextRun(k)
       /\ run' = [run EXCEPT ![k].status = "pending"]
       /\ runTask' = [runTask EXCEPT ![k] = [status |-> "pending", tries |-> 0]]
  /\ Commit(p, request[p])
  /\ UNCHANGED <<told, profile, cv, cvTask, reader, grouper>>

GrouperAt(k, at) == grouper' = [grouper EXCEPT ![k].at = at]

\* A run no longer pending is not answered again.
DeliverGrouping(k) ==
  /\ runTask[k].status = "pending"
  /\ runTask' = [runTask EXCEPT ![k] = [status |-> "running", tries |-> @.tries + 1]]
  /\ GrouperAt(k, IF run[k].status = "pending" THEN "inputs" ELSE "ok")
  /\ UNCHANGED <<run, factVars>>

\* The key, the facts and the profile as they are now, and the lines these are in.
ReadInputs(k) ==
  LET eligible == Eligible(fact, profile)
      sending  == Sending(eligible)
  IN
  /\ grouper[k].at = "inputs"
  /\ \/ GrouperAt(k, "refuse")
     \/ grouper' = [grouper EXCEPT ![k] =
          [NoGrouper EXCEPT !.at = IF sending = {} THEN "store" ELSE "call",
             !.sending = sending, !.omitted = eligible \ sending,
             !.spans = [f \in Facts |-> {fact[f].span} \ {None}]]]
  /\ UNCHANGED <<run, runTask, factVars>>

CallForGroups(k) ==
  /\ grouper[k].at = "call"
  /\ \/ \E answer \in ModelAnswers :
          grouper' = [grouper EXCEPT ![k] =
            [@ EXCEPT !.at = "store",
                      !.proposals = Sanitise(answer, grouper[k].sending, grouper[k].spans)]]
     \/ \E at \in {"refuse", "fail", "blocked"} : GrouperAt(k, at)
  /\ UNCHANGED <<run, runTask, factVars>>

\* mark_done.
StoreGroups(k) ==
  /\ grouper[k].at = "store"
  /\ run' = [run EXCEPT ![k] =
       [status |-> "done", proposals |-> grouper[k].proposals,
        sent |-> grouper[k].sending,
        unplaced |-> Unplaced(grouper[k].sending, grouper[k].proposals),
        omitted |-> grouper[k].omitted]]
  /\ GrouperAt(k, "ok")
  /\ UNCHANGED <<runTask, factVars>>

\* _fail, before the task is given up or put back.
FailGrouping(k) ==
  /\ grouper[k].at \in {"refuse", "fail"}
  /\ run' = [run EXCEPT ![k].status = "failed"]
  /\ GrouperAt(k, IF grouper[k].at = "refuse" THEN "permanent" ELSE "error")
  /\ UNCHANGED <<runTask, factVars>>

SettleGrouping(k, status, tries) ==
  /\ runTask' = [runTask EXCEPT ![k] = [status |-> status, tries |-> tries]]
  /\ grouper' = [grouper EXCEPT ![k] = NoGrouper]
  /\ UNCHANGED <<run, factVars>>

AnotherTry(k) == IF runTask[k].tries >= RunTries THEN "failed" ELSE "pending"

RecordGrouping(k) ==
  LET tries == runTask[k].tries IN
  \/ grouper[k].at = "ok"        /\ SettleGrouping(k, "succeeded", tries)
  \/ grouper[k].at = "permanent" /\ SettleGrouping(k, "failed", tries)
  \/ grouper[k].at = "error"     /\ SettleGrouping(k, AnotherTry(k), tries)
  \/ grouper[k].at = "blocked"   /\ SettleGrouping(k, "pending", tries - 1)

LoseGrouper(k) == grouper[k].at # "none" /\ SettleGrouping(k, AnotherTry(k), runTask[k].tries)

----------------------------------------------------------------------------
(* What the user makes of it.                                              *)

\* A wrong Merge: the newer row wins.
MergeOver(owner, label, spans) ==
  [owner EXCEPT !.has = @ \union {label}, !.evidence = [@ EXCEPT ![label] = spans]]

\* merge_capabilities, of one row: a saved row wins, but for evidence it lacks.
Merge(owner, label, spans) ==
  [owner EXCEPT !.has = @ \union {label},
     !.evidence = [@ EXCEPT ![label] =
       IF label \in owner.has /\ owner.evidence[label] # {} THEN owner.evidence[label]
       ELSE spans]]

\* set_proposal_state, on what the request read: the first proposal that goes
\* by that key is answered, and renamed.
FirstWith(proposals, label) ==
  CHOOSE i \in DOMAIN proposals : /\ proposals[i].label = label
                                  /\ \A j \in 1..(i - 1) : proposals[j].label # label

AnswerProposal(p, k, i, state, name) ==
  run' = [run EXCEPT ![k].proposals =
            [request[p].others[k].proposals EXCEPT ![i] = [@ EXCEPT !.state = state, !.label = name]]]

Named(p, k) == {request[p].others[k].proposals[i].label : i \in DOMAIN request[p].others[k].proposals}

AcceptProposal(p) ==
  /\ request[p].on
  /\ \E k \in Runs : \E label \in Named(p, k), name \in Labels :
       LET i == FirstWith(request[p].others[k].proposals, label) IN
       /\ AnswerProposal(p, k, i, "accepted", name)
       /\ profile' = Merge(request[p].profile, name, request[p].others[k].proposals[i].spans)
  /\ Commit(p, request[p])
  /\ UNCHANGED <<told, cv, cvTask, reader, runTask, grouper>>

RejectProposal(p) ==
  /\ request[p].on
  /\ \E k \in Runs : \E label \in Named(p, k) :
       AnswerProposal(p, k, FirstWith(request[p].others[k].proposals, label), "rejected", label)
  /\ Commit(p, request[p])
  /\ UNCHANGED <<told, profile, cv, cvTask, reader, runTask, grouper>>

\* propose_capabilities: a role with confirmed facts nothing cites, and no row.
Seed(view, label) == {view.facts[f].span : f \in {g \in Eligible(view.facts, view.profile) :
                                                    RoleOf[g] = label}}

\* save_capability: a row shown, a saved one or a seed, is tiered and so saved.
SaveCapability(p) ==
  /\ request[p].on
  /\ \E label \in Labels \ request[p].profile.has :
       /\ Seed(request[p], label) # {}
       /\ profile' = Merge(request[p].profile, label, Seed(request[p], label))
  /\ Commit(p, request[p])
  /\ UNCHANGED <<told, cv, cvTask, reader, clusterVars>>

\* add_capability: a claim, with nothing behind it.
AddCapability(p) ==
  /\ request[p].on
  /\ \E label \in Labels \ request[p].profile.has :
       profile' = Merge(request[p].profile, label, {})
  /\ Commit(p, request[p])
  /\ UNCHANGED <<told, cv, cvTask, reader, clusterVars>>

RemoveCapability(p) ==
  /\ request[p].on
  /\ \E label \in request[p].profile.has :
       profile' = [request[p].profile EXCEPT !.has = @ \ {label}, !.evidence = [@ EXCEPT ![label] = {}]]
  /\ Commit(p, request[p])
  /\ UNCHANGED <<told, cv, cvTask, reader, clusterVars>>

----------------------------------------------------------------------------
ProfileInit == FactsInit /\ ClustersInit

ClustersStep ==
  \/ \E p \in Requests :
       \/ BeginProfileRequest(p) \/ StartGrouping(p) \/ AcceptProposal(p) \/ RejectProposal(p)
       \/ SaveCapability(p) \/ AddCapability(p) \/ RemoveCapability(p)
  \/ \E k \in Runs :
       \/ DeliverGrouping(k) \/ ReadInputs(k) \/ CallForGroups(k) \/ StoreGroups(k)
       \/ FailGrouping(k) \/ RecordGrouping(k) \/ LoseGrouper(k)

ProfileNext == (FactsNext /\ UNCHANGED clusterVars) \/ ClustersStep
ProfileSpec == ProfileInit /\ [][ProfileNext]_profileVars

----------------------------------------------------------------------------
(* What must hold.                                                         *)

\* "No confirmed fact is silently dropped": of the facts a finished run was
\* given each is in one proposal, or named as unplaced, never in both.
NothingDropped ==
  \A k \in Runs : run[k].status = "done" =>
    LET groups == DOMAIN run[k].proposals IN
    /\ run[k].sent = run[k].unplaced \union UNION {run[k].proposals[i].facts : i \in groups}
    /\ \A i \in groups :
         /\ run[k].proposals[i].facts \cap run[k].unplaced = {}
         /\ \A j \in groups \ {i} : run[k].proposals[i].facts \cap run[k].proposals[j].facts = {}

\* A row the user has wins over any proposal: whatever is accepted, tiered or
\* seeded over it, what stands behind a capability changes only from nothing.
SavedRowWins ==
  [][\A l \in profile.has \cap profile'.has :
       profile'.evidence[l] # profile.evidence[l] => profile.evidence[l] = {}]_profileVars

\* "No such run, or no open proposal under that key" (set_proposal_state): an
\* answer given stays the answer.
AnswerStays ==
  [][\A k \in Runs : \A i \in DOMAIN run[k].proposals :
       run[k].proposals[i].state # "open" =>
         run'[k].proposals[i] = run[k].proposals[i]]_profileVars

\* By hand (see the README): "falls through to a retryable model_error ... never
\* given up on wrongly": a task that ends well has answered its run.
RetriedUntilAnswered ==
  \A k \in Runs : runTask[k].status = "succeeded" => run[k].status = "done"

\* "Whether the corpus can back this row" (Capability.has_evidence): a line
\* cited for a capability is in the corpus.
BackedByTheCorpus == Cited(profile) \subseteq document
=============================================================================
