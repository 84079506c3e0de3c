--------------------------- MODULE BootstrapIssues ---------------------------
(***************************************************************************)
(* scripts/bootstrap_issues/create_issues.py: the epics and sub-issues of  *)
(* issues.yaml are created on GitHub and each sub-issue is linked to its   *)
(* epic.  The script keeps nothing on disk: a run that fails, times out or *)
(* is killed is started again, and what it finds on GitHub is all it knows *)
(* of the runs before it.                                                  *)
(*                                                                         *)
(* The order of issues.yaml within a phase, labels, bodies and the pauses  *)
(* are left out.  One run at a time; other people only add issues.         *)
(***************************************************************************)
EXTENDS Naturals, Sequences, FiniteSets

CONSTANTS
  Epics,      \* titles of the epics
  Subs,       \* titles of the sub-issues
  EpicOf,     \* the epic of a sub-issue
  Other,      \* the title of an issue that is not in issues.yaml
  Limit,      \* --limit of `gh issue list'
  Page,       \* sub-issues of an epic that one request returns
  MaxForeign, \* bound: issues other people add
  MaxIssues,  \* bound: issues of the repository
  MaxFaults   \* bound: requests that fail, time out, and runs that are killed

Titles == Epics \cup Subs

ASSUME TitlesAssumption ==
  Epics \cap Subs = {} /\ EpicOf \in [Subs -> Epics] /\ Other \notin Titles
ASSUME PageAssumption == Page \in Nat \ {0}
ASSUME BoundsAssumption == {Limit, MaxForeign, MaxIssues, MaxFaults} \subseteq Nat

VARIABLES
  issues,   \* GitHub: the issues in the order of their numbers, by title
  links,    \* GitHub: pairs <<number of the parent, number of the sub-issue>>
  pc,       \* the run: off, creating, linking, posting, done (exit code 0)
  existing, \* the run: number of a title as far as it is known, 0 if it is not
  todo,     \* the run: titles its current phase has not come to
  posting,  \* the run: the sub-issue whose link it is about to post
  failed,   \* the run: failed or link_failed is not empty
  foreign,  \* issues added by other people so far
  faults    \* faults so far

vars == <<issues, links, pc, existing, todo, posting, failed, foreign, faults>>
github == <<issues, links, foreign>>

Unknown == [t \in Titles |-> 0]

Init ==
  /\ issues = <<>> /\ links = {}
  /\ pc = "off" /\ existing = Unknown /\ todo = {} /\ posting = Other /\ failed = FALSE
  /\ foreign = 0 /\ faults = 0

-----------------------------------------------------------------------------
(* GitHub.                                                                 *)

\* Somebody else opens an issue.
ForeignIssue ==
  /\ foreign < MaxForeign /\ Len(issues) < MaxIssues
  /\ issues' = Append(issues, Other)
  /\ foreign' = foreign + 1
  /\ UNCHANGED <<links, pc, existing, todo, posting, failed, faults>>

(* `gh issue list --state all --limit': the newest Limit issues. *)
Listed(t) == {n \in DOMAIN issues : issues[n] = t /\ n + Limit > Len(issues)}

\* A title has the number of its oldest issue in the list, which is the last one in it.
Oldest(t) == CHOOSE n \in Listed(t) : \A m \in Listed(t) : n =< m

\* GitHub gives a sub-issue one parent at most.
HasParent(n) == \E l \in links : l[2] = n

-----------------------------------------------------------------------------
(* The start of a run, and how it may end early.                           *)

\* Mutant: titles are looked for among the open issues, and some have been closed.
StartWithoutClosed ==
  /\ pc \in {"off", "done"}
  /\ \E closed \in SUBSET Titles :
       existing' = [t \in Titles |-> IF Listed(t) = {} \/ t \in closed THEN 0 ELSE Oldest(t)]
  /\ pc' = "creating" /\ todo' = Titles /\ failed' = FALSE
  /\ UNCHANGED <<github, posting, faults>>

(* main and fetch_existing_issues: a run knows what it finds on GitHub. *)
Start ==
  /\ pc \in {"off", "done"}
  /\ existing' = [t \in Titles |-> IF Listed(t) = {} THEN 0 ELSE Oldest(t)]
  /\ pc' = "creating" /\ todo' = Titles /\ failed' = FALSE
  /\ UNCHANGED <<github, posting, faults>>

\* A request times out, which is an exception nobody handles, or the run is killed.
Ends ==
  /\ faults < MaxFaults
  /\ faults' = faults + 1
  /\ pc' = "off"
  /\ UNCHANGED <<existing, todo, posting, failed>>

(* The run ends between two requests. *)
Die ==
  /\ pc \in {"creating", "linking", "posting"}
  /\ Ends
  /\ UNCHANGED github

-----------------------------------------------------------------------------
(* Phases 1 and 2: create_issue for every title that is not known.         *)

\* The title whose turn it is: the sub-issues come after the epics.
Turn(t) ==
  /\ pc = "creating" /\ t \in todo
  /\ t \in Epics \/ todo \cap Epics = {}

(* process_issue, for a title that exists. *)
SkipExisting(t) ==
  /\ Turn(t) /\ existing[t] # 0
  /\ todo' = todo \ {t}
  /\ UNCHANGED <<github, pc, existing, posting, failed, faults>>

\* The issue is on GitHub after the request.
Added(t) ==
  /\ Len(issues) < MaxIssues
  /\ issues' = Append(issues, t)
  /\ UNCHANGED <<links, foreign>>

(* create_issue succeeds: the number is read from the URL `gh' prints. *)
CreateIssue(t) ==
  /\ Turn(t) /\ existing[t] = 0 /\ Added(t)
  /\ existing' = [existing EXCEPT ![t] = Len(issues) + 1]
  /\ todo' = todo \ {t}
  /\ UNCHANGED <<pc, posting, failed, faults>>

(* create_issue returns None: `gh' fails, or what it prints is no URL, and the
   issue may have been created all the same. *)
CreateFails(t) ==
  /\ Turn(t) /\ existing[t] = 0 /\ faults < MaxFaults
  /\ Added(t) \/ UNCHANGED github
  /\ todo' = todo \ {t} /\ failed' = TRUE /\ faults' = faults + 1
  /\ UNCHANGED <<pc, existing, posting>>

(* The request is carried out, and the run ends before it has the answer. *)
CreateAndDie(t) == Turn(t) /\ existing[t] = 0 /\ Added(t) /\ Ends

-----------------------------------------------------------------------------
(* Phase 3: a link for every sub-issue with a number.                      *)

(* The third loop of main begins. *)
BeginLinking ==
  /\ pc = "creating" /\ todo = {}
  /\ pc' = "linking" /\ todo' = {s \in Subs : existing[s] # 0}
  /\ UNCHANGED <<github, existing, posting, failed, faults>>

\* The sub-issue is done with.
Passed(s, ok) ==
  /\ pc' = "linking" /\ todo' = todo \ {s} /\ failed' = (failed \/ ~ ok)
  /\ UNCHANGED <<existing, posting>>

(* The number of the epic is unknown. *)
NoParent(s) ==
  /\ pc = "linking" /\ s \in todo /\ existing[EpicOf[s]] = 0
  /\ Passed(s, FALSE)
  /\ UNCHANGED <<github, faults>>

Link(s) == <<existing[EpicOf[s]], existing[s]>>

\* Mutant: an epic that has sub-issues already is taken for complete.
SkipLinkedEpic(s) ==
  /\ pc = "linking" /\ s \in todo /\ existing[EpicOf[s]] # 0
  /\ \E l \in links : l[1] = existing[EpicOf[s]]
  /\ Passed(s, TRUE)
  /\ UNCHANGED <<github, faults>>

\* The sub-issues of s's epic are on one page, and `gh api' reads no other.
OnOnePage(s) == Cardinality({l \in links : l[1] = existing[EpicOf[s]]}) =< Page

(* get_linked_sub_issue_numbers finds the link, on the page it reads. *)
SkipLinked(s) ==
  /\ pc = "linking" /\ s \in todo /\ existing[EpicOf[s]] # 0
  /\ Link(s) \in links
  /\ Passed(s, TRUE)
  /\ UNCHANGED <<github, faults>>

(* It does not find it: there is none, or it is on a later page, or the request fails,
   which counts as no links at all. The id of the sub-issue is fetched. *)
FetchId(s) ==
  /\ pc = "linking" /\ s \in todo /\ existing[EpicOf[s]] # 0
  /\ IF Link(s) \in links /\ OnOnePage(s) THEN faults < MaxFaults /\ faults' = faults + 1
                                           ELSE faults' = faults
  /\ pc' = "posting" /\ posting' = s
  /\ UNCHANGED <<github, existing, todo, failed>>

(* get_issue_node_id_and_dbid has no answer. *)
FetchIdFails(s) ==
  /\ pc = "linking" /\ s \in todo /\ existing[EpicOf[s]] # 0 /\ faults < MaxFaults
  /\ Passed(s, FALSE)
  /\ faults' = faults + 1
  /\ UNCHANGED github

\* The POST reaches GitHub.
Posted ==
  /\ ~ HasParent(existing[posting])
  /\ links' = links \cup {Link(posting)}
  /\ UNCHANGED <<issues, foreign>>

(* link_sub_issue succeeds. *)
PostLink ==
  /\ pc = "posting" /\ Posted
  /\ Passed(posting, TRUE)
  /\ UNCHANGED faults

(* GitHub refuses a second parent. *)
PostRefused ==
  /\ pc = "posting" /\ HasParent(existing[posting])
  /\ Passed(posting, FALSE)
  /\ UNCHANGED <<github, faults>>

(* link_sub_issue fails, whether or not the link was made. *)
PostFails ==
  /\ pc = "posting" /\ faults < MaxFaults
  /\ Posted \/ UNCHANGED github
  /\ Passed(posting, FALSE)
  /\ faults' = faults + 1

(* The link is made, and the run ends before it has the answer. *)
PostAndDie == pc = "posting" /\ Posted /\ Ends

\* Mutant: links that fail do not change the exit code.
FinishUnchecked ==
  /\ pc = "linking" /\ todo = {}
  /\ pc' = IF \E t \in Titles : existing[t] = 0 THEN "off" ELSE "done"
  /\ UNCHANGED <<github, existing, todo, posting, failed, faults>>

(* The summary: exit code 0 only if nothing failed. *)
Finish ==
  /\ pc = "linking" /\ todo = {}
  /\ pc' = IF failed THEN "off" ELSE "done"
  /\ UNCHANGED <<github, existing, todo, posting, failed, faults>>

-----------------------------------------------------------------------------
\* What a run does as long as its requests succeed.
Progress ==
  \/ \E t \in Titles : SkipExisting(t) \/ CreateIssue(t)
  \/ BeginLinking
  \/ \E s \in Subs : NoParent(s) \/ SkipLinked(s) \/ FetchId(s)
  \/ PostLink \/ PostRefused \/ Finish

Next ==
  \/ ForeignIssue \/ Start \/ Die \/ Progress
  \/ \E t \in Titles : CreateFails(t) \/ CreateAndDie(t)
  \/ \E s \in Subs : FetchIdFails(s)
  \/ PostFails \/ PostAndDie

Spec == Init /\ [][Next]_vars

\* The script does not stop by itself, and is started again after a failure.
FairSpec == Spec /\ WF_vars(Progress) /\ WF_vars(pc = "off" /\ Start)

-----------------------------------------------------------------------------
(* What each variable holds. *)
TypeOK ==
  /\ issues \in Seq(Titles \cup {Other})
  /\ links \subseteq Nat \X Nat
  /\ pc \in {"off", "creating", "linking", "posting", "done"}
  /\ existing \in [Titles -> Nat]
  /\ todo \subseteq Titles
  /\ posting \in Subs \cup {Other} /\ (pc = "posting" => posting \in Subs)
  /\ failed \in BOOLEAN
  /\ foreign \in Nat /\ faults \in Nat

(* The script is idempotent: however often it failed, was killed and was started
   again, no title of issues.yaml has two issues - as long as the repository has no
   more issues than the listing returns. *)
OneIssuePerTitle ==
  Len(issues) =< Limit =>
    \A m, n \in DOMAIN issues : issues[m] = issues[n] /\ issues[m] # Other => m = n

\* Every epic has an issue, and every sub-issue one that is linked to its epic's.
Complete ==
  /\ \A e \in Epics : \E n \in DOMAIN issues : issues[n] = e
  /\ \A s \in Subs : \E l \in links :
       /\ l[1] \in DOMAIN issues /\ issues[l[1]] = EpicOf[s]
       /\ l[2] \in DOMAIN issues /\ issues[l[2]] = s

(* A run that reports success has left nothing out: not a title whose creation
   failed in an earlier run, nor a link that was never made. *)
CleanExitIsComplete == pc = "done" => Complete

(* Once started, and started again after every failure, the script completes its
   work, unless the repository outgrows the listing - even for an epic with more
   sub-issues than a page, whose links it tries to make once more in every run. *)
Converges == pc = "creating" ~> (Complete \/ Len(issues) > Limit)
=============================================================================
