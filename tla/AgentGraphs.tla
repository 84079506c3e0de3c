---------------------------- MODULE AgentGraphs ----------------------------
(***************************************************************************)
(* The business graphs of agent-core (graphs/): backlog, KPI monitoring,   *)
(* decision records, weekly review, discovery, experiments, stakeholder    *)
(* messages, initiatives, and the L1 graphs that propose a change and      *)
(* execute it once it is approved. Each is a line of nodes behind the      *)
(* emergency-stop guard (guards.py) and of requests to the API server that *)
(* stand behind no guard; whatever raises ends the run where it is.        *)
(*                                                                         *)
(* The API server is what the requests find there: the stop, and the       *)
(* approved records behind the L1 gate, which ApprovalGate models in       *)
(* detail.                                                                 *)
(***************************************************************************)
EXTENDS Naturals, Sequences, SequencesExt

CONSTANTS
  Runs,     \* runs of graphs that may be under way together
  Targets,  \* products, roadmap items, releases and stakeholders
  MaxRisks, \* bound: risks of an initiative
  None      \* no target

ASSUME TargetsAssumption == None \notin Targets
ASSUME MaxRisksAssumption == MaxRisks \in Nat

VARIABLES
  run,      \* each run: the steps it has before it, whether its guard has let it pass,
            \* what it has made, and how it ended
  stopped,  \* the emergency stop
  approved, \* targets with an approved Approval
  loose,    \* (history) runs past their last guard when the stop was triggered
  late      \* (history) runs that have written since then

stopHistory == <<loose, late>>
graphVars == <<run, stopped, approved, stopHistory>>

-----------------------------------------------------------------------------
(* The graphs, as the steps they take.                                     *)

\* A node runs behind the guard, anything else does not.
Node(op, of) == [guarded |-> TRUE, op |-> op, of |-> of]
Request(op, of) == [guarded |-> FALSE, op |-> op, of |-> of]

\* A node that only asks the model, or only computes.
Think == Node("think", None)

Backlog == <<Think, Think, Node("create", "story")>>
MonitorKpi ==
  {<<Think>>, <<Think, Think, Request("create", "report")>>} \* within bounds, or not
RecordDecision == <<Think, Request("create", "decision")>>
WeeklyReview == \* without decisions that are needed, and with
  {<<Think, Request("create", "report")>>,
   <<Think, Request("create", "report"), Request("propose", "report")>>}
Discovery == <<Think, Request("create", "persona")>>
Experiment == <<Think, Request("create", "experiment")>>
DraftMessage == <<Think>>

\* Mutant: each risk is a node of its own.
RiskNodes(n) == [i \in 1..n |-> Node("create", "risk")]
Risks(n) == [i \in 1..n |-> Request("create", "risk")]
Initiative(n) == <<Think, Request("create", "initiative")>> \o Risks(n)

Propose(t) == <<Think, Request("propose", t)>>
SendMessage(t) == <<Node("confirm", t)>>
ExecuteAfterApproval(t) == <<Request("check", t)>> \o SendMessage(t)

Graphs ==
  {Backlog, RecordDecision, Discovery, Experiment, DraftMessage}
    \cup MonitorKpi \cup WeeklyReview
    \cup {Initiative(n) : n \in 0..MaxRisks}
    \cup UNION {{Propose(t), SendMessage(t), ExecuteAfterApproval(t)} : t \in Targets}

Writes == {"create", "propose", "confirm"}

-----------------------------------------------------------------------------
NotRun == [graph |-> << >>, rest |-> << >>, passed |-> FALSE, made |-> << >>, end |-> "none"]

GraphsInit ==
  /\ run = [r \in Runs |-> NotRun]
  /\ stopped = FALSE
  /\ approved = {}
  /\ loose = {}
  /\ late = {}

Active(r) == run[r].rest # << >>
Step(r) == Head(run[r].rest)

(* A graph is called: nobody asks for the stop before its first guard. *)
Start(r, graph) ==
  /\ ~Active(r)
  /\ run' = [run EXCEPT ![r] = [NotRun EXCEPT !.graph = graph, !.rest = graph]]
  /\ loose' = loose \ {r}
  /\ late' = late \ {r}
  /\ UNCHANGED <<stopped, approved>>

\* The step at hand may be taken: its guard, if it has one, has let the run pass.
Ready(r) == Active(r) /\ (Step(r).guarded => run[r].passed)

\* The run of r when it ends early, after it has made m.
Ended(r, how, m) ==
  [run[r] EXCEPT !.rest = << >>, !.passed = FALSE, !.end = how, !.made = @ \o m]

\* Mutant: a graph asks for the stop once, before its first node.
GuardOnce(r) ==
  /\ Active(r) /\ Step(r).guarded /\ ~run[r].passed
  /\ run' = [run EXCEPT ![r] = IF stopped /\ @.rest = @.graph
                                THEN Ended(r, "stopped", << >>)
                                ELSE [@ EXCEPT !.passed = TRUE]]
  /\ UNCHANGED <<stopped, approved, stopHistory>>

(* run_node_with_guard: EmergencyStopError, or the node. *)
Guard(r) ==
  /\ Active(r) /\ Step(r).guarded /\ ~run[r].passed
  /\ run' = [run EXCEPT ![r] = IF stopped THEN Ended(r, "stopped", << >>)
                                        ELSE [@ EXCEPT !.passed = TRUE]]
  /\ UNCHANGED <<stopped, approved, stopHistory>>

\* The run of r after its step, which has made m.
After(r, m) ==
  [run[r] EXCEPT !.rest = Tail(@), !.passed = FALSE, !.made = @ \o m,
                 !.end = IF Len(run[r].rest) = 1 THEN "done" ELSE "none"]

(* The step succeeds without a change on the server. *)
Reason(r) ==
  /\ Ready(r)
  /\ \/ Step(r).op = "think"
     \/ Step(r).op = "check" /\ Step(r).of \in approved
  /\ run' = [run EXCEPT ![r] = After(r, << >>)]
  /\ UNCHANGED <<stopped, approved, stopHistory>>

\* What the server does not refuse: the CRUD API and /approvals ask neither for the stop
\* nor for an approval, an L1 endpoint for both (require_approval, check_not_stopped).
Create(r) == Step(r).op = "create"
Submit(r) == Step(r).op = "propose"
Confirm(r) == Step(r).op = "confirm" /\ Step(r).of \in approved /\ ~stopped

(* The request is executed; the run goes on, or ends if the answer is lost. *)
Write(r) ==
  /\ Ready(r)
  /\ Create(r) \/ Submit(r) \/ Confirm(r)
  /\ \/ run' = [run EXCEPT ![r] = After(r, <<Step(r)>>)]
     \/ run' = [run EXCEPT ![r] = Ended(r, "failed", <<Step(r)>>)]
  /\ late' = IF stopped THEN late \cup {r} ELSE late
  /\ UNCHANGED <<stopped, approved, loose>>

(* The step raises: a request is lost or refused, the guard's included, no approval is
   there, the model's answer has no JSON or lacks a key. *)
Raise(r) ==
  /\ Active(r)
  /\ run' = [run EXCEPT ![r] = Ended(r, "failed", << >>)]
  /\ UNCHANGED <<stopped, approved, stopHistory>>

-----------------------------------------------------------------------------
(* People.                                                                 *)

(* A record that approves t comes in: by a decide, or straight through the CRUD API,
   for which no proposal is needed. *)
Approve(t) ==
  /\ approved' = approved \cup {t}
  /\ UNCHANGED <<run, stopped, stopHistory>>

(* The records that approve t are written over. *)
Rewrite(t) ==
  /\ approved' = approved \ {t}
  /\ UNCHANGED <<run, stopped, stopHistory>>

\* No guard is left that could hold the run of r up.
PastLastGuard(r) ==
  /\ Active(r)
  /\ \A i \in 1..Len(run[r].rest) : run[r].rest[i].guarded => i = 1 /\ run[r].passed

TriggerStop ==
  /\ ~stopped
  /\ stopped' = TRUE
  /\ loose' = {r \in Runs : PastLastGuard(r)}
  /\ UNCHANGED <<run, approved, late>>

ReleaseStop ==
  /\ stopped
  /\ stopped' = FALSE
  /\ loose' = {}
  /\ late' = {}
  /\ UNCHANGED <<run, approved>>

GraphsNext ==
  \/ \E r \in Runs, graph \in Graphs : Start(r, graph)
  \/ \E r \in Runs : Guard(r) \/ Reason(r) \/ Write(r) \/ Raise(r)
  \/ \E t \in Targets : Approve(t) \/ Rewrite(t)
  \/ TriggerStop
  \/ ReleaseStop

GraphsSpec == GraphsInit /\ [][GraphsNext]_graphVars

-----------------------------------------------------------------------------
(* Properties.                                                             *)

(* The types of all variables: a run has the steps of a graph before it. *)
GraphsTypeOK ==
  /\ \A r \in Runs :
       /\ run[r].graph \in Graphs \cup {<< >>}
       /\ \E taken \in 0..Len(run[r].graph) :
            run[r].rest = SubSeq(run[r].graph, taken + 1, Len(run[r].graph))
       /\ run[r].passed \in BOOLEAN
       /\ run[r].end \in {"none", "done", "stopped", "failed"}
       /\ run[r].passed => Active(r) /\ Step(r).guarded
  /\ stopped \in BOOLEAN
  /\ approved \subseteq Targets
  /\ loose \subseteq Runs
  /\ late \subseteq Runs

\* The writes of a graph, in their order: those among its first n steps, and all of them.
WritesAmong(graph) ==
  LET upto[n \in 0..Len(graph)] ==
        IF n = 0 THEN << >>
        ELSE IF graph[n].op \in Writes THEN Append(upto[n - 1], graph[n]) ELSE upto[n - 1]
  IN upto
WritesOf(graph) == WritesAmong(graph)[Len(graph)]

(* Work is left half done only by a request that failed: a run that ended regularly has
   created and proposed everything, in order and once, and one that a stop has ended
   has written nothing, as no guard stands behind a write (graphs/). *)
HalfDoneOnlyByFailure ==
  \A r \in Runs :
    LET made == run[r].made
        all == WritesOf(run[r].graph)
    IN CASE run[r].end = "done" -> made = all
         [] run[r].end = "stopped" -> made = << >>
         [] OTHER -> IsPrefix(made, all)

(* What still goes out while the stop is on comes from runs that had their last guard
   behind them when it was triggered: in every other run, one between two of its nodes
   or one that is started meanwhile, a guard stands before all that it writes
   (graphs/, guards.py). *)
StopSparesOnlyLoose == stopped => late \subseteq loose
=============================================================================
