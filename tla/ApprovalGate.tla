---------------------------- MODULE ApprovalGate ----------------------------
(***************************************************************************)
(* The approval workflow of the api-server: proposals are filed and        *)
(* decided (routers/approvals.py), each decision leaves an Approval entity *)
(* in the PMDF repository, and the L1 endpoints (routers/l1_execution.py)  *)
(* run only behind the approval gate and the emergency stop.               *)
(*                                                                         *)
(* Two kinds of actor run at once in the one api-server process:           *)
(*  - the event loop, which executes the bodies of the `async def'         *)
(*    handlers (propose, decide, create_entity, update_entity) one at a    *)
(*    time: none of them awaits anything that suspends before its last     *)
(*    publish;                                                             *)
(*  - the threads of the thread pool, which execute the `def' handlers and *)
(*    dependencies (the L1 endpoints with require_approval and             *)
(*    check_not_stopped, the emergency-stop endpoints) in parallel with    *)
(*    the loop and with each other. FastAPI takes a thread for each        *)
(*    dependency and another for the body, so what limits the requests     *)
(*    between two of these calls is the requests in flight, not threads.   *)
(* Every file effect of a handler is a step of its own, and the handler    *)
(* may fail, or the process may die, before any of them.                   *)
(***************************************************************************)
EXTENDS Naturals, FiniteSets

CONSTANTS
  Proposals,  \* the ids uuid4 can hand out to proposals
  Records,    \* the ids generate_id("approval") can hand out
  Targets,    \* the entity ids a proposal or an L1 request can name
  Requests,   \* the L1 requests that can be in flight at once
  None        \* JSON null, or a file that is not there

ASSUME NoneAssumption == None \notin Proposals \union Records \union Targets
ASSUME RequestsAssumption == IsFiniteSet(Requests)

VARIABLES
  proposals,   \* data/proposals.json: the Proposal of every id, None before it is filed
  worktree,    \* approval/<id>.yaml in the working tree, None where there is no file
  index,       \* the same files in the git index
  head,        \* the same files in the tree of HEAD
  audited,     \* the approval ids the audit log has a record of
  stopped,     \* the emergency_stopped flag in data/emergency_stop.json
  loop,        \* the handler body the event loop is in
  call,        \* each L1 request in flight: where it is, and its path parameter
  executed,    \* the targets an L1 endpoint has answered 200 for
  origin,      \* (history) the proposal whose decide wrote a record, or Direct for the CRUD API
  orphans,     \* (history) records whose handler died after writing the working tree
  byHand,      \* (history) targets of approved records that the CRUD API wrote, or wrote over
  admitted,    \* (history) L1 requests past both checks when the stop was triggered
  sinceStop    \* (history) L1 requests answered 200 since then

persistent == <<proposals, worktree, index, head, audited>>
history == <<origin, orphans, byHand>>
stopHistory == <<admitted, sinceStop>>
serving == <<stopped, call, executed, stopHistory>>
vars == <<proposals, worktree, index, head, audited, stopped, loop, call, executed,
          origin, orphans, byHand, admitted, sinceStop>>

ProposalState == {"proposed", "approved", "rejected"}
Decision == {"approved", "rejected"}
Proposal == [target : Targets, status : ProposalState, record : Records \union {None}]
Approval == [target : Targets, decision : Decision]
ASSUME NoneIsNoRecord == None \notin Proposal \union Approval

\* The writer of a record that came in through /pmdf/approval, not through decide.
Direct == "direct"
ASSUME DirectAssumption == Direct \notin Proposals \union {None}

LoopStep == {"idle", "save", "add", "commit", "audit", "update"}
LoopBody == [at : LoopStep, proposal : Proposals \union {None},
             record : Records \union {None}, approval : Approval \union {None}]
Idle == [at |-> "idle", proposal |-> None, record |-> None, approval |-> None]

NoCall == [at |-> "idle", target |-> None]
Call == [at : {"gate", "stopCheck", "run"}, target : Targets] \union {NoCall}

Init ==
  /\ proposals = [p \in Proposals |-> None]
  /\ worktree = [r \in Records |-> None]
  /\ index = [r \in Records |-> None]
  /\ head = [r \in Records |-> None]
  /\ audited = {}
  /\ stopped = FALSE
  /\ loop = Idle
  /\ call = [q \in Requests |-> NoCall]
  /\ executed = {}
  /\ origin = [r \in Records |-> None]
  /\ orphans = {}
  /\ byHand = {}
  /\ admitted = 0
  /\ sinceStop = 0

-----------------------------------------------------------------------------
(* The state machine of a proposal and the test of the gate.               *)

\* Mutant: no table of transitions.
AnyTransition(status) == Decision

AllowedTransitions(status) == IF status = "proposed" THEN Decision ELSE {}

\* Mutant: any record of the target opens the gate.
HasAnyRecord(target) ==
  \E r \in Records : worktree[r] # None /\ worktree[r].target = target

HasApprovedRecord(target) ==
  \E r \in Records : worktree[r] = [target |-> target, decision |-> "approved"]

-----------------------------------------------------------------------------
(* Bodies on the event loop.                                               *)

(* POST /approvals: load, append and save of the proposals file; no other
   body runs between. The count published afterwards is not modelled here. *)
Propose(p, target) ==
  /\ loop = Idle
  /\ proposals[p] = None
  /\ proposals' = [proposals EXCEPT
       ![p] = [target |-> target, status |-> "proposed", record |-> None]]
  /\ UNCHANGED <<worktree, index, head, audited, loop, serving, history>>

(* POST /approvals/{id}/decide up to the call of store.create: the proposal
   is looked up, the transition is checked (409 otherwise) and the Approval
   is built under an id never used before. *)
Decide(p, decision, r) ==
  /\ loop = Idle
  /\ proposals[p] # None
  /\ decision \in AllowedTransitions(proposals[p].status)
  /\ origin[r] = None
  /\ loop' = [at |-> "save", proposal |-> p, record |-> r,
              approval |-> [target |-> proposals[p].target, decision |-> decision]]
  /\ UNCHANGED <<persistent, serving, history>>

(* POST /pmdf/approval and PUT /pmdf/approval/{id}: the CRUD API writes any
   kind, Approval included. The client chooses the id of a POST and may name
   a record that is already there: both verbs overwrite. *)
WriteApproval(r, target, decision) ==
  /\ loop = Idle
  /\ loop' = [at |-> "save", proposal |-> None, record |-> r,
              approval |-> [target |-> target, decision |-> decision]]
  /\ UNCHANGED <<persistent, serving, history>>

\* An approved record of this target is, or was, in the file of record r.
ApprovedIn(r) == {target \in Targets : worktree[r] = [target |-> target, decision |-> "approved"]}

(* PmdfStore._commit, first effect: save_entity writes the working tree. *)
SaveEntity ==
  /\ loop.at = "save"
  /\ worktree' = [worktree EXCEPT ![loop.record] = loop.approval]
  /\ loop' = [loop EXCEPT !.at = "add"]
  /\ origin' = [origin EXCEPT
       ![loop.record] = IF loop.proposal = None THEN Direct ELSE loop.proposal]
  /\ orphans' = orphans \ {loop.record}
  /\ byHand' = IF loop.proposal = None
                 THEN byHand \union ApprovedIn(loop.record) \union ApprovedIn(loop.record)'
                 ELSE byHand
  /\ UNCHANGED <<proposals, index, head, audited, serving>>

(* Second effect: index.add stages the file. *)
AddEntity ==
  /\ loop.at = "add"
  /\ index' = [index EXCEPT ![loop.record] = worktree[loop.record]]
  /\ loop' = [loop EXCEPT !.at = "commit"]
  /\ UNCHANGED <<proposals, worktree, head, audited, serving, history>>

(* Third effect: index.commit publishes the index as a whole, what a handler
   that failed before its commit has left there included. *)
CommitEntity ==
  /\ loop.at = "commit"
  /\ head' = index
  /\ loop' = [loop EXCEPT !.at = "audit"]
  /\ UNCHANGED <<proposals, worktree, index, audited, serving, history>>

(* append_record. A CRUD handler is done after it; decide goes on. *)
AppendAudit ==
  /\ loop.at = "audit"
  /\ audited' = audited \union {loop.record}
  /\ loop' = IF loop.proposal = None THEN Idle ELSE [loop EXCEPT !.at = "update"]
  /\ UNCHANGED <<proposals, worktree, index, head, serving, history>>

\* Mutant: the proposal is updated as soon as the file is written.
UpdateBeforeCommit ==
  /\ loop.at = "commit"
  /\ proposals' = [proposals EXCEPT
       ![loop.proposal] = [target |-> @.target, status |-> loop.approval.decision,
                           record |-> loop.record]]
  /\ loop' = Idle
  /\ UNCHANGED <<worktree, index, head, audited, serving, history>>

(* update_proposal: the decision and the id of its Approval reach the
   proposals file, and the handler answers. *)
UpdateProposal ==
  /\ loop.at = "update"
  /\ proposals' = [proposals EXCEPT
       ![loop.proposal] = [target |-> @.target, status |-> loop.approval.decision,
                           record |-> loop.record]]
  /\ loop' = Idle
  /\ UNCHANGED <<worktree, index, head, audited, serving, history>>

(* A record is orphaned when its handler ends after the first effect of the
   store and before its last one: nothing undoes what was written. *)
Orphaned == IF loop.at \in {"add", "commit", "audit", "update"} THEN {loop.record} ELSE {}

(* An exception ends the body (a lock time-out, a git or a disk error): the
   client gets a 500. *)
Fail ==
  /\ loop.at # "idle"
  /\ orphans' = orphans \union Orphaned
  /\ loop' = Idle
  /\ UNCHANGED <<persistent, serving, origin, byHand>>

-----------------------------------------------------------------------------
(* L1 requests. FastAPI resolves require_approval, then check_not_stopped, *)
(* then calls the endpoint; each may run on another thread of the pool.    *)

Step(q, from, to) ==
  /\ call[q].at = from
  /\ call' = [call EXCEPT ![q].at = to]

Answer(q, from) ==
  /\ call[q].at = from
  /\ call' = [call EXCEPT ![q] = NoCall]

Request(q, target) ==
  /\ call[q] = NoCall
  /\ call' = [call EXCEPT ![q] = [at |-> "gate", target |-> target]]
  /\ UNCHANGED <<persistent, stopped, loop, executed, history, stopHistory>>

(* require_approval: 403 without an approved record in the working tree. *)
RequireApproval(q) ==
  /\ \/ HasApprovedRecord(call[q].target) /\ Step(q, "gate", "stopCheck")
     \/ ~HasApprovedRecord(call[q].target) /\ Answer(q, "gate")
  /\ UNCHANGED <<persistent, stopped, loop, executed, history, stopHistory>>

\* Mutant: the endpoint does not declare check_not_stopped.
NoStopCheck(q) ==
  /\ Step(q, "stopCheck", "run")
  /\ UNCHANGED <<persistent, stopped, loop, executed, history, stopHistory>>

(* check_not_stopped: 409 while the stop is on. *)
CheckNotStopped(q) ==
  /\ \/ ~stopped /\ Step(q, "stopCheck", "run")
     \/ stopped /\ Answer(q, "stopCheck")
  /\ UNCHANGED <<persistent, stopped, loop, executed, history, stopHistory>>

(* The body of the endpoint: 200, or 404 when the store holds no entity of the
   endpoint's kind under the id. The gate before it looks at the id alone. *)
Execute(q) ==
  /\ Answer(q, "run")
  /\ \/ /\ executed' = executed \union {call[q].target}
        /\ sinceStop' = IF stopped THEN sinceStop + 1 ELSE 0
     \/ UNCHANGED <<executed, sinceStop>>
  /\ UNCHANGED <<persistent, stopped, loop, history, admitted>>

-----------------------------------------------------------------------------
(* The stop and its release: `def' handlers, on a thread of their own.      *)

\* The requests that have passed both checks and not yet reached the body.
Running == {q \in Requests : call[q].at = "run"}

TriggerStop ==
  /\ stopped' = TRUE
  /\ admitted' = IF stopped THEN admitted ELSE Cardinality(Running)
  /\ UNCHANGED sinceStop
  /\ UNCHANGED <<persistent, loop, call, executed, history>>

ReleaseStop ==
  /\ stopped' = FALSE
  /\ admitted' = 0
  /\ sinceStop' = 0
  /\ UNCHANGED <<persistent, loop, call, executed, history>>

(* The process dies and is started again: the files are all that is left. *)
Restart ==
  /\ loop' = Idle
  /\ call' = [q \in Requests |-> NoCall]
  /\ orphans' = orphans \union Orphaned
  /\ UNCHANGED <<persistent, stopped, executed, origin, byHand, stopHistory>>

-----------------------------------------------------------------------------
LoopNext ==
  \/ \E p \in Proposals, target \in Targets : Propose(p, target)
  \/ \E p \in Proposals, decision \in Decision, r \in Records : Decide(p, decision, r)
  \/ \E r \in Records, target \in Targets, decision \in Decision :
       WriteApproval(r, target, decision)
  \/ SaveEntity
  \/ AddEntity
  \/ CommitEntity
  \/ AppendAudit
  \/ UpdateProposal
  \/ Fail

CallNext(q) ==
  \/ \E target \in Targets : Request(q, target)
  \/ RequireApproval(q)
  \/ CheckNotStopped(q)
  \/ Execute(q)

Next ==
  \/ LoopNext
  \/ \E q \in Requests : CallNext(q)
  \/ TriggerStop
  \/ ReleaseStop
  \/ Restart

Spec == Init /\ [][Next]_vars
-----------------------------------------------------------------------------
(* Properties.                                                             *)

Decided(p) == proposals[p] # None /\ proposals[p].status \in Decision

(* The types of all variables. *)
TypeOK ==
  /\ proposals \in [Proposals -> Proposal \union {None}]
  /\ worktree \in [Records -> Approval \union {None}]
  /\ index \in [Records -> Approval \union {None}]
  /\ head \in [Records -> Approval \union {None}]
  /\ audited \subseteq Records
  /\ stopped \in BOOLEAN
  /\ loop \in LoopBody
  /\ call \in [Requests -> Call]
  /\ executed \subseteq Targets
  /\ origin \in [Records -> Proposals \union {None, Direct}]
  /\ orphans \subseteq Records
  /\ byHand \subseteq Targets
  /\ admitted \in Nat
  /\ sinceStop \in Nat

(* A decided proposal points to an Approval that has reached HEAD and the
   audit log, and that says what the proposal says for as long as nobody
   rewrites it through the CRUD API: update_proposal comes last in decide, so
   the proposals file never runs ahead of the history it refers to. *)
DecidedIsRecorded ==
  \A p \in Proposals : Decided(p) =>
    LET r == proposals[p].record
    IN  /\ r \in audited
        /\ head[r] # None
        /\ origin[r] \in {p, Direct}
        /\ origin[r] = p =>
             head[r] = [target |-> proposals[p].target, decision |-> proposals[p].status]

(* Of the Approvals that decide has written for one proposal, all but one are
   left-overs of a handler that died half-way: bodies that interleave, or a
   transition checked against an old proposal, would leave two. *)
OneRecordPerProposal ==
  \A r1, r2 \in Records :
    /\ r1 # r2
    /\ origin[r1] = origin[r2]
    /\ origin[r1] \in Proposals
    => r1 \in orphans \/ r2 \in orphans

(* Whatever an L1 endpoint executes was approved: by a proposal that is now
   approved, by the decide the loop is in, by a decide that died after it had
   written the record, or else the CRUD API had a hand in an approved record
   of that very target. *)
ExecutionIsBacked ==
  \A target \in executed :
    \/ \E p \in Proposals :
         proposals[p] # None /\ proposals[p].target = target /\ proposals[p].status = "approved"
    \/ \E r \in orphans \union {loop.record} :
         /\ r # None
         /\ worktree[r] = [target |-> target, decision |-> "approved"]
    \/ target \in byHand

(* From the moment the stop is triggered until it is released, no request gets
   past check_not_stopped: those executed since, and those that are still on
   their way to the body, were all past it when the flag was written. *)
StopDrains ==
  stopped => sinceStop + Cardinality(Running) <= admitted

(* approved and rejected are final (approval/state_machine.py): no later
   request, failure or restart touches a decided proposal. *)
DecisionIsFinal ==
  [][\A p \in Proposals : Decided(p) => proposals'[p] = proposals[p]]_vars

(* What docs/IMPLEMENTATION_STATE.md says of decide: it persists the decision
   as one commit of an Approval, and a second decide of the proposal is refused
   with 409. So HEAD never has two Approvals of one proposal that were both
   committed and audited.  It does not hold: a decide that fails between the
   audit record and the proposals file can be made again, the other way. *)
DecidedOnce ==
  \A r1, r2 \in audited :
    r1 # r2 /\ head[r1] # None /\ head[r2] # None /\ origin[r1] \in Proposals
    => origin[r1] # origin[r2]
=============================================================================
