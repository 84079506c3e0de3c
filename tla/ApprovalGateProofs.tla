------------------------- MODULE ApprovalGateProofs -------------------------
(***************************************************************************)
(* Proofs about ApprovalGate, for any sets of proposals, records, targets  *)
(* and requests. The safety invariants rest on IInv, which says what the   *)
(* handler body on the loop has done so far (LoopInv), that every record   *)
(* decide wrote is accounted for (RecordsInv, FilesInv) and that a request *)
(* past the gate is backed by an approval (CallsInv).                      *)
(***************************************************************************)
EXTENDS ApprovalGate, FiniteSetTheorems, TLAPS

(* The body on the loop has had the effects its position says. A decide works
   on a proposal that is still proposed, under an id nobody used before. *)
LoopInv ==
  /\ loop.at = "idle" => loop = Idle
  /\ loop.at # "idle" =>
       /\ loop.record \in Records
       /\ loop.approval \in Approval
       /\ loop.proposal # None =>
            /\ proposals[loop.proposal] # None
            /\ proposals[loop.proposal].status = "proposed"
            /\ proposals[loop.proposal].target = loop.approval.target
  /\ loop.at = "save" /\ loop.proposal # None => origin[loop.record] = None
  /\ loop.at \in {"add", "commit", "audit", "update"} =>
       /\ worktree[loop.record] = loop.approval
       /\ origin[loop.record] = IF loop.proposal = None THEN Direct ELSE loop.proposal
  /\ loop.at \in {"commit", "audit", "update"} => index[loop.record] = loop.approval
  /\ loop.at \in {"audit", "update"} => head[loop.record] = loop.approval
  /\ loop.at = "update" => loop.record \in audited /\ loop.proposal # None

(* A record that decide wrote for p, and that its handler did not abandon, is
   the record of p, or is being written. *)
RecordsInv ==
  \A r \in Records, p \in Proposals :
    origin[r] = p /\ r \notin orphans =>
      \/ Decided(p) /\ proposals[p].record = r
      \/ /\ loop.proposal = p
         /\ loop.record = r
         /\ loop.at \in {"add", "commit", "audit", "update"}

(* Only written records are in the working tree, the record of a decided
   proposal says what the proposal says until the CRUD API rewrites it, there
   and in the index, and that API is accountable for the approved records it
   wrote. *)
FilesInv ==
  /\ \A r \in Records : worktree[r] # None => origin[r] # None
  /\ \A p \in Proposals : Decided(p) =>
       LET r == proposals[p].record
       IN  /\ r \in Records
           /\ index[r] # None
           /\ origin[r] = p =>
                /\ worktree[r] = [target |-> proposals[p].target, decision |-> proposals[p].status]
                /\ index[r] = worktree[r]
  /\ \A r \in Records, target \in Targets :
       worktree[r] = [target |-> target, decision |-> "approved"] /\ origin[r] = Direct
       => target \in byHand

(* The reasons for which a target may be executed. *)
Backed(target) ==
  \/ \E p \in Proposals :
       proposals[p] # None /\ proposals[p].target = target /\ proposals[p].status = "approved"
  \/ \E r \in orphans \union {loop.record} :
       /\ r # None
       /\ worktree[r] = [target |-> target, decision |-> "approved"]
  \/ target \in byHand

(* A request past the gate, and every executed target, is backed. *)
CallsInv ==
  /\ \A q \in Requests : call[q].at \in {"stopCheck", "run"} => Backed(call[q].target)
  /\ \A target \in executed : Backed(target)

IInv == TypeOK /\ LoopInv /\ RecordsInv /\ FilesInv /\ DecidedIsRecorded /\ CallsInv

-----------------------------------------------------------------------------
(* How many requests are past both checks is a number. *)
LEMMA RunningFinite == IsFiniteSet(Running) /\ Cardinality(Running) \in Nat
BY RequestsAssumption, FS_Subset, FS_CardinalityType DEF Running

(* Every variable keeps its type. *)
LEMMA TypeInit == Init => TypeOK
<1> SUFFICES ASSUME Init PROVE TypeOK
  OBVIOUS
<1>1. loop \in LoopBody
  BY DEF Init, Idle, LoopBody, LoopStep
<1>2. call \in [Requests -> Call]
  BY DEF Init, NoCall, Call
<1>3. QED
  BY <1>1, <1>2 DEF Init, TypeOK

LEMMA TypeStep == TypeOK /\ LoopInv /\ [Next]_vars => TypeOK'
<1> SUFFICES ASSUME TypeOK, LoopInv, [Next]_vars PROVE TypeOK'
  OBVIOUS
<1> USE DEF TypeOK, persistent, serving, stopHistory, history
<1>1. ASSUME NEW p \in Proposals, NEW target \in Targets, Propose(p, target) PROVE TypeOK'
  BY <1>1 DEF Propose, Proposal, ProposalState
<1>2. ASSUME NEW p \in Proposals, NEW decision \in Decision, NEW r \in Records,
             Decide(p, decision, r)
      PROVE  TypeOK'
  BY <1>2 DEF Decide, Proposal, Approval, LoopBody, LoopStep
<1>3. ASSUME NEW r \in Records, NEW target \in Targets, NEW decision \in Decision,
             WriteApproval(r, target, decision)
      PROVE  TypeOK'
  BY <1>3 DEF WriteApproval, Approval, LoopBody, LoopStep
<1>4. CASE SaveEntity
  BY <1>4 DEF SaveEntity, ApprovedIn, LoopInv, LoopBody, LoopStep
<1>5. CASE AddEntity \/ CommitEntity
  BY <1>5 DEF AddEntity, CommitEntity, LoopInv, LoopBody, LoopStep
<1>6. CASE AppendAudit
  BY <1>6 DEF AppendAudit, LoopInv, LoopBody, LoopStep, Idle
<1>7. CASE UpdateProposal
  BY <1>7 DEF UpdateProposal, LoopInv, LoopBody, LoopStep, Idle, Proposal, ProposalState,
              Approval, Decision
<1>8. CASE Fail
  BY <1>8 DEF Fail, Orphaned, LoopInv, LoopBody, LoopStep, Idle
<1>9. ASSUME NEW q \in Requests, NEW target \in Targets, Request(q, target) PROVE TypeOK'
  BY <1>9 DEF Request, Call
<1>10. ASSUME NEW q \in Requests, RequireApproval(q) PROVE TypeOK'
  BY <1>10 DEF RequireApproval, Step, Answer, NoCall, Call
<1>11. ASSUME NEW q \in Requests, CheckNotStopped(q) PROVE TypeOK'
  BY <1>11 DEF CheckNotStopped, Step, Answer, NoCall, Call
<1>12. ASSUME NEW q \in Requests, Execute(q) PROVE TypeOK'
  BY <1>12 DEF Execute, Answer, NoCall, Call
<1>13. CASE TriggerStop
  BY <1>13, RunningFinite DEF TriggerStop
<1>14. CASE ReleaseStop
  BY <1>14 DEF ReleaseStop
<1>15. CASE Restart
  BY <1>15 DEF Restart, Orphaned, LoopInv, LoopBody, LoopStep, Idle, NoCall, Call
<1>16. CASE UNCHANGED vars
  BY <1>16 DEF vars
<1>17. QED
  BY <1>1, <1>2, <1>3, <1>4, <1>5, <1>6, <1>7, <1>8, <1>9, <1>10, <1>11, <1>12, <1>13,
     <1>14, <1>15, <1>16 DEF Next, LoopNext, CallNext

-----------------------------------------------------------------------------
(* The requests and the stop touch no file of the workflow: what is left of a
   step is a step of the body on the loop, a restart, or nothing. *)
Quiet == UNCHANGED <<persistent, loop, history>>

LEMMA StepCases ==
  ASSUME [Next]_vars
  PROVE  \/ \E p \in Proposals, target \in Targets : Propose(p, target)
         \/ \E p \in Proposals, decision \in Decision, r \in Records : Decide(p, decision, r)
         \/ \E r \in Records, target \in Targets, decision \in Decision :
              WriteApproval(r, target, decision)
         \/ SaveEntity
         \/ AddEntity
         \/ CommitEntity
         \/ AppendAudit
         \/ UpdateProposal
         \/ Fail
         \/ Restart
         \/ Quiet
BY DEF Next, LoopNext, CallNext, Quiet, Request, RequireApproval, CheckNotStopped, Execute,
       TriggerStop, ReleaseStop, vars, persistent, serving, stopHistory, history

LEMMA LoopStepInv == TypeOK /\ LoopInv /\ RecordsInv /\ [Next]_vars => LoopInv'
<1> SUFFICES ASSUME TypeOK, LoopInv, RecordsInv, [Next]_vars PROVE LoopInv'
  OBVIOUS
<1> USE NoneAssumption DEF LoopInv, persistent, serving, stopHistory, history
<1>1. ASSUME NEW p \in Proposals, NEW target \in Targets, Propose(p, target) PROVE LoopInv'
  BY <1>1 DEF Propose, Idle
<1>2. ASSUME NEW p \in Proposals, NEW decision \in Decision, NEW r \in Records,
             Decide(p, decision, r)
      PROVE  LoopInv'
  BY <1>2 DEF Decide, AllowedTransitions, TypeOK, Proposal, Approval
<1>3. ASSUME NEW r \in Records, NEW target \in Targets, NEW decision \in Decision,
             WriteApproval(r, target, decision)
      PROVE  LoopInv'
  BY <1>3 DEF WriteApproval, Approval
<1>4. CASE SaveEntity
  BY <1>4 DEF SaveEntity, TypeOK, LoopBody, LoopStep, Idle
<1>5. CASE AddEntity \/ CommitEntity
  BY <1>5 DEF AddEntity, CommitEntity, TypeOK, LoopBody, LoopStep, Idle
<1>6. CASE AppendAudit
  BY <1>6 DEF AppendAudit, TypeOK, LoopBody, LoopStep, Idle
<1>7. CASE UpdateProposal
  BY <1>7 DEF UpdateProposal, Idle
<1>8. CASE Fail
  BY <1>8 DEF Fail, Idle
<1>9. CASE Restart
  BY <1>9 DEF Restart, Idle
<1>10. CASE Quiet
  BY <1>10 DEF Quiet
<1>11. QED
  BY <1>1, <1>2, <1>3, <1>4, <1>5, <1>6, <1>7, <1>8, <1>9, <1>10, StepCases

LEMMA RecordsStepInv == TypeOK /\ LoopInv /\ RecordsInv /\ [Next]_vars => RecordsInv'
<1> SUFFICES ASSUME TypeOK, LoopInv, RecordsInv, [Next]_vars,
                    NEW r \in Records, NEW p \in Proposals,
                    origin'[r] = p, r \notin orphans'
             PROVE  \/ Decided(p)' /\ proposals'[p].record = r
                    \/ /\ loop'.proposal = p
                       /\ loop'.record = r
                       /\ loop'.at \in {"add", "commit", "audit", "update"}
  BY DEF RecordsInv
<1> USE NoneAssumption, DirectAssumption
    DEF LoopInv, RecordsInv, Decided, persistent, serving, stopHistory, history
<1>1. ASSUME NEW q \in Proposals, NEW target \in Targets, Propose(q, target)
      PROVE  Decided(p)' /\ proposals'[p].record = r
  BY <1>1 DEF Propose, Idle, TypeOK
<1>2. ASSUME NEW q \in Proposals, NEW decision \in Decision, NEW s \in Records,
             Decide(q, decision, s)
      PROVE  Decided(p)' /\ proposals'[p].record = r
  BY <1>2 DEF Decide, Idle
<1>3. ASSUME NEW s \in Records, NEW target \in Targets, NEW decision \in Decision,
             WriteApproval(s, target, decision)
      PROVE  Decided(p)' /\ proposals'[p].record = r
  BY <1>3 DEF WriteApproval, Idle
<1>4. CASE SaveEntity
  BY <1>4 DEF SaveEntity, TypeOK, LoopBody
<1>5. CASE AddEntity \/ CommitEntity
  BY <1>5 DEF AddEntity, CommitEntity, TypeOK, LoopBody
<1>6. CASE AppendAudit
  BY <1>6 DEF AppendAudit, TypeOK, LoopBody, Idle
<1>7. CASE UpdateProposal
  <2> DEFINE q == loop.proposal
  <2>1. /\ q \in Proposals
        /\ proposals[q].status = "proposed"
        /\ loop.approval.decision \in Decision
        /\ origin[loop.record] = q
    BY <1>7 DEF UpdateProposal, TypeOK, LoopBody, Approval
  <2>2. proposals' = [proposals EXCEPT
          ![q] = [target |-> proposals[q].target, status |-> loop.approval.decision,
                  record |-> loop.record]]
    BY <1>7 DEF UpdateProposal
  <2>3. CASE p = q
    <3>1. ~Decided(p)
      BY <2>1, <2>3 DEF Decision
    <3>2. origin[r] = p /\ r \notin orphans
      BY <1>7 DEF UpdateProposal
    <3>3. loop.record = r
      BY <3>1, <3>2
    <3>4. proposals'[p] \in Proposal /\ proposals'[p].status = loop.approval.decision
      BY <2>1, <2>2, <2>3, <1>7 DEF UpdateProposal, TypeOK, Proposal, ProposalState, LoopBody,
         Decision
    <3>5. QED
      BY <2>1, <2>2, <2>3, <3>3, <3>4, NoneIsNoRecord DEF TypeOK
  <2>4. CASE p # q
    <3>1. Decided(p) /\ proposals[p].record = r
      BY <2>4, <1>7 DEF UpdateProposal
    <3>2. QED
      BY <2>1, <2>2, <2>4, <3>1 DEF TypeOK
  <2>5. QED
    BY <2>3, <2>4
<1>8. CASE Fail
  BY <1>8 DEF Fail, Orphaned
<1>9. CASE Restart
  BY <1>9 DEF Restart, Orphaned
<1>10. CASE Quiet
  BY <1>10 DEF Quiet
<1>11. QED
  BY <1>1, <1>2, <1>3, <1>4, <1>5, <1>6, <1>7, <1>8, <1>9, <1>10, StepCases

-----------------------------------------------------------------------------
(* What a step may do to a decided proposal: nothing. *)
LEMMA DecidedStays ==
  ASSUME TypeOK, LoopInv, [Next]_vars, NEW p \in Proposals, Decided(p)
  PROVE  proposals'[p] = proposals[p]
<1> USE DEF Decided, persistent, serving, stopHistory, history
<1>1. ASSUME NEW q \in Proposals, NEW target \in Targets, Propose(q, target)
      PROVE  proposals'[p] = proposals[p]
  BY <1>1 DEF Propose, TypeOK
<1>2. CASE UpdateProposal
  <2>1. p # loop.proposal
    BY <1>2 DEF UpdateProposal, LoopInv, Decision
  <2>2. QED
    BY <1>2, <2>1 DEF UpdateProposal, TypeOK
<1>3. CASE UNCHANGED proposals
  BY <1>3
<1>4. QED
  BY <1>1, <1>2, <1>3, StepCases
  DEF Decide, WriteApproval, SaveEntity, AddEntity, CommitEntity, AppendAudit, Fail, Restart, Quiet

(* Only update_proposal decides a proposal. *)
LEMMA NewlyDecided ==
  ASSUME TypeOK, LoopInv, [Next]_vars, NEW p \in Proposals, ~Decided(p), Decided(p)'
  PROVE  /\ UpdateProposal
         /\ p = loop.proposal
         /\ proposals'[p] = [target |-> loop.approval.target, status |-> loop.approval.decision,
                             record |-> loop.record]
<1> USE DEF Decided, persistent, serving, stopHistory, history
<1>1. ASSUME NEW q \in Proposals, NEW target \in Targets, Propose(q, target) PROVE FALSE
  BY <1>1 DEF Propose, TypeOK, Decision
<1>2. ASSUME UNCHANGED proposals PROVE FALSE
  BY <1>2
<1>3. UpdateProposal
  BY <1>1, <1>2, StepCases
  DEF Decide, WriteApproval, SaveEntity, AddEntity, CommitEntity, AppendAudit, Fail, Restart, Quiet
<1>4. p = loop.proposal
  BY <1>3 DEF UpdateProposal, TypeOK
<1>5. QED
  BY <1>3, <1>4 DEF UpdateProposal, TypeOK, LoopInv

LEMMA FilesStepInv ==
  TypeOK /\ LoopInv /\ FilesInv /\ DecidedIsRecorded /\ [Next]_vars => FilesInv'
<1> SUFFICES ASSUME TypeOK, LoopInv, FilesInv, DecidedIsRecorded, [Next]_vars PROVE FilesInv'
  OBVIOUS
<1> USE NoneAssumption, DirectAssumption DEF persistent, serving, stopHistory, history
<1>1. ASSUME NEW r \in Records, worktree'[r] # None PROVE origin'[r] # None
  <2>1. CASE SaveEntity
    BY <1>1, <2>1 DEF SaveEntity, TypeOK, FilesInv
  <2>2. CASE UNCHANGED <<worktree, origin>>
    BY <1>1, <2>2 DEF FilesInv
  <2>3. QED
    BY <2>1, <2>2, StepCases
    DEF Propose, Decide, WriteApproval, AddEntity, CommitEntity, AppendAudit, UpdateProposal, Fail,
        Restart, Quiet
<1>2. ASSUME NEW p \in Proposals, Decided(p)', ~Decided(p)
      PROVE  LET r == proposals'[p].record
             IN  /\ r \in Records
                 /\ worktree'[r] = [target |-> proposals'[p].target,
                                    decision |-> proposals'[p].status]
                 /\ index'[r] = worktree'[r] /\ index'[r] # None
  BY <1>2, NewlyDecided, NoneIsNoRecord DEF UpdateProposal, LoopInv, Approval
<1>3. ASSUME NEW p \in Proposals, Decided(p), proposals'[p] = proposals[p]
      PROVE  LET r == proposals[p].record
             IN  /\ index'[r] # None
                 /\ origin'[r] = p =>
                      /\ worktree'[r] = [target |-> proposals[p].target,
                                         decision |-> proposals[p].status]
                      /\ index'[r] = worktree'[r]
  <2> DEFINE r == proposals[p].record
  <2>1. r \in Records /\ origin[r] \in {p, Direct} /\ index[r] # None
    BY <1>3 DEF FilesInv, DecidedIsRecorded
  <2>2. CASE SaveEntity
    BY <1>3, <2>1, <2>2 DEF SaveEntity, TypeOK, LoopInv, FilesInv
  <2>3. CASE AddEntity
    <3>1. worktree[loop.record] # None /\ loop.record \in Records
      BY <2>3, NoneIsNoRecord DEF AddEntity, LoopInv
    <3>2. index' = [index EXCEPT ![loop.record] = worktree[loop.record]]
      BY <2>3 DEF AddEntity
    <3>3. UNCHANGED <<worktree, origin>>
      BY <2>3 DEF AddEntity
    <3>4. index'[r] \in {index[r], worktree[r]} /\ index'[r] # None
      BY <2>1, <3>1, <3>2 DEF TypeOK
    <3>5. QED
      BY <1>3, <3>3, <3>4 DEF FilesInv
  <2>4. CASE UNCHANGED <<worktree, index, origin>>
    BY <1>3, <2>1, <2>4 DEF FilesInv
  <2>5. QED
    BY <2>2, <2>3, <2>4, StepCases
    DEF Propose, Decide, WriteApproval, CommitEntity, AppendAudit, UpdateProposal, Fail,
        Restart, Quiet
<1>4. ASSUME NEW p \in Proposals, Decided(p)
      PROVE  proposals'[p] = proposals[p] /\ proposals[p].record \in Records
  BY <1>4, DecidedStays DEF FilesInv
<1>5. ASSUME NEW r \in Records, NEW target \in Targets, origin'[r] = Direct,
             worktree'[r] = [target |-> target, decision |-> "approved"]
      PROVE  target \in byHand'
  <2>1. CASE SaveEntity
    <3>1. CASE r = loop.record
      BY <1>5, <2>1, <3>1 DEF SaveEntity, ApprovedIn, TypeOK, LoopBody
    <3>2. CASE r # loop.record
      BY <1>5, <2>1, <3>2 DEF SaveEntity, TypeOK, FilesInv
    <3>3. QED
      BY <3>1, <3>2
  <2>2. CASE UNCHANGED <<worktree, origin, byHand>>
    BY <1>5, <2>2 DEF FilesInv
  <2>3. QED
    BY <2>1, <2>2, StepCases
    DEF Propose, Decide, WriteApproval, AddEntity, CommitEntity, AppendAudit, UpdateProposal, Fail,
        Restart, Quiet
<1>6. ASSUME NEW p \in Proposals, Decided(p)'
      PROVE  LET r == proposals'[p].record
             IN  /\ r \in Records
                 /\ index'[r] # None
                 /\ origin'[r] = p =>
                      /\ worktree'[r] = [target |-> proposals'[p].target,
                                         decision |-> proposals'[p].status]
                      /\ index'[r] = worktree'[r]
  BY <1>2, <1>3, <1>4, <1>6
<1>7. QED
  BY <1>1, <1>5, <1>6 DEF FilesInv

LEMMA RecordedStepInv ==
  TypeOK /\ LoopInv /\ FilesInv /\ DecidedIsRecorded /\ [Next]_vars => DecidedIsRecorded'
<1> SUFFICES ASSUME TypeOK, LoopInv, FilesInv, DecidedIsRecorded, [Next]_vars,
                    NEW p \in Proposals, Decided(p)'
             PROVE  LET r == proposals'[p].record
                    IN  /\ r \in audited'
                        /\ head'[r] # None
                        /\ origin'[r] \in {p, Direct}
                        /\ origin'[r] = p =>
                             head'[r] = [target |-> proposals'[p].target,
                                         decision |-> proposals'[p].status]
  BY DEF DecidedIsRecorded
<1> USE NoneAssumption, DirectAssumption, NoneIsNoRecord
    DEF persistent, serving, stopHistory, history
<1> DEFINE r == proposals'[p].record
<1>1. CASE ~Decided(p)
  BY <1>1, NewlyDecided DEF UpdateProposal, LoopInv, TypeOK, Approval
<1>2. CASE Decided(p)
  <2>1. /\ proposals'[p] = proposals[p]
        /\ r \in Records
        /\ r \in audited
        /\ head[r] # None
        /\ origin[r] \in {p, Direct}
        /\ origin[r] = p =>
             head[r] = [target |-> proposals[p].target, decision |-> proposals[p].status]
    BY <1>2, DecidedStays DEF FilesInv, DecidedIsRecorded
  <2>2. CASE SaveEntity
    BY <2>1, <2>2 DEF SaveEntity, TypeOK, LoopInv
  <2>3. CASE CommitEntity
    <3>1. /\ index[r] # None
          /\ origin[r] = p =>
               index[r] = [target |-> proposals[p].target, decision |-> proposals[p].status]
      BY <1>2, <2>1 DEF FilesInv
    <3>2. QED
      BY <2>1, <2>3, <3>1 DEF CommitEntity
  <2>4. CASE AppendAudit
    BY <2>1, <2>4 DEF AppendAudit
  <2>5. CASE UNCHANGED <<head, audited, origin>>
    BY <2>1, <2>5
  <2>6. QED
    BY <2>2, <2>3, <2>4, <2>5, StepCases
    DEF Propose, Decide, WriteApproval, AddEntity, UpdateProposal, Fail, Restart, Quiet
<1>3. QED
  BY <1>1, <1>2

-----------------------------------------------------------------------------
(* An open gate is backed, and what is backed stays so. *)
LEMMA OpenGateIsBacked ==
  ASSUME TypeOK, RecordsInv, FilesInv, NEW target \in Targets, HasApprovedRecord(target)
  PROVE  Backed(target)
<1>1. PICK r \in Records : worktree[r] = [target |-> target, decision |-> "approved"]
  BY DEF HasApprovedRecord
<1>2. worktree[r] \in Approval
  BY <1>1 DEF Approval, Decision
<1>3. origin[r] # None
  BY <1>2, NoneIsNoRecord DEF FilesInv
<1>4. CASE origin[r] = Direct
  BY <1>1, <1>4 DEF FilesInv, Backed
<1>5. CASE r \in orphans \union {loop.record}
  BY <1>1, <1>5, NoneAssumption DEF Backed
<1>6. CASE origin[r] \in Proposals /\ r \notin orphans \union {loop.record}
  <2> DEFINE p == origin[r]
  <2>1. Decided(p) /\ proposals[p].record = r
    BY <1>6 DEF RecordsInv
  <2>2. worktree[r] = [target |-> proposals[p].target, decision |-> proposals[p].status]
    BY <1>6, <2>1 DEF FilesInv
  <2>3. proposals[p].target = target /\ proposals[p].status = "approved"
    BY <1>1, <2>2
  <2>4. QED
    BY <1>6, <2>1, <2>3 DEF Backed, Decided
<1>7. QED
  BY <1>3, <1>4, <1>5, <1>6 DEF TypeOK

LEMMA BackedStays ==
  ASSUME TypeOK, LoopInv, RecordsInv, FilesInv, [Next]_vars, NEW target \in Targets,
         Backed(target)
  PROVE  Backed(target)'
<1> USE NoneAssumption, DirectAssumption DEF persistent, serving, stopHistory, history
<1>1. ASSUME NEW p \in Proposals,
             proposals[p] # None, proposals[p].target = target, proposals[p].status = "approved"
      PROVE  Backed(target)'
  <2>1. proposals'[p] = proposals[p]
    BY <1>1, DecidedStays DEF Decided, Decision
  <2>2. QED
    BY <1>1, <2>1 DEF Backed
<1>2. ASSUME target \in byHand PROVE Backed(target)'
  <2>1. byHand \subseteq byHand'
    BY StepCases
    DEF Propose, Decide, WriteApproval, SaveEntity, AddEntity, CommitEntity, AppendAudit,
        UpdateProposal, Fail, Restart, Quiet
  <2>2. QED
    BY <1>2, <2>1 DEF Backed
<1>3. ASSUME NEW r \in orphans \union {loop.record}, r # None,
             worktree[r] = [target |-> target, decision |-> "approved"],
             target \notin byHand,
             ~\E p \in Proposals :
                 /\ proposals[p] # None
                 /\ proposals[p].target = target
                 /\ proposals[p].status = "approved"
      PROVE  Backed(target)'
  <2>0. /\ r \in Records
        /\ origin[r] \in Proposals
    <3>1. r \in Records /\ worktree[r] # None
      BY <1>3, NoneIsNoRecord DEF TypeOK, LoopBody, Approval, Decision
    <3>2. QED
      BY <1>3, <3>1 DEF FilesInv, TypeOK
  <2>1. CASE SaveEntity
    <3>1. CASE r = loop.record
      <4>1. loop.proposal = None
        BY <2>0, <2>1, <3>1 DEF SaveEntity, LoopInv
      <4>2. target \in byHand'
        BY <1>3, <2>1, <3>1, <4>1 DEF SaveEntity, ApprovedIn
      <4>3. QED
        BY <4>2 DEF Backed
    <3>2. CASE r # loop.record
      <4>1. worktree'[r] = worktree[r] /\ r \in orphans'
        BY <1>3, <2>0, <2>1, <3>2 DEF SaveEntity, TypeOK
      <4>2. QED
        BY <1>3, <4>1 DEF Backed
    <3>3. QED
      BY <3>1, <3>2
  <2>2. CASE UpdateProposal
    <3>1. CASE r \in orphans
      BY <1>3, <2>2, <3>1 DEF UpdateProposal, Backed
    <3>2. CASE r = loop.record
      <4> DEFINE q == loop.proposal
      <4>1. /\ q \in Proposals
            /\ proposals'[q] = [target |-> target, status |-> "approved", record |-> r]
        BY <1>3, <2>0, <2>2, <3>2 DEF UpdateProposal, TypeOK, LoopBody, LoopInv
      <4>2. proposals'[q] \in Proposal
        BY <2>0, <4>1 DEF Proposal, ProposalState
      <4>3. QED
        BY <4>1, <4>2, NoneIsNoRecord DEF Backed
    <3>3. QED
      BY <1>3, <3>1, <3>2
  <2>3. CASE /\ UNCHANGED <<worktree, origin>>
             /\ r \in orphans' \union {loop'.record}
    BY <1>3, <2>3 DEF Backed
  <2>4. r \notin orphans => loop.at # "idle" /\ loop.record = r
    BY <1>3, <2>0 DEF LoopInv, Idle
  <2>5. r \notin orphans => loop.at # "save"
    <3> SUFFICES ASSUME r \notin orphans, loop.at = "save" PROVE FALSE
      OBVIOUS
    <3>1. Decided(origin[r]) /\ proposals[origin[r]].record = r
      BY <2>0 DEF RecordsInv
    <3>2. worktree[r] = [target |-> proposals[origin[r]].target,
                         decision |-> proposals[origin[r]].status]
      BY <2>0, <3>1 DEF FilesInv
    <3>3. proposals[origin[r]].target = target /\ proposals[origin[r]].status = "approved"
      BY <1>3, <3>2
    <3>4. QED
      BY <1>3, <2>0, <3>1, <3>3 DEF Decided
  <2>6. r \notin orphans => loop.proposal \in Proposals
    BY <2>0, <2>4, <2>5 DEF TypeOK, LoopBody, LoopStep, LoopInv
  <2>7. CASE AddEntity \/ CommitEntity \/ AppendAudit
    BY <1>3, <2>3, <2>4, <2>6, <2>7 DEF AddEntity, CommitEntity, AppendAudit, TypeOK, LoopBody
  <2>8. CASE Fail \/ Restart
    BY <1>3, <2>3, <2>4, <2>5, <2>8 DEF Fail, Restart, Orphaned, TypeOK, LoopBody, LoopStep
  <2>9. CASE UNCHANGED <<worktree, origin, orphans>> /\ (loop = Idle \/ UNCHANGED loop)
    BY <1>3, <2>3, <2>4, <2>9 DEF Idle
  <2>10. QED
    BY <2>1, <2>2, <2>7, <2>8, <2>9, StepCases
    DEF Propose, Decide, WriteApproval, Quiet
<1>4. QED
  BY <1>1, <1>2, <1>3 DEF Backed, TypeOK

LEMMA CallsStepInv ==
  TypeOK /\ LoopInv /\ RecordsInv /\ FilesInv /\ CallsInv /\ [Next]_vars => CallsInv'
<1> SUFFICES ASSUME TypeOK, LoopInv, RecordsInv, FilesInv, CallsInv, [Next]_vars PROVE CallsInv'
  OBVIOUS
<1>1. ASSUME NEW q \in Requests, call'[q].at \in {"stopCheck", "run"}
      PROVE  call'[q].target \in Targets /\ Backed(call'[q].target)
  <2>1. CASE call'[q] = call[q]
    BY <1>1, <2>1 DEF CallsInv, TypeOK, Call, NoCall
  <2>2. CASE RequireApproval(q)
    <3>1. /\ call[q].target \in Targets
          /\ call'[q].target = call[q].target
          /\ HasApprovedRecord(call[q].target)
      BY <1>1, <2>2 DEF RequireApproval, Step, Answer, NoCall, TypeOK, Call
    <3>2. QED
      BY <3>1, OpenGateIsBacked
  <2>3. CASE CheckNotStopped(q)
    BY <1>1, <2>3 DEF CheckNotStopped, Step, Answer, NoCall, TypeOK, Call, CallsInv
  <2>4. QED
    BY <1>1, <2>1, <2>2, <2>3
    DEF Next, LoopNext, CallNext, Propose, Decide, WriteApproval, SaveEntity, AddEntity,
        CommitEntity,
        AppendAudit, UpdateProposal, Fail, Request, RequireApproval, CheckNotStopped, Execute,
        TriggerStop, ReleaseStop, Restart, Step, Answer, NoCall, vars, serving, TypeOK
<1>2. ASSUME NEW target \in executed' PROVE target \in Targets /\ Backed(target)
  <2>1. CASE target \in executed
    BY <2>1 DEF CallsInv, TypeOK
  <2>2. CASE \E q \in Requests : Execute(q) /\ target = call[q].target
    BY <2>2 DEF Execute, Answer, CallsInv, TypeOK, Call, NoCall
  <2>3. QED
    BY <2>1, <2>2
    DEF Next, LoopNext, CallNext, Propose, Decide, WriteApproval, SaveEntity, AddEntity,
        CommitEntity,
        AppendAudit, UpdateProposal, Fail, Request, RequireApproval, CheckNotStopped, Execute,
        TriggerStop, ReleaseStop, Restart, vars, serving
<1>3. QED
  BY <1>1, <1>2, BackedStays DEF CallsInv

-----------------------------------------------------------------------------
(* During a stop nobody joins the requests that have passed both checks. *)
LEMMA RunningShrinks ==
  ASSUME TypeOK, stopped, stopped', [Next]_vars
  PROVE  \/ Running' \subseteq Running /\ sinceStop' = sinceStop
         \/ \E q \in Running : Running' = Running \ {q} /\ sinceStop' \in {sinceStop, sinceStop + 1}
<1>1. ASSUME NEW q \in Requests, Execute(q)
      PROVE  \E u \in Running :
               Running' = Running \ {u} /\ sinceStop' \in {sinceStop, sinceStop + 1}
  <2>1. q \in Running /\ sinceStop' \in {sinceStop, sinceStop + 1}
    BY <1>1 DEF Execute, Answer, Running
  <2>2. Running' = Running \ {q}
    BY <1>1 DEF Execute, Answer, Running, NoCall, TypeOK
  <2>3. QED
    BY <2>1, <2>2
<1>2. ASSUME NEW q \in Requests,
             RequireApproval(q) \/ CheckNotStopped(q) \/ \E target \in Targets : Request(q, target)
      PROVE  Running' \subseteq Running /\ sinceStop' = sinceStop
  <2>1. sinceStop' = sinceStop
    BY <1>2 DEF RequireApproval, CheckNotStopped, Request, stopHistory
  <2>2. call'[q].at # "run" /\ \A u \in Requests : u # q => call'[u] = call[u]
    <3>1. CASE RequireApproval(q)
      BY <3>1 DEF RequireApproval, Step, Answer, NoCall, TypeOK, Call
    <3>2. CASE CheckNotStopped(q)
      <4>1. Answer(q, "stopCheck")
        BY <3>2, Zenon DEF CheckNotStopped
      <4>2. QED
        BY <4>1 DEF Answer, NoCall, TypeOK
    <3>3. CASE \E target \in Targets : Request(q, target)
      BY <3>3 DEF Request, TypeOK
    <3>4. QED
      BY <1>2, <3>1, <3>2, <3>3
  <2>3. QED
    BY <2>1, <2>2 DEF Running
<1>3. CASE Restart
  BY <1>3 DEF Restart, Running, NoCall, stopHistory
<1>4. CASE UNCHANGED <<call, sinceStop>>
  BY <1>4 DEF Running
<1>5. CASE LoopNext \/ UNCHANGED vars
  <2>1. UNCHANGED <<call, sinceStop>>
    BY <1>5 DEF LoopNext, Propose, Decide, WriteApproval, SaveEntity, AddEntity, CommitEntity,
       AppendAudit, UpdateProposal, Fail, serving, stopHistory, vars
  <2>2. QED
    BY <2>1, <1>4
<1>6. CASE TriggerStop \/ ReleaseStop
  <2>1. UNCHANGED <<call, sinceStop>>
    BY <1>6 DEF TriggerStop, ReleaseStop
  <2>2. QED
    BY <2>1, <1>4
<1>7. CASE \E q \in Requests : CallNext(q)
  BY <1>1, <1>2, <1>7 DEF CallNext
<1>8. QED
  BY <1>3, <1>5, <1>6, <1>7 DEF Next

(* Nothing is counted while the stop is off. *)
Uncounted == ~stopped => sinceStop = 0

LEMMA StopStepInv == TypeOK /\ Uncounted /\ StopDrains /\ [Next]_vars => (Uncounted /\ StopDrains)'
<1> SUFFICES ASSUME TypeOK, Uncounted, StopDrains, [Next]_vars PROVE (Uncounted /\ StopDrains)'
  OBVIOUS
<1>1. IsFiniteSet(Running) /\ Cardinality(Running) \in Nat
  BY RunningFinite
<1>2. IsFiniteSet(Running') /\ Cardinality(Running') \in Nat
  BY RequestsAssumption, FS_Subset, FS_CardinalityType DEF Running
<1>3. /\ stopped # stopped' => (TriggerStop \/ ReleaseStop)
      /\ ~stopped => sinceStop' = 0
      /\ stopped /\ stopped' => admitted' = admitted
      /\ ~stopped' => sinceStop' = 0
  BY DEF Next, LoopNext, CallNext, Propose, Decide, WriteApproval, SaveEntity, AddEntity,
     CommitEntity, AppendAudit, UpdateProposal, Fail, Request, RequireApproval, CheckNotStopped,
     Execute, TriggerStop, ReleaseStop, Restart, vars, serving, stopHistory, Uncounted
<1>4. CASE ~stopped /\ stopped'
  <2>1. TriggerStop
    BY <1>3, <1>4 DEF ReleaseStop
  <2>2. admitted' = Cardinality(Running) /\ Running' = Running
    BY <1>4, <2>1 DEF TriggerStop, Running
  <2>3. QED
    BY <1>1, <1>3, <1>4, <2>2 DEF StopDrains, Uncounted
<1>5. CASE stopped /\ stopped'
  <2>1. /\ sinceStop \in Nat /\ admitted' \in Nat /\ admitted' = admitted
        /\ sinceStop + Cardinality(Running) <= admitted
    BY <1>3, <1>5 DEF StopDrains, TypeOK
  <2>2. CASE Running' \subseteq Running /\ sinceStop' = sinceStop
    <3>1. Cardinality(Running') <= Cardinality(Running)
      BY <1>1, <2>2, FS_Subset
    <3>2. sinceStop' + Cardinality(Running') <= admitted'
      BY <1>1, <1>2, <2>1, <2>2, <3>1
    <3>3. QED
      BY <1>5, <3>2 DEF StopDrains, Uncounted
  <2>3. ASSUME NEW q \in Running, Running' = Running \ {q}, sinceStop' \in {sinceStop, sinceStop + 1}
        PROVE  (Uncounted /\ StopDrains)'
    <3>1. Cardinality(Running') = Cardinality(Running) - 1
      BY <1>1, <2>3, FS_RemoveElement
    <3>2. sinceStop' + Cardinality(Running') <= admitted'
      BY <1>1, <1>2, <2>1, <2>3, <3>1
    <3>3. QED
      BY <1>5, <3>2 DEF StopDrains, Uncounted
  <2>4. QED
    BY <1>5, <2>2, <2>3, RunningShrinks
<1>6. CASE ~stopped'
  BY <1>3, <1>6 DEF StopDrains, Uncounted
<1>7. QED
  BY <1>4, <1>5, <1>6

-----------------------------------------------------------------------------
LEMMA InductiveInit == Init => IInv /\ Uncounted /\ StopDrains
<1> SUFFICES ASSUME Init PROVE IInv /\ Uncounted /\ StopDrains
  OBVIOUS
<1>1. TypeOK
  BY TypeInit
<1>2. LoopInv /\ RecordsInv /\ FilesInv /\ DecidedIsRecorded /\ CallsInv
  BY NoneAssumption, DirectAssumption
  DEF Init, Idle, NoCall, LoopInv, RecordsInv, FilesInv, DecidedIsRecorded, Decided, CallsInv
<1>3. Uncounted /\ StopDrains
  BY DEF Init, Uncounted, StopDrains
<1>4. QED
  BY <1>1, <1>2, <1>3 DEF IInv

LEMMA InductiveStep == IInv /\ [Next]_vars => IInv'
BY TypeStep, LoopStepInv, RecordsStepInv, FilesStepInv, RecordedStepInv, CallsStepInv DEF IInv

LEMMA Inductive == Spec => []IInv
<1>1. Init => IInv
  BY InductiveInit
<1>2. QED
  BY <1>1, InductiveStep, PTL DEF Spec

(* Every variable of the workflow keeps its type. *)
THEOREM TypeCorrect == Spec => []TypeOK
<1>1. IInv => TypeOK
  BY DEF IInv
<1>2. QED
  BY <1>1, Inductive, PTL

(* A decided proposal always points to a committed and audited Approval with
   the same decision (routers/approvals.py, decide). *)
THEOREM DecisionsAreRecorded == Spec => []DecidedIsRecorded
<1>1. IInv => DecidedIsRecorded
  BY DEF IInv
<1>2. QED
  BY <1>1, Inductive, PTL

(* decide leaves one Approval per proposal, and left-overs of handlers that
   died; the transition check and the single loop forbid a second one. *)
THEOREM OneRecord == Spec => []OneRecordPerProposal
<1>1. IInv => OneRecordPerProposal
  <2> SUFFICES ASSUME IInv, NEW r1 \in Records, NEW r2 \in Records, r1 # r2,
                      origin[r1] = origin[r2], origin[r1] \in Proposals,
                      r1 \notin orphans, r2 \notin orphans
               PROVE  FALSE
    BY DEF OneRecordPerProposal
  <2> DEFINE p == origin[r1]
  <2>1. CASE Decided(p)
    BY <2>1, NoneAssumption DEF IInv, RecordsInv, LoopInv, Decided, Decision
  <2>2. CASE ~Decided(p)
    BY <2>2 DEF IInv, RecordsInv
  <2>3. QED
    BY <2>1, <2>2
<1>2. QED
  BY <1>1, Inductive, PTL

(* Nothing is executed behind the gate that is not backed by an approval. *)
THEOREM ExecutionsAreBacked == Spec => []ExecutionIsBacked
<1>1. IInv => ExecutionIsBacked
  BY DEF IInv, CallsInv, Backed, ExecutionIsBacked
<1>2. QED
  BY <1>1, Inductive, PTL

(* approved and rejected are final (approval/state_machine.py). *)
THEOREM DecisionsAreFinal == Spec => DecisionIsFinal
<1>1. IInv /\ [Next]_vars =>
        [\A p \in Proposals : Decided(p) => proposals'[p] = proposals[p]]_vars
  BY DecidedStays DEF IInv
<1>2. QED
  BY <1>1, Inductive, PTL DEF Spec, DecisionIsFinal

(* Once the emergency stop is on, no request gets past check_not_stopped: what
   is executed until the release was past it already. *)
THEOREM StopsDrain == Spec => []StopDrains
<1>1. Init => Uncounted /\ StopDrains
  BY InductiveInit
<1>2. TypeOK /\ Uncounted /\ StopDrains /\ [Next]_vars => (Uncounted /\ StopDrains)'
  BY StopStepInv
<1>3. QED
  BY <1>1, <1>2, TypeCorrect, PTL DEF Spec
=============================================================================
