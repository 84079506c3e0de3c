----------------------------- MODULE MCModelCalls -----------------------------
(***************************************************************************)
(* The instances of AgentWorker and LearningPipeline that TLC checks: what *)
(* calls models in the background.  The two share no state, so a behaviour *)
(* steps through one of them, and the other stays as it began.             *)
(*                                                                         *)
(* Two tasks; a model, a fallback that nobody has deployed and one that    *)
(* exists; one retry.  Two scenarios per run of the learning loop,         *)
(* proposed among an ordinary one and a priority judgment; scores on both  *)
(* sides of the threshold, so that a mean would let pass what a single     *)
(* score does not; two logged trainings, one of which may run by hand      *)
(* beside the loop's.                                                      *)
(***************************************************************************)
EXTENDS AgentWorker, LearningPipeline

MCChain == <<"pdm-large", "pdm-none", "pdm-small">>

MCStoryDraft == {"id", "kind", "title", "acceptance_criteria"}
MCStoryRequired ==
  {"pmdf_version", "kind", "id", "provenance", "title", "as_a", "i_want", "so_that",
   "acceptance_criteria", "priority", "status"}

VARIABLE part \* which of the two steps

MCInit == Init /\ LearningInit /\ part \in {"worker", "learning"}

MCNext ==
  /\ UNCHANGED part
  /\ \/ part = "worker" /\ Next /\ UNCHANGED learningVars
     \/ part = "learning" /\ LearningNext /\ UNCHANGED vars

(* The fairness of FairSpec and LearningFairSpec, for the part that steps. *)
MCSpec ==
  /\ MCInit /\ [][MCNext]_<<vars, learningVars, part>>
  /\ WF_vars(part = "worker" /\ WorkerSteps)
  /\ \A t \in Tasks : WF_vars(part = "worker" /\ GatewaySteps(t))
  /\ WF_learningVars(part = "learning" /\ LoopSteps)
=============================================================================
