--------------------------- MODULE LearningPipeline ---------------------------
(***************************************************************************)
(* One run after the other of the learning loop (scheduler/jobs.py with    *)
(* its default dependencies): the teacher proposes scenarios               *)
(* (synthesize.py), the student answers them in a sandbox (execute.py),    *)
(* rules and a judge evaluate the trajectories (evaluate.py), those that   *)
(* passed become the dataset (dataset_builder.py) of a training (sft.py),  *)
(* and the log of the trainings (the JSON lines of LEARNING_STATUS_PATH),  *)
(* which trainings started by hand (sft.py, dpo.py) share.                 *)
(*                                                                         *)
(* Texts and models are left out: a scenario stands for its text, and so   *)
(* for its scenario_hash.  The scores that compare_models compares in the  *)
(* loop are constants, so that its last stage changes nothing.             *)
(***************************************************************************)
EXTENDS Naturals, Sequences, FiniteSets

CONSTANTS
  Scenarios,     \* what the teacher may propose
  Priority,      \* scenarios whose expected answer is a priority judgment or a backlog
  Count,         \* the scenarios asked for (count of synthesize_scenarios)
  StoryDraft,    \* the fields of the story that the default dispatch drafts
  StoryRequired, \* the fields that the schema of a story requires
  Scores,        \* what the judge may give for a criterion
  MaxTrainings   \* bound: trainings that write to the log

ASSUME ScenariosAssumption == Priority \subseteq Scenarios
ASSUME ScoresAssumption == Scores \subseteq 1..5
ASSUME LearningBoundsAssumption == Count \in Nat /\ MaxTrainings \in Nat

VARIABLES
  reachable,    \* the model gateway answers
  stage,        \* what the loop does next
  scenarios,    \* context["synthesize"]
  holder,       \* trajectories_holder, the list the dataset is built from
  trajectories, \* context["execute"]
  evaluations,  \* context["evaluate"]
  dataset,      \* the records of sft.jsonl
  last,         \* the LearningLoopResult of the last run, while no other runs
  training,     \* per process that trains: what it does and its job
  logged,       \* processes started with LEARNING_STATUS_PATH
  log,          \* the file at LEARNING_STATUS_PATH
  checkpoints   \* (history) the job of every checkpoint of a logged process

run == <<scenarios, holder, trajectories, evaluations, dataset>>
loop == <<stage, run, last>>
status == <<training, logged, log, checkpoints>>
learningVars == <<reachable, loop, status>>

Criteria == {"value_for_whom", "output_outcome_value_distinction", "tradeoff_clarity"}
Jobs == {"sft", "dpo"}
Trainers == {"loop", "cli"}
Stages == <<"synthesize", "execute", "evaluate", "build_datasets", "run_training",
            "compare_models">>
NoTraining == [at |-> "idle", job |-> "sft"]
NoResult == [status |-> "none", failed_stage |-> "none"]
NoScores == [c \in {} |-> 0]

LearningInit ==
  /\ reachable = TRUE
  /\ stage = "idle"
  /\ scenarios = <<>> /\ holder = <<>> /\ trajectories = <<>>
  /\ evaluations = <<>> /\ dataset = <<>>
  /\ last = NoResult
  /\ training = [p \in Trainers |-> NoTraining]
  /\ logged \in {{"cli"}, Trainers}
  /\ log = <<>> /\ checkpoints = <<>>

\* The run returns; its context is gone, and its list until the next run has one.
Ends(outcome, failed) ==
  /\ stage' = "idle"
  /\ last' = [status |-> outcome, failed_stage |-> failed]
  /\ scenarios' = <<>> /\ trajectories' = <<>> /\ evaluations' = <<>> /\ dataset' = <<>>

\* The bound leaves room for the training of a run of the loop that has begun.
Room ==
  Cardinality({i \in DOMAIN log : log[i].status = "started"})
    + (IF "loop" \in logged /\ stage # "idle" THEN 1 ELSE 0) < MaxTrainings

-----------------------------------------------------------------------------
(* The loop.                                                               *)

\* Mutant: the dependencies, and with them the list, are made once for all runs.
StartKeepingDeps ==
  /\ stage = "idle" /\ stage' = "synthesize"
  /\ "loop" \in logged => Room
  /\ last' = NoResult
  /\ UNCHANGED <<reachable, run, status>>

(* trigger_learning_loop: every run has dependencies and a context of its own. *)
Start ==
  /\ stage = "idle" /\ stage' = "synthesize"
  /\ "loop" \in logged => Room
  /\ holder' = <<>> /\ last' = NoResult
  /\ UNCHANGED <<reachable, scenarios, trajectories, evaluations, dataset, status>>

(* The budget is used up (BudgetLoop says when). *)
StartBlocked ==
  /\ stage = "idle"
  /\ Ends("skipped", "budget_check")
  /\ UNCHANGED <<reachable, holder, status>>

\* Mutant: a stage that finds the gateway down is tried again.
StageWaits ==
  stage \in {"synthesize", "execute", "evaluate"} /\ reachable /\ Ends("failed", stage)

(* A stage raises, and those that follow are left out.  A call of the model does: the
   gateway is down, or its answer is no JSON, has no scenarios, or scores beyond 1 to 5.
   So does making the directory or writing the file of the dataset, and what run_sft
   does before its first line in the log (TrainingFails has what it does after). *)
StageFails ==
  /\ stage \in {"synthesize", "execute", "evaluate", "build_datasets", "run_training"}
  /\ training["loop"].at = "idle"
  /\ Ends("failed", stage)

StopOnFailure == StageFails /\ UNCHANGED <<reachable, holder, status>>

(* synthesize_scenarios: of an answer with too many scenarios the first ones are
   taken, and one with too few, even with none, is taken as it is. *)
Synthesize ==
  /\ stage = "synthesize" /\ reachable
  /\ \E n \in 0..(Count + 1) : \E answer \in [1..n -> Scenarios] :
       scenarios' = SubSeq(answer, 1, IF n < Count THEN n ELSE Count)
  /\ stage' = "execute"
  /\ UNCHANGED <<reachable, holder, trajectories, evaluations, dataset, last, status>>

(* _default_graph_dispatch: the entities in pmdf_diffs, as their sets of fields. *)
Diffs(s) == IF s \in Priority THEN <<StoryDraft>> ELSE <<>>

(* execute_scenario, one scenario: the student model is asked, and the trajectory
   is put into both lists. *)
Execute ==
  /\ stage = "execute" /\ reachable
  /\ Len(trajectories) < Len(scenarios)
  /\ LET s == scenarios[Len(trajectories) + 1]
         t == [scenario |-> s, diffs |-> Diffs(s)] IN
       /\ trajectories' = Append(trajectories, t)
       /\ holder' = Append(holder, t)
  /\ UNCHANGED <<reachable, stage, scenarios, evaluations, dataset, last, status>>

(* rule_based_checks: every story is valid against its schema. *)
RulesPass(t) == \A i \in DOMAIN t.diffs : StoryRequired \subseteq t.diffs[i]

\* Mutant: the mean of the scores decides.
MeanPasses(score) ==
  score["value_for_whom"] + score["output_outcome_value_distinction"] + score["tradeoff_clarity"] >= 9

(* min_score >= 3 *)
JudgePasses(score) == \A c \in Criteria : score[c] >= 3

(* hybrid_evaluate, one trajectory: the judge is asked only if the rules hold. *)
Evaluate ==
  /\ stage = "evaluate"
  /\ Len(evaluations) < Len(trajectories)
  /\ LET t == trajectories[Len(evaluations) + 1] IN
       \/ /\ ~RulesPass(t)
          /\ evaluations' = Append(evaluations, [passed |-> FALSE, judge_score |-> NoScores])
       \/ /\ RulesPass(t) /\ reachable
          /\ \E score \in [Criteria -> Scores] :
               evaluations' = Append(evaluations,
                                     [passed |-> JudgePasses(score), judge_score |-> score])
  /\ UNCHANGED <<reachable, stage, scenarios, holder, trajectories, dataset, last, status>>

(* The list of a stage is complete, and the next stage begins. *)
NextStage ==
  /\ \/ stage = "execute" /\ Len(trajectories) = Len(scenarios) /\ stage' = "evaluate"
     \/ stage = "evaluate" /\ Len(evaluations) = Len(trajectories) /\ stage' = "build_datasets"
  /\ UNCHANGED <<reachable, run, last, status>>

(* build_sft_dataset: trajectory by trajectory, those that passed become records. *)
PassedOf(all, evaluated) ==
  LET records[n \in 0..Len(all)] ==
        IF n = 0 THEN <<>>
        ELSE IF evaluated[n].passed THEN Append(records[n - 1], all[n])
        ELSE records[n - 1]
  IN records[Len(all)]

BuildDatasets ==
  /\ stage = "build_datasets"
  /\ IF Len(holder) = Len(evaluations)
       THEN /\ dataset' = PassedOf(holder, evaluations)
            /\ stage' = "run_training"
            /\ UNCHANGED <<scenarios, trajectories, evaluations, last>>
       ELSE Ends("failed", "build_datasets")
  /\ UNCHANGED <<reachable, holder, status>>

-----------------------------------------------------------------------------
(* Trainings, of the loop and by hand.                                     *)

Writes(p, job, what) ==
  log' = IF p \in logged THEN Append(log, [job |-> job, status |-> what]) ELSE log

(* run_sft and run_dpo up to their first line in the log. *)
BeginTraining(p, job) ==
  /\ training[p].at = "idle"
  /\ IF p = "loop" THEN stage = "run_training" /\ job = "sft" ELSE Room
  /\ training' = [training EXCEPT ![p] = [at |-> "train", job |-> job]]
  /\ Writes(p, job, "started")
  /\ UNCHANGED <<reachable, loop, logged, checkpoints>>

\* Mutant: the training is called completed before its checkpoint is saved.
SaveAtTheEnd(p) ==
  /\ training[p].at = "train"
  /\ training' = [training EXCEPT ![p].at = "save"]
  /\ Writes(p, training[p].job, "completed")
  /\ UNCHANGED <<reachable, loop, logged, checkpoints>>

(* The model is trained and the checkpoint saved. *)
Train(p) ==
  /\ training[p].at = "train"
  /\ training' = [training EXCEPT ![p].at = "save"]
  /\ checkpoints' = IF p \in logged THEN Append(checkpoints, training[p].job) ELSE checkpoints
  /\ UNCHANGED <<reachable, loop, logged, log>>

(* The second line in the log. *)
CompleteTraining(p) ==
  /\ training[p].at = "save"
  /\ training' = [training EXCEPT ![p].at = "idle"]
  /\ Writes(p, training[p].job, "completed")
  /\ stage' = IF p = "loop" THEN "compare_models" ELSE stage
  /\ UNCHANGED <<reachable, run, last, logged, checkpoints>>

(* compare_models, on the constants of _compare: the run is completed. *)
CompareModels ==
  /\ stage = "compare_models"
  /\ Ends("completed", "none")
  /\ UNCHANGED <<reachable, holder, status>>

(* Loading, training or saving raises, which leaves no line in the log. *)
TrainingFails(p) ==
  /\ training[p].at # "idle"
  /\ training' = [training EXCEPT ![p].at = "idle"]
  /\ IF p = "loop" THEN Ends("failed", "run_training") /\ UNCHANGED holder ELSE UNCHANGED loop
  /\ UNCHANGED <<reachable, logged, log, checkpoints>>

-----------------------------------------------------------------------------
(* The environment.                                                        *)

GatewayGoesDownOrUp == reachable' = ~reachable /\ UNCHANGED <<loop, status>>

(* The scheduler's process ends with its run and is started again. *)
SchedulerCrashes ==
  /\ stage # "idle"
  /\ Ends("none", "none") /\ holder' = <<>>
  /\ training' = [training EXCEPT !["loop"] = NoTraining]
  /\ UNCHANGED <<reachable, logged, log, checkpoints>>

LoopSteps ==
  \/ StopOnFailure \/ Synthesize \/ Execute \/ Evaluate \/ NextStage \/ BuildDatasets
  \/ BeginTraining("loop", "sft")
  \/ Train("loop") \/ CompleteTraining("loop") \/ TrainingFails("loop") \/ CompareModels

HandSteps ==
  \/ \E job \in Jobs : BeginTraining("cli", job)
  \/ Train("cli") \/ CompleteTraining("cli") \/ TrainingFails("cli")

LearningNext ==
  \/ Start \/ StartBlocked
  \/ LoopSteps \/ HandSteps
  \/ GatewayGoesDownOrUp \/ SchedulerCrashes

LearningSpec == LearningInit /\ [][LearningNext]_learningVars

(* The run is code of one thread that the scheduler runs to its end: its calls have
   a timeout and a training ends.  Nothing makes the gateway come back. *)
LearningFairSpec == LearningSpec /\ WF_learningVars(LoopSteps)

-----------------------------------------------------------------------------
(* Properties.                                                             *)

Trajectory == [scenario : Scenarios, diffs : {<<>>, <<StoryDraft>>}]
Evaluation == [passed : BOOLEAN, judge_score : {NoScores} \union [Criteria -> Scores]]

(* What each variable holds. *)
LearningTypeOK ==
  /\ reachable \in BOOLEAN
  /\ stage \in {"idle"} \union {Stages[i] : i \in DOMAIN Stages}
  /\ scenarios \in Seq(Scenarios)
  /\ {holder, trajectories, dataset} \subseteq Seq(Trajectory)
  /\ evaluations \in Seq(Evaluation)
  /\ training \in [Trainers -> [at : {"idle", "train", "save"}, job : Jobs]]
  /\ log \in Seq([job : Jobs, status : {"started", "completed"}])
  /\ checkpoints \in Seq(Jobs)

\* How often x occurs in a sequence.
Times(s, x) == Cardinality({i \in DOMAIN s : s[i] = x})

(* A training reads exactly the trajectories that obey the rules and to which the
   judge gave at least three for every criterion, each as often as it earned it: the
   evaluations are a list of their own that is joined to the trajectories by place. *)
TrainsOnPassed ==
  training["loop"].at # "idle" =>
    \A t \in Trajectory :
      Times(dataset, t)
        = Cardinality({i \in DOMAIN evaluations :
            /\ trajectories[i] = t
            /\ RulesPass(t)
            /\ \A c \in Criteria : evaluations[i].judge_score[c] >= 3})

(* Where trajectories and evaluations are joined by place, the list that a run collects
   on the side holds the trajectories of this run, one for every evaluation, whatever has
   become of the runs before it: one that failed halfway leaves nothing to the next. *)
RunsAreIndependent ==
  stage = "build_datasets" => holder = trajectories /\ Len(holder) = Len(evaluations)

\* Lines of the log with this job and status.
Lines(job, what) == Times(log, [job |-> job, status |-> what])

(* Every training the log calls completed has saved a checkpoint, and was called
   started before, though two processes write the log and either may end at any
   time. *)
LogIsBacked ==
  \A job \in Jobs : /\ Lines(job, "completed") <= Times(checkpoints, job)
                    /\ Times(checkpoints, job) <= Lines(job, "started")

(* A run of the loop ends, even if the gateway stays down for ever: only then may the
   scheduler, which runs one instance of a job at a time, start the next. *)
RunsEnd == stage # "idle" ~> stage = "idle"
=============================================================================
