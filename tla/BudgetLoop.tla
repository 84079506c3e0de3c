------------------------------ MODULE BudgetLoop ------------------------------
(***************************************************************************)
(* The learning budget: usage records of the month (costs/usage_store.py), *)
(* the hourly monitor of the scheduler that reads the summary and sets or  *)
(* clears the block (budget_monitor.py), the file of the block, which any  *)
(* administrator or editor may set as well (costs/budget_state.py), and    *)
(* the learning loop that reads it once before its six stages (jobs.py).   *)
(*                                                                         *)
(* The jobs run on threads of the scheduler, one instance of each at a     *)
(* time, and the handlers of /costs on threads of the API server. The file *)
(* is truncated when it is opened, and the text of a block is one          *)
(* character shorter than that of a release.                               *)
(***************************************************************************)
EXTENDS Naturals, Sequences

CONSTANTS
  Budgets,    \* the monthly budgets a deployment may have, as multiples of one record
  MaxRecords, \* bound: usage records of a month
  MaxManual,  \* bound: requests that set or clear the block by hand
  MaxFaults   \* bound: requests that fail and processes that end

ASSUME BudgetsAssumption == Budgets \subseteq Nat
ASSUME BoundsAssumption == {MaxRecords, MaxManual, MaxFaults} \subseteq Nat

VARIABLES
  budget,   \* budget_monthly_jpy
  token,    \* SCHEDULER_AUTH_TOKEN: none, good or expired
  spend,    \* the records of the current month
  file,     \* what budget_exceeded.json says; no file is `clear'
  monitor,  \* the run of the monitor: what it does next, and the status it has read
  manual,   \* a PUT by hand
  stage,    \* what the learning loop does next
  faults,   \* faults so far
  requests, \* PUTs by hand so far
  acted,    \* (history) the spend that the monitor's last complete run has read,
            \* until somebody else touches the file
  trained   \* (history) trainings since the file was last clear, counted up to two

vars == <<budget, token, spend, file, monitor, manual, stage, faults, requests,
          acted, trained>>
env == <<budget, token>>

Stages == <<"synthesize", "execute", "evaluate", "build_datasets", "run_training",
            "compare_models">>
Idle == [at |-> "idle", spend |-> 0]
NoRun == [known |-> FALSE, spend |-> 0]

Init ==
  /\ budget \in Budgets
  /\ token \in {"none", "good"}
  /\ spend = 0
  /\ file = "clear"
  /\ monitor = Idle
  /\ manual = "idle"
  /\ stage = 0
  /\ faults = 0
  /\ requests = 0
  /\ acted = NoRun
  /\ trained = 0

-----------------------------------------------------------------------------
(* The API server.                                                         *)

(* record_usage: a record of the current month. *)
RecordUsage ==
  /\ spend < MaxRecords
  /\ spend' = spend + 1
  /\ UNCHANGED <<env, file, monitor, manual, stage, faults, requests, acted, trained>>

(* A new month begins: the summary counts the records of the current one only. *)
NextMonth ==
  /\ spend > 0
  /\ spend' = 0
  /\ UNCHANGED <<env, file, monitor, manual, stage, faults, requests, acted, trained>>

\* Mutant: the threshold is exceeded only beyond it.
RatioAbove(spent, tenths) ==
  IF budget = 0 THEN spent > 0 /\ 20 > tenths ELSE 10 * spent > tenths * budget

(* The consumption ratio is at least tenths/10; without a budget it is 0 or 2. *)
RatioAtLeast(spent, tenths) ==
  IF budget = 0 THEN spent > 0 /\ 20 >= tenths ELSE 10 * spent >= tenths * budget

(* check_budget_threshold *)
Status(spent) ==
  IF RatioAtLeast(spent, 10) THEN "exceeded"
  ELSE IF RatioAtLeast(spent, 8) THEN "warning" ELSE "ok"

\* Mutant: a file that cannot be parsed is no block.
ReadsUnblocked == file # "blocked"

(* is_learning_blocked is false; it raises if the file is empty or garbled. *)
NotBlocked == file = "clear"

(* write_text after the file was opened and emptied: the shorter text leaves the
   end of a longer one that another thread has written in the meantime. *)
Written(value) ==
  IF value = "blocked" /\ file \in {"clear", "garbled"} THEN "garbled" ELSE value

\* A thread of set_learning_blocked has written value.
SetBlocked(value) ==
  /\ file' = Written(value)
  /\ trained' = IF Written(value) = "clear" THEN 0 ELSE trained

-----------------------------------------------------------------------------
(* The monitor.                                                            *)

(* GET /costs/summary: what follows acts on this state, and may be late. *)
ReadSummary ==
  /\ monitor.at = "idle" /\ token = "good"
  /\ monitor' = [at |-> IF Status(spend) = "ok" THEN "put" ELSE "event", spend |-> spend]
  /\ UNCHANGED <<env, spend, file, manual, stage, faults, requests, acted, trained>>

\* The next request is accepted.
Authorized == token = "good"

\* Mutant: the event is all that follows a budget that is used up.
PostEventOnly ==
  /\ monitor.at = "event" /\ Authorized
  /\ monitor' = IF Status(monitor.spend) = "exceeded" THEN Idle ELSE [monitor EXCEPT !.at = "put"]
  /\ UNCHANGED <<env, spend, file, manual, stage, faults, requests, acted, trained>>

(* POST /costs/budget-events *)
PostEvent ==
  /\ monitor.at = "event" /\ Authorized
  /\ monitor' = [monitor EXCEPT !.at = "put"]
  /\ UNCHANGED <<env, spend, file, manual, stage, faults, requests, acted, trained>>

(* PUT /costs/learning-blocked: the file is opened ... *)
OpenFile ==
  /\ monitor.at = "put" /\ Authorized
  /\ file' = "empty"
  /\ monitor' = [monitor EXCEPT !.at = "write"]
  /\ UNCHANGED <<env, spend, manual, stage, faults, requests, acted, trained>>

\* Only an exceeded budget blocks.
Verdict(status) == IF status = "exceeded" THEN "blocked" ELSE "clear"

(* ... and written. *)
WriteFile ==
  /\ monitor.at = "write"
  /\ SetBlocked(Verdict(Status(monitor.spend)))
  /\ acted' = IF manual = "idle" /\ file = "empty"
               THEN [known |-> TRUE, spend |-> monitor.spend] ELSE NoRun
  /\ monitor' = Idle
  /\ UNCHANGED <<env, spend, manual, stage, faults, requests>>

(* A request raises: it fails, or the token is no longer accepted. The rest of
   the run is left out. *)
MonitorFails ==
  /\ monitor.at \in {"event", "put"}
  /\ token = "expired" \/ faults < MaxFaults
  /\ faults' = IF token = "expired" THEN faults ELSE faults + 1
  /\ monitor' = Idle
  /\ UNCHANGED <<env, spend, file, manual, stage, requests, acted, trained>>
-----------------------------------------------------------------------------
(* Administrators and editors.                                             *)

(* PUT /costs/learning-blocked by hand, at any time. *)
OpenByHand(value) ==
  /\ manual = "idle" /\ requests < MaxManual
  /\ requests' = requests + 1
  /\ manual' = value
  /\ file' = "empty"
  /\ acted' = NoRun
  /\ UNCHANGED <<env, spend, monitor, stage, faults, trained>>

WriteByHand ==
  /\ manual # "idle"
  /\ SetBlocked(manual)
  /\ manual' = "idle"
  /\ acted' = NoRun
  /\ UNCHANGED <<env, spend, monitor, stage, faults, requests>>

(* Nobody renews the token of the scheduler. *)
Expire ==
  /\ token = "good"
  /\ token' = "expired"
  /\ UNCHANGED <<budget, spend, file, monitor, manual, stage, faults, requests, acted,
                 trained>>

-----------------------------------------------------------------------------
(* The learning loop.                                                      *)

(* The block is read before the first stage, if there is a token to read it with. *)
StartLoop ==
  /\ stage = 0
  /\ \/ token = "none"
     \/ token = "good" /\ NotBlocked
  /\ stage' = 1
  /\ UNCHANGED <<env, spend, file, monitor, manual, faults, requests, acted, trained>>

(* A stage ends, and the next begins. *)
RunStage ==
  /\ stage > 0
  /\ stage' = IF stage = Len(Stages) THEN 0 ELSE stage + 1
  /\ trained' = IF Stages[stage] = "run_training" /\ file # "clear" /\ trained < 2
                THEN trained + 1 ELSE trained
  /\ UNCHANGED <<env, spend, file, monitor, manual, faults, requests, acted>>

(* A stage raises, or the scheduler restarts: the rest is left out. *)
FailStage ==
  /\ stage > 0
  /\ stage' = 0
  /\ UNCHANGED <<env, spend, file, monitor, manual, faults, requests, acted, trained>>

(* The API server ends: a file that is open stays empty. *)
ServerCrash ==
  /\ faults < MaxFaults /\ (monitor.at = "write" \/ manual # "idle")
  /\ faults' = faults + 1
  /\ monitor' = IF monitor.at = "write" THEN Idle ELSE monitor
  /\ manual' = "idle"
  /\ acted' = NoRun
  /\ UNCHANGED <<env, spend, file, stage, requests, trained>>

-----------------------------------------------------------------------------
\* A run of the monitor is due, or goes on.
RunMonitor == ReadSummary \/ PostEvent \/ OpenFile \/ WriteFile \/ MonitorFails

Next ==
  \/ RecordUsage
  \/ NextMonth
  \/ RunMonitor
  \/ \E value \in {"clear", "blocked"} : OpenByHand(value)
  \/ WriteByHand
  \/ Expire
  \/ StartLoop
  \/ RunStage
  \/ FailStage
  \/ ServerCrash

Spec == Init /\ [][Next]_vars
FairSpec == Spec /\ WF_vars(RunMonitor) /\ WF_vars(WriteByHand)

-----------------------------------------------------------------------------
(* Properties.                                                             *)

(* The types of all variables, and which statuses lead to an event. *)
TypeOK ==
  /\ budget \in Budgets
  /\ token \in {"none", "good", "expired"}
  /\ spend \in 0..MaxRecords
  /\ file \in {"clear", "blocked", "empty", "garbled"}
  /\ monitor \in [at : {"idle", "event", "put", "write"}, spend : 0..MaxRecords]
  /\ monitor.at = "event" => Status(monitor.spend) # "ok"
  /\ manual \in {"idle", "clear", "blocked"}
  /\ stage \in 0..Len(Stages)
  /\ faults \in 0..MaxFaults
  /\ requests \in 0..MaxManual
  /\ acted \in [known : BOOLEAN, spend : 0..MaxRecords]
  /\ trained \in 0..2

\* The budget is used up, as the documentation has it: all of it, or any spend if
\* there is no budget.
UsedUp(spent) == spent > 0 /\ spent >= budget

(* Until somebody else touches the file, it says whether the budget was used up
   when the monitor's last complete run read the summary, be there overlapping
   PUTs, failed requests or crashes before (budget_monitor.py, budget.py). *)
BlockIsVerdict ==
  monitor.at # "write" /\ acted.known =>
    file = IF UsedUp(acted.spend) THEN "blocked" ELSE "clear"

(* Once learning is blocked, or the file cannot be read, at most one training is
   still to come: that of a loop that has read the file before (jobs.py). Without
   a token the loop reads nothing, and nothing holds it. *)
TrainingDrains ==
  token # "none" => trained + (IF file # "clear" /\ stage \in 1..5 THEN 1 ELSE 0) <= 1

(* While the token is good and nobody interferes, a budget that stays used up
   blocks learning for good, whatever has failed before (budget_monitor.py). *)
OverspendBlocks ==
  <>[](token = "good" /\ UsedUp(spend)) => <>[](file # "clear") /\ []<>(file = "blocked")

(* ... and a budget that is not used up, as after a new month begins, lifts the
   block, and repairs a file that cannot be read. *)
ThriftUnblocks ==
  <>[](token = "good" /\ ~UsedUp(spend)) => <>[](file # "blocked") /\ []<>(file = "clear")
(* The block follows the budget, in both directions. *)
BlockFollowsBudget == OverspendBlocks /\ ThriftUnblocks
===============================================================================
