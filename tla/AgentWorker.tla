------------------------------ MODULE AgentWorker ------------------------------
(***************************************************************************)
(* The agent task queue (agent_core/task_queue.py), a worker that takes    *)
(* tasks from it and asks the model once for each through llm_client.py,   *)
(* and GatewayRouter.completion (model_gateway/router.py) with its retries *)
(* and fallbacks.  The worker's loop and the backends are not in the       *)
(* repository; the queue's tests and the client show how they behave.      *)
(*                                                                         *)
(* Kinds, payloads, results and models are left out.  Of the file only the *)
(* last line of a task counts, which is all that _load keeps.              *)
(***************************************************************************)
EXTENDS Integers, Sequences

CONSTANTS
  Tasks,      \* ids of tasks
  Chain,      \* names that _fallback_chain returns, the one asked for first
  Deployed,   \* names that have a deployment
  NumRetries, \* router_settings.num_retries
  MaxFaults   \* bound: crashes, failed writes and answers the client waits too long for

ASSUME ChainAssumption == Chain \in Seq(STRING) /\ NumRetries \in Int
ASSUME BoundsAssumption == MaxFaults \in Nat

VARIABLES
  up,      \* agent-core runs
  table,   \* _tasks: the status of a task in memory
  queue,   \* the asyncio.Queue
  saved,   \* the file: the status of a task on its last line
  torn,    \* a line of the file is cut off, so that no _load comes to its end
  worker,  \* what the worker does with which task
  call,    \* the completion of a task: candidate and attempt it has come to, or its outcome
  tries,   \* (history) requests made of a candidate for a task
  unsaved, \* (history) tasks whose last status is not in the file
  orphans, \* (history) tasks in the table that nobody will take
  faults   \* faults so far

taskQueue == <<up, table, queue, saved, torn, unsaved, orphans>>
gateway == <<call, tries>>
vars == <<taskQueue, worker, gateway, faults>>

Candidates == DOMAIN Chain
Ended == {"done", "failed"}

\* attempts = 1 + max(self.num_retries, 0)
Attempts == 1 + (IF NumRetries > 0 THEN NumRetries ELSE 0)

NoCall == [at |-> "none", candidate |-> 1, attempt |-> 1]
Resting == [at |-> "idle", task |-> "none"]

Init ==
  /\ up = TRUE /\ torn = FALSE
  /\ table = [t \in Tasks |-> "none"] /\ saved = [t \in Tasks |-> "none"]
  /\ queue = <<>>
  /\ worker = Resting
  /\ call = [t \in Tasks |-> NoCall]
  /\ tries = [t \in Tasks |-> [c \in Candidates |-> 0]]
  /\ unsaved = {} /\ orphans = {}
  /\ faults = 0

\* The completion of t is at this attempt of this candidate.
Goes(t, at, candidate, attempt) ==
  call' = [call EXCEPT ![t] = [at |-> at, candidate |-> candidate, attempt |-> attempt]]

AFault == faults < MaxFaults /\ faults' = faults + 1

-----------------------------------------------------------------------------
(* The queue.                                                              *)

\* Mutant: the line is written before the status is set.
SetLate(t, status) ==
  /\ table' = [table EXCEPT ![t] = status]
  /\ saved' = [saved EXCEPT ![t] = IF table[t] = "none" THEN status ELSE table[t]]
  /\ unsaved' = unsaved \ {t}
  /\ torn' = torn

\* The status is set and the task is written to the file, where nobody will read it if
\* a line before it, or the one it is put behind, is cut off.
Set(t, status) ==
  /\ table' = [table EXCEPT ![t] = status]
  /\ saved' = IF torn THEN saved ELSE [saved EXCEPT ![t] = status]
  /\ unsaved' = IF torn THEN unsaved \cup {t} ELSE unsaved \ {t}
  /\ torn' = torn

\* The status is set, and _persist raises: no line is written, or a piece of it.
SetUnsaved(t, status) ==
  /\ AFault
  /\ table' = [table EXCEPT ![t] = status]
  /\ unsaved' = unsaved \cup {t}
  /\ saved' = saved
  /\ torn' \in {torn, TRUE}

\* Mutant: the queue holds one task, and what does not fit is dropped.
SubmitBounded(t) ==
  /\ up /\ table[t] = "none"
  /\ Set(t, "pending")
  /\ queue' = IF queue = <<>> THEN <<t>> ELSE queue
  /\ UNCHANGED <<up, orphans, worker, gateway, faults>>

(* submit: a new task, in the table, in the file and in the queue. *)
Submit(t) ==
  /\ up /\ table[t] = "none"
  /\ Set(t, "pending")
  /\ queue' = Append(queue, t)
  /\ UNCHANGED <<up, orphans, worker, gateway, faults>>

(* It fails at the file: the task stays in the table and is not put in the queue. *)
SubmitFails(t) ==
  /\ up /\ table[t] = "none"
  /\ SetUnsaved(t, "pending")
  /\ orphans' = orphans \cup {t}
  /\ UNCHANGED <<up, queue, worker, gateway>>

(* dequeue *)
Dequeue ==
  /\ up /\ worker.at = "idle" /\ queue # <<>>
  /\ worker' = [at |-> "taken", task |-> Head(queue)]
  /\ queue' = Tail(queue)
  /\ UNCHANGED <<up, table, saved, torn, unsaved, orphans, gateway, faults>>

(* The process is killed; what it does with the file then may remain half done. *)
Crash ==
  /\ up /\ AFault
  /\ up' = FALSE
  /\ torn' \in IF \/ \E t \in Tasks : table[t] = "none"
                 \/ worker.at # "idle" THEN {torn, TRUE} ELSE {torn}
  /\ UNCHANGED <<table, queue, saved, unsaved, orphans, worker, gateway>>

(* __init__ and _load: the table is read from the file, which fails if a line is
   torn; the queue is empty, whatever the table says. *)
Restart ==
  /\ ~ up /\ ~ torn
  /\ up' = TRUE
  /\ table' = saved
  /\ queue' = <<>> /\ worker' = Resting
  /\ unsaved' = {}
  /\ orphans' = {t \in Tasks : saved[t] \notin {"none"} \cup Ended}
  /\ UNCHANGED <<saved, torn, gateway, faults>>

-----------------------------------------------------------------------------
(* The worker.                                                             *)

(* mark_running, and the request to the gateway. *)
Begin ==
  /\ up /\ worker.at = "taken"
  /\ Set(worker.task, "running")
  /\ worker' = [at |-> "waiting", task |-> worker.task]
  /\ Goes(worker.task, "ready", 1, 1)
  /\ UNCHANGED <<up, queue, orphans, tries, faults>>

(* mark_running raises: the worker leaves the task. *)
BeginFails ==
  /\ up /\ worker.at = "taken"
  /\ SetUnsaved(worker.task, "running")
  /\ orphans' = orphans \cup {worker.task}
  /\ worker' = Resting
  /\ UNCHANGED <<up, queue, gateway>>

(* complete returns or raises, and the worker marks the task. *)
End ==
  /\ up /\ worker.at = "waiting" /\ call[worker.task].at \in {"answered", "refused", "failed"}
  /\ LET status == IF call[worker.task].at = "answered" THEN "done" ELSE "failed" IN
       (Set(worker.task, status) /\ faults' = faults) \/ SetUnsaved(worker.task, status)
  /\ worker' = Resting
  /\ UNCHANGED <<up, queue, orphans, gateway>>

(* The client's 60 seconds are over; the gateway does not learn of it. *)
ClientTimeout ==
  /\ up /\ worker.at = "waiting" /\ AFault
  /\ Set(worker.task, "failed")
  /\ worker' = Resting
  /\ UNCHANGED <<up, queue, orphans, gateway>>

-----------------------------------------------------------------------------
(* GatewayRouter.completion.                                               *)

\* Mutant: a name without deployment is waited for.
SkipNothing(t) ==
  LET c == call[t].candidate IN
  /\ call[t].at = "ready" /\ c \in Candidates /\ Chain[c] \notin Deployed
  /\ Goes(t, "ready", c, 1)
  /\ UNCHANGED <<taskQueue, worker, tries, faults>>

(* A name without deployment is passed over. *)
Skip(t) ==
  LET c == call[t].candidate IN
  /\ call[t].at = "ready" /\ c \in Candidates /\ Chain[c] \notin Deployed
  /\ Goes(t, "ready", c + 1, 1)
  /\ UNCHANGED <<taskQueue, worker, tries, faults>>

(* _call_deployment sends the request. *)
Send(t) ==
  LET c == call[t].candidate IN
  /\ call[t].at = "ready" /\ c \in Candidates /\ Chain[c] \in Deployed
  /\ Goes(t, "sent", c, call[t].attempt)
  /\ tries' = [tries EXCEPT ![t] = [tries[t] EXCEPT ![c] = @ + 1]]
  /\ UNCHANGED <<taskQueue, worker, faults>>

(* An answer below 500 is returned, an error of the client's too. *)
Answer(t) ==
  /\ call[t].at = "sent"
  /\ \E at \in {"answered", "refused"} : Goes(t, at, call[t].candidate, call[t].attempt)
  /\ UNCHANGED <<taskQueue, worker, tries, faults>>

\* Mutant: the last attempt is forgotten.
AgainOnce(t) ==
  /\ call[t].at = "sent"
  /\ IF call[t].attempt + 1 < Attempts
     THEN Goes(t, "ready", call[t].candidate, call[t].attempt + 1)
     ELSE Goes(t, "ready", call[t].candidate + 1, 1)
  /\ UNCHANGED <<taskQueue, worker, tries, faults>>

(* No answer in time, an answer of 500 or more, or no connection: the next attempt,
   or the next candidate after the last one.  The backend may have done the work. *)
Again(t) ==
  /\ call[t].at = "sent"
  /\ IF call[t].attempt < Attempts
     THEN Goes(t, "ready", call[t].candidate, call[t].attempt + 1)
     ELSE Goes(t, "ready", call[t].candidate + 1, 1)
  /\ UNCHANGED <<taskQueue, worker, tries, faults>>

(* Another error of the connection is not caught. *)
Escape(t) ==
  /\ call[t].at = "sent"
  /\ Goes(t, "refused", call[t].candidate, call[t].attempt)
  /\ UNCHANGED <<taskQueue, worker, tries, faults>>

(* AllBackendsFailedError *)
GiveUp(t) ==
  /\ call[t].at = "ready" /\ call[t].candidate \notin Candidates
  /\ Goes(t, "failed", call[t].candidate, 1)
  /\ UNCHANGED <<taskQueue, worker, tries, faults>>

-----------------------------------------------------------------------------
WorkerSteps == Dequeue \/ Begin \/ End
GatewaySteps(t) == Skip(t) \/ Send(t) \/ Answer(t) \/ Again(t) \/ Escape(t) \/ GiveUp(t)

Next ==
  \/ \E t \in Tasks : Submit(t) \/ SubmitFails(t) \/ GatewaySteps(t)
  \/ WorkerSteps \/ BeginFails \/ ClientTimeout
  \/ Crash \/ Restart

Spec == Init /\ [][Next]_vars

(* The worker's loop goes on, and a request to a backend is over after the timeout at
   the latest. *)
FairSpec == Spec /\ WF_vars(WorkerSteps) /\ \A t \in Tasks : WF_vars(GatewaySteps(t))

-----------------------------------------------------------------------------
Statuses == {"none", "pending", "running"} \cup Ended

(* What each variable holds. *)
TypeOK ==
  /\ up \in BOOLEAN /\ torn \in BOOLEAN
  /\ table \in [Tasks -> Statuses] /\ saved \in [Tasks -> Statuses]
  /\ queue \in Seq(Tasks)
  /\ worker \in [at : {"idle", "taken", "waiting"}, task : Tasks \cup {"none"}]
  /\ worker.at # "idle" => worker.task \in Tasks
  /\ call \in [Tasks -> [at : {"none", "ready", "sent", "answered", "refused", "failed"},
                         candidate : Nat \ {0}, attempt : 1..Attempts]]
  /\ tries \in [Tasks -> [Candidates -> Nat]]
  /\ unsaved \subseteq Tasks /\ orphans \subseteq Tasks /\ faults \in Nat

(* A fallback is asked only when every candidate before it that has a deployment was
   asked as often as the settings say, and none is asked more often, however many
   clients have given up on the task meanwhile. *)
TriesInOrder ==
  \A t \in Tasks : \A c \in Candidates :
    tries[t][c] = IF Chain[c] \notin Deployed \/ c > call[t].candidate THEN 0
                  ELSE IF c < call[t].candidate THEN Attempts
                  ELSE IF call[t].at \in {"none", "ready"} THEN call[t].attempt - 1
                  ELSE call[t].attempt

(* A task is never forgotten silently: one that is pending is in the queue or with the
   worker, once, unless the process was restarted or the file could not be written. *)
PendingIsQueued ==
  up => \A t \in Tasks : table[t] = "pending" =>
          \/ t \in orphans
          \/ \E i \in DOMAIN queue :
               queue[i] = t /\ \A j \in DOMAIN queue : queue[j] = t => j = i
          \/ worker = [at |-> "taken", task |-> t]

(* The end of a task outlives restarts if it was written. *)
EndSurvives ==
  [][\A t \in Tasks : table[t] \in Ended /\ t \notin unsaved => table'[t] = table[t]]_vars

(* Every task that is taken in ends, done or failed, unless it became an orphan or
   agent-core is down. *)
TasksEnd ==
  \A t \in Tasks : table[t] = "pending" ~> (table[t] \in Ended \/ t \in orphans \/ ~ up)
=============================================================================
