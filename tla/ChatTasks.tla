------------------------------ MODULE ChatTasks ------------------------------
(***************************************************************************)
(* Chat instructions: the task store of the API server (routers/chat.py,   *)
(* chat/task_store.py, chat/state_machine.py), the resident runner of      *)
(* agent-core that polls it (runner.py), callers of                        *)
(* handle_chat_instruction (chat.py), and the guard each node of a         *)
(* business graph runs behind (guards.py).                                 *)
(*                                                                         *)
(* A task is the position of its entry in the file of tasks. The handlers  *)
(* that write are `async def' without a suspension between reading and     *)
(* writing the file, so each is one step. A request may be lost on its way *)
(* or on its way back: the client raises in both cases.                    *)
(***************************************************************************)
EXTENDS Naturals, Sequences

CONSTANTS
  Runners,    \* processes in run_forever
  Callers,    \* processes that call handle_chat_instruction
  Nodes,      \* the nodes of the graph an instruction is dispatched to
  MaxTasks,   \* bound: instructions posted
  MaxFaults   \* bound: lost requests or answers, and crashes

ASSUME RolesAssumption == Runners \intersect Callers = {}
ASSUME BoundsAssumption == Nodes \in Nat \ {0} /\ MaxTasks \in Nat /\ MaxFaults \in Nat

Workers == Runners \union Callers

VARIABLES
  tasks,    \* the status of each task, oldest first
  halts,    \* of "stop" (emergency stop) and "learning" (learning block), those on
  worker,   \* where each worker is, its list of tasks to do, its task and graph node
  faults,   \* the faults so far
  starts,   \* (history) how often each task was dispatched
  results,  \* (history) tasks whose dispatch returned a result
  late,     \* (history) nodes each worker has begun since the stop was triggered
  dropped   \* (history) tasks that a crash or a last lost report left behind

vars == <<tasks, halts, worker, faults, starts, results, late, dropped>>
history == <<starts, results, late, dropped>>

Final == {"done", "failed"}
Position(at, queue, task, node) == [at |-> at, queue |-> queue, task |-> task, node |-> node]
Idle == Position("idle", {}, 0, 0)
Reporting == {"dispatch", "guard", "node", "done", "error", "outer"}
Executing == Reporting \union {"classify", "claim"}

Init ==
  /\ tasks = <<>>
  /\ halts = {}
  /\ worker = [w \in Workers |-> Idle]
  /\ faults = 0
  /\ starts = [t \in 1..MaxTasks |-> 0]
  /\ results = {}
  /\ late = [w \in Workers |-> 0]
  /\ dropped = {}

-----------------------------------------------------------------------------
(* The state machine, and requests of a worker to the API server.          *)

\* Mutant: a running task may be claimed again.
Reclaimable(status) ==
  CASE status = "pending" -> {"running", "failed"}
    [] status = "running" -> {"running", "done", "failed"}
    [] OTHER -> {}

\* _ALLOWED_TRANSITIONS
AllowedTransitions(status) ==
  CASE status = "pending" -> {"running", "failed"}
    [] status = "running" -> Final
    [] OTHER -> {}

Pending == {t \in DOMAIN tasks : tasks[t] = "pending"}

Goto(w, at) == worker' = [worker EXCEPT ![w].at = at]
Task(w) == worker[w].task

\* Where an exception leaves a worker: in the handler of poll_once, or at its caller.
Raised(w) == IF w \in Runners THEN "outer" ELSE "idle"
Finished(w) == IF w \in Runners THEN "work" ELSE "idle"

\* POST /chat/tasks/{id}/transition: the new status is stored, or the answer is 409.
Transition(t, status) ==
  tasks' = IF status \in AllowedTransitions(tasks[t])
           THEN [tasks EXCEPT ![t] = status] ELSE tasks

\* Nobody will report the end of w's task, if that was for w to do and it is running.
Drop(w) ==
  dropped' = IF (worker[w].at \in Reporting \/ tasks' # tasks) /\ tasks'[Task(w)] = "running"
             THEN dropped \union {Task(w)} ELSE dropped

\* The worker posts status for its task and continues at ok, or at ko if that raises.
Post(w, status, ok, ko) ==
  \/ /\ Transition(Task(w), status)
     /\ Goto(w, IF status \in AllowedTransitions(tasks[Task(w)]) THEN ok ELSE ko)
     /\ UNCHANGED <<faults, dropped>>
  \/ /\ faults < MaxFaults
     /\ Transition(Task(w), status) \/ UNCHANGED tasks
     /\ Goto(w, ko)
     /\ faults' = faults + 1
     /\ IF ko = "outer" THEN UNCHANGED dropped ELSE Drop(w)

-----------------------------------------------------------------------------
(* Users and administrators.                                               *)

(* POST /chat/instructions from the web interface. *)
PostInstruction ==
  /\ Len(tasks) < MaxTasks
  /\ tasks' = Append(tasks, "pending")
  /\ UNCHANGED <<halts, worker, faults, history>>

(* The emergency stop and the learning block are set and released. *)
Toggle(halt) ==
  /\ halts' = IF halt \in halts THEN halts \ {halt} ELSE halts \union {halt}
  /\ late' = IF halt = "stop" THEN [w \in Workers |-> 0] ELSE late
  /\ UNCHANGED <<tasks, worker, faults, starts, results, dropped>>

-----------------------------------------------------------------------------
(* poll_once.                                                              *)

(* Is the emergency stop on? If it is, the cycle ends here. *)
CheckStopped(w) ==
  /\ worker[w].at = "idle" /\ "stop" \notin halts
  /\ Goto(w, "blocked?")
  /\ UNCHANGED <<tasks, halts, faults, history>>

(* Is learning blocked? *)
CheckBlocked(w) ==
  /\ worker[w].at = "blocked?"
  /\ Goto(w, IF "learning" \in halts THEN "idle" ELSE "list")
  /\ UNCHANGED <<tasks, halts, faults, history>>

(* GET /chat/tasks?status=pending *)
ListPending(w) ==
  /\ worker[w].at = "list"
  /\ worker' = [worker EXCEPT ![w] = Position("work", Pending, 0, 0)]
  /\ UNCHANGED <<tasks, halts, faults, history>>

\* Mutant: poll_once lets the exception through and run_forever ends.
PollEnds(w) ==
  /\ worker[w].at \in {"blocked?", "list"} /\ faults < MaxFaults
  /\ Goto(w, "ended")
  /\ faults' = faults + 1
  /\ UNCHANGED <<tasks, halts, history>>

(* One of these requests raises: the cycle ends. *)
PollFails(w) ==
  /\ worker[w].at \in {"blocked?", "list"} /\ faults < MaxFaults
  /\ Goto(w, "idle")
  /\ faults' = faults + 1
  /\ UNCHANGED <<tasks, halts, history>>

(* The next task of the list, which is newest first. *)
TakeTask(w) ==
  /\ worker[w].at = "work"
  /\ \E t \in worker[w].queue :
       /\ \A other \in worker[w].queue : other <= t
       /\ worker' = [worker EXCEPT ![w] = Position("classify", @.queue \ {t}, t, @.node)]
  /\ UNCHANGED <<tasks, halts, faults, history>>

(* The list is done: the runner sleeps until the next cycle. *)
EndCycle(w) ==
  /\ worker[w].at = "work" /\ worker[w].queue = {}
  /\ worker' = [worker EXCEPT ![w] = Idle]
  /\ UNCHANGED <<tasks, halts, faults, history>>

\* Mutant: the exception is logged and not reported.
DoNotReport(w) ==
  /\ worker[w].at = "outer"
  /\ Goto(w, "work")
  /\ UNCHANGED <<tasks, halts, faults, history>>

(* The exception handler: the task is reported failed, whatever the answer. *)
ReportRaised(w) ==
  /\ worker[w].at = "outer"
  /\ Post(w, "failed", "work", "work")
  /\ UNCHANGED <<halts, starts, results, late>>

-----------------------------------------------------------------------------
(* handle_chat_instruction and execute_chat_task.                          *)

(* The caller posts the instruction; without an answer it does not execute it. *)
Instruct(w) ==
  /\ w \in Callers /\ worker[w].at = "idle" /\ Len(tasks) < MaxTasks
  /\ tasks' = Append(tasks, "pending")
  /\ \/ /\ worker' = [worker EXCEPT ![w] = Position("classify", {}, Len(tasks'), 0)]
        /\ UNCHANGED faults
     \/ /\ faults < MaxFaults
        /\ faults' = faults + 1
        /\ UNCHANGED worker
  /\ UNCHANGED <<halts, history>>

(* classify_intent: an answer of the model that is no JSON object raises. *)
Classify(w) ==
  /\ worker[w].at = "classify"
  /\ Goto(w, "claim") \/ Goto(w, Raised(w))
  /\ UNCHANGED <<tasks, halts, faults, history>>

(* The task is reported running, and dispatched if that is accepted. *)
Claim(w) ==
  /\ worker[w].at = "claim"
  /\ Post(w, "running", "dispatch", Raised(w))
  /\ UNCHANGED <<halts, starts, results, late>>

(* The dispatch function starts with the first node of its graph. *)
Dispatch(w) ==
  /\ worker[w].at = "dispatch"
  /\ worker' = [worker EXCEPT ![w] = Position("guard", @.queue, @.task, 1)]
  /\ starts' = [starts EXCEPT ![Task(w)] = @ + 1]
  /\ UNCHANGED <<tasks, halts, faults, results, late, dropped>>

\* Mutant: only the first node is guarded.
GuardFirst(w) ==
  /\ worker[w].at = "guard"
  /\ Goto(w, IF "stop" \in halts /\ worker[w].node = 1 THEN "error" ELSE "node")
  /\ UNCHANGED <<tasks, halts, faults, history>>

(* run_node_with_guard, the check: EmergencyStopError, or the request itself raises. *)
Guard(w) ==
  /\ worker[w].at = "guard"
  /\ \/ Goto(w, "error")
     \/ "stop" \notin halts /\ Goto(w, "node")
  /\ UNCHANGED <<tasks, halts, faults, history>>

(* run_node_with_guard, the node: the graph goes on, returns or raises. *)
RunNode(w) ==
  /\ worker[w].at = "node"
  /\ late' = IF "stop" \in halts THEN [late EXCEPT ![w] = @ + 1] ELSE late
  /\ \/ /\ worker[w].node < Nodes
        /\ worker' = [worker EXCEPT ![w] = Position("guard", @.queue, @.task, @.node + 1)]
        /\ UNCHANGED results
     \/ /\ worker[w].node = Nodes
        /\ Goto(w, "done")
        /\ results' = results \union {Task(w)}
     \/ Goto(w, "error") /\ UNCHANGED results
  /\ UNCHANGED <<tasks, halts, faults, starts, dropped>>

(* The dispatch returned, or raised, and the task is reported done, or failed. *)
ReportDone(w) ==
  /\ worker[w].at = "done"
  /\ Post(w, "done", Finished(w), Raised(w))
  /\ UNCHANGED <<halts, starts, results, late>>

ReportFailed(w) ==
  /\ worker[w].at = "error"
  /\ Post(w, "failed", Finished(w), Raised(w))
  /\ UNCHANGED <<halts, starts, results, late>>

(* The process of the worker crashes and is started again. *)
Crash(w) ==
  /\ worker[w].at # "idle" /\ faults < MaxFaults
  /\ worker' = [worker EXCEPT ![w] = Idle]
  /\ faults' = faults + 1
  /\ UNCHANGED <<tasks, halts, starts, results, late>>
  /\ Drop(w)

-----------------------------------------------------------------------------
Poll(w) ==
  \/ CheckStopped(w)
  \/ CheckBlocked(w)
  \/ ListPending(w)
  \/ TakeTask(w)
  \/ EndCycle(w)
  \/ ReportRaised(w)

Execute(w) ==
  \/ Classify(w)
  \/ Claim(w)
  \/ Dispatch(w)
  \/ Guard(w)
  \/ RunNode(w)
  \/ ReportDone(w)
  \/ ReportFailed(w)

Next ==
  \/ PostInstruction
  \/ \E halt \in {"stop", "learning"} : Toggle(halt)
  \/ \E w \in Runners : Poll(w) \/ PollFails(w)
  \/ \E w \in Callers : Instruct(w)
  \/ \E w \in Workers : Execute(w) \/ Crash(w)

Spec == Init /\ [][Next]_vars

\* A worker keeps going: run_forever repeats poll_once, and every request has a timeout.
FairSpec ==
  /\ Spec
  /\ \A w \in Runners : WF_vars(Poll(w))
  /\ \A w \in Workers : WF_vars(Execute(w))
-----------------------------------------------------------------------------
(* Properties.                                                             *)

(* The types of all variables; a worker that executes has a task, and a list only
   tasks that exist. *)
TypeOK ==
  /\ tasks \in Seq({"pending", "running"} \union Final) /\ Len(tasks) <= MaxTasks
  /\ halts \subseteq {"stop", "learning"}
  /\ worker \in [Workers ->
       [at : {"idle", "blocked?", "list", "work"} \union Executing,
        queue : SUBSET (1..MaxTasks), task : 0..MaxTasks, node : 0..Nodes]]
  /\ \A w \in Workers : worker[w].at \in Executing => Task(w) \in DOMAIN tasks
  /\ \A w \in Workers : worker[w].queue \subseteq DOMAIN tasks
  /\ faults \in 0..MaxFaults
  /\ starts \in [1..MaxTasks -> Nat]
  /\ results \subseteq 1..MaxTasks
  /\ late \in [Workers -> Nat]
  /\ dropped \subseteq 1..MaxTasks

(* However many workers hold the same stale list, and whichever requests are
   lost, an instruction is dispatched once at most (chat.py, execute_chat_task). *)
DispatchedOnce == \A t \in 1..MaxTasks : starts[t] <= 1

(* A task is done only when its graph has run to the end (chat.py, 156). *)
DoneHasResult == \A t \in DOMAIN tasks : tasks[t] = "done" => t \in results

(* A running task has a worker that will report its end, unless that worker
   crashed or the last report it makes was lost (runner.py, poll_once). *)
RunningHasWorker ==
  \A t \in DOMAIN tasks : tasks[t] = "running" /\ t \notin dropped =>
    \E w \in Workers : Task(w) = t /\ worker[w].at \in Reporting

(* After an emergency stop a worker begins one node at the most: the one it
   had passed the guard for (guards.py, run_node_with_guard). *)
StopInterrupts == \A w \in Workers : late[w] <= 1

(* The end of a task is never revised (chat/state_machine.py). *)
EndIsFinal == [][\A t \in DOMAIN tasks : tasks[t] \in Final => tasks'[t] = tasks[t]]_tasks

Ended(t) == t \in DOMAIN tasks /\ tasks[t] \in Final

(* Once stop and block are lifted for good, every instruction comes to its
   end, unless a fault left its task behind (runner.py, run_forever). *)
InstructionsEnd ==
  <>[](halts = {}) =>
    \A t \in 1..MaxTasks :
      t \in DOMAIN tasks ~> Ended(t) \/ t \in dropped

(* chat.py says of execute_chat_task that it reports `done' on success and
   `failed' when an exception occurs: a task with a result is never failed.  It does not hold: when runner and
   caller execute one pending task, the one that loses reports it failed. *)
FailedHasNoResult == \A t \in DOMAIN tasks : tasks[t] = "failed" => t \notin results
=============================================================================
