---------------------------- MODULE ChatTasksProofs ----------------------------
(***************************************************************************)
(* The safety properties of ChatTasks, for any numbers of runners, callers *)
(* and graph nodes, and all bounds. What keeps a task from being           *)
(* dispatched twice is ClaimInv: whoever is past the claim of a task is    *)
(* alone, and the task is not pending any more.                            *)
(***************************************************************************)
EXTENDS ChatTasks, SequenceTheorems, TLAPS

Status == {"pending", "running"} \union Final

Places == {"idle", "blocked?", "list", "work"} \union Executing
Place == [at : Places, queue : SUBSET (1..MaxTasks), task : 0..MaxTasks, node : 0..Nodes]

WorkersOK ==
  /\ worker \in [Workers -> Place]
  /\ \A w \in Workers : worker[w].at \in Executing => Task(w) \in DOMAIN tasks
  /\ \A w \in Workers : worker[w].queue \subseteq DOMAIN tasks

-----------------------------------------------------------------------------
(* What a step does to the tasks.                                          *)

(* Tasks are added at the end, pending; those that exist follow the state machine. *)
TasksFollow ==
  /\ tasks' \in Seq(Status) /\ Len(tasks') <= MaxTasks
  /\ DOMAIN tasks \subseteq DOMAIN tasks'
  /\ \A t \in DOMAIN tasks : tasks'[t] = tasks[t] \/ tasks'[t] \in AllowedTransitions(tasks[t])
  /\ \A t \in DOMAIN tasks' \ DOMAIN tasks : tasks'[t] = "pending"

LEMMA UnchangedFollows ==
  ASSUME TypeOK, UNCHANGED tasks
  PROVE  TasksFollow
  BY DEF TypeOK, TasksFollow, Status

LEMMA AppendFollows ==
  ASSUME TypeOK, Len(tasks) < MaxTasks, tasks' = Append(tasks, "pending")
  PROVE  /\ TasksFollow /\ Len(tasks') = Len(tasks) + 1 /\ Len(tasks') \in DOMAIN tasks'
         /\ \A u \in DOMAIN tasks : tasks'[u] = tasks[u]
<1>1. tasks \in Seq(Status) /\ "pending" \in Status
  BY DEF TypeOK, Status
<1>2. /\ tasks' \in Seq(Status) /\ Len(tasks') = Len(tasks) + 1
      /\ \A i \in 1..Len(tasks) : tasks'[i] = tasks[i]
      /\ tasks'[Len(tasks) + 1] = "pending"
  BY <1>1, AppendProperties
<1>3. Len(tasks) \in Nat /\ MaxTasks \in Nat /\ DOMAIN tasks = 1..Len(tasks) /\ DOMAIN tasks' = 1..Len(tasks')
  BY <1>1, <1>2, BoundsAssumption
<1> QED
  BY <1>2, <1>3 DEF TasksFollow

LEMMA TransitionFollows ==
  ASSUME TypeOK, NEW t \in DOMAIN tasks, NEW status \in Status, Transition(t, status)
  PROVE  /\ TasksFollow
         /\ tasks'[t] = IF status \in AllowedTransitions(tasks[t]) THEN status ELSE tasks[t]
         /\ \A u \in DOMAIN tasks : u # t => tasks'[u] = tasks[u]
<1>1. tasks \in Seq(Status) /\ t \in 1..Len(tasks) /\ DOMAIN tasks = 1..Len(tasks)
  BY DEF TypeOK, Status
<1>2. CASE status \in AllowedTransitions(tasks[t])
  <2>1. tasks' = [tasks EXCEPT ![t] = status]
    BY <1>2 DEF Transition
  <2>2. /\ tasks' \in Seq(Status) /\ Len(tasks') = Len(tasks)
        /\ \A u \in 1..Len(tasks) : tasks'[u] = IF u = t THEN status ELSE tasks[u]
    BY <1>1, <2>1, ExceptSeq
  <2>3. DOMAIN tasks' = DOMAIN tasks
    BY <2>1
  <2> QED
    BY <1>1, <1>2, <2>2, <2>3 DEF TasksFollow, TypeOK
<1>3. CASE status \notin AllowedTransitions(tasks[t])
  BY <1>3, UnchangedFollows DEF Transition
<1> QED
  BY <1>2, <1>3

(* What a worker's report can do, whether the request or its answer is lost or not. *)
LEMMA PostStep ==
  ASSUME TypeOK, NEW w \in Workers, worker[w].at \in Executing, NEW status \in Status,
         NEW ok, NEW ko, Post(w, status, ok, ko)
  PROVE  /\ TasksFollow
         /\ \A u \in DOMAIN tasks : u # Task(w) => tasks'[u] = tasks[u]
         /\ Goto(w, ok) \/ Goto(w, ko)
         /\ faults' \in 0..MaxFaults
         /\ dropped' \in {dropped, dropped \union {Task(w)}}
<1>1. Task(w) \in DOMAIN tasks
  BY DEF TypeOK
<1>2. TasksFollow /\ \A u \in DOMAIN tasks : u # Task(w) => tasks'[u] = tasks[u]
  <2>1. CASE Transition(Task(w), status)
    BY <1>1, <2>1, TransitionFollows
  <2>2. CASE UNCHANGED tasks
    BY <2>2, UnchangedFollows
  <2> QED
    BY <2>1, <2>2 DEF Post
<1>3. Goto(w, ok) \/ Goto(w, ko)
  BY DEF Post
<1>4. faults' \in 0..MaxFaults
  BY BoundsAssumption DEF Post, TypeOK
<1>5. dropped' \in {dropped, dropped \union {Task(w)}}
  BY DEF Post, Drop
<1> QED
  BY <1>2, <1>3, <1>4, <1>5

(* The steps that report the status of a task. *)
Reports(w) == ReportRaised(w) \/ Claim(w) \/ ReportDone(w) \/ ReportFailed(w)

LEMMA ReportSteps ==
  ASSUME TypeOK, NEW w \in Workers, Reports(w)
  PROVE  /\ TasksFollow
         /\ \A u \in DOMAIN tasks : u # Task(w) => tasks'[u] = tasks[u]
         /\ worker[w].at \in Executing
         /\ \E at \in {"work", "idle", "outer", "dispatch"} :
              Goto(w, at) /\ (at = "dispatch" => worker[w].at = "claim")
         /\ faults' \in 0..MaxFaults
         /\ dropped' \in {dropped, dropped \union {Task(w)}}
<1> USE DEF Status, Final, Executing, Reporting
<1>1. CASE ReportRaised(w)
  BY <1>1, PostStep DEF ReportRaised
<1>2. CASE Claim(w)
  BY <1>2, PostStep DEF Claim, Raised
<1>3. CASE ReportDone(w)
  BY <1>3, PostStep DEF ReportDone, Raised, Finished
<1>4. CASE ReportFailed(w)
  BY <1>4, PostStep DEF ReportFailed, Raised, Finished
<1> QED
  BY <1>1, <1>2, <1>3, <1>4 DEF Reports

LEMMA StepFollows == TypeOK /\ [Next]_vars => TasksFollow
<1> SUFFICES ASSUME TypeOK, [Next]_vars PROVE TasksFollow
  OBVIOUS
<1>1. CASE PostInstruction
  BY <1>1, AppendFollows DEF PostInstruction
<1>2. CASE \E w \in Callers : Instruct(w)
  BY <1>2, AppendFollows DEF Instruct
<1>3. CASE \E w \in Workers : Reports(w)
  BY <1>3, ReportSteps
<1>4. CASE UNCHANGED tasks
  BY <1>4, UnchangedFollows
<1> QED
  BY <1>1, <1>2, <1>3, <1>4
  DEF Next, vars, Workers, Toggle, Poll, Execute, Reports, CheckStopped, CheckBlocked, ListPending,
      PollFails, TakeTask, EndCycle, Classify, Dispatch, Guard, RunNode, Crash

-----------------------------------------------------------------------------
(* Types.                                                                  *)

(* A worker moves to a place that its task allows. *)
LEMMA MoveTypes ==
  ASSUME TypeOK, TasksFollow, NEW w \in Workers, NEW p \in Place,
         worker' = [worker EXCEPT ![w] = p],
         p.at \in Executing => p.task \in DOMAIN tasks',
         p.queue \subseteq DOMAIN tasks'
  PROVE  WorkersOK'
<1>1. worker \in [Workers -> Place]
  BY DEF TypeOK, Place, Places
<1>2. worker' \in [Workers -> Place]
  BY <1>1
<1>3. ASSUME NEW v \in Workers
      PROVE  /\ worker'[v].at \in Executing => worker'[v].task \in DOMAIN tasks'
             /\ worker'[v].queue \subseteq DOMAIN tasks'
  <2>1. CASE v = w
    BY <1>1, <2>1
  <2>2. CASE v # w
    BY <1>1, <2>2 DEF TypeOK, TasksFollow, Task
  <2> QED
    BY <2>1, <2>2
<1> QED
  BY <1>2, <1>3 DEF WorkersOK, Task

LEMMA GotoTypes ==
  ASSUME TypeOK, TasksFollow, NEW w \in Workers, NEW at \in Places, Goto(w, at),
         at \in Executing => worker[w].at \in Executing
  PROVE  WorkersOK'
<1> DEFINE p == [worker[w] EXCEPT !.at = at]
<1>1. worker[w] \in Place /\ worker \in [Workers -> Place]
  BY DEF TypeOK, Place, Places
<1>2. p \in Place /\ p.at = at /\ p.task = Task(w) /\ p.queue = worker[w].queue
  BY <1>1 DEF Place, Task
<1>3. worker' = [worker EXCEPT ![w] = p]
  BY <1>1 DEF Goto
<1>4. /\ p.at \in Executing => p.task \in DOMAIN tasks'
      /\ p.queue \subseteq DOMAIN tasks'
  BY <1>2 DEF TypeOK, TasksFollow
<1> HIDE DEF p
<1> QED
  BY <1>2, <1>3, <1>4, MoveTypes

\* The rest of the types.
RestOK ==
  /\ halts \subseteq {"stop", "learning"}
  /\ faults \in 0..MaxFaults
  /\ starts \in [1..MaxTasks -> Nat]
  /\ results \subseteq 1..MaxTasks
  /\ late \in [Workers -> Nat]
  /\ dropped \subseteq 1..MaxTasks

LEMMA TypeParts == TypeOK <=> /\ tasks \in Seq(Status) /\ Len(tasks) <= MaxTasks
                              /\ WorkersOK /\ RestOK
  BY DEF TypeOK, WorkersOK, RestOK, Place, Places, Status

LEMMA TaskIsNumber ==
  ASSUME TypeOK, NEW w \in Workers, worker[w].at \in Executing
  PROVE  Task(w) \in 1..MaxTasks
<1>1. Task(w) \in DOMAIN tasks /\ DOMAIN tasks = 1..Len(tasks) /\ Len(tasks) <= MaxTasks
      /\ Len(tasks) \in Nat
  BY DEF TypeOK
<1> QED
  BY <1>1, BoundsAssumption

LEMMA PendingAreTasks == Pending \subseteq DOMAIN tasks
  BY DEF Pending

LEMMA TasksAreNumbers ==
  ASSUME TypeOK
  PROVE  DOMAIN tasks \subseteq 1..MaxTasks
<1>1. DOMAIN tasks = 1..Len(tasks) /\ Len(tasks) \in Nat /\ Len(tasks) <= MaxTasks
  BY DEF TypeOK
<1> QED
  BY <1>1, BoundsAssumption

LEMMA NextTypeOK == TypeOK /\ [Next]_vars => TypeOK'
<1> SUFFICES ASSUME TypeOK, [Next]_vars PROVE TypeOK'
  OBVIOUS
<1>0. TasksFollow
  BY StepFollows
<1> SUFFICES WorkersOK' /\ RestOK'
  BY <1>0 DEF TasksFollow, TypeOK, WorkersOK, RestOK, Place, Places, Status
<1>a. WorkersOK /\ RestOK /\ MaxFaults \in Nat /\ Nodes \in Nat \ {0} /\ MaxTasks \in Nat
  BY TypeParts, BoundsAssumption
<1>b. UNCHANGED worker => WorkersOK'
  BY <1>0, <1>a DEF WorkersOK, TasksFollow, Task
<1>c. DOMAIN tasks \subseteq DOMAIN tasks' /\ DOMAIN tasks \subseteq 1..MaxTasks
  BY <1>0, TasksAreNumbers DEF TasksFollow
<1> USE DEF Places, Executing, Reporting
<1>1. CASE PostInstruction \/ UNCHANGED vars
  BY <1>a, <1>b, <1>1 DEF PostInstruction, history, vars, RestOK
<1>2. ASSUME NEW halt \in {"stop", "learning"}, Toggle(halt) PROVE WorkersOK' /\ RestOK'
  BY <1>a, <1>b, <1>2 DEF Toggle, RestOK
<1>3. ASSUME NEW w \in Workers, CheckStopped(w) \/ CheckBlocked(w) PROVE WorkersOK' /\ RestOK'
  <2>1. Goto(w, "blocked?") \/ Goto(w, "idle") \/ Goto(w, "list")
    BY <1>3 DEF CheckStopped, CheckBlocked
  <2>2. WorkersOK'
    BY <1>0, <2>1, GotoTypes
  <2> QED
    BY <1>3, <1>a, <2>2 DEF CheckStopped, CheckBlocked, history, RestOK
<1>4. ASSUME NEW w \in Workers, ListPending(w) PROVE WorkersOK' /\ RestOK'
  <2> DEFINE p == [at |-> "work", queue |-> Pending, task |-> 0, node |-> 0]
  <2>1. worker' = [worker EXCEPT ![w] = p]
    BY <1>4 DEF ListPending, Position
  <2>2. p \in Place
    BY <1>a, <1>c, PendingAreTasks DEF Place
  <2>3. p.queue \subseteq DOMAIN tasks'
    BY <1>c, PendingAreTasks
  <2>4. WorkersOK'
    BY <1>0, <2>1, <2>2, <2>3, MoveTypes
  <2> QED
    BY <1>4, <1>a, <2>4 DEF ListPending, history, RestOK
<1>5. ASSUME NEW w \in Workers, PollFails(w) PROVE WorkersOK' /\ RestOK'
  <2>1. WorkersOK'
    BY <1>0, <1>5, GotoTypes DEF PollFails
  <2> QED
    BY <1>5, <1>a, <2>1 DEF PollFails, history, RestOK
<1>6. ASSUME NEW w \in Workers, TakeTask(w) PROVE WorkersOK' /\ RestOK'
  <2>1. PICK t \in worker[w].queue :
          worker' = [worker EXCEPT ![w] =
            Position("classify", worker[w].queue \ {t}, t, worker[w].node)]
    BY <1>6 DEF TakeTask
  <2> DEFINE p == [at |-> "classify", queue |-> worker[w].queue \ {t}, task |-> t,
                   node |-> worker[w].node]
  <2>2. worker[w] \in Place /\ worker[w].queue \subseteq DOMAIN tasks
    BY <1>a DEF WorkersOK
  <2>3. worker' = [worker EXCEPT ![w] = p]
    BY <2>1 DEF Position
  <2>4. p \in Place
    BY <1>c, <2>2 DEF Place
  <2>5. p.task \in DOMAIN tasks' /\ p.queue \subseteq DOMAIN tasks'
    BY <1>c, <2>2
  <2>6. WorkersOK'
    BY <1>0, <2>3, <2>4, <2>5, MoveTypes
  <2> QED
    BY <1>6, <1>a, <2>6 DEF TakeTask, history, RestOK
<1>7. ASSUME NEW w \in Workers, EndCycle(w) PROVE WorkersOK' /\ RestOK'
  <2>1. Idle \in Place /\ Idle.queue = {} /\ Idle.at = "idle"
    BY <1>a DEF Place, Idle, Position
  <2>2. WorkersOK'
    BY <1>0, <1>7, <2>1, MoveTypes DEF EndCycle
  <2> QED
    BY <1>7, <1>a, <2>2 DEF EndCycle, history, RestOK
<1>8. ASSUME NEW w \in Workers, Reports(w) PROVE WorkersOK' /\ RestOK'
  <2>1. PICK at \in {"work", "idle", "outer", "dispatch"} : Goto(w, at)
    BY <1>8, ReportSteps
  <2>2. worker[w].at \in Executing /\ faults' \in 0..MaxFaults
        /\ dropped' \in {dropped, dropped \union {Task(w)}}
    BY <1>8, ReportSteps
  <2>3. WorkersOK'
    BY <1>0, <2>1, <2>2, GotoTypes
  <2>4. Task(w) \in 1..MaxTasks
    BY <2>2, TaskIsNumber
  <2>5. UNCHANGED <<halts, starts, results, late>>
    BY <1>8 DEF Reports, ReportRaised, Claim, ReportDone, ReportFailed
  <2> QED
    BY <1>a, <2>2, <2>3, <2>4, <2>5 DEF RestOK
<1>9. ASSUME NEW w \in Workers, Instruct(w) PROVE WorkersOK' /\ RestOK'
  <2> DEFINE p == [at |-> "classify", queue |-> {}, task |-> Len(tasks'), node |-> 0]
  <2>1. Len(tasks') \in DOMAIN tasks' /\ Len(tasks') \in 1..MaxTasks
    <3>1. Len(tasks') = Len(tasks) + 1 /\ Len(tasks') \in DOMAIN tasks' /\ Len(tasks) < MaxTasks
      BY <1>9, AppendFollows DEF Instruct
    <3>2. Len(tasks) \in Nat
      BY DEF TypeOK
    <3> QED
      BY <3>1, <3>2, <1>a
  <2>2. p \in Place
    BY <1>a, <2>1 DEF Place
  <2>3. worker' = [worker EXCEPT ![w] = p] \/ UNCHANGED worker
    BY <1>9 DEF Instruct, Position
  <2>4. WorkersOK'
    BY <1>0, <1>b, <2>1, <2>2, <2>3, MoveTypes
  <2>5. faults' \in 0..MaxFaults
    BY <1>9, <1>a DEF Instruct, RestOK
  <2> QED
    BY <1>9, <1>a, <2>4, <2>5 DEF Instruct, history, RestOK
<1>10. ASSUME NEW w \in Workers, Classify(w) PROVE WorkersOK' /\ RestOK'
  <2>1. worker[w].at = "classify" /\ (Goto(w, "claim") \/ Goto(w, "outer") \/ Goto(w, "idle"))
    BY <1>10 DEF Classify, Raised
  <2>2. WorkersOK'
    BY <1>0, <2>1, GotoTypes
  <2> QED
    BY <1>10, <1>a, <2>2 DEF Classify, history, RestOK
<1>11. ASSUME NEW w \in Workers, Dispatch(w) PROVE WorkersOK' /\ RestOK'
  <2> DEFINE p == [at |-> "guard", queue |-> worker[w].queue, task |-> Task(w), node |-> 1]
  <2>1. worker[w] \in Place /\ worker[w].at \in Executing /\ worker[w].queue \subseteq DOMAIN tasks
    BY <1>11, <1>a DEF WorkersOK, Dispatch
  <2>2. worker' = [worker EXCEPT ![w] = p]
    BY <1>11 DEF Dispatch, Position, Task
  <2>3. p \in Place
    BY <1>a, <2>1 DEF Place, Task
  <2>4. p.task \in DOMAIN tasks' /\ p.queue \subseteq DOMAIN tasks'
    BY <1>a, <1>c, <2>1 DEF WorkersOK
  <2>5. WorkersOK'
    BY <1>0, <2>2, <2>3, <2>4, MoveTypes
  <2>6. starts' \in [1..MaxTasks -> Nat]
    BY <1>11, <1>a, <2>1, TaskIsNumber DEF Dispatch, RestOK
  <2> QED
    BY <1>11, <1>a, <2>5, <2>6 DEF Dispatch, RestOK
<1>12. ASSUME NEW w \in Workers, Guard(w) PROVE WorkersOK' /\ RestOK'
  <2>1. worker[w].at = "guard" /\ (Goto(w, "error") \/ Goto(w, "node"))
    BY <1>12 DEF Guard
  <2>2. WorkersOK'
    BY <1>0, <2>1, GotoTypes
  <2> QED
    BY <1>12, <1>a, <2>2 DEF Guard, history, RestOK
<1>13. ASSUME NEW w \in Workers, RunNode(w) PROVE WorkersOK' /\ RestOK'
  <2>0. worker[w] \in Place /\ worker[w].at = "node" /\ worker[w].queue \subseteq DOMAIN tasks
    BY <1>13, <1>a DEF WorkersOK, RunNode
  <2>1. WorkersOK'
    <3> DEFINE p == [at |-> "guard", queue |-> worker[w].queue, task |-> Task(w),
                     node |-> worker[w].node + 1]
    <3>1. CASE Goto(w, "done") \/ Goto(w, "error")
      BY <1>0, <2>0, <3>1, GotoTypes
    <3>2. CASE ~(Goto(w, "done") \/ Goto(w, "error"))
      <4>1. worker[w].node < Nodes
            /\ worker' = [worker EXCEPT ![w] =
                  Position("guard", worker[w].queue, worker[w].task, worker[w].node + 1)]
        BY <1>13, <3>2 DEF RunNode
      <4>2. worker' = [worker EXCEPT ![w] = p]
        BY <4>1 DEF Position, Task
      <4>3. p \in Place
        BY <1>a, <2>0, <4>1 DEF Place, Task
      <4>4. p.task \in DOMAIN tasks' /\ p.queue \subseteq DOMAIN tasks'
        BY <1>a, <1>c, <2>0 DEF WorkersOK
      <4> QED
        BY <1>0, <4>2, <4>3, <4>4, MoveTypes
    <3> QED
      BY <3>1, <3>2
  <2>2. results' \subseteq 1..MaxTasks
    <3>1. results' \in {results, results \union {Task(w)}}
      BY <1>13 DEF RunNode
    <3>2. Task(w) \in 1..MaxTasks
      BY <2>0, TaskIsNumber
    <3> QED
      BY <1>a, <3>1, <3>2 DEF RestOK
  <2>3. late' \in [Workers -> Nat]
    BY <1>13, <1>a DEF RunNode, RestOK
  <2> QED
    BY <1>13, <1>a, <2>1, <2>2, <2>3 DEF RunNode, RestOK
<1>14. ASSUME NEW w \in Workers, Crash(w) PROVE WorkersOK' /\ RestOK'
  <2>1. Idle \in Place /\ Idle.queue = {} /\ Idle.at = "idle"
    BY <1>a DEF Place, Idle, Position
  <2>2. WorkersOK'
    BY <1>0, <1>14, <2>1, MoveTypes DEF Crash
  <2>3. dropped' \subseteq 1..MaxTasks
    BY <1>14, <1>a, TaskIsNumber DEF Crash, Drop, RestOK
  <2>4. faults' \in 0..MaxFaults
    BY <1>14, <1>a DEF Crash, RestOK
  <2> QED
    BY <1>14, <1>a, <2>2, <2>3, <2>4 DEF Crash, RestOK
<1> QED
  BY <1>1, <1>2, <1>3, <1>4, <1>5, <1>6, <1>7, <1>8, <1>9, <1>10, <1>11, <1>12, <1>13, <1>14
  DEF Next, Workers, Poll, Execute, Reports

LEMMA InitTypeOK == Init => TypeOK
<1> SUFFICES ASSUME Init PROVE TypeOK
  OBVIOUS
<1>1. tasks \in Seq(Status) /\ Len(tasks) = 0 /\ DOMAIN tasks = {}
  BY DEF Init
<1>2. Idle \in Place /\ Idle.at \notin Executing /\ Idle.queue = {}
  BY BoundsAssumption DEF Place, Places, Idle, Position, Executing, Reporting
<1>3. WorkersOK
  BY <1>1, <1>2 DEF Init, WorkersOK
<1>4. RestOK
  BY BoundsAssumption DEF Init, RestOK
<1> QED
  BY <1>1, <1>3, <1>4, TypeParts, BoundsAssumption

(* The types of tasks and workers, for any numbers of both (runner.py, chat.py). *)
THEOREM TypeCorrect == Spec => []TypeOK
  BY InitTypeOK, NextTypeOK, PTL DEF Spec

(* The end of a task is never revised, however many workers report on it
   (chat/state_machine.py). *)
THEOREM EndsAreFinal == Spec => EndIsFinal
<1>1. TypeOK /\ [Next]_vars =>
        [\A t \in DOMAIN tasks : tasks[t] \in Final => tasks'[t] = tasks[t]]_tasks
  BY StepFollows DEF TasksFollow, AllowedTransitions, Final
<1> QED
  BY <1>1, TypeCorrect, PTL DEF Spec, EndIsFinal

-----------------------------------------------------------------------------
(* One dispatch at most.                                                   *)

\* w is past the claim of its task, t.
Holds(w, t) ==
  Task(w) = t /\ worker[w].at \in {"dispatch", "guard", "node", "done", "error"}

Untouched(t) == t \notin DOMAIN tasks \/ tasks[t] = "pending"

(* Nobody holds a task that is pending, and nobody else the task that one holds; a
   task is dispatched by whoever holds it, and only on arrival. *)
ClaimInv ==
  /\ \A t \in 1..MaxTasks : Untouched(t) => starts[t] = 0 /\ \A w \in Workers : ~Holds(w, t)
  /\ \A w \in Workers : worker[w].at = "dispatch" => starts[Task(w)] = 0
  /\ \A w, v \in Workers : \A t \in 1..MaxTasks : Holds(w, t) /\ Holds(v, t) => w = v
  /\ DispatchedOnce

LEMMA TouchedStays ==
  ASSUME TypeOK, TasksFollow, NEW t, Untouched(t)'
  PROVE  Untouched(t)
  BY DEF TasksFollow, Untouched, AllowedTransitions, Final

\* Steps that claim and dispatch nothing.
LEMMA QuietKeepsClaims ==
  ASSUME TypeOK, TasksFollow, ClaimInv, UNCHANGED starts,
         \A v \in Workers, t \in 1..MaxTasks : Holds(v, t)' => Holds(v, t),
         \A v \in Workers : worker'[v].at = "dispatch" => worker[v].at = "dispatch" /\ Task(v)' = Task(v)
  PROVE  ClaimInv'
<1>1. \A t \in 1..MaxTasks : Untouched(t)' => starts[t] = 0 /\ \A w \in Workers : ~Holds(w, t)'
  BY TouchedStays DEF ClaimInv
<1> QED
  BY <1>1 DEF ClaimInv, DispatchedOnce

\* A worker goes where no task is held, or goes on with the task it holds.
LEMMA GoOn ==
  ASSUME TypeOK, TasksFollow, ClaimInv, UNCHANGED starts, NEW w \in Workers,
         \A v \in Workers \ {w} : worker'[v] = worker[v],
         worker'[w].at # "dispatch",
         worker'[w].at \in {"guard", "node", "done", "error"} =>
           worker[w].at \in {"guard", "node"} /\ Task(w)' = Task(w)
  PROVE  ClaimInv'
<1>1. \A v \in Workers, t \in 1..MaxTasks : Holds(v, t)' => Holds(v, t)
  BY DEF Holds, Task
<1>2. \A v \in Workers : worker'[v].at = "dispatch" => worker[v].at = "dispatch" /\ Task(v)' = Task(v)
  BY DEF Task
<1> QED
  BY <1>1, <1>2, QuietKeepsClaims

LEMMA GotoOnly ==
  ASSUME TypeOK, NEW w \in Workers, NEW at, Goto(w, at)
  PROVE  /\ \A v \in Workers \ {w} : worker'[v] = worker[v]
         /\ worker'[w].at = at /\ Task(w)' = Task(w)
<1>1. worker \in [Workers -> Place]
  BY TypeParts DEF WorkersOK
<1>2. worker'[w] = [worker[w] EXCEPT !.at = at] /\ \A v \in Workers \ {w} : worker'[v] = worker[v]
  BY <1>1 DEF Goto
<1>3. worker[w] \in Place
  BY <1>1
<1> QED
  BY <1>2, <1>3 DEF Place, Task

\* A claim of a task is accepted only if the task is pending.
LEMMA ClaimSucceeds ==
  ASSUME TypeOK, NEW w \in Workers, Claim(w), Goto(w, "dispatch")
  PROVE  tasks[Task(w)] = "pending" /\ tasks'[Task(w)] = "running"
<1>1. worker'[w].at = "dispatch" /\ worker[w].at = "claim" /\ Task(w) \in DOMAIN tasks
  BY GotoOnly DEF Claim, TypeOK, Executing
<1>2. ~Goto(w, Raised(w))
  <2> SUFFICES ASSUME Goto(w, Raised(w)) PROVE FALSE
    OBVIOUS
  <2>1. worker'[w].at = Raised(w)
    BY GotoOnly
  <2> QED
    BY <1>1, <2>1 DEF Raised
<1>3. Transition(Task(w), "running") /\ "running" \in AllowedTransitions(tasks[Task(w)])
  BY <1>2 DEF Claim, Post
<1>4. tasks'[Task(w)] = "running"
  BY <1>1, <1>3, TransitionFollows DEF Status
<1> QED
  BY <1>3, <1>4 DEF AllowedTransitions, Final

LEMMA NextClaim == TypeOK /\ ClaimInv /\ [Next]_vars => ClaimInv'
<1> SUFFICES ASSUME TypeOK, ClaimInv, [Next]_vars PROVE ClaimInv'
  OBVIOUS
<1>0. TasksFollow /\ worker \in [Workers -> Place]
  BY StepFollows, TypeParts DEF WorkersOK
<1>1. CASE UNCHANGED <<worker, starts>>
  BY <1>0, <1>1, QuietKeepsClaims DEF Holds, Task
<1>2. ASSUME NEW w \in Workers,
             \/ CheckStopped(w) \/ CheckBlocked(w) \/ ListPending(w) \/ PollFails(w) \/ TakeTask(w)
             \/ EndCycle(w) \/ Classify(w) \/ Crash(w) \/ Instruct(w)
      PROVE  ClaimInv'
  <2>1. UNCHANGED starts
    BY <1>2 DEF CheckStopped, CheckBlocked, ListPending, PollFails, TakeTask, EndCycle, Classify,
                Crash, Instruct, history
  <2>2. CASE \E at \in {"blocked?", "idle", "list", "claim", "outer"} : Goto(w, at)
    BY <1>0, <2>1, <2>2, GotoOnly, GoOn
  <2>3. CASE /\ worker'[w].at \in {"idle", "work", "classify"}
             /\ \A v \in Workers \ {w} : worker'[v] = worker[v]
    BY <1>0, <2>1, <2>3, GoOn
  <2>4. CASE UNCHANGED worker
    BY <1>1, <2>1, <2>4
  <2>5. CASE CheckStopped(w) \/ CheckBlocked(w) \/ PollFails(w) \/ Classify(w)
    BY <2>2, <2>5 DEF CheckStopped, CheckBlocked, PollFails, Classify, Raised
  <2>6. CASE ListPending(w) \/ EndCycle(w) \/ Crash(w)
    BY <1>0, <2>3, <2>6 DEF ListPending, EndCycle, Crash, Idle, Position
  <2>7. CASE TakeTask(w)
    BY <1>0, <2>3, <2>7 DEF TakeTask, Position
  <2>8. CASE Instruct(w)
    BY <1>0, <2>3, <2>4, <2>8 DEF Instruct, Position
  <2> QED
    BY <1>2, <2>5, <2>6, <2>7, <2>8
<1>3. ASSUME NEW w \in Workers, Guard(w) \/ RunNode(w) PROVE ClaimInv'
  <2>1. UNCHANGED starts /\ worker[w].at \in {"guard", "node"}
    BY <1>3 DEF Guard, RunNode, history
  <2>2. CASE \E at \in {"node", "error", "done"} : Goto(w, at)
    BY <1>0, <2>1, <2>2, GotoOnly, GoOn
  <2>3. CASE worker' = [worker EXCEPT ![w] =
               Position("guard", worker[w].queue, worker[w].task, worker[w].node + 1)]
    <3>1. /\ worker'[w].at = "guard" /\ Task(w)' = Task(w)
          /\ \A v \in Workers \ {w} : worker'[v] = worker[v]
      BY <1>0, <2>3 DEF Position, Task
    <3> QED
      BY <1>0, <2>1, <3>1, GoOn
  <2> QED
    BY <1>3, <2>2, <2>3 DEF Guard, RunNode
<1>4. ASSUME NEW w \in Workers, Reports(w) PROVE ClaimInv'
  <2>1. UNCHANGED starts
    BY <1>4 DEF Reports, ReportRaised, Claim, ReportDone, ReportFailed
  <2>2. PICK at \in {"work", "idle", "outer", "dispatch"} :
          Goto(w, at) /\ (at = "dispatch" => worker[w].at = "claim")
    BY <1>4, ReportSteps
  <2>3. CASE at # "dispatch"
    BY <1>0, <2>1, <2>2, <2>3, GotoOnly, GoOn
  <2>4. CASE at = "dispatch"
    <3>1. Claim(w) /\ Task(w) \in 1..MaxTasks
      BY <1>4, <2>2, <2>4, TaskIsNumber
      DEF Reports, ReportRaised, ReportDone, ReportFailed, Executing
    <3>2. tasks[Task(w)] = "pending" /\ tasks'[Task(w)] = "running"
      BY <2>2, <2>4, <3>1, ClaimSucceeds
    <3>3. /\ worker'[w].at = "dispatch" /\ Task(w)' = Task(w)
          /\ \A v \in Workers \ {w} : worker'[v] = worker[v]
      BY <2>2, <2>4, GotoOnly
    <3>4. starts[Task(w)] = 0 /\ \A v \in Workers : ~Holds(v, Task(w))
      BY <3>1, <3>2 DEF ClaimInv, Untouched
    <3>5. \A v \in Workers, t \in 1..MaxTasks :
            Holds(v, t)' <=> IF v = w THEN t = Task(w) ELSE Holds(v, t)
      BY <3>3 DEF Holds, Task
    <3>6. \A t \in 1..MaxTasks : Untouched(t)' => t # Task(w)
      <4> Task(w) \in DOMAIN tasks'
        BY <1>0, <2>2, <2>4 DEF TasksFollow, TypeOK, Executing
      <4> QED
        BY <3>2 DEF Untouched
    <3>7. \A t \in 1..MaxTasks : Untouched(t)' => starts'[t] = 0 /\ \A v \in Workers : ~Holds(v, t)'
      BY <1>0, <2>1, <3>5, <3>6, TouchedStays DEF ClaimInv
    <3>8. \A v \in Workers : worker'[v].at = "dispatch" => starts'[Task(v)'] = 0
      BY <2>1, <3>3, <3>4 DEF ClaimInv, Task
    <3>9. \A u, v \in Workers : \A t \in 1..MaxTasks : Holds(u, t)' /\ Holds(v, t)' => u = v
      BY <3>4, <3>5 DEF ClaimInv
    <3> QED
      BY <2>1, <3>7, <3>8, <3>9 DEF ClaimInv, DispatchedOnce
  <2> QED
    BY <2>3, <2>4
<1>5. ASSUME NEW w \in Workers, Dispatch(w) PROVE ClaimInv'
  <2>1. /\ worker[w].at = "dispatch" /\ Task(w) \in 1..MaxTasks
        /\ starts \in [1..MaxTasks -> Nat] /\ UNCHANGED tasks
    BY <1>5, TaskIsNumber DEF Dispatch, Executing, Reporting, TypeOK
  <2>2. /\ worker'[w].at = "guard" /\ Task(w)' = Task(w)
        /\ \A v \in Workers \ {w} : worker'[v] = worker[v]
    BY <1>0, <1>5 DEF Dispatch, Position, Task
  <2>3. \A t \in 1..MaxTasks : starts'[t] = IF t = Task(w) THEN starts[t] + 1 ELSE starts[t]
    BY <1>5, <2>1 DEF Dispatch
  <2>4. starts[Task(w)] = 0 /\ Holds(w, Task(w))
    BY <2>1 DEF ClaimInv, Holds
  <2>5. \A v \in Workers, t \in 1..MaxTasks : Holds(v, t)' <=> Holds(v, t)
    BY <2>1, <2>2 DEF Holds, Task
  <2>6. \A t \in 1..MaxTasks : Untouched(t)' => starts'[t] = 0 /\ \A v \in Workers : ~Holds(v, t)'
    BY <2>1, <2>3, <2>4, <2>5 DEF ClaimInv, Untouched
  <2>7. ASSUME NEW v \in Workers, worker'[v].at = "dispatch" PROVE starts'[Task(v)'] = 0
    <3>1. v # w /\ worker[v].at = "dispatch" /\ Task(v)' = Task(v)
      BY <2>2, <2>7 DEF Task
    <3>2. Task(v) \in 1..MaxTasks /\ Holds(v, Task(v))
      BY <3>1, TaskIsNumber DEF Executing, Reporting, Holds
    <3>3. Task(v) # Task(w)
      BY <2>1, <2>4, <3>1, <3>2 DEF ClaimInv
    <3> QED
      BY <2>3, <3>1, <3>2, <3>3 DEF ClaimInv
  <2>8. \A t \in 1..MaxTasks : starts'[t] <= 1
    BY <2>1, <2>3, <2>4 DEF ClaimInv, DispatchedOnce
  <2> QED
    BY <2>5, <2>6, <2>7, <2>8 DEF ClaimInv, DispatchedOnce
<1> QED
  BY <1>1, <1>2, <1>3, <1>4, <1>5
  DEF Next, vars, Workers, Poll, Execute, Reports, PostInstruction, Toggle, history

(* However many workers hold the same stale list, and whatever is lost, an instruction
   is dispatched once at most (chat.py, execute_chat_task). *)
THEOREM OneDispatch == Spec => []DispatchedOnce
<1>1. Init => ClaimInv
  BY DEF Init, ClaimInv, DispatchedOnce, Holds, Idle, Position
<1>2. ClaimInv => DispatchedOnce
  BY DEF ClaimInv
<1> QED
  BY <1>1, <1>2, TypeCorrect, NextClaim, PTL DEF Spec

-----------------------------------------------------------------------------
(* The end of a task, and the stop.                                        *)

\* Where a step takes a worker that takes it to "done" or "node", and what else changes there.
LEMMA Arrivals ==
  ASSUME TypeOK, [Next]_vars, NEW v \in Workers
  PROVE  /\ worker'[v].at = "done" =>
              \/ worker[v].at = "done" /\ Task(v)' = Task(v)
              \/ Task(v)' = Task(v) /\ results' = results \union {Task(v)}
         /\ worker'[v].at = "node" => worker[v].at = "node" \/ "stop" \notin halts
<1>0. worker \in [Workers -> Place]
  BY TypeParts DEF WorkersOK
<1>1. CASE UNCHANGED worker
  BY <1>1 DEF Task
<1>2. ASSUME NEW w \in Workers, \A u \in Workers \ {w} : worker'[u] = worker[u],
             worker'[w].at \notin {"done", "node"}
      PROVE  /\ worker'[v].at = "done" => worker[v].at = "done" /\ Task(v)' = Task(v)
             /\ worker'[v].at = "node" => worker[v].at = "node"
  BY <1>2 DEF Task
<1>3. ASSUME NEW w \in Workers,
             CheckStopped(w) \/ CheckBlocked(w) \/ PollFails(w) \/ Classify(w) \/ Reports(w)
      PROVE  /\ \A u \in Workers \ {w} : worker'[u] = worker[u]
             /\ worker'[w].at \notin {"done", "node"}
  <2>1. PICK at \in {"blocked?", "idle", "list", "claim", "outer", "work", "dispatch"} : Goto(w, at)
    BY <1>3, ReportSteps DEF CheckStopped, CheckBlocked, PollFails, Classify, Raised
  <2> QED
    BY <2>1, GotoOnly
<1>4. ASSUME NEW w \in Workers, ListPending(w) \/ TakeTask(w) \/ EndCycle(w) \/ Crash(w) \/ Dispatch(w)
      PROVE  /\ \A u \in Workers \ {w} : worker'[u] = worker[u]
             /\ worker'[w].at \notin {"done", "node"}
  BY <1>0, <1>4 DEF ListPending, TakeTask, EndCycle, Crash, Dispatch, Idle, Position
<1>5. ASSUME NEW w \in Workers, Instruct(w), worker' # worker
      PROVE  /\ \A u \in Workers \ {w} : worker'[u] = worker[u]
             /\ worker'[w].at \notin {"done", "node"}
  BY <1>0, <1>5 DEF Instruct, Position
<1>6. ASSUME NEW w \in Workers, Guard(w)
      PROVE  /\ \A u \in Workers \ {w} : worker'[u] = worker[u]
             /\ worker'[w].at # "done"
             /\ worker'[w].at = "node" => "stop" \notin halts
  <2>1. Goto(w, "error") \/ ("stop" \notin halts /\ Goto(w, "node"))
    BY <1>6 DEF Guard
  <2> QED
    BY <2>1, GotoOnly
<1>7. ASSUME NEW w \in Workers, RunNode(w)
      PROVE  /\ \A u \in Workers \ {w} : worker'[u] = worker[u]
             /\ worker'[w].at # "node" /\ Task(w)' = Task(w)
             /\ worker'[w].at = "done" => results' = results \union {Task(w)}
  <2>1. CASE Goto(w, "done") /\ results' = results \union {Task(w)}
    BY <2>1, GotoOnly
  <2>2. CASE Goto(w, "error")
    BY <2>2, GotoOnly
  <2>3. CASE worker' = [worker EXCEPT ![w] =
               Position("guard", worker[w].queue, worker[w].task, worker[w].node + 1)]
    BY <1>0, <2>3 DEF Position, Task
  <2> QED
    BY <1>7, <2>1, <2>2, <2>3 DEF RunNode
<1>8. CASE \E w \in Workers : Guard(w) \/ RunNode(w)
  BY <1>6, <1>7, <1>8 DEF Task
<1>9. CASE \E w \in Workers : \/ CheckStopped(w) \/ CheckBlocked(w) \/ PollFails(w) \/ Classify(w)
                              \/ Reports(w) \/ ListPending(w) \/ TakeTask(w) \/ EndCycle(w)
                              \/ Crash(w) \/ Dispatch(w) \/ (Instruct(w) /\ worker' # worker)
  BY <1>2, <1>3, <1>4, <1>5, <1>9
<1> QED
  BY <1>1, <1>8, <1>9
  DEF Next, vars, Workers, Poll, Execute, Reports, PostInstruction, Toggle, history

DoneInv ==
  /\ DoneHasResult
  /\ \A w \in Workers : worker[w].at = "done" => Task(w) \in results

\* Only a worker that has a result reports `done'.
LEMMA DoneIsReported ==
  ASSUME TypeOK, [Next]_vars, NEW t \in DOMAIN tasks', tasks'[t] = "done"
  PROVE  \/ t \in DOMAIN tasks /\ tasks[t] = "done"
         \/ \E w \in Workers : worker[w].at = "done" /\ Task(w) = t
<1>0. TasksFollow
  BY StepFollows
<1>1. ASSUME NEW w \in Workers, Reports(w), worker[w].at # "done"
      PROVE  t \in DOMAIN tasks /\ tasks[t] = "done"
  <2>1. Post(w, "failed", "work", "work") \/ Post(w, "running", "dispatch", Raised(w))
        \/ Post(w, "failed", Finished(w), Raised(w))
    BY <1>1 DEF Reports, ReportRaised, Claim, ReportDone, ReportFailed
  <2>2. Transition(Task(w), "failed") \/ Transition(Task(w), "running") \/ UNCHANGED tasks
    BY <2>1 DEF Post
  <2>3. worker[w].at \in Executing
    BY <1>1, ReportSteps
  <2>4. Task(w) \in DOMAIN tasks
    BY <2>3 DEF TypeOK
  <2> QED
    BY <2>2, <2>4, TransitionFollows DEF Transition, Status, Final
<1>2. CASE \E w \in Workers : Reports(w)
  <2>1. PICK w \in Workers : Reports(w)
    BY <1>2
  <2>2. CASE worker[w].at = "done"
    <3>1. \A u \in DOMAIN tasks : u # Task(w) => tasks'[u] = tasks[u]
      BY <2>1, ReportSteps
    <3> QED
      BY <1>0, <2>2, <3>1 DEF TasksFollow
  <2> QED
    BY <1>1, <2>1, <2>2
<1>3. CASE \/ UNCHANGED tasks \/ PostInstruction \/ \E w \in Callers : Instruct(w)
  <2> \A u \in DOMAIN tasks : tasks'[u] = tasks[u]
    BY <1>3, AppendFollows DEF PostInstruction, Instruct
  <2> QED
    BY <1>0 DEF TasksFollow
<1> QED
  BY <1>2, <1>3
  DEF Next, vars, Workers, Toggle, Poll, Execute, Reports, CheckStopped, CheckBlocked, ListPending,
      PollFails, TakeTask, EndCycle, Classify, Dispatch, Guard, RunNode, Crash

LEMMA ResultsGrow ==
  ASSUME [Next]_vars
  PROVE  results \subseteq results'
<1> USE DEF history
<1>1. ASSUME NEW w \in Workers, Poll(w) \/ PollFails(w) \/ Execute(w) \/ Crash(w) \/ Instruct(w)
      PROVE  results \subseteq results'
  BY <1>1 DEF Poll, Execute, CheckStopped, CheckBlocked, ListPending, PollFails, TakeTask, EndCycle,
              ReportRaised, Instruct, Classify, Claim, Dispatch, Guard, RunNode, ReportDone,
              ReportFailed, Crash
<1> QED
  BY <1>1 DEF Next, vars, Workers, PostInstruction, Toggle

(* A task is done only when its graph has run to the end, whatever is lost and whoever
   else reports on it (chat.py, 156). *)
THEOREM DoneHasResults == Spec => []DoneHasResult
<1>1. Init => DoneInv
  BY DEF Init, DoneInv, DoneHasResult, Idle, Position
<1>2. TypeOK /\ DoneInv /\ [Next]_vars => DoneInv'
  <2> SUFFICES ASSUME TypeOK, DoneInv, [Next]_vars PROVE DoneInv'
    OBVIOUS
  <2>1. DoneHasResult'
    BY DoneIsReported, ResultsGrow DEF DoneInv, DoneHasResult
  <2>2. \A w \in Workers : worker'[w].at = "done" => Task(w)' \in results'
    BY Arrivals, ResultsGrow DEF DoneInv
  <2> QED
    BY <2>1, <2>2 DEF DoneInv
<1>3. DoneInv => DoneHasResult
  BY DEF DoneInv
<1> QED
  BY <1>1, <1>2, <1>3, TypeCorrect, PTL DEF Spec

-----------------------------------------------------------------------------
\* Since the stop each worker has begun one node, or may begin one.
StopInv ==
  \A w \in Workers :
    IF "stop" \in halts THEN late[w] + (IF worker[w].at = "node" THEN 1 ELSE 0) <= 1
    ELSE late[w] = 0

LEMMA NextStop == TypeOK /\ StopInv /\ [Next]_vars => StopInv'
<1> SUFFICES ASSUME TypeOK, StopInv, [Next]_vars PROVE StopInv'
  OBVIOUS
<1>0. late \in [Workers -> Nat]
  BY DEF TypeOK
<1>1. CASE UNCHANGED <<halts, late>>
  <2>1. \A w \in Workers : worker'[w].at = "node" => worker[w].at = "node" \/ "stop" \notin halts
    BY Arrivals
  <2> QED
    BY <1>0, <1>1, <2>1 DEF StopInv
<1>2. ASSUME NEW halt \in {"stop", "learning"}, Toggle(halt) PROVE StopInv'
  <2>1. CASE halt = "stop"
    BY <1>2, <2>1 DEF Toggle, StopInv
  <2>2. CASE halt = "learning"
    BY <1>2, <2>2 DEF Toggle, StopInv
  <2> QED
    BY <2>1, <2>2
<1>3. ASSUME NEW w \in Workers, RunNode(w) PROVE StopInv'
  <2>1. worker[w].at = "node" /\ UNCHANGED halts
    BY <1>3 DEF RunNode
  <2>2. worker'[w].at # "node" /\ \A v \in Workers \ {w} : worker'[v] = worker[v]
    <3>1. CASE Goto(w, "done") \/ Goto(w, "error")
      BY <3>1, GotoOnly
    <3>2. CASE worker' = [worker EXCEPT ![w] =
                 Position("guard", worker[w].queue, worker[w].task, worker[w].node + 1)]
      <4> worker \in [Workers -> Place]
        BY TypeParts DEF WorkersOK
      <4> QED
        BY <3>2 DEF Position
    <3> QED
      BY <1>3, <3>1, <3>2 DEF RunNode
  <2>3. \A v \in Workers : late'[v] = IF v = w /\ "stop" \in halts THEN late[v] + 1 ELSE late[v]
    BY <1>0, <1>3 DEF RunNode
  <2> QED
    BY <1>0, <2>1, <2>2, <2>3 DEF StopInv
<1> QED
  BY <1>1, <1>2, <1>3
  DEF Next, vars, Workers, Poll, Execute, CheckStopped, CheckBlocked, ListPending, PollFails, TakeTask,
      EndCycle, ReportRaised, Instruct, Classify, Claim, Dispatch, Guard, ReportDone, ReportFailed,
      Crash, PostInstruction, history

(* After an emergency stop a worker begins one node at the most, however long the graph
   (guards.py, run_node_with_guard). *)
THEOREM StopsInterrupt == Spec => []StopInterrupts
<1>1. Init => StopInv
  BY DEF Init, StopInv
<1>2. TypeOK /\ StopInv => StopInterrupts
  <2> SUFFICES ASSUME TypeOK, StopInv, NEW w \in Workers PROVE late[w] <= 1
    BY DEF StopInterrupts
  <2>1. late[w] \in Nat
    BY DEF TypeOK
  <2> QED
    BY <2>1 DEF StopInv
<1> QED
  BY <1>1, <1>2, TypeCorrect, NextStop, PTL DEF Spec

-----------------------------------------------------------------------------
(* A running task has a worker that will report its end.                   *)

Reported(t) == \E w \in Workers : Task(w) = t /\ worker[w].at \in Reporting

\* A step of w alone, after which each running task is dropped, or is w's to report, or
\* was running before and is some other worker's to report.
Keeps(w) ==
  /\ \A v \in Workers \ {w} : worker'[v] = worker[v]
  /\ dropped \subseteq dropped'
  /\ \A t \in DOMAIN tasks' : tasks'[t] = "running" =>
       \/ t \in dropped'
       \/ Task(w)' = t /\ worker'[w].at \in Reporting
       \/ /\ t \in DOMAIN tasks /\ tasks[t] = "running"
          /\ ~(Task(w) = t /\ worker[w].at \in Reporting)

LEMMA KeepsRunning ==
  ASSUME RunningHasWorker, NEW w \in Workers, Keeps(w)
  PROVE  RunningHasWorker'
<1> SUFFICES ASSUME NEW t \in DOMAIN tasks', tasks'[t] = "running", t \notin dropped'
             PROVE  Reported(t)'
  BY DEF RunningHasWorker, Reported
<1>1. CASE Task(w)' = t /\ worker'[w].at \in Reporting
  BY <1>1 DEF Reported
<1>2. CASE /\ t \in DOMAIN tasks /\ tasks[t] = "running"
           /\ ~(Task(w) = t /\ worker[w].at \in Reporting)
  <2>1. t \notin dropped
    BY DEF Keeps
  <2>2. PICK v \in Workers : Task(v) = t /\ worker[v].at \in Reporting
    BY <1>2, <2>1 DEF RunningHasWorker
  <2>3. v # w /\ worker'[v] = worker[v]
    BY <1>2, <2>2 DEF Keeps
  <2> QED
    BY <2>2, <2>3 DEF Reported, Task
<1> QED
  BY <1>1, <1>2 DEF Keeps

\* Without a change of status, w may go on to report its task, or was not to report it.
LEMMA QuietKeeps ==
  ASSUME UNCHANGED <<tasks, dropped>>, NEW w \in Workers,
         \A v \in Workers \ {w} : worker'[v] = worker[v],
         \/ worker[w].at \notin Reporting
         \/ Task(w)' = Task(w) /\ worker'[w].at \in Reporting
  PROVE  Keeps(w)
  BY DEF Keeps

\* How a worker leaves its task when it reports on it.
LEMMA ReportKeeps ==
  ASSUME TypeOK, NEW w \in Workers, Reports(w)
  PROVE  Keeps(w)
<1>0. /\ TasksFollow /\ worker[w].at \in Executing /\ Task(w) \in DOMAIN tasks
      /\ \A u \in DOMAIN tasks : u # Task(w) => tasks'[u] = tasks[u]
      /\ dropped' \in {dropped, dropped \union {Task(w)}}
  BY ReportSteps DEF TypeOK
<1>1. /\ \A v \in Workers \ {w} : worker'[v] = worker[v]
      /\ Task(w)' = Task(w)
  BY ReportSteps, GotoOnly
<1>2. tasks'[Task(w)] = "running" =>
        \/ Task(w) \in dropped'
        \/ worker'[w].at \in Reporting
        \/ tasks[Task(w)] = "running" /\ worker[w].at \notin Reporting
  <2> SUFFICES ASSUME tasks'[Task(w)] = "running", Task(w) \notin dropped'
               PROVE  \/ worker'[w].at \in Reporting
                      \/ tasks[Task(w)] = "running" /\ worker[w].at \notin Reporting
    OBVIOUS
  <2>1. ASSUME NEW status \in Final, NEW ok, NEW ko, worker[w].at \in Reporting,
               Post(w, status, ok, ko)
        PROVE  ko = "outer" /\ worker'[w].at \in Reporting
    <3>1. ~Transition(Task(w), status)
      <4> SUFFICES ASSUME Transition(Task(w), status) PROVE FALSE
        OBVIOUS
      <4>1. tasks'[Task(w)] = IF status \in AllowedTransitions(tasks[Task(w)]) THEN status
                              ELSE tasks[Task(w)]
        BY <1>0, TransitionFollows DEF Status
      <4>2. tasks[Task(w)] = "running"
        BY <4>1 DEF Final
      <4> QED
        BY <4>1, <4>2 DEF AllowedTransitions, Final
    <3>2. Goto(w, ko) /\ (IF ko = "outer" THEN UNCHANGED dropped ELSE Drop(w))
      BY <2>1, <3>1 DEF Post
    <3>3. ko = "outer"
      BY <2>1, <3>2 DEF Drop
    <3> QED
      BY <3>2, <3>3, GotoOnly DEF Reporting
  <2>2. CASE ReportRaised(w) \/ ReportDone(w) \/ ReportFailed(w)
    <3>1. worker[w].at \in Reporting
      BY <2>2 DEF ReportRaised, ReportDone, ReportFailed, Reporting
    <3>2. \E status \in Final : \E ok, ko \in {"work", "idle", "outer"} : Post(w, status, ok, ko)
      BY <2>2 DEF ReportRaised, ReportDone, ReportFailed, Raised, Finished, Final
    <3> QED
      BY <2>1, <3>1, <3>2
  <2>3. CASE Claim(w)
    <3>1. worker[w].at \notin Reporting
      BY <2>3 DEF Claim, Reporting
    <3>2. CASE tasks' = tasks
      BY <3>1, <3>2
    <3>3. CASE tasks' # tasks
      <4>1. CASE Goto(w, "dispatch") \/ Goto(w, "outer")
        BY <4>1, GotoOnly DEF Reporting
      <4>2. CASE ~(Goto(w, "dispatch") \/ Goto(w, "outer"))
        <5>1. Drop(w)
          BY <2>3, <3>3, <4>2 DEF Claim, Post, Transition
        <5> QED
          BY <3>3, <5>1 DEF Drop
      <4> QED
        BY <4>1, <4>2
    <3> QED
      BY <3>2, <3>3
  <2> QED
    BY <2>2, <2>3 DEF Reports
<1>3. \A t \in DOMAIN tasks' \ DOMAIN tasks : tasks'[t] = "pending"
  BY <1>0 DEF TasksFollow
<1> QED
  BY <1>0, <1>1, <1>2, <1>3 DEF Keeps

LEMMA NextRunning == TypeOK /\ RunningHasWorker /\ [Next]_vars => RunningHasWorker'
<1> SUFFICES ASSUME TypeOK, RunningHasWorker, [Next]_vars PROVE RunningHasWorker'
  OBVIOUS
<1>0. worker \in [Workers -> Place]
  BY TypeParts DEF WorkersOK
<1>1. CASE UNCHANGED <<tasks, worker, dropped>>
  BY <1>1 DEF RunningHasWorker, Task
<1>2. CASE PostInstruction
  <2>1. /\ \A u \in DOMAIN tasks : tasks'[u] = tasks[u]
        /\ \A t \in DOMAIN tasks' \ DOMAIN tasks : tasks'[t] = "pending"
    BY <1>2, AppendFollows DEF PostInstruction, TasksFollow
  <2> QED
    BY <1>2, <2>1 DEF PostInstruction, history, RunningHasWorker, Task
<1>3. ASSUME NEW w \in Callers, Instruct(w) PROVE RunningHasWorker'
  <2>1. /\ \A u \in DOMAIN tasks : tasks'[u] = tasks[u]
        /\ \A t \in DOMAIN tasks' \ DOMAIN tasks : tasks'[t] = "pending"
    BY <1>3, AppendFollows DEF Instruct, TasksFollow
  <2>2. /\ worker[w].at \notin Reporting /\ UNCHANGED dropped /\ w \in Workers
        /\ \A v \in Workers \ {w} : worker'[v] = worker[v]
    BY <1>0, <1>3 DEF Instruct, Position, history, Reporting, Workers
  <2>3. Keeps(w)
    BY <2>1, <2>2 DEF Keeps
  <2> QED
    BY <2>2, <2>3, KeepsRunning
<1>4. ASSUME NEW w \in Workers, Reports(w) PROVE RunningHasWorker'
  BY <1>4, ReportKeeps, KeepsRunning
<1>5. ASSUME NEW w \in Workers,
             CheckStopped(w) \/ CheckBlocked(w) \/ PollFails(w) \/ Classify(w) \/ Guard(w)
      PROVE  RunningHasWorker'
  <2>1. PICK at \in {"blocked?", "idle", "list", "claim", "outer", "node", "error"} :
          Goto(w, at) /\ (worker[w].at \in Reporting => at \in Reporting)
    BY <1>5 DEF CheckStopped, CheckBlocked, PollFails, Classify, Guard, Raised, Reporting
  <2>2. UNCHANGED <<tasks, dropped>>
    BY <1>5 DEF CheckStopped, CheckBlocked, PollFails, Classify, Guard, history
  <2> QED
    BY <2>1, <2>2, GotoOnly, QuietKeeps, KeepsRunning
<1>6. ASSUME NEW w \in Workers, ListPending(w) \/ TakeTask(w) \/ EndCycle(w)
      PROVE  RunningHasWorker'
  <2>1. /\ worker[w].at \notin Reporting /\ UNCHANGED <<tasks, dropped>>
        /\ \A v \in Workers \ {w} : worker'[v] = worker[v]
    BY <1>0, <1>6 DEF ListPending, TakeTask, EndCycle, history, Reporting
  <2> QED
    BY <2>1, QuietKeeps, KeepsRunning
<1>7. ASSUME NEW w \in Workers, Dispatch(w) PROVE RunningHasWorker'
  <2>1. /\ worker'[w].at = "guard" /\ Task(w)' = Task(w) /\ UNCHANGED <<tasks, dropped>>
        /\ \A v \in Workers \ {w} : worker'[v] = worker[v]
    BY <1>0, <1>7 DEF Dispatch, Position, Task
  <2> QED
    BY <2>1, QuietKeeps, KeepsRunning DEF Reporting
<1>8. ASSUME NEW w \in Workers, RunNode(w) PROVE RunningHasWorker'
  <2>0. UNCHANGED <<tasks, dropped>>
    BY <1>8 DEF RunNode
  <2>1. CASE Goto(w, "done") \/ Goto(w, "error")
    BY <2>0, <2>1, GotoOnly, QuietKeeps, KeepsRunning DEF Reporting
  <2>2. CASE worker' = [worker EXCEPT ![w] =
               Position("guard", worker[w].queue, worker[w].task, worker[w].node + 1)]
    <3>1. /\ worker'[w].at = "guard" /\ Task(w)' = Task(w)
          /\ \A v \in Workers \ {w} : worker'[v] = worker[v]
      BY <1>0, <2>2 DEF Position, Task
    <3> QED
      BY <2>0, <3>1, QuietKeeps, KeepsRunning DEF Reporting
  <2> QED
    BY <1>8, <2>1, <2>2 DEF RunNode
<1>9. ASSUME NEW w \in Workers, Crash(w) PROVE RunningHasWorker'
  <2>1. /\ UNCHANGED tasks /\ dropped \subseteq dropped'
        /\ \A v \in Workers \ {w} : worker'[v] = worker[v]
    BY <1>0, <1>9 DEF Crash, Drop
  <2>2. worker[w].at \in Reporting /\ tasks[Task(w)] = "running" => Task(w) \in dropped'
    BY <1>9, <2>1 DEF Crash, Drop
  <2>3. Keeps(w)
    BY <2>1, <2>2 DEF Keeps
  <2> QED
    BY <2>3, KeepsRunning
<1> QED
  BY <1>1, <1>2, <1>3, <1>4, <1>5, <1>6, <1>7, <1>8, <1>9
  DEF Next, vars, Workers, Poll, Execute, Reports, Toggle

(* A running task has a worker that will report its end, unless a crash or a last lost
   report left it behind (runner.py, poll_once). *)
THEOREM RunningHasWorkers == Spec => []RunningHasWorker
<1>1. Init => RunningHasWorker
  BY DEF Init, RunningHasWorker
<1> QED
  BY <1>1, TypeCorrect, NextRunning, PTL DEF Spec
===============================================================================
