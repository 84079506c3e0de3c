--------------------------- MODULE ModelCallsProofs ---------------------------
(***************************************************************************)
(* The safety properties of AgentWorker, for every set of tasks, fallback  *)
(* chain, number of retries and all bounds.  Beside the types they need    *)
(* that a task goes one way only (OneWay): it waits in the queue once,     *)
(* then the worker has it, and only then is there a completion of it; and  *)
(* that memory and file agree about every task whose last status was       *)
(* written (FileAgrees).                                                   *)
(*                                                                         *)
(* The safety properties of LearningPipeline, for every set of scenarios   *)
(* and scores. What the lists of a run hold in each stage (Lists) is why   *)
(* joining them by place is sound; what the log says of a job is bounded   *)
(* by its checkpoints, with the trainings under way counted (LogInv).      *)
(***************************************************************************)
EXTENDS AgentWorker, LearningPipeline, FiniteSetTheorems, SequenceTheorems,
        NaturalsInduction, WellFoundedInduction, TLAPS

\* A task in the queue is pending, the model was not asked for it, and it waits once.
QueueIsFresh ==
  /\ \A i \in DOMAIN queue : table[queue[i]] = "pending" /\ call[queue[i]].at = "none"
  /\ \A i, j \in DOMAIN queue : queue[i] = queue[j] => i = j

\* So is a task the worker has just taken, and it does not wait any more.
TakenIsFresh ==
  worker.at = "taken" =>
    /\ table[worker.task] = "pending" /\ call[worker.task].at = "none"
    /\ \A i \in DOMAIN queue : queue[i] # worker.task

WaitingIsRunning == worker.at = "waiting" => table[worker.task] = "running"

\* The model is asked for tasks in the table only, and in the file if that can be read.
AskedIsKnown ==
  \A t \in Tasks : /\ call[t].at # "none" => table[t] # "none" /\ (torn \/ saved[t] # "none")
                   /\ call[t].at = "none" => call[t] = NoCall

OneWay == QueueIsFresh /\ TakenIsFresh /\ WaitingIsRunning /\ AskedIsKnown

\* Memory and file agree unless a write failed.
FileAgrees == \A t \in Tasks : t \notin unsaved => saved[t] = table[t]

IInv == TypeOK /\ OneWay /\ FileAgrees /\ TriesInOrder /\ PendingIsQueued

-----------------------------------------------------------------------------
(* 1 + max(num_retries, 0) is at least one attempt. *)
LEMMA AtLeastOneAttempt == Attempts \in Nat \ {0}
BY ChainAssumption DEF Attempts

(* Positions in the chain are numbers from one. *)
LEMMA CandidatesAreNumbers == Len(Chain) \in Nat /\ Candidates = 1..Len(Chain)
BY ChainAssumption DEF Candidates

LEMMA ByAction ==
  ASSUME [Next]_vars
  PROVE  \/ \E t \in Tasks : \/ Submit(t) \/ SubmitFails(t)
                             \/ Skip(t) \/ Send(t) \/ Answer(t) \/ Again(t) \/ Escape(t) \/ GiveUp(t)
         \/ Dequeue \/ Begin \/ End \/ BeginFails \/ ClientTimeout \/ Crash \/ Restart
         \/ UNCHANGED vars
BY DEF Next, GatewaySteps, WorkerSteps

-----------------------------------------------------------------------------
(* The types.                                                              *)

LEMMA InitTypeOK == Init => TypeOK
<1> SUFFICES ASSUME Init PROVE TypeOK
  OBVIOUS
<1>1. NoCall \in [at : {"none", "ready", "sent", "answered", "refused", "failed"},
                  candidate : Nat \ {0}, attempt : 1..Attempts]
  BY AtLeastOneAttempt DEF NoCall
<1>2. <<>> \in Seq(Tasks)
  OBVIOUS
<1> QED
  BY <1>1, <1>2 DEF Init, TypeOK, Resting, Statuses

LEMMA NextTypeOK == TypeOK /\ [Next]_vars => TypeOK'
<1> SUFFICES ASSUME TypeOK, [Next]_vars PROVE TypeOK'
  OBVIOUS
<1> Attempts \in Nat \ {0} /\ Len(Chain) \in Nat /\ Candidates = 1..Len(Chain)
  BY AtLeastOneAttempt, CandidatesAreNumbers
<1> USE DEF TypeOK, Statuses, Ended, taskQueue, gateway
<1>1. ASSUME NEW t \in Tasks, Submit(t) \/ SubmitFails(t) PROVE TypeOK'
  <2>1. CASE Submit(t)
    BY <2>1 DEF Submit, Set
  <2>2. CASE SubmitFails(t)
    <3>1. torn' \in BOOLEAN
      BY <2>2, Zenon DEF SubmitFails, SetUnsaved
    <3>2. /\ table' = [table EXCEPT ![t] = "pending"] /\ saved' = saved /\ faults' = faults + 1
          /\ unsaved' = unsaved \cup {t} /\ orphans' = orphans \cup {t}
          /\ UNCHANGED <<up, queue, worker, gateway>>
      BY <2>2 DEF SubmitFails, SetUnsaved, AFault
    <3> QED
      BY <3>1, <3>2
  <2> QED
    BY <1>1, <2>1, <2>2
<1>2. ASSUME NEW t \in Tasks, Skip(t) \/ Answer(t) \/ Again(t) \/ Escape(t) \/ GiveUp(t)
      PROVE  TypeOK'
  <2>1. PICK at \in {"ready", "answered", "refused", "failed"}, c \in Nat \ {0}, a \in 1..Attempts :
          Goes(t, at, c, a)
    <3>1. CASE Skip(t)
      BY <3>1 DEF Skip
    <3>2. CASE Answer(t)
      BY <3>2 DEF Answer
    <3>3. CASE Again(t)
      BY <3>3 DEF Again
    <3>4. CASE Escape(t) \/ GiveUp(t)
      BY <3>4 DEF Escape, GiveUp
    <3> QED
      BY <1>2, <3>1, <3>2, <3>3, <3>4
  <2>2. call' \in [Tasks -> [at : {"none", "ready", "sent", "answered", "refused", "failed"},
                             candidate : Nat \ {0}, attempt : 1..Attempts]]
    BY <2>1 DEF Goes
  <2> QED
    BY <1>2, <2>2 DEF Skip, Answer, Again, Escape, GiveUp
<1>3. ASSUME NEW t \in Tasks, Send(t) PROVE TypeOK'
  <2>1. tries' \in [Tasks -> [Candidates -> Nat]]
    BY <1>3 DEF Send
  <2>2. call' \in [Tasks -> [at : {"none", "ready", "sent", "answered", "refused", "failed"},
                             candidate : Nat \ {0}, attempt : 1..Attempts]]
    BY <1>3 DEF Send, Goes
  <2> QED
    BY <1>3, <2>1, <2>2 DEF Send
<1>4. CASE Dequeue
  BY <1>4 DEF Dequeue
<1>5. CASE Begin
  BY <1>5 DEF Begin, Set, Goes
<1>6. CASE BeginFails
  <2>1. torn' \in BOOLEAN
    BY <1>6, Zenon DEF BeginFails, SetUnsaved
  <2>2. /\ worker.task \in Tasks /\ table' = [table EXCEPT ![worker.task] = "running"]
        /\ saved' = saved /\ faults' = faults + 1
        /\ unsaved' = unsaved \cup {worker.task} /\ orphans' = orphans \cup {worker.task}
        /\ worker' = Resting /\ UNCHANGED <<up, queue, gateway>>
    BY <1>6 DEF BeginFails, SetUnsaved, AFault
  <2> QED
    BY <2>1, <2>2 DEF Resting
<1>7. CASE End
  <2>1. PICK new \in Ended :
          (Set(worker.task, new) /\ faults' = faults) \/ SetUnsaved(worker.task, new)
    BY <1>7 DEF End
  <2>3. torn' \in BOOLEAN
    BY <2>1, Zenon DEF Set, SetUnsaved
  <2>2. /\ table' \in [Tasks -> Statuses] /\ saved' \in [Tasks -> Statuses]
        /\ unsaved' \subseteq Tasks /\ faults' \in Nat
    <3>1. CASE Set(worker.task, new) /\ faults' = faults
      BY <1>7, <3>1 DEF End, Set
    <3>2. CASE SetUnsaved(worker.task, new)
      BY <1>7, <3>2 DEF End, SetUnsaved, AFault
    <3> QED
      BY <2>1, <3>1, <3>2
  <2> QED
    BY <1>7, <2>2, <2>3 DEF End, Resting
<1>8. CASE ClientTimeout
  BY <1>8 DEF ClientTimeout, Set, AFault, Resting
<1>9. CASE Crash
  <2>1. torn' \in BOOLEAN
    BY <1>9, Zenon DEF Crash
  <2>2. /\ up' = FALSE /\ faults' = faults + 1
        /\ UNCHANGED <<table, queue, saved, unsaved, orphans, worker, gateway>>
    BY <1>9, Zenon DEF Crash, AFault
  <2>3. faults' \in Nat /\ tries' \in [Tasks -> [Candidates -> Nat]]
    BY <2>2
  <2> QED
    BY <2>1, <2>2, <2>3
<1>10. CASE Restart
  BY <1>10 DEF Restart, Resting
<1>11. CASE UNCHANGED vars
  BY <1>11 DEF vars
<1> QED
  BY <1>1, <1>2, <1>3, <1>4, <1>5, <1>6, <1>7, <1>8, <1>9, <1>10, <1>11, ByAction

-----------------------------------------------------------------------------
(* The parts of the invariant.                                             *)

\* The completions and the requests made stay as they are.
LEMMA SameGatewaySameTries ==
  ASSUME TriesInOrder, UNCHANGED gateway PROVE TriesInOrder'
BY DEF TriesInOrder, gateway

LEMMA NextTriesInOrder == TypeOK /\ OneWay /\ TriesInOrder /\ [Next]_vars => TriesInOrder'
<1> SUFFICES ASSUME TypeOK, OneWay, TriesInOrder, [Next]_vars PROVE TriesInOrder'
  OBVIOUS
<1>0. Attempts \in Nat \ {0} /\ Len(Chain) \in Nat /\ Candidates = 1..Len(Chain)
  BY AtLeastOneAttempt, CandidatesAreNumbers
<1> DEFINE Due(t, c, k) == IF Chain[c] \notin Deployed \/ c > k.candidate THEN 0
                           ELSE IF c < k.candidate THEN Attempts
                           ELSE IF k.at \in {"none", "ready"} THEN k.attempt - 1 ELSE k.attempt
<1>1. \A t \in Tasks, c \in Candidates : tries[t][c] = Due(t, c, call[t])
  BY DEF TriesInOrder
<1>2. ASSUME NEW t \in Tasks, NEW k,
             \A u \in Tasks : call'[u] = IF u = t THEN k ELSE call[u],
             \A u \in Tasks \ {t} : tries'[u] = tries[u],
             \A c \in Candidates : tries'[t][c] = Due(t, c, k)
      PROVE  TriesInOrder'
  <2>1. ASSUME NEW u \in Tasks, NEW c \in Candidates PROVE tries'[u][c] = Due(u, c, call'[u])
    <3>1. CASE u = t
      BY <1>2, <3>1
    <3>2. CASE u # t
      <4>1. tries'[u] = tries[u] /\ call'[u] = call[u]
        BY <1>2, <3>2
      <4> QED
        BY <1>1, <4>1
    <3> QED
      BY <3>1, <3>2
  <2> QED
    BY <2>1 DEF TriesInOrder
<1>3. ASSUME NEW t \in Tasks, Skip(t) PROVE TriesInOrder'
  <2> DEFINE k == [at |-> "ready", candidate |-> call[t].candidate + 1, attempt |-> 1]
  <2>1. \A u \in Tasks : call'[u] = IF u = t THEN k ELSE call[u]
    BY <1>3 DEF Skip, Goes, TypeOK
  <2>2. \A c \in Candidates : tries[t][c] = Due(t, c, k)
    BY <1>0, <1>1, <1>3 DEF Skip, TypeOK
  <2> QED
    BY <1>2, <1>3, <2>1, <2>2 DEF Skip
<1>4. ASSUME NEW t \in Tasks, Send(t) PROVE TriesInOrder'
  <2> DEFINE n == call[t].candidate
             k == [at |-> "sent", candidate |-> n, attempt |-> call[t].attempt]
  <2>1. \A u \in Tasks : call'[u] = IF u = t THEN k ELSE call[u]
    BY <1>4 DEF Send, Goes, TypeOK
  <2>2. /\ \A u \in Tasks \ {t} : tries'[u] = tries[u]
        /\ \A c \in Candidates : tries'[t][c] = IF c = n THEN tries[t][n] + 1 ELSE tries[t][c]
    BY <1>4 DEF Send, TypeOK
  <2>3. n \in Candidates /\ Chain[n] \in Deployed /\ tries[t][n] = call[t].attempt - 1
    BY <1>0, <1>1, <1>4 DEF Send
  <2>4. \A c \in Candidates : tries'[t][c] = Due(t, c, k)
    <3>1. ASSUME NEW c \in Candidates PROVE tries'[t][c] = Due(t, c, k)
      <4>1. CASE c = n
        <5>1. tries'[t][c] = call[t].attempt
          BY <1>0, <2>2, <2>3, <4>1 DEF TypeOK
        <5> QED
          BY <1>0, <2>3, <4>1, <5>1
      <4>2. CASE c # n
        <5>1. tries'[t][c] = Due(t, c, call[t])
          BY <1>1, <2>2, <4>2
        <5> QED
          BY <1>0, <4>2, <5>1, <2>3
      <4> QED
        BY <4>1, <4>2
    <3> QED
      BY <3>1
  <2> QED
    BY <1>2, <2>1, <2>2, <2>4
<1>5. ASSUME NEW t \in Tasks, Answer(t) \/ Escape(t) PROVE TriesInOrder'
  <2>1. PICK at \in {"answered", "refused"} : Goes(t, at, call[t].candidate, call[t].attempt)
    BY <1>5 DEF Answer, Escape
  <2> DEFINE k == [at |-> at, candidate |-> call[t].candidate, attempt |-> call[t].attempt]
  <2>2. \A u \in Tasks : call'[u] = IF u = t THEN k ELSE call[u]
    BY <2>1 DEF Goes, TypeOK
  <2>3. call[t].at = "sent" /\ tries' = tries
    BY <1>5 DEF Answer, Escape
  <2>4. \A c \in Candidates : tries[t][c] = Due(t, c, k)
    BY <1>1, <2>3
  <2> QED
    BY <1>2, <2>2, <2>3, <2>4
<1>6. ASSUME NEW t \in Tasks, Again(t) PROVE TriesInOrder'
  <2>0. call[t].at = "sent" /\ tries' = tries /\ call[t].attempt \in 1..Attempts
        /\ call[t].candidate \in Nat
    BY <1>6 DEF Again, TypeOK
  <2>1. CASE call[t].attempt < Attempts
    <3> DEFINE k == [at |-> "ready", candidate |-> call[t].candidate, attempt |-> call[t].attempt + 1]
    <3>1. \A u \in Tasks : call'[u] = IF u = t THEN k ELSE call[u]
      BY <1>6, <2>1 DEF Again, Goes, TypeOK
    <3>2. \A c \in Candidates : tries[t][c] = Due(t, c, k)
      <4> TAKE c \in Candidates
      <4>1. tries[t][c] = Due(t, c, call[t])
        BY <1>1
      <4>2. (call[t].attempt + 1) - 1 = call[t].attempt
        BY <2>0, <1>0
      <4>3. Due(t, c, k) = Due(t, c, call[t])
        BY <2>0, <4>2
      <4> QED
        BY <4>1, <4>3
    <3> QED
      BY <1>2, <2>0, <3>1, <3>2
  <2>2. CASE ~ (call[t].attempt < Attempts)
    <3> DEFINE k == [at |-> "ready", candidate |-> call[t].candidate + 1, attempt |-> 1]
    <3>1. \A u \in Tasks : call'[u] = IF u = t THEN k ELSE call[u]
      BY <1>6, <2>2 DEF Again, Goes, TypeOK
    <3>2. call[t].attempt = Attempts
      BY <1>0, <2>0, <2>2
    <3>3. \A c \in Candidates : tries[t][c] = Due(t, c, k)
      BY <1>0, <1>1, <2>0, <3>2
    <3> QED
      BY <1>2, <2>0, <3>1, <3>3
  <2> QED
    BY <2>1, <2>2
<1>7. ASSUME NEW t \in Tasks, GiveUp(t) PROVE TriesInOrder'
  <2> DEFINE k == [at |-> "failed", candidate |-> call[t].candidate, attempt |-> 1]
  <2>1. \A u \in Tasks : call'[u] = IF u = t THEN k ELSE call[u]
    BY <1>7 DEF GiveUp, Goes, TypeOK
  <2>2. \A c \in Candidates : tries[t][c] = Due(t, c, k)
    BY <1>0, <1>1, <1>7 DEF GiveUp, TypeOK
  <2> QED
    BY <1>2, <1>7, <2>1, <2>2 DEF GiveUp
<1>8. CASE Begin
  <2> DEFINE t == worker.task
             k == [at |-> "ready", candidate |-> 1, attempt |-> 1]
  <2>0. t \in Tasks /\ call[t] = NoCall /\ tries' = tries
    BY <1>8 DEF Begin, OneWay, TakenIsFresh, AskedIsKnown, TypeOK
  <2>1. \A u \in Tasks : call'[u] = IF u = t THEN k ELSE call[u]
    BY <1>8, <2>0 DEF Begin, Goes, TypeOK
  <2>2. \A c \in Candidates : tries[t][c] = Due(t, c, k)
    BY <1>0, <1>1, <2>0 DEF NoCall
  <2> QED
    BY <1>2, <2>0, <2>1, <2>2
<1>9. CASE \/ Dequeue \/ End \/ BeginFails \/ ClientTimeout \/ Crash \/ Restart \/ UNCHANGED vars
         \/ \E t \in Tasks : Submit(t) \/ SubmitFails(t)
  <2>1. UNCHANGED gateway
    BY <1>9 DEF Dequeue, End, BeginFails, ClientTimeout, Crash, Restart, vars, Submit, SubmitFails, gateway
  <2> QED
    BY <2>1, SameGatewaySameTries
<1> QED
  BY <1>3, <1>4, <1>5, <1>6, <1>7, <1>8, <1>9, ByAction

\* The queue after put and get.
LEMMA QueueFacts ==
  ASSUME NEW q \in Seq(Tasks)
  PROVE  /\ Len(q) \in Nat /\ DOMAIN q = 1..Len(q)
         /\ \A t \in Tasks : /\ DOMAIN Append(q, t) = 1..(Len(q) + 1)
                            /\ \A i \in DOMAIN q : Append(q, t)[i] = q[i]
                            /\ Append(q, t)[Len(q) + 1] = t
         /\ q # <<>> => /\ 1 \in DOMAIN q /\ Head(q) = q[1]
                        /\ DOMAIN Tail(q) = 1..(Len(q) - 1)
                        /\ \A i \in DOMAIN Tail(q) : i + 1 \in DOMAIN q /\ Tail(q)[i] = q[i + 1]
<1>1. Len(q) \in Nat /\ DOMAIN q = 1..Len(q)
  OBVIOUS
<1>2. ASSUME NEW t \in Tasks
      PROVE  /\ DOMAIN Append(q, t) = 1..(Len(q) + 1)
             /\ \A i \in DOMAIN q : Append(q, t)[i] = q[i]
             /\ Append(q, t)[Len(q) + 1] = t
  OBVIOUS
<1>3. ASSUME q # <<>>
      PROVE  /\ 1 \in DOMAIN q /\ Head(q) = q[1]
             /\ DOMAIN Tail(q) = 1..(Len(q) - 1)
             /\ \A i \in DOMAIN Tail(q) : i + 1 \in DOMAIN q /\ Tail(q)[i] = q[i + 1]
  BY <1>3
<1> QED
  BY <1>1, <1>2, <1>3

\* A file that cannot be read stays so; the process does not come up again with it.
LEMMA TornStays == ASSUME [Next]_vars PROVE torn => torn'
<1> SUFFICES ASSUME torn PROVE torn'
  OBVIOUS
<1>1. CASE \E t \in Tasks : Submit(t) \/ SubmitFails(t)
  BY <1>1 DEF Submit, SubmitFails, Set, SetUnsaved
<1>2. CASE \E t \in Tasks : Skip(t) \/ Send(t) \/ Answer(t) \/ Again(t) \/ Escape(t) \/ GiveUp(t)
  BY <1>2 DEF Skip, Send, Answer, Again, Escape, GiveUp, taskQueue
<1>3. CASE Begin \/ End \/ BeginFails \/ ClientTimeout
  BY <1>3 DEF Begin, End, BeginFails, ClientTimeout, Set, SetUnsaved
<1>4. CASE Crash
  BY <1>4, Zenon DEF Crash
<1>5. CASE Dequeue \/ Restart \/ UNCHANGED vars
  BY <1>5 DEF Dequeue, Restart, vars, taskQueue
<1> QED
  BY <1>1, <1>2, <1>3, <1>4, <1>5, ByAction

LEMMA NextOneWay == TypeOK /\ OneWay /\ [Next]_vars => OneWay'
<1> SUFFICES ASSUME TypeOK, OneWay, [Next]_vars, torn => torn' PROVE OneWay'
  BY TornStays
<1>0. /\ queue \in Seq(Tasks) /\ \A i \in DOMAIN queue : queue[i] \in Tasks
      /\ table \in [Tasks -> Statuses] /\ saved \in [Tasks -> Statuses]
      /\ DOMAIN call = Tasks /\ (worker.at # "idle" => worker.task \in Tasks)
  BY DEF TypeOK
<1> USE DEF OneWay
<1>1. ASSUME NEW t \in Tasks, Submit(t) PROVE OneWay'
  <2>1. /\ table[t] = "none" /\ queue' = Append(queue, t) /\ UNCHANGED <<worker, call>>
        /\ table' = [table EXCEPT ![t] = "pending"]
        /\ saved' = IF torn THEN saved ELSE [saved EXCEPT ![t] = "pending"]
    BY <1>1 DEF Submit, Set, gateway
  <2>2. /\ call[t].at = "none" /\ (\A i \in DOMAIN queue : queue[i] # t)
        /\ (worker.at \in {"taken", "waiting"} => worker.task # t)
    BY <2>1 DEF QueueIsFresh, TakenIsFresh, WaitingIsRunning, AskedIsKnown
  <2>3. /\ table'[t] = "pending"
        /\ \A u \in Tasks \ {t} : table'[u] = table[u] /\ saved'[u] = saved[u]
    BY <1>0, <2>1
  <2>4. \A i \in DOMAIN queue' :
          \/ (i \in DOMAIN queue /\ queue'[i] = queue[i] /\ queue[i] \in Tasks \ {t})
          \/ (i = Len(queue) + 1 /\ queue'[i] = t)
    <3> SUFFICES ASSUME NEW i \in DOMAIN queue'
                 PROVE  \/ (i \in DOMAIN queue /\ queue'[i] = queue[i] /\ queue[i] \in Tasks \ {t})
                        \/ (i = Len(queue) + 1 /\ queue'[i] = t)
      OBVIOUS
    <3>1. i \in DOMAIN queue \/ i = Len(queue) + 1
      BY <1>0, <2>1, QueueFacts
    <3>2. queue'[Len(queue) + 1] = t /\ \A j \in DOMAIN queue : queue'[j] = queue[j]
      BY <1>0, <2>1, QueueFacts
    <3> QED
      BY <1>0, <2>2, <3>1, <3>2
  <2>5. QueueIsFresh'
    <3>1. \A i \in DOMAIN queue' : table'[queue'[i]] = "pending" /\ call'[queue'[i]].at = "none"
      BY <2>1, <2>2, <2>3, <2>4 DEF QueueIsFresh
    <3>2. \A i, j \in DOMAIN queue' : queue'[i] = queue'[j] => i = j
      BY <2>4 DEF QueueIsFresh
    <3> QED
      BY <3>1, <3>2 DEF QueueIsFresh
  <2>6. TakenIsFresh'
    BY <1>0, <2>1, <2>2, <2>3, <2>4 DEF TakenIsFresh
  <2>7. WaitingIsRunning'
    BY <1>0, <2>1, <2>2, <2>3 DEF WaitingIsRunning
  <2>8. AskedIsKnown'
    BY <2>1, <2>2, <2>3 DEF AskedIsKnown
  <2> QED
    BY <2>5, <2>6, <2>7, <2>8
<1>2. ASSUME NEW t \in Tasks, SubmitFails(t) PROVE OneWay'
  <2>1. /\ table[t] = "none" /\ UNCHANGED <<queue, worker, call, saved>>
        /\ table' = [table EXCEPT ![t] = "pending"]
    BY <1>2 DEF SubmitFails, SetUnsaved, gateway
  <2>2. /\ call[t].at = "none" /\ (\A i \in DOMAIN queue : queue[i] # t)
        /\ (worker.at \in {"taken", "waiting"} => worker.task # t)
    BY <2>1 DEF QueueIsFresh, TakenIsFresh, WaitingIsRunning, AskedIsKnown
  <2>3. table'[t] = "pending" /\ \A u \in Tasks \ {t} : table'[u] = table[u]
    BY <1>0, <2>1
  <2>4. QueueIsFresh'
    BY <1>0, <2>1, <2>2, <2>3 DEF QueueIsFresh
  <2>5. TakenIsFresh' /\ WaitingIsRunning'
    BY <1>0, <2>1, <2>2, <2>3 DEF TakenIsFresh, WaitingIsRunning
  <2>6. AskedIsKnown'
    BY <2>1, <2>2, <2>3 DEF AskedIsKnown
  <2> QED
    BY <2>4, <2>5, <2>6
<1>3. ASSUME NEW t \in Tasks,
             Skip(t) \/ Send(t) \/ Answer(t) \/ Again(t) \/ Escape(t) \/ GiveUp(t)
      PROVE  OneWay'
  <2>1. call[t].at # "none" /\ UNCHANGED <<queue, worker, table, saved>>
    BY <1>3 DEF Skip, Send, Answer, Again, Escape, GiveUp, taskQueue
  <2>2. PICK at, c, a : Goes(t, at, c, a) /\ at # "none"
    BY <1>3 DEF Skip, Send, Answer, Again, Escape, GiveUp
  <2>3. call'[t].at # "none" /\ \A u \in Tasks \ {t} : call'[u] = call[u]
    BY <1>0, <2>2 DEF Goes
  <2>4. /\ \A i \in DOMAIN queue : queue[i] # t
        /\ worker.at = "taken" => worker.task # t
    BY <2>1 DEF QueueIsFresh, TakenIsFresh
  <2>5. QueueIsFresh'
    BY <1>0, <2>1, <2>3, <2>4 DEF QueueIsFresh
  <2>6. TakenIsFresh' /\ WaitingIsRunning'
    BY <1>0, <2>1, <2>3, <2>4 DEF TakenIsFresh, WaitingIsRunning
  <2>7. AskedIsKnown'
    BY <2>1, <2>3 DEF AskedIsKnown
  <2> QED
    BY <2>5, <2>6, <2>7
<1>4. CASE Dequeue
  <2>1. /\ queue # <<>> /\ worker' = [at |-> "taken", task |-> Head(queue)] /\ queue' = Tail(queue)
        /\ UNCHANGED <<table, saved, call>>
    BY <1>4 DEF Dequeue, gateway
  <2>2. 1 \in DOMAIN queue /\ Head(queue) = queue[1]
    BY <1>0, <2>1, QueueFacts
  <2>3. \A i \in DOMAIN queue' : i + 1 \in DOMAIN queue /\ i + 1 # 1 /\ queue'[i] = queue[i + 1] /\ i \in Nat
    BY <1>0, <2>1, QueueFacts
  <2>4. QueueIsFresh'
    <3>1. \A i \in DOMAIN queue' : table'[queue'[i]] = "pending" /\ call'[queue'[i]].at = "none"
      BY <2>1, <2>3 DEF QueueIsFresh
    <3>2. \A i, j \in DOMAIN queue' : queue'[i] = queue'[j] => i = j
      BY <2>3 DEF QueueIsFresh
    <3> QED
      BY <3>1, <3>2 DEF QueueIsFresh
  <2>5. TakenIsFresh'
    <3>1. worker'.task = queue[1]
      BY <2>1, <2>2
    <3>2. \A i \in DOMAIN queue' : queue'[i] # queue[1]
      BY <2>2, <2>3 DEF QueueIsFresh
    <3> QED
      BY <2>1, <2>2, <3>1, <3>2 DEF TakenIsFresh, QueueIsFresh
  <2>6. WaitingIsRunning' /\ AskedIsKnown'
    BY <2>1 DEF WaitingIsRunning, AskedIsKnown
  <2> QED
    BY <2>4, <2>5, <2>6
<1>5. CASE Begin
  <2> DEFINE t == worker.task
  <2>1. /\ worker.at = "taken" /\ worker' = [at |-> "waiting", task |-> t] /\ queue' = queue
        /\ table' = [table EXCEPT ![t] = "running"]
        /\ saved' = IF torn THEN saved ELSE [saved EXCEPT ![t] = "running"]
        /\ Goes(t, "ready", 1, 1)
    BY <1>5 DEF Begin, Set
  <2>2. t \in Tasks /\ \A i \in DOMAIN queue : queue[i] # t
    BY <1>0, <2>1 DEF TakenIsFresh
  <2>3. /\ table'[t] = "running" /\ (torn \/ saved'[t] = "running") /\ call'[t].at = "ready"
        /\ \A u \in Tasks \ {t} : table'[u] = table[u] /\ saved'[u] = saved[u] /\ call'[u] = call[u]
    BY <1>0, <2>1, <2>2 DEF Goes
  <2>4. QueueIsFresh'
    BY <1>0, <2>1, <2>2, <2>3 DEF QueueIsFresh
  <2>5. TakenIsFresh' /\ WaitingIsRunning'
    BY <2>1, <2>3 DEF TakenIsFresh, WaitingIsRunning
  <2>6. AskedIsKnown'
    BY <2>3 DEF AskedIsKnown
  <2> QED
    BY <2>4, <2>5, <2>6
<1>6. CASE BeginFails \/ End \/ ClientTimeout
  <2> DEFINE t == worker.task
  <2>1. /\ worker.at # "idle" /\ worker' = Resting /\ UNCHANGED <<queue, call>>
        /\ \E new \in {"running", "done", "failed"} :
             Set(t, new) \/ SetUnsaved(t, new)
    BY <1>6 DEF BeginFails, End, ClientTimeout, gateway
  <2>2. t \in Tasks /\ \A i \in DOMAIN queue : queue[i] # t
    BY <1>0, <1>6 DEF BeginFails, End, ClientTimeout, TakenIsFresh, WaitingIsRunning, QueueIsFresh
  <2>3. /\ table'[t] # "none" /\ (saved[t] # "none" => saved'[t] # "none")
        /\ \A u \in Tasks \ {t} : table'[u] = table[u] /\ saved'[u] = saved[u]
    <3>1. PICK new \in {"running", "done", "failed"} : Set(t, new) \/ SetUnsaved(t, new)
      BY <2>1
    <3>2. /\ table' = [table EXCEPT ![t] = new]
          /\ saved' = saved \/ saved' = [saved EXCEPT ![t] = new]
      BY <3>1 DEF Set, SetUnsaved
    <3> QED
      BY <1>0, <2>2, <3>1, <3>2
  <2>4. QueueIsFresh'
    BY <1>0, <2>1, <2>2, <2>3 DEF QueueIsFresh
  <2>5. TakenIsFresh' /\ WaitingIsRunning'
    BY <2>1 DEF TakenIsFresh, WaitingIsRunning, Resting
  <2>6. AskedIsKnown'
    BY <2>1, <2>3 DEF AskedIsKnown
  <2> QED
    BY <2>4, <2>5, <2>6
<1>7. CASE Crash \/ UNCHANGED vars
  <2>1. UNCHANGED <<queue, worker, table, saved, call>>
    BY <1>7, Zenon DEF Crash, vars, taskQueue, gateway
  <2> QED
    BY <2>1 DEF QueueIsFresh, TakenIsFresh, WaitingIsRunning, AskedIsKnown
<1>8. CASE Restart
  <2>1. table' = saved /\ queue' = <<>> /\ worker' = Resting /\ UNCHANGED <<saved, call>>
        /\ ~ torn
    BY <1>8 DEF Restart, gateway
  <2>2. QueueIsFresh'
    BY <2>1 DEF QueueIsFresh
  <2>3. TakenIsFresh' /\ WaitingIsRunning'
    BY <2>1 DEF TakenIsFresh, WaitingIsRunning, Resting
  <2>4. AskedIsKnown'
    BY <2>1 DEF AskedIsKnown
  <2> QED
    BY <2>2, <2>3, <2>4
<1> QED
  BY <1>1, <1>2, <1>3, <1>4, <1>5, <1>6, <1>7, <1>8, ByAction

\* What an action does to the status of the tasks.
LEMMA StatusSteps ==
  ASSUME TypeOK, [Next]_vars
  PROVE  \/ \E t \in Tasks, new \in Statuses : Set(t, new) \/ SetUnsaved(t, new)
         \/ UNCHANGED <<table, saved, unsaved>>
         \/ Restart
<1> USE DEF Statuses, Ended, taskQueue
<1>1. CASE \E t \in Tasks : Submit(t) \/ SubmitFails(t)
  BY <1>1 DEF Submit, SubmitFails
<1>2. CASE \E t \in Tasks : Skip(t) \/ Send(t) \/ Answer(t) \/ Again(t) \/ Escape(t) \/ GiveUp(t)
  BY <1>2 DEF Skip, Send, Answer, Again, Escape, GiveUp
<1>3. CASE Dequeue \/ UNCHANGED vars
  BY <1>3 DEF Dequeue, vars
<1>4. CASE Begin \/ BeginFails \/ End \/ ClientTimeout
  <2>1. worker.task \in Tasks
    BY <1>4 DEF Begin, BeginFails, End, ClientTimeout, TypeOK
  <2> QED
    BY <1>4, <2>1 DEF Begin, BeginFails, End, ClientTimeout
<1>5. CASE Crash
  BY <1>5, Zenon DEF Crash
<1> QED
  BY <1>1, <1>2, <1>3, <1>4, <1>5, ByAction

LEMMA NextFileAgrees == TypeOK /\ FileAgrees /\ [Next]_vars => FileAgrees'
<1> SUFFICES ASSUME TypeOK, FileAgrees, [Next]_vars, NEW u \in Tasks, u \notin unsaved'
             PROVE  saved'[u] = table'[u]
  BY DEF FileAgrees
<1>1. ASSUME NEW t \in Tasks, NEW new \in Statuses, Set(t, new) \/ SetUnsaved(t, new)
      PROVE  saved'[u] = table'[u]
  BY <1>1 DEF Set, SetUnsaved, FileAgrees, TypeOK
<1>2. CASE UNCHANGED <<table, saved, unsaved>>
  BY <1>2 DEF FileAgrees
<1>3. CASE Restart
  BY <1>3 DEF Restart
<1> QED
  BY <1>1, <1>2, <1>3, StatusSteps

LEMMA NextPendingIsQueued ==
  TypeOK /\ OneWay /\ PendingIsQueued /\ [Next]_vars => PendingIsQueued'
<1> SUFFICES ASSUME TypeOK, OneWay, PendingIsQueued, [Next]_vars,
                    up', NEW u \in Tasks, table'[u] = "pending", u \notin orphans'
             PROVE  \/ \E i \in DOMAIN queue' :
                         queue'[i] = u /\ \A j \in DOMAIN queue' : queue'[j] = u => j = i
                    \/ worker' = [at |-> "taken", task |-> u]
  BY DEF PendingIsQueued
<1>0. /\ queue \in Seq(Tasks) /\ table \in [Tasks -> Statuses]
      /\ \A i, j \in DOMAIN queue' : queue'[i] = queue'[j] => i = j
  BY NextOneWay DEF TypeOK, OneWay, QueueIsFresh
<1> SUFFICES (\E i \in DOMAIN queue' : queue'[i] = u) \/ worker' = [at |-> "taken", task |-> u]
  BY <1>0
<1>1. up /\ table[u] = "pending" /\ u \notin orphans =>
        (\E i \in DOMAIN queue : queue[i] = u) \/ worker = [at |-> "taken", task |-> u]
  BY DEF PendingIsQueued
<1>2. ASSUME NEW t \in Tasks, Submit(t)
      PROVE  (\E i \in DOMAIN queue' : queue'[i] = u) \/ worker' = [at |-> "taken", task |-> u]
  <2>1. queue' = Append(queue, t) /\ UNCHANGED <<up, orphans, worker>>
        /\ table' = [table EXCEPT ![t] = "pending"]
    BY <1>2 DEF Submit, Set
  <2>2. /\ DOMAIN queue' = 1..(Len(queue) + 1) /\ Len(queue) \in Nat /\ DOMAIN queue = 1..Len(queue)
        /\ queue'[Len(queue) + 1] = t /\ \A i \in DOMAIN queue : queue'[i] = queue[i]
    BY <1>0, <2>1, QueueFacts
  <2>3. CASE u = t
    BY <2>2, <2>3
  <2>4. CASE u # t
    <3>1. table[u] = "pending"
      BY <1>0, <2>1, <2>4
    <3> QED
      BY <1>1, <2>1, <2>2, <3>1
  <2> QED
    BY <2>3, <2>4
<1>3. ASSUME NEW t \in Tasks, SubmitFails(t)
      PROVE  (\E i \in DOMAIN queue' : queue'[i] = u) \/ worker' = [at |-> "taken", task |-> u]
  <2>1. u # t /\ u \notin orphans /\ UNCHANGED <<up, queue, worker>>
        /\ table' = [table EXCEPT ![t] = "pending"]
    BY <1>3 DEF SubmitFails, SetUnsaved
  <2>2. table[u] = "pending"
    BY <1>0, <2>1
  <2> QED
    BY <1>1, <2>1, <2>2
<1>4. CASE Dequeue
  <2>1. /\ queue # <<>> /\ worker.at = "idle" /\ worker' = [at |-> "taken", task |-> Head(queue)]
        /\ queue' = Tail(queue) /\ UNCHANGED <<up, table, orphans>>
    BY <1>4 DEF Dequeue
  <2>2. PICK i \in DOMAIN queue : queue[i] = u
    BY <1>1, <2>1
  <2>3. CASE i = 1
    BY <1>0, <2>1, <2>2, <2>3, QueueFacts
  <2>4. CASE i # 1
    <3>1. /\ DOMAIN queue = 1..Len(queue) /\ Len(queue) \in Nat
          /\ DOMAIN queue' = 1..(Len(queue) - 1)
          /\ \A j \in DOMAIN queue' : queue'[j] = queue[j + 1]
      BY <1>0, <2>1, QueueFacts
    <3>2. i - 1 \in DOMAIN queue' /\ (i - 1) + 1 = i
      BY <2>4, <3>1
    <3> QED
      BY <2>2, <3>1, <3>2
  <2> QED
    BY <2>3, <2>4
<1>5. CASE Begin \/ BeginFails \/ End \/ ClientTimeout
  <2> DEFINE t == worker.task
  <2>1. /\ worker.at # "idle" /\ UNCHANGED <<up, queue>> /\ u \notin orphans /\ t \in Tasks
        /\ \E new \in {"running", "done", "failed"} : Set(t, new) \/ SetUnsaved(t, new)
    BY <1>5 DEF Begin, BeginFails, End, ClientTimeout, TypeOK
  <2>2. u # t /\ table[u] = "pending"
    BY <1>0, <2>1 DEF Set, SetUnsaved
  <2>3. worker # [at |-> "taken", task |-> u]
    BY <2>2
  <2> QED
    BY <1>1, <1>5, <2>1, <2>2, <2>3 DEF Begin, BeginFails, End, ClientTimeout
<1>6. CASE Restart
  BY <1>6 DEF Restart, Ended
<1>7. CASE Crash
  BY <1>7, Zenon DEF Crash
<1>8. CASE UNCHANGED vars \/ \E t \in Tasks :
             Skip(t) \/ Send(t) \/ Answer(t) \/ Again(t) \/ Escape(t) \/ GiveUp(t)
  <2>1. UNCHANGED <<up, table, queue, orphans, worker>>
    BY <1>8 DEF Skip, Send, Answer, Again, Escape, GiveUp, vars, taskQueue
  <2> QED
    BY <1>1, <2>1
<1> QED
  BY <1>2, <1>3, <1>4, <1>5, <1>6, <1>7, <1>8, ByAction

-----------------------------------------------------------------------------
(* The theorems.                                                           *)

LEMMA InitIInv == Init => IInv
<1> SUFFICES ASSUME Init PROVE IInv
  OBVIOUS
<1>1. TypeOK
  BY InitTypeOK
<1>2. OneWay /\ FileAgrees /\ PendingIsQueued
  BY DEF Init, OneWay, QueueIsFresh, TakenIsFresh, WaitingIsRunning, AskedIsKnown, FileAgrees,
         PendingIsQueued, Resting, NoCall
<1>3. ASSUME NEW t \in Tasks, NEW c \in Candidates
      PROVE  call[t].candidate = 1 /\ call[t].at = "none" /\ call[t].attempt = 1 /\ tries[t][c] = 0
  BY DEF Init, NoCall
<1>4. TriesInOrder
  BY <1>3, CandidatesAreNumbers DEF TriesInOrder
<1> QED
  BY <1>1, <1>2, <1>4 DEF IInv

LEMMA NextIInv == IInv /\ [Next]_vars => IInv'
BY NextTypeOK, NextOneWay, NextFileAgrees, NextTriesInOrder, NextPendingIsQueued DEF IInv

(* Every reachable state satisfies the inductive invariant, over crashes, failed writes
   and lost answers. *)
THEOREM Invariance == Spec => []IInv
BY InitIInv, NextIInv, PTL DEF Spec

(* Queue, file, worker and completions hold what task_queue.py and router.py put there. *)
THEOREM TypeCorrect == Spec => []TypeOK
<1>1. IInv => TypeOK
  BY DEF IInv
<1> QED
  BY <1>1, Invariance, PTL

(* completion asks a fallback only after every candidate before it was asked
   1 + max(num_retries, 0) times, and asks none more often, for every chain. *)
THEOREM FallbackComesLast == Spec => []TriesInOrder
<1>1. IInv => TriesInOrder
  BY DEF IInv
<1> QED
  BY <1>1, Invariance, PTL

(* A pending task of TaskQueue is in its queue exactly once, or just taken, or was
   orphaned by a restart or a failed write. *)
THEOREM NothingIsForgotten == Spec => []PendingIsQueued
<1>1. IInv => PendingIsQueued
  BY DEF IInv
<1> QED
  BY <1>1, Invariance, PTL

(* What ended and was written keeps its end, in memory and over restarts. *)
THEOREM EndsAreKept == Spec => EndSurvives
<1>1. IInv /\ [Next]_vars =>
        [\A t \in Tasks : table[t] \in Ended /\ t \notin unsaved => table'[t] = table[t]]_vars
  <2> SUFFICES ASSUME IInv, [Next]_vars, NEW t \in Tasks, table[t] \in Ended, t \notin unsaved
               PROVE  table'[t] = table[t]
    OBVIOUS
  <2> TypeOK /\ OneWay /\ FileAgrees
    BY DEF IInv
  <2>0. table[t] \notin {"none", "pending", "running"} /\ table \in [Tasks -> Statuses]
    BY DEF Ended, TypeOK
  <2>1. ASSUME NEW u \in Tasks, Submit(u) \/ SubmitFails(u) PROVE table'[t] = table[t]
    BY <2>0, <2>1 DEF Submit, SubmitFails, Set, SetUnsaved
  <2>2. CASE Begin \/ BeginFails \/ End \/ ClientTimeout
    <3>1. worker.task # t
      BY <2>0, <2>2 DEF Begin, BeginFails, End, ClientTimeout, OneWay, TakenIsFresh, WaitingIsRunning
    <3>2. \E new \in {"running", "done", "failed"} :
            Set(worker.task, new) \/ SetUnsaved(worker.task, new)
      BY <2>2 DEF Begin, BeginFails, End, ClientTimeout
    <3> QED
      BY <2>0, <3>1, <3>2 DEF Set, SetUnsaved
  <2>3. CASE Restart
    BY <2>3 DEF Restart, FileAgrees
  <2>4. CASE Crash
    BY <2>4, Zenon DEF Crash
  <2>5. CASE \/ Dequeue \/ UNCHANGED vars
           \/ \E u \in Tasks : Skip(u) \/ Send(u) \/ Answer(u) \/ Again(u) \/ Escape(u) \/ GiveUp(u)
    BY <2>5 DEF Dequeue, vars, Skip, Send, Answer, Again, Escape, GiveUp, taskQueue
  <2> QED
    BY <2>1, <2>2, <2>3, <2>4, <2>5, ByAction
<1> QED
  BY <1>1, Invariance, PTL DEF Spec, EndSurvives

-----------------------------------------------------------------------------
(* LearningPipeline: counting and recursion.                               *)

(* Induction up to L, for a set of numbers. *)
LEMMA CountUp ==
  ASSUME NEW L \in Nat, NEW S, 0 \in S, \A n \in 0..(L - 1) : n \in S => n + 1 \in S
  PROVE  \A n \in 0..L : n \in S
<1> DEFINE B == {n \in Nat : n =< L /\ n \notin S}
<1> SUFFICES ASSUME B # {} PROVE FALSE
  OBVIOUS
<1>1. B \in SUBSET Nat
  OBVIOUS
<1> DEFINE R == OpToRel(<, Nat)
<1>2. \A x, y \in Nat : y < x => <<y, x>> \in R
  BY DEF OpToRel
<1>3. IsWellFoundedOn(R, Nat)
  BY NatLessThanWellFounded
<1> HIDE DEF B, R
<1>4. PICK k \in B : \A m \in B : ~ (<<m, k>> \in R)
  BY <1>1, <1>3, WFMin
<1>5. \A m \in B : ~ (m < k)
  BY <1>1, <1>2, <1>4, Zenon
<1>6. k \in Nat /\ k =< L /\ k \notin S
  BY DEF B
<1>7. k # 0
  BY <1>6
<1>8. k - 1 \in 0..(L - 1) /\ k - 1 \notin B
  BY <1>5, <1>6, <1>7
<1>9. k - 1 \in S
  BY <1>6, <1>7, <1>8 DEF B
<1> QED BY <1>6, <1>8, <1>9

(* The records that build_sft_dataset has after the first n trajectories. *)
LEMMA PassedUpto ==
  ASSUME NEW all, NEW evaluated, Len(all) \in Nat
  PROVE \E f : /\ f[0] = <<>>
               /\ \A n \in 1..Len(all) : f[n] = IF evaluated[n].passed THEN Append(f[n - 1], all[n]) ELSE f[n - 1]
               /\ PassedOf(all, evaluated) = f[Len(all)]
<1> DEFINE L == Len(all)
           Body(f, n) == IF n = 0 THEN <<>> ELSE IF evaluated[n].passed THEN Append(f[n - 1], all[n]) ELSE f[n - 1]
           F == CHOOSE f : f = [n \in 0..L |-> Body(f, n)]
           S == {m \in 0..L : \E f : f = [n \in 0..m |-> Body(f, n)]}
<1>1. 0 \in S
  <2> DEFINE f == [n \in 0..0 |-> <<>>]
  <2>1. f = [n \in 0..0 |-> Body(f, n)]
    OBVIOUS
  <2> HIDE DEF Body, f
  <2>2. \E h : h = [n \in 0..0 |-> Body(h, n)]
    BY <2>1
  <2> QED BY <2>2
<1>2. ASSUME NEW m \in 0..(L - 1), m \in S PROVE m + 1 \in S
  <2>1. PICK f : f = [n \in 0..m |-> Body(f, n)]
    BY <1>2
  <2> DEFINE g == [n \in 0..(m + 1) |-> IF n =< m THEN f[n] ELSE Body(f, n)]
  <2> HIDE DEF Body
  <2>2. ASSUME NEW n \in 0..(m + 1) PROVE g[n] = Body(g, n)
    <3>1. \A k \in 0..m : g[k] = f[k] /\ f[k] = Body(f, k)
      BY <2>1
    <3>2. n # 0 => n - 1 \in 0..m /\ g[n - 1] = f[n - 1]
      BY <3>1
    <3>3. Body(g, n) = Body(f, n)
      BY <3>2 DEF Body
    <3>4. g[n] = Body(f, n)
      <4>1. CASE n = m + 1
        BY <4>1
      <4>2. CASE n # m + 1
        <5>1. n \in 0..m
          BY <4>2
        <5> QED BY <3>1, <5>1
      <4> QED BY <4>1, <4>2
    <3> QED BY <3>3, <3>4
  <2>3. g = [n \in 0..(m + 1) |-> Body(g, n)]
    BY <2>2
  <2>4. \E h : h = [n \in 0..(m + 1) |-> Body(h, n)]
    BY <2>3
  <2> QED BY <2>4
<1>3. L \in S
  <2> HIDE DEF S, L
  <2>1. L \in Nat
    BY DEF L
  <2>2. \A n \in 0..L : n \in S
    BY <1>1, <1>2, <2>1, CountUp
  <2> QED BY <2>1, <2>2
<1>4. F = [n \in 0..L |-> Body(F, n)]
  <2> HIDE DEF Body
  <2> QED BY <1>3
<1>5. PassedOf(all, evaluated) = F[L]
  BY DEF PassedOf
<1> HIDE DEF F
<1>6. F[0] = <<>>
  BY <1>4
<1>7. \A n \in 1..L : F[n] = Body(F, n)
  <2> HIDE DEF Body
  <2> QED BY <1>4
<1> QED BY <1>5, <1>6, <1>7

(* Counting places: one more counts one more. *)
LEMMA CountNext ==
  ASSUME NEW n \in Nat, NEW P \in SUBSET (1..n), NEW Q,
         Q = P \/ Q = P \union {n + 1}
  PROVE  /\ Cardinality(P) \in Nat
         /\ Cardinality(Q) = Cardinality(P) + IF n + 1 \in Q THEN 1 ELSE 0
<1>1. IsFiniteSet(1..n)
  BY FS_Interval
<1>2. IsFiniteSet(P)
  BY <1>1, FS_Subset
<1>3. Cardinality(P) \in Nat
  BY <1>2, FS_CardinalityType
<1>4. Cardinality(P \union {n + 1}) = Cardinality(P) + 1
  <2>1. n + 1 \notin P
    OBVIOUS
  <2> QED BY <1>2, <2>1, FS_AddElement
<1>5. n + 1 \notin P
  OBVIOUS
<1> QED BY <1>3, <1>4, <1>5

(* What Append does to the number of times an element occurs. *)
LEMMA TimesAppend ==
  ASSUME NEW T, NEW s \in Seq(T), NEW e \in T, NEW x
  PROVE  /\ Times(s, x) \in Nat
         /\ Times(Append(s, e), x) = Times(s, x) + IF e = x THEN 1 ELSE 0
<1> DEFINE n == Len(s)
           P == {i \in DOMAIN s : s[i] = x}
           Q == {i \in DOMAIN Append(s, e) : Append(s, e)[i] = x}
<1>1. /\ n \in Nat /\ DOMAIN s = 1..n /\ DOMAIN Append(s, e) = 1..(n + 1)
      /\ Append(s, e)[n + 1] = e /\ \A i \in 1..n : Append(s, e)[i] = s[i]
  OBVIOUS
<1>2. P \in SUBSET (1..n) /\ n + 1 \notin P
  BY <1>1
<1>3. Q = IF e = x THEN P \union {n + 1} ELSE P
  BY <1>1
<1> HIDE DEF P, Q, n
<1>4. Cardinality(P) \in Nat /\ Cardinality(Q) = Cardinality(P) + IF e = x THEN 1 ELSE 0
  BY <1>1, <1>2, <1>3, CountNext
<1> QED BY <1>4 DEF Times, P, Q

LEMMA TimesEmpty == ASSUME NEW x PROVE Times(<<>>, x) = 0
BY FS_EmptySet DEF Times

\* The places where t has passed.
PassedAt(all, evaluated, t) == {i \in 1..Len(all) : all[i] = t /\ evaluated[i].passed}

(* For all lists of any length: the data set holds what passed, each as often as it
   passed (build_sft_dataset of learning/dataset_builder.py). *)
THEOREM PassedCounts ==
  ASSUME NEW T, NEW all \in Seq(T), NEW evaluated
  PROVE  /\ PassedOf(all, evaluated) \in Seq(T)
         /\ \A t : Times(PassedOf(all, evaluated), t) = Cardinality(PassedAt(all, evaluated, t))
<1> DEFINE L == Len(all)
           At(t, n) == {i \in 1..n : all[i] = t /\ evaluated[i].passed}
<1>1. PICK f : /\ f[0] = <<>>
               /\ \A n \in 1..L :
                    f[n] = IF evaluated[n].passed THEN Append(f[n - 1], all[n]) ELSE f[n - 1]
               /\ PassedOf(all, evaluated) = f[L]
  BY PassedUpto
<1> DEFINE S == {n \in 0..L : f[n] \in Seq(T) /\ \A t : Times(f[n], t) = Cardinality(At(t, n))}
<1>2. L \in Nat
  OBVIOUS
<1>3. 0 \in S
  <2>1. \A t : At(t, 0) = {}
    OBVIOUS
  <2>2. f[0] \in Seq(T)
    BY <1>1
  <2>3. \A t : Times(f[0], t) = 0
    BY <1>1, TimesEmpty
  <2> HIDE DEF At
  <2>4. \A t : Times(f[0], t) = Cardinality(At(t, 0))
    BY <2>1, <2>3, FS_EmptySet
  <2> QED BY <1>2, <2>2, <2>4
<1>4. ASSUME NEW n \in 0..(L - 1), n \in S PROVE n + 1 \in S
  <2>1. f[n] \in Seq(T) /\ \A t : Times(f[n], t) = Cardinality(At(t, n))
    BY <1>4
  <2>2. f[n + 1] = IF evaluated[n + 1].passed THEN Append(f[n], all[n + 1]) ELSE f[n]
    BY <1>1, <1>2
  <2>3. n \in Nat /\ n + 1 \in 1..L /\ all[n + 1] \in T
    BY <1>2
  <2>4. f[n + 1] \in Seq(T)
    BY <2>1, <2>2, <2>3
  <2>5. ASSUME NEW t PROVE Times(f[n + 1], t) = Cardinality(At(t, n + 1))
    <3>1. /\ At(t, n) \in SUBSET (1..n)
          /\ At(t, n + 1) = IF all[n + 1] = t /\ evaluated[n + 1].passed
                            THEN At(t, n) \union {n + 1} ELSE At(t, n)
          /\ n + 1 \notin At(t, n)
      BY <2>3
    <3> HIDE DEF At
    <3>2. Cardinality(At(t, n)) \in Nat
          /\ Cardinality(At(t, n + 1))
              = Cardinality(At(t, n)) + IF all[n + 1] = t /\ evaluated[n + 1].passed THEN 1 ELSE 0
      BY <2>3, <3>1, CountNext
    <3>3. Times(Append(f[n], all[n + 1]), t) = Times(f[n], t) + IF all[n + 1] = t THEN 1 ELSE 0
      BY <2>1, <2>3, TimesAppend
    <3> QED BY <2>1, <2>2, <3>2, <3>3
  <2> HIDE DEF At
  <2> QED BY <2>3, <2>4, <2>5
<1> HIDE DEF S, At, L
<1>5. L \in S
  <2>1. \A n \in 0..L : n \in S
    BY <1>2, <1>3, <1>4, CountUp
  <2> QED BY <1>2, <2>1
<1> QED BY <1>1, <1>5 DEF S, At, L, PassedAt

-----------------------------------------------------------------------------
(* LearningPipeline: a run of the loop.                                    *)

\* What the rules and the judge say of a trajectory, as its evaluation has it.
Passes(t, evaluation) == RulesPass(t) /\ \A c \in Criteria : evaluation.judge_score[c] >= 3

RunTypes ==
  /\ reachable \in BOOLEAN
  /\ stage \in {"idle"} \union {Stages[i] : i \in DOMAIN Stages}
  /\ scenarios \in Seq(Scenarios)
  /\ holder \in Seq(Trajectory) /\ trajectories \in Seq(Trajectory) /\ dataset \in Seq(Trajectory)
  /\ evaluations \in Seq(Evaluation)

\* The lists of a run: what it has of each in every stage.
Lists ==
  /\ stage \in {"idle", "synthesize"} => trajectories = <<>>
  /\ stage \in {"idle", "synthesize", "execute"} => evaluations = <<>>
  /\ stage # "idle" => holder = trajectories
  /\ stage = "evaluate" => Len(evaluations) =< Len(trajectories)
  /\ stage \in {"build_datasets", "run_training", "compare_models"} =>
       Len(evaluations) = Len(trajectories)
  /\ \A i \in DOMAIN evaluations : evaluations[i].passed <=> Passes(trajectories[i], evaluations[i])
  /\ stage = "run_training" => dataset = PassedOf(trajectories, evaluations)

\* Only the stage of the training trains.
LoopTrains == training["loop"].at # "idle" => stage = "run_training"

RunInv == RunTypes /\ Lists /\ LoopTrains

LEMMA StageNames ==
  {"idle"} \union {Stages[i] : i \in DOMAIN Stages}
    = {"idle", "synthesize", "execute", "evaluate", "build_datasets", "run_training",
       "compare_models"}
<1>1. DOMAIN Stages = 1..6
  BY DEF Stages
<1>2. 1..6 = {1, 2, 3, 4, 5, 6}
  OBVIOUS
<1> QED BY <1>1, <1>2 DEF Stages

LEMMA LearningInitRun == LearningInit => RunInv
<1> SUFFICES ASSUME LearningInit PROVE RunInv
  OBVIOUS
<1>1. RunTypes
  BY DEF LearningInit, RunTypes
<1>2. Lists
  BY DEF LearningInit, Lists
<1>3. LoopTrains
  BY DEF LearningInit, LoopTrains, NoTraining, Trainers
<1> QED BY <1>1, <1>2, <1>3 DEF RunInv

(* However a run ends, it leaves empty lists. *)
LEMMA EndsKeeps ==
  ASSUME RunInv, NEW outcome, NEW failed, Ends(outcome, failed), training'["loop"].at = "idle", reachable' \in BOOLEAN, holder' \in Seq(Trajectory)
  PROVE  RunInv'
<1>1. /\ stage' = "idle"
      /\ scenarios' = <<>> /\ trajectories' = <<>> /\ evaluations' = <<>> /\ dataset' = <<>>
  BY DEF Ends
<1>2. RunTypes'
  BY <1>1 DEF RunInv, RunTypes
<1>3. Lists'
  BY <1>1 DEF Lists
<1>4. LoopTrains'
  BY <1>1 DEF LoopTrains
<1> QED BY <1>2, <1>3, <1>4 DEF RunInv

LEMMA NoLoopTraining == ASSUME RunInv, stage # "run_training" PROVE training["loop"].at = "idle"
BY DEF RunInv, LoopTrains

LEMMA StartKeeps == ASSUME RunInv, Start PROVE RunInv'
<1>1. /\ stage = "idle" /\ stage' = "synthesize" /\ holder' = <<>> /\ last' = NoResult
      /\ UNCHANGED <<reachable, scenarios, trajectories, evaluations, dataset, training>>
  BY DEF Start, status
<1>2. RunTypes'
  <2>1. stage' \in {"idle"} \union {Stages[i] : i \in DOMAIN Stages}
    BY <1>1, StageNames
  <2> QED BY <1>1, <2>1 DEF RunInv, RunTypes
<1>3. trajectories = <<>> /\ evaluations = <<>>
  BY <1>1 DEF RunInv, Lists
<1>4. Lists'
  BY <1>1, <1>3 DEF RunInv, Lists
<1>5. LoopTrains'
  BY <1>1, NoLoopTraining DEF LoopTrains
<1> QED BY <1>2, <1>4, <1>5 DEF RunInv

LEMMA StopsKeeps ==
  ASSUME RunInv, StartBlocked \/ StopOnFailure \/ CompareModels
  PROVE  RunInv'
<1>1. /\ stage # "run_training" \/ training["loop"].at = "idle"
      /\ UNCHANGED <<reachable, holder, training>>
      /\ \E outcome, failed : Ends(outcome, failed)
  BY DEF StartBlocked, StopOnFailure, StageFails, CompareModels, status
<1>2. training'["loop"].at = "idle" /\ reachable' \in BOOLEAN /\ holder' \in Seq(Trajectory)
  BY <1>1, NoLoopTraining DEF RunInv, RunTypes
<1> QED BY <1>1, <1>2, EndsKeeps

LEMMA SynthesizeKeeps == ASSUME RunInv, Synthesize PROVE RunInv'
<1>1. /\ stage = "synthesize" /\ stage' = "execute"
      /\ UNCHANGED <<reachable, holder, trajectories, evaluations, dataset, last, training>>
  BY DEF Synthesize, status
<1>2. scenarios' \in Seq(Scenarios)
  <2>1. PICK n \in 0..(Count + 1) : \E answer \in [1..n -> Scenarios] :
              scenarios' = SubSeq(answer, 1, IF n < Count THEN n ELSE Count)
    BY DEF Synthesize
  <2>2. PICK answer \in [1..n -> Scenarios] :
              scenarios' = SubSeq(answer, 1, IF n < Count THEN n ELSE Count)
    BY <2>1
  <2> DEFINE m == IF n < Count THEN n ELSE Count
  <2>3. m \in Int /\ m =< n /\ n \in Nat
    BY LearningBoundsAssumption
  <2> HIDE DEF m
  <2>4. \A i \in 1..m : answer[i] \in Scenarios
    BY <2>3
  <2>5. SubSeq(answer, 1, m) \in Seq(Scenarios)
    BY <2>3, <2>4, SubSeqProperties
  <2> QED BY <2>2, <2>5 DEF m
<1>3. RunTypes'
  <2>1. stage' \in {"idle"} \union {Stages[i] : i \in DOMAIN Stages}
    BY <1>1, StageNames
  <2> QED BY <1>1, <1>2, <2>1 DEF RunInv, RunTypes
<1>4. trajectories = <<>> /\ evaluations = <<>> /\ holder = trajectories
  BY <1>1 DEF RunInv, Lists
<1>5. Lists'
  BY <1>1, <1>4 DEF Lists
<1>6. LoopTrains'
  BY <1>1, NoLoopTraining DEF LoopTrains, RunInv
<1> QED BY <1>3, <1>5, <1>6 DEF RunInv

LEMMA ExecuteKeeps == ASSUME RunInv, Execute PROVE RunInv'
<1> DEFINE s == scenarios[Len(trajectories) + 1]
           t == [scenario |-> s, diffs |-> Diffs(s)]
<1>1. /\ stage = "execute" /\ Len(trajectories) < Len(scenarios)
      /\ trajectories' = Append(trajectories, t) /\ holder' = Append(holder, t)
      /\ UNCHANGED <<reachable, stage, scenarios, evaluations, dataset, last, training>>
  BY DEF Execute, status
<1>2. trajectories \in Seq(Trajectory) /\ holder = trajectories /\ evaluations = <<>>
      /\ scenarios \in Seq(Scenarios)
  BY <1>1 DEF RunInv, RunTypes, Lists
<1>3. t \in Trajectory
  <2>1. s \in Scenarios
    BY <1>1, <1>2
  <2> QED BY <2>1 DEF Trajectory, Diffs
<1> HIDE DEF t
<1>4. RunTypes'
  <2>1. trajectories' \in Seq(Trajectory) /\ holder' \in Seq(Trajectory)
    BY <1>1, <1>2, <1>3
  <2> QED BY <1>1, <2>1 DEF RunInv, RunTypes
<1>5. Lists'
  BY <1>1, <1>2 DEF Lists
<1>6. LoopTrains'
  BY <1>1 DEF LoopTrains, RunInv
<1> QED BY <1>4, <1>5, <1>6 DEF RunInv

LEMMA EvaluateKeeps == ASSUME RunInv, Evaluate PROVE RunInv'
<1> DEFINE n == Len(evaluations)
           t == trajectories[n + 1]
<1>1. /\ stage = "evaluate" /\ n < Len(trajectories)
      /\ UNCHANGED <<reachable, stage, scenarios, holder, trajectories, dataset, last, training>>
  BY DEF Evaluate, status
<1>2. trajectories \in Seq(Trajectory) /\ evaluations \in Seq(Evaluation) /\ n \in Nat
      /\ Len(trajectories) \in Nat
  BY DEF RunInv, RunTypes
<1>3. PICK e \in Evaluation : evaluations' = Append(evaluations, e) /\ (e.passed <=> Passes(t, e))
  <2>1. CASE ~ RulesPass(t) /\ evaluations' = Append(evaluations, [passed |-> FALSE, judge_score |-> NoScores])
    <3>1. [passed |-> FALSE, judge_score |-> NoScores] \in Evaluation
      BY DEF Evaluation
    <3> QED BY <2>1, <3>1 DEF Passes
  <2>2. ASSUME RulesPass(t), NEW score \in [Criteria -> Scores],
               evaluations' = Append(evaluations, [passed |-> JudgePasses(score), judge_score |-> score])
        PROVE  \E e \in Evaluation : evaluations' = Append(evaluations, e) /\ (e.passed <=> Passes(t, e))
    <3> DEFINE e == [passed |-> JudgePasses(score), judge_score |-> score]
    <3>1. JudgePasses(score) \in BOOLEAN
      BY DEF JudgePasses
    <3>2. e \in Evaluation
      BY <3>1 DEF Evaluation
    <3>3. e.passed <=> Passes(t, e)
      BY <2>2 DEF Passes, JudgePasses
    <3> QED BY <2>2, <3>2, <3>3
  <2> QED BY <2>1, <2>2 DEF Evaluate
<1> HIDE DEF t
<1>4. /\ evaluations' \in Seq(Evaluation) /\ Len(evaluations') = n + 1
      /\ DOMAIN evaluations' = 1..(n + 1) /\ evaluations'[n + 1] = e
      /\ \A i \in 1..n : evaluations'[i] = evaluations[i]
  BY <1>2, <1>3
<1>5. RunTypes'
  BY <1>1, <1>4 DEF RunInv, RunTypes
<1>6. Lists'
  <2>1. \A i \in DOMAIN evaluations' :
           evaluations'[i].passed <=> Passes(trajectories[i], evaluations'[i])
    <3>1. \A i \in 1..n : evaluations[i].passed <=> Passes(trajectories[i], evaluations[i])
      BY <1>2 DEF RunInv, Lists
    <3> QED BY <1>2, <1>3, <1>4, <3>1 DEF t
  <2>2. Len(evaluations') =< Len(trajectories)
    BY <1>1, <1>2, <1>4
  <2>3. \A i \in DOMAIN evaluations' :
           (evaluations[i].passed <=> Passes(trajectories[i], evaluations[i]))'
    BY <1>1, <2>1 DEF Passes
  <2> QED BY <1>1, <2>2, <2>3 DEF RunInv, Lists
<1>7. LoopTrains'
  BY <1>1 DEF LoopTrains, RunInv
<1> QED BY <1>5, <1>6, <1>7 DEF RunInv

LEMMA NextStageKeeps == ASSUME RunInv, NextStage PROVE RunInv'
<1>1. /\ \/ stage = "execute" /\ stage' = "evaluate"
         \/ stage = "evaluate" /\ Len(evaluations) = Len(trajectories) /\ stage' = "build_datasets"
      /\ UNCHANGED <<reachable, scenarios, holder, trajectories, evaluations, dataset, last, training>>
  BY DEF NextStage, run, status
<1>2. RunTypes'
  <2>1. stage' \in {"idle"} \union {Stages[i] : i \in DOMAIN Stages}
    BY <1>1, StageNames
  <2> QED BY <1>1, <2>1 DEF RunInv, RunTypes
<1>3. Lists'
  <2>1. stage = "execute" => Len(evaluations) =< Len(trajectories)
    BY DEF RunInv, RunTypes, Lists
  <2>2. stage' \notin {"idle", "synthesize", "execute", "run_training", "compare_models"}
        /\ stage \notin {"idle", "synthesize", "run_training"}
    BY <1>1
  <2>3. \A i \in DOMAIN evaluations' :
           (evaluations[i].passed <=> Passes(trajectories[i], evaluations[i]))'
    BY <1>1 DEF RunInv, Lists, Passes
  <2> QED BY <1>1, <2>1, <2>2, <2>3 DEF RunInv, Lists
<1>4. LoopTrains'
  BY <1>1, NoLoopTraining DEF LoopTrains, RunInv
<1> QED BY <1>2, <1>3, <1>4 DEF RunInv

LEMMA BuildDatasetsKeeps == ASSUME RunInv, BuildDatasets PROVE RunInv'
<1>1. /\ holder = trajectories /\ Len(evaluations) = Len(trajectories)
      /\ stage = "build_datasets" /\ UNCHANGED <<reachable, holder, training>>
  BY DEF BuildDatasets, RunInv, Lists, status
<1>2. /\ dataset' = PassedOf(trajectories, evaluations) /\ stage' = "run_training"
      /\ UNCHANGED <<scenarios, trajectories, evaluations, last>>
  BY <1>1 DEF BuildDatasets
<1>3. trajectories \in Seq(Trajectory)
  BY DEF RunInv, RunTypes
<1>4. dataset' \in Seq(Trajectory)
  BY <1>2, <1>3, PassedCounts
<1>5. RunTypes'
  <2>1. stage' \in {"idle"} \union {Stages[i] : i \in DOMAIN Stages}
    BY <1>2, StageNames
  <2> QED BY <1>1, <1>2, <1>4, <2>1 DEF RunInv, RunTypes
<1>6. Lists'
  <2>1. \A i \in DOMAIN evaluations' :
           (evaluations[i].passed <=> Passes(trajectories[i], evaluations[i]))'
    BY <1>2 DEF RunInv, Lists, Passes
  <2>2. dataset' = PassedOf(trajectories, evaluations)'
    BY <1>2
  <2> QED BY <1>1, <1>2, <2>1, <2>2 DEF Lists
<1>7. LoopTrains'
  BY <1>1, <1>2 DEF LoopTrains, RunInv
<1> QED BY <1>5, <1>6, <1>7 DEF RunInv

\* The types of what the trainings leave.
StatusTypes ==
  /\ training \in [Trainers -> [at : {"idle", "train", "save"}, job : Jobs]]
  /\ log \in Seq([job : Jobs, status : {"started", "completed"}])
  /\ checkpoints \in Seq(Jobs)

(* A step of a training that leaves the lists alone. *)
LEMMA TrainingKeepsRun ==
  ASSUME RunInv, LoopTrains', reachable' = reachable, scenarios' = scenarios, holder' = holder,
         trajectories' = trajectories, evaluations' = evaluations, dataset' = dataset, last' = last,
         \/ stage' = stage
         \/ stage = "run_training" /\ stage' = "compare_models"
  PROVE  RunInv'
<1>1. RunTypes'
  <2>1. stage' \in {"idle"} \union {Stages[i] : i \in DOMAIN Stages}
    BY StageNames DEF RunInv, RunTypes
  <2> QED BY <2>1 DEF RunInv, RunTypes
<1>2. Lists'
  <2>1. \A i \in DOMAIN evaluations' :
           (evaluations[i].passed <=> Passes(trajectories[i], evaluations[i]))'
    BY DEF RunInv, Lists, Passes
  <2>2. PassedOf(trajectories, evaluations)' = PassedOf(trajectories, evaluations)
    OBVIOUS
  <2> QED BY <2>1, <2>2 DEF RunInv, Lists
<1> QED BY <1>1, <1>2 DEF RunInv

LEMMA TrainingsKeepRun ==
  ASSUME RunInv, StatusTypes, NEW p \in Trainers,
         \/ \E job \in Jobs : BeginTraining(p, job)
         \/ Train(p) \/ CompleteTraining(p) \/ TrainingFails(p)
  PROVE  RunInv'
<1>1. training \in [Trainers -> [at : {"idle", "train", "save"}, job : Jobs]]
      /\ {"loop", "cli"} = Trainers
  BY DEF StatusTypes, Trainers
<1>2. CASE \E job \in Jobs : BeginTraining(p, job)
  <2>1. /\ p = "loop" => stage = "run_training"
        /\ p # "loop" => training'["loop"] = training["loop"]
        /\ UNCHANGED <<reachable, stage, scenarios, holder, trajectories, evaluations, dataset, last>>
    BY <1>1, <1>2 DEF BeginTraining, loop, run
  <2>2. LoopTrains'
    BY <2>1 DEF RunInv, LoopTrains
  <2> QED BY <2>1, <2>2, TrainingKeepsRun
<1>3. CASE Train(p)
  <2>1. UNCHANGED <<reachable, stage, scenarios, holder, trajectories, evaluations, dataset, last>>
    BY <1>3 DEF Train, loop, run
  <2>2. training'["loop"].at # "idle" => training["loop"].at # "idle"
    BY <1>1, <1>3 DEF Train
  <2> QED BY <2>1, <2>2, TrainingKeepsRun DEF RunInv, LoopTrains
<1>4. CASE CompleteTraining(p)
  <2>1. /\ UNCHANGED <<reachable, scenarios, holder, trajectories, evaluations, dataset, last>>
        /\ stage' = IF p = "loop" THEN "compare_models" ELSE stage
        /\ training[p].at = "save" /\ training' = [training EXCEPT ![p].at = "idle"]
    BY <1>4 DEF CompleteTraining, run
  <2>2. p = "loop" => stage = "run_training" /\ training'["loop"].at = "idle"
    BY <1>1, <2>1 DEF RunInv, LoopTrains
  <2>3. p # "loop" => training'["loop"] = training["loop"]
    BY <1>1, <2>1
  <2>4. LoopTrains'
    BY <2>1, <2>2, <2>3 DEF RunInv, LoopTrains
  <2> QED BY <2>1, <2>2, <2>4, TrainingKeepsRun
<1>5. CASE TrainingFails(p) /\ p = "loop"
  <2>1. /\ Ends("failed", "run_training") /\ UNCHANGED <<reachable, holder>>
        /\ training' = [training EXCEPT !["loop"].at = "idle"]
    BY <1>5 DEF TrainingFails
  <2>2. training'["loop"].at = "idle" /\ reachable' \in BOOLEAN /\ holder' \in Seq(Trajectory)
    BY <1>1, <2>1 DEF RunInv, RunTypes
  <2> QED BY <2>1, <2>2, EndsKeeps
<1>6. CASE TrainingFails(p) /\ p # "loop"
  <2>1. UNCHANGED <<reachable, stage, scenarios, holder, trajectories, evaluations, dataset, last>>
        /\ training'["loop"] = training["loop"]
    BY <1>1, <1>6 DEF TrainingFails, loop, run
  <2> QED BY <2>1, TrainingKeepsRun DEF RunInv, LoopTrains
<1> QED BY <1>2, <1>3, <1>4, <1>5, <1>6

LEMMA EnvironmentKeepsRun ==
  ASSUME RunInv, StatusTypes,
         GatewayGoesDownOrUp \/ SchedulerCrashes \/ UNCHANGED learningVars
  PROVE  RunInv'
<1>1. CASE SchedulerCrashes
  <2>1. Ends("none", "none") /\ holder' = <<>> /\ reachable' = reachable
        /\ training' = [training EXCEPT !["loop"] = NoTraining]
    BY <1>1 DEF SchedulerCrashes
  <2>2. training'["loop"].at = "idle" /\ reachable' \in BOOLEAN /\ holder' \in Seq(Trajectory)
    BY <2>1 DEF StatusTypes, Trainers, NoTraining, RunInv, RunTypes
  <2> QED BY <2>1, <2>2, EndsKeeps
<1>2. CASE GatewayGoesDownOrUp
  <2>1. reachable' \in BOOLEAN
        /\ UNCHANGED <<stage, scenarios, holder, trajectories, evaluations, dataset, last, training>>
    BY <1>2 DEF GatewayGoesDownOrUp, loop, run, status
  <2>2. Lists'
    <3>1. \A i \in DOMAIN evaluations' :
             (evaluations[i].passed <=> Passes(trajectories[i], evaluations[i]))'
      BY <2>1 DEF RunInv, Lists, Passes
    <3>2. PassedOf(trajectories, evaluations)' = PassedOf(trajectories, evaluations)
      BY <2>1
    <3> QED BY <2>1, <3>1, <3>2 DEF RunInv, Lists
  <2> QED BY <2>1, <2>2 DEF RunInv, RunTypes, LoopTrains
<1>3. CASE UNCHANGED learningVars
  <2>1. UNCHANGED <<reachable, stage, scenarios, holder, trajectories, evaluations, dataset, last,
                    training>>
    BY <1>3 DEF learningVars, loop, run, status
  <2> QED BY <2>1, TrainingKeepsRun DEF RunInv, LoopTrains
<1> QED BY <1>1, <1>2, <1>3

-----------------------------------------------------------------------------
(* LearningPipeline: the log of the trainings.                             *)

\* One if the process p is logged and its state r is this point of a training of the job.
Counted(p, r, at, job) == IF p \in logged /\ r.at = at /\ r.job = job THEN 1 ELSE 0
Doing(p, at, job) == Counted(p, training[p], at, job)

Both(at, job) == Doing("loop", at, job) + Doing("cli", at, job)

\* A checkpoint whose second line is still to come makes the difference, and so does a
\* first line whose checkpoint is.
LogInv ==
  \A job \in Jobs :
    /\ Lines(job, "completed") + Both("save", job) =< Times(checkpoints, job)
    /\ Times(checkpoints, job) + Both("train", job) =< Lines(job, "started")

StatusInv == StatusTypes /\ LogInv

LEMMA LearningInitStatus == LearningInit => StatusInv
<1> SUFFICES ASSUME LearningInit PROVE StatusInv
  OBVIOUS
<1>1. \A p \in Trainers : training[p] = NoTraining
  BY DEF LearningInit
<1>2. StatusTypes
  BY DEF LearningInit, StatusTypes, NoTraining, Jobs
<1>3. \A job : Both("save", job) = 0 /\ Both("train", job) = 0
  BY <1>1 DEF Both, Doing, Counted, NoTraining, Trainers
<1>4. \A job, what : Lines(job, what) = 0 /\ Times(checkpoints, job) = 0
  BY TimesEmpty DEF LearningInit, Lines
<1> QED BY <1>2, <1>3, <1>4 DEF StatusInv, LogInv

LEMMA LineTypes ==
  ASSUME StatusTypes, NEW job, NEW what
  PROVE  /\ Lines(job, what) \in Nat /\ Times(checkpoints, job) \in Nat
         /\ \A at : Both(at, job) \in Nat
<1>1. Times(log, [job |-> job, status |-> what]) \in Nat
  <2> DEFINE T == [job : Jobs, status : {"started", "completed"}]
  <2>1. [job |-> "sft", status |-> "started"] \in T /\ log \in Seq(T)
    BY DEF Jobs, StatusTypes
  <2> HIDE DEF T
  <2> QED BY <2>1, TimesAppend
<1>2. Times(checkpoints, job) \in Nat
  <2>1. "sft" \in Jobs /\ checkpoints \in Seq(Jobs)
    BY DEF Jobs, StatusTypes
  <2> QED BY <2>1, TimesAppend
<1> QED BY <1>1, <1>2 DEF Lines, Both, Doing, Counted

(* A line is counted for its job and its status only. *)
LEMMA LineWritten ==
  ASSUME StatusTypes, NEW p \in Trainers, NEW job \in Jobs, NEW what \in {"started", "completed"},
         Writes(p, job, what)
  PROVE  /\ log' \in Seq([job : Jobs, status : {"started", "completed"}])
         /\ \A j \in Jobs, w \in {"started", "completed"} :
              Lines(j, w)' = Lines(j, w) + IF p \in logged /\ j = job /\ w = what THEN 1 ELSE 0
<1> DEFINE T == [job : Jobs, status : {"started", "completed"}]
           line == [job |-> job, status |-> what]
<1>1. log \in Seq(T) /\ line \in T /\ log' = IF p \in logged THEN Append(log, line) ELSE log
  BY DEF StatusTypes, Writes
<1>2. \A j, w : (line = [job |-> j, status |-> w]) <=> (j = job /\ w = what)
  OBVIOUS
<1>3. \A j \in Jobs, w \in {"started", "completed"} : Lines(j, w) \in Nat
  BY LineTypes
<1>4. \A j, w : Lines(j, w) = Times(log, [job |-> j, status |-> w])
                /\ Lines(j, w)' = Times(log', [job |-> j, status |-> w])
  BY DEF Lines, Times
<1> HIDE DEF T, line
<1>5. \A x : Times(Append(log, line), x) = Times(log, x) + IF line = x THEN 1 ELSE 0
  BY <1>1, TimesAppend
<1>6. log' \in Seq(T)
  BY <1>1
<1>7. ASSUME NEW j \in Jobs, NEW w \in {"started", "completed"}
      PROVE  Lines(j, w)' = Lines(j, w) + IF p \in logged /\ j = job /\ w = what THEN 1 ELSE 0
  <2> DEFINE x == [job |-> j, status |-> w]
  <2>1. (line = x) <=> (j = job /\ w = what)
    BY <1>2
  <2>2. Lines(j, w) = Times(log, x) /\ Lines(j, w)' = Times(log', x) /\ Lines(j, w) \in Nat
    BY <1>3, <1>4
  <2> HIDE DEF x
  <2>3. CASE p \in logged
    BY <1>1, <1>5, <2>1, <2>2, <2>3
  <2>4. CASE p \notin logged
    BY <1>1, <2>2, <2>4
  <2> QED BY <2>3, <2>4
<1> QED BY <1>6, <1>7 DEF T

(* A step of one process changes what that process does, and nobody else. *)
LEMMA DoingStep ==
  ASSUME StatusTypes, NEW p \in Trainers, NEW r \in [at : {"idle", "train", "save"}, job : Jobs],
         training' = [training EXCEPT ![p] = r], logged' = logged
  PROVE  /\ training' \in [Trainers -> [at : {"idle", "train", "save"}, job : Jobs]]
         /\ \A at \in {"train", "save"}, j \in Jobs :
              Both(at, j)' = Both(at, j) - Doing(p, at, j) + Counted(p, r, at, j)
<1>1. \A q \in Trainers : training'[q] = IF q = p THEN r ELSE training[q]
  BY DEF StatusTypes
<1>2. p = "loop" \/ p = "cli"
  BY DEF Trainers
<1>3. "loop" \in Trainers /\ "cli" \in Trainers /\ "loop" # "cli"
  BY DEF Trainers
<1>4. ASSUME NEW at \in {"train", "save"}, NEW j \in Jobs
      PROVE  Both(at, j)' = Both(at, j) - Doing(p, at, j) + Counted(p, r, at, j)
  BY <1>1, <1>2, <1>3 DEF Both, Doing, Counted
<1> QED BY <1>4 DEF StatusTypes

LEMMA BeginTrainingKeeps ==
  ASSUME StatusInv, NEW p \in Trainers, NEW job \in Jobs, BeginTraining(p, job)
  PROVE  StatusInv'
<1> DEFINE r == [at |-> "train", job |-> job]
<1>1. /\ training[p].at = "idle" /\ Writes(p, job, "started")
      /\ training' = [training EXCEPT ![p] = r] /\ logged' = logged /\ checkpoints' = checkpoints
  BY DEF BeginTraining
<1>2. r \in [at : {"idle", "train", "save"}, job : Jobs] /\ r.at = "train" /\ r.job = job
  OBVIOUS
<1> HIDE DEF r
<1>3. StatusTypes'
  BY <1>1, <1>2, DoingStep, LineWritten DEF StatusInv, StatusTypes
<1>4. ASSUME NEW j \in Jobs
      PROVE  /\ Lines(j, "completed")' + Both("save", j)' =< Times(checkpoints', j)
             /\ Times(checkpoints', j) + Both("train", j)' =< Lines(j, "started")'
  <2>1. Both("save", j)' = Both("save", j)
        /\ Both("train", j)' = Both("train", j) + IF p \in logged /\ j = job THEN 1 ELSE 0
    <3>1. Doing(p, "save", j) = 0 /\ Doing(p, "train", j) = 0
      BY <1>1 DEF Doing, Counted
    <3>2. Both("save", j) \in Nat /\ Both("train", j) \in Nat
      BY LineTypes DEF StatusInv
    <3>3. /\ Both("save", j)' = Both("save", j) - Doing(p, "save", j) + Counted(p, r, "save", j)
          /\ Both("train", j)' = Both("train", j) - Doing(p, "train", j) + Counted(p, r, "train", j)
      <4>1. StatusTypes /\ training' = [training EXCEPT ![p] = r] /\ logged' = logged
        BY <1>1 DEF StatusInv
      <4> QED BY <1>2, <4>1, DoingStep
    <3> QED BY <1>2, <3>1, <3>2, <3>3 DEF Counted
  <2>2. Lines(j, "completed")' = Lines(j, "completed")
        /\ Lines(j, "started")' = Lines(j, "started") + IF p \in logged /\ j = job THEN 1 ELSE 0
    <3>1. Lines(j, "completed") \in Nat
      BY LineTypes DEF StatusInv
    <3> QED BY <1>1, <3>1, LineWritten DEF StatusInv
  <2>3. Lines(j, "completed") \in Nat /\ Lines(j, "started") \in Nat /\ Times(checkpoints, j) \in Nat
        /\ Both("save", j) \in Nat /\ Both("train", j) \in Nat
    BY LineTypes DEF StatusInv
  <2>4. Lines(j, "completed") + Both("save", j) =< Times(checkpoints, j)
        /\ Times(checkpoints, j) + Both("train", j) =< Lines(j, "started")
    BY DEF StatusInv, LogInv
  <2> QED BY <1>1, <2>1, <2>2, <2>3, <2>4
<1> QED BY <1>3, <1>4 DEF StatusInv, LogInv, Times

LEMMA TrainKeeps == ASSUME StatusInv, NEW p \in Trainers, Train(p) PROVE StatusInv'
<1> DEFINE r == [training[p] EXCEPT !.at = "save"]
           job == training[p].job
<1>1. /\ training[p].at = "train" /\ training' = [training EXCEPT ![p] = r] /\ logged' = logged
      /\ log' = log
      /\ checkpoints' = IF p \in logged THEN Append(checkpoints, job) ELSE checkpoints
  BY DEF Train
<1>2. training[p] \in [at : {"idle", "train", "save"}, job : Jobs] /\ checkpoints \in Seq(Jobs)
  BY DEF StatusInv, StatusTypes
<1>3. r \in [at : {"idle", "train", "save"}, job : Jobs] /\ r.at = "save" /\ r.job = job
      /\ job \in Jobs
  BY <1>2
<1> HIDE DEF r, job
<1>4. StatusTypes'
  <2>1. checkpoints' \in Seq(Jobs)
    BY <1>1, <1>2, <1>3
  <2> QED BY <1>1, <1>3, <2>1, DoingStep DEF StatusInv, StatusTypes
<1>5. ASSUME NEW j \in Jobs
      PROVE  /\ Lines(j, "completed")' + Both("save", j)' =< Times(checkpoints', j)
             /\ Times(checkpoints', j) + Both("train", j)' =< Lines(j, "started")'
  <2> DEFINE one == IF p \in logged /\ j = job THEN 1 ELSE 0
  <2>1. Lines(j, "completed") \in Nat /\ Lines(j, "started") \in Nat /\ Times(checkpoints, j) \in Nat
        /\ Both("save", j) \in Nat /\ Both("train", j) \in Nat /\ one \in Nat
    BY LineTypes DEF StatusInv
  <2>2. Doing(p, "save", j) = 0 /\ Doing(p, "train", j) = one
    BY <1>1 DEF Doing, Counted, job
  <2>3. Both("save", j)' = Both("save", j) + one /\ Both("train", j)' = Both("train", j) - one
    <3>1. /\ Both("save", j)' = Both("save", j) - Doing(p, "save", j) + Counted(p, r, "save", j)
          /\ Both("train", j)' = Both("train", j) - Doing(p, "train", j) + Counted(p, r, "train", j)
      <4>1. StatusTypes /\ training' = [training EXCEPT ![p] = r] /\ logged' = logged
        BY <1>1 DEF StatusInv
      <4> QED BY <1>3, <4>1, DoingStep
    <3> QED BY <1>3, <2>1, <2>2, <3>1 DEF Counted
  <2>4. Times(checkpoints', j) = Times(checkpoints, j) + one
    BY <1>1, <1>2, <1>3, <2>1, TimesAppend
  <2>5. Lines(j, "completed")' = Lines(j, "completed") /\ Lines(j, "started")' = Lines(j, "started")
    BY <1>1 DEF Lines, Times
  <2>6. Lines(j, "completed") + Both("save", j) =< Times(checkpoints, j)
        /\ Times(checkpoints, j) + Both("train", j) =< Lines(j, "started")
    BY DEF StatusInv, LogInv
  <2> HIDE DEF one
  <2> QED BY <2>1, <2>3, <2>4, <2>5, <2>6
<1> QED BY <1>4, <1>5 DEF StatusInv, LogInv, Times

LEMMA CompleteTrainingKeeps ==
  ASSUME StatusInv, NEW p \in Trainers, CompleteTraining(p)
  PROVE  StatusInv'
<1> DEFINE r == [training[p] EXCEPT !.at = "idle"]
           job == training[p].job
<1>1. /\ training[p].at = "save" /\ training' = [training EXCEPT ![p] = r] /\ logged' = logged
      /\ Writes(p, job, "completed") /\ checkpoints' = checkpoints
  BY DEF CompleteTraining
<1>2. training[p] \in [at : {"idle", "train", "save"}, job : Jobs]
  BY DEF StatusInv, StatusTypes
<1>3. r \in [at : {"idle", "train", "save"}, job : Jobs] /\ r.at = "idle" /\ r.job = job
      /\ job \in Jobs
  BY <1>2
<1> HIDE DEF r, job
<1>4. StatusTypes'
  BY <1>1, <1>3, DoingStep, LineWritten DEF StatusInv, StatusTypes
<1>5. ASSUME NEW j \in Jobs
      PROVE  /\ Lines(j, "completed")' + Both("save", j)' =< Times(checkpoints', j)
             /\ Times(checkpoints', j) + Both("train", j)' =< Lines(j, "started")'
  <2> DEFINE one == IF p \in logged /\ j = job THEN 1 ELSE 0
  <2>1. Lines(j, "completed") \in Nat /\ Lines(j, "started") \in Nat /\ Times(checkpoints, j) \in Nat
        /\ Both("save", j) \in Nat /\ Both("train", j) \in Nat /\ one \in Nat
    BY LineTypes DEF StatusInv
  <2>2. Doing(p, "save", j) = one /\ Doing(p, "train", j) = 0
    BY <1>1 DEF Doing, Counted, job
  <2>3. Both("save", j)' = Both("save", j) - one /\ Both("train", j)' = Both("train", j)
    <3>1. /\ Both("save", j)' = Both("save", j) - Doing(p, "save", j) + Counted(p, r, "save", j)
          /\ Both("train", j)' = Both("train", j) - Doing(p, "train", j) + Counted(p, r, "train", j)
      <4>1. StatusTypes /\ training' = [training EXCEPT ![p] = r] /\ logged' = logged
        BY <1>1 DEF StatusInv
      <4> QED BY <1>3, <4>1, DoingStep
    <3> QED BY <1>3, <2>1, <2>2, <3>1 DEF Counted
  <2>4. Lines(j, "completed")' = Lines(j, "completed") + one
        /\ Lines(j, "started")' = Lines(j, "started")
    BY <1>1, <1>3, <2>1, LineWritten DEF StatusInv
  <2>5. Lines(j, "completed") + Both("save", j) =< Times(checkpoints, j)
        /\ Times(checkpoints, j) + Both("train", j) =< Lines(j, "started")
    BY DEF StatusInv, LogInv
  <2> HIDE DEF one
  <2> QED BY <1>1, <2>1, <2>3, <2>4, <2>5
<1> QED BY <1>4, <1>5 DEF StatusInv, LogInv, Times

(* A training that ends without a line only takes something away from the left sides. *)
LEMMA GivingUpKeeps ==
  ASSUME StatusInv, NEW p \in Trainers, NEW r \in [at : {"idle", "train", "save"}, job : Jobs],
         training' = [training EXCEPT ![p] = r], r.at = "idle", logged' = logged,
         log' = log, checkpoints' = checkpoints
  PROVE  StatusInv'
<1>1. StatusTypes'
  BY DoingStep DEF StatusInv, StatusTypes
<1>2. ASSUME NEW j \in Jobs
      PROVE  /\ Lines(j, "completed")' + Both("save", j)' =< Times(checkpoints', j)
             /\ Times(checkpoints', j) + Both("train", j)' =< Lines(j, "started")'
  <2>1. Lines(j, "completed") \in Nat /\ Lines(j, "started") \in Nat /\ Times(checkpoints, j) \in Nat
        /\ Both("save", j) \in Nat /\ Both("train", j) \in Nat
    BY LineTypes DEF StatusInv
  <2>2. Doing(p, "save", j) \in Nat /\ Doing(p, "train", j) \in Nat
    BY DEF Doing, Counted
  <2>3. Both("save", j)' = Both("save", j) - Doing(p, "save", j)
        /\ Both("train", j)' = Both("train", j) - Doing(p, "train", j)
    <3>1. /\ Both("save", j)' = Both("save", j) - Doing(p, "save", j) + Counted(p, r, "save", j)
          /\ Both("train", j)' = Both("train", j) - Doing(p, "train", j) + Counted(p, r, "train", j)
      BY DoingStep DEF StatusInv
    <3> QED BY <2>1, <2>2, <3>1 DEF Counted
  <2>4. Lines(j, "completed")' = Lines(j, "completed") /\ Lines(j, "started")' = Lines(j, "started")
    BY DEF Lines, Times
  <2>5. Lines(j, "completed") + Both("save", j) =< Times(checkpoints, j)
        /\ Times(checkpoints, j) + Both("train", j) =< Lines(j, "started")
    BY DEF StatusInv, LogInv
  <2> QED BY <2>1, <2>2, <2>3, <2>4, <2>5
<1> QED BY <1>1, <1>2 DEF StatusInv, LogInv, Times

LEMMA FailuresKeepStatus ==
  ASSUME StatusInv, SchedulerCrashes \/ \E p \in Trainers : TrainingFails(p)
  PROVE  StatusInv'
<1>1. CASE SchedulerCrashes
  <2>1. "loop" \in Trainers /\ NoTraining \in [at : {"idle", "train", "save"}, job : Jobs]
        /\ NoTraining.at = "idle"
    BY DEF Trainers, NoTraining, Jobs
  <2>2. training' = [training EXCEPT !["loop"] = NoTraining]
        /\ logged' = logged /\ log' = log /\ checkpoints' = checkpoints
    BY <1>1 DEF SchedulerCrashes
  <2> QED BY <2>1, <2>2, GivingUpKeeps
<1>2. ASSUME NEW p \in Trainers, TrainingFails(p) PROVE StatusInv'
  <2> DEFINE r == [training[p] EXCEPT !.at = "idle"]
  <2>1. training' = [training EXCEPT ![p] = r]
        /\ logged' = logged /\ log' = log /\ checkpoints' = checkpoints
    BY <1>2 DEF TrainingFails
  <2>2. training[p] \in [at : {"idle", "train", "save"}, job : Jobs]
    BY DEF StatusInv, StatusTypes
  <2>3. r \in [at : {"idle", "train", "save"}, job : Jobs] /\ r.at = "idle"
    BY <2>2
  <2> HIDE DEF r
  <2> QED BY <2>1, <2>3, GivingUpKeeps
<1> QED BY <1>1, <1>2

(* The steps of the loop before and after its training leave the log alone. *)
LEMMA OthersKeepStatus ==
  ASSUME StatusInv, UNCHANGED status
  PROVE  StatusInv'
<1>1. training' = training /\ logged' = logged /\ log' = log /\ checkpoints' = checkpoints
  BY DEF status
<1>2. StatusTypes'
  BY <1>1 DEF StatusInv, StatusTypes
<1>3. LogInv'
  BY <1>1 DEF StatusInv, LogInv, Lines, Times, Both, Doing, Counted
<1> QED BY <1>2, <1>3 DEF StatusInv

LEMMA LearningNextInv ==
  RunInv /\ StatusInv /\ [LearningNext]_learningVars => RunInv' /\ StatusInv'
<1> SUFFICES ASSUME RunInv, StatusInv, [LearningNext]_learningVars PROVE RunInv' /\ StatusInv'
  OBVIOUS
<1>1. StatusTypes
  BY DEF StatusInv
<1>2. ASSUME NEW p \in Trainers,
             \/ \E job \in Jobs : BeginTraining(p, job)
             \/ Train(p) \/ CompleteTraining(p) \/ TrainingFails(p)
      PROVE  RunInv' /\ StatusInv'
  <2>1. RunInv'
    BY <1>1, <1>2, TrainingsKeepRun
  <2>2. ASSUME NEW job \in Jobs, BeginTraining(p, job) PROVE StatusInv'
    BY <2>2, BeginTrainingKeeps
  <2>3. CASE Train(p)
    BY <2>1, <2>3, TrainKeeps
  <2>4. CASE CompleteTraining(p)
    BY <2>1, <2>4, CompleteTrainingKeeps
  <2>5. CASE TrainingFails(p)
    BY <2>1, <2>5, FailuresKeepStatus
  <2> QED BY <1>2, <2>1, <2>2, <2>3, <2>4, <2>5
<1>3. CASE \/ Start \/ StartBlocked \/ StopOnFailure \/ Synthesize \/ Execute \/ Evaluate
           \/ NextStage \/ BuildDatasets \/ CompareModels \/ GatewayGoesDownOrUp
           \/ UNCHANGED learningVars
  <2>1. UNCHANGED status
    BY <1>3 DEF Start, StartBlocked, StopOnFailure, Synthesize, Execute, Evaluate, NextStage,
       BuildDatasets, CompareModels, GatewayGoesDownOrUp, learningVars
  <2>2. RunInv'
    BY <1>1, <1>3, StartKeeps, StopsKeeps, SynthesizeKeeps, ExecuteKeeps, EvaluateKeeps,
       NextStageKeeps, BuildDatasetsKeeps, EnvironmentKeepsRun
  <2> QED BY <2>1, <2>2, OthersKeepStatus
<1>4. CASE SchedulerCrashes
  BY <1>1, <1>4, EnvironmentKeepsRun, FailuresKeepStatus
<1>5. "loop" \in Trainers /\ "cli" \in Trainers /\ "sft" \in Jobs
  BY DEF Trainers, Jobs
<1> QED BY <1>2, <1>3, <1>4, <1>5 DEF LearningNext, LoopSteps, HandSteps

(* The invariant of the runs and that of the log, of which neither needs the other. *)
THEOREM LearningInvariance == LearningSpec => [](RunInv /\ StatusInv)
BY LearningInitRun, LearningInitStatus, LearningNextInv, PTL DEF LearningSpec

(* The lists of the learning loop, the log and the checkpoints keep their types. *)
THEOREM LearningTypeCorrect == LearningSpec => []LearningTypeOK
<1>1. RunInv /\ StatusInv => LearningTypeOK
  BY DEF RunInv, RunTypes, StatusInv, StatusTypes, LearningTypeOK
<1> QED BY <1>1, LearningInvariance, PTL

(* Where a run joins trajectories and evaluations by place, its list holds its own
   trajectories, one for every evaluation, whatever became of the runs before it
   (scheduler/jobs.py, trigger_learning_loop and _default_learning_loop_deps). *)
THEOREM RunsStayIndependent == LearningSpec => []RunsAreIndependent
<1>1. RunInv => RunsAreIndependent
  BY DEF RunInv, Lists, RunsAreIndependent
<1> QED BY <1>1, LearningInvariance, PTL

(* A training of the loop reads exactly the trajectories that passed, each as often as
   it did, whatever the teacher proposed and however many (build_sft_dataset). *)
THEOREM TrainingsReadPassed == LearningSpec => []TrainsOnPassed
<1>1. RunInv => TrainsOnPassed
  <2> SUFFICES ASSUME RunInv, training["loop"].at # "idle", NEW t \in Trajectory
               PROVE  Times(dataset, t)
                        = Cardinality({i \in DOMAIN evaluations :
                            /\ trajectories[i] = t
                            /\ RulesPass(t)
                            /\ \A c \in Criteria : evaluations[i].judge_score[c] >= 3})
    BY DEF TrainsOnPassed
  <2>1. /\ dataset = PassedOf(trajectories, evaluations)
        /\ trajectories \in Seq(Trajectory) /\ DOMAIN evaluations = 1..Len(trajectories)
    BY DEF RunInv, RunTypes, Lists, LoopTrains
  <2>2. \A i \in DOMAIN evaluations :
           evaluations[i].passed <=> Passes(trajectories[i], evaluations[i])
    BY DEF RunInv, Lists
  <2>3. Times(dataset, t) = Cardinality(PassedAt(trajectories, evaluations, t))
    BY <2>1, PassedCounts
  <2>4. PassedAt(trajectories, evaluations, t)
          = {i \in DOMAIN evaluations :
               /\ trajectories[i] = t
               /\ RulesPass(t)
               /\ \A c \in Criteria : evaluations[i].judge_score[c] >= 3}
    BY <2>1, <2>2 DEF Passes, PassedAt
  <2> QED BY <2>3, <2>4
<1> QED BY <1>1, LearningInvariance, PTL

(* Every training the log calls completed has saved its checkpoint and was called
   started, though two processes write the log with no lock and either may end at any
   moment (sft.py, dpo.py). *)
THEOREM LogStaysBacked == LearningSpec => []LogIsBacked
<1>1. StatusInv => LogIsBacked
  <2> SUFFICES ASSUME StatusInv, NEW job \in Jobs
               PROVE  /\ Lines(job, "completed") <= Times(checkpoints, job)
                      /\ Times(checkpoints, job) <= Lines(job, "started")
    BY DEF LogIsBacked
  <2>1. /\ Lines(job, "completed") \in Nat /\ Lines(job, "started") \in Nat
        /\ Times(checkpoints, job) \in Nat /\ Both("save", job) \in Nat /\ Both("train", job) \in Nat
    BY LineTypes DEF StatusInv
  <2>2. /\ Lines(job, "completed") + Both("save", job) =< Times(checkpoints, job)
        /\ Times(checkpoints, job) + Both("train", job) =< Lines(job, "started")
    BY DEF StatusInv, LogInv
  <2> QED BY <2>1, <2>2
<1> QED BY <1>1, LearningInvariance, PTL
=============================================================================
