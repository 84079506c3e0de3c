---------------------- MODULE BudgetAndGraphsProofs ----------------------
(***************************************************************************)
(* The safety properties of BudgetLoop, for every set of budgets and all   *)
(* bounds. Both are inductive with the types, TrainingDrains beside the    *)
(* fact that nothing has been trained against a file that says clear.      *)
(*                                                                         *)
(* The safety properties of AgentGraphs, for every number of runs, targets *)
(* and risks. The invariant (RunOK) is the place of a run in its graph:    *)
(* what it has before it is the graph from there on, and what it has made  *)
(* are the writes up to there. What it needs of the graphs is WellFormed,  *)
(* which holds of each of them: no guard stands behind a write.            *)
(***************************************************************************)
EXTENDS BudgetLoop, AgentGraphs, SequenceTheorems, NaturalsInduction, WellFoundedInduction,
        TLAPS

-----------------------------------------------------------------------------
(* BudgetLoop                                                              *)

(* What the code compares, a ratio with 1.0, is what the documentation says
   (check_budget_threshold and compute_consumption_ratio of budget.py). *)
LEMMA ExceededIsUsedUp ==
  ASSUME TypeOK, NEW spent \in Nat
  PROVE  Status(spent) = "exceeded" <=> UsedUp(spent)
<1> budget \in Nat
  BY BudgetsAssumption DEF TypeOK
<1> QED
  BY SMT DEF Status, RatioAtLeast, UsedUp

LEMMA InitTypeOK == Init => TypeOK
<1> SUFFICES ASSUME Init PROVE TypeOK
  OBVIOUS
<1>1. 0 \in 0..MaxRecords /\ 0 \in 0..MaxFaults /\ 0 \in 0..MaxManual
  BY BoundsAssumption
<1>2. Len(Stages) = 6
  BY DEF Stages
<1> QED
  BY <1>1, <1>2 DEF Init, TypeOK, Idle, NoRun

LEMMA NextTypeOK == TypeOK /\ [Next]_vars => TypeOK'
<1> SUFFICES ASSUME TypeOK, [Next]_vars PROVE TypeOK'
  OBVIOUS
<1> USE BoundsAssumption DEF TypeOK
<1>0. MaxRecords \in Nat /\ MaxManual \in Nat /\ MaxFaults \in Nat
  OBVIOUS
<1>1. CASE RecordUsage
  BY <1>0, <1>1 DEF RecordUsage, env, Status, RatioAtLeast
<1>2. CASE NextMonth
  BY <1>0, <1>2 DEF NextMonth, env, Status, RatioAtLeast
<1>3. CASE ReadSummary
  BY <1>0, <1>3 DEF ReadSummary, env, Status, RatioAtLeast
<1>4. CASE PostEvent
  BY <1>0, <1>4 DEF PostEvent, env, Status, RatioAtLeast
<1>5. CASE OpenFile
  BY <1>0, <1>5 DEF OpenFile, env, Status, RatioAtLeast
<1>6. CASE WriteFile
  <2>1. file' \in {"clear", "blocked", "empty", "garbled"} /\ trained' \in 0..2
    BY <1>6 DEF WriteFile, SetBlocked, Written, Verdict
  <2>2. monitor' = [at |-> "idle", spend |-> 0] /\ 0 \in 0..MaxRecords
    BY <1>0, <1>6 DEF WriteFile, Idle
  <2>3. acted' \in [known : BOOLEAN, spend : 0..MaxRecords]
    BY <1>0, <1>6 DEF WriteFile, NoRun
  <2> QED
    BY <1>6, <2>1, <2>2, <2>3 DEF WriteFile, env
<1>7. CASE MonitorFails
  BY <1>0, <1>7 DEF MonitorFails, env, Idle
<1>8. CASE \E value \in {"clear", "blocked"} : OpenByHand(value)
  BY <1>0, <1>8 DEF OpenByHand, env, NoRun, Status, RatioAtLeast
<1>9. CASE WriteByHand
  <2>1. file' \in {"clear", "blocked", "empty", "garbled"} /\ trained' \in 0..2
    BY <1>9 DEF WriteByHand, SetBlocked, Written
  <2> QED
    BY <1>0, <1>9, <2>1 DEF WriteByHand, env, NoRun, Status, RatioAtLeast
<1>10. CASE Expire
  BY <1>10 DEF Expire, Status, RatioAtLeast
<1>11. CASE StartLoop
  BY <1>11 DEF StartLoop, env, Stages, Status, RatioAtLeast
<1>12. CASE RunStage
  <2>1. Len(Stages) \in Nat
    BY DEF Stages
  <2>2. stage' \in 0..Len(Stages)
    BY <1>12, <2>1 DEF RunStage
  <2>3. trained' \in 0..2
    BY <1>12 DEF RunStage
  <2> QED
    BY <1>12, <2>2, <2>3 DEF RunStage, env, Status, RatioAtLeast
<1>13. CASE FailStage
  BY <1>13 DEF FailStage, env, Stages, Status, RatioAtLeast
<1>14. CASE ServerCrash
  BY <1>0, <1>14 DEF ServerCrash, env, Idle, NoRun, Status, RatioAtLeast
<1>15. CASE UNCHANGED vars
  BY <1>15 DEF vars, env, Status, RatioAtLeast
<1> QED
  BY <1>1, <1>2, <1>3, <1>4, <1>5, <1>6, <1>7, <1>8, <1>9, <1>10, <1>11, <1>12,
     <1>13, <1>14, <1>15 DEF Next, RunMonitor

(* The types of BudgetLoop's variables, for every set of budgets (budget_monitor.py). *)
THEOREM TypeCorrect == Spec => []TypeOK
  BY InitTypeOK, NextTypeOK, PTL DEF Spec

-----------------------------------------------------------------------------
LEMMA NextBlockIsVerdict == TypeOK /\ BlockIsVerdict /\ [Next]_vars => BlockIsVerdict'
<1> SUFFICES ASSUME TypeOK, BlockIsVerdict, [Next]_vars PROVE BlockIsVerdict'
  OBVIOUS
<1>1. CASE OpenFile
  BY <1>1 DEF OpenFile, BlockIsVerdict, TypeOK
<1>2. CASE WriteFile
  <2> SUFFICES ASSUME acted'.known
               PROVE  file' = IF UsedUp(acted.spend)' THEN "blocked" ELSE "clear"
    BY DEF BlockIsVerdict
  <2>1. file = "empty" /\ acted' = [known |-> TRUE, spend |-> monitor.spend]
    BY <1>2 DEF WriteFile, NoRun
  <2>2. file' = Verdict(Status(monitor.spend))
    BY <1>2, <2>1 DEF WriteFile, SetBlocked, Written
  <2>3. Status(monitor.spend) = "exceeded" <=> UsedUp(monitor.spend)
    <3> monitor.spend \in Nat
      BY BoundsAssumption DEF TypeOK
    <3> QED
      BY ExceededIsUsedUp
  <2>4. UsedUp(acted.spend)' <=> UsedUp(monitor.spend)
    BY <1>2, <2>1 DEF WriteFile, env, UsedUp
  <2> QED
    BY <2>2, <2>3, <2>4 DEF Verdict
<1>3. CASE \/ \E value \in {"clear", "blocked"} : OpenByHand(value)
           \/ WriteByHand
           \/ ServerCrash
  <2> acted'.known = FALSE
    BY <1>3 DEF OpenByHand, WriteByHand, ServerCrash, NoRun
  <2> QED
    BY DEF BlockIsVerdict
<1>4. CASE \/ RecordUsage \/ NextMonth \/ ReadSummary \/ PostEvent \/ MonitorFails
           \/ Expire \/ StartLoop \/ RunStage \/ FailStage \/ UNCHANGED vars
  <2>1. UNCHANGED <<file, acted, budget>>
    BY <1>4 DEF RecordUsage, NextMonth, ReadSummary, PostEvent, MonitorFails, Expire,
                StartLoop, RunStage, FailStage, vars, env
  <2>2. monitor'.at # "write" => monitor.at # "write"
    BY <1>4 DEF RecordUsage, NextMonth, ReadSummary, PostEvent, MonitorFails, Expire,
                StartLoop, RunStage, FailStage, vars
  <2> QED
    BY <2>1, <2>2 DEF BlockIsVerdict, UsedUp
<1> QED
  BY <1>1, <1>2, <1>3, <1>4 DEF Next, RunMonitor

(* For every budget, zero included: until somebody else touches the file, it says
   whether the budget was used up when the monitor's last complete run read the
   summary (budget_monitor.py). *)
THEOREM BlocksAreVerdicts == Spec => []BlockIsVerdict
<1>1. Init => BlockIsVerdict
  BY DEF Init, BlockIsVerdict, NoRun
<1> QED
  BY <1>1, TypeCorrect, NextBlockIsVerdict, PTL DEF Spec

-----------------------------------------------------------------------------
\* Nothing has been trained against a file that says clear.
ClearIsUntrained == file = "clear" => trained = 0

DrainInv == ClearIsUntrained /\ TrainingDrains

LEMMA NextDrainInv == TypeOK /\ DrainInv /\ [Next]_vars => DrainInv'
<1> SUFFICES ASSUME TypeOK, DrainInv, [Next]_vars PROVE DrainInv'
  OBVIOUS
<1> USE DEF DrainInv, ClearIsUntrained, TrainingDrains
<1>0. trained \in 0..2 /\ stage \in 0..6
  BY DEF TypeOK, Stages
<1>1. CASE OpenFile \/ \E value \in {"clear", "blocked"} : OpenByHand(value)
  BY <1>0, <1>1 DEF OpenFile, OpenByHand, env
<1>2. CASE WriteFile \/ WriteByHand
  <2>1. UNCHANGED <<token, stage>>
    BY <1>2 DEF WriteFile, WriteByHand, env
  <2>2. \/ file' = "clear" /\ trained' = 0
        \/ file' # "clear" /\ trained' = trained
    BY <1>2 DEF WriteFile, WriteByHand, SetBlocked
  <2> QED
    BY <1>0, <2>1, <2>2
<1>3. CASE StartLoop
  BY <1>0, <1>3 DEF StartLoop, NotBlocked, env
<1>4. CASE RunStage
  <2>1. UNCHANGED <<token, file>> /\ stage > 0
    BY <1>4 DEF RunStage, env
  <2>2. stage' = IF stage = 6 THEN 0 ELSE stage + 1
    BY <1>4 DEF RunStage, Stages
  <2>3. Stages[stage] = "run_training" <=> stage = 5
    BY <1>0, <2>1 DEF Stages
  <2>4. trained' = IF stage = 5 /\ file # "clear" /\ trained < 2 THEN trained + 1 ELSE trained
    BY <1>4, <2>3 DEF RunStage
  <2> QED
    BY <1>0, <2>1, <2>2, <2>4
<1>5. CASE FailStage
  BY <1>0, <1>5 DEF FailStage, env
<1>6. CASE Expire
  BY <1>0, <1>6 DEF Expire
<1>7. CASE \/ RecordUsage \/ NextMonth \/ ReadSummary \/ PostEvent \/ MonitorFails
           \/ ServerCrash \/ UNCHANGED vars
  <2> UNCHANGED <<token, file, stage, trained>>
    BY <1>7 DEF RecordUsage, NextMonth, ReadSummary, PostEvent, MonitorFails,
                ServerCrash, vars, env
  <2> QED
    OBVIOUS
<1> QED
  BY <1>1, <1>2, <1>3, <1>4, <1>5, <1>6, <1>7 DEF Next, RunMonitor

(* Once the file says anything but clear, one training at most is still to come,
   whatever the monitor, people and crashes do meanwhile (jobs.py). *)
THEOREM TrainingsDrain == Spec => []TrainingDrains
<1>1. Init => DrainInv
  BY DEF Init, DrainInv, ClearIsUntrained, TrainingDrains
<1>2. DrainInv => TrainingDrains
  BY DEF DrainInv
<1> QED
  BY <1>1, <1>2, TypeCorrect, NextDrainInv, PTL DEF Spec

-----------------------------------------------------------------------------
(* AgentGraphs: its graphs.                                                *)

Places == Targets \union {None, "story", "report", "decision", "persona", "experiment",
                          "initiative", "risk"}
Steps == [guarded : BOOLEAN, op : {"think", "check"} \union Writes, of : Places]

\* A graph is a line of steps, in which a guard stands, and none behind a write.
WellFormed(graph) ==
  /\ graph \in Seq(Steps)
  /\ graph # << >> => \E i \in 1..Len(graph) : graph[i].guarded
  /\ \A i \in 1..Len(graph) :
       /\ graph[i].op = "propose" => graph[i].of \in Targets \union {"report"}
       /\ graph[i].op = "confirm" => graph[i].of \in Targets
       /\ graph[i].guarded => \A j \in 1..(i - 1) : graph[j].op \notin Writes

LEMMA LineOfOne ==
  ASSUME NEW a \in Steps, a.guarded,
         a.op = "propose" => a.of \in Targets \union {"report"},
         a.op = "confirm" => a.of \in Targets
  PROVE  WellFormed(<<a>>)
<1> DEFINE g == <<a>>
<1>1. g \in Seq(Steps) /\ Len(g) = 1 /\ g[1] = a
  OBVIOUS
<1> HIDE DEF g
<1>2. WellFormed(g)
  BY <1>1 DEF WellFormed
<1> QED BY <1>2 DEF g

LEMMA TwoLines ==
  ASSUME NEW T, NEW a \in T, NEW b \in T
  PROVE  <<a>> \o <<b>> = <<a, b>>
<1> DEFINE s == <<a>>
           t == <<b>>
           u == <<a, b>>
<1>1. s \in Seq(T) /\ Len(s) = 1 /\ s[1] = a
  OBVIOUS
<1>2. t \in Seq(T) /\ Len(t) = 1 /\ t[1] = b
  OBVIOUS
<1>3. u \in Seq(T) /\ Len(u) = 2 /\ u[1] = a /\ u[2] = b
  OBVIOUS
<1> HIDE DEF s, t, u
<1>4. /\ s \o t \in Seq(T) /\ Len(s \o t) = 1 + 1
      /\ \A i \in 1..(1 + 1) : (s \o t)[i] = IF i =< 1 THEN s[i] ELSE t[i - 1]
  <2>1. s \in Seq(T) /\ t \in Seq(T)
    BY <1>1, <1>2
  <2>2. /\ s \o t \in Seq(T) /\ Len(s \o t) = Len(s) + Len(t)
        /\ \A i \in 1..(Len(s) + Len(t)) : (s \o t)[i] = IF i =< Len(s) THEN s[i] ELSE t[i - Len(s)]
    BY ONLY <2>1, ConcatProperties
  <2> QED BY ONLY <1>1, <1>2, <2>2
<1>5. \A i \in 1..2 : i = 1 \/ i = 2
  OBVIOUS
<1>6. \A i \in 1..2 : (s \o t)[i] = u[i]
  BY <1>1, <1>2, <1>3, <1>4, <1>5
<1>7. s \o t = u
  BY <1>3, <1>4, <1>6, SeqEqual
<1> QED BY <1>7 DEF s, t, u

LEMMA LineOfTwo ==
  ASSUME NEW a \in Steps, NEW b \in Steps, a.op \in {"think", "check"},
         a.guarded \/ b.guarded,
         b.op = "propose" => b.of \in Targets \union {"report"},
         b.op = "confirm" => b.of \in Targets
  PROVE  WellFormed(<<a, b>>)
<1> DEFINE g == <<a, b>>
<1>1. g \in Seq(Steps) /\ Len(g) = 2 /\ g[1] = a /\ g[2] = b
  OBVIOUS
<1>2. a.op \notin Writes
  BY DEF Writes
<1> HIDE DEF g
<1>3. ASSUME NEW i \in 1..2
      PROVE  /\ g[i].op = "propose" => g[i].of \in Targets \union {"report"}
             /\ g[i].op = "confirm" => g[i].of \in Targets
             /\ g[i].guarded => \A j \in 1..(i - 1) : g[j].op \notin Writes
  <2>1. CASE i = 1
    BY <1>1, <1>2, <2>1 DEF Writes
  <2>2. CASE i = 2
    <3>1. i - 1 = 1
      BY <2>2
    <3> QED BY <1>1, <1>2, <2>2, <3>1
  <2> QED BY <2>1, <2>2
<1>4. WellFormed(g)
  BY <1>1, <1>3 DEF WellFormed
<1> QED BY <1>4 DEF g

LEMMA LineOfThree ==
  ASSUME NEW a \in Steps, NEW b \in Steps, NEW c \in Steps, a.op = "think", a.guarded,
         b.op = "think" \/ (b.op = "create" /\ ~ c.guarded),
         c.op = "create" \/ (c.op = "propose" /\ c.of = "report")
  PROVE  WellFormed(<<a, b, c>>)
<1> DEFINE g == <<a, b, c>>
<1>1. g \in Seq(Steps) /\ Len(g) = 3 /\ g[1] = a /\ g[2] = b /\ g[3] = c
  OBVIOUS
<1>2. a.op \notin Writes /\ (c.guarded => b.op \notin Writes)
  BY DEF Writes
<1> HIDE DEF g
<1>3. ASSUME NEW i \in 1..3
      PROVE  /\ g[i].op = "propose" => g[i].of \in Targets \union {"report"}
             /\ g[i].op = "confirm" => g[i].of \in Targets
             /\ g[i].guarded => \A j \in 1..(i - 1) : g[j].op \notin Writes
  <2>1. CASE i = 1
    BY <1>1, <1>2, <2>1 DEF Writes
  <2>2. CASE i = 2
    <3>1. i - 1 = 1
      BY <2>2
    <3> QED BY <1>1, <1>2, <2>2, <3>1 DEF Writes
  <2>3. CASE i = 3
    <3>1. \A j \in 1..(i - 1) : j = 1 \/ j = 2
      BY <2>3
    <3> QED BY <1>1, <1>2, <2>3, <3>1
  <2> QED BY <2>1, <2>2, <2>3
<1>4. WellFormed(g)
  BY <1>1, <1>3 DEF WellFormed
<1> QED BY <1>4 DEF g

(* An initiative, and then its risks, which stand behind no guard. *)
LEMMA InitiativesAreWellFormed == \A n \in Nat : WellFormed(Initiative(n))
<1> SUFFICES ASSUME NEW n \in Nat PROVE WellFormed(Initiative(n))
  OBVIOUS
<1> DEFINE before == <<Think, Request("create", "initiative")>>
           g == Initiative(n)
<1>1. Think \in Steps /\ Request("create", "initiative") \in Steps
      /\ Request("create", "risk") \in Steps
  BY DEF Think, Node, Request, Steps, Writes, Places
<1>2. before \in Seq(Steps) /\ Len(before) = 2
  BY <1>1
<1>3. Risks(n) \in Seq(Steps) /\ Len(Risks(n)) = n
  BY <1>1 DEF Risks
<1>4. g = before \o Risks(n)
  BY DEF Initiative
<1> HIDE DEF g
<1>5. g \in Seq(Steps) /\ Len(g) = n + 2
  BY <1>2, <1>3, <1>4
<1>6. g[1] = Think /\ g[2] = Request("create", "initiative")
  BY <1>2, <1>3, <1>4
<1>7. \A i \in 3..(n + 2) : g[i] = Request("create", "risk")
  <2> TAKE i \in 3..(n + 2)
  <2>1. g[i] = Risks(n)[i - 2]
    BY <1>2, <1>3, <1>4
  <2> QED BY <2>1 DEF Risks
<1>8. \A i \in 1..(n + 2) : \/ i = 1 /\ g[i].op = "think" /\ g[i].guarded
                            \/ g[i].op = "create" /\ ~ g[i].guarded
  <2> TAKE i \in 1..(n + 2)
  <2>1. i = 1 \/ i = 2 \/ i \in 3..(n + 2)
    OBVIOUS
  <2> QED BY <1>6, <1>7, <2>1 DEF Think, Node, Request
<1>9. 1 \in 1..(n + 2) /\ g[1].guarded
  BY <1>6 DEF Think, Node
<1>10. WellFormed(g)
  BY <1>5, <1>8, <1>9 DEF WellFormed
<1> QED BY <1>10 DEF g

(* Every graph of AC/graphs/ has a guard, and none behind a write, an initiative with any
   number of risks included, and an L1 endpoint is only asked for a target. *)
THEOREM GraphsAreWellFormed == \A graph \in Graphs \union {<<>>} : WellFormed(graph)
<1> USE DEF Think, Node, Request, Steps, Writes, Places
<1>1. Think \in Steps /\ Think.op = "think" /\ Think.guarded
  OBVIOUS
<1>2. WellFormed(Backlog)
  <2>1. Node("create", "story") \in Steps /\ Node("create", "story").op = "create"
    OBVIOUS
  <2> HIDE DEF Think, Node, Steps
  <2> QED BY <1>1, <2>1, LineOfThree DEF Backlog
<1>3. ASSUME NEW x \in {"decision", "persona", "experiment", "report"}
      PROVE  WellFormed(<<Think, Request("create", x)>>)
  <2>1. Request("create", x) \in Steps /\ Request("create", x).op = "create"
    OBVIOUS
  <2> HIDE DEF Think, Request, Steps
  <2> QED BY <1>1, <2>1, LineOfTwo
<1>4. WellFormed(<<Think>>)
  <2> HIDE DEF Think, Steps
  <2> QED BY <1>1, LineOfOne
<1>5. WellFormed(<<Think, Think, Request("create", "report")>>)
      /\ WellFormed(<<Think, Request("create", "report"), Request("propose", "report")>>)
  <2>1. /\ Request("create", "report") \in Steps /\ Request("create", "report").op = "create"
        /\ Request("propose", "report") \in Steps /\ Request("propose", "report").op = "propose"
        /\ Request("propose", "report").of = "report" /\ ~ Request("propose", "report").guarded
    OBVIOUS
  <2> HIDE DEF Think, Request, Steps
  <2> QED BY <1>1, <2>1, LineOfThree
<1>6. ASSUME NEW t \in Targets
      PROVE  WellFormed(Propose(t)) /\ WellFormed(SendMessage(t))
             /\ WellFormed(ExecuteAfterApproval(t))
  <2>1. /\ Request("propose", t) \in Steps /\ Request("propose", t).op = "propose"
        /\ Request("propose", t).of = t
        /\ Node("confirm", t) \in Steps /\ Node("confirm", t).op = "confirm"
        /\ Node("confirm", t).of = t /\ Node("confirm", t).guarded
        /\ Request("check", t) \in Steps /\ Request("check", t).op = "check"
    OBVIOUS
  <2> HIDE DEF Think, Request, Node, Steps
  <2>2. WellFormed(Propose(t))
    BY <1>1, <2>1, LineOfTwo DEF Propose
  <2>3. WellFormed(SendMessage(t))
    BY <2>1, LineOfOne DEF SendMessage
  <2>4. ExecuteAfterApproval(t) = <<Request("check", t), Node("confirm", t)>>
    <3> QED BY <2>1, TwoLines DEF ExecuteAfterApproval, SendMessage
  <2>5. WellFormed(<<Request("check", t), Node("confirm", t)>>)
    BY <2>1, LineOfTwo
  <2> QED BY <2>2, <2>3, <2>4, <2>5
<1>7. WellFormed(<<>>)
  BY DEF WellFormed
<1> HIDE DEF Think, Node, Request, Steps, Writes, Places
<1>8. MaxRisks \in Nat
  BY MaxRisksAssumption
<1> QED
  BY <1>2, <1>3, <1>4, <1>5, <1>6, <1>7, <1>8, InitiativesAreWellFormed
     DEF Graphs, MonitorKpi, RecordDecision, WeeklyReview, Discovery, Experiment, DraftMessage
-----------------------------------------------------------------------------
(* AgentGraphs: the writes among the steps of a graph.                     *)

(* Induction up to L, for a set of numbers. *)
LEMMA CountUp ==
  ASSUME NEW L \in Nat, NEW S, 0 \in S, \A n \in 0..(L - 1) : n \in S => n + 1 \in S
  PROVE  \A n \in 0..L : n \in S
<1> DEFINE B == {n \in Nat : n =< L /\ n \notin S}
<1> SUFFICES ASSUME B # {} PROVE FALSE
  OBVIOUS
<1>1. B \in SUBSET Nat
  OBVIOUS
<1> DEFINE R == OpToRel(<, Nat)
<1>2. \A x, y \in Nat : y < x => <<y, x>> \in R
  BY DEF OpToRel
<1>3. IsWellFoundedOn(R, Nat)
  BY NatLessThanWellFounded
<1> HIDE DEF B, R
<1>4. PICK k \in B : \A m \in B : ~ (<<m, k>> \in R)
  BY <1>1, <1>3, WFMin
<1>5. \A m \in B : ~ (m < k)
  BY <1>1, <1>2, <1>4, Zenon
<1>6. k \in Nat /\ k =< L /\ k \notin S
  BY DEF B
<1>7. k # 0
  BY <1>6
<1>8. k - 1 \in 0..(L - 1) /\ k - 1 \notin B
  BY <1>5, <1>6, <1>7
<1>9. k - 1 \in S
  BY <1>6, <1>7, <1>8 DEF B
<1> QED BY <1>6, <1>8, <1>9

(* What WritesAmong says, step by step. *)
LEMMA WritesUpto ==
  ASSUME NEW graph, Len(graph) \in Nat
  PROVE  /\ WritesAmong(graph)[0] = << >>
         /\ \A n \in 1..Len(graph) :
              WritesAmong(graph)[n] =
                IF graph[n].op \in Writes THEN Append(WritesAmong(graph)[n - 1], graph[n])
                                          ELSE WritesAmong(graph)[n - 1]
<1> DEFINE L == Len(graph)
           Body(f, n) == IF n = 0 THEN << >>
                         ELSE IF graph[n].op \in Writes THEN Append(f[n - 1], graph[n]) ELSE f[n - 1]
           F == CHOOSE f : f = [n \in 0..L |-> Body(f, n)]
           S == {m \in 0..L : \E f : f = [n \in 0..m |-> Body(f, n)]}
<1>1. 0 \in S
  <2> DEFINE f == [n \in 0..0 |-> <<>>]
  <2>1. f = [n \in 0..0 |-> Body(f, n)]
    OBVIOUS
  <2> HIDE DEF Body, f
  <2>2. \E h : h = [n \in 0..0 |-> Body(h, n)]
    BY <2>1
  <2> QED BY <2>2
<1>2. ASSUME NEW m \in 0..(L - 1), m \in S PROVE m + 1 \in S
  <2>1. PICK f : f = [n \in 0..m |-> Body(f, n)]
    BY <1>2
  <2> DEFINE g == [n \in 0..(m + 1) |-> IF n =< m THEN f[n] ELSE Body(f, n)]
  <2> HIDE DEF Body
  <2>2. ASSUME NEW n \in 0..(m + 1) PROVE g[n] = Body(g, n)
    <3>1. \A k \in 0..m : g[k] = f[k] /\ f[k] = Body(f, k)
      BY <2>1
    <3>2. n # 0 => n - 1 \in 0..m /\ g[n - 1] = f[n - 1]
      BY <3>1
    <3>3. Body(g, n) = Body(f, n)
      BY <3>2 DEF Body
    <3>4. g[n] = Body(f, n)
      <4>1. CASE n = m + 1
        BY <4>1
      <4>2. CASE n # m + 1
        <5>1. n \in 0..m
          BY <4>2
        <5> QED BY <3>1, <5>1
      <4> QED BY <4>1, <4>2
    <3> QED BY <3>3, <3>4
  <2>3. g = [n \in 0..(m + 1) |-> Body(g, n)]
    BY <2>2
  <2>4. \E h : h = [n \in 0..(m + 1) |-> Body(h, n)]
    BY <2>3
  <2> QED BY <2>4
<1>3. L \in S
  <2> HIDE DEF S, L
  <2>1. L \in Nat
    BY DEF L
  <2>2. \A n \in 0..L : n \in S
    BY <1>1, <1>2, <2>1, CountUp
  <2> QED BY <2>1, <2>2
<1>4. F = [n \in 0..L |-> Body(F, n)]
  <2> HIDE DEF Body
  <2> QED BY <1>3
<1>5. WritesAmong(graph) = F
  BY DEF WritesAmong
<1> HIDE DEF F
<1>6. F[0] = << >>
  BY <1>4
<1>7. \A n \in 1..L : F[n] = Body(F, n)
  <2> HIDE DEF Body
  <2> QED BY <1>4
<1> QED BY <1>5, <1>6, <1>7

LEMMA WritesAreSteps ==
  ASSUME NEW graph, WellFormed(graph)
  PROVE  \A n \in 0..Len(graph) : WritesAmong(graph)[n] \in Seq(Steps)
<1> DEFINE W == WritesAmong(graph)
           L == Len(graph)
           S == {n \in 0..L : W[n] \in Seq(Steps)}
<1>1. graph \in Seq(Steps) /\ L \in Nat
  BY DEF WellFormed
<1>2. W[0] = << >> /\ \A n \in 1..L : W[n] = IF graph[n].op \in Writes THEN Append(W[n - 1], graph[n])
                                                ELSE W[n - 1]
  BY <1>1, WritesUpto
<1> HIDE DEF W
<1>3. 0 \in S
  <2>1. W[0] = << >>
    BY <1>2
  <2>2. W[0] \in Seq(Steps)
    BY ONLY <2>1
  <2>3. 0 \in 0..L
    BY ONLY <1>1
  <2> QED BY ONLY <2>2, <2>3
<1>4. ASSUME NEW n \in 0..(L - 1), n \in S PROVE n + 1 \in S
  <2>1. n + 1 \in 1..L /\ (n + 1) - 1 = n
    BY <1>1
  <2>2. W[n + 1] = Append(W[n], graph[n + 1]) \/ W[n + 1] = W[n]
    BY <1>2, <2>1
  <2>3. graph[n + 1] \in Steps
    BY <1>1, <2>1
  <2>4. W[n] \in Seq(Steps)
    BY <1>4
  <2>5. W[n + 1] \in Seq(Steps)
    BY <2>2, <2>3, <2>4, AppendProperties, Zenon
  <2> QED BY <2>1, <2>5
<1> HIDE DEF S, L
<1>5. \A n \in 0..L : n \in S
  BY <1>1, <1>3, <1>4, CountUp
<1> QED BY <1>5 DEF S, L, W

(* What has been written early is a prefix of what has been written later. *)
LEMMA WritesArePrefixes ==
  ASSUME NEW graph, WellFormed(graph), NEW p \in 0..Len(graph)
  PROVE  IsPrefix(WritesAmong(graph)[p], WritesOf(graph))
<1> DEFINE W == WritesAmong(graph)
           L == Len(graph)
           Starts(s, t) == Len(s) =< Len(t) /\ \A i \in 1..Len(s) : t[i] = s[i]
           S == {n \in 0..L : n >= p => Starts(W[p], W[n])}
<1>1. graph \in Seq(Steps) /\ L \in Nat /\ p \in 0..L
  BY DEF WellFormed
<1>2. \A n \in 1..L : W[n] = IF graph[n].op \in Writes THEN Append(W[n - 1], graph[n])
                                                ELSE W[n - 1]
  BY <1>1, WritesUpto
<1>3. \A n \in 0..L : W[n] \in Seq(Steps)
  BY WritesAreSteps
<1> HIDE DEF W
<1>4. 0 \in S
  <2>1. 0 >= p => W[p] = W[0]
    BY <1>1
  <2> QED BY <1>1, <1>3, <2>1
<1>5. ASSUME NEW n \in 0..(L - 1), n \in S PROVE n + 1 \in S
  <2>1. n + 1 \in 1..L /\ (n + 1) - 1 = n /\ n \in 0..L
    BY <1>1
  <2>2. W[n] \in Seq(Steps) /\ W[p] \in Seq(Steps) /\ W[n + 1] \in Seq(Steps)
    BY <1>1, <1>3, <2>1
  <2>3. Len(W[n]) =< Len(W[n + 1]) /\ \A i \in 1..Len(W[n]) : W[n + 1][i] = W[n][i]
    <3>1. W[n + 1] = Append(W[n], graph[n + 1]) \/ W[n + 1] = W[n]
      BY <1>2, <2>1
    <3>2. graph[n + 1] \in Steps
      BY <1>1, <2>1
    <3>3. CASE W[n + 1] = W[n]
      BY ONLY <2>2, <3>3
    <3>4. CASE W[n + 1] = Append(W[n], graph[n + 1])
      <4> DEFINE s == W[n]
                 e == graph[n + 1]
      <4>1. s \in Seq(Steps) /\ e \in Steps
        BY <2>2, <3>2
      <4> HIDE DEF s, e
      <4>2. Len(Append(s, e)) = Len(s) + 1 /\ \A i \in 1..Len(s) : Append(s, e)[i] = s[i]
        BY ONLY <4>1, AppendProperties
      <4>3. Len(s) \in Nat
        BY ONLY <4>1
      <4> QED BY <3>4, <4>2, <4>3 DEF s, e
    <3> QED BY <3>1, <3>3, <3>4
  <2>4. CASE n >= p
    <3>1. Starts(W[p], W[n])
      BY <1>5, <2>4
    <3>2. Starts(W[p], W[n + 1])
      BY <2>2, <2>3, <3>1
    <3> QED BY <2>1, <3>2
  <2>5. CASE ~ (n >= p)
    <3>1. n + 1 >= p => W[n + 1] = W[p]
      BY <1>1, <2>5
    <3>2. n + 1 >= p => Starts(W[p], W[n + 1])
      BY <2>2, <3>1
    <3> QED BY <2>1, <3>2
  <2> QED BY <2>4, <2>5
<1> HIDE DEF S, L, Starts
<1>6. \A n \in 0..L : n \in S
  BY <1>1, <1>4, <1>5, CountUp
<1>7. L \in 0..L /\ L >= p
  BY <1>1
<1>8. Starts(W[p], W[L])
  BY <1>6, <1>7 DEF S
<1>9. W[p] \in Seq(Steps) /\ W[L] \in Seq(Steps)
  BY <1>1, <1>3, <1>7
<1>10. WritesOf(graph) = W[L]
  BY DEF WritesOf, W, L
<1>11. IsPrefix(W[p], W[L])
  <2>1. Len(W[p]) =< Len(W[L]) /\ \A i \in 1..Len(W[p]) : W[L][i] = W[p][i]
    BY <1>8 DEF Starts
  <2> QED BY <1>9, <2>1 DEF IsPrefix
<1> QED BY <1>10, <1>11 DEF W

(* Where a guard stands nothing has been written. *)
LEMMA NothingBeforeAGuard ==
  ASSUME NEW graph, WellFormed(graph), NEW p \in 0..(Len(graph) - 1), graph[p + 1].guarded
  PROVE  WritesAmong(graph)[p] = << >>
<1> DEFINE W == WritesAmong(graph)
           S == {n \in 0..p : W[n] = << >>}
<1>1. graph \in Seq(Steps) /\ Len(graph) \in Nat /\ p \in Nat
  BY DEF WellFormed
<1>2. W[0] = << >> /\ \A n \in 1..Len(graph) : W[n] = IF graph[n].op \in Writes THEN Append(W[n - 1], graph[n])
                                                ELSE W[n - 1]
  BY <1>1, WritesUpto
<1>3. \A j \in 1..p : graph[j].op \notin Writes
  <2>1. p + 1 \in 1..Len(graph) /\ (p + 1) - 1 = p
    BY <1>1
  <2> QED BY <2>1 DEF WellFormed
<1> HIDE DEF W
<1>4. 0 \in S
  BY <1>1, <1>2
<1>5. ASSUME NEW n \in 0..(p - 1), n \in S PROVE n + 1 \in S
  <2>1. n + 1 \in 1..Len(graph) /\ (n + 1) - 1 = n /\ n + 1 \in 1..p
    BY <1>1
  <2> QED BY <1>2, <1>3, <1>5, <2>1
<1> HIDE DEF S
<1>6. \A n \in 0..p : n \in S
  BY <1>1, <1>4, <1>5, CountUp
<1>7. p \in 0..p
  BY <1>1
<1> QED BY <1>6, <1>7 DEF S, W
-----------------------------------------------------------------------------
(* AgentGraphs: its runs.                                                  *)

Line == [graph : Seq(Steps), rest : Seq(Steps), passed : BOOLEAN, made : Seq(Steps),
         end : {"none", "done", "stopped", "failed"}]

\* A run that has taken some of the steps of its graph.
Taken(h, k) ==
  /\ h.rest = SubSeq(h.graph, k + 1, Len(h.graph))
  /\ h.made = WritesAmong(h.graph)[k]

\* What a run that is not under way has made.
HasMade(h) ==
  \/ h.end \in {"none", "stopped"} /\ h.made = << >>
  \/ h.end = "done" /\ h.made = WritesOf(h.graph)
  \/ h.end = "failed" /\ \E n \in 0..Len(h.graph) : h.made = WritesAmong(h.graph)[n]

RunOK(h) ==
  /\ h \in Line /\ h.graph \in Graphs \union {<< >>}
  /\ h.rest # << >> => h.end = "none" /\ \E k \in 0..(Len(h.graph) - 1) : Taken(h, k)
  /\ h.rest = << >> => ~ h.passed /\ HasMade(h)
  /\ h.passed => Head(h.rest).guarded

RunsOK == run \in [Runs -> Line] /\ \A r \in Runs : RunOK(run[r])

OtherTypes ==
  /\ stopped \in BOOLEAN
  /\ approved \subseteq Targets
  /\ loose \subseteq Runs /\ late \subseteq Runs

GraphsInv == RunsOK /\ OtherTypes

LEMMA RestOfALine ==
  ASSUME NEW T, NEW s \in Seq(T), NEW k \in 0..(Len(s) - 1)
  PROVE  /\ s[k + 1] \in T
         /\ SubSeq(s, k + 1, Len(s)) \in Seq(T)
         /\ Len(SubSeq(s, k + 1, Len(s))) = Len(s) - k
         /\ SubSeq(s, k + 1, Len(s)) # << >>
         /\ Head(SubSeq(s, k + 1, Len(s))) = s[k + 1]
         /\ Tail(SubSeq(s, k + 1, Len(s))) \in Seq(T)
         /\ Tail(SubSeq(s, k + 1, Len(s))) = SubSeq(s, (k + 1) + 1, Len(s))
         /\ Tail(SubSeq(s, k + 1, Len(s))) = << >> <=> k + 1 = Len(s)
<1> DEFINE t == SubSeq(s, k + 1, Len(s))
           u == SubSeq(s, (k + 1) + 1, Len(s))
<1>0. Len(s) \in Nat /\ k \in Nat /\ k + 1 \in 1..Len(s) /\ k + 1 =< Len(s)
  OBVIOUS
<1>1. /\ t \in Seq(T) /\ Len(t) = Len(s) - k
      /\ \A i \in 1..(Len(s) - k) : t[i] = s[k + i]
  BY <1>0
<1>2. /\ u \in Seq(T) /\ Len(u) = Len(s) - k - 1
      /\ \A i \in 1..(Len(s) - k - 1) : u[i] = s[k + 1 + i]
  BY <1>0
<1> HIDE DEF t, u
<1>3. t # << >> /\ Len(t) >= 1
  BY <1>0, <1>1
<1>4. Head(t) = s[k + 1]
  BY <1>0, <1>1, <1>3
<1>5. Tail(t) \in Seq(T) /\ Len(Tail(t)) = Len(s) - k - 1
  BY <1>0, <1>1, <1>3
<1>6. ASSUME NEW i \in 1..(Len(s) - k - 1) PROVE Tail(t)[i] = u[i]
  <2>1. Tail(t)[i] = t[i + 1]
    BY <1>0, <1>1, <1>3
  <2>2. t[i + 1] = s[k + (i + 1)]
    BY <1>0, <1>1
  <2>3. k + (i + 1) = k + 1 + i
    BY <1>0
  <2>4. u[i] = s[k + 1 + i]
    BY <1>2
  <2> QED BY <2>1, <2>2, <2>3, <2>4
<1>7. Tail(t) = u
  BY <1>2, <1>5, <1>6, SeqEqual
<1>8. Tail(t) = << >> <=> k + 1 = Len(s)
  <2>1. Len(Tail(t)) = 0 <=> k + 1 = Len(s)
    <3>1. ASSUME NEW n \in Nat, NEW j \in Nat PROVE n - j - 1 = 0 <=> j + 1 = n
      OBVIOUS
    <3> QED BY <1>0, <1>5, <3>1, Zenon
  <2>2. Tail(t) = << >> <=> Len(Tail(t)) = 0
    BY <1>5, EmptySeq
  <2> QED BY <2>1, <2>2
<1>9. s[k + 1] \in T
  BY <1>0
<1> QED BY <1>1, <1>3, <1>4, <1>5, <1>7, <1>8, <1>9 DEF t, u

(* A run under way has a place in its graph, and the step there before it. *)
LEMMA PlaceOfRun ==
  ASSUME RunsOK, NEW r \in Runs, Active(r)
  PROVE  /\ run[r] \in Line /\ WellFormed(run[r].graph) /\ run[r].end = "none"
         /\ run[r].graph \in Graphs \union {<< >>}
         /\ \E k \in 0..(Len(run[r].graph) - 1) :
              /\ Taken(run[r], k)
              /\ Step(r) = run[r].graph[k + 1] /\ Step(r) \in Steps
              /\ Tail(run[r].rest) \in Seq(Steps)
              /\ Tail(run[r].rest) = SubSeq(run[r].graph, (k + 1) + 1, Len(run[r].graph))
              /\ Tail(run[r].rest) = << >> <=> k + 1 = Len(run[r].graph)
              /\ Len(run[r].rest) = 1 <=> k + 1 = Len(run[r].graph)
<1>1. RunOK(run[r]) /\ run[r].rest # << >>
  BY DEF RunsOK, Active
<1>2. WellFormed(run[r].graph)
  BY <1>1, GraphsAreWellFormed DEF RunOK
<1> DEFINE s == run[r].graph
<1>3. s \in Seq(Steps) /\ Len(s) \in Nat
  BY <1>2 DEF WellFormed
<1>4. PICK k \in 0..(Len(s) - 1) : Taken(run[r], k)
  BY <1>1 DEF RunOK
<1>5. run[r].rest = SubSeq(s, k + 1, Len(s))
  BY <1>4 DEF Taken
<1> HIDE DEF s
<1>6. /\ s[k + 1] \in Steps /\ Len(run[r].rest) = Len(s) - k
      /\ Head(run[r].rest) = s[k + 1]
      /\ Tail(run[r].rest) \in Seq(Steps)
      /\ Tail(run[r].rest) = SubSeq(s, (k + 1) + 1, Len(s))
      /\ Tail(run[r].rest) = << >> <=> k + 1 = Len(s)
  BY <1>3, <1>5, RestOfALine
<1>7. Len(run[r].rest) = 1 <=> k + 1 = Len(s)
  BY <1>3, <1>6
<1>8. Step(r) = s[k + 1]
  BY <1>6 DEF Step
<1> QED BY <1>1, <1>2, <1>4, <1>6, <1>7, <1>8 DEF s, RunOK

(* One more step: what has been made are still the writes up to there. *)
LEMMA OneMoreStep ==
  ASSUME RunsOK, NEW r \in Runs, Active(r), NEW k \in 0..(Len(run[r].graph) - 1),
         Taken(run[r], k), Step(r) = run[r].graph[k + 1], NEW m,
         m = IF Step(r).op \in Writes THEN <<Step(r)>> ELSE << >>
  PROVE  /\ run[r].made \o m = WritesAmong(run[r].graph)[k + 1]
         /\ run[r].made \o m \in Seq(Steps)
<1> DEFINE s == run[r].graph
           W == WritesAmong(s)
<1>1. WellFormed(s) /\ run[r].made = W[k]
  BY PlaceOfRun DEF Taken
<1>2. s \in Seq(Steps) /\ Len(s) \in Nat /\ k + 1 \in 1..Len(s) /\ (k + 1) - 1 = k
      /\ k \in 0..Len(s) /\ k + 1 \in 0..Len(s)
  BY <1>1 DEF WellFormed
<1>3. W[k] \in Seq(Steps) /\ W[k + 1] \in Seq(Steps)
  BY <1>1, <1>2, WritesAreSteps
<1>4. W[k + 1] = IF s[k + 1].op \in Writes THEN Append(W[k], s[k + 1]) ELSE W[k]
  BY <1>2, WritesUpto
<1>5. s[k + 1] \in Steps
  BY <1>2
<1> HIDE DEF s, W
<1>6. Append(W[k], s[k + 1]) = W[k] \o <<s[k + 1]>>
  BY <1>3, <1>5, AppendIsConcat
<1>7. W[k] \o << >> = W[k]
  BY <1>3, ConcatEmptySeq
<1>8. Step(r) = s[k + 1]
  BY DEF s
<1>9. W[k + 1] = W[k] \o m
  BY <1>4, <1>6, <1>7, <1>8
<1>10. run[r].made = W[k]
  BY <1>1
<1> QED BY <1>3, <1>9, <1>10 DEF W, s

LEMMA StartIsOK ==
  ASSUME NEW graph \in Graphs
  PROVE  RunOK([NotRun EXCEPT !.graph = graph, !.rest = graph])
<1> DEFINE h == [NotRun EXCEPT !.graph = graph, !.rest = graph]
<1>1. WellFormed(graph)
  BY GraphsAreWellFormed
<1>2. graph \in Seq(Steps) /\ Len(graph) \in Nat
  BY <1>1 DEF WellFormed
<1>3. /\ h.graph = graph /\ h.rest = graph /\ h.passed = FALSE /\ h.made = << >>
      /\ h.end = "none"
  BY DEF NotRun
<1>4. WritesAmong(graph)[0] = << >>
  BY <1>2, WritesUpto
<1>5. << >> \in Seq(Steps)
  OBVIOUS
<1>6. SubSeq(graph, 0 + 1, Len(graph)) = graph
  BY <1>2
<1> HIDE DEF h
<1>7. h \in Line
  <2>1. NotRun \in Line
    BY <1>5 DEF NotRun, Line
  <2> QED BY <1>2, <2>1 DEF Line, h
<1>8. h.rest # << >> => Taken(h, 0) /\ 0 \in 0..(Len(h.graph) - 1)
  <2>1. graph # << >> => 0 \in 0..(Len(graph) - 1)
    BY <1>2
  <2> QED BY <1>3, <1>4, <1>6, <2>1 DEF Taken
<1>9. RunOK(h)
  BY <1>3, <1>7, <1>8 DEF RunOK, HasMade
<1> QED BY <1>9 DEF h

LEMMA PassedIsOK ==
  ASSUME RunsOK, NEW r \in Runs, Active(r), Step(r).guarded
  PROVE  RunOK([run[r] EXCEPT !.passed = TRUE])
<1> DEFINE h == [run[r] EXCEPT !.passed = TRUE]
<1>1. RunOK(run[r]) /\ run[r] \in Line /\ run[r].rest # << >>
  BY DEF RunsOK, Active
<1>2. /\ h \in Line /\ h.passed
      /\ h.graph = run[r].graph /\ h.rest = run[r].rest /\ h.made = run[r].made
      /\ h.end = run[r].end
  BY <1>1 DEF Line
<1> HIDE DEF h
<1>3. \A k : Taken(run[r], k) => Taken(h, k)
  BY <1>2 DEF Taken
<1>4. Head(h.rest).guarded
  BY <1>2 DEF Step
<1>5. RunOK(h)
  BY <1>1, <1>2, <1>3, <1>4 DEF RunOK
<1> QED BY <1>5 DEF h

LEMMA AfterIsOK ==
  ASSUME RunsOK, NEW r \in Runs, Active(r), NEW m,
         m = IF Step(r).op \in Writes THEN <<Step(r)>> ELSE << >>
  PROVE  RunOK(After(r, m))
<1> DEFINE h == After(r, m)
           s == run[r].graph
<1>1. run[r] \in Line /\ WellFormed(s) /\ run[r].end = "none" /\ s \in Graphs \union {<< >>}
  BY PlaceOfRun
<1>2. PICK k \in 0..(Len(s) - 1) :
        /\ Taken(run[r], k) /\ Step(r) = s[k + 1]
        /\ Tail(run[r].rest) \in Seq(Steps)
        /\ Tail(run[r].rest) = SubSeq(s, (k + 1) + 1, Len(s))
        /\ Tail(run[r].rest) = << >> <=> k + 1 = Len(s)
        /\ Len(run[r].rest) = 1 <=> k + 1 = Len(s)
  BY PlaceOfRun
<1>3. run[r].made \o m = WritesAmong(s)[k + 1] /\ run[r].made \o m \in Seq(Steps)
  BY <1>2, OneMoreStep
<1>4. Len(s) \in Nat /\ k \in Nat
  BY <1>1 DEF WellFormed
<1>5. /\ h.graph = s /\ h.rest = Tail(run[r].rest) /\ ~ h.passed
      /\ h.made = run[r].made \o m
      /\ h.end = IF Len(run[r].rest) = 1 THEN "done" ELSE "none"
      /\ h \in Line
  BY <1>1, <1>2, <1>3 DEF After, Line
<1> HIDE DEF h, s
<1>6. CASE k + 1 = Len(s)
  <2>1. h.end = "done" /\ h.rest = << >> /\ h.made = WritesAmong(s)[k + 1]
    BY <1>2, <1>3, <1>5, <1>6
  <2>2. HasMade(h)
    BY <1>5, <1>6, <2>1 DEF HasMade, WritesOf
  <2>3. RunOK(h)
    BY <1>1, <1>5, <2>1, <2>2 DEF RunOK
  <2> QED BY <2>3 DEF h
<1>7. CASE k + 1 # Len(s)
  <2>1. h.end = "none" /\ h.rest # << >> /\ k + 1 \in 0..(Len(s) - 1)
    BY <1>2, <1>4, <1>5, <1>7
  <2>2. Taken(h, k + 1)
    BY <1>2, <1>3, <1>5 DEF Taken
  <2>3. RunOK(h)
    BY <1>1, <1>5, <2>1, <2>2 DEF RunOK
  <2> QED BY <2>3 DEF h
<1> QED BY <1>6, <1>7

(* However a run ends early, it has made what stands in its graph up to some place. *)
LEMMA EndedIsOK ==
  ASSUME RunsOK, NEW r \in Runs, Active(r), NEW how, NEW m,
         \/ how = "failed" /\ m = << >>
         \/ how = "failed" /\ m = <<Step(r)>> /\ Step(r).op \in Writes
         \/ how = "stopped" /\ m = << >> /\ Step(r).guarded
  PROVE  RunOK(Ended(r, how, m))
<1> DEFINE h == Ended(r, how, m)
           s == run[r].graph
<1>1. run[r] \in Line /\ WellFormed(s) /\ s \in Graphs \union {<< >>}
  BY PlaceOfRun
<1>2. PICK k \in 0..(Len(s) - 1) : Taken(run[r], k) /\ Step(r) = s[k + 1]
  BY PlaceOfRun
<1>3. run[r].made \in Seq(Steps) /\ run[r].made = WritesAmong(s)[k]
  BY <1>1, <1>2 DEF Line, Taken
<1>4. Len(s) \in Nat /\ k \in 0..Len(s) /\ k + 1 \in 0..Len(s)
  BY <1>1 DEF WellFormed
<1>5. run[r].made \o << >> = run[r].made
  BY <1>3, ConcatEmptySeq
<1>6. \/ how = "failed" /\ \E n \in 0..Len(s) : run[r].made \o m = WritesAmong(s)[n]
      \/ how = "stopped" /\ run[r].made \o m = << >>
  <2>1. CASE how = "failed" /\ m = << >>
    BY <1>3, <1>4, <1>5, <2>1
  <2>2. CASE how = "failed" /\ m = <<Step(r)>> /\ Step(r).op \in Writes
    <3>1. run[r].made \o m = WritesAmong(s)[k + 1]
      BY <1>2, <2>2, OneMoreStep
    <3> QED BY <1>4, <2>2, <3>1
  <2>3. CASE how = "stopped" /\ m = << >> /\ Step(r).guarded
    <3>1. WritesAmong(s)[k] = << >>
      BY <1>1, <1>2, <2>3, NothingBeforeAGuard
    <3> QED BY <1>3, <1>5, <2>3, <3>1
  <2> QED BY <2>1, <2>2, <2>3
<1>7. run[r].made \o m \in Seq(Steps)
  <2>1. Step(r) \in Steps
    BY PlaceOfRun
  <2>2. m \in Seq(Steps)
    <3> DEFINE e == Step(r)
    <3>1. e \in Steps /\ (m = << >> \/ m = <<e>>)
      BY <2>1
    <3> HIDE DEF e
    <3>2. << >> \in Seq(Steps) /\ <<e>> \in Seq(Steps)
      BY ONLY <3>1
    <3> QED BY ONLY <3>1, <3>2
  <2> QED BY <1>3, <2>2, ConcatProperties
<1>8. /\ h.graph = s /\ h.rest = << >> /\ h.passed = FALSE /\ h.made = run[r].made \o m
      /\ h.end = how /\ h \in Line
  <2>1. how \in {"done", "stopped", "failed"} /\ << >> \in Seq(Steps)
    BY <1>6
  <2>2. run[r] \in Line
    BY <1>1
  <2> HIDE DEF s
  <2> QED BY ONLY <1>7, <2>1, <2>2 DEF Ended, Line, h, s
<1> HIDE DEF h, s
<1>9. HasMade(h)
  BY <1>6, <1>8 DEF HasMade
<1>10. RunOK(h)
  BY <1>1, <1>8, <1>9 DEF RunOK
<1> QED BY <1>10 DEF h
-----------------------------------------------------------------------------
(* AgentGraphs: its steps.                                                 *)

LEMMA InitGraphsInv == GraphsInit => GraphsInv
<1> SUFFICES ASSUME GraphsInit PROVE GraphsInv
  OBVIOUS
<1>1. << >> \in Seq(Steps)
  OBVIOUS
<1>2. NotRun \in Line
  BY <1>1 DEF NotRun, Line
<1>3. RunOK(NotRun)
  BY <1>2 DEF RunOK, HasMade, NotRun
<1>4. RunsOK
  BY <1>2, <1>3 DEF GraphsInit, RunsOK
<1>5. OtherTypes
  BY DEF GraphsInit, OtherTypes
<1> QED BY <1>4, <1>5 DEF GraphsInv

\* Only the run of r has changed, into one that is right.
LEMMA OneRun ==
  ASSUME RunsOK, NEW r \in Runs, NEW h, RunOK(h), run' = [run EXCEPT ![r] = h]
  PROVE  RunsOK'
<1>1. h \in Line
  BY DEF RunOK
<1>2. run' \in [Runs -> Line]
  BY <1>1 DEF RunsOK
<1>3. ASSUME NEW q \in Runs PROVE RunOK(run'[q])
  <2>1. run'[q] = IF q = r THEN h ELSE run[q]
    BY DEF RunsOK
  <2> QED BY <2>1 DEF RunsOK
<1>4. \A q \in Runs : RunOK(run'[q])
  BY <1>3
<1> QED BY <1>2, <1>4 DEF RunsOK, RunOK, HasMade, Taken

LEMMA NextRunsOK == RunsOK /\ [GraphsNext]_graphVars => RunsOK'
<1> SUFFICES ASSUME RunsOK, [GraphsNext]_graphVars PROVE RunsOK'
  OBVIOUS
<1>1. ASSUME NEW r \in Runs, NEW graph \in Graphs, Start(r, graph) PROVE RunsOK'
  BY <1>1, StartIsOK, OneRun DEF Start
<1>2. ASSUME NEW r \in Runs, Guard(r) PROVE RunsOK'
  <2>1. Active(r) /\ Step(r).guarded
    BY <1>2 DEF Guard
  <2>2. CASE stopped
    <3>1. RunOK(Ended(r, "stopped", << >>))
      BY <2>1, EndedIsOK
    <3>2. run' = [run EXCEPT ![r] = Ended(r, "stopped", << >>)]
      BY <1>2, <2>2 DEF Guard
    <3> QED BY <3>1, <3>2, OneRun
  <2>3. CASE ~ stopped
    <3>1. RunOK([run[r] EXCEPT !.passed = TRUE])
      BY <2>1, PassedIsOK
    <3>2. run' = [run EXCEPT ![r] = [run[r] EXCEPT !.passed = TRUE]]
      BY <1>2, <2>3 DEF Guard
    <3> QED BY <3>1, <3>2, OneRun
  <2> QED BY <2>2, <2>3
<1>3. ASSUME NEW r \in Runs, Reason(r) PROVE RunsOK'
  <2>1. Active(r) /\ Step(r).op \notin Writes
    BY <1>3 DEF Reason, Ready, Writes
  <2>2. RunOK(After(r, << >>))
    BY <2>1, AfterIsOK
  <2> QED BY <1>3, <2>2, OneRun DEF Reason
<1>4. ASSUME NEW r \in Runs, Write(r) PROVE RunsOK'
  <2>1. Active(r) /\ Step(r).op \in Writes
    BY <1>4 DEF Write, Ready, Writes, Create, Submit, Confirm
  <2>2. RunOK(After(r, <<Step(r)>>))
    BY <2>1, AfterIsOK
  <2>3. RunOK(Ended(r, "failed", <<Step(r)>>))
    BY <2>1, EndedIsOK
  <2>4. \/ run' = [run EXCEPT ![r] = After(r, <<Step(r)>>)]
        \/ run' = [run EXCEPT ![r] = Ended(r, "failed", <<Step(r)>>)]
    BY <1>4 DEF Write
  <2> QED BY <2>2, <2>3, <2>4, OneRun
<1>5. ASSUME NEW r \in Runs, Raise(r) PROVE RunsOK'
  <2>1. RunOK(Ended(r, "failed", << >>))
    BY <1>5, EndedIsOK DEF Raise
  <2> QED BY <1>5, <2>1, OneRun DEF Raise
<1>6. ASSUME UNCHANGED run PROVE RunsOK'
  BY <1>6 DEF RunsOK, RunOK, HasMade, Taken
<1>7. CASE TriggerStop \/ ReleaseStop \/ (\E t \in Targets : Approve(t) \/ Rewrite(t))
          \/ UNCHANGED graphVars
  BY <1>6, <1>7 DEF TriggerStop, ReleaseStop, Approve, Rewrite, graphVars
<1> QED
  BY <1>1, <1>2, <1>3, <1>4, <1>5, <1>7 DEF GraphsNext

LEMMA NextOtherTypes == OtherTypes /\ [GraphsNext]_graphVars => OtherTypes'
<1> SUFFICES ASSUME OtherTypes, [GraphsNext]_graphVars PROVE OtherTypes'
  OBVIOUS
<1> USE DEF OtherTypes, stopHistory
<1>1. ASSUME NEW r \in Runs, Write(r) PROVE OtherTypes'
  BY <1>1 DEF Write
<1>2. ASSUME NEW t \in Targets, Approve(t) \/ Rewrite(t) PROVE OtherTypes'
  BY <1>2 DEF Approve, Rewrite
<1>3. CASE TriggerStop \/ ReleaseStop \/ UNCHANGED graphVars
  BY <1>3 DEF TriggerStop, ReleaseStop, graphVars
<1>4. ASSUME NEW r \in Runs, Guard(r) \/ Reason(r) \/ Raise(r) PROVE OtherTypes'
  BY <1>4 DEF Guard, Reason, Raise
<1>5. ASSUME NEW r \in Runs, NEW graph \in Graphs, Start(r, graph) PROVE OtherTypes'
  BY <1>5 DEF Start
<1> QED
  BY <1>1, <1>2, <1>3, <1>4, <1>5 DEF GraphsNext

LEMMA GraphsInvHolds == GraphsSpec => []GraphsInv
<1>1. GraphsInv /\ [GraphsNext]_graphVars => GraphsInv'
  BY NextRunsOK, NextOtherTypes DEF GraphsInv
<1> QED
  BY <1>1, InitGraphsInv, PTL DEF GraphsSpec

(* A run always has the rest of one of the graphs before it, and nothing is proposed,
   approved or executed that the graphs do not name (AC/graphs/). *)
THEOREM GraphsTypeCorrect == GraphsSpec => []GraphsTypeOK
<1>1. GraphsInv => GraphsTypeOK
  <2> SUFFICES ASSUME GraphsInv PROVE GraphsTypeOK
    OBVIOUS
  <2>1. ASSUME NEW r \in Runs
        PROVE  /\ run[r].graph \in Graphs \union {<< >>}
               /\ run[r].passed \in BOOLEAN
               /\ run[r].end \in {"none", "done", "stopped", "failed"}
               /\ run[r].passed => Active(r) /\ Step(r).guarded
    BY DEF GraphsInv, RunsOK, RunOK, Line, Active, Step
  <2>2. ASSUME NEW r \in Runs
        PROVE  \E taken \in 0..Len(run[r].graph) :
                 run[r].rest = SubSeq(run[r].graph, taken + 1, Len(run[r].graph))
    <3> DEFINE s == run[r].graph
    <3>1. RunOK(run[r])
      BY DEF GraphsInv, RunsOK
    <3>2. s \in Seq(Steps) /\ Len(s) \in Nat
      BY <3>1 DEF RunOK, Line
    <3>3. CASE run[r].rest = << >>
      <4>1. SubSeq(s, Len(s) + 1, Len(s)) = << >>
        BY <3>2
      <4>2. Len(s) \in 0..Len(s)
        BY <3>2
      <4> QED BY <3>3, <4>1, <4>2
    <3>4. CASE run[r].rest # << >>
      <4>1. PICK k \in 0..(Len(s) - 1) : Taken(run[r], k)
        BY <3>1, <3>4 DEF RunOK
      <4>2. k \in 0..Len(s)
        BY <3>2
      <4> QED BY <4>1, <4>2 DEF Taken
    <3> QED BY <3>3, <3>4
  <2> QED BY <2>1, <2>2 DEF GraphsTypeOK, GraphsInv, OtherTypes
<1> QED
  BY <1>1, GraphsInvHolds, PTL

(* For every set of runs, all targets and risks: a graph that ends regularly has made all
   of its writes in their order, one that the stop ends has made none, and everything
   else is the work up to a request that failed (AC/graphs/, guards.py). *)
THEOREM GraphsFailHalfDone == GraphsSpec => []HalfDoneOnlyByFailure
<1>1. RunsOK => HalfDoneOnlyByFailure
  <2> SUFFICES ASSUME RunsOK, NEW r \in Runs
               PROVE  /\ run[r].end = "done" => run[r].made = WritesOf(run[r].graph)
                      /\ run[r].end = "stopped" => run[r].made = << >>
                      /\ run[r].end \notin {"done", "stopped"} =>
                           IsPrefix(run[r].made, WritesOf(run[r].graph))
    BY DEF HalfDoneOnlyByFailure
  <2> DEFINE s == run[r].graph
  <2>1. RunOK(run[r])
    BY DEF RunsOK
  <2>2. WellFormed(s)
    BY <2>1, GraphsAreWellFormed DEF RunOK
  <2>3. Len(s) \in Nat
    BY <2>2 DEF WellFormed
  <2>4. \A p \in 0..Len(s) : IsPrefix(WritesAmong(s)[p], WritesOf(s))
    BY <2>2, WritesArePrefixes
  <2>5. CASE run[r].rest # << >>
    <3>1. PICK k \in 0..(Len(s) - 1) : Taken(run[r], k)
      BY <2>1, <2>5 DEF RunOK
    <3>2. k \in 0..Len(s) /\ run[r].made = WritesAmong(s)[k]
      BY <2>3, <3>1 DEF Taken
    <3>3. run[r].end = "none"
      BY <2>1, <2>5 DEF RunOK
    <3> QED BY <2>4, <3>2, <3>3
  <2>6. CASE run[r].rest = << >>
    <3>1. HasMade(run[r])
      BY <2>1, <2>6 DEF RunOK
    <3>2. 0 \in 0..Len(s) /\ WritesAmong(s)[0] = << >>
      BY <2>3, WritesUpto
    <3>3. IsPrefix(<< >>, WritesOf(s))
      BY <2>4, <3>2
    <3> QED BY <2>4, <3>1, <3>3 DEF HasMade
  <2> QED BY <2>5, <2>6
<1> QED
  BY <1>1, GraphsInvHolds, PTL DEF GraphsInv

-----------------------------------------------------------------------------
(* AgentGraphs: the stop.                                                  *)

\* While the stop is on, who has no guard before it had none when it was triggered.
LooseIsKnown == stopped => \A r \in Runs : PastLastGuard(r) => r \in loose

\* While it is off, nobody is late.
NobodyIsLate == ~stopped => late = {}

StopInv == LooseIsKnown /\ NobodyIsLate /\ StopSparesOnlyLoose

(* Where a run writes, its last guard is behind it. *)
LEMMA WritersArePastGuards ==
  ASSUME RunsOK, NEW r \in Runs, Ready(r), Step(r).op \in Writes
  PROVE  PastLastGuard(r)
<1> DEFINE s == run[r].graph
<1>1. Active(r) /\ (Step(r).guarded => run[r].passed)
  BY DEF Ready
<1>2. WellFormed(s)
  BY <1>1, PlaceOfRun
<1>3. PICK k \in 0..(Len(s) - 1) : Taken(run[r], k) /\ Step(r) = s[k + 1]
  BY <1>1, PlaceOfRun
<1>4. s \in Seq(Steps) /\ Len(s) \in Nat /\ k \in Nat /\ k + 1 \in 1..Len(s)
  BY <1>2 DEF WellFormed
<1>5. run[r].rest = SubSeq(s, k + 1, Len(s))
  BY <1>3 DEF Taken
<1> HIDE DEF s
<1>6. /\ Len(run[r].rest) = Len(s) - k
      /\ \A i \in 1..(Len(s) - k) : run[r].rest[i] = s[k + i]
  BY <1>4, <1>5
<1>7. ASSUME NEW i \in 1..Len(run[r].rest), run[r].rest[i].guarded
      PROVE  i = 1 /\ run[r].passed
  <2>1. i \in 1..(Len(s) - k) /\ s[k + i].guarded
    BY <1>6, <1>7
  <2>2. CASE i = 1
    BY <1>1, <1>3, <2>1, <2>2
  <2>3. CASE i # 1
    <3>1. k + i \in 1..Len(s) /\ k + 1 \in 1..((k + i) - 1)
      BY <1>4, <2>1, <2>3
    <3>2. s[k + 1].op \notin Writes
      BY <1>2, <2>1, <3>1 DEF WellFormed
    <3> QED BY <1>3, <3>2
  <2> QED BY <2>2, <2>3
<1> QED BY <1>1, <1>7 DEF PastLastGuard

(* A run that has no guard before it after a step had none before the step. *)
LEMMA GuardsAreAhead ==
  ASSUME RunsOK, NEW r \in Runs, Ready(r), NEW m,
         run' = [run EXCEPT ![r] = After(r, m)], PastLastGuard(r)'
  PROVE  PastLastGuard(r)
<1> DEFINE rest == run[r].rest
<1>1. Active(r) /\ (Step(r).guarded => run[r].passed)
  BY DEF Ready
<1>2. rest \in Seq(Steps) /\ rest # << >>
  BY <1>1, PlaceOfRun DEF Line, Active
<1>3. run'[r] = After(r, m) /\ run[r] \in Line
  BY DEF RunsOK
<1>4. run'[r].rest = Tail(rest) /\ ~ run'[r].passed
  BY <1>3 DEF After, Line
<1>5. \A i \in 1..Len(Tail(rest)) : ~ Tail(rest)[i].guarded
  BY <1>4 DEF PastLastGuard
<1> HIDE DEF rest
<1>6. Len(rest) \in Nat /\ Len(rest) >= 1 /\ Len(Tail(rest)) = Len(rest) - 1
      /\ \A i \in 1..(Len(rest) - 1) : Tail(rest)[i] = rest[i + 1]
  BY <1>2
<1>7. ASSUME NEW i \in 1..Len(rest), rest[i].guarded
      PROVE  i = 1 /\ run[r].passed
  <2>1. CASE i = 1
    BY <1>1, <1>2, <1>7, <2>1 DEF Step, rest
  <2>2. CASE i # 1
    <3>1. i - 1 \in 1..(Len(rest) - 1) /\ (i - 1) + 1 = i
      BY <1>6, <2>2
    <3> QED BY <1>5, <1>6, <1>7, <3>1
  <2> QED BY <2>1, <2>2
<1> QED BY <1>1, <1>7 DEF PastLastGuard, rest

(* A graph that has just been started has a guard before it. *)
LEMMA StartedIsHeldUp ==
  ASSUME RunsOK, NEW r \in Runs, NEW graph \in Graphs, Start(r, graph)
  PROVE  ~ PastLastGuard(r)'
<1>1. WellFormed(graph)
  BY GraphsAreWellFormed
<1>2. run'[r].rest = graph /\ ~ run'[r].passed
  BY DEF Start, RunsOK, NotRun
<1> QED BY <1>1, <1>2 DEF WellFormed, PastLastGuard, Active

LEMMA NextStopInv == RunsOK /\ StopInv /\ [GraphsNext]_graphVars => StopInv'
<1> SUFFICES ASSUME RunsOK, StopInv, [GraphsNext]_graphVars PROVE StopInv'
  OBVIOUS
<1> USE DEF StopInv, LooseIsKnown, NobodyIsLate, StopSparesOnlyLoose, stopHistory
<1>1. ASSUME NEW r \in Runs, NEW h, run' = [run EXCEPT ![r] = h], UNCHANGED stopped,
             stopped => (PastLastGuard(r)' => r \in loose'), loose' = loose \/ loose' = loose \ {r}
      PROVE  LooseIsKnown'
  <2>1. ASSUME NEW q \in Runs, q # r, PastLastGuard(q)' PROVE PastLastGuard(q)
    <3>1. run'[q] = run[q]
      BY <1>1, <2>1 DEF RunsOK
    <3> QED BY <2>1, <3>1 DEF PastLastGuard, Active
  <2> QED BY <1>1, <2>1
<1>2. ASSUME NEW r \in Runs, NEW graph \in Graphs, Start(r, graph) PROVE StopInv'
  <2>1. LooseIsKnown'
    BY <1>1, <1>2, StartedIsHeldUp DEF Start
  <2> QED BY <1>2, <2>1 DEF Start
<1>3. ASSUME NEW r \in Runs, Guard(r) PROVE StopInv'
  <2>1. stopped => ~ PastLastGuard(r)'
    BY <1>3 DEF Guard, Ended, PastLastGuard, Active, RunsOK, Line
  <2>2. LooseIsKnown'
    BY <1>1, <1>3, <2>1 DEF Guard
  <2> QED BY <1>3, <2>2 DEF Guard
<1>4. ASSUME NEW r \in Runs, Raise(r) PROVE StopInv'
  <2>1. ~ PastLastGuard(r)'
    BY <1>4 DEF Raise, Ended, PastLastGuard, Active, RunsOK, Line
  <2>2. LooseIsKnown'
    BY <1>1, <1>4, <2>1 DEF Raise
  <2> QED BY <1>4, <2>2 DEF Raise
<1>5. ASSUME NEW r \in Runs, Reason(r) PROVE StopInv'
  <2>1. PastLastGuard(r)' => PastLastGuard(r)
    BY <1>5, GuardsAreAhead DEF Reason
  <2>2. LooseIsKnown'
    BY <1>1, <1>5, <2>1 DEF Reason
  <2> QED BY <1>5, <2>2 DEF Reason
<1>6. ASSUME NEW r \in Runs, Write(r) PROVE StopInv'
  <2>1. Ready(r) /\ Step(r).op \in Writes
    BY <1>6 DEF Write, Writes, Create, Submit, Confirm
  <2>2. PastLastGuard(r)
    BY <2>1, WritersArePastGuards
  <2>3. LooseIsKnown'
    BY <1>1, <1>6, <2>2 DEF Write
  <2> QED BY <1>6, <2>2, <2>3 DEF Write
<1>7. CASE TriggerStop
  <2>1. ~ stopped /\ late = {} /\ late' = late /\ UNCHANGED run /\ loose' = {r \in Runs : PastLastGuard(r)}
    BY <1>7 DEF TriggerStop
  <2> QED BY <2>1 DEF PastLastGuard, Active
<1>8. CASE ReleaseStop
  BY <1>8 DEF ReleaseStop
<1>9. CASE (\E t \in Targets : Approve(t) \/ Rewrite(t)) \/ UNCHANGED graphVars
  BY <1>9 DEF Approve, Rewrite, graphVars, PastLastGuard, Active
<1> QED
  BY <1>2, <1>3, <1>4, <1>5, <1>6, <1>7, <1>8, <1>9 DEF GraphsNext

(* For every set of runs, all targets and risks: while the stop is on, nothing goes out
   but from runs that had their last guard behind them when it was triggered
   (AC/graphs/, guards.py). *)
THEOREM StopsSpareOnlyLoose == GraphsSpec => []StopSparesOnlyLoose
<1>1. GraphsInit => StopInv
  BY DEF GraphsInit, StopInv, LooseIsKnown, NobodyIsLate, StopSparesOnlyLoose
<1>2. RunsOK /\ StopInv /\ [GraphsNext]_graphVars => StopInv'
  BY NextStopInv
<1>3. GraphsInv => RunsOK
  BY DEF GraphsInv
<1>4. StopInv => StopSparesOnlyLoose
  BY DEF StopInv
<1> QED
  BY <1>1, <1>2, <1>3, <1>4, GraphsInvHolds, PTL DEF GraphsSpec
=============================================================================
