---------------------------- MODULE MetricsProofs ----------------------------
(***************************************************************************)
(* What the Telegraf scripts print comes from the moments of the scrape,   *)
(* what they leave out has a reason, and they come to their end, for any   *)
(* number of nodes, replicas, items, repetitions and faults.               *)
(***************************************************************************)
EXTENDS Clients, FiniteSetTheorems, TLAPS

\* What the answers of a script's tasks can be.
Answers == seen \cup {Error}

\* What a task has made of them, if it has not lost them.
Result(t, b) ==
    /\ script.name = "prometheus" /\ t \in Joins =>
          \E v, w \in seen : ~KeyMissing(v, w) /\ b = SumPerNode(v, w)
    /\ script.name = "prometheus" /\ t = "nodes" =>
          \E v \in seen : b = [state |-> ClusterState(Cardinality(Up(v))), count |-> Cardinality(Up(v))]
    /\ script.name = "influx" /\ t = "nodes" => \E v \in seen : b = InfluxNodes(v)
    /\ script.name = "influx" /\ t = "replicas" => b = [all |-> Replicas]

Sound(t) ==
    /\ task[t] = [answers |-> task[t].answers, raised |-> task[t].raised, batch |-> task[t].batch]
    /\ task[t].answers \in Seq(Answers)
    /\ script.phase = "connect" => task[t].answers = <<>> /\ task[t].batch \in {None, Lost}
    /\ script.phase = "printed" => task[t].batch # None
    /\ task[t].batch \notin {None, Lost} => Result(t, task[t].batch)

ViewInv ==
    /\ View \in Views /\ seen \subseteq Views
    /\ script.phase = "gather" => View \in seen

ScriptInv ==
    /\ script = [name |-> script.name, place |-> script.place, phase |-> script.phase, out |-> script.out]
    /\ script.name \in Scripts /\ DOMAIN task = Tasks(script.name)
    /\ script.phase = "printed" /\ script.name = "influx" => script.out = InfluxStatus

TaskInv == task = [t \in DOMAIN task |-> task[t]] /\ \A t \in DOMAIN task : Sound(t)

MetricsInv == ViewInv /\ ScriptInv /\ TaskInv

LEMMA InitMetrics == Init => MetricsInv
<1> SUFFICES ASSUME Init PROVE MetricsInv OBVIOUS
<1> DEFINE name == IF program \in Scripts THEN program ELSE "version"
<1>1. MetricsInit(name) BY DEF Init
<1>2. name \in Scripts BY DEF Scripts
<1> HIDE DEF name
<1>3. /\ script = [name |-> name, place |-> script.place, phase |-> script.phase, out |-> script.out]
      /\ script.phase \in {"connect", "gather"}
  BY <1>1 DEF MetricsInit
<1>4. ScriptInv
  <2>1. DOMAIN task = Tasks(name) BY <1>1 DEF MetricsInit
  <2> QED BY <1>2, <1>3, <2>1 DEF ScriptInv
<1>5. ViewInv
  <2>1. member \in [Node -> Member] /\ item \in [Item -> Node \cup {None}] /\ scant \in SUBSET Statistics
    BY DEF Init, BrokerInit, Member
  <2>2. seen = {View} BY <1>1 DEF MetricsInit
  <2> QED BY <2>1, <2>2 DEF ViewInv, View, Views
<1>6. TaskInv
  <2>1. task = [t \in Tasks(name) |-> IF t = "replicas" /\ script.place = "outside"
                                      THEN [Fresh(t) EXCEPT !.batch = Lost] ELSE Fresh(t)]
    BY <1>1 DEF MetricsInit
  <2>2. ASSUME NEW t \in Tasks(name) PROVE Sound(t)
    <3>1. PICK b \in {None, Lost} : task[t] = [answers |-> <<>>, raised |-> 0, batch |-> b]
      BY <2>1 DEF Fresh
    <3> QED BY <1>3, <3>1 DEF Sound
  <2> QED BY <2>1, <2>2 DEF TaskInv
<1> QED BY <1>4, <1>5, <1>6 DEF MetricsInv

\* The script and its tasks stay as they are while the broker changes.
LEMMA ScriptsKeep ==
    ASSUME MetricsInv, UNCHANGED <<script, task>>, seen \subseteq seen', ViewInv'
    PROVE  MetricsInv'
<1>1. ScriptInv' BY DEF MetricsInv, ScriptInv, InfluxStatus
<1>2. ASSUME NEW t \in DOMAIN task PROVE Sound(t)'
  <2>1. Sound(t) BY DEF MetricsInv, TaskInv
  <2>2. task[t].answers \in Seq(Answers') BY <2>1 DEF Sound, Answers
  <2>3. task[t].batch \notin {None, Lost} => Result(t, task[t].batch)'
    <3>1. SUFFICES ASSUME NEW b, Result(t, b) PROVE Result(t, b)' BY <2>1 DEF Sound
    <3> QED BY <3>1 DEF Result
  <2> QED BY <2>1, <2>2, <2>3 DEF Sound
<1> QED BY <1>1, <1>2 DEF MetricsInv, TaskInv

LEMMA Parsed ==
    ASSUME MetricsInv, NEW t \in Tasks(script.name), NEW answers \in Seq(Answers), answers # <<>>,
           t \in Joins /\ script.name = "prometheus" => Len(answers) >= 2, Parse(t, answers) # Lost
    PROVE  Result(t, Parse(t, answers))
<1>1. t \in Joins => t \notin {"nodes", "replicas"} BY MetricsAssumption
<1>2. answers[1] \in Answers /\ answers[Len(answers)] \in Answers
  <2>1. Len(answers) \in Nat /\ Len(answers) # 0 OBVIOUS
  <2>2. 1 \in 1..Len(answers) /\ Len(answers) \in 1..Len(answers) BY <2>1
  <2> QED BY <2>2
<1>3. CASE script.name = "prometheus" /\ t \in Joins
  <2>1. answers[2] \in Answers BY <1>3
  <2>2. Parse(t, answers) = ParseItems(answers[1], answers[2]) BY <1>1, <1>3 DEF Parse
  <2> QED BY <1>1, <1>2, <1>3, <2>1, <2>2 DEF ParseItems, Result, Answers
<1>4. CASE script.name = "prometheus" /\ t = "nodes"
  <2>1. Parse(t, answers) = ParseNodes(answers[1]) BY <1>1, <1>4 DEF Parse
  <2> QED BY <1>1, <1>2, <1>4, <2>1 DEF ParseNodes, Result, Answers
<1>5. CASE script.name = "influx" /\ t = "nodes"
  <2>1. Parse(t, answers) = InfluxNodes(answers[1]) BY <1>1, <1>5 DEF Parse
  <2>2. answers[1] # Error BY <2>1 DEF InfluxNodes
  <2> QED BY <1>1, <1>2, <1>5, <2>1, <2>2 DEF Result, Answers
<1>6. CASE script.name = "influx" /\ t = "replicas"
  <2>1. Parse(t, answers) = ParseReplicas(answers[Len(answers)]) BY <1>1, <1>6 DEF Parse
  <2>2. Parse(t, answers) = [all |-> Replicas] BY <2>1 DEF ParseReplicas
  <2> QED BY <1>1, <1>6, <2>2 DEF Result
<1> QED BY <1>3, <1>4, <1>5, <1>6 DEF Result

LEMMA TakesKeeps ==
    ASSUME MetricsInv, NEW t \in DOMAIN task, Asks(t), NEW answer \in Answers, Takes(t, answer),
           UNCHANGED <<script, seen, View>>
    PROVE  MetricsInv'
<1> DEFINE answers == Append(task[t].answers, answer)
           batch   == IF Len(answers) < Requests(t) /\ ~(t = "replicas" /\ answer = Error)
                      THEN None ELSE Parse(t, answers)
<1>1. task' = [task EXCEPT ![t] = [answers |-> answers, raised |-> 0, batch |-> batch]] BY DEF Takes
<1>2. Sound(t) /\ script.phase = "gather" /\ t \in Tasks(script.name)
  BY DEF MetricsInv, TaskInv, ScriptInv, Asks
<1>3. answers \in Seq(Answers) /\ answers # <<>> /\ Len(answers) \in Nat BY <1>2 DEF Sound
<1>4. batch \notin {None, Lost} => Result(t, batch)
  <2> SUFFICES ASSUME batch \notin {None, Lost} PROVE Result(t, batch) OBVIOUS
  <2>1. batch = Parse(t, answers) OBVIOUS
  <2>2. t \in Joins => t # "replicas" BY MetricsAssumption
  <2>3. t \in Joins /\ script.name = "prometheus" => Len(answers) >= 2
    BY <1>3, <2>2 DEF Requests
  <2> HIDE DEF answers, batch
  <2> QED BY <1>2, <1>3, <2>1, <2>3, Parsed
<1> HIDE DEF answers, batch
<1>5. Answers' = Answers /\ DOMAIN task' = DOMAIN task BY <1>1 DEF Answers
<1>6. ASSUME NEW u, NEW b, Result(u, b) PROVE Result(u, b)' BY <1>6 DEF Result
<1>7. ASSUME NEW u \in DOMAIN task PROVE Sound(u)'
  <2>1. CASE u = t
    <3>1. task'[u] = [answers |-> answers, raised |-> 0, batch |-> batch]
      BY <1>1, <2>1 DEF MetricsInv, TaskInv
    <3> QED BY <1>2, <1>3, <1>4, <1>5, <1>6, <2>1, <3>1 DEF Sound
  <2>2. CASE u # t
    <3>1. task'[u] = task[u] /\ Sound(u) BY <1>1, <2>2 DEF MetricsInv, TaskInv
    <3> QED BY <1>5, <1>6, <3>1 DEF Sound
  <2> QED BY <2>1, <2>2
<1>8. TaskInv' BY <1>1, <1>5, <1>7 DEF TaskInv, MetricsInv
<1>9. ScriptInv' BY <1>2, <1>5 DEF ScriptInv, MetricsInv
<1>10. ViewInv' BY DEF ViewInv, MetricsInv
<1> QED BY <1>8, <1>9, <1>10 DEF MetricsInv

LEMMA RaisesKeeps ==
    ASSUME MetricsInv, NEW t \in DOMAIN task, Raises(t), UNCHANGED View
    PROVE  MetricsInv'
<1> DEFINE batch  == IF task[t].raised < MayRaise(t) THEN task[t].batch ELSE Lost
           raised == task[t].raised + 1
<1>1. Sound(t) /\ script.phase = "gather" /\ task[t].batch = None /\ UNCHANGED <<script, seen>>
  BY DEF MetricsInv, TaskInv, Raises, Asks
<1>2. task' = [task EXCEPT ![t].raised = raised, ![t].batch = batch] BY DEF Raises
<1>3. batch \in {None, Lost} BY <1>1
<1> HIDE DEF batch, raised
<1>5. Answers' = Answers /\ DOMAIN task' = DOMAIN task BY <1>1, <1>2 DEF Answers
<1>6. ASSUME NEW u, NEW b, Result(u, b) PROVE Result(u, b)' BY <1>1, <1>6 DEF Result
<1>7. ASSUME NEW u \in DOMAIN task PROVE Sound(u)'
  <2>1. CASE u = t
    <3>1. task'[u] = [answers |-> task[u].answers, raised |-> raised, batch |-> batch]
      BY <1>1, <1>2, <2>1 DEF MetricsInv, TaskInv, Sound
    <3> QED BY <1>1, <1>3, <1>5, <2>1, <3>1 DEF Sound
  <2>2. CASE u # t
    <3>1. task'[u] = task[u] /\ Sound(u) BY <1>2, <2>2 DEF MetricsInv, TaskInv
    <3> QED BY <1>1, <1>5, <1>6, <3>1 DEF Sound
  <2> QED BY <2>1, <2>2
<1>8. TaskInv' BY <1>2, <1>5, <1>7 DEF TaskInv, MetricsInv
<1>9. ScriptInv' BY <1>1, <1>5 DEF ScriptInv, MetricsInv
<1>10. ViewInv' BY <1>1 DEF ViewInv, MetricsInv
<1> QED BY <1>8, <1>9, <1>10 DEF MetricsInv
LEMMA ConnectsKeeps == ASSUME MetricsInv, Connects, UNCHANGED View PROVE MetricsInv'
<1>1. script.phase = "connect" /\ task' = task BY DEF Connects
<1>2. PICK phase \in {"gather", "failed"} :
         /\ script' = [script EXCEPT !.phase = phase]
         /\ seen' = IF phase = "gather" THEN {View} ELSE seen
  BY DEF Connects
<1>3. script'.name = script.name /\ script'.phase = phase BY <1>2 DEF MetricsInv, ScriptInv
<1>4. ASSUME NEW t \in DOMAIN task PROVE Sound(t)'
  <2>1. Sound(t) BY DEF MetricsInv, TaskInv
  <2>2. task[t].answers \in Seq(Answers') BY <1>1, <2>1 DEF Sound
  <2> QED BY <1>1, <1>3, <2>1, <2>2 DEF Sound
<1>5. ScriptInv' BY <1>1, <1>2, <1>3 DEF MetricsInv, ScriptInv
<1>6. ViewInv' BY <1>2, <1>3 DEF MetricsInv, ViewInv
<1> QED BY <1>1, <1>4, <1>5, <1>6 DEF MetricsInv, TaskInv

LEMMA PrintsKeeps == ASSUME MetricsInv, Prints, UNCHANGED View PROVE MetricsInv'
<1> DEFINE out == IF script.name = "influx" THEN InfluxStatus ELSE "batches"
<1>1. UNCHANGED <<task, seen>> /\ script' = [script EXCEPT !.phase = "printed", !.out = out]
  BY DEF Prints
<1>2. \A t \in DOMAIN task : task[t].batch # None BY DEF Prints
<1>3. script.name = "influx" => out = InfluxStatus OBVIOUS
<1> HIDE DEF out
<1>4. script'.name = script.name /\ script'.phase = "printed" /\ script'.out = out
  BY <1>1 DEF MetricsInv, ScriptInv
<1>5. ASSUME NEW t \in DOMAIN task PROVE Sound(t)'
  <2>1. Sound(t) BY DEF MetricsInv, TaskInv
  <2>2. Result(t, task[t].batch) => Result(t, task[t].batch)' BY <1>1, <1>4 DEF Result
  <2> QED BY <1>1, <1>2, <1>4, <2>1, <2>2 DEF Sound, Answers
<1>6. InfluxStatus' = InfluxStatus BY <1>1 DEF InfluxStatus
<1>7. ScriptInv' BY <1>1, <1>3, <1>4, <1>6 DEF MetricsInv, ScriptInv
<1>8. ViewInv' BY <1>1, <1>4 DEF MetricsInv, ViewInv
<1> QED BY <1>1, <1>5, <1>7, <1>8 DEF MetricsInv, TaskInv

\* Whatever changes in the broker is seen by a script that gathers.
LEMMA RecordedKeeps ==
    ASSUME MetricsInv, Recorded, member' \in [Node -> Member], item' \in [Item -> Node \cup {None}],
           scant' \in SUBSET Statistics
    PROVE  MetricsInv'
<1>1. View' \in Views BY DEF View, Views
<1>2. UNCHANGED <<script, task>> /\ seen' = IF script.phase = "gather" THEN seen \cup {View'} ELSE seen
  BY DEF Recorded
<1>3. ViewInv' BY <1>1, <1>2 DEF MetricsInv, ViewInv
<1> QED BY <1>2, <1>3, ScriptsKeep

LEMMA MetricsStepKeeps == MetricsInv /\ [Next]_vars => MetricsInv'
<1> SUFFICES ASSUME MetricsInv, [Next]_vars PROVE MetricsInv' OBVIOUS
<1>0. member \in [Node -> Member] /\ item \in [Item -> Node \cup {None}] /\ scant \in SUBSET Statistics
  BY DEF MetricsInv, ViewInv, View, Views
<1>1. ASSUME UNCHANGED <<metrics, member, item, scant>> PROVE MetricsInv'
  <2>1. ViewInv' BY <1>1 DEF MetricsInv, ViewInv, metrics, View
  <2> QED BY <1>1, <2>1, ScriptsKeep DEF metrics
<1>2. CASE UNCHANGED vars BY <1>1, <1>2 DEF vars, others, broker
<1>3. CASE NodesChange
  <2>1. PICK n \in Node : NodeStops(n) \/ NodeStarts(n) \/ NodeLeaves(n) BY <1>3 DEF NodesChange
  <2>2. PICK m \in Member : member' = [member EXCEPT ![n] = m]
    BY <2>1 DEF NodeStops, NodeStarts, NodeLeaves, Member
  <2>3. item' \in [Item -> Node \cup {None}] /\ scant' = scant
    BY <1>0, <2>1 DEF NodeStops, NodeStarts, NodeLeaves
  <2> QED BY <1>0, <1>3, <2>2, <2>3, RecordedKeeps DEF NodesChange
<1>4. CASE ItemsMove
  <2>1. PICK i \in Item : ItemMoves(i) BY <1>4 DEF ItemsMove
  <2>2. PICK n \in Node \cup {None} : item' = [item EXCEPT ![i] = n] BY <2>1 DEF ItemMoves, Running
  <2>3. member' = member /\ scant' = scant BY <2>1 DEF ItemMoves
  <2> QED BY <1>0, <1>4, <2>2, <2>3, RecordedKeeps DEF ItemsMove
<1>5. CASE ShovelsChange \/ UsersChange
  <2>1. Recorded /\ UNCHANGED <<member, item, scant>>
    BY <1>5 DEF ShovelsChange, UsersChange, ShovelChanges, UserChanges
  <2> QED BY <1>0, <2>1, RecordedKeeps
<1>10. CASE StatsChange
  <2>1. PICK l \in Statistics : StatisticsChange(l) BY <1>10 DEF StatsChange
  <2>2. scant' \in SUBSET Statistics /\ UNCHANGED <<member, item>> BY <1>0, <2>1 DEF StatisticsChange
  <2> QED BY <1>0, <1>10, <2>2, RecordedKeeps DEF StatsChange
<1>6. CASE Scrape
  <2>1. UNCHANGED View BY <1>6 DEF Scrape, broker, View
  <2>2. CASE Connects BY <2>1, <2>2, ConnectsKeeps
  <2>3. CASE Prints BY <2>1, <2>3, PrintsKeeps
  <2>4. ASSUME NEW t \in DOMAIN task, Answered(t) \/ Refused(t) PROVE MetricsInv'
    <3>1. PICK answer \in {View, Error} : Asks(t) /\ Takes(t, answer) /\ UNCHANGED <<script, seen>>
      BY <2>4 DEF Answered, Refused
    <3>2. answer \in Answers BY <3>1 DEF Asks, MetricsInv, ViewInv, Answers
    <3> QED BY <2>1, <3>1, <3>2, TakesKeeps
  <2>5. ASSUME NEW t \in DOMAIN task, Raises(t) PROVE MetricsInv' BY <2>1, <2>5, RaisesKeeps
  <2> QED BY <1>6, <2>2, <2>3, <2>4, <2>5 DEF Scrape, MetricsStep
<1>7. CASE Backup BY <1>1, <1>7 DEF Backup, BackupStep
<1>8. CASE Shovels
  <2>1. UNCHANGED <<member, item, scant>>
    BY <1>8 DEF Shovels, ShovelRun, ListsNoShovel, ListsShovels, AllValid, PodsReady, PodsNotReady,
                ListsPods, AllRestarted, Validates, Invalid, Disables, Misses, Enables, ExecFails, Still
  <2> QED BY <1>1, <1>8, <2>1 DEF Shovels
<1>9. CASE Ticks BY <1>1, <1>9 DEF Ticks, ShovelTick, ClusterTick, Still, broker
<1> QED BY <1>2, <1>3, <1>4, <1>5, <1>6, <1>7, <1>8, <1>9, <1>10 DEF Next

\* What prometheus.py prints for queues, channels or connections is their
\* distribution over the nodes at one moment of the scrape, though it joins
\* two answers of different moments.
THEOREM BatchIsOfOneMoment == Spec => []BatchIsOneMoment
<1>1. MetricsInv => BatchIsOneMoment
  <2> SUFFICES ASSUME MetricsInv, NEW t \in Joins, Prometheus, Printed(t)
               PROVE  \E v \in seen : \A i \in Item :
                         {n \in DOMAIN task[t].batch : i \in task[t].batch[n]} = {v.item[i]} \ {None}
    BY DEF BatchIsOneMoment
  <2>1. Sound(t) /\ task[t].batch \notin {None, Lost} BY DEF MetricsInv, TaskInv, Printed, Sound
  <2>2. PICK v \in seen, w \in seen : ~KeyMissing(v, w) /\ task[t].batch = SumPerNode(v, w)
    BY <2>1 DEF Sound, Result, Prometheus
  <2>3. ASSUME NEW i \in Item
        PROVE  {n \in DOMAIN task[t].batch : i \in task[t].batch[n]} = {v.item[i]} \ {None}
    <3>1. None \notin Listed(w) BY BrokerAssumption DEF Listed
    <3>2. v.item[i] \in Listed(w) \cup {None} BY <2>2 DEF KeyMissing
    <3>3. DOMAIN task[t].batch = Listed(w) BY <2>2 DEF SumPerNode
    <3>4. \A n \in Listed(w) : i \in task[t].batch[n] <=> v.item[i] = n BY <2>2 DEF SumPerNode
    <3> QED BY <3>1, <3>2, <3>3, <3>4
  <2> QED BY <2>3
<1> QED BY <1>1, InitMetrics, MetricsStepKeeps, PTL DEF Spec

\* The state of the cluster that is printed was true at some moment of the
\* scrape, or one of its sources was lost.
THEOREM PrintedStateIsHonest == Spec => []StateIsHonest
<1>1. MetricsInv => StateIsHonest
  <2> SUFFICES ASSUME MetricsInv, script.phase = "printed" PROVE StateIsHonest
    BY DEF StateIsHonest, Printed
  <2>1. ASSUME NEW v \in seen PROVE Complete(v) <=> Cardinality(Up(v)) = Replicas BY DEF Complete
  <2>2. \A t \in DOMAIN task : Sound(t) BY DEF MetricsInv, TaskInv
  <2>3. ASSUME Prometheus, Printed("nodes")
        PROVE  \E v \in seen : Complete(v) <=> task["nodes"].batch.state = 0
    <3>1. PICK v \in seen : task["nodes"].batch = [state |-> ClusterState(Cardinality(Up(v))),
                                                  count |-> Cardinality(Up(v))]
      BY <2>2, <2>3 DEF Sound, Result, Prometheus, Printed
    <3>2. task["nodes"].batch.state = 0 <=> Cardinality(Up(v)) = Replicas BY <3>1 DEF ClusterState
    <3> QED BY <3>2 DEF Complete
  <2>4. ASSUME script.name = "influx", Printed("nodes"), Printed("replicas")
        PROVE  \E v \in seen : Complete(v) <=> script.out = <<Replicas, Replicas>>
    <3>1. PICK v \in seen : task["nodes"].batch = InfluxNodes(v)
      BY <2>2, <2>4 DEF Sound, Result, Printed
    <3>2. task["replicas"].batch = [all |-> Replicas] BY <2>2, <2>4 DEF Sound, Result, Printed
    <3>3. task["nodes"].batch.current = Cardinality(Up(v)) BY <2>4, <3>1 DEF InfluxNodes, Printed
    <3>4. Replicas \notin {None, 0} BY BrokerAssumption
    <3>5. script.out = <<Cardinality(Up(v)), Replicas>>
      BY <2>4, <3>2, <3>3, <3>4 DEF MetricsInv, ScriptInv, InfluxStatus, Printed
    <3> QED BY <3>5 DEF Complete
  <2> QED BY <2>3, <2>4 DEF StateIsHonest
<1> QED BY <1>1, InitMetrics, MetricsStepKeeps, PTL DEF Spec
----------------------------------------------------------------------------
\* An item is on a node of the cluster, in every view; and a task has raised no
\* more than it may without having lost its result.
OnMembers(v) == \A i \in Item : v.item[i] \in Listed(v) \cup {None}

Counts(t) == /\ task[t].raised \in 0..(MayRaise(t) + 1)
             /\ task[t].batch = None => task[t].raised <= MayRaise(t)

LossInv ==
    /\ OnMembers(View) /\ \A v \in seen : OnMembers(v)
    /\ \A t \in DOMAIN task : Counts(t)
    /\ \A t \in DOMAIN task : task[t].batch = Lost =>
          Explained(t) /\ (script.phase = "connect" => t = "replicas" /\ script.place = "outside")

LEMMA UpCount == \A v : Cardinality(Up(v)) \in Nat
BY BrokerAssumption, FS_Subset, FS_CardinalityType DEF Up

\* What a parser returns if nothing is missing is a result, and no lost one.
LEMMA NotLost ==
    ASSUME NEW v \in Views, NEW w \in Views
    PROVE  /\ SumPerNode(v, w) \notin {None, Lost}
           /\ [state |-> ClusterState(Cardinality(Up(v))), count |-> Cardinality(Up(v))] \notin {None, Lost}
           /\ v # Error => InfluxNodes(v) \notin {None, Lost}
           /\ [all |-> Replicas] \notin {None, Lost} /\ "parsed" \notin {None, Lost}
<1> DEFINE Nodes == [state : 0..2, count : Nat]
           Health == [health : UNION {[V -> {0, 1}] : V \in SUBSET Node}, current : Nat]
           OfAll == [all : Nat]
           Sums == UNION {[V -> SUBSET Item] : V \in SUBSET Node}
<1>1. ASSUME NEW x \in {None, Lost}
      PROVE  x \notin Sums /\ x \notin Nodes /\ x \notin Health /\ x \notin OfAll /\ x \notin {"parsed"}
  <2>1. Batch = Sums \cup Nodes \cup Health \cup OfAll \cup {"parsed"} BY DEF Batch
  <2>2. x \notin Batch BY MetricsAssumption
  <2> HIDE DEF Sums, Nodes, Health, OfAll
  <2> QED BY <2>1, <2>2, Zenon
<1>2. SumPerNode(v, w) \in Sums
  <2>1. SumPerNode(v, w) \in [Listed(w) -> SUBSET Item] /\ Listed(w) \in SUBSET Node
    BY DEF SumPerNode, Listed
  <2> QED BY <2>1
<1>3. [state |-> ClusterState(Cardinality(Up(v))), count |-> Cardinality(Up(v))] \in Nodes
  BY UpCount DEF ClusterState
<1>4. ASSUME v # Error PROVE InfluxNodes(v) \in Health
  <2> DEFINE health == [n \in Listed(v) |-> IF n \in Up(v) THEN 1 ELSE 0]
             H == UNION {[V -> {0, 1}] : V \in SUBSET Node}
  <2>1. health \in [Listed(v) -> {0, 1}] /\ Listed(v) \in SUBSET Node BY DEF Listed
  <2>2. InfluxNodes(v) = [health |-> health, current |-> Cardinality(Up(v))] BY <1>4 DEF InfluxNodes
  <2>3. Health = [health : H, current : Nat] OBVIOUS
  <2> HIDE DEF health
  <2>4. health \in H BY <2>1
  <2> HIDE DEF H, Health
  <2>5. Cardinality(Up(v)) \in Nat BY UpCount
  <2> QED BY <2>2, <2>3, <2>4, <2>5
<1>5. [all |-> Replicas] \in OfAll /\ "parsed" \in {"parsed"} BY BrokerAssumption
<1> HIDE DEF Sums, Nodes, Health, OfAll
<1> QED BY <1>1, <1>2, <1>3, <1>4, <1>5, Zenon

\* What a parser that loses its answers was given.
LEMMA LostParsed ==
    ASSUME MetricsInv, LossInv, NEW t \in Tasks(script.name), NEW answers \in Seq(Answers), answers # <<>>,
           t \in Joins /\ script.name = "prometheus" => Len(answers) >= 2, Parse(t, answers) = Lost
    PROVE  \/ \E k \in DOMAIN answers : answers[k] = Error
           \/ Prometheus /\ t = "nodes" /\ \E v \in seen, n \in Node : v.member[n] = "bare"
           \/ ~Prometheus /\ \E v \in seen : t \in v.scant
           \/ Prometheus /\ t \in Joins /\ \E v, w \in seen : \E i \in Item :
                 v.item[i] \in Listed(v) \ Listed(w)
<1> SUFFICES ASSUME \A k \in DOMAIN answers : answers[k] # Error
             PROVE  \/ Prometheus /\ t = "nodes" /\ \E v \in seen, n \in Node : v.member[n] = "bare"
                    \/ ~Prometheus /\ \E v \in seen : t \in v.scant
                    \/ Prometheus /\ t \in Joins /\ \E v, w \in seen : \E i \in Item :
                          v.item[i] \in Listed(v) \ Listed(w)
  OBVIOUS
<1>1. t \in Joins => t \notin {"nodes", "replicas"} BY MetricsAssumption
<1>2. /\ answers[1] \in seen /\ answers[1] # Error
      /\ answers[Len(answers)] \in seen /\ answers[Len(answers)] # Error
      /\ Len(answers) >= 2 => answers[2] \in seen /\ answers[2] # Error
  <2>1. Len(answers) \in Nat /\ Len(answers) # 0 OBVIOUS
  <2>2. DOMAIN answers = 1..Len(answers) OBVIOUS
  <2>3. 1 \in 1..Len(answers) /\ Len(answers) \in 1..Len(answers) /\ (Len(answers) >= 2 => 2 \in 1..Len(answers))
    BY <2>1
  <2>4. \A k \in 1..Len(answers) : answers[k] \in seen /\ answers[k] # Error BY <2>2 DEF Answers
  <2> QED BY <2>3, <2>4
<1>3. seen \subseteq Views /\ \A v \in seen : OnMembers(v) BY DEF MetricsInv, ViewInv, LossInv
<1>4. CASE script.name = "prometheus" /\ t \in Joins
  <2>1. Parse(t, answers) = ParseItems(answers[1], answers[2]) BY <1>1, <1>4 DEF Parse
  <2>2. KeyMissing(answers[1], answers[2]) BY <1>2, <1>3, <1>4, <2>1, NotLost DEF ParseItems
  <2>3. PICK i \in Item : answers[1].item[i] \notin Listed(answers[2]) \cup {None} BY <2>2 DEF KeyMissing
  <2>4. answers[1].item[i] \in Listed(answers[1]) \cup {None} BY <1>2, <1>3 DEF OnMembers
  <2> QED BY <1>2, <1>4, <2>3, <2>4 DEF Prometheus
<1>5. CASE script.name = "prometheus" /\ t = "nodes"
  <2>1. Parse(t, answers) = ParseNodes(answers[1]) BY <1>1, <1>5 DEF Parse
  <2>2. \E n \in Node : answers[1].member[n] = "bare" BY <1>2, <1>3, <2>1, NotLost DEF ParseNodes, Listed
  <2> QED BY <1>2, <1>5, <2>2 DEF Prometheus
<1>6. CASE script.name # "prometheus" /\ t = "nodes"
  <2>1. Parse(t, answers) = InfluxNodes(answers[1]) BY <1>1, <1>6 DEF Parse
  <2> QED BY <1>2, <1>3, <2>1, NotLost
<1>7. CASE t = "replicas"
  <2>1. Parse(t, answers) = ParseReplicas(answers[Len(answers)]) BY <1>1, <1>7 DEF Parse
  <2> QED BY <1>2, <1>3, <2>1, NotLost DEF ParseReplicas
<1>8. CASE ~(script.name = "prometheus" /\ t \in Joins) /\ t \notin {"nodes", "replicas"}
  <2>1. Parse(t, answers) = ParseSingle(t, answers[1]) BY <1>8 DEF Parse
  <2>2. t \in answers[1].scant BY <1>2, <1>3, <2>1, NotLost DEF ParseSingle
  <2>3. ~Prometheus
    <3>1. Prometheus => t \in {"nodes"} \cup Joins BY DEF Tasks, Prometheus
    <3> QED BY <1>8, <3>1 DEF Prometheus
  <2> QED BY <1>2, <2>2, <2>3
<1> QED BY <1>4, <1>5, <1>6, <1>7, <1>8

\* A task that stays as it is, while more is seen.
LEMMA StaysExplained ==
    ASSUME NEW t, task'[t] = task[t], script'.name = script.name, script'.place = script.place,
           seen \subseteq seen', Explained(t)
    PROVE  Explained(t)'
BY DEF Explained, Prometheus, MayRaise

LEMMA LossStays ==
    ASSUME MetricsInv, LossInv, UNCHANGED <<script, task>>, seen \subseteq seen',
           OnMembers(View)', \A v \in seen' : OnMembers(v)
    PROVE  LossInv'
<1>1. \A t \in DOMAIN task : task[t].batch = Lost => Explained(t)' BY StaysExplained DEF LossInv
<1>2. \A t \in DOMAIN task : Counts(t)' BY DEF LossInv, Counts, MayRaise
<1> QED BY <1>1, <1>2 DEF LossInv

LEMMA TakesExplains ==
    ASSUME MetricsInv, LossInv, NEW t \in DOMAIN task, Asks(t), NEW answer \in Answers, Takes(t, answer),
           UNCHANGED <<script, seen, View>>
    PROVE  LossInv'
<1> DEFINE answers == Append(task[t].answers, answer)
           more    == Len(answers) < Requests(t) /\ ~(t = "replicas" /\ answer = Error)
           batch   == IF more THEN None ELSE Parse(t, answers)
<1>1. task' = [task EXCEPT ![t] = [answers |-> answers, raised |-> 0, batch |-> batch]] BY DEF Takes
<1>2. Sound(t) /\ script.phase = "gather" /\ t \in Tasks(script.name) /\ task = [u \in DOMAIN task |-> task[u]]
  BY DEF MetricsInv, TaskInv, ScriptInv, Asks
<1>3. answers \in Seq(Answers) /\ answers # <<>> /\ Len(answers) \in Nat BY <1>2 DEF Sound
<1>4. t \in Joins /\ script.name = "prometheus" /\ ~more => Len(answers) >= 2
  <2>1. t \in Joins => t # "replicas" BY MetricsAssumption
  <2> QED BY <1>3, <2>1 DEF Requests
<1>5. batch = Lost => ~more /\ Parse(t, answers) = Lost BY MetricsAssumption
<1> HIDE DEF answers, batch, more
<1>6. /\ DOMAIN task' = DOMAIN task
      /\ task'[t] = [answers |-> answers, raised |-> 0, batch |-> batch]
      /\ \A u \in DOMAIN task \ {t} : task'[u] = task[u]
  BY <1>1, <1>2
<1>7. batch = Lost => Explained(t)'
  <2> SUFFICES ASSUME batch = Lost PROVE Explained(t)' OBVIOUS
  <2>1. \/ \E k \in DOMAIN answers : answers[k] = Error
        \/ Prometheus /\ t = "nodes" /\ \E v \in seen, n \in Node : v.member[n] = "bare"
        \/ ~Prometheus /\ \E v \in seen : t \in v.scant
        \/ Prometheus /\ t \in Joins /\ \E v, w \in seen : \E i \in Item :
              v.item[i] \in Listed(v) \ Listed(w)
    BY <1>2, <1>3, <1>4, <1>5, LostParsed
  <2>2. task'[t].answers = answers BY <1>6
  <2> QED BY <2>1, <2>2 DEF Explained, Prometheus
<1>8. MayRaise(t) \in Nat BY MetricsAssumption DEF MayRaise
<1>9. \A u \in DOMAIN task : Counts(u)' BY <1>6, <1>8 DEF LossInv, Counts, MayRaise
<1>10. \A u \in DOMAIN task : task'[u].batch = Lost => Explained(u)'
  BY <1>6, <1>7, StaysExplained DEF LossInv
<1> QED BY <1>2, <1>6, <1>9, <1>10 DEF LossInv

LEMMA RaisesExplains ==
    ASSUME MetricsInv, LossInv, NEW t \in DOMAIN task, Raises(t), UNCHANGED View
    PROVE  LossInv'
<1> DEFINE batch  == IF task[t].raised < MayRaise(t) THEN task[t].batch ELSE Lost
           raised == task[t].raised + 1
<1>1. /\ Sound(t) /\ script.phase = "gather" /\ task[t].batch = None /\ UNCHANGED <<script, seen>>
      /\ Counts(t) /\ task = [u \in DOMAIN task |-> task[u]]
  BY DEF MetricsInv, TaskInv, Raises, Asks, LossInv
<1>2. task' = [task EXCEPT ![t].raised = raised, ![t].batch = batch] BY DEF Raises
<1>3. MayRaise(t) \in Nat BY MetricsAssumption DEF MayRaise
<1>4. /\ raised \in 0..(MayRaise(t) + 1) /\ (batch = None => raised <= MayRaise(t))
      /\ batch = Lost => raised > MayRaise(t)
  BY <1>1, <1>3, MetricsAssumption DEF Counts
<1> HIDE DEF batch, raised
<1>5. /\ DOMAIN task' = DOMAIN task
      /\ task'[t] = [answers |-> task[t].answers, raised |-> raised, batch |-> batch]
      /\ \A u \in DOMAIN task \ {t} : task'[u] = task[u]
  BY <1>1, <1>2 DEF Sound
<1>6. batch = Lost => Explained(t)' BY <1>4, <1>5 DEF Explained, MayRaise
<1>7. \A u \in DOMAIN task : Counts(u)' BY <1>4, <1>5 DEF LossInv, Counts, MayRaise
<1>8. \A u \in DOMAIN task : task'[u].batch = Lost => Explained(u)'
  BY <1>1, <1>5, <1>6, StaysExplained DEF LossInv
<1> QED BY <1>1, <1>5, <1>7, <1>8 DEF LossInv

LEMMA ConnectsExplains == ASSUME MetricsInv, LossInv, Connects, UNCHANGED View PROVE LossInv'
<1>1. script.phase = "connect" /\ task' = task BY DEF Connects
<1>2. PICK phase \in {"gather", "failed"} :
         /\ script' = [script EXCEPT !.phase = phase]
         /\ seen' = IF phase = "gather" THEN {View} ELSE seen
  BY DEF Connects
<1>3. script'.name = script.name /\ script'.place = script.place /\ script'.phase = phase
  BY <1>2 DEF MetricsInv, ScriptInv
<1>4. \A t \in DOMAIN task : task[t].batch = Lost => t = "replicas" /\ script.place = "outside"
  BY <1>1 DEF LossInv
<1>5. \A t \in DOMAIN task : Counts(t)' BY <1>1 DEF LossInv, Counts, MayRaise
<1>6. \A v \in seen' : OnMembers(v) BY <1>2 DEF LossInv
<1> QED BY <1>1, <1>3, <1>4, <1>5, <1>6 DEF LossInv, Explained, OnMembers, View

LEMMA PrintsExplains == ASSUME MetricsInv, LossInv, Prints, UNCHANGED View PROVE LossInv'
<1> DEFINE out == IF script.name = "influx" THEN InfluxStatus ELSE "batches"
<1>1. UNCHANGED <<task, seen>> /\ script' = [script EXCEPT !.phase = "printed", !.out = out]
  BY DEF Prints
<1> HIDE DEF out
<1>2. script'.name = script.name /\ script'.place = script.place /\ script'.phase = "printed"
  BY <1>1 DEF MetricsInv, ScriptInv
<1>3. \A t \in DOMAIN task : Counts(t)' BY <1>1 DEF LossInv, Counts, MayRaise
<1>4. \A t \in DOMAIN task : task[t].batch = Lost => Explained(t)'
  BY <1>1, <1>2, StaysExplained DEF LossInv
<1> QED BY <1>1, <1>2, <1>3, <1>4 DEF LossInv, OnMembers, View

\* A node that leaves takes its items with it, and items only go to nodes that
\* run.
LEMMA BrokerOnMembers ==
    ASSUME MetricsInv, OnMembers(View),
           NodesChange \/ ItemsMove \/ ShovelsChange \/ StatsChange \/ UsersChange
    PROVE  OnMembers(View)'
<1>0. member \in [Node -> Member] /\ item \in [Item -> Node \cup {None}]
  BY DEF MetricsInv, ViewInv, View, Views
<1>1. Listed(View) = {n \in Node : member[n] # "left"} /\ Listed(View)' = {n \in Node : member'[n] # "left"}
  BY DEF Listed, View
<1>2. \A i \in Item : item[i] = None \/ (item[i] \in Node /\ member[item[i]] # "left")
  BY <1>1 DEF OnMembers, View
<1>3. \A i \in Item : item'[i] = None \/ (item'[i] \in Node /\ member'[item'[i]] # "left")
  <2>1. ASSUME NEW n \in Node, NodeStops(n) \/ NodeStarts(n)
        PROVE  item' = item /\ \A m \in Node : member[m] # "left" => member'[m] # "left"
    BY <1>0, <2>1 DEF NodeStops, NodeStarts
  <2>2. ASSUME NEW n \in Node, NodeLeaves(n)
        PROVE  /\ \A i \in Item : item'[i] = IF item[i] = n THEN None ELSE item[i]
               /\ \A m \in Node \ {n} : member'[m] = member[m]
    BY <1>0, <2>2 DEF NodeLeaves
  <2>3. ASSUME NEW j \in Item, ItemMoves(j)
        PROVE  /\ member' = member
               /\ \A i \in Item : item'[i] = item[i] \/ item'[i] \in Running \cup {None}
    BY <1>0, <2>3 DEF ItemMoves
  <2>4. Running \subseteq {m \in Node : member[m] # "left"} BY DEF Running
  <2>5. CASE ShovelsChange \/ StatsChange \/ UsersChange
    BY <1>2, <2>5 DEF ShovelsChange, StatsChange, UsersChange, ShovelChanges, StatisticsChange, UserChanges
  <2> QED BY <1>2, <2>1, <2>2, <2>3, <2>4, <2>5 DEF NodesChange, ItemsMove
<1> QED BY <1>1, <1>3 DEF OnMembers, View

LEMMA LossSteps ==
    ASSUME MetricsInv, LossInv, [Next]_vars
    PROVE  LossInv'
<1>1. ASSUME UNCHANGED <<metrics, member, item>> PROVE LossInv'
  <2>1. OnMembers(View)' = OnMembers(View) BY <1>1 DEF OnMembers, View, Listed
  <2> QED BY <1>1, <2>1, LossStays DEF LossInv, metrics
<1>2. CASE UNCHANGED vars BY <1>1, <1>2 DEF vars, others, broker
<1>3. CASE NodesChange \/ ItemsMove \/ ShovelsChange \/ StatsChange \/ UsersChange
  <2>1. Recorded BY <1>3 DEF NodesChange, ItemsMove, ShovelsChange, StatsChange, UsersChange
  <2>2. OnMembers(View)' BY <1>3, BrokerOnMembers DEF LossInv
  <2>3. UNCHANGED <<script, task>> /\ seen \subseteq seen' /\ seen' \subseteq seen \cup {View'}
    BY <2>1 DEF Recorded
  <2>4. \A v \in seen' : OnMembers(v)
    <3>1. OnMembers(View') BY <2>2 DEF OnMembers, Listed
    <3> QED BY <2>3, <3>1 DEF LossInv
  <2> QED BY <2>2, <2>3, <2>4, LossStays
<1>4. CASE Scrape
  <2>1. UNCHANGED View BY <1>4 DEF Scrape, broker, View
  <2>2. CASE Connects BY <2>1, <2>2, ConnectsExplains
  <2>3. CASE Prints BY <2>1, <2>3, PrintsExplains
  <2>4. ASSUME NEW t \in DOMAIN task, Answered(t) \/ Refused(t) PROVE LossInv'
    <3>1. PICK answer \in {View, Error} : Asks(t) /\ Takes(t, answer) /\ UNCHANGED <<script, seen>>
      BY <2>4 DEF Answered, Refused
    <3>2. answer \in Answers BY <3>1 DEF Asks, MetricsInv, ViewInv, Answers
    <3> QED BY <2>1, <3>1, <3>2, TakesExplains
  <2>5. ASSUME NEW t \in DOMAIN task, Raises(t) PROVE LossInv' BY <2>1, <2>5, RaisesExplains
  <2> QED BY <1>4, <2>2, <2>3, <2>4, <2>5 DEF Scrape, MetricsStep
<1>5. CASE Backup BY <1>1, <1>5 DEF Backup, BackupStep
<1>6. CASE Shovels
  <2>1. UNCHANGED <<member, item, scant>>
    BY <1>6 DEF Shovels, ShovelRun, ListsNoShovel, ListsShovels, AllValid, PodsReady, PodsNotReady,
                ListsPods, AllRestarted, Validates, Invalid, Disables, Misses, Enables, ExecFails, Still
  <2> QED BY <1>1, <1>6, <2>1 DEF Shovels
<1>7. CASE Ticks BY <1>1, <1>7 DEF Ticks, ShovelTick, ClusterTick, Still, broker
<1> QED BY <1>2, <1>3, <1>4, <1>5, <1>6, <1>7 DEF Next

LEMMA InitLoss == Init => LossInv
<1> SUFFICES ASSUME Init PROVE LossInv OBVIOUS
<1> DEFINE name == IF program \in Scripts THEN program ELSE "version"
<1>1. MetricsInit(name) BY DEF Init
<1> HIDE DEF name
<1>2. seen = {View} BY <1>1 DEF MetricsInit
<1>3. OnMembers(View)
  <2>1. item \in [Item -> Node] /\ member = [n \in Node |-> "running"] BY DEF Init, BrokerInit
  <2> QED BY <2>1 DEF OnMembers, View, Listed
<1>4. /\ script.place = "outside" => script.phase = "gather"
      /\ task = [t \in Tasks(name) |-> IF t = "replicas" /\ script.place = "outside"
                                        THEN [Fresh(t) EXCEPT !.batch = Lost] ELSE Fresh(t)]
  BY <1>1 DEF MetricsInit
<1>5. ASSUME NEW t \in DOMAIN task
      PROVE  /\ task[t].raised = 0
             /\ task[t].batch = Lost => t = "replicas" /\ script.place = "outside"
  <2>1. Fresh(t) = [answers |-> <<>>, raised |-> 0, batch |-> None] BY DEF Fresh
  <2>2. task[t] = IF t = "replicas" /\ script.place = "outside"
                  THEN [answers |-> <<>>, raised |-> 0, batch |-> Lost]
                  ELSE [answers |-> <<>>, raised |-> 0, batch |-> None]
    BY <1>4, <2>1
  <2> QED BY <2>2, MetricsAssumption
<1>6. \A t : MayRaise(t) \in Nat BY MetricsAssumption DEF MayRaise
<1>7. \A t \in DOMAIN task : Counts(t) BY <1>5, <1>6 DEF Counts
<1> QED BY <1>2, <1>3, <1>4, <1>5, <1>7 DEF LossInv, Explained

\* A series is missing only when requests failed more often than they are
\* repeated, an answer was an error, a node, a queue, an exchange or the
\* overview had not the statistics a parser requires, or a node left between
\* the two requests of a task.
THEOREM LossExplained == Spec => []LossIsExplained
<1>1. LossInv => LossIsExplained BY DEF LossInv, LossIsExplained
<1>2. MetricsInv /\ LossInv /\ [Next]_vars => LossInv' BY LossSteps
<1> QED BY <1>1, <1>2, InitLoss, InitMetrics, MetricsStepKeeps, PTL DEF Spec
----------------------------------------------------------------------------
\* A task that has no result yet has something to ask.
AskInv == \A t \in DOMAIN task : task[t].batch = None => Len(task[t].answers) < Requests(t)

\* A parser returns a result: it is never asked to parse the same again.
LEMMA ParsedOnce ==
    ASSUME MetricsInv, NEW t \in Tasks(script.name), NEW answers \in Seq(Answers), answers # <<>>,
           t \in Joins /\ script.name = "prometheus" => Len(answers) >= 2
    PROVE  Parse(t, answers) # None
<1>1. t \in Joins => t \notin {"nodes", "replicas"} BY MetricsAssumption
<1>2. answers[1] \in Answers /\ answers[Len(answers)] \in Answers
  <2>1. Len(answers) \in Nat /\ Len(answers) # 0 OBVIOUS
  <2>2. 1 \in 1..Len(answers) /\ Len(answers) \in 1..Len(answers) BY <2>1
  <2> QED BY <2>2
<1>3. seen \subseteq Views /\ Lost # None BY MetricsAssumption DEF MetricsInv, ViewInv
<1>4. CASE script.name = "prometheus" /\ t \in Joins
  <2>1. answers[2] \in Answers BY <1>4
  <2>2. Parse(t, answers) = ParseItems(answers[1], answers[2]) BY <1>1, <1>4 DEF Parse
  <2> QED BY <1>2, <1>3, <2>1, <2>2, NotLost DEF ParseItems, Answers
<1>5. CASE t = "nodes"
  <2>1. \/ Parse(t, answers) = ParseNodes(answers[1])
        \/ Parse(t, answers) = InfluxNodes(answers[1])
    BY <1>1, <1>5 DEF Parse
  <2>2. answers[1] = Error => ParseNodes(answers[1]) = Lost /\ InfluxNodes(answers[1]) = Lost
    BY DEF ParseNodes, InfluxNodes
  <2>3. answers[1] # Error => ParseNodes(answers[1]) # None /\ InfluxNodes(answers[1]) # None
    BY <1>2, <1>3, NotLost DEF ParseNodes, Answers
  <2> QED BY <1>3, <2>1, <2>2, <2>3
<1>6. CASE t = "replicas"
  <2>1. Parse(t, answers) = ParseReplicas(answers[Len(answers)]) BY <1>1, <1>6 DEF Parse
  <2>2. \E v : v \in Views BY DEF MetricsInv, ViewInv
  <2>3. [all |-> Replicas] # None BY <2>2, NotLost
  <2> QED BY <1>3, <2>1, <2>3 DEF ParseReplicas
<1>7. CASE ~(script.name = "prometheus" /\ t \in Joins) /\ t \notin {"nodes", "replicas"}
  <2>1. Parse(t, answers) \in {Lost, "parsed"} BY <1>7 DEF Parse, ParseSingle
  <2>2. \E v : v \in Views BY DEF MetricsInv, ViewInv
  <2>3. "parsed" # None BY <2>2, NotLost
  <2> QED BY <1>3, <2>1, <2>3
<1> QED BY <1>4, <1>5, <1>6, <1>7

\* What an answer and a raised request leave of a task.
LEMMA TakesShrinks ==
    ASSUME MetricsInv, LossInv, AskInv, NEW t \in DOMAIN task, Asks(t), NEW answer \in Answers,
           Takes(t, answer), UNCHANGED script
    PROVE  /\ AskInv' /\ ToDo(t)' \in Nat /\ ToDo(t)' < ToDo(t)
           /\ DOMAIN task' = DOMAIN task /\ \A u \in DOMAIN task \ {t} : task'[u] = task[u]
<1> DEFINE answers == Append(task[t].answers, answer)
           more    == Len(answers) < Requests(t) /\ ~(t = "replicas" /\ answer = Error)
           batch   == IF more THEN None ELSE Parse(t, answers)
           asked   == Len(task[t].answers)
<1>1. task' = [task EXCEPT ![t] = [answers |-> answers, raised |-> 0, batch |-> batch]] BY DEF Takes
<1>2. Sound(t) /\ task[t].batch = None /\ t \in Tasks(script.name) /\ task = [u \in DOMAIN task |-> task[u]]
  BY DEF MetricsInv, TaskInv, ScriptInv, Asks
<1>3. /\ answers \in Seq(Answers) /\ answers # <<>> /\ Len(answers) = asked + 1
      /\ asked \in Nat /\ asked < Requests(t)
  BY <1>2 DEF Sound, AskInv
<1>4. t \in Joins /\ script.name = "prometheus" /\ ~more => Len(answers) >= 2
  <2>1. t \in Joins => t # "replicas" BY MetricsAssumption
  <2> QED BY <1>3, <2>1 DEF Requests
<1>5. batch = None => Len(answers) < Requests(t)
  <2> SUFFICES ASSUME ~more PROVE Parse(t, answers) # None OBVIOUS
  <2> HIDE DEF answers, more, batch
  <2> QED BY <1>2, <1>3, <1>4, ParsedOnce
<1> HIDE DEF answers, batch, more, asked
<1>6. /\ DOMAIN task' = DOMAIN task
      /\ task'[t] = [answers |-> answers, raised |-> 0, batch |-> batch]
      /\ \A u \in DOMAIN task \ {t} : task'[u] = task[u]
  BY <1>1, <1>2
<1>7. Requests(t) \in {1, 2} /\ Requests(t)' = Requests(t) /\ Retries \in Nat
  BY MetricsAssumption DEF Requests
<1>8. task[t].raised \in 0..Retries BY <1>2, MetricsAssumption DEF LossInv, Counts, MayRaise
<1>9. ToDo(t) = (Requests(t) - asked) * (Retries + 2) - task[t].raised BY <1>2 DEF ToDo, asked
<1>10. ToDo(t)' = IF batch # None THEN 0 ELSE (Requests(t) - (asked + 1)) * (Retries + 2)
  <2>1. ToDo(t)' = IF batch # None THEN 0 ELSE (Requests(t) - Len(answers)) * (Retries + 2) - 0
    BY <1>6, <1>7 DEF ToDo
  <2> QED BY <1>3, <1>7, <2>1
<1>11. ToDo(t)' \in Nat /\ ToDo(t)' < ToDo(t)
  <2>1. CASE Requests(t) - asked = 1
    <3>1. ToDo(t)' = 0 /\ ToDo(t) = (Retries + 2) - task[t].raised
      BY <1>3, <1>5, <1>7, <1>9, <1>10, <2>1
    <3> QED BY <1>7, <1>8, <3>1
  <2>2. CASE Requests(t) - asked = 2
    <3>1. ToDo(t)' \in {0, Retries + 2} BY <1>3, <1>7, <1>10, <2>2
    <3>2. ToDo(t) = 2 * (Retries + 2) - task[t].raised BY <1>9, <2>2
    <3> QED BY <1>7, <1>8, <3>1, <3>2
  <2> QED BY <1>3, <1>7, <2>1, <2>2
<1>12. ASSUME NEW u \in DOMAIN task', task'[u].batch = None
       PROVE  Len(task'[u].answers) < Requests(u)'
  <2>1. Requests(u)' = Requests(u) BY DEF Requests
  <2>2. CASE u = t
    <3>1. task'[t].batch = batch /\ task'[t].answers = answers BY <1>6
    <3> QED BY <1>5, <1>12, <2>1, <2>2, <3>1
  <2>3. CASE u # t BY <1>6, <1>12, <2>1, <2>3 DEF AskInv
  <2> QED BY <2>2, <2>3
<1> QED BY <1>6, <1>11, <1>12 DEF AskInv

LEMMA RaisesShrinks ==
    ASSUME MetricsInv, LossInv, AskInv, NEW t \in DOMAIN task, Raises(t)
    PROVE  /\ AskInv' /\ ToDo(t)' \in Nat /\ ToDo(t)' < ToDo(t)
           /\ DOMAIN task' = DOMAIN task /\ \A u \in DOMAIN task \ {t} : task'[u] = task[u]
<1> DEFINE batch  == IF task[t].raised < MayRaise(t) THEN task[t].batch ELSE Lost
           raised == task[t].raised + 1
           asked   == Len(task[t].answers)
<1>1. Sound(t) /\ task[t].batch = None /\ UNCHANGED script /\ task = [u \in DOMAIN task |-> task[u]]
  BY DEF MetricsInv, TaskInv, Raises, Asks
<1>2. task' = [task EXCEPT ![t].raised = raised, ![t].batch = batch] BY DEF Raises
<1>3. task[t].raised \in 0..Retries /\ Retries \in Nat
  BY <1>1, MetricsAssumption DEF LossInv, Counts, MayRaise
<1>4. raised \in 1..(Retries + 1) /\ raised = task[t].raised + 1 BY <1>3
<1>5. asked \in Nat /\ asked < Requests(t) BY <1>1 DEF Sound, AskInv
<1>6. Requests(t) \in {1, 2} /\ \A u : Requests(u)' = Requests(u) BY <1>1 DEF Requests
<1> HIDE DEF batch, raised, asked
<1>7. /\ DOMAIN task' = DOMAIN task
      /\ task'[t] = [answers |-> task[t].answers, raised |-> raised, batch |-> batch]
      /\ \A u \in DOMAIN task \ {t} : task'[u] = task[u]
  BY <1>1, <1>2 DEF Sound
<1>8. ToDo(t) = (Requests(t) - asked) * (Retries + 2) - task[t].raised BY <1>1 DEF ToDo, asked
<1>9. ToDo(t)' = IF batch # None THEN 0 ELSE (Requests(t) - asked) * (Retries + 2) - raised
  BY <1>6, <1>7 DEF ToDo, asked
<1>10. ToDo(t)' \in Nat /\ ToDo(t)' < ToDo(t)
  <2>1. CASE Requests(t) - asked = 1
    <3>1. ToDo(t) = (Retries + 2) - task[t].raised BY <1>8, <1>3, <2>1
    <3>2. ToDo(t)' \in {0, (Retries + 2) - raised} BY <1>9, <1>3, <2>1
    <3> QED BY <1>3, <1>4, <3>1, <3>2
  <2>2. CASE Requests(t) - asked = 2
    <3>1. ToDo(t) = 2 * (Retries + 2) - task[t].raised BY <1>8, <2>2
    <3>2. ToDo(t)' \in {0, 2 * (Retries + 2) - raised} BY <1>9, <2>2
    <3> QED BY <1>3, <1>4, <3>1, <3>2
  <2> QED BY <1>5, <1>6, <2>1, <2>2
<1>11. \A u \in DOMAIN task' : task'[u].batch = None => Len(task'[u].answers) < Requests(u)'
  <2> SUFFICES ASSUME NEW u \in DOMAIN task', task'[u].batch = None
               PROVE  Len(task'[u].answers) < Requests(u)'
    OBVIOUS
  <2>1. task'[t].answers = task[t].answers BY <1>7
  <2> QED BY <1>1, <1>6, <1>7, <2>1 DEF AskInv
<1> QED BY <1>7, <1>10, <1>11 DEF AskInv

\* The steps of a script; those of others leave its tasks alone.
LEMMA StepShrinks ==
    ASSUME MetricsInv, LossInv, AskInv, MetricsStep
    PROVE  /\ AskInv'
           /\ \/ Stage' < Stage /\ UNCHANGED task
              \/ \E t \in DOMAIN task :
                    /\ ToDo(t)' \in Nat /\ ToDo(t)' < ToDo(t) /\ Stage' = Stage
                    /\ \A u \in DOMAIN task \ {t} : task'[u] = task[u]
<1>0. script = [name |-> script.name, place |-> script.place, phase |-> script.phase, out |-> script.out]
  BY DEF MetricsInv, ScriptInv
<1>1. CASE Connects
  <2>1. PICK phase \in {"gather", "failed"} : script' = [script EXCEPT !.phase = phase]
    BY <1>1 DEF Connects
  <2>2. script'.phase = phase /\ script'.name = script.name /\ script'.place = script.place
    BY <1>0, <2>1
  <2>3. script.phase = "connect" /\ task' = task BY <1>1 DEF Connects
  <2> QED BY <2>2, <2>3 DEF Stage, AskInv, Requests
<1>2. CASE Prints
  <2> DEFINE out == IF script.name = "influx" THEN InfluxStatus ELSE "batches"
  <2>1. script.phase = "gather" /\ task' = task /\ script' = [script EXCEPT !.phase = "printed", !.out = out]
    BY <1>2 DEF Prints
  <2> HIDE DEF out
  <2>2. script'.phase = "printed" /\ script'.name = script.name /\ script'.place = script.place
    BY <1>0, <2>1
  <2> QED BY <2>1, <2>2 DEF Stage, AskInv, Requests
<1>3. ASSUME NEW t \in DOMAIN task, Answered(t) \/ Refused(t) \/ Raises(t)
      PROVE  /\ AskInv' /\ ToDo(t)' \in Nat /\ ToDo(t)' < ToDo(t) /\ Stage' = Stage
             /\ \A u \in DOMAIN task \ {t} : task'[u] = task[u]
  <2>1. Stage' = Stage BY <1>3 DEF Answered, Refused, Raises, Stage
  <2>2. CASE Answered(t) \/ Refused(t)
    <3>1. PICK answer \in {View, Error} : Asks(t) /\ Takes(t, answer) /\ UNCHANGED script
      BY <2>2 DEF Answered, Refused
    <3>2. answer \in Answers BY <3>1 DEF Asks, MetricsInv, ViewInv, Answers
    <3> QED BY <2>1, <3>1, <3>2, TakesShrinks
  <2>3. CASE Raises(t) BY <2>1, <2>3, RaisesShrinks
  <2> QED BY <1>3, <2>2, <2>3
<1> QED BY <1>1, <1>2, <1>3 DEF MetricsStep

LEMMA InitAsk == Init => AskInv
<1> SUFFICES ASSUME Init, NEW t \in DOMAIN task, task[t].batch = None
             PROVE  Len(task[t].answers) < Requests(t)
  BY DEF AskInv
<1>1. PICK name : MetricsInit(name) BY DEF Init
<1>2. Fresh(t) = [answers |-> <<>>, raised |-> 0, batch |-> None] BY DEF Fresh
<1>3. task[t].answers = <<>>
  <2>1. task[t] = IF t = "replicas" /\ script.place = "outside"
                  THEN [answers |-> <<>>, raised |-> 0, batch |-> Lost]
                  ELSE [answers |-> <<>>, raised |-> 0, batch |-> None]
    BY <1>1, <1>2 DEF MetricsInit
  <2> QED BY <2>1
<1> QED BY <1>3 DEF Requests

\* A script takes a bounded number of steps, whatever is refused, raised or
\* changed under it: each brings it from one phase to the next, or leaves one
\* of its tasks less to do and the others as they were.
THEOREM ScrapesAreBounded == Spec => ScrapesShrink
<1> DEFINE Inv == MetricsInv /\ LossInv /\ AskInv
<1>1. Init => Inv BY InitMetrics, InitLoss, InitAsk
<1>2. Inv /\ [Next]_vars => Inv'
  <2> SUFFICES ASSUME Inv, [Next]_vars PROVE AskInv' BY MetricsStepKeeps, LossSteps
  <2>1. CASE UNCHANGED <<script, task>> BY <2>1 DEF AskInv, Requests
  <2>2. CASE Scrape BY <2>2, StepShrinks DEF Scrape
  <2>3. CASE ~Scrape
    <3>1. UNCHANGED <<script, task>>
      BY <2>3 DEF Next, vars, others, metrics, NodesChange, ItemsMove, ShovelsChange, StatsChange, UsersChange, Recorded,
                  Backup, Shovels, Ticks
    <3> QED BY <2>1, <3>1
  <2> QED BY <2>2, <2>3
<1>3. Inv => [MetricsStep => \/ Stage' < Stage /\ UNCHANGED task
                             \/ \E t \in DOMAIN task :
                                   /\ ToDo(t)' \in Nat /\ ToDo(t)' < ToDo(t) /\ Stage' = Stage
                                   /\ \A u \in DOMAIN task \ {t} : task'[u] = task[u]]_<<metrics, faults>>
  BY StepShrinks
<1> QED BY <1>1, <1>2, <1>3, PTL DEF Spec, ScrapesShrink
=============================================================================
