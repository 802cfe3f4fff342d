------------------------------- MODULE Metrics -------------------------------
(***************************************************************************)
(* The monitoring scripts Telegraf starts: prometheus.py with its parsers, *)
(* influx.py and version_info.py.  A script runs its tasks concurrently;   *)
(* a task makes its requests one after another, each repeated when it      *)
(* raises, and hands the answers to a parser; whatever a task raises       *)
(* leaves it with an empty list.  The script prints once all have ended.   *)
(*                                                                         *)
(* An answer is the view of the cluster at the moment of the request, from *)
(* which a parser takes what it needs.  The gauges of one node that sum up *)
(* over its connections, channels or queues are represented by the set of  *)
(* those.                                                                  *)
(***************************************************************************)
EXTENDS Broker

CONSTANTS
    Joins,     \* prometheus.py's tasks that join their list with the nodes
    Singles,   \* influx.py's tasks of one request besides `nodes'
    Retries,   \* the parameter of the decorator retry
    Error,     \* an answer {"error": ..., "reason": ...}
    Lost       \* the result of a task that raised

\* What a parser makes of its answers.
Batch == (UNION {[V -> SUBSET Item] : V \in SUBSET Node})
         \cup [state : 0..2, count : Nat]
         \cup [health : UNION {[V -> {0, 1}] : V \in SUBSET Node}, current : Nat]
         \cup [all : Nat] \cup {"parsed"}

ASSUME MetricsAssumption ==
    /\ None \notin Batch /\ Lost \notin Batch /\ Lost # None
    /\ Joins \subseteq {"queues", "channels", "connections"}
    /\ Singles \subseteq {"overview", "smoketest", "queues", "exchanges"}
    /\ Retries \in Nat

VARIABLES
    script,    \* which script runs, where, how far it is, what it printed
    task,      \* per task: its answers, raised requests, and result
    seen       \* the views since the script's tasks began (for the properties)

metrics == <<script, task, seen>>

View  == [member |-> member, item |-> item, scant |-> scant]
Views == [member : [Node -> Member], item : [Item -> Node \cup {None}], scant : SUBSET Statistics]

Listed(v) == {n \in Node : v.member[n] # "left"}
Up(v)     == {n \in Node : v.member[n] = "running"}

Tasks(s) == CASE s = "prometheus" -> {"nodes"} \cup Joins
              [] s = "influx"     -> {"nodes", "replicas"} \cup Singles
              [] OTHER            -> {"version"}
----------------------------------------------------------------------------
\* The parsers.  A KeyError or TypeError in one makes its task lose all.

ClusterState(count) ==
    IF count = Replicas THEN 0 ELSE IF count = 0 THEN 2 ELSE 1

\* Mutants: members that are down count; all nodes share one counter, as
\* dict.fromkeys would do; the sums start only for nodes that run.
CountsAll(v) ==
    IF v = Error THEN Lost
    ELSE [state |-> ClusterState(Cardinality(Listed(v))), count |-> Cardinality(Listed(v))]
SharedSum(items, nodes) ==
    IF Error \in {items, nodes} THEN Lost
    ELSE [n \in Listed(nodes) |-> {i \in Item : items.item[i] # None}]
RunningOnly(items, nodes) ==
    IF Error \in {items, nodes} \/ \E i \in Item : items.item[i] \notin Up(nodes) \cup {None}
    THEN Lost ELSE [n \in Up(nodes) |-> {i \in Item : items.item[i] = n}]

\* node['disk_free'] and the other statistics are required of every entry.
ParseNodes(v) ==
    IF v = Error \/ (\E n \in Listed(v) : v.member[n] = "bare") THEN Lost
    ELSE [state |-> ClusterState(Cardinality(Up(v))), count |-> Cardinality(Up(v))]

\* Sums start at zero for the nodes of `nodes'; an item elsewhere has none.
KeyMissing(items, nodes) ==
    \E i \in Item : items.item[i] \notin Listed(nodes) \cup {None}
SumPerNode(items, nodes) ==
    [n \in Listed(nodes) |-> {i \in Item : items.item[i] = n}]
ParseItems(items, nodes) ==
    IF Error \in {items, nodes} \/ KeyMissing(items, nodes) THEN Lost
    ELSE SumPerNode(items, nodes)

\* influx.py reads the statistics with a default, -1.
InfluxNodes(v) ==
    IF v = Error THEN Lost
    ELSE [health  |-> [n \in Listed(v) |-> IF n \in Up(v) THEN 1 ELSE 0],
          current |-> Cardinality(Up(v))]

\* A StatefulSet of all nodes, or one for each of them.
ParseReplicas(v) == IF v = Error THEN Lost ELSE [all |-> Replicas]

\* queue[x], exchange['message_stats'][x] and the rate of the overview are
\* required of every entry, too.
ParseSingle(t, v) == IF v = Error \/ t \in v.scant THEN Lost ELSE "parsed"

Parse(t, answers) ==
    CASE t \in Joins /\ script.name = "prometheus" -> ParseItems(answers[1], answers[2])
      [] t = "nodes" -> IF script.name = "prometheus" THEN ParseNodes(answers[1])
                        ELSE InfluxNodes(answers[1])
      [] t = "replicas" -> ParseReplicas(answers[Len(answers)])
      [] OTHER -> ParseSingle(t, answers[1])

\* Host-path clusters have no StatefulSet rmqlocal: all are counted instead.
Requests(t) == IF (t \in Joins /\ script.name = "prometheus")
                  \/ (t = "replicas" /\ script.place = "hostpath") THEN 2 ELSE 1

\* A raised request is repeated, but not those to Kubernetes; the request of
\* version_info.py catches what it raises itself, and reports `unknown'.
MayRaise(t) == IF t \in {"replicas", "version"} THEN 0 ELSE Retries
----------------------------------------------------------------------------
Fresh(t) == [answers |-> <<>>, raised |-> 0, batch |-> None]

\* get_number_of_dc_replicas returns at once outside of a pod.
MetricsInit(name) ==
    /\ script \in [name : {name}, place : {"storageclass", "hostpath", "outside"},
                   phase : {IF name = "prometheus" THEN "connect" ELSE "gather"},
                   out : {None}]
    /\ script.place # "storageclass" => name = "influx"
    /\ task = [t \in Tasks(name) |->
                 IF t = "replicas" /\ script.place = "outside"
                 THEN [Fresh(t) EXCEPT !.batch = Lost] ELSE Fresh(t)]
    /\ seen = {View}

\* The constructor of prometheus.py's helper asks for the cluster's name,
\* once; what it raises ends the script without any output.
Connects ==
    /\ script.phase = "connect"
    /\ \/ NoFault /\ script' = [script EXCEPT !.phase = "gather"] /\ seen' = {View}
       \/ Faulty /\ script' = [script EXCEPT !.phase = "failed"] /\ UNCHANGED seen
    /\ UNCHANGED task

Asks(t) == script.phase = "gather" /\ task[t].batch = None

Takes(t, answer) ==
    LET answers == Append(task[t].answers, answer)
    IN  task' = [task EXCEPT ![t] =
                   [answers |-> answers, raised |-> 0,
                    batch |-> IF Len(answers) < Requests(t)
                                 /\ ~(t = "replicas" /\ answer = Error)
                              THEN None ELSE Parse(t, answers)]]

RaisesAgain(t) ==      \* a mutant: repeated without being counted
    /\ Asks(t) /\ Faulty
    /\ task' = [task EXCEPT ![t].batch = IF t = "replicas" THEN Lost ELSE @]
    /\ UNCHANGED <<script, seen>>

Answered(t) == Asks(t) /\ NoFault /\ Takes(t, View) /\ UNCHANGED <<script, seen>>
Refused(t)  == Asks(t) /\ Faulty /\ Takes(t, Error) /\ UNCHANGED <<script, seen>>

Raises(t) ==
    /\ Asks(t) /\ Faulty
    /\ task' = [task EXCEPT ![t].raised = @ + 1,
                            ![t].batch = IF task[t].raised < MayRaise(t) THEN @ ELSE Lost]
    /\ UNCHANGED <<script, seen>>

\* convert_metrics: `current' stays 0 and `all' None without their metric.
InfluxStatus ==
    LET current == IF task["nodes"].batch = Lost THEN 0 ELSE task["nodes"].batch.current
        all     == IF task["replicas"].batch = Lost THEN None ELSE task["replicas"].batch.all
    IN  IF all \in {None, 0} THEN <<0, 1>> ELSE <<current, all>>

Prints ==
    /\ script.phase = "gather" /\ \A t \in DOMAIN task : task[t].batch # None
    /\ script' = [script EXCEPT !.phase = "printed",
                    !.out = IF script.name = "influx" THEN InfluxStatus ELSE "batches"]
    /\ UNCHANGED <<task, seen, faults>>

MetricsStep ==
    \/ Connects \/ Prints
    \/ \E t \in DOMAIN task : Answered(t) \/ Refused(t) \/ Raises(t)
----------------------------------------------------------------------------
Printed(t)   == script.phase = "printed" /\ t \in DOMAIN task /\ task[t].batch # Lost
Prometheus   == script.name = "prometheus"
Complete(v)  == Cardinality(Up(v)) = Replicas

\* The alarm of the chart (cluster down or degraded) fires on a state above
\* 0, and another one when the state is absent.  parse_nodes and
\* convert_metrics report a complete cluster only if it was complete at some
\* moment of the scrape, and an incomplete one only if it was not complete at
\* some moment (influx.py: or if one of its two sources was lost).
StateIsHonest ==
    /\ Prometheus /\ Printed("nodes") =>
          \E v \in seen : Complete(v) <=> task["nodes"].batch.state = 0
    /\ script.name = "influx" /\ script.phase = "printed" =>
          \/ \E v \in seen : Complete(v) <=> script.out = <<Replicas, Replicas>>
          \/ ~Printed("nodes") \/ ~Printed("replicas")

\* The lists and the nodes come from different moments, but what is printed
\* for queues, channels or connections is one moment's distribution of them:
\* none is dropped, counted twice or attributed to another node.
BatchIsOneMoment ==
    \A t \in Joins : Prometheus /\ Printed(t) =>
        \E v \in seen : \A i \in Item :
            {n \in DOMAIN task[t].batch : i \in task[t].batch[n]} = {v.item[i]} \ {None}

\* A series is only lost to requests that fail more often than they are
\* repeated, to an answer that is an error, to a node, a queue, an exchange or
\* an overview without its statistics, or to a node that left between a task's
\* two requests.
Explained(t) ==
    \/ task[t].raised > MayRaise(t) \/ Error \in {task[t].answers[k] : k \in DOMAIN task[t].answers}
    \/ t = "replicas" /\ script.place = "outside"
    \/ Prometheus /\ t = "nodes" /\ \E v \in seen, n \in Node : v.member[n] = "bare"
    \/ ~Prometheus /\ \E v \in seen : t \in v.scant
    \/ Prometheus /\ t \in Joins /\ \E v, w \in seen : \E i \in Item :
          v.item[i] \in Listed(v) \ Listed(w)

LossIsExplained == \A t \in DOMAIN task : task[t].batch = Lost => Explained(t)

\* Every step of a script brings it nearer to its output: it goes on from one
\* phase to the next, or one of its tasks has less to ask, and no other one
\* more: a request that raises is repeated a bounded number of times.
Stage   == CASE script.phase = "connect" -> 2 [] script.phase = "gather" -> 1 [] OTHER -> 0
ToDo(t) == IF task[t].batch # None THEN 0
           ELSE (Requests(t) - Len(task[t].answers)) * (Retries + 2) - task[t].raised

ScrapesShrink ==
    [][MetricsStep => \/ Stage' < Stage /\ UNCHANGED task
                      \/ \E t \in DOMAIN task :
                            /\ ToDo(t)' \in Nat /\ ToDo(t)' < ToDo(t) /\ Stage' = Stage
                            /\ \A u \in DOMAIN task \ {t} : task'[u] = task[u]]_<<metrics, faults>>
=============================================================================
