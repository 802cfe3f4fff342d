------------------------------- MODULE Broker -------------------------------
(***************************************************************************)
(* The RabbitMQ cluster as the programs see it that ask its management     *)
(* API, and what changes it while they run: nodes stop, start and leave,   *)
(* clients connect elsewhere, shovels stop, statistics are missing, users  *)
(* change definitions.  All of it is outside the repository and modelled   *)
(* from what those programs read of its answers.  Every request is         *)
(* answered by one of the nodes that run; `faults' counts the requests and *)
(* commands that fail.                                                     *)
(***************************************************************************)
EXTENDS Naturals, FiniteSets, Sequences

CONSTANTS
    Node,          \* the broker's nodes, one per pod
    Replicas,      \* spec.rabbitmq.replicas, DESIRED_NODE_COUNT
    Item,          \* connections, channels or queues
    Shovel,        \* the shovels that are configured
    VHost, Object, \* virtual hosts, and what is defined in them
    None,          \* no node, no virtual host, no file
    MaxChanges,    \* bound on changes of the cluster
    MaxFaults      \* bound on failing requests and commands

ASSUME BrokerAssumption ==
    /\ IsFiniteSet(Node) /\ IsFiniteSet(Shovel) /\ Replicas \in Nat \ {0}
    /\ None \notin Node \cup VHost \cup Nat /\ \A S \in SUBSET Object : None # S
    /\ MaxChanges \in Nat /\ MaxFaults \in Nat

VARIABLES
    member,      \* what /api/nodes says of each node
    plugin,      \* whether a pod's shovel plugin is enabled
    item,        \* the node each connection, channel or queue is on
    shovel,      \* what /api/shovels says of each shovel
    definition,  \* the objects of each virtual host, None without it
    scant,       \* the lists with an entry that lacks statistics
    changes, faults

broker == <<member, plugin, item, shovel, definition, scant, changes>>

\* The entry of a node that has stopped keeps its statistics for a while
\* (`stale') and has only name, type and running in the end (`bare').
Member == {"running", "stale", "bare", "left"}

\* `vague' is an entry that has not the fields of a running shovel,
\* `lost' one whose details are not found.
ShovelState == {"running", "terminated", "vague", "lost", "none"}

\* An entry lacks them if it is a queue of a node that is down or one that is
\* new, an exchange that has not both taken in and given out messages yet, or
\* an overview before the first message that could not be routed.
Statistics == {"queues", "exchanges", "overview"}

BrokerTypeOK ==
    /\ member \in [Node -> Member] /\ plugin \in [Node -> BOOLEAN]
    /\ item \in [Item -> Node \cup {None}] /\ shovel \in [Shovel -> ShovelState]
    /\ definition \in [VHost -> {None} \cup SUBSET Object] /\ scant \subseteq Statistics
    /\ changes \in 0..MaxChanges /\ faults \in 0..MaxFaults

Running == {n \in Node : member[n] = "running"}

BrokerInit ==
    /\ member = [n \in Node |-> "running"] /\ plugin = [n \in Node |-> TRUE]
    /\ item \in [Item -> Node]
    /\ shovel = [s \in Shovel |-> "running"]
    /\ definition \in [VHost -> {{}, Object}]
    /\ scant = {} /\ changes = 0 /\ faults = 0

Changes == changes < MaxChanges /\ changes' = changes + 1 /\ UNCHANGED faults
Faulty  == faults < MaxFaults /\ faults' = faults + 1
NoFault == UNCHANGED faults

NodeStops(n) ==
    /\ member[n] = "running" /\ Changes
    /\ \E m \in {"stale", "bare"} : member' = [member EXCEPT ![n] = m]
    /\ UNCHANGED <<plugin, item, shovel, definition, scant>>

\* A pod starts with the plugins of its mounted file enabled_plugins.
NodeStarts(n) ==
    /\ member[n] # "running" /\ Changes
    /\ member' = [member EXCEPT ![n] = "running"]
    /\ plugin' = [plugin EXCEPT ![n] = TRUE]
    /\ UNCHANGED <<item, shovel, definition, scant>>

NodeLeaves(n) ==
    /\ member[n] \in {"stale", "bare"} /\ Changes
    /\ member' = [member EXCEPT ![n] = "left"]
    /\ item' = [i \in Item |-> IF item[i] = n THEN None ELSE item[i]]
    /\ UNCHANGED <<plugin, shovel, definition, scant>>

ItemMoves(i) ==
    /\ Changes
    /\ \E n \in (Running \cup {None}) \ {item[i]} : item' = [item EXCEPT ![i] = n]
    /\ UNCHANGED <<member, plugin, shovel, definition, scant>>

ShovelChanges(s) ==
    /\ Changes
    /\ \E st \in ShovelState \ {shovel[s]} : shovel' = [shovel EXCEPT ![s] = st]
    /\ UNCHANGED <<member, plugin, item, definition, scant>>

UserChanges(v) ==
    /\ Changes
    /\ \E c \in {None, {}, Object} \ {definition[v]} :
          definition' = [definition EXCEPT ![v] = c]
    /\ UNCHANGED <<member, plugin, item, shovel, scant>>

StatisticsChange(l) ==
    /\ Changes
    /\ scant' = IF l \in scant THEN scant \ {l} ELSE scant \cup {l}
    /\ UNCHANGED <<member, plugin, item, shovel, definition>>
=============================================================================
