--------------------------- MODULE NodeLifecycle ---------------------------
(***************************************************************************)
(* A RabbitMQ pod from its start to its end: the entrypoint of the image,  *)
(* which empties the volume if the operator has asked for it; the probes,  *)
(* which decide by the online nodes whether the node has started once, and *)
(* touch a marker on the volume; the pre-stop hook, which empties the      *)
(* volume of a node without the marker; and the operator's cleanup, which  *)
(* flags the volumes and deletes the pods.                                 *)
(*                                                                         *)
(* The server itself is outside the repository: a node without data joins  *)
(* one that its peer discovery finds, or makes a cluster of its own; one   *)
(* with data comes up unless a running member has forgotten it.  The cookie*)
(* is always there and never changes.                                      *)
(***************************************************************************)
EXTENDS Naturals, FiniteSets

CONSTANTS
    N,            \* replicas; the nodes are 0..N-1, their pods' ordinals
    Layouts,      \* of `storageclass' (one StatefulSet) and `hostpath'
    MaxDeletes,   \* bound on pods deleted by others than the cleanup
    MaxKills,     \* bound on containers killed without the hook
    MaxCleans     \* bound on cleanups

ASSUME LifecycleAssumption ==
    /\ N \in Nat \ {0} /\ Layouts \subseteq {"storageclass", "hostpath"}
    /\ MaxDeletes \in Nat /\ MaxKills \in Nat /\ MaxCleans \in Nat

VARIABLES
    layout,
    data,      \* per volume, the members of the cluster in the node's database
    marker,    \* the file started_at_least_once
    flag,      \* the file delete_all
    at,        \* where the container of each pod is
    peer,      \* what a node without data has discovered, N for nothing
    touching,  \* readiness probes that have seen enough nodes
    clean,     \* the operator's cleanup: next pod, and whether it is flagged
    cut,       \* for the properties: nodes ended while their volume was emptied,
               \* or marked after it was
    old,       \* ...: nodes with data of before the cleanup, and those that have
               \* joined one of them
    bounds     \* deletes, kills, cleans

volumes == <<data, marker, flag>>
ghosts  == <<cut, old>>
vars == <<layout, volumes, at, peer, touching, clean, ghosts, bounds>>

Node   == 0..(N - 1)
Places == {"down", "wipe data", "wipe marker", "boot", "join", "up", "stop", "purge"}

\* A node is in the cluster its database describes.
TypeOK ==
    /\ layout \in {"storageclass", "hostpath"}
    /\ data \in [Node -> SUBSET Node] /\ \A i \in Node : data[i] # {} => i \in data[i]
    /\ marker \in SUBSET Node /\ flag \in SUBSET Node
    /\ at \in [Node -> Places]
    /\ peer \in [Node -> Node \cup {N}]
    /\ touching \in SUBSET Node
    /\ clean \in [next : 0..N, flagged : BOOLEAN]
    /\ cut \in SUBSET Node /\ old \in [kept : SUBSET Node, joined : SUBSET Node]
    /\ bounds \in [deletes : 0..MaxDeletes, kills : 0..MaxKills, cleans : 0..MaxCleans]

\* The pods of a new installation start in parallel.
Init ==
    /\ layout \in Layouts
    /\ data = [i \in Node |-> {}] /\ marker = {} /\ flag = {}
    /\ at = [i \in Node |-> "down"] /\ peer = [i \in Node |-> N] /\ touching = {}
    /\ clean = [next |-> N, flagged |-> FALSE]
    /\ cut = {} /\ old = [kept |-> {}, joined |-> {}]
    /\ bounds = [deletes |-> 0, kills |-> 0, cleans |-> 0]

Goes(i, place) == at' = [at EXCEPT ![i] = place]
Spends(b)      == bounds' = [bounds EXCEPT ![b] = @ + 1]

Up == {i \in Node : at[i] = "up"}

\* await_online_nodes counts the running members of the node's cluster (the
\* mutant: all pods that run).
RunningPods(i) == Up
Online(i) == {j \in data[i] \cap Up : i \in data[j]}
Need(i)   == (i + 1) \div 2 + 1
----------------------------------------------------------------------------
\* docker-entrypoint.sh.  rm goes through the files in the order of their
\* names: delete_all, the database, started_at_least_once.
Entry(i) ==
    /\ at[i] = "down"
    /\ IF i \in flag THEN Goes(i, "wipe data") ELSE Goes(i, "boot")
    /\ flag' = flag \ {i}
    /\ touching' = touching \ {i}
    /\ UNCHANGED <<layout, data, marker, peer, clean, ghosts, bounds>>

Emptied(i) == /\ data' = [data EXCEPT ![i] = {}]
              /\ old' = [kept |-> old.kept \ {i}, joined |-> old.joined \ {i}]

WipeData(i) ==
    /\ at[i] = "wipe data" /\ Goes(i, "wipe marker")
    /\ Emptied(i)
    /\ UNCHANGED <<layout, marker, flag, peer, touching, clean, cut, bounds>>

WipeMarker(i) ==
    /\ at[i] = "wipe marker" /\ Goes(i, "boot")
    /\ marker' = marker \ {i} /\ cut' = cut \ {i}
    /\ UNCHANGED <<layout, data, flag, peer, touching, clean, old, bounds>>
----------------------------------------------------------------------------
\* The server: peer discovery of a node without data, and what it does with
\* the result some time later.
Discovers(i) ==
    /\ at[i] = "boot" /\ data[i] = {} /\ Goes(i, "join")
    /\ \E p \in IF Up = {} THEN {N} ELSE Up : peer' = [peer EXCEPT ![i] = p]
    /\ UNCHANGED <<layout, volumes, touching, clean, ghosts, bounds>>

\* i's database becomes a copy of p's, and the members of p's know it.
CopiesOnly(i, p) ==   \* a mutant: nobody adds i
    /\ data' = [data EXCEPT ![i] = data[p]] /\ UNCHANGED old

Joined(i, p) ==
    /\ data' = [j \in Node |-> IF j = i THEN data[p] \cup {i}
                               ELSE IF j \in data[p] /\ p \in data[j] THEN data[j] \cup {i}
                               ELSE data[j]]
    /\ old' = IF p \in old.kept \cup old.joined
              THEN [old EXCEPT !.joined = @ \cup {i}] ELSE old

Forms(i) ==
    /\ at[i] = "join" /\ peer[i] = N /\ Goes(i, "up")
    /\ data' = [data EXCEPT ![i] = {i}]
    /\ UNCHANGED <<layout, marker, flag, peer, touching, clean, ghosts, bounds>>

Joins(i) ==
    /\ at[i] = "join" /\ peer[i] \in Up /\ Goes(i, "up") /\ Joined(i, peer[i])
    /\ peer' = [peer EXCEPT ![i] = N]
    /\ UNCHANGED <<layout, marker, flag, touching, clean, cut, bounds>>

MissesPeer(i) ==
    /\ at[i] = "join" /\ peer[i] \notin Up \cup {N} /\ Goes(i, "boot")
    /\ peer' = [peer EXCEPT ![i] = N]
    /\ UNCHANGED <<layout, volumes, touching, clean, ghosts, bounds>>

Agreed(i) == \A j \in data[i] \cap Up : i \in data[j]

Boots(i) ==
    /\ at[i] = "boot" /\ data[i] # {} /\ Agreed(i) /\ Goes(i, "up")
    /\ UNCHANGED <<layout, volumes, peer, touching, clean, ghosts, bounds>>
----------------------------------------------------------------------------
\* The probes of rabbitconstants.py.  The readiness probe of a storage-class
\* node awaits the nodes and then touches the marker, if it comes to that.
Awaits(i) ==
    /\ layout = "storageclass" /\ at[i] = "up" /\ i \notin marker \cup touching
    /\ Cardinality(Online(i)) >= Need(i)
    /\ touching' = touching \cup {i}
    /\ UNCHANGED <<layout, volumes, at, peer, clean, ghosts, bounds>>

Touches(i) ==
    /\ i \in touching /\ touching' = touching \ {i}
    /\ marker' = marker \cup {i}
    /\ cut' = IF data[i] = {} THEN cut \cup {i} ELSE cut
    /\ UNCHANGED <<layout, data, flag, at, peer, clean, old, bounds>>

\* The liveness probe of a host-path node joins it with node 0: stop_app,
\* join_cluster and start_app in one step.  A probe that times out in between
\* leaves a node that is not running, with its old database or the new one, and
\* check_running fails until the container is ended: that is Killed, before or
\* after this step.
JoinsZero(i) ==
    /\ layout = "hostpath" /\ at[i] = "up" /\ i # 0 /\ i \notin marker
    /\ \/ 0 \in data[i] /\ marker' = marker \cup {i} /\ UNCHANGED <<data, old>>
       \/ 0 \notin data[i] /\ 0 \in Up /\ Joined(i, 0) /\ UNCHANGED marker
    /\ UNCHANGED <<layout, flag, at, peer, touching, clean, cut, bounds>>

\* Whatever ends the container in order runs the hook first, in storage-class
\* clusters: rabbitmqctl stop, and rm -r unless the marker is there.
Stopped(i) == IF layout = "storageclass" THEN Goes(i, "stop") ELSE Goes(i, "down")
Stoppable(i) == at[i] \in {"boot", "join", "up"}
Wiping(i)    == at[i] \in {"wipe data", "wipe marker"}

\* 30 failures in a row: of check_running, because the cluster has forgotten
\* the node, or, without the marker, of the waiting for the other nodes.
LivenessKills(i) ==
    /\ \/ at[i] = "boot" /\ data[i] # {} /\ ~Agreed(i)
       \/ at[i] = "up" /\ i \notin marker /\ layout = "storageclass"
                      /\ Cardinality(Online(i)) < Need(i)
       \/ at[i] = "up" /\ i \notin marker /\ layout = "hostpath"
                      /\ i # 0 /\ 0 \notin data[i] \cup Up
    /\ Stopped(i)
    /\ UNCHANGED <<layout, volumes, peer, touching, clean, ghosts, bounds>>

HookSpares(i) ==      \* a mutant: the hook without the removal
    /\ at[i] = "stop" /\ Goes(i, "down")
    /\ UNCHANGED <<layout, volumes, peer, touching, clean, ghosts, bounds>>

HookChecks(i) ==
    /\ at[i] = "stop" /\ Goes(i, IF i \in marker THEN "down" ELSE "purge")
    /\ UNCHANGED <<layout, volumes, peer, touching, clean, ghosts, bounds>>

\* The marker is removed if a probe has made it by now; it may come later,
\* until the container is gone.
HookPurges(i) ==
    /\ at[i] = "purge" /\ Goes(i, "down") /\ Emptied(i)
    /\ marker' = marker \ {i} /\ flag' = flag \ {i} /\ cut' = cut \ {i}
    /\ UNCHANGED <<layout, peer, touching, clean, bounds>>
----------------------------------------------------------------------------
PodDeleted(i) ==
    /\ Stoppable(i) /\ bounds.deletes < MaxDeletes /\ Spends("deletes") /\ Stopped(i)
    /\ UNCHANGED <<layout, volumes, peer, touching, clean, ghosts>>

\* Out of memory, a lost machine, or the end of the grace period.
Killed(i) ==
    /\ at[i] # "down" /\ bounds.kills < MaxKills /\ Spends("kills") /\ Goes(i, "down")
    /\ touching' = touching \ {i}
    /\ cut' = IF Wiping(i) THEN cut \cup {i} ELSE cut
    /\ UNCHANGED <<layout, volumes, peer, clean, old>>

\* set_clean_pv_flag_and_delete_pods.  A container that cannot be entered
\* makes the handler fail; it is retried from the first pod on.  One that is
\* emptying its volume or about to end may be entered still, or not any more.
CleanBegins ==
    /\ clean.next = N /\ bounds.cleans < MaxCleans /\ Spends("cleans")
    /\ clean' = [next |-> 0, flagged |-> FALSE]
    /\ old' = [kept |-> {i \in Node : data[i] # {}}, joined |-> {}]
    /\ UNCHANGED <<layout, volumes, at, peer, touching, cut>>

Flags(i) ==
    /\ clean = [next |-> i, flagged |-> FALSE] /\ at[i] # "down"
    /\ flag' = flag \cup {i} /\ clean' = [clean EXCEPT !.flagged = TRUE]
    /\ UNCHANGED <<layout, data, marker, at, peer, touching, ghosts, bounds>>

FlagSkips(i) ==       \* a mutant: a failing exec is logged
    /\ clean = [next |-> i, flagged |-> FALSE] /\ ~Stoppable(i)
    /\ clean' = [clean EXCEPT !.next = i + 1]
    /\ UNCHANGED <<layout, volumes, at, peer, touching, ghosts, bounds>>

FlagFails(i) ==
    /\ clean = [next |-> i, flagged |-> FALSE] /\ ~Stoppable(i)
    /\ clean' = [clean EXCEPT !.next = 0]
    /\ UNCHANGED <<layout, volumes, at, peer, touching, ghosts, bounds>>

\* The deletion of a pod that is emptying its volume can interrupt that; one
\* that ends already just ends.
Deletes(i) ==
    /\ clean = [next |-> i, flagged |-> TRUE]
    /\ clean' = [next |-> i + 1, flagged |-> FALSE]
    /\ \/ Stoppable(i) /\ Stopped(i) /\ UNCHANGED cut
       \/ Wiping(i) /\ Goes(i, "down") /\ cut' = cut \cup {i}
       \/ ~Stoppable(i) /\ ~Wiping(i) /\ UNCHANGED <<at, cut>>
    /\ UNCHANGED <<layout, volumes, peer, touching, old, bounds>>
----------------------------------------------------------------------------
Container(i) ==
    \/ Entry(i) \/ WipeData(i) \/ WipeMarker(i) \/ Discovers(i) \/ Forms(i) \/ Joins(i) \/ MissesPeer(i)
    \/ Boots(i) \/ Awaits(i) \/ Touches(i) \/ JoinsZero(i) \/ LivenessKills(i)
    \/ HookChecks(i) \/ HookPurges(i)

Cleanup(i) == Flags(i) \/ FlagFails(i) \/ Deletes(i)

Next == \/ CleanBegins
        \/ \E i \in Node : Container(i) \/ Cleanup(i) \/ PodDeleted(i) \/ Killed(i)

Spec == Init /\ [][Next]_vars

\* Containers go on, the kubelet probes them and kills them when the probe has
\* failed often enough, and the operator retries its handler.  A probe fails
\* for fifteen minutes before its container is killed, so a node that can boot
\* or join again and again does at some time.
FairSpec == /\ Spec
            /\ \A i \in Node : /\ WF_vars(Container(i)) /\ WF_vars(Cleanup(i))
                               /\ SF_vars(Joins(i)) /\ SF_vars(Boots(i))
----------------------------------------------------------------------------
\* started_at_least_once is what switches the probes from waiting for the
\* cluster to looking at the node alone, and what makes the hook spare the
\* volume.  It is only on a volume whose node has been in a cluster of as many
\* nodes as its ordinal asks for (host path: in one with node 0), whatever was
\* cleaned, purged or killed before; but for an end that interrupts rm, and a
\* probe that comes to its touch after the hook.
MarkerEarned ==
    \A i \in marker \ cut :
        at[i] = "wipe marker" \/ IF layout = "storageclass"
                                 THEN Cardinality(data[i]) >= Need(i)
                                 ELSE {0, i} \subseteq data[i]

\* clean_rabbitmq_pvs deletes the data of the previous installation
\* (docs/public/installation.md:687): once the operator has been through all
\* pods, no pod comes up again with the volume it had, unless its end has
\* interrupted rm there; what is left of the old data has been copied from a
\* pod that was not yet stopped.
CleanupDeletes ==
    clean.next = N => \A i \in Node : at[i] = "up" => i \notin old.kept \ cut

\* A cluster forms, and comes together again after deletions, kills and
\* cleanups, unless a marker is there that was not earned (two such nodes stay
\* two clusters), or a node keeps being refused by a cluster that does not know
\* it and is not purged: one with the marker, or of a host-path cluster.
Formed   == \A i \in Node : at[i] = "up" /\ Agreed(i) /\ data[i] = Node
Expelled == \E i \in Node : /\ layout = "hostpath" \/ i \in marker
                           /\ data[i] # {} /\ ~Agreed(i)
ClusterForms == <>[](clean.next = N /\ cut = {}) => <>[]Formed \/ []<>Expelled
=============================================================================
