------------------------------ MODULE Monitors ------------------------------
(***************************************************************************)
(* The operator's timers that watch the broker: shovel_monitoring, which   *)
(* restarts the shovel plugin of every pod when too few shovels work, and  *)
(* cluster_monitoring, which is meant to restart a cluster that is down.   *)
(***************************************************************************)
EXTENDS Broker, SequencesExt

CONSTANTS
    Attempts,   \* of the restart of one pod's plugin
    Threshold,  \* CLUSTER_RESTART_THRESHOLD, in ticks of the timer
    MaxTicks    \* bound on the timers' ticks

ASSUME MonitorsAssumption ==
    /\ Attempts \in Nat \ {0} /\ Threshold \in Nat /\ MaxTicks \in Nat

VARIABLES
    mon,       \* shovel_monitoring: its place, whether it has restarted the
               \* plugins, the listed shovels, those listed as running and
               \* those to validate, the pods left, the failed attempts
    turn,      \* for the properties: a shovel did not work when this run asked,
               \* the plugins off before it, the pods it has restarted
    since,     \* CLUSTER_DOWN_SINCE
    outage,    \* for the properties: failed checks of the cluster in a row
    rebooted, ticks

monitors == <<mon, turn, since, outage, rebooted, ticks>>

Off  == {n \in Node : ~plugin[n]}
Idle == [pc |-> "idle", again |-> FALSE, listed |-> {}, alive |-> {}, left |-> {},
         pods |-> <<>>, failed |-> 0]

MonitorsInit ==
    /\ mon = Idle /\ turn = [cause |-> FALSE, off |-> {}, done |-> {}]
    /\ since = 0 /\ outage = 0 /\ rebooted = FALSE /\ ticks = 0

Still == UNCHANGED <<member, item, shovel, definition, scant, changes, since, outage, rebooted>>
----------------------------------------------------------------------------
\* shovel_monitoring; the second check only decides what is logged.
ShovelTick ==
    /\ mon.pc = "idle" /\ ticks < MaxTicks /\ ticks' = ticks + 1
    /\ mon' = [Idle EXCEPT !.pc = "list"]
    /\ turn' = [cause |-> FALSE, off |-> Off, done |-> {}]
    /\ UNCHANGED <<plugin, faults>> /\ Still

Judged(ok) == mon' = [mon EXCEPT !.pc = IF ok \/ mon.again THEN "idle" ELSE "check"]

\* The API of a pod without the plugin has no shovels.
NoShovelAPI == Running = {} \/ \E n \in Running : ~plugin[n]
ShovelAPI   == \E n \in Running : plugin[n]

NoneIsDead ==          \* a mutant: no shovels count as dead ones
    /\ mon.pc = "list" /\ Judged(FALSE)
    /\ Faulty \/ (NoFault /\ NoShovelAPI)
    /\ UNCHANGED <<plugin, turn, ticks>> /\ Still

\* shovel_list: [] also for any failure, and for an entry with other fields;
\* is_shovel_alive: no shovels are fine.
ListsNoShovel ==
    /\ mon.pc = "list" /\ Judged(TRUE)
    /\ \/ Faulty
       \/ NoFault /\ (NoShovelAPI \/ (\A s \in Shovel : shovel[s] = "none")
                      \/ (\E s \in Shovel : shovel[s] = "vague"))
    /\ UNCHANGED <<plugin, turn, ticks>> /\ Still

ListsShovels ==
    LET listed == {s \in Shovel : shovel[s] # "none"}
        alive  == {s \in listed : shovel[s] # "terminated"}
    IN  /\ mon.pc = "list" /\ ShovelAPI /\ listed # {} /\ NoFault
        /\ \A s \in listed : shovel[s] # "vague"
        /\ mon' = [mon EXCEPT !.pc = "validate", !.listed = listed,
                              !.alive = alive, !.left = listed]
        /\ turn' = [turn EXCEPT !.cause = @ \/ alive # listed]
        /\ UNCHANGED <<plugin, ticks>> /\ Still

Validates(s) ==
    /\ mon.pc = "validate" /\ s \in mon.left /\ NoFault
    /\ ShovelAPI /\ shovel[s] \notin {"lost", "none"}
    /\ mon' = [mon EXCEPT !.left = @ \ {s}]
    /\ UNCHANGED <<plugin, turn, ticks>> /\ Still

\* validate_shovel: an error or another status than 200 ends the check.
Invalid(s) ==
    /\ mon.pc = "validate" /\ s \in mon.left /\ Judged(FALSE)
    /\ Faulty \/ (NoFault /\ (NoShovelAPI \/ shovel[s] \in {"lost", "none"}))
    /\ turn' = [turn EXCEPT !.cause = TRUE]
    /\ UNCHANGED <<plugin, ticks>> /\ Still

\* alive_percentage is 0.8.
AllValid ==
    /\ mon.pc = "validate" /\ mon.left = {}
    /\ Judged(10 * Cardinality(mon.alive) >= 8 * Cardinality(mon.listed))
    /\ UNCHANGED <<plugin, turn, ticks, faults>> /\ Still
----------------------------------------------------------------------------
\* nodes_restart_shovel_plugin.  A pod that is being recreated is not listed.
PodsReady ==
    /\ mon.pc = "check" /\ mon' = [mon EXCEPT !.pc = "pods"]
    /\ UNCHANGED <<plugin, turn, ticks, faults>> /\ Still

GivesUp == mon' = [mon EXCEPT !.pc = "idle"]

PodsNotReady ==
    /\ mon.pc = "check" /\ (\E n \in Node : member[n] \in {"stale", "bare"}) /\ GivesUp
    /\ UNCHANGED <<plugin, turn, ticks, faults>> /\ Still

\* The list has no order one could rely on.
ListsPods ==
    /\ mon.pc = "pods"
    /\ \E down \in SUBSET {n \in Node : member[n] \in {"stale", "bare"}} :
          \E pods \in SetToSeqs(Running \cup down) :
             mon' = [mon EXCEPT !.pc = "disable", !.pods = pods]
    /\ UNCHANGED <<plugin, turn, ticks, faults>> /\ Still

At(pc, p) == mon.pc = pc /\ mon.pods # <<>> /\ p = Head(mon.pods)

\* Mutants: the attempts are not counted; one more than there are; the next
\* pod after the last one.
Forever  == mon' = [mon EXCEPT !.pc = "disable"]
OneMore  == IF mon.failed < Attempts
            THEN mon' = [mon EXCEPT !.pc = "disable", !.failed = @ + 1] ELSE GivesUp
NextPod  == mon' = [mon EXCEPT !.pc = "disable", !.pods = Tail(@), !.failed = 0]

\* A RuntimeError is followed by another attempt, up to the last one.
Again == IF mon.failed < Attempts - 1
         THEN mon' = [mon EXCEPT !.pc = "disable", !.failed = @ + 1] ELSE GivesUp

Disables(p) ==
    /\ At("disable", p) /\ p \in Running /\ plugin[p] /\ NoFault
    /\ plugin' = [plugin EXCEPT ![p] = FALSE]
    /\ mon' = [mon EXCEPT !.pc = "enable"]
    /\ UNCHANGED <<turn, ticks>> /\ Still

\* Only a plugin that has just been switched is recognised.
Unchecked(p) ==        \* a mutant: the answer to enabling is not looked at
    /\ At("enable", p) /\ Faulty
    /\ mon' = [mon EXCEPT !.pc = "disable", !.pods = Tail(@)]
    /\ turn' = [turn EXCEPT !.done = @ \cup {p}]
    /\ UNCHANGED <<plugin, ticks>> /\ Still
Misses(p) ==
    /\ \/ At("disable", p) /\ p \in Running /\ (Faulty \/ (NoFault /\ ~plugin[p]))
       \/ At("enable", p) /\ p \in Running /\ (Faulty \/ (NoFault /\ plugin[p]))
    /\ Again /\ UNCHANGED <<plugin, turn, ticks>> /\ Still

Enables(p) ==
    /\ At("enable", p) /\ p \in Running /\ ~plugin[p] /\ NoFault
    /\ plugin' = [plugin EXCEPT ![p] = TRUE]
    /\ mon' = [mon EXCEPT !.pc = "disable", !.pods = Tail(@), !.failed = 0]
    /\ turn' = [turn EXCEPT !.done = @ \cup {p}]
    /\ UNCHANGED ticks /\ Still

\* The exception of a command in a pod that is not there, or whose connection
\* is lost while it runs, is no RuntimeError.
ExecFails(p) ==
    /\ At("disable", p) \/ At("enable", p)
    /\ \/ p \notin Running /\ NoFault /\ UNCHANGED plugin
       \/ Faulty /\ plugin' \in {plugin, [plugin EXCEPT ![p] = (mon.pc = "enable")]}
    /\ GivesUp /\ UNCHANGED <<turn, ticks>> /\ Still

AllRestarted ==
    /\ mon.pc = "disable" /\ mon.pods = <<>>
    /\ mon' = [mon EXCEPT !.pc = "list", !.again = TRUE]
    /\ UNCHANGED <<plugin, turn, ticks, faults>> /\ Still

ShovelRun ==
    \/ ListsNoShovel \/ ListsShovels \/ AllValid \/ PodsReady \/ PodsNotReady \/ ListsPods \/ AllRestarted
    \/ \E s \in Shovel : Validates(s) \/ Invalid(s)
    \/ \E p \in Node : Disables(p) \/ Misses(p) \/ Enables(p) \/ ExecFails(p)
----------------------------------------------------------------------------
\* check_cluster_state polls is_cluster_alive; it returns nothing or raises.
CheckClusterState == IF Cardinality(Running) = Replicas THEN "none" ELSE "raised"

\* cluster_monitoring, with the time in ticks.
ClusterTick ==
    LET now == ticks + 1  status == CheckClusterState
    IN  /\ ticks < MaxTicks /\ ticks' = now
        /\ since' = CASE status = "raised" -> since
                      [] status = "error"  -> IF since = 0 THEN now ELSE since
                      [] OTHER             -> 0
        /\ rebooted' = (rebooted \/ (status = "error" /\ now - since' >= Threshold))
        /\ outage' = IF status = "none" THEN 0 ELSE outage + 1
        /\ UNCHANGED <<mon, turn, broker, faults>>
----------------------------------------------------------------------------
\* A run of shovel_monitoring has the plugin of at most one pod off that was
\* on before: when a plugin cannot be enabled again, or its command is lost,
\* the run ends before it comes to the next pod.
OneAtATime == Cardinality(Off \ turn.off) <= 1

\* A pod the run has gone past has its plugin back, whatever failed before.
RestartedIsOn == turn.done \cap Off = {}

\* Plugins are only restarted after a shovel that was listed but not running,
\* or whose details were refused: never because there are no shovels, or the
\* list could not be had.
RestartHasCause == mon.pc \in {"check", "pods", "disable", "enable"} => turn.cause

\* Every step of a run brings it nearer to its end: the pods that are left,
\* the attempts of the pod at work and the shovels to validate are counted
\* down, and a restart of the plugins leads to no other one.
StepsLeft ==
    LET check  == Cardinality(Shovel) + 3       \* all pods are restarted
        before == check + 2 * Attempts * Cardinality(Node) + 1
    IN  CASE mon.pc = "idle"     -> 0
          [] mon.pc = "list"     -> Cardinality(Shovel) + IF mon.again THEN 2 ELSE before + 3
          [] mon.pc = "validate" -> Cardinality(mon.left) + IF mon.again THEN 1 ELSE before + 2
          [] mon.pc = "check"    -> before + 1
          [] mon.pc = "pods"     -> before
          [] OTHER -> check + 2 * Attempts * Len(mon.pods) - 2 * mon.failed
                      - IF mon.pc = "enable" THEN 1 ELSE 0

RunsShrink ==
    [][ShovelRun => StepsLeft' \in Nat /\ StepsLeft' < StepsLeft]_<<broker, faults, monitors>>

\* A cluster that fails its checks for longer than the threshold is restarted
\* (docs/public/installation.md:607-608, clusterRestartThreshold).
OutageEndsInRestart == outage > Threshold => rebooted
=============================================================================
