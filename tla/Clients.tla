------------------------------ MODULE Clients ------------------------------
(***************************************************************************)
(* The programs that ask the broker's management API, each next to the     *)
(* changes of the broker: Telegraf's scripts (Metrics), the backup         *)
(* daemon's (BackupScripts), and the operator's timers (Monitors).  They   *)
(* share nothing but the broker, and none of them reads what another one   *)
(* writes there, so a behaviour follows one of them at a time, and the     *)
(* parts of the broker it does not look at stay as they are.               *)
(***************************************************************************)
EXTENDS Metrics, BackupScripts, Monitors

VARIABLE program

Scripts  == {"prometheus", "influx", "version"}
Programs == Scripts \cup {"backup", "shovels", "cluster"}

others == <<metrics, backup, monitors, program>>
vars   == <<broker, faults, others>>

Init ==
    /\ program \in Programs /\ BrokerInit
    /\ MetricsInit(IF program \in Scripts THEN program ELSE "version")
    /\ BackupInit /\ MonitorsInit
    /\ program # "backup" => definition = [v \in VHost |-> {}] /\ job = Started("get", <<All>>)
    /\ program # "prometheus" => item = [i \in Item |-> CHOOSE n \in Node : TRUE]

\* What the properties of a program are to know of the broker's past.
Recorded ==
    /\ seen' = IF script.phase = "gather" THEN seen \cup {View'} ELSE seen
    /\ had' = IF job.pc \in {"get", "write"} THEN had \cup {definition'} ELSE had
    /\ touched' = touched \cup {v \in VHost : definition'[v] # definition[v]}
    /\ UNCHANGED <<script, task, folder, job, created, before, monitors, program>>

NodesChange ==
    /\ program # "backup"
    /\ \E n \in Node : NodeStops(n) \/ NodeStarts(n) \/ NodeLeaves(n)
    /\ Recorded

ItemsMove     == program = "prometheus" /\ (\E i \in Item : ItemMoves(i)) /\ Recorded
ShovelsChange == program = "shovels" /\ (\E s \in Shovel : ShovelChanges(s)) /\ Recorded
StatsChange   == program = "influx" /\ (\E l \in Singles \cap Statistics : StatisticsChange(l)) /\ Recorded
UsersChange   == program = "backup" /\ (\E v \in VHost : UserChanges(v)) /\ Recorded

Scrape  == program \in Scripts /\ MetricsStep /\ UNCHANGED <<broker, backup, monitors, program>>
Backup  == program = "backup" /\ BackupStep /\ UNCHANGED <<metrics, monitors, program>>
Shovels == program = "shovels" /\ ShovelRun /\ UNCHANGED <<metrics, backup, program>>
Ticks   == \/ program = "shovels" /\ ShovelTick /\ UNCHANGED <<metrics, backup, program>>
           \/ program = "cluster" /\ ClusterTick /\ UNCHANGED <<metrics, backup, program>>

Next == \/ NodesChange \/ ItemsMove \/ ShovelsChange \/ StatsChange \/ UsersChange
        \/ Scrape \/ Backup \/ Shovels \/ Ticks

Spec == Init /\ [][Next]_vars

TypeOK ==
    /\ BrokerTypeOK /\ program \in Programs
    /\ script.phase \in {"connect", "gather", "printed", "failed"}
    /\ \A t \in DOMAIN task : task[t].raised \in 0..(Retries + 1)
    /\ seen \subseteq Views
    /\ folder \in [Entry -> {None, Torn} \cup Contents] /\ touched \subseteq VHost
    /\ job.pc \in {"get", "write", "exited", "read", "put", "post", "returned"}
    /\ mon.pc \in {"idle", "list", "validate", "check", "pods", "disable", "enable"}
    /\ mon.failed \in 0..(Attempts - 1) /\ turn.done \subseteq Node
    /\ {since, outage, ticks} \subseteq 0..MaxTicks
=============================================================================
