--------------------------- MODULE MonitorsProofs ---------------------------
(***************************************************************************)
(* What shovel_monitoring promises, and that it comes to its end, for any  *)
(* number of nodes, shovels, attempts and faults; and, from the invariants *)
(* of all the programs, that the state of Clients has its type.            *)
(***************************************************************************)
EXTENDS MetricsProofs, BackupProofs

\* The variables of a run are records, and plugin a function.
MonShape ==
    /\ plugin \in [Node -> BOOLEAN]
    /\ mon = [pc |-> mon.pc, again |-> mon.again, listed |-> mon.listed, alive |-> mon.alive,
              left |-> mon.left, pods |-> mon.pods, failed |-> mon.failed]
    /\ turn = [cause |-> turn.cause, off |-> turn.off, done |-> turn.done]
    /\ turn.cause \in BOOLEAN

\* The plugins a run has turned off: none before it comes to the pods, at
\* most that of the pod at work after that; when it ends, it may leave one.
Gone == Off \ turn.off

PluginInv ==
    /\ mon.pc \in {"list", "validate", "check", "pods"} => Gone = {}
    /\ mon.pc \in {"disable", "enable"} =>
          Gone \subseteq IF mon.pods = <<>> THEN {} ELSE {Head(mon.pods)}
    /\ \A p, q \in Gone : p = q

\* A run that goes on to the pods has seen a shovel that does not work.
CauseInv ==
    /\ mon.pc \in {"check", "pods", "disable", "enable"} => turn.cause
    /\ mon.pc = "validate" => mon.listed \subseteq Shovel /\ (mon.alive # mon.listed => turn.cause)

MonInv == MonShape /\ PluginInv /\ CauseInv

LEMMA MonInit == Init => MonInv
<1> SUFFICES ASSUME Init PROVE MonInv OBVIOUS
<1>1. plugin = [n \in Node |-> TRUE] /\ mon = Idle /\ turn = [cause |-> FALSE, off |-> {}, done |-> {}]
  BY DEF Init, BrokerInit, MonitorsInit
<1>2. Gone = {} BY <1>1 DEF Gone, Off
<1>3. mon.pc = "idle" BY <1>1 DEF Idle
<1>4. MonShape BY <1>1 DEF MonShape, Idle
<1> QED BY <1>2, <1>3, <1>4 DEF MonInv, PluginInv, CauseInv

\* Steps of others turn no plugin off.
LEMMA MonOthers ==
    ASSUME MonInv, UNCHANGED <<mon, turn>>, plugin' \in [Node -> BOOLEAN],
           \A n \in Node : plugin[n] => plugin'[n]
    PROVE  MonInv'
<1>1. Gone' \subseteq Gone BY DEF Gone, Off
<1> QED BY <1>1 DEF MonInv, MonShape, PluginInv, CauseInv

\* What the steps of a run without plugins do.
LEMMA CheckStep ==
    ASSUME MonInv, UNCHANGED plugin,
           \/ ListsNoShovel \/ ListsShovels \/ AllValid \/ PodsReady \/ PodsNotReady
           \/ ListsPods \/ AllRestarted \/ \E s \in Shovel : Validates(s) \/ Invalid(s)
    PROVE  MonInv'
<1> USE DEF MonInv, MonShape
<1>1. CASE ListsNoShovel
  <2>1. mon' = [mon EXCEPT !.pc = "idle"] /\ turn' = turn BY <1>1 DEF ListsNoShovel, Judged
  <2> QED BY <2>1 DEF PluginInv, CauseInv, Gone, Off
<1>2. CASE ListsShovels
  <2> DEFINE listed == {s \in Shovel : shovel[s] # "none"}
             alive  == {s \in listed : shovel[s] # "terminated"}
  <2>1. /\ mon.pc = "list"
        /\ mon' = [mon EXCEPT !.pc = "validate", !.listed = listed, !.alive = alive, !.left = listed]
        /\ turn' = [turn EXCEPT !.cause = @ \/ alive # listed]
    BY <1>2 DEF ListsShovels
  <2>2. listed \subseteq Shovel OBVIOUS
  <2> HIDE DEF listed, alive
  <2>3. mon'.pc = "validate" /\ mon'.listed = listed /\ mon'.alive = alive BY <2>1
  <2>4. turn'.off = turn.off /\ (alive # listed => turn'.cause) /\ turn'.cause \in BOOLEAN BY <2>1
  <2>5. Gone' = {} BY <2>1, <2>4 DEF PluginInv, Gone, Off
  <2>6. MonShape' BY <2>1, <2>4
  <2> QED BY <2>2, <2>3, <2>4, <2>5, <2>6 DEF PluginInv, CauseInv
<1>3. CASE AllValid
  <2>1. mon.pc = "validate" /\ turn' = turn BY <1>3 DEF AllValid
  <2>2. CASE mon.alive = mon.listed
    <3>1. Cardinality(mon.listed) \in Nat
      BY <2>1, BrokerAssumption, FS_Subset, FS_CardinalityType DEF CauseInv
    <3>2. 10 * Cardinality(mon.alive) >= 8 * Cardinality(mon.listed) BY <2>2, <3>1
    <3>3. mon' = [mon EXCEPT !.pc = "idle"] BY <1>3, <3>2 DEF AllValid, Judged
    <3> QED BY <2>1, <3>3 DEF PluginInv, CauseInv, Gone, Off
  <2>3. CASE mon.alive # mon.listed
    <3>1. turn.cause BY <2>1, <2>3 DEF CauseInv
    <3>2. PICK pc \in {"idle", "check"} : mon' = [mon EXCEPT !.pc = pc] BY <1>3 DEF AllValid, Judged
    <3> QED BY <2>1, <3>1, <3>2 DEF PluginInv, CauseInv, Gone, Off
  <2> QED BY <2>2, <2>3
<1>4. CASE PodsReady \/ PodsNotReady
  <2>1. mon.pc = "check" /\ turn' = turn BY <1>4 DEF PodsReady, PodsNotReady
  <2>2. PICK pc \in {"idle", "pods"} : mon' = [mon EXCEPT !.pc = pc]
    BY <1>4 DEF PodsReady, PodsNotReady, GivesUp
  <2> QED BY <2>1, <2>2 DEF PluginInv, CauseInv, Gone, Off
<1>5. CASE ListsPods
  <2>1. mon.pc = "pods" /\ turn' = turn BY <1>5 DEF ListsPods
  <2>2. PICK pods : mon' = [mon EXCEPT !.pc = "disable", !.pods = pods] BY <1>5 DEF ListsPods
  <2>3. Gone' = {} /\ mon'.pc = "disable" BY <2>1, <2>2 DEF PluginInv, Gone, Off
  <2> QED BY <2>1, <2>2, <2>3 DEF PluginInv, CauseInv
<1>6. CASE AllRestarted
  <2>1. mon.pc = "disable" /\ mon.pods = <<>> /\ turn' = turn BY <1>6 DEF AllRestarted
  <2>2. mon' = [mon EXCEPT !.pc = "list", !.again = TRUE] BY <1>6 DEF AllRestarted
  <2>3. Gone' = {} BY <2>1 DEF PluginInv, Gone, Off
  <2> QED BY <2>1, <2>2, <2>3 DEF PluginInv, CauseInv
<1>7. ASSUME NEW s \in Shovel, Validates(s) PROVE MonInv'
  <2>1. turn' = turn /\ mon' = [mon EXCEPT !.left = @ \ {s}] BY <1>7 DEF Validates
  <2> QED BY <2>1 DEF PluginInv, CauseInv, Gone, Off
<1>8. ASSUME NEW s \in Shovel, Invalid(s) PROVE MonInv'
  <2>1. mon.pc = "validate" /\ turn' = [turn EXCEPT !.cause = TRUE] BY <1>8 DEF Invalid
  <2>2. PICK pc \in {"idle", "check"} : mon' = [mon EXCEPT !.pc = pc] BY <1>8 DEF Invalid, Judged
  <2>3. turn'.cause /\ turn'.off = turn.off BY <2>1
  <2> QED BY <2>1, <2>2, <2>3 DEF PluginInv, CauseInv, Gone, Off
<1> QED BY <1>1, <1>2, <1>3, <1>4, <1>5, <1>6, <1>7, <1>8

\* Another attempt, or the end of the run, with at most p's plugin off.
LEMMA AgainKeeps ==
    ASSUME MonInv, NEW p \in Node, At("disable", p) \/ At("enable", p), Again \/ GivesUp, turn' = turn,
           plugin' \in [Node -> BOOLEAN], \A n \in Node \ {p} : plugin'[n] = plugin[n]
    PROVE  MonInv'
<1>1. Gone \subseteq {p} BY DEF MonInv, PluginInv, At
<1>2. Gone' \subseteq {p} BY <1>1 DEF Gone, Off
<1>3. mon'.pc \in {"disable", "idle"} /\ mon'.pods = mon.pods /\ MonShape'
  BY DEF MonInv, MonShape, Again, GivesUp
<1>4. turn.cause BY DEF MonInv, CauseInv, At
<1> QED BY <1>2, <1>3, <1>4 DEF MonInv, PluginInv, CauseInv, At

LEMMA PluginStep ==
    ASSUME MonInv, NEW p \in Node, Disables(p) \/ Misses(p) \/ Enables(p) \/ ExecFails(p)
    PROVE  MonInv'
<1>1. CASE Disables(p)
  <2>1. /\ At("disable", p) /\ turn' = turn /\ mon' = [mon EXCEPT !.pc = "enable"]
        /\ plugin' = [plugin EXCEPT ![p] = FALSE]
    BY <1>1 DEF Disables
  <2>2. Gone \subseteq {p} BY <2>1 DEF MonInv, PluginInv, At
  <2>3. plugin' \in [Node -> BOOLEAN] /\ Gone' \subseteq {p} BY <2>1, <2>2 DEF Gone, Off, MonInv, MonShape
  <2>4. mon'.pc = "enable" /\ mon'.pods = mon.pods /\ MonShape' BY <2>1, <2>3 DEF MonInv, MonShape
  <2>5. turn.cause BY <2>1 DEF MonInv, CauseInv, At
  <2> QED BY <2>1, <2>3, <2>4, <2>5 DEF MonInv, PluginInv, CauseInv, At
<1>2. CASE Misses(p)
  <2>1. At("disable", p) \/ At("enable", p) BY <1>2 DEF Misses
  <2>2. Again /\ UNCHANGED <<plugin, turn>> BY <1>2 DEF Misses
  <2> QED BY <2>1, <2>2, AgainKeeps DEF MonInv, MonShape
<1>3. CASE Enables(p)
  <2>1. /\ At("enable", p) /\ turn' = [turn EXCEPT !.done = @ \cup {p}]
        /\ mon' = [mon EXCEPT !.pc = "disable", !.pods = Tail(@), !.failed = 0]
        /\ plugin' = [plugin EXCEPT ![p] = TRUE]
    BY <1>3 DEF Enables
  <2>2. Gone \subseteq {p} BY <2>1 DEF MonInv, PluginInv, At
  <2>3. turn'.off = turn.off /\ turn'.cause = turn.cause BY <2>1 DEF MonInv, MonShape
  <2>4. plugin' \in [Node -> BOOLEAN] /\ Gone' = {} BY <2>1, <2>2, <2>3 DEF Gone, Off, MonInv, MonShape
  <2>5. mon'.pc = "disable" /\ MonShape' BY <2>1, <2>4 DEF MonInv, MonShape
  <2>6. turn'.cause BY <2>1, <2>3 DEF MonInv, CauseInv, At
  <2> QED BY <2>4, <2>5, <2>6 DEF MonInv, PluginInv, CauseInv
<1>4. CASE ExecFails(p)
  <2>1. (At("disable", p) \/ At("enable", p)) /\ GivesUp /\ turn' = turn BY <1>4 DEF ExecFails
  <2>2. plugin' \in {plugin, [plugin EXCEPT ![p] = (mon.pc = "enable")]} BY <1>4 DEF ExecFails
  <2>3. plugin' \in [Node -> BOOLEAN] /\ \A n \in Node \ {p} : plugin'[n] = plugin[n]
    BY <2>2 DEF MonInv, MonShape
  <2> QED BY <2>1, <2>3, AgainKeeps
<1> QED BY <1>1, <1>2, <1>3, <1>4

LEMMA MonStep == MonInv /\ [Next]_vars => MonInv'
<1> SUFFICES ASSUME MonInv, [Next]_vars PROVE MonInv' OBVIOUS
<1>0. plugin \in [Node -> BOOLEAN] BY DEF MonInv, MonShape
<1>1. CASE UNCHANGED vars BY <1>0, <1>1, MonOthers DEF vars, others, broker, monitors
<1>2. CASE NodesChange
  <2>1. UNCHANGED <<mon, turn>> BY <1>2 DEF NodesChange, Recorded, monitors
  <2>2. PICK n \in Node : NodeStops(n) \/ NodeStarts(n) \/ NodeLeaves(n) BY <1>2 DEF NodesChange
  <2>3. plugin' = plugin \/ plugin' = [plugin EXCEPT ![n] = TRUE]
    BY <2>2 DEF NodeStops, NodeStarts, NodeLeaves
  <2>4. plugin' \in [Node -> BOOLEAN] /\ \A m \in Node : plugin[m] => plugin'[m] BY <1>0, <2>3
  <2> QED BY <2>1, <2>4, MonOthers
<1>3. CASE ItemsMove \/ ShovelsChange \/ StatsChange \/ UsersChange
  <2>1. UNCHANGED <<mon, turn, plugin>>
    BY <1>3 DEF ItemsMove, ShovelsChange, StatsChange, UsersChange, ItemMoves, ShovelChanges,
                StatisticsChange, UserChanges, Recorded, monitors
  <2> QED BY <1>0, <2>1, MonOthers
<1>4. CASE Scrape \/ Backup
  <2>1. UNCHANGED <<mon, turn, plugin>> BY <1>4 DEF Scrape, Backup, BackupStep, broker, monitors
  <2> QED BY <1>0, <2>1, MonOthers
<1>5. CASE Shovels
  <2>1. ASSUME NEW p \in Node, Disables(p) \/ Misses(p) \/ Enables(p) \/ ExecFails(p) PROVE MonInv'
    BY <2>1, PluginStep
  <2>2. CASE \/ ListsNoShovel \/ ListsShovels \/ AllValid \/ PodsReady \/ PodsNotReady
             \/ ListsPods \/ AllRestarted \/ \E s \in Shovel : Validates(s) \/ Invalid(s)
    <3>1. UNCHANGED plugin
      BY <2>2 DEF ListsNoShovel, ListsShovels, AllValid, PodsReady, PodsNotReady, ListsPods,
                  AllRestarted, Validates, Invalid
    <3> QED BY <2>2, <3>1, CheckStep
  <2> QED BY <1>5, <2>1, <2>2 DEF Shovels, ShovelRun
<1>6. CASE Ticks
  <2>1. CASE ClusterTick
    <3>1. UNCHANGED <<mon, turn, plugin>> BY <2>1 DEF ClusterTick, broker
    <3> QED BY <1>0, <3>1, MonOthers
  <2>2. CASE ShovelTick
    <3>1. /\ mon' = [Idle EXCEPT !.pc = "list"] /\ UNCHANGED plugin
          /\ turn' = [cause |-> FALSE, off |-> Off, done |-> {}]
      BY <2>2 DEF ShovelTick
    <3>2. Gone' = {} /\ mon'.pc = "list" BY <3>1 DEF Gone, Off, Idle
    <3>3. MonShape' BY <1>0, <3>1 DEF MonShape, Idle
    <3> QED BY <3>2, <3>3 DEF MonInv, PluginInv, CauseInv
  <2> QED BY <1>6, <2>1, <2>2 DEF Ticks
<1> QED BY <1>1, <1>2, <1>3, <1>4, <1>5, <1>6 DEF Next

\* nodes_restart_shovel_plugin leaves at most one pod with its plugin off that
\* had it on before, wherever the run ends.
THEOREM OnePluginAtATime == Spec => []OneAtATime
<1>1. MonInv => OneAtATime
  <2> SUFFICES ASSUME MonInv PROVE Cardinality(Gone) <= 1 BY DEF OneAtATime, Gone
  <2>1. CASE Gone = {} BY <2>1, FS_EmptySet
  <2>2. CASE Gone # {}
    <3>1. PICK p \in Gone : TRUE BY <2>2
    <3>2. Gone = {p} BY <3>1 DEF MonInv, PluginInv
    <3> QED BY <3>2, FS_Singleton
  <2> QED BY <2>1, <2>2
<1> QED BY <1>1, MonInit, MonStep, PTL DEF Spec

\* shovel_monitoring restarts plugins only after it has seen a shovel that is
\* not running or whose details were refused.
THEOREM RestartsHaveCause == Spec => []RestartHasCause
<1>1. MonInv => RestartHasCause BY DEF MonInv, CauseInv, RestartHasCause
<1> QED BY <1>1, MonInit, MonStep, PTL DEF Spec
----------------------------------------------------------------------------
\* The pods a run still has to restart are each on its list once, and none of
\* them is one it has gone past; a run that has not come to the pods has gone
\* past none.
LeftInv(pods, done) ==
    /\ pods \in Seq(Node)
    /\ \A j, k \in DOMAIN pods : j # k => pods[j] # pods[k]
    /\ \A k \in DOMAIN pods : pods[k] \notin done

DoneInv ==
    /\ turn.done \cap Off = {}
    /\ mon.again \in BOOLEAN
    /\ mon.pc \in {"list", "validate"} => mon.again \/ turn.done = {}
    /\ mon.pc \in {"check", "pods"} => turn.done = {}
    /\ mon.pc \in {"disable", "enable"} => LeftInv(mon.pods, turn.done)

LEMMA DoneInit == Init => DoneInv
<1> SUFFICES ASSUME Init PROVE DoneInv OBVIOUS
<1>1. mon = Idle /\ turn = [cause |-> FALSE, off |-> {}, done |-> {}] BY DEF Init, MonitorsInit
<1> QED BY <1>1 DEF DoneInv, Idle

LEMMA DoneOthers ==
    ASSUME DoneInv, UNCHANGED <<mon, turn>>, \A n \in Node : plugin[n] => plugin'[n]
    PROVE  DoneInv'
<1>1. Off' \subseteq Off BY DEF Off
<1> QED BY <1>1 DEF DoneInv, LeftInv

LEMMA FirstLeft ==
    ASSUME NEW pods, NEW done, LeftInv(pods, done), pods # <<>>
    PROVE  Head(pods) \notin done /\ LeftInv(Tail(pods), done \cup {Head(pods)})
<1> USE DEF LeftInv
<1>1. Len(pods) \in Nat \ {0} /\ DOMAIN pods = 1..Len(pods) /\ Head(pods) = pods[1] OBVIOUS
<1>2. 1 \in DOMAIN pods BY <1>1
<1>3. Tail(pods) \in Seq(Node) /\ DOMAIN Tail(pods) = 1..(Len(pods) - 1) OBVIOUS
<1>4. \A k \in DOMAIN Tail(pods) : k + 1 \in DOMAIN pods /\ k + 1 # 1 /\ Tail(pods)[k] = pods[k + 1]
  BY <1>1, <1>3
<1>5. \A j, k \in DOMAIN Tail(pods) : j # k => j + 1 # k + 1 BY <1>1, <1>3
<1> QED BY <1>1, <1>2, <1>3, <1>4, <1>5

LEMMA OrderLeft ==
    ASSUME NEW S \in SUBSET Node, NEW pods \in SetToSeqs(S)
    PROVE  LeftInv(pods, {})
<1>1. Cardinality(S) \in Nat BY BrokerAssumption, FS_Subset, FS_CardinalityType
<1>2. pods \in [1..Cardinality(S) -> S] BY DEF SetToSeqs
<1>3. \A j, k \in 1..Cardinality(S) : j # k => pods[j] # pods[k] BY DEF SetToSeqs
<1>4. pods \in [1..Cardinality(S) -> Node] BY <1>2
<1>5. pods \in Seq(Node) BY <1>1, <1>4
<1> QED BY <1>2, <1>3, <1>5 DEF LeftInv

LEMMA DoneCheck ==
    ASSUME MonInv, DoneInv, UNCHANGED plugin,
           \/ ListsNoShovel \/ ListsShovels \/ AllValid \/ PodsReady \/ PodsNotReady
           \/ ListsPods \/ AllRestarted \/ \E s \in Shovel : Validates(s) \/ Invalid(s)
    PROVE  DoneInv'
<1> USE DEF MonInv, MonShape
<1>0. Off' = Off BY DEF Off
<1>1. ASSUME mon.pc \in {"list", "validate"}, NEW ok \in BOOLEAN, Judged(ok), turn'.done = turn.done
      PROVE  DoneInv'
  <2> DEFINE pc == IF ok \/ mon.again THEN "idle" ELSE "check"
  <2>1. mon' = [mon EXCEPT !.pc = pc] BY <1>1 DEF Judged
  <2>2. pc \in {"idle", "check"} /\ (pc = "check" => ~mon.again) OBVIOUS
  <2> HIDE DEF pc
  <2>3. mon'.pc = pc /\ mon'.again = mon.again BY <2>1
  <2> QED BY <1>0, <1>1, <2>2, <2>3 DEF DoneInv
<1>2. CASE ListsNoShovel BY <1>1, <1>2 DEF ListsNoShovel
<1>3. CASE ListsShovels
  <2>1. mon.pc = "list" BY <1>3 DEF ListsShovels
  <2>2. mon'.pc = "validate" /\ mon'.again = mon.again BY <1>3 DEF ListsShovels
  <2>3. turn'.done = turn.done BY <1>3 DEF ListsShovels
  <2> QED BY <1>0, <2>1, <2>2, <2>3 DEF DoneInv
<1>4. CASE AllValid
  <2> DEFINE ok == 10 * Cardinality(mon.alive) >= 8 * Cardinality(mon.listed)
  <2>1. mon.pc = "validate" /\ Judged(ok) /\ turn' = turn BY <1>4 DEF AllValid
  <2> HIDE DEF ok
  <2>2. mon' = [mon EXCEPT !.pc = IF ok \/ mon.again THEN "idle" ELSE "check"] BY <2>1 DEF Judged
  <2>3. mon'.pc \in {"idle", "check"} /\ (mon'.pc = "check" => ~mon.again) /\ mon'.again = mon.again
    BY <2>2
  <2> QED BY <1>0, <2>1, <2>3 DEF DoneInv
<1>5. CASE PodsReady \/ PodsNotReady
  <2>1. mon.pc = "check" /\ turn' = turn BY <1>5 DEF PodsReady, PodsNotReady
  <2>2. mon'.pc \in {"idle", "pods"} /\ mon'.again = mon.again
    BY <1>5 DEF PodsReady, PodsNotReady, GivesUp
  <2> QED BY <1>0, <2>1, <2>2 DEF DoneInv
<1>6. CASE ListsPods
  <2>1. mon.pc = "pods" /\ turn' = turn BY <1>6 DEF ListsPods
  <2>2. PICK S \in SUBSET Node : \E pods \in SetToSeqs(S) :
           mon' = [mon EXCEPT !.pc = "disable", !.pods = pods]
    BY <1>6 DEF ListsPods, Running
  <2>3. PICK pods \in SetToSeqs(S) : mon' = [mon EXCEPT !.pc = "disable", !.pods = pods]
    BY <2>2
  <2>4. mon'.pc = "disable" /\ mon'.pods = pods /\ mon'.again = mon.again BY <2>3
  <2>5. LeftInv(pods, {}) BY OrderLeft
  <2>6. turn.done = {} BY <2>1 DEF DoneInv
  <2> QED BY <1>0, <2>1, <2>4, <2>5, <2>6 DEF DoneInv
<1>7. CASE AllRestarted
  <2>1. turn' = turn /\ mon'.pc = "list" /\ mon'.again = TRUE BY <1>7 DEF AllRestarted
  <2> QED BY <1>0, <2>1 DEF DoneInv
<1>8. ASSUME NEW s \in Shovel, Validates(s) PROVE DoneInv'
  <2>1. turn' = turn /\ mon.pc = "validate" /\ mon'.pc = "validate" /\ mon'.again = mon.again
    BY <1>8 DEF Validates
  <2> QED BY <1>0, <2>1 DEF DoneInv
<1>9. ASSUME NEW s \in Shovel, Invalid(s) PROVE DoneInv'
  <2>1. mon.pc = "validate" /\ Judged(FALSE) /\ turn' = [turn EXCEPT !.cause = TRUE]
    BY <1>9 DEF Invalid
  <2>2. turn'.done = turn.done BY <2>1
  <2> QED BY <1>1, <2>1, <2>2
<1> QED BY <1>2, <1>3, <1>4, <1>5, <1>6, <1>7, <1>8, <1>9

LEMMA DonePlugin ==
    ASSUME MonInv, DoneInv, NEW p \in Node, Disables(p) \/ Misses(p) \/ Enables(p) \/ ExecFails(p)
    PROVE  DoneInv'
<1> USE DEF MonInv, MonShape
<1>1. At("disable", p) \/ At("enable", p) BY DEF Disables, Misses, Enables, ExecFails
<1>2. /\ LeftInv(mon.pods, turn.done) /\ p \notin turn.done
      /\ LeftInv(Tail(mon.pods), turn.done \cup {p})
  BY <1>1, FirstLeft DEF DoneInv, At
<1>3. ASSUME turn' = turn, mon'.pods = mon.pods, mon'.again = mon.again, mon'.pc \in {"idle", "disable", "enable"},
             \A n \in Node \ {p} : plugin'[n] = plugin[n]
      PROVE  DoneInv'
  <2>1. Off' \subseteq Off \cup {p} BY <1>3 DEF Off
  <2> QED BY <1>2, <1>3, <2>1 DEF DoneInv
<1>4. CASE Disables(p)
  <2>1. turn' = turn /\ mon' = [mon EXCEPT !.pc = "enable"] /\ plugin' = [plugin EXCEPT ![p] = FALSE]
    BY <1>4 DEF Disables
  <2> QED BY <1>3, <2>1
<1>5. CASE Misses(p)
  <2>1. Again /\ UNCHANGED <<plugin, turn>> BY <1>5 DEF Misses
  <2>2. mon'.pods = mon.pods /\ mon'.again = mon.again /\ mon'.pc \in {"idle", "disable", "enable"}
    BY <2>1 DEF Again, GivesUp
  <2> QED BY <1>3, <2>1, <2>2
<1>6. CASE Enables(p)
  <2>1. /\ turn' = [turn EXCEPT !.done = @ \cup {p}] /\ plugin' = [plugin EXCEPT ![p] = TRUE]
        /\ mon' = [mon EXCEPT !.pc = "disable", !.pods = Tail(@), !.failed = 0]
    BY <1>6 DEF Enables
  <2>2. turn'.done = turn.done \cup {p} BY <2>1
  <2>3. mon'.pc = "disable" /\ mon'.pods = Tail(mon.pods) /\ mon'.again = mon.again BY <2>1
  <2>4. Off' = Off \ {p} BY <2>1 DEF Off
  <2> QED BY <1>2, <2>2, <2>3, <2>4 DEF DoneInv
<1>7. CASE ExecFails(p)
  <2>1. GivesUp /\ turn' = turn /\ plugin' \in {plugin, [plugin EXCEPT ![p] = (mon.pc = "enable")]}
    BY <1>7 DEF ExecFails
  <2>2. \A n \in Node \ {p} : plugin'[n] = plugin[n] BY <2>1
  <2>3. mon'.pods = mon.pods /\ mon'.again = mon.again /\ mon'.pc = "idle" BY <2>1 DEF GivesUp
  <2> QED BY <1>3, <2>1, <2>2, <2>3
<1> QED BY <1>4, <1>5, <1>6, <1>7

LEMMA DoneStep == MonInv /\ DoneInv /\ [Next]_vars => DoneInv'
<1> SUFFICES ASSUME MonInv, DoneInv, [Next]_vars PROVE DoneInv' OBVIOUS
<1>0. plugin \in [Node -> BOOLEAN] BY DEF MonInv, MonShape
<1>1. CASE UNCHANGED vars BY <1>1, DoneOthers DEF vars, others, broker, monitors
<1>2. CASE NodesChange
  <2>1. UNCHANGED <<mon, turn>> BY <1>2 DEF NodesChange, Recorded, monitors
  <2>2. PICK n \in Node : NodeStops(n) \/ NodeStarts(n) \/ NodeLeaves(n) BY <1>2 DEF NodesChange
  <2>3. plugin' = plugin \/ plugin' = [plugin EXCEPT ![n] = TRUE]
    BY <2>2 DEF NodeStops, NodeStarts, NodeLeaves
  <2>4. \A m \in Node : plugin[m] => plugin'[m] BY <1>0, <2>3
  <2> QED BY <2>1, <2>4, DoneOthers
<1>3. CASE ItemsMove \/ ShovelsChange \/ StatsChange \/ UsersChange
  <2>1. UNCHANGED <<mon, turn, plugin>>
    BY <1>3 DEF ItemsMove, ShovelsChange, StatsChange, UsersChange, ItemMoves, ShovelChanges,
                StatisticsChange, UserChanges, Recorded, monitors
  <2> QED BY <2>1, DoneOthers
<1>4. CASE Scrape \/ Backup
  <2>1. UNCHANGED <<mon, turn, plugin>> BY <1>4 DEF Scrape, Backup, BackupStep, broker, monitors
  <2> QED BY <2>1, DoneOthers
<1>5. CASE Shovels
  <2>1. ASSUME NEW p \in Node, Disables(p) \/ Misses(p) \/ Enables(p) \/ ExecFails(p) PROVE DoneInv'
    BY <2>1, DonePlugin
  <2>2. CASE \/ ListsNoShovel \/ ListsShovels \/ AllValid \/ PodsReady \/ PodsNotReady
             \/ ListsPods \/ AllRestarted \/ \E s \in Shovel : Validates(s) \/ Invalid(s)
    <3>1. UNCHANGED plugin
      BY <2>2 DEF ListsNoShovel, ListsShovels, AllValid, PodsReady, PodsNotReady, ListsPods,
                  AllRestarted, Validates, Invalid
    <3> QED BY <2>2, <3>1, DoneCheck
  <2> QED BY <1>5, <2>1, <2>2 DEF Shovels, ShovelRun
<1>6. CASE Ticks
  <2>1. CASE ClusterTick
    <3>1. UNCHANGED <<mon, turn, plugin>> BY <2>1 DEF ClusterTick, broker
    <3> QED BY <3>1, DoneOthers
  <2>2. CASE ShovelTick
    <3>1. /\ mon' = [Idle EXCEPT !.pc = "list"]
          /\ turn' = [cause |-> FALSE, off |-> Off, done |-> {}]
      BY <2>2 DEF ShovelTick
    <3> QED BY <3>1 DEF DoneInv, Idle
  <2> QED BY <1>6, <2>1, <2>2 DEF Ticks
<1> QED BY <1>1, <1>2, <1>3, <1>4, <1>5, <1>6 DEF Next

\* A pod nodes_restart_shovel_plugin has gone past has its plugin on, whatever
\* failed before, restarted it or lost it.
THEOREM RestartedHasPlugin == Spec => []RestartedIsOn
<1>1. DoneInv => RestartedIsOn BY DEF DoneInv, RestartedIsOn
<1> QED BY <1>1, DoneInit, DoneStep, MonInit, MonStep, PTL DEF Spec
----------------------------------------------------------------------------
\* What is left of TypeOK: the places of the programs, and the counters.
ScriptPlace == program \in Programs /\ script.phase \in {"connect", "gather", "printed", "failed"}
JobPlace    == /\ job.pc \in {"get", "write", "exited", "read", "put", "post", "returned"}
               /\ touched \subseteq VHost
MonPlace    == /\ mon.pc \in {"idle", "list", "validate", "check", "pods", "disable", "enable"}
               /\ mon.failed \in 0..(Attempts - 1) /\ turn.done \subseteq Node
Counters    == /\ shovel \in [Shovel -> ShovelState]
               /\ changes \in 0..MaxChanges /\ faults \in 0..MaxFaults
               /\ ticks \in 0..MaxTicks /\ since \in 0..ticks /\ outage \in 0..ticks

Places == ScriptPlace /\ JobPlace /\ MonPlace /\ Counters
AllInv == MetricsInv /\ LossInv /\ BackupInv /\ MonInv /\ Places

LEMMA PlacesInit == Init => Places
<1> SUFFICES ASSUME Init PROVE Places OBVIOUS
<1> DEFINE name == IF program \in Scripts THEN program ELSE "version"
<1>1. program \in Programs /\ BrokerInit /\ BackupInit /\ MonitorsInit BY DEF Init
<1>2. MetricsInit(name) BY DEF Init
<1> HIDE DEF name
<1>3. ScriptPlace
  <2>1. script.phase \in {"connect", "gather"} BY <1>2 DEF MetricsInit
  <2> QED BY <1>1, <2>1 DEF ScriptPlace
<1>4. JobPlace
  <2>1. PICK l : job = Started("get", l) BY <1>1 DEF BackupInit
  <2>2. job.pc = "get" BY <2>1 DEF Started
  <2> QED BY <1>1, <2>2 DEF JobPlace, BackupInit
<1>5. MonPlace BY <1>1, MonitorsAssumption DEF MonPlace, MonitorsInit, Idle
<1>6. Counters BY <1>1, BrokerAssumption, MonitorsAssumption DEF Counters, BrokerInit, MonitorsInit, ShovelState
<1> QED BY <1>3, <1>4, <1>5, <1>6 DEF Places

LEMMA BrokerCounts ==
    ASSUME Places,
           NodesChange \/ ItemsMove \/ ShovelsChange \/ StatsChange \/ UsersChange
    PROVE  Places'
<1>1. /\ \/ \E n \in Node : NodeStops(n) \/ NodeStarts(n) \/ NodeLeaves(n)
         \/ \E i \in Item : ItemMoves(i)
         \/ \E s \in Shovel : ShovelChanges(s)
         \/ \E l \in Statistics : StatisticsChange(l)
         \/ \E v \in VHost : UserChanges(v)
      /\ Recorded
  BY DEF NodesChange, ItemsMove, ShovelsChange, StatsChange, UsersChange
<1>2. Changes /\ shovel' \in [Shovel -> ShovelState]
  BY <1>1 DEF NodeStops, NodeStarts, NodeLeaves, ItemMoves, ShovelChanges, StatisticsChange, UserChanges,
              Places, Counters
<1>3. /\ UNCHANGED <<script, job, mon, turn, ticks, since, outage, program>>
      /\ touched' = touched \cup {v \in VHost : definition'[v] # definition[v]}
  BY <1>1 DEF Recorded, monitors
<1>4. Counters' BY <1>2, <1>3, BrokerAssumption DEF Places, Counters, Changes
<1> QED BY <1>3, <1>4 DEF Places, ScriptPlace, JobPlace, MonPlace

\* A step of a program leaves the broker's counters alone, but for the failure
\* it may meet.
LEMMA CountersKeep ==
    ASSUME Counters, UNCHANGED <<shovel, changes, ticks, since, outage>>, NoFault \/ Faulty
    PROVE  Counters'
BY BrokerAssumption DEF Counters, NoFault, Faulty

LEMMA ScrapePlaces == ASSUME Places, MetricsInv, Scrape PROVE Places'
<1>1. UNCHANGED <<broker, backup, monitors, program>> /\ MetricsStep BY DEF Scrape
<1>2. NoFault \/ Faulty
  BY <1>1 DEF MetricsStep, Connects, Prints, Answered, Refused, Raises, NoFault
<1>3. Counters' BY <1>1, <1>2, CountersKeep DEF Places, broker, monitors
<1>4. script'.phase \in {script.phase, "gather", "failed", "printed"}
  BY <1>1 DEF MetricsStep, Connects, Prints, Answered, Refused, Raises, MetricsInv, ScriptInv
<1> QED BY <1>1, <1>3, <1>4 DEF Places, ScriptPlace, JobPlace, MonPlace, backup, monitors

LEMMA BackupPlaces == ASSUME Places, BackupInv, Backup PROVE Places'
<1> DEFINE PCs == {"get", "write", "exited", "read", "put", "post", "returned"}
           Goal == (NoFault \/ Faulty) /\ job'.pc \in PCs /\ touched' \in {touched, {}}
<1>1. UNCHANGED <<metrics, monitors, program>> /\ BackupStep BY DEF Backup
<1>2. UNCHANGED <<member, plugin, item, shovel, changes>> BY <1>1 DEF BackupStep
<1>3. job = [pc |-> job.pc, list |-> job.list, todo |-> job.todo, backup |-> job.backup,
             result |-> job.result]
  BY DEF BackupInv, Shape
<1>4. Goal
  <2>1. CASE BackupEnds BY <1>3, <2>1 DEF BackupEnds, Exits, Ends, NoFault
  <2>2. CASE RestoreEnds BY <1>3, <2>2 DEF RestoreEnds, Ends, NoFault
  <2>3. ASSUME NEW l \in Lists, RestoreBegins(l) PROVE Goal
    BY <2>3 DEF RestoreBegins, Started, NoFault
  <2>4. ASSUME NEW e \in Entry, Gets(e) \/ GetFails(e) PROVE Goal
    BY <1>3, <2>4 DEF Gets, GetFails, Exits, Ends, NoFault
  <2>5. ASSUME NEW e \in Entry, Writes(e) \/ WriteFails(e) PROVE Goal
    BY <1>3, <2>5 DEF Writes, WriteFails, Exits, Ends
  <2>6. ASSUME NEW e \in Entry, Reads(e) PROVE Goal
    <3> DEFINE b == IF Readable(e) THEN folder[e] ELSE job.backup
               pc == IF e = All THEN "post" ELSE "put"
    <3>1. job' = [job EXCEPT !.backup = b, !.pc = pc] /\ touched' = touched /\ NoFault
      BY <2>6 DEF Reads, NoFault
    <3>2. pc \in {"post", "put"} OBVIOUS
    <3> HIDE DEF b, pc
    <3> QED BY <1>3, <3>1, <3>2
  <2>7. ASSUME NEW e \in Entry, CreatesVHost(e) \/ Posts(e) PROVE Goal
    <3>1. (NoFault \/ Faulty) /\ touched' = touched BY <2>7 DEF CreatesVHost, Posts
    <3>2. job' = [job EXCEPT !.pc = "post"] \/ job' = [job EXCEPT !.pc = "read", !.todo = Tail(@)]
      BY <2>7 DEF CreatesVHost, Posts
    <3> QED BY <1>3, <3>1, <3>2
  <2>8. ASSUME NEW e \in Entry, RequestFails(e) PROVE Goal
    <3>1. (NoFault \/ Faulty) /\ touched' = touched /\ Ends("returned", 1) BY <2>8 DEF RequestFails
    <3> QED BY <1>3, <3>1 DEF Ends
  <2> HIDE DEF Goal
  <2> QED BY <1>1, <2>1, <2>2, <2>3, <2>4, <2>5, <2>6, <2>7, <2>8 DEF BackupStep
<1>5. Counters' BY <1>1, <1>2, <1>4, CountersKeep DEF Places, monitors
<1> QED BY <1>1, <1>4, <1>5 DEF Places, ScriptPlace, JobPlace, MonPlace, metrics, monitors

LEMMA ShovelPlaces == ASSUME Places, MonInv, Shovels PROVE Places'
<1> DEFINE PCs == {"idle", "list", "validate", "check", "pods", "disable", "enable"}
           Goal == /\ NoFault \/ Faulty
                   /\ UNCHANGED <<shovel, changes, ticks, since, outage>>
                   /\ mon'.pc \in PCs /\ mon'.failed \in 0..(Attempts - 1) /\ turn'.done \subseteq Node
<1> USE DEF MonInv, MonShape
<1>0. mon.pc \in PCs /\ mon.failed \in 0..(Attempts - 1) /\ turn.done \subseteq Node
  BY DEF Places, MonPlace
<1>1. UNCHANGED <<metrics, backup, program>> /\ ShovelRun BY DEF Shovels
<1>2. ASSUME NEW ok \in BOOLEAN, Judged(ok)
      PROVE  mon'.pc \in PCs /\ mon'.failed = mon.failed
  <2> DEFINE pc == IF ok \/ mon.again THEN "idle" ELSE "check"
  <2>1. mon' = [mon EXCEPT !.pc = pc] BY <1>2 DEF Judged
  <2>2. pc \in PCs OBVIOUS
  <2> HIDE DEF pc
  <2> QED BY <2>1, <2>2
<1>3. Goal
  <2>1. CASE ListsNoShovel BY <1>0, <1>2, <2>1 DEF ListsNoShovel, Still, NoFault
  <2>2. CASE ListsShovels
    <3>1. NoFault /\ Still /\ UNCHANGED ticks BY <2>2 DEF ListsShovels
    <3>2. mon'.pc = "validate" /\ mon'.failed = mon.failed BY <2>2 DEF ListsShovels
    <3>3. turn'.done = turn.done BY <2>2 DEF ListsShovels
    <3> QED BY <1>0, <3>1, <3>2, <3>3 DEF Still
  <2>3. CASE AllValid
    <3> DEFINE ok == 10 * Cardinality(mon.alive) >= 8 * Cardinality(mon.listed)
    <3>1. Judged(ok) /\ NoFault /\ Still /\ UNCHANGED <<turn, ticks>> BY <2>3 DEF AllValid, NoFault
    <3>2. ok \in BOOLEAN OBVIOUS
    <3> HIDE DEF ok
    <3> QED BY <1>0, <1>2, <3>1, <3>2 DEF Still
  <2>4. CASE PodsReady \/ PodsNotReady \/ AllRestarted
    <3>1. NoFault /\ Still /\ UNCHANGED <<turn, ticks>>
      BY <2>4 DEF PodsReady, PodsNotReady, AllRestarted, NoFault
    <3>2. mon'.pc \in {"pods", "idle", "list"} /\ mon'.failed = mon.failed
      BY <2>4 DEF PodsReady, PodsNotReady, AllRestarted, GivesUp
    <3> QED BY <1>0, <3>1, <3>2 DEF Still
  <2>5. CASE ListsPods
    <3>1. NoFault /\ Still /\ UNCHANGED <<turn, ticks>> BY <2>5 DEF ListsPods, NoFault
    <3>2. PICK pods : mon' = [mon EXCEPT !.pc = "disable", !.pods = pods] BY <2>5 DEF ListsPods
    <3> QED BY <1>0, <3>1, <3>2 DEF Still
  <2>6. ASSUME NEW s \in Shovel, Validates(s) PROVE Goal
    <3>1. NoFault /\ Still /\ UNCHANGED <<turn, ticks>> /\ mon.pc = "validate"
      BY <2>6 DEF Validates
    <3>2. mon' = [mon EXCEPT !.left = @ \ {s}] BY <2>6 DEF Validates
    <3> QED BY <1>0, <3>1, <3>2 DEF Still
  <2>7. ASSUME NEW s \in Shovel, Invalid(s) PROVE Goal
    <3>1. /\ NoFault \/ Faulty
          /\ Still /\ UNCHANGED ticks /\ Judged(FALSE) /\ turn' = [turn EXCEPT !.cause = TRUE]
      BY <2>7 DEF Invalid
    <3>2. turn'.done = turn.done BY <3>1
    <3> QED BY <1>0, <1>2, <3>1, <3>2 DEF Still
  <2>8. ASSUME NEW p \in Node, Disables(p) PROVE Goal
    <3>1. NoFault /\ Still /\ UNCHANGED <<turn, ticks>> /\ mon' = [mon EXCEPT !.pc = "enable"]
      BY <2>8 DEF Disables
    <3> QED BY <1>0, <3>1 DEF Still
  <2>9. ASSUME NEW p \in Node, Misses(p) PROVE Goal
    <3>1. (NoFault \/ Faulty) /\ Still /\ UNCHANGED <<turn, ticks>> /\ Again BY <2>9 DEF Misses
    <3>2. CASE mon.failed < Attempts - 1
      <4>1. mon' = [mon EXCEPT !.pc = "disable", !.failed = @ + 1] BY <3>1, <3>2 DEF Again
      <4>2. mon'.pc = "disable" /\ mon'.failed = mon.failed + 1 BY <4>1
      <4> QED BY <1>0, <3>1, <3>2, <4>2, MonitorsAssumption DEF Still
    <3>3. CASE ~(mon.failed < Attempts - 1)
      <4>1. mon' = [mon EXCEPT !.pc = "idle"] BY <3>1, <3>3 DEF Again, GivesUp
      <4> QED BY <1>0, <3>1, <4>1 DEF Still
    <3> QED BY <3>2, <3>3
  <2>10. ASSUME NEW p \in Node, Enables(p) PROVE Goal
    <3>1. /\ NoFault /\ Still /\ UNCHANGED ticks /\ turn' = [turn EXCEPT !.done = @ \cup {p}]
          /\ mon' = [mon EXCEPT !.pc = "disable", !.pods = Tail(@), !.failed = 0]
      BY <2>10 DEF Enables
    <3>2. mon'.pc = "disable" /\ mon'.failed = 0 /\ turn'.done = turn.done \cup {p} BY <3>1
    <3> QED BY <1>0, <3>1, <3>2, MonitorsAssumption DEF Still
  <2>11. ASSUME NEW p \in Node, ExecFails(p) PROVE Goal
    <3>1. (NoFault \/ Faulty) /\ Still /\ UNCHANGED <<turn, ticks>> /\ mon' = [mon EXCEPT !.pc = "idle"]
      BY <2>11 DEF ExecFails, GivesUp
    <3> QED BY <1>0, <3>1 DEF Still
  <2> HIDE DEF Goal
  <2> QED BY <1>1, <2>1, <2>2, <2>3, <2>4, <2>5, <2>6, <2>7, <2>8, <2>9, <2>10, <2>11 DEF ShovelRun
<1>4. Counters' BY <1>3, CountersKeep DEF Places
<1> QED BY <1>1, <1>3, <1>4 DEF Places, ScriptPlace, JobPlace, MonPlace, metrics, backup

LEMMA TickPlaces == ASSUME Places, Ticks PROVE Places'
<1>1. UNCHANGED <<metrics, backup, program>> BY DEF Ticks
<1>2. CASE ShovelTick
  <2>1. /\ mon' = [Idle EXCEPT !.pc = "list"] /\ turn' = [cause |-> FALSE, off |-> Off, done |-> {}]
        /\ ticks < MaxTicks /\ ticks' = ticks + 1 /\ UNCHANGED <<shovel, changes, faults, since, outage>>
    BY <1>2 DEF ShovelTick, Still
  <2>2. MonPlace' BY <2>1, MonitorsAssumption DEF MonPlace, Idle
  <2>3. Counters' BY <2>1, MonitorsAssumption DEF Places, Counters
  <2> QED BY <1>1, <2>2, <2>3 DEF Places, ScriptPlace, JobPlace, metrics, backup
<1>3. CASE ClusterTick
  <2>1. /\ ticks < MaxTicks /\ ticks' = ticks + 1 /\ since' \in {since, ticks + 1, 0}
        /\ outage' \in {0, outage + 1} /\ UNCHANGED <<mon, turn, broker, faults>>
    BY <1>3 DEF ClusterTick
  <2>2. Counters' BY <2>1, MonitorsAssumption DEF Places, Counters, broker
  <2> QED BY <1>1, <2>1, <2>2 DEF Places, ScriptPlace, JobPlace, MonPlace, metrics, backup
<1> QED BY <1>2, <1>3 DEF Ticks

LEMMA PlacesStep == Places /\ MetricsInv /\ BackupInv /\ MonInv /\ [Next]_vars => Places'
<1> SUFFICES ASSUME Places, MetricsInv, BackupInv, MonInv, [Next]_vars PROVE Places' OBVIOUS
<1>1. CASE UNCHANGED vars
  BY <1>1 DEF vars, others, broker, metrics, backup, monitors, Places, ScriptPlace, JobPlace, MonPlace, Counters
<1> QED BY <1>1, BrokerCounts, ScrapePlaces, BackupPlaces, ShovelPlaces, TickPlaces DEF Next

\* The state of the programs and of the broker has its type: in particular no
\* request is made more often than it may be, no attempt is one too many, and
\* no file holds more than a backup writes.
THEOREM ClientsTypeCorrect == Spec => []TypeOK
<1>1. AllInv => TypeOK
  <2> SUFFICES ASSUME AllInv PROVE TypeOK OBVIOUS
  <2>1. member \in [Node -> Member] /\ item \in [Item -> Node \cup {None}] /\ scant \subseteq Statistics
    BY DEF AllInv, MetricsInv, ViewInv, View, Views
  <2>2. plugin \in [Node -> BOOLEAN] BY DEF AllInv, MonInv, MonShape
  <2>3. /\ definition \in [VHost -> {None} \cup SUBSET Object]
        /\ folder \in [Entry -> {None, Torn} \cup Contents]
    BY DEF AllInv, BackupInv, Shape, Definitions
  <2>4. BrokerTypeOK BY <2>1, <2>2, <2>3 DEF AllInv, Places, Counters, BrokerTypeOK
  <2>5. ASSUME NEW t \in DOMAIN task PROVE task[t].raised \in 0..(Retries + 1)
    BY <2>5, MetricsAssumption DEF AllInv, LossInv, Counts, MayRaise
  <2>6. seen \subseteq Views BY DEF AllInv, MetricsInv, ViewInv
  <2>7. {since, outage, ticks} \subseteq 0..MaxTicks
    BY MonitorsAssumption DEF AllInv, Places, Counters
  <2> QED BY <2>3, <2>4, <2>5, <2>6, <2>7 DEF AllInv, Places, ScriptPlace, JobPlace, MonPlace, TypeOK
<1>2. Init => AllInv BY InitMetrics, InitLoss, BackupInits, MonInit, PlacesInit DEF AllInv
<1>3. AllInv /\ [Next]_vars => AllInv'
  BY MetricsStepKeeps, LossSteps, BackupSteps, MonStep, PlacesStep DEF AllInv
<1> QED BY <1>1, <1>2, <1>3, PTL DEF Spec
----------------------------------------------------------------------------
\* What StepsLeft counts down: the shovels to validate are configured ones,
\* the pods are listed once, and attempts have failed for a pod only.
CountdownInv ==
    /\ mon.pc = "validate" => mon.left \subseteq Shovel
    /\ mon.pc \in {"disable", "enable"} => Len(mon.pods) \in 0..Cardinality(Node) /\ mon.pods \in Seq(Node)
    /\ mon.pc = "enable" => mon.pods # <<>>
    /\ mon.pc \in {"list", "validate", "check", "pods"} \/ mon.pods = <<>> => mon.failed = 0

LEMMA CountdownInit == Init => CountdownInv
BY DEF Init, MonitorsInit, Idle, CountdownInv

\* Products with the number of pods that are left.
LEMMA Products ==
    ASSUME NEW a \in Nat, NEW l \in Nat, NEW m \in Nat, l <= m
    PROVE  a * l \in Nat /\ a * l <= a * m /\ (l > 0 => a * l = a * (l - 1) + a)
<1>1. PICK d \in Nat : m = l + d
  <2>1. m - l \in Nat /\ m = l + (m - l) OBVIOUS
  <2> QED BY <2>1
<1>2. a * m = a * l + a * d BY <1>1
<1>3. a * l \in Nat /\ a * d \in Nat OBVIOUS
<1>4. l > 0 => a * l = a * (l - 1) + a OBVIOUS
<1> QED BY <1>2, <1>3, <1>4

LEMMA Sizes ==
    /\ IsFiniteSet(Shovel) /\ Cardinality(Shovel) \in Nat
    /\ IsFiniteSet(Node) /\ Cardinality(Node) \in Nat
    /\ Attempts \in Nat \ {0} /\ 2 * Attempts * Cardinality(Node) \in Nat
<1>1. Attempts \in Nat \ {0} BY MonitorsAssumption
<1>2. /\ IsFiniteSet(Shovel) /\ Cardinality(Shovel) \in Nat
      /\ IsFiniteSet(Node) /\ Cardinality(Node) \in Nat
  BY BrokerAssumption, FS_CardinalityType
<1> QED BY <1>1, <1>2, Products

\* The check of the shovels is at most as long as the list.
LEMMA CheckShrinks ==
    ASSUME MonInv, Places, CountdownInv,
           \/ ListsNoShovel \/ ListsShovels \/ AllValid
           \/ \E s \in Shovel : Validates(s) \/ Invalid(s)
    PROVE  CountdownInv' /\ StepsLeft' \in Nat /\ StepsLeft' < StepsLeft
<1> USE DEF MonInv, MonShape
<1> DEFINE S == Cardinality(Shovel)
           W == 2 * Attempts * Cardinality(Node)
<1>1. S \in Nat /\ W \in Nat BY Sizes
<1>2. mon.pc = "validate" => Cardinality(mon.left) \in Nat
  BY Sizes, FS_Subset, FS_CardinalityType DEF CountdownInv
<1>3. mon.pc \in {"list", "validate"} => mon.failed = 0 BY DEF CountdownInv
<1>4. mon.pc = "list" => StepsLeft = S + IF mon.again THEN 2 ELSE S + 3 + W + 1 + 3 BY DEF StepsLeft
<1>5. mon.pc = "validate" => StepsLeft = Cardinality(mon.left) + IF mon.again THEN 1 ELSE S + 3 + W + 1 + 2
  BY DEF StepsLeft
<1> HIDE DEF S, W
<1>6. ASSUME mon.pc \in {"list", "validate"}, NEW ok \in BOOLEAN, Judged(ok)
      PROVE  CountdownInv' /\ StepsLeft' \in Nat /\ StepsLeft' < StepsLeft
  <2> DEFINE pc == IF ok \/ mon.again THEN "idle" ELSE "check"
  <2>1. mon' = [mon EXCEPT !.pc = pc] BY <1>6 DEF Judged
  <2>2. pc \in {"idle", "check"} /\ (pc = "check" => ~mon.again) OBVIOUS
  <2> HIDE DEF pc
  <2>3. mon'.pc = pc /\ mon'.pods = mon.pods /\ mon'.failed = mon.failed BY <2>1
  <2>4. CountdownInv' BY <1>3, <1>6, <2>2, <2>3 DEF CountdownInv
  <2>5. StepsLeft' = IF pc = "idle" THEN 0 ELSE S + 3 + W + 1 + 1 BY <2>2, <2>3 DEF StepsLeft, S, W
  <2>6. CASE mon.pc = "list" BY <1>1, <1>4, <2>2, <2>4, <2>5, <2>6
  <2>7. CASE mon.pc = "validate" BY <1>1, <1>2, <1>5, <2>2, <2>4, <2>5, <2>7
  <2> QED BY <1>6, <2>6, <2>7
<1>7. CASE ListsNoShovel BY <1>6, <1>7 DEF ListsNoShovel
<1>8. CASE ListsShovels
  <2> DEFINE listed == {s \in Shovel : shovel[s] # "none"}
             alive  == {s \in listed : shovel[s] # "terminated"}
  <2>1. /\ mon.pc = "list"
        /\ mon' = [mon EXCEPT !.pc = "validate", !.listed = listed, !.alive = alive, !.left = listed]
    BY <1>8 DEF ListsShovels
  <2>2. listed \subseteq Shovel OBVIOUS
  <2> HIDE DEF listed, alive
  <2>3. /\ mon'.pc = "validate" /\ mon'.left = listed /\ mon'.again = mon.again
        /\ mon'.pods = mon.pods /\ mon'.failed = mon.failed
    BY <2>1
  <2>4. Cardinality(listed) \in Nat /\ Cardinality(listed) <= S
    BY <2>2, Sizes, FS_Subset, FS_CardinalityType DEF S
  <2>5. CountdownInv' BY <1>3, <2>1, <2>2, <2>3 DEF CountdownInv
  <2>6. StepsLeft' = Cardinality(listed) + IF mon.again THEN 1 ELSE S + 3 + W + 1 + 2
    BY <2>3 DEF StepsLeft, S, W
  <2> QED BY <1>1, <1>4, <2>1, <2>4, <2>5, <2>6
<1>9. CASE AllValid
  <2> DEFINE ok == 10 * Cardinality(mon.alive) >= 8 * Cardinality(mon.listed)
  <2>1. mon.pc = "validate" /\ Judged(ok) BY <1>9 DEF AllValid
  <2>2. ok \in BOOLEAN OBVIOUS
  <2> HIDE DEF ok
  <2> QED BY <1>6, <2>1, <2>2
<1>10. ASSUME NEW s \in Shovel, Validates(s)
       PROVE  CountdownInv' /\ StepsLeft' \in Nat /\ StepsLeft' < StepsLeft
  <2>1. mon.pc = "validate" /\ s \in mon.left /\ mon' = [mon EXCEPT !.left = mon.left \ {s}]
    BY <1>10 DEF Validates
  <2>2. /\ mon'.pc = "validate" /\ mon'.left = mon.left \ {s} /\ mon'.again = mon.again
        /\ mon'.pods = mon.pods /\ mon'.failed = mon.failed
    BY <2>1
  <2>3. IsFiniteSet(mon.left) BY <2>1, Sizes, FS_Subset DEF CountdownInv
  <2>4. Cardinality(mon'.left) = Cardinality(mon.left) - 1 /\ Cardinality(mon'.left) \in Nat
    BY <2>1, <2>2, <2>3, FS_RemoveElement, FS_CardinalityType
  <2>5. CountdownInv' BY <2>1, <2>2 DEF CountdownInv
  <2>6. StepsLeft' = Cardinality(mon'.left) + IF mon.again THEN 1 ELSE S + 3 + W + 1 + 2
    BY <2>2 DEF StepsLeft, S, W
  <2> QED BY <1>1, <1>2, <1>5, <2>1, <2>4, <2>5, <2>6
<1>11. ASSUME NEW s \in Shovel, Invalid(s)
       PROVE  CountdownInv' /\ StepsLeft' \in Nat /\ StepsLeft' < StepsLeft
  BY <1>6, <1>11 DEF Invalid
<1> QED BY <1>7, <1>8, <1>9, <1>10, <1>11

\* Before and after the pods.
LEMMA BetweenShrinks ==
    ASSUME MonInv, Places, CountdownInv, PodsReady \/ PodsNotReady \/ ListsPods \/ AllRestarted
    PROVE  CountdownInv' /\ StepsLeft' \in Nat /\ StepsLeft' < StepsLeft
<1> USE DEF MonInv, MonShape
<1> DEFINE S == Cardinality(Shovel)
           W == 2 * Attempts * Cardinality(Node)
<1>1. S \in Nat /\ W \in Nat BY Sizes
<1>2. mon.pc \in {"check", "pods"} => mon.failed = 0 BY DEF CountdownInv
<1>3. mon.pc = "check" => StepsLeft = S + 3 + W + 1 + 1 BY DEF StepsLeft
<1>4. mon.pc = "pods" => StepsLeft = S + 3 + W + 1 BY DEF StepsLeft
<1> HIDE DEF S, W
<1>5. CASE PodsReady \/ PodsNotReady
  <2>1. mon.pc = "check" BY <1>5 DEF PodsReady, PodsNotReady
  <2>2. PICK pc \in {"idle", "pods"} : mon' = [mon EXCEPT !.pc = pc]
    BY <1>5 DEF PodsReady, PodsNotReady, GivesUp
  <2>3. mon'.pc = pc /\ mon'.pods = mon.pods /\ mon'.failed = mon.failed BY <2>2
  <2>4. CountdownInv' BY <1>2, <2>1, <2>3 DEF CountdownInv
  <2>5. StepsLeft' = IF pc = "idle" THEN 0 ELSE S + 3 + W + 1 BY <2>3 DEF StepsLeft, S, W
  <2> QED BY <1>1, <1>3, <2>1, <2>4, <2>5
<1>6. CASE ListsPods
  <2>1. mon.pc = "pods" BY <1>6 DEF ListsPods
  <2>2. PICK P \in SUBSET Node : \E pods \in SetToSeqs(P) :
           mon' = [mon EXCEPT !.pc = "disable", !.pods = pods]
    BY <1>6 DEF ListsPods, Running
  <2>3. PICK pods \in SetToSeqs(P) : mon' = [mon EXCEPT !.pc = "disable", !.pods = pods]
    BY <2>2
  <2>4. Cardinality(P) \in Nat /\ Cardinality(P) <= Cardinality(Node)
    BY Sizes, FS_Subset, FS_CardinalityType
  <2>5. pods \in Seq(Node) /\ Len(pods) = Cardinality(P)
    <3>1. pods \in [1..Cardinality(P) -> P] BY DEF SetToSeqs
    <3>2. pods \in [1..Cardinality(P) -> Node] BY <3>1
    <3> QED BY <2>4, <3>2
  <2>6. mon'.pc = "disable" /\ mon'.pods = pods /\ mon'.failed = 0 BY <1>2, <2>1, <2>3
  <2>7. CountdownInv' BY <2>4, <2>5, <2>6, Sizes DEF CountdownInv
  <2> DEFINE w == 2 * Attempts * Len(pods)
  <2>8. w \in Nat /\ w <= W BY <2>4, <2>5, Sizes, Products DEF W
  <2>9. StepsLeft' = S + 3 + w BY <1>1, <2>6, <2>8 DEF StepsLeft, S
  <2> HIDE DEF w
  <2> QED BY <1>1, <1>4, <2>1, <2>7, <2>8, <2>9
<1>7. CASE AllRestarted
  <2>1. mon.pc = "disable" /\ mon.pods = <<>> /\ mon' = [mon EXCEPT !.pc = "list", !.again = TRUE]
    BY <1>7 DEF AllRestarted
  <2>2. mon'.pc = "list" /\ mon'.again = TRUE /\ mon'.pods = mon.pods /\ mon'.failed = mon.failed BY <2>1
  <2>3. mon.failed = 0 /\ Len(mon.pods) = 0 BY <2>1 DEF CountdownInv
  <2>4. CountdownInv' BY <2>2, <2>3 DEF CountdownInv
  <2>5. 2 * Attempts * 0 = 0 BY Sizes
  <2>6. StepsLeft = S + 3 BY <1>1, <2>1, <2>3, <2>5 DEF StepsLeft, S
  <2>7. StepsLeft' = S + 2 BY <2>2 DEF StepsLeft, S
  <2> QED BY <1>1, <2>4, <2>6, <2>7
<1> QED BY <1>5, <1>6, <1>7

\* A pod takes two steps for each attempt.
LEMMA PodShrinks ==
    ASSUME MonInv, Places, CountdownInv, NEW p \in Node,
           Disables(p) \/ Misses(p) \/ Enables(p) \/ ExecFails(p)
    PROVE  CountdownInv' /\ StepsLeft' \in Nat /\ StepsLeft' < StepsLeft
<1> USE DEF MonInv, MonShape
<1> DEFINE S == Cardinality(Shovel)
           L == Len(mon.pods)
           f == mon.failed
           w == 2 * Attempts * Len(mon.pods)
           v == 2 * Attempts * (Len(mon.pods) - 1)
<1>1. At("disable", p) \/ At("enable", p) BY DEF Disables, Misses, Enables, ExecFails
<1>2. mon.pods \in Seq(Node) /\ mon.pods # <<>> /\ L \in Nat \ {0} /\ L <= Cardinality(Node)
  BY <1>1, Sizes DEF CountdownInv, At
<1>3. S \in Nat /\ Attempts \in Nat \ {0} /\ f \in 0..(Attempts - 1)
  BY Sizes DEF Places, MonPlace
<1>4. v \in Nat /\ w = v + 2 * Attempts
  <2>1. 2 * Attempts \in Nat /\ L - 1 \in Nat BY <1>2, <1>3
  <2>2. 2 * Attempts * (L - 1) \in Nat BY <2>1, Products
  <2>3. 2 * Attempts * L = 2 * Attempts * (L - 1) + 2 * Attempts BY <1>2, <2>1, Products
  <2> QED BY <2>2, <2>3
<1>5. StepsLeft = S + 3 + w - 2 * f - IF mon.pc = "enable" THEN 1 ELSE 0
  BY <1>1 DEF StepsLeft, At
<1> HIDE DEF S, L, f, w, v
<1>6. ASSUME mon'.pc = "idle", mon'.pods = mon.pods
      PROVE  CountdownInv' /\ StepsLeft' \in Nat /\ StepsLeft' < StepsLeft
  <2>1. CountdownInv' BY <1>2, <1>6 DEF CountdownInv
  <2>2. StepsLeft' = 0 BY <1>6 DEF StepsLeft
  <2> QED BY <1>3, <1>4, <1>5, <2>1, <2>2
<1>7. ASSUME mon'.pc \in {"disable", "enable"}, mon'.pods = mon.pods
      PROVE  /\ CountdownInv'
             /\ StepsLeft' = S + 3 + w - 2 * mon'.failed - IF mon'.pc = "enable" THEN 1 ELSE 0
  BY <1>2, <1>7 DEF CountdownInv, StepsLeft, S, L, w
<1>8. CASE Disables(p)
  <2>1. mon.pc = "disable" /\ mon' = [mon EXCEPT !.pc = "enable"] BY <1>8 DEF Disables, At
  <2>2. mon'.pc = "enable" /\ mon'.pods = mon.pods /\ mon'.failed = f BY <2>1 DEF f
  <2>3. CountdownInv' /\ StepsLeft' = S + 3 + w - 2 * f - 1 BY <1>7, <2>2
  <2> QED BY <1>3, <1>4, <1>5, <2>1, <2>3
<1>9. CASE Misses(p)
  <2>1. CASE mon.failed < Attempts - 1
    <3>1. mon' = [mon EXCEPT !.pc = "disable", !.failed = mon.failed + 1] BY <1>9, <2>1 DEF Misses, Again
    <3>2. mon'.pc = "disable" /\ mon'.pods = mon.pods /\ mon'.failed = f + 1 BY <3>1 DEF f
    <3>3. CountdownInv' /\ StepsLeft' = S + 3 + w - 2 * (f + 1) - 0 BY <1>7, <3>2
    <3>4. f + 1 \in 0..(Attempts - 1) BY <1>3, <2>1 DEF f
    <3> QED BY <1>3, <1>4, <1>5, <3>3, <3>4
  <2>2. CASE ~(mon.failed < Attempts - 1)
    <3>1. mon' = [mon EXCEPT !.pc = "idle"] BY <1>9, <2>2 DEF Misses, Again, GivesUp
    <3> QED BY <1>6, <3>1
  <2> QED BY <2>1, <2>2
<1>10. CASE Enables(p)
  <2>1. mon.pc = "enable" /\ mon' = [mon EXCEPT !.pc = "disable", !.pods = Tail(mon.pods), !.failed = 0]
    BY <1>10 DEF Enables, At
  <2>2. mon'.pc = "disable" /\ mon'.pods = Tail(mon.pods) /\ mon'.failed = 0 BY <2>1
  <2>3. Tail(mon.pods) \in Seq(Node) /\ Len(Tail(mon.pods)) = L - 1 BY <1>2 DEF L
  <2>4. CountdownInv' BY <1>2, <2>2, <2>3, Sizes DEF CountdownInv
  <2>5. StepsLeft' = S + 3 + v
    <3>1. 2 * Attempts * Len(mon'.pods) = v BY <2>2, <2>3 DEF v, L
    <3>2. StepsLeft' = S + 3 + 2 * Attempts * Len(mon'.pods) - 2 * 0 - 0 BY <2>2 DEF StepsLeft, S
    <3> QED BY <1>3, <1>4, <3>1, <3>2
  <2> QED BY <1>3, <1>4, <1>5, <2>1, <2>4, <2>5
<1>11. CASE ExecFails(p)
  <2>1. mon' = [mon EXCEPT !.pc = "idle"] BY <1>11 DEF ExecFails, GivesUp
  <2> QED BY <1>6, <2>1
<1> QED BY <1>8, <1>9, <1>10, <1>11

LEMMA RunStepShrinks ==
    ASSUME MonInv, Places, CountdownInv, ShovelRun
    PROVE  CountdownInv' /\ StepsLeft' \in Nat /\ StepsLeft' < StepsLeft
BY CheckShrinks, BetweenShrinks, PodShrinks DEF ShovelRun

\* A run of shovel_monitoring takes a bounded number of steps, whatever fails
\* and whatever changes in the broker: StepsLeft is a number, and smaller after
\* each of them.
THEOREM RunsAreBounded == Spec => RunsShrink
<1> DEFINE Inv == AllInv /\ CountdownInv
<1>1. Init => Inv BY InitMetrics, InitLoss, BackupInits, MonInit, PlacesInit, CountdownInit DEF AllInv
<1>2. Inv /\ [Next]_vars => Inv'
  <2> SUFFICES ASSUME Inv, [Next]_vars PROVE CountdownInv'
    BY MetricsStepKeeps, LossSteps, BackupSteps, MonStep, PlacesStep DEF AllInv
  <2>1. CASE UNCHANGED mon BY <2>1 DEF CountdownInv
  <2>2. CASE Shovels BY <2>2, RunStepShrinks DEF AllInv, Shovels
  <2>3. CASE Ticks
    <3>1. CASE ShovelTick BY <3>1 DEF ShovelTick, Idle, CountdownInv
    <3> QED BY <2>1, <2>3, <3>1 DEF Ticks, ClusterTick
  <2>4. CASE ~Shovels /\ ~Ticks
    <3>1. UNCHANGED mon
      BY <2>4 DEF Next, vars, others, monitors, NodesChange, ItemsMove, ShovelsChange, StatsChange,
                  UsersChange, Recorded,
                  Scrape, Backup
    <3> QED BY <2>1, <3>1
  <2> QED BY <2>2, <2>3, <2>4
<1>3. Inv => [ShovelRun => StepsLeft' \in Nat /\ StepsLeft' < StepsLeft]_<<broker, faults, monitors>>
  BY RunStepShrinks DEF AllInv
<1> QED BY <1>1, <1>2, <1>3, PTL DEF Spec, RunsShrink
=============================================================================
