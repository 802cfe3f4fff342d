----------------------------- MODULE Reconcile -----------------------------
(***************************************************************************)
(* The handlers of handler.py that bring the RabbitMQ pods of one          *)
(* namespace to what the custom resource (CR), the secret with the broker  *)
(* account and the ConfigMap ask for: on_create and on_update of the CR,   *)
(* on_update_secret, on_update_configmap and the timer cluster_monitoring. *)
(* kopf runs them in threads of one process.  They share no lock and meet  *)
(* in the status conditions of the CR, the pods they delete, the secret    *)
(* and the broker's accounts.                                              *)
(*                                                                         *)
(* Modelled is the storage-class configuration (one StatefulSet `rmqlocal' *)
(* with pods 0, 1, ...) with event logging, the chart's default.  Times    *)
(* are abstracted: a bounded polling loop may run out whenever its         *)
(* condition does not hold.  Of the conditions only the last type counts.  *)
(***************************************************************************)
EXTENDS Integers, FiniteSets

CONSTANTS
    MaxPods,       \* bound on spec.rabbitmq.replicas
    Shapes,        \* what users write to the CR: replicas, flags, validity
    Users,         \* names of the broker account in the secret
    Timer,         \* whether ENABLE_CLUSTER_RESTART is set
    MaxUpdates,    \* bound on the users' changes
    MaxFaults      \* bound on interrupted handlers and lost pods

\* `claims' stands for the fields of a StatefulSet that must not change.
Shape == [replicas : 1..MaxPods, claims : {1, 2}, reboot : BOOLEAN,
          clean : BOOLEAN, tests : BOOLEAN, valid : BOOLEAN]

ASSUME ReconcileAssumption ==
    /\ MaxPods \in Nat \ {0} /\ Timer \in BOOLEAN
    /\ Shapes # {} /\ Shapes \subseteq Shape /\ Users # {}
    /\ MaxUpdates \in Nat /\ MaxFaults \in Nat

VARIABLES
    desired,     \* the objects users change: cr, secret, config
    handled,     \* kopf's last-handled version of each of them
    conds,       \* the type of the last status condition of the CR
    sts,         \* the StatefulSet: version of its pod template, and shape
    pods,        \* the pods 0..MaxPods-1 and what each was started with
    accounts,    \* the broker's users, each with the version of its password
    h,           \* per handler: its place and local variables
    updates, faults    \* counters of the bounded environment steps

objects == <<desired, handled>>
cluster == <<sts, pods, accounts>>
bounds  == <<updates, faults>>
vars    == <<objects, conds, cluster, h, bounds>>
----------------------------------------------------------------------------
Indices  == 0..(MaxPods - 1)
Handlers == {"cr", "secret", "config"}          \* by the object that changed
Outcomes == {"ok", "failed"}                    \* SUCCESSFUL, FAILED

\* `gen' and `ver' count the edits.  The text of a CR and the password of a
\* secret stand for what is written there: equal where the contents are.
Secret  == [user : Users, password : Nat, ver : Nat]
CR      == [gen : Nat, text : Nat, shape : Shape]
Objects == [cr : CR, secret : Secret, config : Nat]
Pod     == [state : {"absent", "starting", "up"}, gen : Nat, config : Nat,
            secret : Secret, by : Handlers \cup {"none"}]

\* A handler's place; the objects as it read them at its start; the secret
\* its cluster check uses; the pods present and the replicas at its start;
\* whether a StatefulSet existed then; the pods still to go through.  Kept only
\* for the properties: the pods this run has rebooted (`taken'), and whether
\* the StatefulSet had the replicas the handler knows at each check that has
\* passed (`steady').
Handler == [pc : {"idle", "wait", "change", "list", "flags", "exec", "apply",
                  "create", "clean", "present", "running", "roll", "check",
                  "enable", "finish"},
            seen : Objects, creds : Secret, old : SUBSET Indices, was : Nat,
            existed : BOOLEAN, todo : SUBSET Indices, taken : SUBSET Indices,
            steady : BOOLEAN]

Present == {i \in Indices : pods[i].state # "absent"}
Up      == {i \in Indices : pods[i].state = "up"}
First(S) == CHOOSE i \in S : \A j \in S : i <= j

\* Only a change that kopf has handled before is an update, not a creation.
Updating == handled.cr.gen > 0

\* The objects as the installation makes them, before the CR is handled.
Installed == [cr |-> [gen |-> 0, text |-> 0, shape |-> CHOOSE s \in Shapes : TRUE],
              secret |-> [user |-> CHOOSE u \in Users : TRUE, password |-> 1, ver |-> 1],
              config |-> 1]

Idle == [pc |-> "idle", seen |-> Installed, creds |-> Installed.secret,
         old |-> {}, was |-> 0, existed |-> FALSE, todo |-> {}, taken |-> {},
         steady |-> TRUE]

NoSet == [gen |-> 0, replicas |-> 0, claims |-> 1]
NoPod == [state |-> "absent", gen |-> 0, config |-> 1,
          secret |-> Installed.secret, by |-> "none"]

\* A namespace in which nothing is deployed yet.
Fresh ==
    /\ \E s \in Shapes : desired = [Installed EXCEPT !.cr = [gen |-> 1, text |-> 1, shape |-> s]]
    /\ handled = Installed /\ conds = "none"
    /\ sts = NoSet
    /\ pods = [i \in Indices |-> NoPod]
    /\ accounts = [u \in Users |-> 0]

\* A cluster that runs as the CR that was handled last asks.
Settled(s) ==
    /\ s.valid /\ handled = [Installed EXCEPT !.cr = [gen |-> 1, text |-> 1, shape |-> s]]
    /\ conds = "ok"
    /\ sts = [gen |-> 1, replicas |-> s.replicas, claims |-> s.claims]
    /\ pods = [i \in Indices |-> IF i < s.replicas
                 THEN [NoPod EXCEPT !.state = "up", !.gen = 1] ELSE NoPod]
    /\ accounts = [u \in Users |-> IF u = handled.secret.user THEN 1 ELSE 0]

Init == /\ Fresh \/ \E s \in Shapes : Settled(s) /\ desired = handled
        /\ h = [p \in Handlers |-> Idle] /\ updates = 0 /\ faults = 0
----------------------------------------------------------------------------
Goto(p, pc) == h' = [h EXCEPT ![p].pc = pc]

\* kopf compares what is written with what it has recorded as handled, and
\* calls the handler for a difference alone.
Cause(p) == \/ p = "cr"     /\ desired.cr.text # handled.cr.text
            \/ p = "secret" /\ desired.secret.password # handled.secret.password
            \/ p = "config" /\ desired.config # handled.config

\* The handler of p returns or raises PermanentError: kopf records the change
\* as handled.
End(p) == /\ h' = [h EXCEPT ![p] = Idle]
          /\ handled' = [handled EXCEPT ![p] = h[p].seen[p]]

\* Any other exception: kopf runs the handler again, from its start.
Raise(p) == /\ h' = [h EXCEPT ![p] = Idle]
            /\ UNCHANGED <<objects, conds, cluster, bounds>>

TakeDown(p, i) == pods' = [pods EXCEPT ![i].state = "absent", ![i].by = p]

\* What is_cluster_alive finds: the API answers to the account the check has
\* read, and as many nodes run as the CR has replicas.
Alive(p) == /\ accounts[h[p].creds.user] = h[p].creds.password
            /\ Cardinality(Up) = h[p].seen.cr.shape.replicas
----------------------------------------------------------------------------
\* on_create, on_update.
CrBegins ==
    /\ h["cr"].pc = "idle" /\ Cause("cr")
    /\ conds' = "progress"
    /\ h' = [h EXCEPT !["cr"] =
         [Idle EXCEPT !.pc = IF Updating /\ sts.gen > 0 THEN "flags" ELSE "apply",
                      !.seen = desired, !.old = Present, !.was = sts.replicas,
                      !.existed = sts.gen > 0]]
    /\ UNCHANGED <<objects, cluster, bounds>>

\* All pods are found running, and listed.
FlagsChecked ==
    /\ h["cr"].pc = "flags" /\ Present = Up
    /\ h' = [h EXCEPT !["cr"].todo = Present,
                      !["cr"].pc = IF Present = {} THEN "apply" ELSE "exec"]
    /\ UNCHANGED <<objects, conds, cluster, bounds>>

\* A command in each of them, in turn.
FlagsEnabled ==
    LET i == First(h["cr"].todo)
    IN  /\ h["cr"].pc = "exec" /\ pods[i].state = "up"
        /\ h' = [h EXCEPT !["cr"].todo = @ \ {i},
                          !["cr"].pc = IF h["cr"].todo = {i} THEN "apply" ELSE "exec"]
        /\ UNCHANGED <<objects, conds, cluster, bounds>>

\* The pods are not running in time, or one refuses to enable its flags.
FlagsFail ==
    /\ \/ h["cr"].pc = "flags" /\ Present # Up
       \/ h["cr"].pc = "exec" /\ pods[First(h["cr"].todo)].state # "absent"
    /\ conds' = "failed" /\ End("cr")
    /\ UNCHANGED <<desired, cluster, bounds>>

\* A command in a pod that is gone, or whose container does not run, raises.
FlagsRaise == /\ h["cr"].pc = "exec" /\ pods[First(h["cr"].todo)].state # "up"
              /\ Raise("cr")

TestsOnly == Updating /\ h["cr"].seen.cr.shape.tests

WaitsForTests ==
    /\ h["cr"].pc = "apply" /\ TestsOnly
    /\ Goto("cr", "finish")
    /\ UNCHANGED <<objects, conds, cluster, bounds>>

\* Mutant: the configuration is refused without a word in the status.
RejectsSilently ==
    /\ h["cr"].pc = "apply" /\ ~TestsOnly /\ ~h["cr"].seen.cr.shape.valid
    /\ End("cr")
    /\ UNCHANGED <<desired, conds, cluster, bounds>>

\* A forbidden configuration, such as nodes together with a storage class.
Rejects ==
    /\ h["cr"].pc = "apply" /\ ~TestsOnly /\ ~h["cr"].seen.cr.shape.valid
    /\ conds' = "failed" /\ End("cr")
    /\ UNCHANGED <<desired, cluster, bounds>>

\* Mutant: the range includes its end.
RebootCountInclusive == h["cr"].seen.cr.shape.replicas + 1

\* Mutant: the counted pods are taken for the index of the last.
RebootCountShort ==
    LET replicas == h["cr"].seen.cr.shape.replicas
        counted  == Cardinality(h["cr"].old)
    IN  IF Updating /\ counted > 1 /\ replicas >= counted THEN counted - 1 ELSE replicas

\* The pods that reboot_pods(old_pods_count) goes through.
RebootCount ==
    LET replicas == h["cr"].seen.cr.shape.replicas
        counted  == Cardinality(h["cr"].old)
    IN  IF Updating /\ counted > 0 /\ replicas > counted THEN counted ELSE replicas

Forbidden == sts.gen > 0 /\ sts.claims # h["cr"].seen.cr.shape.claims

\* Kubernetes forbids the replacement: the StatefulSet is deleted without its
\* pods, and created in a step of its own.
Orphans ==
    /\ h["cr"].pc = "apply" /\ ~TestsOnly /\ h["cr"].seen.cr.shape.valid
    /\ Forbidden /\ sts' = NoSet
    /\ Goto("cr", "create")
    /\ UNCHANGED <<objects, conds, pods, accounts, bounds>>

\* The StatefulSet is created or replaced.  It removes the pods it no longer
\* wants and, with its OnDelete strategy, leaves the others as they are.
Applies ==
    LET shape  == h["cr"].seen.cr.shape
        before == Updating \/ h["cr"].existed
    IN  /\ \/ h["cr"].pc = "apply" /\ ~TestsOnly /\ shape.valid /\ ~Forbidden
           \/ h["cr"].pc = "create"
        /\ sts' = [gen |-> h["cr"].seen.cr.gen, replicas |-> shape.replicas,
                   claims |-> shape.claims]
        /\ pods' = [i \in Indices |-> IF i < shape.replicas THEN pods[i]
                        ELSE [pods[i] EXCEPT !.state = "absent", !.by = "none"]]
        /\ \/ /\ shape.clean /\ before
              /\ h' = [h EXCEPT !["cr"].pc = "clean", !["cr"].todo = 0..(shape.replicas - 1)]
           \/ /\ ~shape.clean /\ before /\ shape.reboot
              /\ h' = [h EXCEPT !["cr"].pc = "roll", !["cr"].todo = 0..(RebootCount - 1)]
           \/ /\ ~before \/ ~(shape.clean \/ shape.reboot)
              /\ Goto("cr", "present")
        /\ UNCHANGED <<objects, conds, accounts, bounds>>

\* set_clean_pv_flag_and_delete_pods: the flag is set by a command in the pod,
\* which may run before the broker in it is up.
CleansPod ==
    LET i == First(h["cr"].todo)
    IN  /\ h["cr"].pc = "clean" /\ pods[i].state # "absent"
        /\ TakeDown("cr", i)
        /\ h' = [h EXCEPT !["cr"].todo = @ \ {i},
                          !["cr"].pc = IF h["cr"].todo = {i} THEN "present" ELSE "clean"]
        /\ UNCHANGED <<objects, conds, sts, accounts, bounds>>

CleanRaises == /\ h["cr"].pc = "clean" /\ pods[First(h["cr"].todo)].state # "up"
               /\ Raise("cr")

\* check_rabbit_pods_readiness: the pods are counted, then looked at.
PodsPresent ==
    /\ h["cr"].pc = "present" /\ Cardinality(Present) = h["cr"].seen.cr.shape.replicas
    /\ Goto("cr", "running")
    /\ UNCHANGED <<objects, conds, cluster, bounds>>

PodsRunning ==
    /\ h["cr"].pc = "running" /\ Present = Up
    /\ h' = [h EXCEPT !["cr"].creds = desired.secret,
                      !["cr"].pc = IF h["cr"].seen.cr.shape.reboot THEN "enable" ELSE "check"]
    /\ UNCHANGED <<objects, conds, cluster, bounds>>

\* Mutant: pods that are not ready raise an exception that kopf retries.
PodsNotReadyRetried ==
    /\ \/ h["cr"].pc = "present" /\ Cardinality(Present) # h["cr"].seen.cr.shape.replicas
       \/ h["cr"].pc = "running" /\ Present # Up
    /\ Raise("cr")

PodsNotReady ==
    /\ \/ h["cr"].pc = "present" /\ Cardinality(Present) # h["cr"].seen.cr.shape.replicas
       \/ h["cr"].pc = "running" /\ Present # Up
    /\ conds' = "failed" /\ End("cr")
    /\ UNCHANGED <<desired, cluster, bounds>>

\* enable_feature_flags: a command in the first pod.
Enables ==
    /\ h["cr"].pc = "enable" /\ pods[0].state # "absent"
    /\ Goto("cr", "finish")
    /\ UNCHANGED <<objects, conds, cluster, bounds>>

EnableRaises == h["cr"].pc = "enable" /\ pods[0].state # "up" /\ Raise("cr")

\* The backup daemon is ready and the tests pass, or not.
CrFinishes ==
    /\ h["cr"].pc = "finish"
    /\ conds' \in Outcomes /\ End("cr")
    /\ UNCHANGED <<desired, cluster, bounds>>
----------------------------------------------------------------------------
\* The handlers of the secret and the ConfigMap sleep before they begin
\* (TIME_TO_WAIT_...), so that a changed CR is in progress by then.
CrIsFirst == ~Cause("cr") \/ h["cr"].pc # "idle" \/ conds = "progress"

\* on_update_secret.
SecretBegins ==
    /\ h["secret"].pc = "idle" /\ Cause("secret")
    /\ conds # "none" /\ CrIsFirst
    /\ h' = [h EXCEPT !["secret"] = [Idle EXCEPT !.pc = "wait", !.seen = desired]]
    /\ UNCHANGED <<objects, conds, cluster, bounds>>

\* The CR is no longer in progress, or 900 seconds are over.
SecretWaited ==
    /\ h["secret"].pc = "wait"
    /\ conds' = "progress"
    /\ Goto("secret", "change")
    /\ UNCHANGED <<objects, cluster, bounds>>

\* Mutant: the account is changed without rebooting the pods.
ChangesAccountOnly ==
    LET old == handled.secret.user
        now == desired.secret
    IN  /\ h["secret"].pc = "change" /\ pods[0].state # "absent"
        /\ accounts' =
             IF pods[0].state # "up" THEN accounts
             ELSE IF old # h["secret"].seen.secret.user
                  THEN [accounts EXCEPT ![old] = 0]
                  ELSE [accounts EXCEPT ![now.user] = IF @ = 0 THEN 0 ELSE now.password]
        /\ Goto("secret", "finish")
        /\ UNCHANGED <<objects, conds, sts, pods, bounds>>

\* deactivate_old_user or change_password by rabbitmqctl in the first pod;
\* what it answers is not looked at, and a broker that is not up refuses.
ChangesAccount ==
    LET old == handled.secret.user
        now == desired.secret
    IN  /\ h["secret"].pc = "change" /\ pods[0].state # "absent"
        /\ accounts' =
             IF pods[0].state # "up" THEN accounts
             ELSE IF old # h["secret"].seen.secret.user
                  THEN [accounts EXCEPT ![old] = 0]
                  ELSE [accounts EXCEPT ![now.user] = IF @ = 0 THEN 0 ELSE now.password]
        /\ Goto("secret", "list")
        /\ UNCHANGED <<objects, conds, sts, pods, bounds>>

ChangeRaises == h["secret"].pc = "change" /\ pods[0].state # "up" /\ Raise("secret")

SecretFinishes ==
    /\ h["secret"].pc = "finish"
    /\ conds' = "ok" /\ End("secret")
    /\ UNCHANGED <<desired, cluster, bounds>>
----------------------------------------------------------------------------
\* on_update_configmap: nothing is done while the CR is in progress, or
\* without auto_reboot, and the change counts as handled.
ConfigBegins ==
    /\ h["config"].pc = "idle" /\ Cause("config")
    /\ conds # "none" /\ CrIsFirst
    /\ IF conds \in Outcomes /\ desired.cr.shape.reboot
       THEN /\ h' = [h EXCEPT !["config"] = [Idle EXCEPT !.pc = "list", !.seen = desired]]
            /\ UNCHANGED handled
       ELSE handled' = [handled EXCEPT !.config = desired.config] /\ UNCHANGED h
    /\ UNCHANGED <<desired, conds, cluster, bounds>>

ConfigFinishes ==
    /\ h["config"].pc = "finish" /\ End("config")
    /\ UNCHANGED <<desired, conds, cluster, bounds>>

\* cluster_monitoring finds the cluster, with the CR and the secret as they were
\* when its check began, incomplete for 15 minutes.
MonitorReports ==
    /\ Timer /\ conds # "none" /\ conds' = "failed"
    /\ UNCHANGED <<objects, cluster, h, bounds>>
----------------------------------------------------------------------------
\* Mutant: only pods that are up are rebooted.
ListsUpPods(p) ==
    /\ h[p].pc = "list"
    /\ h' = [h EXCEPT ![p].todo = Up, ![p].pc = IF Up = {} THEN "finish" ELSE "roll"]
    /\ UNCHANGED <<objects, conds, cluster, bounds>>

\* The pods the handler of the secret or the ConfigMap is going to reboot.
ListsPods(p) ==
    /\ h[p].pc = "list"
    /\ h' = [h EXCEPT ![p].todo = Present,
                      ![p].pc = IF Present = {} THEN "finish" ELSE "roll"]
    /\ UNCHANGED <<objects, conds, cluster, bounds>>

\* The next pod is deleted; only the handler of the CR does not mind if it is
\* already gone.  The check that follows reads the secret once.
RebootsPod(p) ==
    LET i == First(h[p].todo)
    IN  /\ h[p].pc = "roll"
        /\ \/ pods[i].state # "absent" /\ TakeDown(p, i)
           \/ pods[i].state = "absent" /\ p = "cr" /\ UNCHANGED pods
        /\ h' = [h EXCEPT ![p].pc = "check", ![p].todo = @ \ {i},
                          ![p].taken = @ \cup {i}, ![p].creds = desired.secret]
        /\ UNCHANGED <<objects, conds, sts, accounts, bounds>>

RebootRaises(p) == /\ h[p].pc = "roll" /\ p # "cr"
                   /\ pods[First(h[p].todo)].state = "absent" /\ Raise(p)

AfterReboots(p) == IF p = "cr" THEN "enable" ELSE "finish"
GoesOn(p) ==
    h' = [h EXCEPT ![p].pc = IF h[p].todo # {} THEN "roll" ELSE AfterReboots(p),
                   ![p].steady = @ /\ h[p].seen.cr.shape.replicas = sts.replicas]

\* Mutant: the nodes are counted with the one that is coming up.
CheckPassesEarly(p) ==
    /\ h[p].pc = "check" /\ Cardinality(Present) = h[p].seen.cr.shape.replicas
    /\ GoesOn(p)
    /\ UNCHANGED <<objects, conds, cluster, bounds>>

CheckPasses(p) ==
    /\ h[p].pc = "check" /\ Alive(p)
    /\ GoesOn(p)
    /\ UNCHANGED <<objects, conds, cluster, bounds>>

\* The cluster is not complete in time.  The handler of the ConfigMap has its
\* own copy of the check, which does not write the status.
CheckFails(p) ==
    /\ h[p].pc = "check" /\ ~Alive(p)
    /\ conds' = IF p = "config" THEN conds ELSE "failed"
    /\ End(p)
    /\ UNCHANGED <<desired, cluster, bounds>>

CrStep ==
    \/ CrBegins \/ FlagsChecked \/ FlagsEnabled \/ FlagsFail \/ FlagsRaise
    \/ WaitsForTests \/ Rejects \/ Orphans \/ Applies \/ CleansPod \/ CleanRaises \/ PodsPresent \/ PodsRunning \/ PodsNotReady
    \/ Enables \/ EnableRaises \/ CrFinishes

SecretStep == SecretBegins \/ SecretWaited \/ ChangesAccount \/ ChangeRaises \/ SecretFinishes

HandlerStep(p) ==
    \/ p = "cr" /\ CrStep
    \/ p = "secret" /\ SecretStep
    \/ p = "config" /\ (ConfigBegins \/ ConfigFinishes)
    \/ p \in {"secret", "config"} /\ ListsPods(p)
    \/ RebootsPod(p) \/ RebootRaises(p) \/ CheckPasses(p) \/ CheckFails(p)
----------------------------------------------------------------------------
\* The StatefulSet controller starts a missing pod with what is current.
PodCreated(i) ==
    /\ i < sts.replicas /\ pods[i].state = "absent"
    /\ pods' = [pods EXCEPT ![i] = [state |-> "starting", gen |-> sts.gen, by |-> @.by,
                                    config |-> desired.config, secret |-> desired.secret]]
    /\ UNCHANGED <<objects, conds, sts, accounts, h, bounds>>

\* The broker comes up and imports the definitions made from its secret: the
\* account exists with the password the pod was started with.
PodUp(i) ==
    /\ pods[i].state = "starting"
    /\ pods' = [pods EXCEPT ![i].state = "up"]
    /\ accounts' = [accounts EXCEPT ![pods[i].secret.user] = pods[i].secret.password]
    /\ UNCHANGED <<objects, conds, sts, h, bounds>>

PodLost(i) ==
    /\ faults < MaxFaults /\ pods[i].state # "absent"
    /\ TakeDown("none", i) /\ faults' = faults + 1
    /\ UNCHANGED <<objects, conds, sts, accounts, h, updates>>

\* A call to Kubernetes fails, for one a status update with an old
\* resourceVersion: the handler raises.
Interrupted(p) ==
    /\ faults < MaxFaults /\ h[p].pc # "idle"
    /\ h' = [h EXCEPT ![p] = Idle] /\ faults' = faults + 1
    /\ UNCHANGED <<objects, conds, cluster, updates>>

OperatorRestarts ==
    /\ faults < MaxFaults /\ \E p \in Handlers : h[p].pc # "idle"
    /\ h' = [p \in Handlers |-> Idle] /\ faults' = faults + 1
    /\ UNCHANGED <<objects, conds, cluster, updates>>

Change(new) == /\ updates < MaxUpdates /\ updates' = updates + 1
               /\ desired' = new
               /\ UNCHANGED <<handled, conds, cluster, h, faults>>

\* Users write something new, or again what was handled last or is being
\* handled: taken back before its handler is called, a change is none to kopf.
UserChangesCr ==
    \E new \in [gen : {0}, text : {desired.cr.gen + 1}, shape : Shapes]
              \cup {handled.cr, h["cr"].seen.cr} :
        /\ new.text \notin {0, desired.cr.text}
        /\ Change([desired EXCEPT !.cr = [new EXCEPT !.gen = desired.cr.gen + 1]])
UserChangesSecret ==
    \E new \in [user : Users, password : {desired.secret.ver + 1}, ver : {0}]
              \cup {handled.secret, h["secret"].seen.secret} :
        /\ new.password # desired.secret.password
        /\ Change([desired EXCEPT !.secret = [new EXCEPT !.ver = desired.secret.ver + 1]])
UserChangesConfig ==
    \E new \in {updates + 2, handled.config, h["config"].seen.config} :
        new # desired.config /\ Change([desired EXCEPT !.config = new])

Environment ==
    \/ \E i \in Indices : PodCreated(i) \/ PodUp(i) \/ PodLost(i)
    \/ \E p \in Handlers : Interrupted(p)
    \/ MonitorReports \/ OperatorRestarts \/ UserChangesCr \/ UserChangesSecret \/ UserChangesConfig

Next == (\E p \in Handlers : HandlerStep(p)) \/ Environment

Spec == Init /\ [][Next]_vars
----------------------------------------------------------------------------
TypeOK ==
    /\ desired \in Objects /\ handled \in Objects
    /\ conds \in {"none", "progress"} \cup Outcomes
    /\ sts \in [gen : Nat, replicas : 0..MaxPods, claims : {1, 2}]
    /\ pods \in [Indices -> Pod] /\ accounts \in [Users -> Nat]
    /\ h \in [Handlers -> Handler]
    /\ updates \in 0..MaxUpdates /\ faults \in 0..MaxFaults

\* Users have written again what was handled last: kopf has no reason to call
\* the handler, or to call it again after an interrupted run.
TakenBack(p) == desired[p] # handled[p] /\ ~Cause(p)

\* "In progress" is left behind in one case only, a change that users take back
\* after its run was interrupted.  In every other, while it is the last
\* condition, kopf has a change of the CR or the secret that is not recorded as
\* handled: even if the operator stops, a handler is called that replaces it.
ProgressIsOwned ==
    conds = "progress" => \E p \in {"cr", "secret"} : Cause(p) \/ TakenBack(p)

\* The pods this run of p has rebooted and nobody else since, not up again.
DownBy(p) == {i \in h[p].taken :
                 i < sts.replicas /\ pods[i].by = p /\ pods[i].state # "up"}

\* A run takes a pod down only when those it took down before are up again,
\* if the StatefulSet has the replicas the handler knows and had them at each
\* check of this run: reboot_pods does not look at what it has deleted, it
\* relies on the number of nodes alone.
SteadyRolls ==
    \A p \in Handlers :
        h[p].steady /\ h[p].seen.cr.shape.replicas = sts.replicas =>
            Cardinality(DownBy(p)) <= 1

\* When a change of the secret is about to be reported as done, every pod was
\* started with it or a later one, and unless it has changed again it opens
\* the broker -- although pods with the old one import the old account when
\* they come up, and accounts are also changed by a command in the first pod.
SecretTakesEffect ==
    h["secret"].pc = "finish" =>
        /\ \A i \in Present : pods[i].secret.ver >= h["secret"].seen.secret.ver
        /\ Up # {} /\ desired.secret = h["secret"].seen.secret =>
             accounts[desired.secret.user] = desired.secret.password

\* An update with auto_reboot that found all pods of the StatefulSet when it
\* counted them has started every pod with the new template in the end.
CountedPodsUpdated ==
    /\ h["cr"].pc = "enable" /\ h["cr"].seen.cr.shape.reboot
    /\ h["cr"].old = 0..(h["cr"].was - 1)
    => \A i \in Present : pods[i].gen >= h["cr"].seen.cr.gen

\* deploy.md: with auto_reboot "the RabbitMQ pods are rebooted one after
\* another during update": the runs of all handlers together have at most one
\* pod down (in clusters that keep their size).
OnePodDown == Cardinality(UNION {DownBy(p) : p \in Handlers}) <= 1

\* installation.md: "the RabbitMQ pods are rebooted one after the other during
\* the update, and it checks the cluster formation": the same for one run
\* alone, whatever became of the updates before it.
RollsOneByOne == \A p \in Handlers : Cardinality(DownBy(p)) <= 1

\* deploy.md: with auto_reboot "the RabbitMQ pods are rebooted [...] during
\* update", all of them: at its end each was started from the new template,
\* however many pods there were when on_update counted them.
UpdateReachesPods ==
    h["cr"].pc = "enable" /\ h["cr"].seen.cr.shape.reboot =>
        \A i \in Present : pods[i].gen >= h["cr"].seen.cr.gen

\* Two handlers have something left to do.
Busy(p) == h[p].pc # "idle" \/ Cause(p)
Contended == \E p, q \in Handlers : p # q /\ Busy(p) /\ Busy(q)

\* A pod in which a handler runs a command at its beginning, before it has
\* looked whether the pods run, does not come up.
NoCommand ==
    \/ Cause("secret") /\ pods[0].state # "up"
    \/ /\ Cause("cr") /\ desired.cr.shape.clean
       /\ \E i \in Indices : i < desired.cr.shape.replicas /\ pods[i].state # "up"

\* If every call of a handler comes back (no command in a pod has a time limit)
\* the status ends with an outcome, but for three cases.  A handler whose
\* command finds no running container raises and is called again, for ever.
\* Two handlers may delete the pods under each other's commands and run again
\* for ever.  And a change may be taken back after its run was interrupted.
StatusSettles ==
    WF_vars(\E p \in Handlers : HandlerStep(p)) =>
        <>[](conds \in Outcomes \/ NoCommand \/ Contended
               \/ \E p \in Handlers : TakenBack(p))
=============================================================================
