# Verification project for the RabbitMQ operator

TLA+ models, TLC runs and TLAPS proofs for the RabbitMQ operator of this
repository: the kopf operator (`src/operator/src`), the Helm chart that installs
it (`src/operator/charts`), the images around it (broker, backup daemon,
telegraf). The interesting behaviour is in the operator: long-running handlers,
retried and interrupted at any point, that drive other systems by bounded
polling. Source paths below are relative to the repository; `handler.py` and
`backup_helper.py` are in `operator/src/`.

## 1. Inventory

| Component | Code | State it keeps | Operations |
|---|---|---|---|
| DR switchover | `handler.py:1460-1497, 1564-1652, 2072-2127`, `backup_helper.py` | `status.disasterRecoveryStatus`, daemon replicas, backups in the shared storage | `set_disaster_recovery_state`, `perform_backup`, `restore_last_backup`, `switchover_annotation_changed` |
| Reconciliation | `handler.py:1703-2069` | status conditions of the CR, StatefulSets, services, secrets, broker password | `on_create`, `on_update`, `on_update_secret`, `on_update_configmap`, `on_delete` |
| Rolling reboot and PV cleanup | `handler.py:402-423, 799-845, 1086-1117, 1262-1279` | pods of the StatefulSets, a cleanup flag per volume | `reboot_pods`, `set_clean_pv_flag_and_delete_pods`, `check_cluster_state` |
| StatefulSet update | `handler.py:462-487, 1039-1053, 1231-1253` | StatefulSets and orphaned pods | `update_stateful_set`, `_update_already_presented_rmq_statefulset` |
| Cluster monitor | `handler.py:1680-1701` | `CLUSTER_DOWN_SINCE` | `cluster_monitoring` timer |
| Shovel monitor | `handler.py:1281-1355, 1663-1677`, `rabbit_helper.py` | enabled plugins of each pod | `shovel_monitoring` timer |
| Feature flags, users | `handler.py:365-372, 1357-1404`, `rabbit_helper.py` | broker's flags and users | `nodes_enable_feature_flags`, `change_password` |
| Node lifecycle | `rabbitmq-docker/docker-entrypoint.sh`, `rabbitconstants.py` | files on the volume: cookie, flags, mnesia | entrypoint, probes, post-start, pre-stop |
| Backup scripts | `rabbitmq-backup-daemon/scripts/*.py` | JSON file per vhost, exit status | `create_backup.py`, `restore_from_backup.py` |
| Status of integration tests | `handler.py:249-300` | conditions of the test deployment | `wait_test_deployment_result` |
| Metrics | `telegraf/exec-scripts/*` | none: computed from HTTP answers | `influx`, `prometheus`, parsers |
| Robot tests, pod checker | `operator/operator-robot-image`, `integration-tests` | none of the product | polling before the tests |
| Chart, dashboards, docs | `operator/charts`, `docs` | rendered configuration | templates |

How they interact. All operator code runs in one process. kopf runs synchronous
handlers in threads; the change handlers of one object run one after another,
but timers, and the handlers of other objects (the secret, the ConfigMap), run at
the same time as those of the custom resource (CR). They share no lock: they
meet in the CR status (read, append, patch; a patch with an old
`resourceVersion` is refused with 409 and the handler fails), in the pods they
delete, in the secret and in the broker. An exception makes kopf run the handler
again from its start; only `PermanentError` ends it. An operator pod that dies
leaves its handlers unfinished; kopf calls them again after the restart, with the
status as the dead process left it. In DR mode a CronJob force-deletes the operator pod
on a schedule (`charts/.../restart-scheduler`), so this is normal operation.
Two sites share one backup storage; otherwise they do not talk to each other,
the site manager or a user drives each through its CR.

What makes it correct, per component:

* *Switchover*: nothing written by the old active site is lost when it is taken
  down; the new active site gets the newest complete backup of the other; the
  reported status says what happened; every mode and every retry asked for gets a run.
* *Reconciliation*: the conditions end with the outcome of the last change; a
  change of configuration or password reaches every pod; handlers do not block
  each other for ever.
* *Reboot*: at most one broker at a time is taken down; the next one goes only
  when the cluster is complete again.
* *StatefulSets*: whatever step fails or is interrupted, a retry restores them.
* *Monitors*: a broken cluster or shovel is detected and repaired.
* *Node lifecycle*: a volume is cleaned as a whole or not at all; a node joins
  with the right cookie.
* *Backup scripts*: reported success means all vhosts were exported or imported.
* *Metrics*: values belong to the nodes they are reported for.

The complete list of hazards, with the line where each bites, is in
`PROJECT.json`.

## 2. Plan

In order of importance. 1 to 4 are done; 5 is left.

1. `Switchover` - the handler, its retries, daemons, storage, users and faults;
   `SwitchoverContract` - what an observer is promised; `SwitchoverRefinement`,
   `SwitchoverHistory`, `SwitchoverProofs`, `SwitchoverSafety`, `SwitchoverRestores`.
2. `Reconcile` - the CR, secret and ConfigMap handlers, their rolling reboots,
   the StatefulSet that is replaced or created anew, the broker accounts;
   `ReconcileProofs`.
3. `Clients` - the programs that ask the broker's API while it changes:
   `Monitors` (the two timers), `BackupScripts`, `Metrics` (the Telegraf scripts),
   over the environment `Broker`; `MonitorsProofs`, `BackupProofs`,
   `MetricsProofs`.
4. `NodeLifecycle` - entrypoint, cleanup flag, marker, probes, hook, peers joining, a
   kill at any place; `NodeLifecycleProofs`.
5. Of `Reconcile`, the host-path configuration (a StatefulSet per pod,
   downscale) and `on_delete`, if they add a behaviour that the storage-class one
   does not have; the status of the integration tests.

Every invariant and every action property of the passing runs is proved (section 5).
Proofs still worth making: that a run of a handler is bounded, as is proved of the
monitors and scripts, for `Reconcile` and `Switchover`.

## 3. Modules

### Switchover

**`Switchover`.** One record `h[s]` per site holds the place of
`set_disaster_recovery_state` and its local variables. Places and code:
`idle` (no handler runs; `Begin`/`Reject` are `handler.py:2091-2110`), `backup`
and `backupJob` (`perform_backup`), `scaleDown`/`waitDown`, `scaleUp`/`waitUp`,
`list`, `scan`, `lock`, `relook`, `post` (one attempt of
`_restore_last_backup_with_retry`), `restoreJob`, `report`. Each request to the
daemon and each write to Kubernetes is one step, so another site, a daemon or a
user may act between any two. `tries` and `reason` are the state of
`with_attempts`. `base`, `skipped`, `busy`, `unlocked` remember what this run saw
so that properties can speak of it; no guard uses them. `spec`/`handled`
stand for the CR and for kopf's record of the last handled change, `dr` for
the status, `replicas`/`up` for the daemon deployment and pod, `backups` for
the storage both sites see (append only, oldest first), `restoring`/`applied` for
imports. A lost answer is `PostBackup`/`PostRestore` with its second outcome:
the daemon has the job, the handler does not know and asks again. `Report` writes the
status and lets kopf record the change, or is interrupted between the two: the finished
run is then repeated. Waiting
times are not modelled: a bounded polling loop may find its condition, or
run out whenever the condition does not hold.

**`SwitchoverContract`** is the observer's view: asked, running, done or failed,
with "saved" between leaving the active mode and done. **`SwitchoverRefinement`**
gives the mapping. **`SwitchoverHistory`** adds when a site last
served, to state a promise of the documentation that spans several runs of the
handler. **`MCSwitchover`, `MCSwitchoverHistory`** give constants their values.
**`SwitchoverProofs`**, **`SwitchoverSafety`** and **`SwitchoverRestores`** hold the proofs.

### Reconcile

**`Reconcile`** has one record `h[p]` for each of the three change handlers, `p`
being the object that changed: `cr` (`on_create`, `on_update`), `secret`
(`on_update_secret`) and `config` (`on_update_configmap`). kopf runs one change
of an object at a time and the handlers of different objects in parallel, so
three places are enough.

| State | In the code |
|---|---|
| `desired`, `handled` | the objects, and kopf's last-handled annotation on each; `gen` and `ver` count the edits, `text` and `password` stand for what is written |
| `conds` | type of the last status condition: none, in progress, ok, failed |
| `sts`, `pods` | the StatefulSet `rmqlocal` and its pods; a pod remembers the template, ConfigMap and secret it was started with |
| `accounts` | the broker's users and the version of each one's password (0: no such user) |
| `seen`, `creds`, `old`, `existed`, `todo` | a handler's `spec`, the secret of its current cluster check, `old_pods_count`, `rabbit_exist_before`, the rest of its loop |

Users write something new or take a change back: they write what was handled last, or
what the running handler has read. kopf compares contents (`Cause`), so after a change
that is taken back it sees none and calls no handler, even if the run of the first change
was interrupted and has left "In progress" in the status (`TakenBack`).

Places of the CR handler in order: `flags` and `exec` (before an upgrade: the pods are
listed, then a command in each of them, one step per pod),
`apply` (checks of the configuration, replacement of the StatefulSet; `create`
when it had to be deleted first), `clean` (`set_clean_pv_flag_and_delete_pods`),
`roll` and `check` alternating (`reboot_pods`, `check_cluster_state`), or
`present` and `running` without reboot (`check_rabbit_pods_readiness`), `enable`,
`finish`. The secret handler: `wait`, `change` (`rabbitmqctl` in pod 0), `list`,
`roll`/`check`, `finish`. The ConfigMap handler: `list`, `roll`/`check`,
`finish`. `End` is a return or `PermanentError`, `Raise` any other exception,
after which kopf starts the handler again. A command in a pod whose container does not
run raises: in `exec`, `clean`, `change` and `enable`. `taken`, `was`, `steady` and the field `by` of
a pod serve only the properties. A pod that a smaller StatefulSet removes was deleted by no
handler (`by` is `none`).

`SteadyRolls` promises one pod at a time only to a handler with `steady`: at each of its
checks the StatefulSet had as many replicas as the CR it has read. Comparing the two numbers
at one moment is not enough: with three pods TLC finds a check that counts two running nodes
for a CR with two replicas while the StatefulSet still has three, one of its pods is down, and
the StatefulSet shrinks after that. What happens without the condition is the finding of
`reconcile_after_failure`.

What is abstracted, and why that is sound:

* Polling loops: `check` may fail whenever the cluster is not complete, without
  counting its tries, so a check that runs out of them is one that fails.
* The handlers of the secret and the ConfigMap sleep (`TIME_TO_WAIT_...`) so
  that a CR changed by the same Helm upgrade is in progress before they begin.
  `CrIsFirst` takes that delay as long enough.
* Deleted pods are gone at once, without a terminating phase. This and `CrIsFirst` are the
  two timing assumptions; a check that still counts a node which is being stopped is not
  modelled.
* A command in a pod has no time limit in the code (`handler.py:319-330`); here it ends.
  The premise of `StatusSettles` says so.
* Of the conditions, which the code appends to a list and trims, only the last
  one counts. A 409 on writing it is one of the causes of `Interrupted`.
* `MonitorReports` lets the timer `cluster_monitoring` report a failure at any
  time; the real one does it after 15 minutes with fewer nodes than replicas.
* The storage-class configuration, `HANDLE_FORBIDDEN_UPDATE` and definitions
  imported at every start of a broker (event logging), the defaults of the chart.

**`MCReconcile`** names the shapes a user may write to the CR.

### Clients of the broker

**`Broker`** is the environment: what the management API says of nodes, shovels,
connections and definitions, and what changes it (nodes stop, start and leave, users
edit). It is outside the repository and modelled from what the programs below read.
A stopped node is in the answer with its statistics (`stale`), then without them
(`bare`), then not at all (`left`). `scant` are the lists with an entry that lacks the
statistics a parser takes for granted: a queue of a node that is down, an exchange
that has not seen both directions of traffic, an overview before its first unroutable message. Every request
may fail. The number of replicas does not change while a program runs. Most requests have no
time limit (`rabbit_helper.py:69, 83, 102`, `prometheus.py:104`, the backup scripts, the commands
in pods): one that never returns is a program that takes no more step. Nothing is claimed about when a run
ends, only that it has a bounded number of steps.

**`Metrics`**: `task[t]` is a concurrent task of a script with the answers it has so far,
the raised requests of the current one and its result (`batch`, `Lost` if the task
raised and the script put an empty list in its place). An answer is the whole view at
the moment of the request; the parsers are `Parse...`, with the `KeyError` that loses
a batch as `Lost`. `Batch` is all they can return; the only assumption is that the marks
`None` and `Lost` are not among it. `prometheus.py` lists queues, channels or connections first and
nodes second, so the two may disagree; an item whose node has gone makes its batch
empty, one missing field of one node makes all node metrics empty. The tasks of `influx.py` lose
their series the same way: one entry of a list without its statistics is a `KeyError` for all of them. The request of
`version_info.py` catches its own errors, so its retry never applies and it prints
`unknown`.

**`BackupScripts`**: `job` is the running script with the entries left (`todo`) and
its variable `backup`; `folder` the files. Two facts of the code that the model keeps:
the function of the restore returns 1 on an error but `__main__` drops the value, so
`job.result` is what the function returns and the process exits with 0 in any case; and a
file that cannot be read is only logged, after which the definitions read before
are posted into the next virtual host (an unbound name for the first one, which makes
the function return 1). A request to create a virtual host whose answer is lost has created it
(`Created`). `RestoreIsInOrder` states what holds nevertheless: `Source(k)` is the file really
imported at position k, the last readable one up to there (`Latest`); `Reached(v)` are the
positions at which v was or is imported into, and at each one that is passed and `Due` v has
got all of `Source`. It speaks of positions and not of virtual hosts because a list may name
one twice: if its file cannot be read the second time, it gets the file of another one on top of
its own.

**`Monitors`**: `mon` is the place and the variables of a run of
`shovel_monitoring`. An empty list, a failed request and an entry with unknown fields
all count as "alive". Disabling or enabling a plugin is recognised by the command's
output only if it has switched the plugin: when an enabling has failed, or its answer
is lost, the next attempt finds the plugin off, does not recognise that, and the run
ends with the plugin off. That it is only one plugin is `OneAtATime`.
The pods come in whatever order the API lists them.
`ClusterTick` is `cluster_monitoring`, which compares the result of
`check_cluster_state` with `"error"`; that function returns nothing or raises.

**`Clients`** composes them. The programs share nothing but the broker, and none reads
what another writes there, so each behaviour has one of them; `Recorded` keeps the
history that the properties need. **`MCClients`** gives constants their values.

### NodeLifecycle

| State | In the code |
|---|---|
| `data[i]` | the database on volume i: the members of the cluster it describes, `{}` without one |
| `marker`, `flag` | the files `started_at_least_once`, `delete_all` of the volumes |
| `at[i]` | where the container is: in `docker-entrypoint.sh` (`wipe ...`), the server (`boot`, `join`, `up`), the pre-stop hook (`stop`, `purge`), or `down` |
| `touching` | readiness probes between `await_online_nodes` and `touch` |
| `clean` | `set_clean_pv_flag_and_delete_pods`: next pod, and whether its flag is set |

`rm -rf` of the entrypoint is two steps, database and marker, because a kill may come
between them; the flag goes first, with the start. The operator's command can enter any container
that exists; in one that is emptying its volume or ending it may also fail. The liveness probe's
`stop_app`, `join_cluster` and `start_app` are one step: a probe that times out between them leaves a
node that fails its probes until its container is ended, with the old database or the new one, which is
`Killed` before or after the step. Probes and hooks are those of
`rabbitconstants.py`, for both layouts. The server is external: without data it joins a
running node its discovery has found, or forms a cluster; with data it boots unless a
running member has forgotten it. `cut` and `old` serve only the properties.

## 4. Runs

| Run | Shows |
|---|---|
| `switchover_runs` | types, backup before scale-down, replicas match a reported mode, refinement of the contract; every mode and retry asked for gets a run with a result, if no request hangs |
| `switchover_search` | which backup is restored, and that done means restored |
| `switchover_retry` (violation) | an interrupted run towards standby is repeated without its backup |
| `switchover_unlocked` (violation) | a backup unlocked at the second look is passed over |
| `reconcile_rolling` | two changes and three pods: a run keeps the cluster check between two pods; an update reaches all pods it has counted; a reported password change opens the broker |
| `reconcile_paths` | the same on every way through the handlers, with a fault; types; "In progress" is only left behind by a change that was taken back, and the status ends with an outcome but for three cases |
| `reconcile_down` (violation) | rolling reboots of two handlers stop the whole cluster together |
| `reconcile_after_failure` (violation) | after a failed downscale the next rolling reboot does not wait between pods |
| `reconcile_missed` (violation) | a pod missing when `on_update` counts leaves the last pod on the old template |
| `clients_runs` | what is printed, backed up, restored and restarted while the broker changes and requests fail; scripts and monitor runs have a bounded number of steps |
| `cluster_restart` (violation) | a cluster that is down for longer than the threshold is not restarted |
| `node_lifecycle` | the marker is earned; a cleanup reaches every volume; the cluster comes together again |

The violations are disagreements between the code and its documents; the
findings in `PROJECT.json` quote both.

Bounds of `Switchover`. Two sites: all interaction is through the storage, where every
other site looks alike. `south` is settled in the active mode, so that there is
always someone producing foreign backups, and the requests go to `north`. Two
requests give a switchover back and forth, or a retry during one; one fault
gives an interruption or a lost daemon pod at any place. With `MaxBackups` 1 the one
backup of `switchover_runs` is the run's own, a scheduled one, a foreign or a legacy one; that
the handler does not take a scheduled backup of its region, made besides its own, for it is left to the theorem
`SavedBeforeDown`. `switchover_search`
trades requests and faults for two attempts, two looks at a lock and two backups:
either both are new, a newer and an older candidate that change state while the search goes
on, or one is a legacy one without a region. `MaxBackups`,
`MaxRequests` and `MaxFaults` are the only bounds that are not in the code;
`Attempts` and `LockLooks` are its literals 3 and 3, made smaller.

Bounds of `Reconcile`. `reconcile_rolling` has three pods, or two: only with three can
a StatefulSet that shrinks leave more than one pod, and two pods of one handler be
down. Two changes, at any two moments, let two handlers meet or one run follow a failed
one; there are no faults. `reconcile_paths` has two pods, one that has been rebooted and one that
is still to be, and trades one change for four shapes of the CR, a second user
name, the monitor, and one fault: an interrupted handler, a restarted operator or a lost pod at any
place. It starts with a first change of the CR that is not handled yet (`Changed`): a new namespace, or
a running cluster whose CR users have changed to any of the shapes; one more change of any object, or the first
one taken back, comes at any moment. The four shapes are a rolling reboot; no reboot but one pod less and new
claims; a cleanup; and a configuration that is refused when it is created and only tested later.
`reconcile_rolling` starts in a namespace with nothing deployed or a cluster that runs as asked.
Changes, three pods and faults together are beyond TLC; the theorems have them all.
`MaxPods`, `MaxUpdates` and `MaxFaults` are not in the code.

Bounds of `Clients`. Two nodes, items, shovels and virtual hosts: one that changes and
one that does not. Two changes let a node stop and leave, or a definition change before
and after a request; two faults use up one retry (`Retries` is 1 instead of 5,
`Attempts` 2 instead of 3) or hit two places. `Joins` and `Singles` are one task each: tasks do
not see each other, so more of them only multiply the states. `Lists` are the
entry `all`, one virtual host, one named twice, and two in either order. `MaxChanges`, `MaxFaults` and `MaxTicks` are
not in the code.

Bounds of `NodeLifecycle`. Two nodes in both layouts, one deletion, one kill and one
cleanup, each at any place: a node that forms the cluster and one that joins.
`ClusterForms` is claimed for two nodes only: with three, node 1 needs one other
member (`Need(2)` is 2 too), and {0} and {1, 2} may stay apart. `MarkerEarned` is proved
for any number. `MaxDeletes`, `MaxKills` and `MaxCleans` are not in the code.

Deadlock is not checked in any run: with no more requests or changes the
systems stop.

Fairness. Only `NodeLifecycle` assumes any in its specification. The two liveness properties of
the operator carry their premise themselves: `WF` of the steps of a handler, that is, kopf calls a
handler with an unhandled change and runs it, and each of its calls comes back. The loops of
the code are bounded, its single requests are not: those of `backup_helper.py` (38, 68, 73, 78, 120, 126) and
the commands in pods (`handler.py:313-330`) have no time limit, so a connection on which nothing comes any
more would hold a handler for ever. Pods, jobs and users owe nothing.

`RequestsAnswered` is about each mode together with each value of the retry annotation: kopf must have recorded
just these as handled and the status have a result in that mode, so an old result does not answer
a retry. "running" stays in one case, which the property names: the run was interrupted and the user has
set the mode back to the handled one, so there is no difference to call a handler for.

`StatusSettles` excepts three cases. `NoCommand`: a handler that runs a command in a pod before it has
looked whether the pod runs (the password in pod 0, the cleanup flags) raises and is called again, and writes
"In progress" each time, as long as the pod does not come up. `Contended`: two handlers with something
left to do may delete the pods under each other's commands. `TakenBack`: a change that users took back after its
run was interrupted. `ProgressIsOwned`, the safety part, excepts the last one only. TLC shows
each if its exception is dropped.

`NodeLifecycle`: `WF` of each
container with its probes, and of the operator's handler, which is retried; `SF(Joins(i))`
and `SF(Boots(i))`: a liveness probe has to fail for 15 minutes before it kills, so a
node that can join or boot again and again will at some time. `ClusterForms` excepts what
really keeps a cluster apart: a cleanup that never ends (a pod that cannot be entered
makes it start from the first one), a marker that was not earned, and a node refused by
a cluster that has forgotten it which no hook purges, because it has the marker or is a
host-path node. TLC shows each if its exception is dropped. `CleanupDeletes` excepts old
data that a cleaned node has copied from a pod that was still to be cleaned: the
operator deletes a pod and goes on without waiting, so node 0 may rejoin a peer.

## 5. Proofs

All theorems hold for every value of the constants that satisfies
the named assumptions (`SwitchoverAssumption`, `ReconcileAssumption`,
`LifecycleAssumption`, and those of `Broker` and the clients), and rest on nothing else.

* `SwitchoverProofs`, `TypeCorrect`: `Spec => []TypeOK`. `TypeOK` is inductive as
  it stands: `Placed` says that no index held by a handler, an import or a
  broker leaves the storage.
* `SwitchoverSafety`, `SavedBeforeDown`: `Spec => []BackupBeforeScaleDown`. The
  property speaks of the places after the backup; to be inductive it needs what
  the places before it know (`RunInv`): which way a run at each place is going
  (`PlaceInv`), that the job `backupJob` waits for is the site's own full backup
  begun by this run (`JobInv`), and that from the scaling on it is complete
  (`SavedInv`). The storage only grows and a complete backup stays complete.
* `SwitchoverSafety`, `DoneIsScaled`: `Spec => []DoneMeansReplicas`, where users
  change the mode in the CR only. `ReplicasInv` adds the replicas at each place of
  a run, and that the status says "running" as long as a handler runs: the
  reported mode and the replicas therefore never change while it says "done".
* `SwitchoverSafety`, `SwitchoverImplements`: `Spec => ImplementsContract`, the refinement.
  `RunningInv` (while a handler runs the status says so, with its mode) makes the report a
  `Finish`, `SavedInv` forbids a `Finish` as done from "leaving", and `OwnBackupSame` that
  a step of another site or a handler completes a backup: only `BackupJobEnds` can be a `Save`.
* `SwitchoverRestores`, `OnlyReadyImported` and `ActiveIsRestored`. `LookedAt` says what
  the search knows of the backup it is at: picked, it is a full one of another region, and
  from `post` on it is complete, which it stays. `SearchGoes` names the ways a step of
  any actor can move the search, and `SearchKeeps` treats each once.
* `SwitchoverRestores`, `NewestIsRestored`: `Spec => []RestoresNewestComplete`. The property
  alone is not inductive: a backup found locked after the list came is passed over, so
  `Unlocked` must say that one not locked then is not locked now (`StatesSettle`).
* `ReconcileProofs`, `ReconcileTypeCorrect`: `Spec => []TypeOK`. `TypeOK` alone is
  not inductive: `First(todo)` has a value only if there is a pod to take, so
  `HasTodo` goes with it. The actions are sorted once into kinds (a handler begins,
  works, raises, finishes: `HandlerKinds`), and each kind is treated once.
* `ReconcileProofs`, `ProgressOwned`: `Spec => []ProgressIsOwned`. A handler that
  waits may write "In progress" long after it was called, so the invariant must
  say what is known of its object then. `Owned` is that the recorded edit of the CR or the secret is not the object's: then the
  contents differ, which is a cause, or users have taken the change back (`CauseDiffers`, `OwnedMeans`). The
  recorded version of the secret is older than the one the handler has read (`SecretKept`); of
  the CR it is enough that nothing recorded is newer than the object (`CrKept`).
* `ReconcileProofs`, `SecretEffective`: `Spec => []SecretTakesEffect`. A pod with an older
  secret that comes up late brings the old account back, so `SecretRun` must follow the run from
  its first deletion: each pod has what the handler has read or a later secret, or is still in
  `todo`; the secret of its check is not older either. `PodSecrets` says that no pod has a
  secret newer than the object's, nor another one with the same version.
* `ReconcileProofs`, `SteadyRolling`: `Spec => []SteadyRolls`. `Own(p)` are the pods p has
  deleted, within its replicas, that are not up. `Rolls(p)`: a steady handler has at most one, and
  none except at the check that follows the deletion. A check that passes has seen as many
  running nodes as there are replicas, so `SetPods` (no pod beyond the replicas) makes all of them up.
* `ReconcileProofs`, `CountedUpdated`: `Spec => []CountedPodsUpdated`. If `old_pods_count` was
  the number of replicas there are no other pods until the StatefulSet is applied (`Counting`);
  afterwards each has this or a later template, or is in `todo` (`Covering`).
* `NodeLifecycleProofs`, `NodeTypeCorrect` and `MarkerIsEarned`:
  `Spec => []TypeOK`, `Spec => []MarkerEarned`. `Sound(i)` adds what a probe that is about
  to touch the marker knows: it has seen enough members, and only the hook can have
  removed the data since, in which case the container has ended. Databases of
  others only grow (`Elsewhere`), so a node's own steps are the only ones to examine.
* `NodeLifecycleProofs`, `CleanupIsThorough`: `Spec => []CleanupDeletes`. A pod with old data
  the operator is past is `Doomed`: it is being emptied, or is not running and has the flag. The
  flag is only lost together with the data, unless the container's end interrupts rm (`cut`).
* `MonitorsProofs`, `OnePluginAtATime` and `RestartsHaveCause`. `PluginInv` says that the
  plugins a run has turned off (`Gone`) are none before the pods and at most the one
  at work among them; it leaves a pod only with its plugin on. `CauseInv` adds that a
  list whose shovels are not all running is itself the cause, so 80 percent can only be
  missed with one.
* `MonitorsProofs`, `RestartedHasPlugin`: `Spec => []RestartedIsOn`. The pods left are listed once
  and none is already done (`LeftInv`), in whatever order, so a pod is not turned off again
  after it; only the next run may do that.
* `MonitorsProofs`, `RunsAreBounded`: `Spec => RunsShrink`. `StepsLeft` weighs the place, the pods,
  the attempts and the shovels left; each step of a run lowers it. `CountdownInv` says that the
  attempts counted belong to the pod at work and that no pods are added.
* `MonitorsProofs`, `ClientsTypeCorrect`: `Spec => []TypeOK` of `Clients`, from the invariants of
  all programs (`AllInv`), since none writes what another one keeps.
* `MetricsProofs`, `BatchIsOfOneMoment` and `PrintedStateIsHonest`. `Result(t, b)` says what a task has made
  of answers that are views of the scrape; two answers of different moments agree in the
  end because an item on a node that the second one does not list loses the batch.
* `MetricsProofs`, `LossExplained`: `Spec => []LossIsExplained`. `OnMembers`: an item of one answer is
  on a node of the same answer, so a `KeyError` needs an entry or a node without statistics or a node
  that left between two answers. `Counts`: a task gives up only after one raise more than it may.
* `MetricsProofs`, `ScrapesAreBounded`: `Spec => ScrapesShrink`. A task without a result has
  answers to come (`AskInv`); a parser always returns a result, so it is not called twice.
* `BackupProofs`, `BackupTellsTruth` and `RoundTripComplete`. During a backup an entry is done (`Good`: a
  readable file of one moment) or still to do, during a restore of a complete backup it is back
  (`Back`) or still to do, and what is imported is the file just read: the
  stale `backup` needs an unreadable file, which a complete backup has not.
* `BackupProofs`, `RestoreInOrder`: `Spec => []RestoreIsInOrder`. `OrderInv` ties the variable
  `backup` to the list: before a file is read it is the latest readable one up to the position
  before, afterwards up to this one; `todo` is the end of the list from here (`AtEnd`).

Model-checked only: liveness, which is out of the prover's reach (`RequestsAnswered`, `StatusSettles`,
`ClusterForms`).

## 6. Not modelled

Not yet, see the plan: the host-path configuration of the reconciliation and
`on_delete`. Not at all: the robot tests, the chart and the transfer images compute or
render, keep no state of their own and meet nothing that runs beside them; services,
PVCs and deployments are single calls whose content no property speaks of; the status of
the integration tests is a predicate on one object, of which `Reconcile` takes
both outcomes. `PROJECT.json` gives the reason for each.
