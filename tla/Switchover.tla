---------------------------- MODULE Switchover ----------------------------
(***************************************************************************)
(* Disaster-recovery switchover of RabbitMQ sites that share one backup    *)
(* storage.  Every site has its own operator; the handler                  *)
(* set_disaster_recovery_state (handler.py) moves the site to the mode its *)
(* custom resource asks for: a site that leaves `active' makes a full      *)
(* backup and scales its backup daemon down, a site that becomes `active'  *)
(* scales the daemon up and restores the last full backup of another       *)
(* region (backup_helper.py).                                              *)
(*                                                                         *)
(* Times are abstracted: a bounded polling loop may run out whenever its   *)
(* condition does not hold.                                                *)
(***************************************************************************)
EXTENDS Integers, Sequences

CONSTANTS
    Sites,         \* the regions, each with one RabbitMQ cluster and operator
    Settled,       \* sites that are active already and stay so
    Attempts,      \* tries of a request to the daemon (with_attempts: 3)
    LockLooks,     \* reads of a locked backup (_check_backup_unlocked: 3)
    Wishes,        \* what users write to spec.disasterRecovery (mode, noWait)
    Channels,      \* how a user changes the mode: "rest" and/or "helm"
    MaxBackups,    \* bound on the backups in the storage
    MaxRequests,   \* bound on the users' requests
    MaxFaults      \* bound on interrupted handlers and lost daemon pods

NoMode == "none"
Modes  == {"active", "standby", "disable"}
AnyMode == Modes \cup {NoMode}

ASSUME SwitchoverAssumption ==
    /\ "none" \notin Sites /\ Settled \subseteq Sites
    /\ Attempts \in Nat \ {0} /\ LockLooks \in Nat \ {0}
    /\ Wishes \subseteq [mode : AnyMode, noWait : BOOLEAN]
    /\ Channels \subseteq {"rest", "helm"}
    /\ MaxBackups \in Nat /\ MaxRequests \in Nat /\ MaxFaults \in Nat

VARIABLES
    spec,       \* spec.disasterRecovery and the switchoverRetry annotation
    handled,    \* the part of spec that kopf recorded as handled last
    dr,         \* status.disasterRecoveryStatus of the custom resource
    h,          \* the handler of the site: its place and local variables
    replicas,   \* spec.replicas of the backup daemon deployment
    up,         \* whether the pod of the backup daemon serves requests
    backups,    \* the shared storage, oldest backup first
    restoring,  \* backups the daemon of the site is importing
    applied,    \* the backup the broker of the site imported last, or 0
    requests, faults    \* counters of the bounded environment steps

crVars     == <<spec, handled, dr>>
daemonVars == <<replicas, up, restoring, applied>>
boundVars  == <<requests, faults>>
vars       == <<crVars, h, daemonVars, backups, boundVars>>
----------------------------------------------------------------------------
Request == [mode : AnyMode, noWait : BOOLEAN, retry : Nat]
Handled == [mode : AnyMode, retry : Nat]
Status == [mode : AnyMode, status : {"none", "running", "done", "failed"}]
Backup == [region : Sites \cup {"none"}, full : BOOLEAN,
           state : {"locked", "ok", "failed"}]

\* Places in the handler that only a run towards standby or disable, or only
\* one towards active, visits.
LeavingPlaces == {"backup", "backupJob", "scaleDown", "waitDown"}
SearchPlaces  == {"scan", "lock", "relook", "post"}
EnteringPlaces == SearchPlaces \cup {"scaleUp", "waitUp", "list", "restoreJob"}

\* The handler's place; what it read when it started (req, prev, and base, the
\* number of backups then); its local `status', the rest of its with_attempts
\* loop, and the backup or the restore task it is busy with.
Handler == [pc : {"idle", "report"} \cup LeavingPlaces \cup EnteringPlaces,
            req : Request, prev : AnyMode, base : Nat,
            status : {"done", "failed"},
            tries : Nat, reason : {"none", "not found"},
            job : Nat, task : {"none", "processing", "successful", "failed"},
            listed : Nat, busy : SUBSET Nat, skipped : SUBSET Nat,
            looks : Nat, unlocked : SUBSET Nat]

NoRequest == [mode |-> NoMode, noWait |-> FALSE, retry |-> 0]
Idle == [pc |-> "idle", req |-> NoRequest, prev |-> NoMode, base |-> 0,
         status |-> "done", tries |-> 0, reason |-> "none",
         job |-> 0, task |-> "none", listed |-> 0, busy |-> {}, skipped |-> {},
         looks |-> 0, unlocked |-> {}]

\* A handler with locals r works only on the n backups of the storage.
Placed(r, n) ==
    /\ r.listed <= n /\ r.job <= n
    /\ r.pc = "scan" => r.job <= r.listed
    /\ r.pc \in {"lock", "relook", "post"} => r.job \in 1..r.listed
    /\ r.pc \in {"backupJob", "restoreJob"} => r.job > 0
    /\ r.pc \in SearchPlaces => r.tries > 0

\* The ranges of the variables; no index a handler, an import or a broker
\* holds ever points outside of the storage.
TypeOK ==
    /\ spec \in [Sites -> Request]
    /\ handled \in [Sites -> Handled]
    /\ dr \in [Sites -> Status]
    /\ h \in [Sites -> Handler]
    /\ replicas \in [Sites -> {0, 1}]
    /\ up \in [Sites -> BOOLEAN]
    /\ backups \in Seq(Backup)
    /\ restoring \in [Sites -> SUBSET (1..Len(backups))]
    /\ applied \in [Sites -> 0..Len(backups)]
    /\ requests \in Nat /\ faults \in Nat
    /\ \A s \in Sites : Placed(h[s], Len(backups))
----------------------------------------------------------------------------
\* The chart renders the daemon with no replica in standby and disable mode.
ChartReplicas(m) == IF m \in {"standby", "disable"} THEN 0 ELSE 1

\* A recorded change is not handled yet: kopf will call the handler.
Cause(s) == \/ spec[s].mode # handled[s].mode
            \/ spec[s].retry # handled[s].retry

\* The backup get_latest_backup_id_from_another_cluster is looking for.
Candidate(b, s) == b.full /\ b.state # "failed" /\ b.region \notin {s, "none"}

NewBackup(s, full) == [region |-> s, full |-> full, state |-> "locked"]

\* A full backup from before disaster recovery: it records no region.
Legacy == [region |-> "none", full |-> TRUE, state |-> "ok"]

\* A settled site is done with its switchover to active, of a new site nothing
\* is handled; the daemon is as the chart installs it.
Init ==
    /\ \E first \in [Sites -> Wishes] :
         spec = [s \in Sites |->
           IF s \in Settled THEN [mode |-> "active", noWait |-> FALSE, retry |-> 0]
           ELSE [mode |-> first[s].mode, noWait |-> first[s].noWait, retry |-> 0]]
    /\ handled = [s \in Sites |->
         [mode |-> IF s \in Settled THEN "active" ELSE NoMode, retry |-> 0]]
    /\ dr = [s \in Sites |-> IF s \in Settled THEN [mode |-> "active", status |-> "done"]
                              ELSE [mode |-> NoMode, status |-> "none"]]
    /\ h = [s \in Sites |-> Idle]
    /\ replicas = [s \in Sites |-> ChartReplicas(spec[s].mode)]
    /\ up = [s \in Sites |-> FALSE]
    /\ backups \in {<<>>, <<Legacy>>}
    /\ restoring = [s \in Sites |-> {}]
    /\ applied = [s \in Sites |-> 0]
    /\ requests = 0 /\ faults = 0
----------------------------------------------------------------------------
\* A step of the handler that only changes its place and local variables.
Local(s, locals) == /\ h' = [h EXCEPT ![s] = locals]
                    /\ UNCHANGED <<crVars, daemonVars, backups, boundVars>>

\* An exception ends the try block: the handler goes on to report a failure.
Failed(s) == [h[s] EXCEPT !.pc = "report", !.status = "failed"]

\* Mutant: the recorded mode is read after the status was replaced.
BeginLateRead(s) ==
    /\ h[s].pc = "idle" /\ Cause(s) /\ spec[s].mode # NoMode
    /\ h' = [h EXCEPT ![s] =
         [Idle EXCEPT !.req = spec[s], !.prev = spec[s].mode, !.base = Len(backups),
            !.tries = Attempts,
            !.pc = IF spec[s].mode = "active" THEN "scaleUp" ELSE "scaleDown"]]
    /\ dr' = [dr EXCEPT ![s] = [mode |-> spec[s].mode, status |-> "running"]]
    /\ UNCHANGED <<spec, handled, daemonVars, backups, boundVars>>

\* kopf starts the handler: it reads the mode to reach and the mode recorded in
\* the status, and replaces the status by `running' with the new mode.
Begin(s) ==
    /\ h[s].pc = "idle" /\ Cause(s) /\ spec[s].mode # NoMode
    /\ h' = [h EXCEPT ![s] =
         [Idle EXCEPT !.req = spec[s], !.prev = dr[s].mode, !.base = Len(backups),
            !.tries = Attempts,
            !.pc = IF spec[s].mode = "active" THEN "scaleUp"
                   ELSE IF dr[s].mode \in {NoMode, "disable", "standby"}
                        THEN "scaleDown" ELSE "backup"]]
    /\ dr' = [dr EXCEPT ![s] = [mode |-> spec[s].mode, status |-> "running"]]
    /\ UNCHANGED <<spec, handled, daemonVars, backups, boundVars>>

\* No mode in the specification: PermanentError, nothing else happens.
Reject(s) ==
    /\ h[s].pc = "idle" /\ Cause(s) /\ spec[s].mode = NoMode
    /\ handled' = [handled EXCEPT ![s] = [mode |-> NoMode, retry |-> spec[s].retry]]
    /\ UNCHANGED <<spec, dr, h, daemonVars, backups, boundVars>>

\* POST /backup: the daemon starts a job; its answer may get lost, and then
\* the request is repeated.
PostBackup(s) ==
    /\ h[s].pc = "backup" /\ h[s].tries > 0 /\ up[s] /\ Len(backups) < MaxBackups
    /\ backups' = Append(backups, NewBackup(s, TRUE))
    /\ \/ h' = [h EXCEPT ![s].pc = "backupJob", ![s].job = Len(backups) + 1]
       \/ h' = [h EXCEPT ![s].tries = @ - 1]
    /\ UNCHANGED <<crVars, daemonVars, boundVars>>

\* Mutant: the attempts are not counted down to their end.
RequestFailsUncounted(s) ==
    /\ h[s].pc \in SearchPlaces \cup {"backup", "list"}
    /\ Local(s, [h[s] EXCEPT !.tries = @ - 1, !.reason = "none",
                             !.pc = IF @ = "backup" THEN @ ELSE "list"])

\* A request to the daemon fails (RequestException).  The search for a backup
\* is repeated as a whole.
RequestFails(s) ==
    /\ h[s].pc \in SearchPlaces \cup {"backup", "list"} /\ h[s].tries > 0
    /\ Local(s, [h[s] EXCEPT !.tries = @ - 1, !.reason = "none",
                             !.pc = IF @ = "backup" THEN @ ELSE "list"])

\* perform_backup: no request for a backup was answered.
BackupNotPerformed(s) ==
    /\ h[s].pc = "backup" /\ h[s].tries = 0
    /\ Local(s, Failed(s))

\* Mutant: only a failed job is told from a successful one.
BackupJobNotFailed(s) ==
    /\ h[s].pc = "backupJob"
    /\ Local(s, IF backups[h[s].job].state # "failed"
                THEN [h[s] EXCEPT !.pc = "scaleDown"] ELSE Failed(s))

\* check_job_status of the backup: done, or failed or out of attempts.
BackupJobChecked(s) ==
    /\ h[s].pc = "backupJob"
    /\ Local(s, IF backups[h[s].job].state = "ok"
                THEN [h[s] EXCEPT !.pc = "scaleDown"] ELSE Failed(s))

Scale(s, n, next) ==
    /\ replicas' = [replicas EXCEPT ![s] = n]
    /\ h' = [h EXCEPT ![s].pc = next]
    /\ UNCHANGED <<crVars, up, restoring, applied, backups, boundVars>>

ScaleDown(s) == h[s].pc = "scaleDown" /\ Scale(s, 0, "waitDown")

\* The loop ends when the pod is gone, and also when its attempts run out:
\* that is logged and the switchover goes on.
WaitedDown(s) == h[s].pc = "waitDown" /\ Local(s, [h[s] EXCEPT !.pc = "report"])

ScaleUp(s) == h[s].pc = "scaleUp" /\ Scale(s, 1, "waitUp")

\* A site without a recorded mode is a new installation, any other restores a
\* backup.  DisasterRecoveryException if the daemon is not up in time.
WaitedUp(s) ==
    /\ h[s].pc = "waitUp"
    /\ Local(s, IF up[s]
                THEN [h[s] EXCEPT !.pc = IF h[s].prev = NoMode THEN "report" ELSE "list"]
                ELSE Failed(s))
----------------------------------------------------------------------------
\* The search for the last backup of another region.

\* Mutant: the list is not reversed.
ListOldestFirst(s) ==
    /\ h[s].pc = "list" /\ h[s].tries > 0 /\ up[s]
    /\ Local(s, [h[s] EXCEPT !.pc = "scan", !.listed = Len(backups),
                   !.job = IF Len(backups) = 0 THEN 0 ELSE 1,
                   !.busy = {i \in 1..Len(backups) : backups[i].state = "locked"},
                   !.skipped = {}, !.unlocked = {}])

ListBackups(s) ==
    /\ h[s].pc = "list" /\ h[s].tries > 0 /\ up[s]
    /\ Local(s, [h[s] EXCEPT !.pc = "scan", !.listed = Len(backups), !.job = Len(backups),
                   !.busy = {i \in 1..Len(backups) : backups[i].state = "locked"},
                   !.skipped = {}, !.unlocked = {}])

NextOlder(s) == [h[s] EXCEPT !.pc = "scan", !.job = @ - 1]

\* The description of the newest backup not looked at yet is read; if that
\* fails with an HTTPError the backup is passed over.
ReadInfo(s) ==
    /\ h[s].pc = "scan" /\ h[s].job > 0 /\ up[s]
    /\ \/ Local(s, IF Candidate(backups[h[s].job], s)
                   THEN [h[s] EXCEPT !.pc = "lock"] ELSE NextOlder(s))
       \/ Local(s, [NextOlder(s) EXCEPT !.skipped = @ \cup {h[s].job}])

\* Mutant: the lock is not looked at.
CheckNotFailed(s) ==
    /\ h[s].pc = "lock" /\ up[s]
    /\ Local(s, IF backups[h[s].job].state = "failed" THEN NextOlder(s)
                ELSE [h[s] EXCEPT !.pc = "post"])

\* _check_backup_unlocked, the first look.
CheckUnlocked(s) ==
    /\ h[s].pc = "lock" /\ up[s]
    /\ Local(s, CASE backups[h[s].job].state = "failed" -> NextOlder(s)
                  [] backups[h[s].job].state = "ok" -> [h[s] EXCEPT !.pc = "post"]
                  [] backups[h[s].job].state = "locked" ->
                       [h[s] EXCEPT !.pc = "relook", !.looks = LockLooks - 1])

\* The repeated looks: the recursive call returns what it found, but its
\* caller returns None, so the search goes on with the next older backup.
LookAgain(s) ==
    /\ h[s].pc = "relook" /\ h[s].looks > 0 /\ up[s]
    /\ Local(s, CASE backups[h[s].job].state = "locked" -> [h[s] EXCEPT !.looks = @ - 1]
                  [] backups[h[s].job].state = "failed" -> NextOlder(s)
                  [] backups[h[s].job].state = "ok" ->
                       [NextOlder(s) EXCEPT !.unlocked = @ \cup {h[s].job}])

StillLocked(s) == h[s].pc = "relook" /\ h[s].looks = 0 /\ Local(s, NextOlder(s))

\* No backup of the list fits: DisasterRecoveryException, the search is
\* repeated while attempts are left.
NothingFound(s) ==
    /\ h[s].pc = "scan" /\ h[s].job = 0
    /\ Local(s, [h[s] EXCEPT !.tries = @ - 1, !.reason = "not found", !.pc = "list"])

\* POST /restore; as with a backup, the answer may get lost.
PostRestore(s) ==
    /\ h[s].pc = "post" /\ up[s]
    /\ restoring' = [restoring EXCEPT ![s] = @ \cup {h[s].job}]
    /\ \/ h' = [h EXCEPT ![s].pc = "restoreJob", ![s].task = "processing"]
       \/ h' = [h EXCEPT ![s].pc = "list", ![s].tries = @ - 1, ![s].reason = "none"]
    /\ UNCHANGED <<crVars, replicas, up, applied, backups, boundVars>>

\* Mutant: noWait also forgives a daemon that does not answer.
SearchEndsAnyway(s) ==
    /\ h[s].pc = "list" /\ h[s].tries = 0
    /\ Local(s, IF h[s].req.noWait THEN [h[s] EXCEPT !.pc = "report"] ELSE Failed(s))

\* The attempts are used up.  With noWait a storage without a fitting backup
\* is no failure, a daemon that does not answer still is.
SearchEnds(s) ==
    /\ h[s].pc = "list" /\ h[s].tries = 0
    /\ Local(s, IF h[s].req.noWait /\ h[s].reason = "not found"
                THEN [h[s] EXCEPT !.pc = "report"] ELSE Failed(s))

\* check_job_status of the restore task.
RestoreJobChecked(s) ==
    /\ h[s].pc = "restoreJob"
    /\ Local(s, IF h[s].task = "successful"
                THEN [h[s] EXCEPT !.pc = "report"] ELSE Failed(s))
----------------------------------------------------------------------------
\* Any other exception in the try block: the Kubernetes API, or reading the
\* status of a job, which is not repeated.
CallFails(s) ==
    /\ h[s].pc \in LeavingPlaces \cup {"scaleUp", "waitUp", "list", "restoreJob"}
    /\ Local(s, Failed(s))

\* Mutant: the mode reported is the one asked for by now.
ReportNewMode(s) ==
    /\ h[s].pc = "report"
    /\ dr' = [dr EXCEPT ![s] = [mode |-> spec[s].mode, status |-> h[s].status]]
    /\ handled' = [handled EXCEPT ![s] =
                     [mode |-> h[s].req.mode, retry |-> h[s].req.retry]]
    /\ h' = [h EXCEPT ![s] = Idle]
    /\ UNCHANGED <<spec, daemonVars, backups, boundVars>>

\* Mutant: a request made during the run counts as handled.
ReportAllHandled(s) ==
    /\ h[s].pc = "report"
    /\ dr' = [dr EXCEPT ![s] = [mode |-> h[s].req.mode, status |-> h[s].status]]
    /\ handled' = [handled EXCEPT ![s] =
                     [mode |-> spec[s].mode, retry |-> spec[s].retry]]
    /\ h' = [h EXCEPT ![s] = Idle]
    /\ UNCHANGED <<spec, daemonVars, backups, boundVars>>

\* The result is written to the status, and then kopf records what was handled,
\* unless the operator's pod is deleted in between.
Report(s) ==
    /\ h[s].pc = "report"
    /\ dr' = [dr EXCEPT ![s] = [mode |-> h[s].req.mode, status |-> h[s].status]]
    /\ \/ /\ handled' = [handled EXCEPT ![s] =
                           [mode |-> h[s].req.mode, retry |-> h[s].req.retry]]
          /\ UNCHANGED faults
       \/ faults < MaxFaults /\ faults' = faults + 1 /\ UNCHANGED handled
    /\ h' = [h EXCEPT ![s] = Idle]
    /\ UNCHANGED <<spec, daemonVars, backups, requests>>

\* The run ends without a result: the operator's pod is deleted (its restart
\* is scheduled), or the write of the status is refused because the resource
\* changed meanwhile.  kopf runs the handler again from its start.
Interrupted(s) ==
    /\ h[s].pc # "idle" /\ faults < MaxFaults
    /\ faults' = faults + 1
    /\ h' = [h EXCEPT ![s] = Idle]
    /\ UNCHANGED <<crVars, daemonVars, backups, requests>>

Leave(s) == \/ PostBackup(s) \/ BackupNotPerformed(s) \/ BackupJobChecked(s)
            \/ ScaleDown(s) \/ WaitedDown(s)
Enter(s) == \/ ScaleUp(s) \/ WaitedUp(s) \/ ListBackups(s) \/ ReadInfo(s)
            \/ CheckUnlocked(s) \/ LookAgain(s) \/ StillLocked(s) \/ NothingFound(s)
            \/ PostRestore(s) \/ SearchEnds(s) \/ RestoreJobChecked(s)
HandlerStep(s) == \/ Begin(s) \/ Reject(s) \/ Leave(s) \/ Enter(s)
                  \/ RequestFails(s) \/ CallFails(s) \/ Report(s)
----------------------------------------------------------------------------
\* The backup daemons and their deployments.

PodStarts(s) ==
    /\ replicas[s] = 1 /\ ~up[s]
    /\ up' = [up EXCEPT ![s] = TRUE]
    /\ UNCHANGED <<crVars, h, replicas, restoring, applied, backups, boundVars>>

\* The pod goes, scaled down or lost, and takes its jobs with it.
PodStops(s) ==
    /\ up[s]
    /\ \/ replicas[s] = 0 /\ UNCHANGED faults
       \/ replicas[s] = 1 /\ faults < MaxFaults /\ faults' = faults + 1
    /\ up' = [up EXCEPT ![s] = FALSE]
    /\ backups' = [i \in 1..Len(backups) |->
         IF backups[i].region = s /\ backups[i].state = "locked"
         THEN [backups[i] EXCEPT !.state = "failed"] ELSE backups[i]]
    /\ restoring' = [restoring EXCEPT ![s] = {}]
    /\ h' = [h EXCEPT ![s].task = IF @ = "processing" THEN "failed" ELSE @]
    /\ UNCHANGED <<crVars, replicas, applied, requests>>

BackupJobEnds(s) ==
    /\ up[s]
    /\ \E i \in 1..Len(backups), result \in {"ok", "failed"} :
         /\ backups[i].region = s /\ backups[i].state = "locked"
         /\ backups' = [backups EXCEPT ![i].state = result]
    /\ UNCHANGED <<crVars, h, daemonVars, boundVars>>

\* An import ends; it may be one whose handler no longer waits for it.
RestoreJobEnds(s) ==
    /\ up[s]
    /\ \E i \in restoring[s], result \in {"successful", "failed"} :
         /\ restoring' = [restoring EXCEPT ![s] = @ \ {i}]
         /\ applied' = [applied EXCEPT ![s] = IF result = "successful" THEN i ELSE @]
         /\ h' = [h EXCEPT ![s].task =
                    IF @ = "processing" /\ i = h[s].job THEN result ELSE @]
    /\ UNCHANGED <<crVars, replicas, up, backups, boundVars>>

\* The daemon's schedule, or a user, starts a full or a granular backup.
OtherBackup(s) ==
    /\ up[s] /\ Len(backups) < MaxBackups
    /\ \E full \in BOOLEAN : backups' = Append(backups, NewBackup(s, full))
    /\ UNCHANGED <<crVars, h, daemonVars, boundVars>>
----------------------------------------------------------------------------
\* The mode is changed: through the REST API only in the custom resource, by
\* a Helm upgrade also in the replicas of the rendered daemon deployment.
RequestMode(s) ==
    /\ s \notin Settled /\ requests < MaxRequests
    /\ \E wish \in Wishes, channel \in Channels :
         /\ wish.mode # spec[s].mode
         /\ spec' = [spec EXCEPT ![s].mode = wish.mode, ![s].noWait = wish.noWait]
         /\ replicas' = [replicas EXCEPT ![s] =
                           IF channel = "helm" THEN ChartReplicas(wish.mode) ELSE @]
    /\ requests' = requests + 1
    /\ UNCHANGED <<handled, dr, h, up, restoring, applied, backups, faults>>

\* The switchoverRetry annotation gets a new value.
RequestRetry(s) ==
    /\ s \notin Settled /\ requests < MaxRequests
    /\ spec' = [spec EXCEPT ![s].retry = @ + 1]
    /\ requests' = requests + 1
    /\ UNCHANGED <<handled, dr, h, daemonVars, backups, faults>>

Environment(s) ==
    \/ PodStarts(s) \/ PodStops(s) \/ BackupJobEnds(s) \/ RestoreJobEnds(s)
    \/ OtherBackup(s) \/ RequestMode(s) \/ RequestRetry(s) \/ Interrupted(s)

Next == \E s \in Sites : HandlerStep(s) \/ Environment(s)

Spec == Init /\ [][Next]_vars
----------------------------------------------------------------------------
\* A full backup of the site itself, started by this run, is complete.
OwnBackup(s) ==
    \E i \in (h[s].base + 1)..Len(backups) :
        backups[i].region = s /\ backups[i].full /\ backups[i].state = "ok"

\* A run that takes a site out of the active mode scales the daemon down and
\* reports success only after a full backup of this site, started by this
\* run, is complete -- whatever the daemon's jobs, lost answers and the
\* scheduled backups of the same region do.
BackupBeforeScaleDown ==
    \A s \in Sites :
        /\ h[s].req.mode # "active" /\ h[s].prev = "active"
        /\ h[s].pc \in {"scaleDown", "waitDown"}
             \/ (h[s].pc = "report" /\ h[s].status = "done")
        => OwnBackup(s)

\* While the search is at a backup, every newer one that was complete when
\* the list was received is unfit or could not be read; so the one that is
\* restored is the newest of those.
RestoresNewestComplete ==
    \A s \in Sites :
        h[s].pc \in SearchPlaces \cup {"restoreJob"} =>
            \A i \in (h[s].job + 1)..h[s].listed :
                Candidate(backups[i], s) => i \in h[s].skipped \cup h[s].busy

\* The daemon imports, and the broker has imported, only complete full
\* backups of other regions, although the state of a backup may change
\* between the reads of its description, its lock and the request.
OnlyForeignCompleteRestored ==
    \A s \in Sites : \A i \in restoring[s] \cup ({applied[s]} \ {0}) :
        backups[i].state = "ok" /\ Candidate(backups[i], s)

\* A site that had a mode before becomes active only with an import of the
\* backup this run selected, unless noWait and nothing was found.
ActiveMeansRestored ==
    \A s \in Sites :
        /\ h[s].pc = "report" /\ h[s].status = "done"
        /\ h[s].req.mode = "active" /\ h[s].prev # NoMode
        => h[s].task = "successful" \/ (h[s].req.noWait /\ h[s].reason = "not found")

\* While a switchover is reported as done the deployment of the daemon has
\* the replicas of its mode (if modes change only in the custom resource).
DoneMeansReplicas ==
    \A s \in Sites :
        dr[s].status = "done" /\ "helm" \notin Channels =>
            replicas[s] = IF dr[s].mode = "active" THEN 1 ELSE 0

\* disasterRecovery.md: "If backup daemon tries to restore backup on `active`
\* side it will restore the latest backup from the `other` region": a backup
\* that a repeated look found unlocked is not passed over for an older one.
UnlockedIsRestored ==
    \A s \in Sites :
        h[s].pc \in {"post", "restoreJob"} => \A i \in h[s].unlocked : i <= h[s].job

\* If kopf keeps calling and running the handler of a site, and each of its
\* requests is answered or fails (they have no timeout of their own; the loops
\* around them are bounded, and pods, jobs and users owe nothing), then
\*   - a recorded request that is not handled yet, a retry as well as a change
\*     of the mode, gets a run of its own: kopf records it with the status done
\*     or failed in its mode, or the user asks for something else meanwhile;
\*   - `running' does not stay, unless the run was interrupted and the user
\*     took the request back, so that kopf sees no change any more.
RequestsAnswered ==
    \A s \in Sites \ Settled : WF_vars(HandlerStep(s)) =>
        /\ \A mark \in [mode : Modes, retry : 0..MaxRequests] :
             LET Asked == spec[s].mode = mark.mode /\ spec[s].retry = mark.retry
             IN  Asked /\ Cause(s) ~>
                   \/ /\ handled[s] = mark /\ dr[s].mode = mark.mode
                      /\ dr[s].status \in {"done", "failed"}
                   \/ ~Asked
        /\ dr[s].status = "running" ~>
             \/ dr[s].status # "running"
             \/ h[s].pc = "idle" /\ ~Cause(s)
=============================================================================
