------------------------- MODULE SwitchoverSafety -------------------------
(***************************************************************************)
(* What a run of the handler promises, for any number of sites, backups,   *)
(* requests, faults and attempts: a site is taken down only with its own   *)
(* backup complete, and a reported mode has the replicas of that mode.     *)
(* The invariant RunInv says what each place of the handler knows.  With   *)
(* it every step is one of the contract an observer relies on.             *)
(***************************************************************************)
EXTENDS SwitchoverProofs, SwitchoverRefinement

\* The places of a run towards active, and of one that leaves it.
PlaceInv(s) == /\ h[s].pc \in EnteringPlaces => h[s].req.mode = "active"
               /\ h[s].pc \in LeavingPlaces => h[s].req.mode # "active"
               /\ h[s].base <= Len(backups)

\* The job the handler waits for is the full backup it asked for.
JobInv(s) == h[s].pc = "backupJob" =>
                /\ h[s].job \in (h[s].base + 1)..Len(backups)
                /\ backups[h[s].job].region = s /\ backups[h[s].job].full

\* From the scaling on, a run that leaves the active mode has its backup.
SavedInv(s) == /\ h[s].req.mode # "active" /\ h[s].prev = "active"
               /\ h[s].pc \in {"scaleDown", "waitDown"}
                    \/ (h[s].pc = "report" /\ h[s].status = "done")
               => OwnBackup(s)

RunInv == \A s \in Sites : PlaceInv(s) /\ JobInv(s) /\ SavedInv(s)

\* The status says `running' while the handler runs; the daemon is scaled as
\* the run towards a mode, or the mode reported, requires.
ScaledInv(s) ==
    /\ h[s].pc # "idle" => dr[s].status = "running"
    /\ h[s].pc \in EnteringPlaces \ {"scaleUp"} => replicas[s] = 1
    /\ h[s].pc = "waitDown" => replicas[s] = 0
    /\ h[s].pc = "report" /\ h[s].status = "done" =>
         replicas[s] = IF h[s].req.mode = "active" THEN 1 ELSE 0
    /\ dr[s].status = "done" =>
         replicas[s] = IF dr[s].mode = "active" THEN 1 ELSE 0

ReplicasInv == "helm" \notin Channels => \A s \in Sites : ScaledInv(s)
----------------------------------------------------------------------------
\* The storage only grows, and of a complete backup nothing changes.
Grown == /\ Len(backups) \in Nat /\ Len(backups') \in Nat /\ Len(backups') >= Len(backups)
         /\ \A i \in 1..Len(backups) :
              /\ backups'[i].region = backups[i].region
              /\ backups'[i].full = backups[i].full
              /\ backups[i].state = "ok" => backups'[i].state = "ok"

SameRun(s) == /\ h'[s].req = h[s].req /\ h'[s].prev = h[s].prev
              /\ h'[s].base = h[s].base

\* The ways a handler moves on within a run.
Stays(s)    == /\ h'[s].pc = h[s].pc /\ h'[s].status = h[s].status
               /\ h[s].pc = "backupJob" => h'[s].job = h[s].job
Searches(s) == /\ h[s].pc \in EnteringPlaces \ {"scaleUp"}
               /\ h'[s].pc \in EnteringPlaces \ {"scaleUp"}
Restored(s) == /\ h[s].pc \in EnteringPlaces \ {"scaleUp"} /\ h'[s].pc = "report"
Fails(s)    == h'[s].pc = "report" /\ h'[s].status = "failed"
Asks(s)     == /\ h[s].pc = "backup" /\ h'[s].pc = "backupJob"
               /\ h'[s].job = Len(backups) + 1
               /\ backups' = Append(backups, NewBackup(s, TRUE))
Saves(s)    == /\ h[s].pc = "backupJob" /\ backups[h[s].job].state = "ok"
               /\ h'[s].pc = "scaleDown"
Scales(s)   == \/ h[s].pc = "scaleDown" /\ h'[s].pc = "waitDown" /\ replicas'[s] = 0
               \/ h[s].pc = "scaleUp" /\ h'[s].pc = "waitUp" /\ replicas'[s] = 1
Leaves(s)   == h[s].pc = "waitDown" /\ h'[s].pc = "report"

Flow(s) == /\ SameRun(s)
           /\ \/ Stays(s) \/ Searches(s) \/ Restored(s) \/ Fails(s) \/ Asks(s)
              \/ Saves(s) \/ Scales(s) \/ Leaves(s)

\* The steps of the search, perform_backup and the waits.
LEMMA LocalFlow ==
    ASSUME TypeOK, NEW s \in Sites,
           \/ RequestFails(s) \/ BackupNotPerformed(s) \/ BackupJobChecked(s)
           \/ WaitedDown(s) \/ WaitedUp(s) \/ ListBackups(s) \/ ReadInfo(s)
           \/ CheckUnlocked(s) \/ LookAgain(s) \/ StillLocked(s) \/ NothingFound(s)
           \/ SearchEnds(s) \/ RestoreJobChecked(s) \/ CallFails(s)
    PROVE  Flow(s) /\ UNCHANGED <<dr, replicas>>
<1>. DEFINE r == h[s]
            older == r.job - 1
<1>0. r \in Handler /\ h \in [Sites -> Handler] /\ Placed(r, Len(backups))
  BY DEF TypeOK
<1>1. ASSUME NEW q, Local(s, q) PROVE h'[s] = q /\ UNCHANGED <<dr, replicas>>
  BY <1>0, <1>1 DEF Local, crVars, daemonVars
<1>f. ASSUME Local(s, Failed(s)) PROVE Flow(s) /\ UNCHANGED <<dr, replicas>>
  <2>1. h'[s] = Failed(s) /\ UNCHANGED <<dr, replicas>>
    BY <1>1, <1>f
  <2>2. SameRun(s) /\ Fails(s)
    BY <1>0, <2>1 DEF Failed, SameRun, Fails, Handler
  <2>. QED  BY <2>1, <2>2 DEF Flow
<1>p. ASSUME NEW pc, Local(s, [r EXCEPT !.pc = pc])
      PROVE  SameRun(s) /\ h'[s].pc = pc /\ UNCHANGED <<dr, replicas>>
  <2>1. h'[s] = [r EXCEPT !.pc = pc] /\ UNCHANGED <<dr, replicas>>
    BY <1>1, <1>p
  <2>. QED  BY <1>0, <2>1 DEF SameRun, Handler
<1>2. CASE BackupNotPerformed(s) \/ CallFails(s)
  BY <1>2, <1>f DEF BackupNotPerformed, CallFails
<1>3. CASE BackupJobChecked(s)
  <2>1. CASE backups[r.job].state = "ok"
    <3>1. Local(s, [r EXCEPT !.pc = "scaleDown"]) /\ r.pc = "backupJob"
      BY <1>3, <2>1 DEF BackupJobChecked
    <3>. QED  BY <1>p, <2>1, <3>1 DEF Flow, Saves
  <2>2. CASE backups[r.job].state # "ok"
    BY <1>3, <1>f, <2>2 DEF BackupJobChecked
  <2>. QED  BY <2>1, <2>2
<1>4. CASE WaitedDown(s)
  BY <1>4, <1>p DEF WaitedDown, Flow, Leaves
<1>5. CASE WaitedUp(s)
  <2>1. CASE up[s]
    <3>. DEFINE place == IF r.prev = NoMode THEN "report" ELSE "list"
    <3>1. Local(s, [r EXCEPT !.pc = place]) /\ r.pc = "waitUp"
      BY <1>5, <2>1 DEF WaitedUp
    <3>2. SameRun(s) /\ h'[s].pc \in {"report", "list"} /\ UNCHANGED <<dr, replicas>>
      BY <1>p, <3>1
    <3>. QED  BY <3>1, <3>2 DEF Flow, Restored, Searches, EnteringPlaces
  <2>2. CASE ~up[s]
    BY <1>5, <1>f, <2>2 DEF WaitedUp
  <2>. QED  BY <2>1, <2>2
<1>6. CASE SearchEnds(s) \/ RestoreJobChecked(s)
  <2>1. \/ Local(s, [r EXCEPT !.pc = "report"]) /\ r.pc \in {"list", "restoreJob"}
        \/ Local(s, Failed(s))
    BY <1>6 DEF SearchEnds, RestoreJobChecked
  <2>. QED  BY <1>p, <1>f, <2>1 DEF Flow, Restored, EnteringPlaces
<1>s. ASSUME NEW q, Local(s, q), q.req = r.req, q.prev = r.prev, q.base = r.base,
             \/ r.pc \in EnteringPlaces \ {"scaleUp"} /\ q.pc \in EnteringPlaces \ {"scaleUp"}
             \/ r.pc = "backup" /\ q.pc = "backup" /\ q.status = r.status
      PROVE  Flow(s) /\ UNCHANGED <<dr, replicas>>
  BY <1>1, <1>s DEF Flow, SameRun, Searches, Stays
<1>n. NextOlder(s) = [r EXCEPT !.pc = "scan", !.job = older]
  BY DEF NextOlder
<1>. HIDE DEF older
<1>7. CASE RequestFails(s)
  <2>. DEFINE left == r.tries - 1
  <2>1. Local(s, [r EXCEPT !.tries = left, !.reason = "none",
                           !.pc = IF r.pc = "backup" THEN r.pc ELSE "list"])
    BY <1>7 DEF RequestFails
  <2>2. r.pc = "backup" \/ r.pc \in EnteringPlaces \ {"scaleUp"}
    BY <1>7 DEF RequestFails, SearchPlaces, EnteringPlaces
  <2>. HIDE DEF left
  <2>. QED  BY <1>0, <1>s, <2>1, <2>2 DEF Handler, EnteringPlaces
<1>8. CASE ListBackups(s)
  <2>. DEFINE locked == {i \in 1..Len(backups) : backups[i].state = "locked"}
              n == Len(backups)
  <2>1. /\ Local(s, [r EXCEPT !.pc = "scan", !.listed = n, !.job = n, !.busy = locked,
                              !.skipped = {}, !.unlocked = {}])
        /\ r.pc = "list"
    BY <1>8 DEF ListBackups
  <2>. HIDE DEF locked, n
  <2>. QED  BY <1>0, <1>s, <2>1 DEF Handler, EnteringPlaces, SearchPlaces
<1>9. CASE ReadInfo(s)
  <2>1. r.pc = "scan"
    BY <1>9 DEF ReadInfo
  <2>2. \/ Local(s, [r EXCEPT !.pc = "lock"])
        \/ Local(s, NextOlder(s))
        \/ Local(s, [NextOlder(s) EXCEPT !.skipped = @ \cup {r.job}])
    BY <1>9 DEF ReadInfo
  <2>. QED  BY <1>0, <1>s, <1>n, <2>1, <2>2 DEF Handler, EnteringPlaces, SearchPlaces
<1>10. CASE CheckUnlocked(s)
  <2>. DEFINE left == LockLooks - 1
  <2>1. r.pc = "lock" /\ r.job \in 1..r.listed
    BY <1>0, <1>10 DEF CheckUnlocked, Placed
  <2>2. backups[r.job].state \in {"failed", "ok", "locked"}
    BY <1>0, <2>1, StateType DEF TypeOK
  <2>3. \/ Local(s, NextOlder(s))
        \/ Local(s, [r EXCEPT !.pc = "post"])
        \/ Local(s, [r EXCEPT !.pc = "relook", !.looks = left])
    BY <1>10, <2>2 DEF CheckUnlocked
  <2>. HIDE DEF left
  <2>. QED  BY <1>0, <1>s, <1>n, <2>1, <2>3 DEF Handler, EnteringPlaces, SearchPlaces
<1>11. CASE LookAgain(s)
  <2>. DEFINE left == r.looks - 1
  <2>1. r.pc = "relook" /\ r.job \in 1..r.listed
    BY <1>0, <1>11 DEF LookAgain, Placed
  <2>2. backups[r.job].state \in {"failed", "ok", "locked"}
    BY <1>0, <2>1, StateType DEF TypeOK
  <2>3. \/ Local(s, NextOlder(s))
        \/ Local(s, [r EXCEPT !.looks = left])
        \/ Local(s, [NextOlder(s) EXCEPT !.unlocked = @ \cup {r.job}])
    BY <1>11, <2>2 DEF LookAgain
  <2>. HIDE DEF left
  <2>. QED  BY <1>0, <1>s, <1>n, <2>1, <2>3 DEF Handler, EnteringPlaces, SearchPlaces
<1>12. CASE StillLocked(s)
  BY <1>0, <1>s, <1>n, <1>12 DEF StillLocked, Handler, EnteringPlaces, SearchPlaces
<1>13. CASE NothingFound(s)
  <2>. DEFINE left == r.tries - 1
  <2>1. /\ Local(s, [r EXCEPT !.tries = left, !.reason = "not found", !.pc = "list"])
        /\ r.pc = "scan"
    BY <1>13 DEF NothingFound
  <2>. HIDE DEF left
  <2>. QED  BY <1>0, <1>s, <2>1 DEF Handler, EnteringPlaces, SearchPlaces
<1>. QED  BY <1>2, <1>3, <1>4, <1>5, <1>6, <1>7, <1>8, <1>9, <1>10, <1>11, <1>12, <1>13

\* The other steps within a run.
LEMMA RunFlow ==
    ASSUME TypeOK, NEW s \in Sites, HandlerStep(s), h[s].pc # "idle", ~Report(s)
    PROVE  /\ Flow(s) /\ UNCHANGED dr
           /\ UNCHANGED replicas \/ Scales(s)
<1>. DEFINE r == h[s]
<1>0. r \in Handler /\ h \in [Sites -> Handler]
  BY DEF TypeOK
<1>1. CASE PostBackup(s)
  <2>. DEFINE left == r.tries - 1
              new == Len(backups) + 1
  <2>1. /\ r.pc = "backup" /\ UNCHANGED <<dr, replicas>>
        /\ backups' = Append(backups, NewBackup(s, TRUE))
        /\ \/ h'[s] = [r EXCEPT !.pc = "backupJob", !.job = new]
           \/ h'[s] = [r EXCEPT !.tries = left]
    BY <1>0, <1>1 DEF PostBackup, crVars, daemonVars
  <2>. HIDE DEF left, new
  <2>2. SameRun(s) /\ \/ h'[s].pc = "backupJob" /\ h'[s].job = new
                      \/ h'[s].pc = "backup" /\ h'[s].status = r.status
    BY <1>0, <2>1 DEF SameRun, Handler
  <2>. QED  BY <2>1, <2>2 DEF Flow, Asks, Stays, new
<1>s. ASSUME NEW place, NEW i, Scale(s, i, place)
      PROVE  /\ UNCHANGED dr /\ SameRun(s)
             /\ h'[s].pc = place /\ replicas'[s] = i
  <2>1. h'[s] = [r EXCEPT !.pc = place] /\ UNCHANGED dr
    BY <1>0, <1>s DEF Scale, crVars
  <2>2. replicas'[s] = i
    BY <1>s DEF Scale, TypeOK
  <2>. QED  BY <1>0, <2>1, <2>2 DEF SameRun, Handler
<1>2. CASE ScaleDown(s) \/ ScaleUp(s)
  BY <1>2, <1>s DEF ScaleDown, ScaleUp, Scales, Flow
<1>3. CASE PostRestore(s)
  <2>1. r.pc = "post" /\ UNCHANGED <<dr, replicas>>
    BY <1>3 DEF PostRestore, crVars
  <2>2. CASE h' = [h EXCEPT ![s].pc = "restoreJob", ![s].task = "processing"]
    <3>1. SameRun(s) /\ h'[s].pc = "restoreJob"
      BY <1>0, <2>2 DEF SameRun, Handler
    <3>. QED  BY <2>1, <3>1 DEF Flow, Searches, EnteringPlaces, SearchPlaces
  <2>3. CASE h' = [h EXCEPT ![s].pc = "list", ![s].tries = @ - 1, ![s].reason = "none"]
    <3>. DEFINE left == r.tries - 1
                q == [r EXCEPT !.pc = "list", !.tries = left, !.reason = "none"]
    <3>1. h' = [h EXCEPT ![s] = q]
      BY <2>3
    <3>2. h'[s] = q
      BY <1>0, <3>1
    <3>. HIDE DEF left
    <3>3. SameRun(s) /\ h'[s].pc = "list"
      BY <1>0, <3>2 DEF SameRun, Handler
    <3>. QED  BY <2>1, <3>3 DEF Flow, Searches, EnteringPlaces, SearchPlaces
  <2>. QED  BY <1>3, <2>2, <2>3 DEF PostRestore
<1>4. ~Begin(s) /\ ~Reject(s)
  BY DEF Begin, Reject
<1>. QED  BY <1>1, <1>2, <1>3, <1>4, LocalFlow DEF HandlerStep, Leave, Enter

\* A step of one site leaves what the others have reached.
LEMMA StepFrame ==
    ASSUME TypeOK, NEW s \in Sites, HandlerStep(s) \/ Environment(s),
           NEW t \in Sites, t # s
    PROVE  h'[t] = h[t] /\ dr'[t] = dr[t] /\ replicas'[t] = replicas[t]
<1>. USE DEF TypeOK, crVars, daemonVars
<1>1. CASE Leave(s)
  BY <1>1 DEF Leave, PostBackup, BackupNotPerformed, BackupJobChecked, ScaleDown,
              WaitedDown, Scale, Local
<1>2. CASE Enter(s)
  BY <1>2 DEF Enter, ScaleUp, WaitedUp, ListBackups, ReadInfo, CheckUnlocked,
              LookAgain, StillLocked, NothingFound, PostRestore, SearchEnds,
              RestoreJobChecked, Scale, Local
<1>3. CASE Begin(s) \/ Reject(s) \/ RequestFails(s) \/ CallFails(s) \/ Report(s)
  BY <1>3 DEF Begin, Reject, RequestFails, CallFails, Report, Local
<1>4. CASE Environment(s)
  BY <1>4 DEF Environment, PodStarts, PodStops, BackupJobEnds, RestoreJobEnds,
              OtherBackup, RequestMode, RequestRetry, Interrupted
<1>. QED  BY <1>1, <1>2, <1>3, <1>4 DEF HandlerStep

\* The daemons, users and interruptions either end the run or leave its place.
LEMMA EnvironmentFlow ==
    ASSUME TypeOK, NEW s \in Sites, Environment(s)
    PROVE  /\ \/ h'[s] = Idle
              \/ SameRun(s) /\ Stays(s)
           /\ UNCHANGED dr
           /\ "helm" \notin Channels => UNCHANGED replicas
<1>0. h \in [Sites -> Handler] /\ h[s] \in Handler /\ replicas \in [Sites -> {0, 1}]
  BY DEF TypeOK
<1>. USE DEF crVars, daemonVars
<1>1. CASE PodStarts(s) \/ BackupJobEnds(s) \/ OtherBackup(s) \/ RequestRetry(s)
  BY <1>1 DEF PodStarts, BackupJobEnds, OtherBackup, RequestRetry, SameRun, Stays
<1>2. CASE PodStops(s) \/ RestoreJobEnds(s)
  <2>1. PICK task : h' = [h EXCEPT ![s].task = task]
    BY <1>2 DEF PodStops, RestoreJobEnds
  <2>2. SameRun(s) /\ Stays(s)
    BY <1>0, <2>1 DEF SameRun, Stays, Handler
  <2>. QED  BY <1>2, <2>2 DEF PodStops, RestoreJobEnds
<1>3. CASE Interrupted(s)
  BY <1>0, <1>3 DEF Interrupted
<1>4. CASE RequestMode(s)
  <2>1. UNCHANGED <<dr, h>>
    BY <1>4 DEF RequestMode
  <2>2. ASSUME "helm" \notin Channels PROVE UNCHANGED replicas
    <3>1. PICK wish \in Wishes, channel \in Channels :
            replicas' = [replicas EXCEPT ![s] =
              IF channel = "helm" THEN ChartReplicas(wish.mode) ELSE @]
      BY <1>4 DEF RequestMode
    <3>2. replicas' = [replicas EXCEPT ![s] = replicas[s]]
      BY <2>2, <3>1
    <3>. QED  BY <1>0, <3>2
  <2>. QED  BY <2>1, <2>2 DEF SameRun, Stays
<1>. QED  BY <1>1, <1>2, <1>3, <1>4 DEF Environment

\* The storage only grows.
LEMMA StorageGrows ==
    ASSUME TypeOK, NEW s \in Sites, HandlerStep(s) \/ Environment(s)
    PROVE  Grown
<1>0. /\ Len(backups) \in Nat /\ backups \in Seq(Backup)
      /\ \A i \in 1..Len(backups) : backups[i] \in Backup
  BY DEF TypeOK
<1>1. CASE UNCHANGED backups
  BY <1>0, <1>1 DEF Grown
<1>2. ASSUME NEW full \in BOOLEAN, backups' = Append(backups, NewBackup(s, full))
      PROVE  Grown
  <2>1. NewBackup(s, full) \in Backup
    BY NewBackupType
  <2>2. Len(backups') = Len(backups) + 1 /\ \A i \in 1..Len(backups) : backups'[i] = backups[i]
    BY <1>0, <1>2, <2>1
  <2>. QED  BY <1>0, <2>2 DEF Grown
<1>3. CASE PostBackup(s) \/ OtherBackup(s)
  BY <1>2, <1>3 DEF PostBackup, OtherBackup
<1>4. CASE BackupJobEnds(s)
  <2>1. PICK i \in 1..Len(backups), result \in {"ok", "failed"} :
          backups[i].state = "locked" /\ backups' = [backups EXCEPT ![i].state = result]
    BY <1>4 DEF BackupJobEnds
  <2>2. Len(backups') = Len(backups)
    BY <1>0, <2>1
  <2>3. ASSUME NEW k \in 1..Len(backups)
        PROVE  /\ backups'[k].region = backups[k].region
               /\ backups'[k].full = backups[k].full
               /\ backups[k].state = "ok" => backups'[k].state = "ok"
    BY <1>0, <2>1 DEF Backup
  <2>. QED  BY <1>0, <2>2, <2>3 DEF Grown
<1>5. CASE PodStops(s)
  <2>1. backups' = [i \in 1..Len(backups) |->
          IF backups[i].region = s /\ backups[i].state = "locked"
          THEN [backups[i] EXCEPT !.state = "failed"] ELSE backups[i]]
    BY <1>5 DEF PodStops
  <2>2. Len(backups') = Len(backups)
    BY <1>0, <2>1
  <2>3. ASSUME NEW k \in 1..Len(backups)
        PROVE  /\ backups'[k].region = backups[k].region
               /\ backups'[k].full = backups[k].full
               /\ backups[k].state = "ok" => backups'[k].state = "ok"
    BY <1>0, <2>1 DEF Backup
  <2>. QED  BY <1>0, <2>2, <2>3 DEF Grown
<1>6. PostBackup(s) \/ OtherBackup(s) \/ BackupJobEnds(s) \/ PodStops(s) \/ UNCHANGED backups
  BY DEF HandlerStep, Environment, Leave, Enter, BackupNotPerformed,
         BackupJobChecked, ScaleDown, WaitedDown, ScaleUp, WaitedUp, ListBackups,
         ReadInfo, CheckUnlocked, LookAgain, StillLocked, NothingFound, PostRestore,
         SearchEnds, RestoreJobChecked, Scale, Local, Begin, Reject, RequestFails,
         CallFails, Report, PodStarts, RestoreJobEnds, RequestMode, RequestRetry,
         Interrupted, daemonVars
<1>. QED  BY <1>1, <1>3, <1>4, <1>5, <1>6
----------------------------------------------------------------------------
\* A complete backup of this run stays one.
LEMMA OwnBackupStays ==
    ASSUME TypeOK, Grown, NEW s \in Sites, h'[s].base = h[s].base, OwnBackup(s)
    PROVE  OwnBackup(s)'
<1>1. PICK i \in (h[s].base + 1)..Len(backups) :
        backups[i].region = s /\ backups[i].full /\ backups[i].state = "ok"
  BY DEF OwnBackup
<1>2. h[s].base \in Nat
  BY HandlerFields DEF TypeOK
<1>3. i \in 1..Len(backups) /\ i \in (h[s].base + 1)..Len(backups')
  BY <1>1, <1>2 DEF Grown
<1>4. backups'[i].region = s /\ backups'[i].full /\ backups'[i].state = "ok"
  BY <1>1, <1>3 DEF Grown
<1>. QED  BY <1>3, <1>4 DEF OwnBackup

SiteInv(s) == PlaceInv(s) /\ JobInv(s) /\ SavedInv(s)

\* While a handler stays where it is, what it knows stays true.
LEMMA StayingKeeps ==
    ASSUME TypeOK, Grown, NEW s \in Sites, SiteInv(s), SameRun(s), Stays(s)
    PROVE  SiteInv(s)'
<1>0. h[s].base \in Nat /\ h[s].job \in Nat
  BY HandlerFields DEF TypeOK
<1>1. PlaceInv(s)'
  BY <1>0 DEF SiteInv, PlaceInv, SameRun, Stays, Grown
<1>2. JobInv(s)'
  <2>1. SUFFICES ASSUME h[s].pc = "backupJob"
        PROVE  /\ h[s].job \in (h[s].base + 1)..Len(backups')
               /\ backups'[h[s].job].region = s /\ backups'[h[s].job].full
    BY DEF JobInv, Stays, SameRun
  <2>2. /\ h[s].job \in (h[s].base + 1)..Len(backups)
        /\ backups[h[s].job].region = s /\ backups[h[s].job].full
    BY <2>1 DEF SiteInv, JobInv
  <2>3. h[s].job \in 1..Len(backups)
    BY <1>0, <2>2
  <2>. QED  BY <1>0, <2>2, <2>3 DEF Grown
<1>3. SavedInv(s)'
  BY OwnBackupStays DEF SiteInv, SavedInv, SameRun, Stays
<1>. QED  BY <1>1, <1>2, <1>3 DEF SiteInv

LEMMA AppendLast ==
    ASSUME NEW S, NEW q \in Seq(S), NEW e \in S
    PROVE  Len(Append(q, e)) = Len(q) + 1 /\ Append(q, e)[Len(q) + 1] = e
OBVIOUS

\* Every way to move on keeps it.
LEMMA FlowKeeps ==
    ASSUME TypeOK, TypeOK', Grown, NEW s \in Sites, SiteInv(s), Flow(s)
    PROVE  SiteInv(s)'
<1>0. h[s] \in Handler /\ h[s].base \in Nat /\ h[s].job \in Nat /\ Len(backups) \in Nat
  BY HandlerFields DEF TypeOK
<1>1. CASE Stays(s)
  BY <1>1, StayingKeeps DEF Flow
<1>2. CASE ~Stays(s)
  <2>1. PlaceInv(s)'
    <3>1. h'[s].base <= Len(backups') /\ h'[s].req = h[s].req
      BY <1>0 DEF SiteInv, PlaceInv, Flow, SameRun, Grown
    <3>2. \/ h'[s].pc = "report"
          \/ h[s].pc \in EnteringPlaces /\ h'[s].pc \in EnteringPlaces
          \/ h[s].pc \in LeavingPlaces /\ h'[s].pc \in LeavingPlaces
      BY <1>2 DEF Flow, Searches, Restored, Fails, Asks, Saves, Scales, Leaves,
                  EnteringPlaces, LeavingPlaces
    <3>3. EnteringPlaces \cap LeavingPlaces = {} /\ "report" \notin EnteringPlaces
          /\ "report" \notin LeavingPlaces
      BY DEF EnteringPlaces, LeavingPlaces, SearchPlaces
    <3>. QED  BY <3>1, <3>2, <3>3 DEF SiteInv, PlaceInv
  <2>2. JobInv(s)'
    <3>1. CASE Asks(s)
      <4>1. NewBackup(s, TRUE) \in Backup /\ backups \in Seq(Backup)
        BY NewBackupType DEF TypeOK
      <4>2. Len(backups') = Len(backups) + 1 /\ backups'[Len(backups) + 1] = NewBackup(s, TRUE)
        BY <3>1, <4>1, AppendLast DEF Asks
      <4>3. h[s].base <= Len(backups) /\ h'[s].base = h[s].base
        BY DEF SiteInv, PlaceInv, Flow, SameRun
      <4>4. h'[s].job = Len(backups) + 1
        BY <3>1 DEF Asks
      <4>. QED  BY <1>0, <4>2, <4>3, <4>4 DEF JobInv, NewBackup
    <3>2. CASE ~Asks(s)
      <4>1. h'[s].pc # "backupJob"
        BY <1>2, <3>2 DEF Flow, Searches, Restored, Fails, Saves, Scales, Leaves,
                          EnteringPlaces, SearchPlaces
      <4>. QED  BY <4>1 DEF JobInv
    <3>. QED  BY <3>1, <3>2
  <2>3. SavedInv(s)'
    <3>1. CASE Saves(s)
      <4>1. OwnBackup(s)
        BY <3>1 DEF Saves, SiteInv, JobInv, OwnBackup
      <4>. QED  BY <4>1, OwnBackupStays DEF Flow, SameRun, SavedInv
    <3>2. CASE Scales(s) \/ Leaves(s)
      <4>1. h[s].req.mode = "active" \/ h[s].pc \in {"scaleDown", "waitDown"}
        BY <3>2 DEF Scales, Leaves, SiteInv, PlaceInv, EnteringPlaces
      <4>2. SavedInv(s) /\ h'[s].base = h[s].base /\ h'[s].req = h[s].req
            /\ h'[s].prev = h[s].prev
        BY DEF SiteInv, Flow, SameRun
      <4>. QED  BY <4>1, <4>2, OwnBackupStays DEF SavedInv
    <3>3. CASE Searches(s) \/ Restored(s)
      <4>1. h'[s].req.mode = "active"
        BY <3>3 DEF Searches, Restored, SiteInv, PlaceInv, Flow, SameRun
      <4>. QED  BY <4>1 DEF SavedInv
    <3>4. CASE Fails(s) \/ Asks(s)
      BY <3>4 DEF Fails, Asks, SavedInv
    <3>. QED  BY <1>2, <3>1, <3>2, <3>3, <3>4 DEF Flow
  <2>. QED  BY <2>1, <2>2, <2>3 DEF SiteInv
<1>. QED  BY <1>1, <1>2

\* A new run, and no run, know nothing.
LEMMA StartKeeps ==
    ASSUME TypeOK, Grown, NEW s \in Sites,
           h'[s] = Idle \/ (Begin(s) /\ h[s].pc = "idle")
    PROVE  SiteInv(s)'
<1>0. h \in [Sites -> Handler] /\ Len(backups) \in Nat
  BY DEF TypeOK
<1>1. CASE h'[s] = Idle
  BY <1>0, <1>1 DEF Grown, Idle, NoRequest, SiteInv, PlaceInv, JobInv, SavedInv,
                    EnteringPlaces, LeavingPlaces, SearchPlaces
<1>2. CASE Begin(s)
  <2>. DEFINE place == IF spec[s].mode = "active" THEN "scaleUp"
                       ELSE IF dr[s].mode \in {NoMode, "disable", "standby"}
                            THEN "scaleDown" ELSE "backup"
  <2>1. h'[s] = [Idle EXCEPT !.req = spec[s], !.prev = dr[s].mode,
                   !.base = Len(backups), !.tries = Attempts, !.pc = place]
    BY <1>0, <1>2 DEF Begin
  <2>2. /\ h'[s].req = spec[s] /\ h'[s].prev = dr[s].mode
        /\ h'[s].base = Len(backups) /\ h'[s].pc = place
    BY <2>1 DEF Idle
  <2>3. /\ place \in {"scaleUp", "scaleDown", "backup"}
        /\ (place = "scaleUp") <=> (spec[s].mode = "active")
    OBVIOUS
  <2>4. place = "scaleDown" => dr[s].mode # "active"
    BY DEF NoMode
  <2>. HIDE DEF place
  <2>5. PlaceInv(s)'
    BY <1>0, <2>2, <2>3 DEF PlaceInv, Grown, EnteringPlaces, LeavingPlaces, SearchPlaces
  <2>6. JobInv(s)' /\ SavedInv(s)'
    BY <2>2, <2>3, <2>4 DEF JobInv, SavedInv
  <2>. QED  BY <2>5, <2>6 DEF SiteInv
<1>. QED  BY <1>1, <1>2

\* Without a run, one begins or the request is refused.
LEMMA IdleSteps ==
    ASSUME NEW s \in Sites, HandlerStep(s), h[s].pc = "idle"
    PROVE  Begin(s) \/ Reject(s)
BY DEF HandlerStep, Leave, Enter, PostBackup, BackupNotPerformed,
       BackupJobChecked, ScaleDown, WaitedDown, ScaleUp, WaitedUp, ListBackups,
       ReadInfo, CheckUnlocked, LookAgain, StillLocked, NothingFound, PostRestore,
       SearchEnds, RestoreJobChecked, RequestFails, CallFails, Report,
       LeavingPlaces, SearchPlaces

LEMMA RunInvNext == TypeOK /\ TypeOK' /\ RunInv /\ [Next]_vars => RunInv'
<1>. SUFFICES ASSUME TypeOK, TypeOK', \A s \in Sites : SiteInv(s), [Next]_vars
              PROVE  \A s \in Sites : SiteInv(s)'
  BY DEF RunInv, SiteInv
<1>1. CASE UNCHANGED vars
  BY <1>1 DEF vars, SiteInv, PlaceInv, JobInv, SavedInv, OwnBackup
<1>2. ASSUME NEW s \in Sites, HandlerStep(s) \/ Environment(s), NEW t \in Sites
      PROVE  SiteInv(t)'
  <2>1. Grown
    BY <1>2, StorageGrows
  <2>2. CASE t # s
    <3>1. h'[t] = h[t]
      BY <1>2, <2>2, StepFrame
    <3>. QED  BY <2>1, <3>1, StayingKeeps DEF SameRun, Stays
  <2>3. CASE t = s /\ Environment(s)
    BY <2>1, <2>3, EnvironmentFlow, StartKeeps, StayingKeeps
  <2>4. CASE t = s /\ HandlerStep(s) /\ h[s].pc # "idle" /\ ~Report(s)
    BY <2>1, <2>4, RunFlow, FlowKeeps
  <2>5. CASE t = s /\ Report(s)
    <3>1. h'[s] = Idle
      BY <2>5 DEF Report, TypeOK
    <3>. QED  BY <2>1, <2>5, <3>1, StartKeeps
  <2>6. CASE t = s /\ HandlerStep(s) /\ h[s].pc = "idle"
    <3>1. Begin(s) \/ Reject(s)
      BY <2>6, IdleSteps
    <3>2. CASE Begin(s)
      BY <2>1, <2>6, <3>2, StartKeeps
    <3>3. CASE Reject(s)
      <4>1. h'[s] = h[s]
        BY <3>3 DEF Reject
      <4>. QED  BY <2>1, <2>6, <4>1, StayingKeeps DEF SameRun, Stays
    <3>. QED  BY <3>1, <3>2, <3>3
  <2>. QED  BY <1>2, <2>2, <2>3, <2>4, <2>5, <2>6
<1>. QED  BY <1>1, <1>2 DEF Next

LEMMA RunInvInit == Init => RunInv
<1>. SUFFICES ASSUME Init, NEW s \in Sites PROVE SiteInv(s)
  BY DEF RunInv, SiteInv
<1>1. h[s] = Idle /\ Len(backups) \in Nat
  BY InitType DEF Init, TypeOK
<1>. QED  BY <1>1 DEF Idle, NoRequest, SiteInv, PlaceInv, JobInv, SavedInv,
                      EnteringPlaces, LeavingPlaces, SearchPlaces

\* A run that leaves the active mode scales the daemon down, and reports
\* success, only with a full backup of the site that this run started complete,
\* whatever other runs, daemons and users do and however often requests fail.
THEOREM SavedBeforeDown == Spec => []BackupBeforeScaleDown
<1>1. RunInv => BackupBeforeScaleDown
  BY DEF RunInv, SavedInv, BackupBeforeScaleDown
<1>. QED  BY <1>1, InitType, NextType, RunInvInit, RunInvNext, PTL DEF Spec
----------------------------------------------------------------------------
LEMMA FlowScales ==
    ASSUME TypeOK, NEW s \in Sites, PlaceInv(s), ScaledInv(s), h[s].pc # "idle",
           Flow(s), UNCHANGED dr, UNCHANGED replicas \/ Scales(s)
    PROVE  ScaledInv(s)'
<1>0. h'[s].req = h[s].req /\ dr'[s] = dr[s] /\ dr[s].status = "running"
  BY DEF Flow, SameRun, ScaledInv
<1>1. CASE Scales(s)
  BY <1>0, <1>1 DEF Scales, ScaledInv, EnteringPlaces, SearchPlaces
<1>2. CASE ~Scales(s)
  <2>1. replicas'[s] = replicas[s]
    BY <1>2
  <2>2. CASE Stays(s)
    BY <1>0, <2>1, <2>2 DEF Stays, ScaledInv
  <2>3. CASE Searches(s) \/ Restored(s) \/ Leaves(s)
    BY <1>0, <2>1, <2>3 DEF Searches, Restored, Leaves, ScaledInv, PlaceInv,
                            EnteringPlaces, LeavingPlaces, SearchPlaces
  <2>4. CASE Fails(s) \/ Asks(s) \/ Saves(s)
    BY <1>0, <2>1, <2>4 DEF Fails, Asks, Saves, ScaledInv, EnteringPlaces, SearchPlaces
  <2>. QED  BY <1>2, <2>2, <2>3, <2>4 DEF Flow
<1>. QED  BY <1>1, <1>2

LEMMA ReplicasInvNext == TypeOK /\ RunInv /\ ReplicasInv /\ [Next]_vars => ReplicasInv'
<1>. SUFFICES ASSUME TypeOK, \A s \in Sites : SiteInv(s), "helm" \notin Channels,
                     \A s \in Sites : ScaledInv(s), [Next]_vars
              PROVE  \A s \in Sites : ScaledInv(s)'
  BY DEF RunInv, SiteInv, ReplicasInv
<1>0. h \in [Sites -> Handler] /\ dr \in [Sites -> Status]
  BY DEF TypeOK
<1>1. CASE UNCHANGED vars
  BY <1>1 DEF vars, crVars, daemonVars, ScaledInv
<1>2. ASSUME NEW s \in Sites, HandlerStep(s) \/ Environment(s), NEW t \in Sites
      PROVE  ScaledInv(t)'
  <2>1. CASE t # s
    BY <1>2, <2>1, StepFrame DEF ScaledInv
  <2>2. CASE t = s /\ Environment(s)
    <3>1. dr' = dr /\ replicas' = replicas
      BY <2>2, EnvironmentFlow
    <3>2. \/ h'[s].pc = "idle"
          \/ /\ h'[s].pc = h[s].pc /\ h'[s].status = h[s].status
             /\ h'[s].req = h[s].req
      BY <2>2, EnvironmentFlow DEF Idle, SameRun, Stays
    <3>. QED  BY <2>2, <3>1, <3>2 DEF ScaledInv, EnteringPlaces, SearchPlaces
  <2>3. CASE t = s /\ HandlerStep(s) /\ h[s].pc # "idle" /\ ~Report(s)
    BY <2>3, RunFlow, FlowScales DEF SiteInv
  <2>4. CASE t = s /\ Report(s)
    <3>1. /\ h'[s].pc = "idle" /\ h[s].pc = "report" /\ replicas' = replicas
          /\ dr'[s] = [mode |-> h[s].req.mode, status |-> h[s].status]
      BY <1>0, <2>4 DEF Report, Idle, daemonVars
    <3>. QED  BY <2>4, <3>1 DEF ScaledInv, EnteringPlaces, SearchPlaces
  <2>5. CASE t = s /\ HandlerStep(s) /\ h[s].pc = "idle"
    <3>1. CASE Begin(s)
      <4>. DEFINE place == IF spec[s].mode = "active" THEN "scaleUp"
                           ELSE IF dr[s].mode \in {NoMode, "disable", "standby"}
                                THEN "scaleDown" ELSE "backup"
      <4>1. /\ h'[s].pc = place
            /\ dr'[s] = [mode |-> spec[s].mode, status |-> "running"]
        BY <1>0, <3>1 DEF Begin, Idle
      <4>2. h'[s].pc \in {"scaleUp", "scaleDown", "backup"}
        BY <4>1
      <4>. QED  BY <2>5, <4>1, <4>2 DEF ScaledInv, EnteringPlaces, SearchPlaces
    <3>2. CASE Reject(s)
      BY <2>5, <3>2 DEF Reject, daemonVars, ScaledInv
    <3>3. Begin(s) \/ Reject(s)
      BY <2>5, IdleSteps
    <3>. QED  BY <3>1, <3>2, <3>3
  <2>. QED  BY <1>2, <2>1, <2>2, <2>3, <2>4, <2>5
<1>. QED  BY <1>1, <1>2 DEF Next

LEMMA ReplicasInvInit == Init => ReplicasInv
<1>. SUFFICES ASSUME Init, NEW s \in Sites PROVE ScaledInv(s)
  BY DEF ReplicasInv
<1>1. h[s].pc = "idle"
  BY DEF Init, Idle
<1>2. dr[s].status = "done" => dr[s].mode = "active" /\ replicas[s] = 1
  BY DEF Init, ChartReplicas
<1>. QED  BY <1>1, <1>2 DEF ScaledInv, EnteringPlaces, SearchPlaces

\* If modes change only in the custom resource, a mode reported as done always
\* has its daemon replicas: no run, interruption or fault leaves the daemon
\* scaled for another mode behind a status that says done.
THEOREM DoneIsScaled == Spec => []DoneMeansReplicas
<1>1. ReplicasInv => DoneMeansReplicas
  BY DEF ReplicasInv, ScaledInv, DoneMeansReplicas
<1>. QED  BY <1>1, InitType, NextType, RunInvInit, RunInvNext, ReplicasInvInit,
             ReplicasInvNext, PTL DEF Spec
----------------------------------------------------------------------------
\* The contract's view.  While a handler runs the status has its mode.
RunningInv == \A s \in Sites :
    h[s].pc # "idle" => dr[s] = [mode |-> h[s].req.mode, status |-> "running"]

\* Only the end of its own backup job completes a backup of a site.
LEMMA OwnBackupSame ==
    ASSUME TypeOK, NEW s \in Sites, NEW t \in Sites,
           HandlerStep(s) \/ (Environment(s) /\ t # s), h'[t].base = h[t].base
    PROVE  OwnBackup(t)' <=> OwnBackup(t)
<1>0. /\ Len(backups) \in Nat /\ backups \in Seq(Backup) /\ h[t].base \in Nat
      /\ \A i \in 1..Len(backups) : backups[i] \in Backup
  BY HandlerFields DEF TypeOK
<1>1. CASE UNCHANGED backups BY <1>1 DEF OwnBackup
<1>2. ASSUME NEW full \in BOOLEAN, backups' = Append(backups, NewBackup(s, full))
      PROVE  OwnBackup(t)' <=> OwnBackup(t)
  <2>1. NewBackup(s, full) \in Backup BY NewBackupType
  <2>2. /\ Len(backups') = Len(backups) + 1
        /\ \A i \in 1..Len(backups) : backups'[i] = backups[i]
        /\ backups'[Len(backups) + 1] = NewBackup(s, full)
    BY <1>0, <1>2, <2>1
  <2>3. backups'[Len(backups) + 1].state # "ok" BY <2>2 DEF NewBackup
  <2>. QED  BY <1>0, <2>2, <2>3 DEF OwnBackup
<1>3. CASE PostBackup(s) \/ OtherBackup(s)
  BY <1>2, <1>3 DEF PostBackup, OtherBackup
<1>s. ASSUME Len(backups') = Len(backups),
             \A k \in 1..Len(backups) :
                 /\ backups'[k].region = backups[k].region
                 /\ backups'[k].full = backups[k].full
                 /\ backups[k].region = t =>
                       (backups'[k].state = "ok") = (backups[k].state = "ok")
      PROVE  OwnBackup(t)' <=> OwnBackup(t)
  BY <1>0, <1>s DEF OwnBackup
<1>4. CASE BackupJobEnds(s) /\ t # s
  <2>1. PICK i \in 1..Len(backups), result \in {"ok", "failed"} :
          backups[i].region = s /\ backups' = [backups EXCEPT ![i].state = result]
    BY <1>4 DEF BackupJobEnds
  <2>2. Len(backups') = Len(backups) BY <1>0, <2>1
  <2>. QED  BY <1>0, <1>s, <1>4, <2>1, <2>2 DEF Backup
<1>5. CASE PodStops(s)
  <2>1. backups' = [i \in 1..Len(backups) |->
          IF backups[i].region = s /\ backups[i].state = "locked"
          THEN [backups[i] EXCEPT !.state = "failed"] ELSE backups[i]]
    BY <1>5 DEF PodStops
  <2>2. Len(backups') = Len(backups) BY <1>0, <2>1
  <2>. QED  BY <1>0, <1>s, <2>1, <2>2 DEF Backup
<1>6. CASE HandlerStep(s)
  <2>1. PostBackup(s) \/ UNCHANGED backups
    BY <1>6 DEF HandlerStep, Leave, Enter, BackupNotPerformed, BackupJobChecked, ScaleDown,
         WaitedDown, ScaleUp, WaitedUp, ListBackups, ReadInfo, CheckUnlocked, LookAgain,
         StillLocked, NothingFound, PostRestore, SearchEnds, RestoreJobChecked, Scale, Local,
         Begin, Reject, RequestFails, CallFails, Report
  <2>. QED  BY <1>1, <1>3, <2>1
<1>7. CASE Environment(s) /\ t # s
  <2>1. OtherBackup(s) \/ BackupJobEnds(s) \/ PodStops(s) \/ UNCHANGED backups
    BY <1>7 DEF Environment, PodStarts, RestoreJobEnds, RequestMode, RequestRetry,
                Interrupted, daemonVars
  <2>. QED  BY <1>1, <1>3, <1>4, <1>5, <1>7, <2>1
<1>. QED  BY <1>6, <1>7

\* What the contract sees of the run of a site.
RunOf(s) == IF h[s].pc = "idle" THEN "none"
            ELSE IF h[s].prev = "active" /\ h[s].req.mode # "active"
                 THEN IF OwnBackup(s) THEN "saved" ELSE "leaving"
                 ELSE "other"

LEMMA OthersRuns ==
    ASSUME TypeOK, NEW s \in Sites, HandlerStep(s) \/ Environment(s)
    PROVE  ContractRun' = [ContractRun EXCEPT ![s] = RunOf(s)']
<1>1. ASSUME NEW t \in Sites, t # s PROVE RunOf(t)' = RunOf(t)
  <2>1. h'[t] = h[t] BY <1>1, StepFrame
  <2>2. OwnBackup(t)' <=> OwnBackup(t) BY <1>1, <2>1, OwnBackupSame
  <2>. QED  BY <2>1, <2>2 DEF RunOf
<1>2. ContractRun = [t \in Sites |-> RunOf(t)] BY DEF ContractRun, RunOf
<1>3. ContractRun' = [t \in Sites |-> RunOf(t)'] BY DEF ContractRun, RunOf
<1>. QED  BY <1>1, <1>2, <1>3

\* A run goes on, and does not change for the observer.
LEMMA GoesOn ==
    ASSUME TypeOK, NEW s \in Sites, HandlerStep(s), h[s].pc # "idle", ~Report(s)
    PROVE  /\ h'[s].pc # "idle" /\ SameRun(s)
           /\ UNCHANGED <<spec, handled, dr>>
<1>1. Flow(s) /\ UNCHANGED dr BY RunFlow
<1>2. h'[s].pc # "idle"
  BY <1>1 DEF Flow, Stays, Searches, Restored, Fails, Asks, Saves, Scales, Leaves,
              EnteringPlaces, SearchPlaces
<1>3. ~Begin(s) /\ ~Reject(s) BY DEF Begin, Reject
<1>4. UNCHANGED <<spec, handled>>
  BY <1>3 DEF HandlerStep, Leave, Enter, PostBackup, BackupNotPerformed, BackupJobChecked,
         ScaleDown, WaitedDown, ScaleUp, WaitedUp, ListBackups, ReadInfo, CheckUnlocked,
         LookAgain, StillLocked, NothingFound, PostRestore, SearchEnds, RestoreJobChecked,
         RequestFails, CallFails, Scale, Local, crVars
<1>. QED  BY <1>1, <1>2, <1>4 DEF Flow

LEMMA BeginStarts ==
    ASSUME TypeOK, NEW s \in Sites, Begin(s)
    PROVE  /\ h'[s].pc # "idle" /\ h'[s].req = spec[s] /\ h'[s].prev = dr[s].mode
           /\ h'[s].base = Len(backups)
           /\ dr' = [dr EXCEPT ![s] = [mode |-> spec[s].mode, status |-> "running"]]
<1>. DEFINE place == IF spec[s].mode = "active" THEN "scaleUp"
                     ELSE IF dr[s].mode \in {NoMode, "disable", "standby"}
                          THEN "scaleDown" ELSE "backup"
<1>1. h'[s] = [Idle EXCEPT !.req = spec[s], !.prev = dr[s].mode,
                 !.base = Len(backups), !.tries = Attempts, !.pc = place]
  BY DEF Begin, TypeOK
<1>2. place # "idle" OBVIOUS
<1>. HIDE DEF place
<1>3. /\ h'[s].pc # "idle" /\ h'[s].req = spec[s] /\ h'[s].prev = dr[s].mode
      /\ h'[s].base = Len(backups)
  BY <1>1, <1>2 DEF Idle
<1>. QED  BY <1>3 DEF Begin

LEMMA RunningNext == TypeOK /\ RunningInv /\ [Next]_vars => RunningInv'
<1>. SUFFICES ASSUME TypeOK, RunningInv, [Next]_vars, NEW t \in Sites, h'[t].pc # "idle"
              PROVE  dr'[t] = [mode |-> h'[t].req.mode, status |-> "running"]
  BY DEF RunningInv
<1>1. CASE UNCHANGED vars BY <1>1 DEF vars, crVars, RunningInv
<1>2. ASSUME NEW s \in Sites, HandlerStep(s) \/ Environment(s)
      PROVE  dr'[t] = [mode |-> h'[t].req.mode, status |-> "running"]
  <2>1. CASE t # s BY <1>2, <2>1, StepFrame DEF RunningInv
  <2>2. CASE t = s /\ Environment(s)
    <3>1. h'[s] # Idle BY <2>2 DEF Idle
    <3>. QED  BY <2>2, <3>1, EnvironmentFlow DEF SameRun, Stays, RunningInv
  <2>3. CASE t = s /\ Report(s)
    <3>1. h'[s] = Idle BY <2>3 DEF Report, TypeOK
    <3>. QED  BY <2>3, <3>1 DEF Idle
  <2>4. CASE t = s /\ HandlerStep(s) /\ h[s].pc # "idle" /\ ~Report(s)
    BY <2>4, GoesOn DEF SameRun, RunningInv
  <2>5. CASE t = s /\ Begin(s)
    BY <2>5, BeginStarts DEF TypeOK
  <2>6. CASE t = s /\ Reject(s)
    BY <2>6 DEF Reject, RunningInv
  <2>. QED  BY <1>2, <2>1, <2>2, <2>3, <2>4, <2>5, <2>6, IdleSteps
<1>. QED  BY <1>1, <1>2 DEF Next

\* The steps a run begins and ends with are those of the contract.
LEMMA StartsAsContract ==
    ASSUME TypeOK, TypeOK', NEW s \in Sites, Begin(s)
    PROVE  Contract!Start(s)
<1>1. ContractRun' = [ContractRun EXCEPT ![s] = RunOf(s)'] BY OthersRuns DEF HandlerStep
<1>2. h[s].pc = "idle" /\ Cause(s) /\ spec[s].mode # NoMode /\ UNCHANGED <<spec, handled>>
  BY DEF Begin
<1>3. Contract!Open(s)
  BY <1>2 DEF Contract!Open, ContractRun, Marks, Cause
<1>4. /\ h'[s].pc # "idle" /\ h'[s].req = spec[s] /\ h'[s].prev = dr[s].mode
      /\ h'[s].base = Len(backups)
      /\ dr' = [dr EXCEPT ![s] = [mode |-> spec[s].mode, status |-> "running"]]
  BY BeginStarts
<1>5. backups' = backups /\ Len(backups) \in Nat BY DEF Begin, TypeOK
<1>6. ~OwnBackup(s)' BY <1>4, <1>5 DEF OwnBackup
<1>7. RunOf(s)' = IF dr[s].mode = "active" /\ spec[s].mode # "active" THEN "leaving" ELSE "other"
  BY <1>4, <1>6 DEF RunOf
<1>8. Marks' = Marks /\ Marks[s].mode = spec[s].mode BY <1>2 DEF Marks
<1>. QED  BY <1>1, <1>2, <1>3, <1>4, <1>7, <1>8 DEF Contract!Start, Contract!NoMode, NoMode

LEMMA RejectsAsContract ==
    ASSUME TypeOK, NEW s \in Sites, Reject(s)
    PROVE  Contract!Reject(s)
<1>1. ContractRun' = [ContractRun EXCEPT ![s] = RunOf(s)'] BY OthersRuns DEF HandlerStep
<1>2. /\ h[s].pc = "idle" /\ Cause(s) /\ spec[s].mode = NoMode
      /\ handled' = [handled EXCEPT ![s] = [mode |-> NoMode, retry |-> spec[s].retry]]
      /\ UNCHANGED <<spec, dr, h, backups>>
  BY DEF Reject
<1>3. RunOf(s)' = RunOf(s) BY <1>2 DEF RunOf, OwnBackup
<1>4. ContractRun[s] = RunOf(s) BY DEF ContractRun, RunOf
<1>5. ContractRun' = ContractRun BY <1>1, <1>3, <1>4 DEF ContractRun
<1>6. Contract!Open(s) BY <1>2 DEF Contract!Open, ContractRun, Marks, Cause
<1>7. Marks' = Marks /\ Marks[s] = [mode |-> NoMode, retry |-> spec[s].retry]
  BY <1>2 DEF Marks
<1>. QED  BY <1>2, <1>5, <1>6, <1>7 DEF Contract!Reject, Contract!NoMode, NoMode

LEMMA ReportsAsContract ==
    ASSUME TypeOK, TypeOK', RunInv, RunningInv, NEW s \in Sites, Report(s)
    PROVE  Contract!Finish(s, "done") \/ Contract!Finish(s, "failed")
<1>1. ContractRun' = [ContractRun EXCEPT ![s] = RunOf(s)'] BY OthersRuns DEF HandlerStep
<1>2. /\ h[s].pc = "report" /\ h'[s] = Idle /\ UNCHANGED spec
      /\ dr' = [dr EXCEPT ![s] = [mode |-> h[s].req.mode, status |-> h[s].status]]
      /\ \/ handled' = [handled EXCEPT ![s] = [mode |-> h[s].req.mode, retry |-> h[s].req.retry]]
         \/ UNCHANGED handled
  BY DEF Report, TypeOK
<1>3. RunOf(s)' = "none" BY <1>2 DEF RunOf, Idle
<1>4. dr[s] = [mode |-> h[s].req.mode, status |-> "running"] BY <1>2 DEF RunningInv
<1>5. dr' = [dr EXCEPT ![s].status = h[s].status]
  <2>1. [dr[s] EXCEPT !.status = h[s].status] = [mode |-> h[s].req.mode, status |-> h[s].status]
    BY <1>4
  <2>. QED  BY <1>2, <2>1
<1>6. h[s].status \in {"done", "failed"} /\ h[s].req \in Request BY DEF TypeOK, Handler
<1>7. \/ /\ handled'[s] \in {mark \in Contract!Mark : mark.mode = dr[s].mode}
         /\ handled' = [handled EXCEPT ![s] = handled'[s]]
      \/ UNCHANGED handled
  <2>1. CASE UNCHANGED handled BY <2>1
  <2>2. CASE handled' = [handled EXCEPT ![s] = [mode |-> h[s].req.mode, retry |-> h[s].req.retry]]
    <3>1. handled'[s] = [mode |-> h[s].req.mode, retry |-> h[s].req.retry]
      BY <2>2 DEF TypeOK
    <3>2. handled'[s] \in Contract!Mark
      BY <1>6, <3>1 DEF Contract!Mark, Contract!AnyMode, Contract!NoMode, Request, AnyMode,
                        Modes, NoMode
    <3>3. handled'[s].mode = dr[s].mode BY <1>4, <3>1
    <3>4. handled' = [handled EXCEPT ![s] = handled'[s]] BY <2>2, <3>1
    <3>. QED  BY <3>2, <3>3, <3>4
  <2>. QED  BY <1>2, <2>1, <2>2
<1>8. ContractRun[s] = IF h[s].prev = "active" /\ h[s].req.mode # "active"
                       THEN IF OwnBackup(s) THEN "saved" ELSE "leaving" ELSE "other"
  BY <1>2 DEF ContractRun
<1>9. h[s].status = "done" => ContractRun[s] \in {"saved", "other"}
  BY <1>2, <1>8 DEF RunInv, SavedInv
<1>10. Marks' = Marks BY <1>2 DEF Marks
<1>11. ContractRun' = [ContractRun EXCEPT ![s] = "none"] BY <1>1, <1>3
<1>12. CASE h[s].status = "done"
  BY <1>4, <1>5, <1>7, <1>9, <1>10, <1>11, <1>12 DEF Contract!Finish
<1>13. CASE h[s].status = "failed"
  BY <1>4, <1>5, <1>7, <1>8, <1>10, <1>11, <1>13 DEF Contract!Finish
<1>. QED  BY <1>6, <1>12, <1>13

LEMMA EnvironmentAsContract ==
    ASSUME TypeOK, TypeOK', NEW s \in Sites, Environment(s)
    PROVE  \/ Contract!Ask(s) \/ Contract!Save(s) \/ Contract!Abandon(s)
           \/ UNCHANGED Contract!vars
<1>1. ContractRun' = [ContractRun EXCEPT ![s] = RunOf(s)'] BY OthersRuns
<1>2. ContractRun[s] = RunOf(s) BY DEF ContractRun, RunOf
<1>3. UNCHANGED <<dr, handled>>
  BY DEF Environment, PodStarts, PodStops, BackupJobEnds, RestoreJobEnds, OtherBackup,
         RequestMode, RequestRetry, Interrupted, crVars
<1>s. ASSUME RunOf(s)' = RunOf(s) PROVE ContractRun' = ContractRun
  BY <1>1, <1>2, <1>s DEF ContractRun
<1>4. CASE RequestMode(s) \/ RequestRetry(s)
  <2>1. h' = h /\ backups' = backups BY <1>4 DEF RequestMode, RequestRetry
  <2>2. ContractRun' = ContractRun BY <1>s, <2>1 DEF RunOf, OwnBackup
  <2>3. \A t \in Sites \ {s} : spec'[t] = spec[t]
    BY <1>4 DEF RequestMode, RequestRetry, TypeOK
  <2>4. Marks' = [Marks EXCEPT ![s] = Marks'[s]] BY <2>3 DEF Marks
  <2>5. Marks'[s] \in Contract!Mark
    BY DEF TypeOK, Marks, Contract!Mark, Contract!AnyMode, Contract!NoMode, Request,
           AnyMode, Modes, NoMode
  <2>. QED  BY <1>3, <2>2, <2>4, <2>5 DEF Contract!Ask
<1>5. CASE ~RequestMode(s) /\ ~RequestRetry(s)
  <2>1. Marks' = Marks
    BY <1>5 DEF Environment, PodStarts, PodStops, BackupJobEnds, RestoreJobEnds, OtherBackup,
                Interrupted, crVars, Marks
  <2>2. CASE h'[s] = Idle
    <3>1. RunOf(s)' = "none" BY <2>2 DEF RunOf, Idle
    <3>. QED  BY <1>1, <1>2, <1>3, <1>s, <2>1, <3>1 DEF Contract!Abandon, Contract!vars
  <2>3. CASE SameRun(s) /\ Stays(s)
    <3>1. CASE OwnBackup(s)' <=> OwnBackup(s)
      <4>1. RunOf(s)' = RunOf(s) BY <2>3, <3>1 DEF SameRun, Stays, RunOf
      <4>. QED  BY <1>3, <1>s, <2>1, <4>1 DEF Contract!vars
    <3>2. CASE OwnBackup(s)' /\ ~OwnBackup(s)
      <4>1. RunOf(s)' = RunOf(s) \/ (RunOf(s) = "leaving" /\ RunOf(s)' = "saved")
        BY <2>3, <3>2 DEF SameRun, Stays, RunOf
      <4>. QED  BY <1>1, <1>2, <1>3, <1>s, <2>1, <4>1 DEF Contract!vars, Contract!Save
    <3>3. OwnBackup(s) => OwnBackup(s)'
      BY <2>3, StorageGrows, OwnBackupStays DEF SameRun
    <3>. QED  BY <3>1, <3>2, <3>3
  <2>. QED  BY <2>2, <2>3, EnvironmentFlow
<1>. QED  BY <1>4, <1>5

LEMMA ContractStep ==
    TypeOK /\ TypeOK' /\ RunInv /\ RunningInv /\ [Next]_vars => [Contract!Next]_(Contract!vars)
<1>. SUFFICES ASSUME TypeOK, TypeOK', RunInv, RunningInv, [Next]_vars
              PROVE  Contract!Next \/ UNCHANGED Contract!vars
  OBVIOUS
<1>1. CASE UNCHANGED vars
  BY <1>1 DEF vars, crVars, Contract!vars, Marks, ContractRun, OwnBackup
<1>2. ASSUME NEW s \in Sites, HandlerStep(s) \/ Environment(s)
      PROVE  Contract!Next \/ UNCHANGED Contract!vars
  <2>1. CASE Environment(s) BY <2>1, EnvironmentAsContract DEF Contract!Next
  <2>2. CASE Report(s) BY <2>2, ReportsAsContract DEF Contract!Next
  <2>3. CASE Begin(s) BY <2>3, StartsAsContract DEF Contract!Next
  <2>4. CASE Reject(s) BY <2>4, RejectsAsContract DEF Contract!Next
  <2>5. CASE HandlerStep(s) /\ h[s].pc # "idle" /\ ~Report(s)
    <3>1. h'[s].pc # "idle" /\ SameRun(s) /\ UNCHANGED <<spec, handled, dr>>
      BY <2>5, GoesOn
    <3>2. RunOf(s)' = RunOf(s)
      BY <2>5, <3>1, OwnBackupSame DEF SameRun, RunOf
    <3>3. ContractRun' = [ContractRun EXCEPT ![s] = RunOf(s)'] BY <2>5, OthersRuns
    <3>4. ContractRun' = ContractRun BY <3>2, <3>3 DEF ContractRun, RunOf
    <3>. QED  BY <3>1, <3>4 DEF Contract!vars, Marks
  <2>. QED  BY <1>2, <2>1, <2>2, <2>3, <2>4, <2>5, IdleSteps
<1>. QED  BY <1>1, <1>2 DEF Next

LEMMA ContractInit == Init => Contract!Init /\ RunningInv
<1>. SUFFICES ASSUME Init PROVE Contract!Init /\ RunningInv OBVIOUS
<1>1. TypeOK BY InitType
<1>2. Marks \in [Sites -> Contract!Mark] /\ handled \in [Sites -> Contract!Mark]
  BY <1>1 DEF TypeOK, Marks, Contract!Mark, Contract!AnyMode, Contract!NoMode, Request, Handled,
              AnyMode, Modes, NoMode
<1>3. ContractRun = [s \in Sites |-> "none"] BY DEF Init, Idle, ContractRun
<1>4. dr \in [Sites -> {[mode |-> Contract!NoMode, status |-> "none"],
                        [mode |-> "active", status |-> "done"]}]
  BY DEF Init, Contract!NoMode, NoMode
<1>5. RunningInv BY DEF Init, Idle, RunningInv
<1>. QED  BY <1>2, <1>3, <1>4, <1>5 DEF Contract!Init

\* An observer of the custom resource sees the contract, whatever happens inside:
\* every step of handlers, daemons, users and faults is one of its steps or none.
THEOREM SwitchoverImplements == Spec => ImplementsContract
<1>1. Init => TypeOK /\ RunInv /\ RunningInv /\ Contract!Init
  BY InitType, RunInvInit, ContractInit
<1>2. TypeOK /\ RunInv /\ RunningInv /\ [Next]_vars => (TypeOK /\ RunInv /\ RunningInv)'
  BY NextType, RunInvNext, RunningNext
<1>3. TypeOK /\ TypeOK' /\ RunInv /\ RunningInv /\ [Next]_vars => [Contract!Next]_(Contract!vars)
  BY ContractStep
<1>. QED  BY <1>1, <1>2, <1>3, PTL DEF Spec, ImplementsContract, Contract!Spec
=============================================================================
