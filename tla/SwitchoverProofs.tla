------------------------- MODULE SwitchoverProofs -------------------------
(***************************************************************************)
(* Proofs about Switchover for any number of sites, backups, requests,     *)
(* faults and attempts.                                                    *)
(***************************************************************************)
EXTENDS Switchover, TLAPS

LEMMA IdleType == Idle \in Handler /\ \A n \in Nat : Placed(Idle, n)
BY SMTT(30) DEF Idle, Handler, NoRequest, Request, AnyMode, Modes, NoMode, Placed,
       SearchPlaces, LeavingPlaces, EnteringPlaces

\* A step that only replaces the locals of one handler keeps the types if the
\* new locals are well-formed.
LEMMA LocalType ==
    ASSUME TypeOK, NEW s \in Sites, NEW r \in Handler, Placed(r, Len(backups)),
           Local(s, r)
    PROVE  TypeOK'
<1>1. /\ h' \in [Sites -> Handler] /\ h'[s] = r /\ backups' = backups
      /\ \A t \in Sites \ {s} : h'[t] = h[t]
  BY DEF TypeOK, Local
<1>2. \A t \in Sites : Placed(h'[t], Len(backups'))
  BY <1>1 DEF TypeOK
<1>. QED  BY <1>1, <1>2 DEF TypeOK, Local, crVars, daemonVars, boundVars

\* What the types say about the locals of a handler.
LEMMA HandlerFields ==
    ASSUME NEW r \in Handler
    PROVE  /\ r.tries \in Nat /\ r.job \in Nat /\ r.listed \in Nat /\ r.looks \in Nat
           /\ r.base \in Nat /\ r.req \in Request /\ r.prev \in AnyMode
           /\ r.skipped \in SUBSET Nat /\ r.busy \in SUBSET Nat
           /\ r.unlocked \in SUBSET Nat
BY DEF Handler

\* The states of a backup in the storage.
LEMMA StateType ==
    ASSUME NEW s \in Sites, h[s] \in Handler, Placed(h[s], Len(backups)),
           backups \in Seq(Backup), h[s].job \in 1..h[s].listed
    PROVE  backups[h[s].job].state \in {"failed", "ok", "locked"}
<1>1. h[s].job \in 1..Len(backups)
  BY HandlerFields DEF Placed
<1>2. backups[h[s].job] \in Backup
  BY <1>1
<1>. QED  BY <1>2 DEF Backup

\* The locals after passing over a backup, and after a failure.
LEMMA NextOlderType ==
    ASSUME TypeOK, NEW s \in Sites, h[s].pc \in {"scan", "lock", "relook"},
           h[s].job > 0
    PROVE  NextOlder(s) \in Handler /\ Placed(NextOlder(s), Len(backups))
<1>. DEFINE j == h[s].job - 1
<1>1. h[s] \in Handler /\ Placed(h[s], Len(backups)) /\ Len(backups) \in Nat
  BY DEF TypeOK
<1>2. /\ j \in Nat /\ j <= h[s].listed /\ h[s].listed <= Len(backups)
      /\ h[s].tries > 0 /\ h[s].job <= Len(backups) /\ j <= Len(backups)
  BY <1>1, HandlerFields DEF Placed, SearchPlaces
<1>. HIDE DEF j
<1>3. NextOlder(s) = [h[s] EXCEPT !.pc = "scan", !.job = j]
  BY DEF NextOlder, j
<1>4. NextOlder(s) \in Handler
  BY <1>1, <1>2, <1>3 DEF Handler, SearchPlaces, EnteringPlaces
<1>5. /\ NextOlder(s).pc = "scan" /\ NextOlder(s).job = j
      /\ NextOlder(s).tries = h[s].tries /\ NextOlder(s).listed = h[s].listed
  BY <1>1, <1>3 DEF Handler
<1>. QED  BY <1>2, <1>4, <1>5 DEF Placed

LEMMA FailedType ==
    ASSUME TypeOK, NEW s \in Sites
    PROVE  Failed(s) \in Handler /\ Placed(Failed(s), Len(backups))
<1>1. h[s] \in Handler /\ Placed(h[s], Len(backups))
  BY DEF TypeOK
<1>2. Failed(s) \in Handler
  BY <1>1 DEF Failed, Handler
<1>3. Placed(Failed(s), Len(backups))
  BY <1>1 DEF Failed, Handler, Placed, SearchPlaces
<1>. QED  BY <1>2, <1>3

\* The search, perform_backup and the waits only change locals.
LEMMA LocalStepsType ==
    ASSUME TypeOK, NEW s \in Sites,
           \/ RequestFails(s) \/ BackupNotPerformed(s) \/ BackupJobChecked(s)
           \/ WaitedDown(s) \/ WaitedUp(s) \/ ListBackups(s) \/ ReadInfo(s)
           \/ CheckUnlocked(s) \/ LookAgain(s) \/ StillLocked(s) \/ NothingFound(s)
           \/ SearchEnds(s) \/ RestoreJobChecked(s) \/ CallFails(s)
    PROVE  TypeOK'
<1>. DEFINE r == h[s]
            n == Len(backups)
            Fit(q) == q \in Handler /\ Placed(q, n)
<1>0. r \in Handler /\ Placed(r, n) /\ n \in Nat /\ backups \in Seq(Backup)
  BY DEF TypeOK
<1>l. ASSUME NEW q, Fit(q), Local(s, q) PROVE TypeOK'
  BY <1>l, LocalType
<1>f. Fit(Failed(s))
  BY FailedType
<1>p. ASSUME NEW pc \in {"idle", "report", "scaleDown", "list"}
      PROVE  Fit([r EXCEPT !.pc = pc])
  <2>1. [r EXCEPT !.pc = pc] \in Handler
    BY <1>0 DEF Handler, LeavingPlaces, EnteringPlaces
  <2>. QED  BY <1>0, <2>1 DEF Placed, Handler, SearchPlaces
<1>t. ASSUME NEW i \in Nat, NEW reason \in {"none", "not found"},
             NEW pc \in {"backup", "list"}
      PROVE  Fit([r EXCEPT !.tries = i, !.reason = reason, !.pc = pc])
  <2>1. [r EXCEPT !.tries = i, !.reason = reason, !.pc = pc] \in Handler
    BY <1>0 DEF Handler, LeavingPlaces, EnteringPlaces
  <2>. QED  BY <1>0, <2>1 DEF Placed, Handler, SearchPlaces
<1>1. CASE RequestFails(s)
  <2>1. r.tries - 1 \in Nat
    BY <1>0, <1>1, HandlerFields DEF RequestFails
  <2>2. Fit([r EXCEPT !.tries = r.tries - 1, !.reason = "none",
                      !.pc = IF r.pc = "backup" THEN r.pc ELSE "list"])
    <3>. DEFINE place == IF r.pc = "backup" THEN r.pc ELSE "list"
    <3>1. place \in {"backup", "list"}
      OBVIOUS
    <3>. QED  BY <2>1, <3>1, <1>t
  <2>. QED  BY <1>1, <1>l, <2>2 DEF RequestFails
<1>2. CASE BackupNotPerformed(s)
  BY <1>2, <1>l, <1>f DEF BackupNotPerformed
<1>3. CASE BackupJobChecked(s)
  BY <1>3, <1>l, <1>f, <1>p DEF BackupJobChecked
<1>4. CASE WaitedDown(s)
  BY <1>4, <1>l, <1>p DEF WaitedDown
<1>5. CASE WaitedUp(s)
  BY <1>5, <1>l, <1>p, <1>f DEF WaitedUp
<1>6. CASE SearchEnds(s)
  BY <1>6, <1>l, <1>p, <1>f DEF SearchEnds
<1>7. CASE RestoreJobChecked(s)
  BY <1>7, <1>l, <1>p, <1>f DEF RestoreJobChecked
<1>8. CASE CallFails(s)
  BY <1>8, <1>l, <1>f DEF CallFails
<1>9. CASE NothingFound(s)
  <2>1. r.tries - 1 \in Nat
    BY <1>0, <1>9, HandlerFields DEF NothingFound, Placed, SearchPlaces
  <2>2. Fit([r EXCEPT !.tries = r.tries - 1, !.reason = "not found", !.pc = "list"])
    BY <2>1, <1>t
  <2>. QED  BY <1>9, <1>l, <2>2 DEF NothingFound
<1>10. CASE ListBackups(s)
  <2>. DEFINE locked == {i \in 1..n : backups[i].state = "locked"}
              q == [r EXCEPT !.pc = "scan", !.listed = n, !.job = n,
                      !.busy = locked, !.skipped = {}, !.unlocked = {}]
  <2>1. locked \in SUBSET Nat
    BY <1>0
  <2>2. Local(s, q) /\ r.tries > 0
    BY <1>10 DEF ListBackups
  <2>. HIDE DEF locked
  <2>3. q \in Handler
    BY <1>0, <2>1 DEF Handler, SearchPlaces, EnteringPlaces
  <2>4. q.pc = "scan" /\ q.listed = n /\ q.job = n /\ q.tries = r.tries
    BY <1>0 DEF Handler
  <2>5. Placed(q, n)
    BY <1>0, <2>2, <2>4 DEF Placed
  <2>. QED  BY <1>l, <2>2, <2>3, <2>5
<1>11. CASE ReadInfo(s)
  <2>1. r.pc = "scan" /\ r.job > 0
    BY <1>11 DEF ReadInfo
  <2>2. Fit(NextOlder(s))
    BY <2>1, NextOlderType
  <2>3. Fit([r EXCEPT !.pc = "lock"])
    <3>1. [r EXCEPT !.pc = "lock"] \in Handler
      BY <1>0 DEF Handler, SearchPlaces, EnteringPlaces
    <3>2. r.job \in 1..r.listed /\ r.tries > 0
      BY <1>0, <2>1, HandlerFields DEF Placed, SearchPlaces
    <3>. QED  BY <1>0, <3>1, <3>2 DEF Placed, Handler
  <2>4. Fit([NextOlder(s) EXCEPT !.skipped = NextOlder(s).skipped \cup {r.job}])
    <3>. DEFINE o == NextOlder(s)
    <3>1. o.skipped \cup {r.job} \in SUBSET Nat
      BY <1>0, <2>2, HandlerFields
    <3>. HIDE DEF o
    <3>2. [o EXCEPT !.skipped = o.skipped \cup {r.job}] \in Handler
      BY <2>2, <3>1 DEF Handler, o
    <3>3. Placed([o EXCEPT !.skipped = o.skipped \cup {r.job}], n)
      BY <2>2 DEF Handler, Placed, o
    <3>. QED  BY <3>2, <3>3 DEF o
  <2>. QED  BY <1>11, <1>l, <2>2, <2>3, <2>4 DEF ReadInfo
<1>12. CASE CheckUnlocked(s)
  <2>1. r.pc = "lock" /\ r.job \in 1..r.listed /\ r.job > 0 /\ r.tries > 0
    BY <1>0, <1>12, HandlerFields DEF CheckUnlocked, Placed, SearchPlaces
  <2>2. Fit(NextOlder(s))
    BY <2>1, NextOlderType
  <2>3. Fit([r EXCEPT !.pc = "post"])
    <3>1. [r EXCEPT !.pc = "post"] \in Handler
      BY <1>0 DEF Handler, SearchPlaces, EnteringPlaces
    <3>. QED  BY <1>0, <2>1, <3>1 DEF Placed, Handler
  <2>4. Fit([r EXCEPT !.pc = "relook", !.looks = LockLooks - 1])
    <3>. DEFINE left == LockLooks - 1
    <3>1. left \in Nat
      BY SwitchoverAssumption
    <3>. HIDE DEF left
    <3>2. [r EXCEPT !.pc = "relook", !.looks = left] \in Handler
      BY <1>0, <3>1 DEF Handler, SearchPlaces, EnteringPlaces
    <3>3. Placed([r EXCEPT !.pc = "relook", !.looks = left], n)
      BY <1>0, <2>1, <3>2 DEF Placed, Handler
    <3>. QED  BY <3>2, <3>3 DEF left
  <2>5. backups[r.job].state \in {"failed", "ok", "locked"}
    BY <1>0, <2>1, StateType
  <2>6. PICK q : Fit(q) /\ Local(s, q)
    BY <1>12, <2>2, <2>3, <2>4, <2>5 DEF CheckUnlocked
  <2>. QED  BY <1>l, <2>6
<1>13. CASE LookAgain(s)
  <2>1. /\ r.pc = "relook" /\ r.job \in 1..r.listed /\ r.job > 0 /\ r.tries > 0
        /\ r.looks > 0
    BY <1>0, <1>13, HandlerFields DEF LookAgain, Placed, SearchPlaces
  <2>2. Fit(NextOlder(s))
    BY <2>1, NextOlderType
  <2>3. Fit([NextOlder(s) EXCEPT !.unlocked = NextOlder(s).unlocked \cup {r.job}])
    <3>. DEFINE o == NextOlder(s)
    <3>1. o.unlocked \cup {r.job} \in SUBSET Nat
      BY <1>0, <2>2, HandlerFields
    <3>. HIDE DEF o
    <3>2. [o EXCEPT !.unlocked = o.unlocked \cup {r.job}] \in Handler
      BY <2>2, <3>1 DEF Handler, o
    <3>3. Placed([o EXCEPT !.unlocked = o.unlocked \cup {r.job}], n)
      BY <2>2 DEF Handler, Placed, o
    <3>. QED  BY <3>2, <3>3 DEF o
  <2>4. Fit([r EXCEPT !.looks = r.looks - 1])
    <3>. DEFINE left == r.looks - 1
    <3>1. left \in Nat
      BY <1>0, <2>1, HandlerFields
    <3>. HIDE DEF left
    <3>2. [r EXCEPT !.looks = left] \in Handler
      BY <1>0, <3>1 DEF Handler
    <3>3. Placed([r EXCEPT !.looks = left], n)
      BY <1>0 DEF Placed, Handler
    <3>. QED  BY <3>2, <3>3 DEF left
  <2>5. backups[r.job].state \in {"failed", "ok", "locked"}
    BY <1>0, <2>1, StateType
  <2>6. PICK q : Fit(q) /\ Local(s, q)
    BY <1>13, <2>2, <2>3, <2>4, <2>5 DEF LookAgain
  <2>. QED  BY <1>l, <2>6
<1>14. CASE StillLocked(s)
  <2>1. r.pc = "relook" /\ r.job > 0
    BY <1>0, <1>14, HandlerFields DEF StillLocked, Placed
  <2>2. Fit(NextOlder(s))
    BY <2>1, NextOlderType
  <2>. QED  BY <1>14, <1>l, <2>2 DEF StillLocked
<1>. QED  BY <1>1, <1>2, <1>3, <1>4, <1>5, <1>6, <1>7, <1>8, <1>9, <1>10, <1>11,
             <1>12, <1>13, <1>14

\* New locals for one handler while the storage keeps its backups or grows.
LEMMA HandlerType ==
    ASSUME TypeOK, NEW s \in Sites, NEW r \in Handler, Placed(r, Len(backups')),
           Len(backups') \in Nat, Len(backups') >= Len(backups), h' = [h EXCEPT ![s] = r]
    PROVE  h' \in [Sites -> Handler] /\ \A t \in Sites : Placed(h'[t], Len(backups'))
<1>1. h' \in [Sites -> Handler] /\ h'[s] = r /\ \A t \in Sites \ {s} : h'[t] = h[t]
  BY DEF TypeOK
<1>2. ASSUME NEW t \in Sites \ {s} PROVE Placed(h'[t], Len(backups'))
  <2>1. /\ h[t] \in Handler /\ Placed(h[t], Len(backups)) /\ h'[t] = h[t]
        /\ Len(backups) \in Nat
    BY <1>1 DEF TypeOK
  <2>. QED  BY <2>1, HandlerFields DEF Placed
<1>. QED  BY <1>1, <1>2

\* The same for a step that leaves the storage alone.
LEMMA HandlerOnlyType ==
    ASSUME TypeOK, NEW s \in Sites, NEW r \in Handler, Placed(r, Len(backups)),
           UNCHANGED backups, h' = [h EXCEPT ![s] = r]
    PROVE  h' \in [Sites -> Handler] /\ \A t \in Sites : Placed(h'[t], Len(backups'))
<1>1. Len(backups) \in Nat /\ Len(backups') = Len(backups)
  BY DEF TypeOK
<1>2. Len(backups') \in Nat /\ Len(backups') >= Len(backups) /\ Placed(r, Len(backups'))
  BY <1>1
<1>. QED  BY <1>2, HandlerType

LEMMA AppendType ==
    ASSUME NEW S, NEW q \in Seq(S), NEW e \in S
    PROVE  Append(q, e) \in Seq(S) /\ Len(Append(q, e)) = Len(q) + 1
OBVIOUS

\* A storage that grows, or whose backups change, keeps what points into it.
LEMMA StorageType ==
    ASSUME TypeOK, backups' \in Seq(Backup), Len(backups') >= Len(backups)
    PROVE  /\ restoring \in [Sites -> SUBSET (1..Len(backups'))]
           /\ applied \in [Sites -> 0..Len(backups')]
           /\ \A t \in Sites : Placed(h[t], Len(backups'))
<1>1. Len(backups) \in Nat /\ Len(backups') \in Nat
  BY DEF TypeOK
<1>2. ASSUME NEW t \in Sites PROVE Placed(h[t], Len(backups'))
  <2>1. h[t] \in Handler /\ Placed(h[t], Len(backups))
    BY DEF TypeOK
  <2>. QED  BY <1>1, <2>1, HandlerFields DEF Placed
<1>3. 1..Len(backups) \subseteq 1..Len(backups') /\ 0..Len(backups) \subseteq 0..Len(backups')
  BY <1>1
<1>4. ASSUME NEW t \in Sites
      PROVE  restoring[t] \in SUBSET (1..Len(backups')) /\ applied[t] \in 0..Len(backups')
  BY <1>3 DEF TypeOK
<1>. QED  BY <1>2, <1>4 DEF TypeOK

LEMMA NewBackupType ==
    ASSUME NEW s \in Sites, NEW full \in BOOLEAN
    PROVE  NewBackup(s, full) \in Backup
BY DEF NewBackup, Backup

\* The steps of a handler that change more than its locals.
LEMMA HandlerStepsType ==
    ASSUME TypeOK, NEW s \in Sites,
           \/ Begin(s) \/ Reject(s) \/ PostBackup(s) \/ ScaleDown(s) \/ ScaleUp(s)
           \/ PostRestore(s) \/ Report(s) \/ Interrupted(s)
    PROVE  TypeOK'
<1>. DEFINE r == h[s]
            n == Len(backups)
<1>0. r \in Handler /\ Placed(r, n) /\ n \in Nat /\ backups \in Seq(Backup)
  BY DEF TypeOK
<1>. USE DEF crVars, daemonVars, boundVars
<1>1. CASE Begin(s)
  <2>. DEFINE place == IF spec[s].mode = "active" THEN "scaleUp"
                       ELSE IF dr[s].mode \in {NoMode, "disable", "standby"}
                            THEN "scaleDown" ELSE "backup"
              mode == spec[s].mode
              request == spec[s]
              before == dr[s].mode
              q == [Idle EXCEPT !.req = request, !.prev = before, !.base = n,
                      !.tries = Attempts, !.pc = place]
  <2>1. place \in {"scaleUp", "scaleDown", "backup"}
    OBVIOUS
  <2>2. request \in Request /\ before \in AnyMode /\ mode \in AnyMode
    BY DEF TypeOK, Request, Status
  <2>3. h' = [h EXCEPT ![s] = q] /\ dr' = [dr EXCEPT ![s] = [mode |-> mode, status |-> "running"]]
    BY <1>1 DEF Begin
  <2>. HIDE DEF place, mode, request, before
  <2>4. q \in Handler
    BY <1>0, <2>1, <2>2, IdleType, SwitchoverAssumption
       DEF Handler, LeavingPlaces, EnteringPlaces
  <2>5. q.pc = place /\ q.listed = 0 /\ q.job = 0
    BY DEF Idle
  <2>6. Placed(q, n)
    BY <1>0, <2>1, <2>5 DEF Placed, SearchPlaces
  <2>. HIDE DEF q
  <2>7. h' \in [Sites -> Handler] /\ \A t \in Sites : Placed(h'[t], Len(backups'))
    BY <1>0, <1>1, <2>3, <2>4, <2>6, HandlerOnlyType DEF Begin
  <2>8. dr' \in [Sites -> Status]
    BY <2>2, <2>3 DEF TypeOK, Status
  <2>9. /\ UNCHANGED <<spec, handled, replicas, up, restoring, applied, backups,
                       requests, faults>>
    BY <1>1 DEF Begin
  <2>. QED  BY <2>7, <2>8, <2>9 DEF TypeOK
<1>2. CASE Reject(s)
  <2>1. handled' \in [Sites -> Handled]
    BY <1>2 DEF Reject, TypeOK, Handled, Request, AnyMode, NoMode
  <2>. QED  BY <1>2, <2>1 DEF Reject, TypeOK
<1>3. CASE PostBackup(s)
  <2>1. /\ backups' = Append(backups, NewBackup(s, TRUE)) /\ r.tries > 0
        /\ UNCHANGED <<spec, handled, dr, replicas, up, restoring, applied,
                       requests, faults>>
    BY <1>3 DEF PostBackup
  <2>2. backups' \in Seq(Backup) /\ Len(backups') = n + 1
    <3>1. NewBackup(s, TRUE) \in Backup
      BY NewBackupType
    <3>. QED  BY <1>0, <2>1, <3>1, AppendType
  <2>3. PICK q \in Handler : Placed(q, n + 1) /\ h' = [h EXCEPT ![s] = q]
    <3>1. CASE h' = [h EXCEPT ![s].pc = "backupJob", ![s].job = Len(backups) + 1]
      <4>. DEFINE new == n + 1
                  q == [r EXCEPT !.pc = "backupJob", !.job = new]
      <4>1. new \in Nat /\ new > 0
        BY <1>0
      <4>2. h' = [h EXCEPT ![s] = q]
        BY <3>1
      <4>. HIDE DEF new
      <4>3. q \in Handler
        BY <1>0, <4>1 DEF Handler, LeavingPlaces
      <4>4. q.pc = "backupJob" /\ q.job = new /\ q.listed = r.listed
        BY <1>0 DEF Handler
      <4>5. Placed(q, n + 1)
        BY <1>0, <4>1, <4>4, HandlerFields DEF Placed, SearchPlaces, new
      <4>. QED  BY <4>2, <4>3, <4>5
    <3>2. CASE h' = [h EXCEPT ![s].tries = @ - 1]
      <4>. DEFINE left == r.tries - 1
                  q == [r EXCEPT !.tries = left]
      <4>1. left \in Nat /\ r.pc = "backup"
        BY <1>0, <1>3, <2>1, HandlerFields DEF PostBackup
      <4>2. h' = [h EXCEPT ![s] = q]
        BY <3>2
      <4>. HIDE DEF left
      <4>3. q \in Handler
        BY <1>0, <4>1 DEF Handler
      <4>4. q.pc = "backup" /\ q.job = r.job /\ q.listed = r.listed
        BY <1>0, <4>1 DEF Handler
      <4>5. Placed(q, n + 1)
        BY <1>0, <4>4, HandlerFields DEF Placed, SearchPlaces
      <4>. QED  BY <4>2, <4>3, <4>5
    <3>. QED  BY <1>3, <3>1, <3>2 DEF PostBackup
  <2>4. Len(backups') \in Nat /\ Len(backups') >= Len(backups)
    BY <1>0, <2>2
  <2>5. h' \in [Sites -> Handler] /\ \A t \in Sites : Placed(h'[t], Len(backups'))
    BY <2>2, <2>3, <2>4, HandlerType
  <2>6. /\ restoring \in [Sites -> SUBSET (1..Len(backups'))]
        /\ applied \in [Sites -> 0..Len(backups')]
    BY <2>2, <2>4, StorageType
  <2>. QED  BY <2>1, <2>2, <2>5, <2>6 DEF TypeOK
<1>4. ASSUME NEW place \in {"waitDown", "waitUp"}, NEW i \in {0, 1}, Scale(s, i, place)
      PROVE  TypeOK'
  <2>. DEFINE q == [r EXCEPT !.pc = place]
  <2>1. q \in Handler
    BY <1>0 DEF Handler, LeavingPlaces, EnteringPlaces
  <2>2. Placed(q, n)
    BY <1>0 DEF Handler, Placed, SearchPlaces
  <2>3. h' = [h EXCEPT ![s] = q]
    BY <1>4 DEF Scale
  <2>4. h' \in [Sites -> Handler] /\ \A t \in Sites : Placed(h'[t], Len(backups'))
    BY <1>4, <2>1, <2>2, <2>3, HandlerOnlyType DEF Scale
  <2>. QED  BY <1>4, <2>4 DEF Scale, TypeOK
<1>5. CASE ScaleDown(s) \/ ScaleUp(s)
  BY <1>4, <1>5 DEF ScaleDown, ScaleUp
<1>6. CASE PostRestore(s)
  <2>1. /\ r.pc = "post" /\ r.job \in 1..n /\ r.tries > 0
        /\ restoring' = [restoring EXCEPT ![s] = @ \cup {r.job}]
        /\ UNCHANGED <<spec, handled, dr, replicas, up, applied, backups,
                       requests, faults>>
    BY <1>0, <1>6, HandlerFields DEF PostRestore, Placed, SearchPlaces
  <2>2. PICK q \in Handler : Placed(q, n) /\ h' = [h EXCEPT ![s] = q]
    <3>1. CASE h' = [h EXCEPT ![s].pc = "restoreJob", ![s].task = "processing"]
      <4>. DEFINE q == [r EXCEPT !.pc = "restoreJob", !.task = "processing"]
      <4>1. q \in Handler
        BY <1>0 DEF Handler, EnteringPlaces
      <4>2. q.pc = "restoreJob" /\ q.job = r.job /\ q.listed = r.listed
        BY <1>0 DEF Handler
      <4>3. Placed(q, n)
        BY <1>0, <2>1, <4>2, HandlerFields DEF Placed, SearchPlaces
      <4>. QED  BY <3>1, <4>1, <4>3
    <3>2. CASE h' = [h EXCEPT ![s].pc = "list", ![s].tries = @ - 1, ![s].reason = "none"]
      <4>. DEFINE left == r.tries - 1
                  q == [r EXCEPT !.pc = "list", !.tries = left, !.reason = "none"]
      <4>1. left \in Nat
        BY <1>0, <2>1, HandlerFields
      <4>2. h' = [h EXCEPT ![s] = q]
        BY <3>2
      <4>. HIDE DEF left
      <4>3. q \in Handler
        BY <1>0, <4>1 DEF Handler, EnteringPlaces
      <4>4. q.pc = "list" /\ q.job = r.job /\ q.listed = r.listed
        BY <1>0, <4>1 DEF Handler
      <4>5. Placed(q, n)
        BY <1>0, <4>4, HandlerFields DEF Placed, SearchPlaces
      <4>. QED  BY <4>2, <4>3, <4>5
    <3>. QED  BY <1>6, <3>1, <3>2 DEF PostRestore
  <2>3. h' \in [Sites -> Handler] /\ \A t \in Sites : Placed(h'[t], Len(backups'))
    BY <2>1, <2>2, HandlerOnlyType
  <2>4. restoring' \in [Sites -> SUBSET (1..Len(backups'))]
    BY <2>1 DEF TypeOK
  <2>. QED  BY <2>1, <2>3, <2>4 DEF TypeOK
<1>7. CASE Report(s) \/ Interrupted(s)
  <2>1. h' = [h EXCEPT ![s] = Idle] /\ UNCHANGED backups
    BY <1>7 DEF Report, Interrupted
  <2>2. h' \in [Sites -> Handler] /\ \A t \in Sites : Placed(h'[t], Len(backups'))
    BY <1>0, <2>1, IdleType, HandlerOnlyType
  <2>3. dr' \in [Sites -> Status] /\ handled' \in [Sites -> Handled]
    <3>1. r.req.mode \in AnyMode /\ r.req.retry \in Nat /\ r.status \in {"done", "failed"}
      BY <1>0 DEF Handler, Request
    <3>2. /\ [mode |-> r.req.mode, status |-> r.status] \in Status
          /\ [mode |-> r.req.mode, retry |-> r.req.retry] \in Handled
      BY <3>1 DEF Status, Handled
    <3>. QED  BY <1>7, <3>2 DEF Report, Interrupted, TypeOK
  <2>4. faults' \in Nat /\ requests' \in Nat
    BY <1>7 DEF Report, Interrupted, TypeOK
  <2>. QED  BY <1>7, <2>1, <2>2, <2>3, <2>4 DEF Report, Interrupted, TypeOK
<1>. QED  BY <1>1, <1>2, <1>3, <1>5, <1>6, <1>7

\* The steps of the daemons and of the users.
LEMMA EnvironmentType ==
    ASSUME TypeOK, NEW s \in Sites,
           \/ PodStarts(s) \/ PodStops(s) \/ BackupJobEnds(s) \/ RestoreJobEnds(s)
           \/ OtherBackup(s) \/ RequestMode(s) \/ RequestRetry(s)
    PROVE  TypeOK'
<1>. DEFINE n == Len(backups)
<1>0. n \in Nat /\ backups \in Seq(Backup) /\ \A i \in 1..n : backups[i] \in Backup
  BY DEF TypeOK
<1>. USE DEF crVars, daemonVars, boundVars
<1>t. ASSUME NEW task \in {"none", "processing", "successful", "failed"}, UNCHANGED backups,
             h' = [h EXCEPT ![s].task = task]
      PROVE  h' \in [Sites -> Handler] /\ \A t \in Sites : Placed(h'[t], Len(backups'))
  <2>. DEFINE q == [h[s] EXCEPT !.task = task]
  <2>1. h[s] \in Handler /\ Placed(h[s], n)
    BY DEF TypeOK
  <2>2. q \in Handler
    BY <2>1 DEF Handler
  <2>3. Placed(q, n)
    BY <2>1 DEF Handler, Placed
  <2>4. h' = [h EXCEPT ![s] = q]
    BY <1>t
  <2>. QED  BY <1>t, <2>2, <2>3, <2>4, HandlerOnlyType
<1>b. ASSUME NEW i \in 1..n, NEW state \in {"ok", "failed"}
      PROVE  [backups[i] EXCEPT !.state = state] \in Backup
  BY <1>0 DEF Backup
<1>1. CASE PodStarts(s)
  BY <1>1 DEF PodStarts, TypeOK
<1>2. CASE RequestRetry(s)
  <2>1. spec[s] \in Request /\ spec[s].retry + 1 \in Nat
    BY DEF TypeOK, Request
  <2>. DEFINE mark == spec[s].retry + 1
  <2>2. spec' = [spec EXCEPT ![s].retry = mark]
    BY <1>2 DEF RequestRetry
  <2>. HIDE DEF mark
  <2>3. mark \in Nat
    BY <2>1 DEF mark
  <2>4. spec' \in [Sites -> Request]
    BY <2>2, <2>3 DEF TypeOK, Request
  <2>. QED  BY <1>2, <2>4 DEF RequestRetry, TypeOK
<1>3. CASE RequestMode(s)
  <2>1. PICK wish \in Wishes, channel \in Channels :
          /\ spec' = [spec EXCEPT ![s].mode = wish.mode, ![s].noWait = wish.noWait]
          /\ replicas' = [replicas EXCEPT ![s] =
               IF channel = "helm" THEN ChartReplicas(wish.mode) ELSE @]
    BY <1>3 DEF RequestMode
  <2>2. wish.mode \in AnyMode /\ wish.noWait \in BOOLEAN
    BY SwitchoverAssumption
  <2>3. spec' \in [Sites -> Request]
    BY <2>1, <2>2 DEF TypeOK, Request
  <2>4. replicas' \in [Sites -> {0, 1}]
    BY <2>1 DEF TypeOK, ChartReplicas
  <2>5. /\ UNCHANGED <<handled, dr, h, up, restoring, applied, backups, faults>>
        /\ requests' = requests + 1
    BY <1>3 DEF RequestMode
  <2>. QED  BY <2>3, <2>4, <2>5 DEF TypeOK
<1>4. CASE OtherBackup(s)
  <2>1. PICK full \in BOOLEAN : backups' = Append(backups, NewBackup(s, full))
    BY <1>4 DEF OtherBackup
  <2>2. NewBackup(s, full) \in Backup
    BY NewBackupType
  <2>3. backups' \in Seq(Backup) /\ Len(backups') >= n
    BY <1>0, <2>1, <2>2, AppendType
  <2>4. /\ restoring \in [Sites -> SUBSET (1..Len(backups'))]
        /\ applied \in [Sites -> 0..Len(backups')]
        /\ \A t \in Sites : Placed(h[t], Len(backups'))
    BY <2>3, StorageType
  <2>5. UNCHANGED <<spec, handled, dr, h, replicas, up, restoring, applied,
                    requests, faults>>
    BY <1>4 DEF OtherBackup
  <2>. QED  BY <2>3, <2>4, <2>5 DEF TypeOK
<1>5. CASE BackupJobEnds(s)
  <2>1. PICK i \in 1..n, result \in {"ok", "failed"} :
          backups' = [backups EXCEPT ![i].state = result]
    BY <1>5 DEF BackupJobEnds
  <2>. DEFINE b == [backups[i] EXCEPT !.state = result]
  <2>2. b \in Backup /\ backups' = [backups EXCEPT ![i] = b]
    BY <1>b, <2>1
  <2>. HIDE DEF b
  <2>3. backups' \in Seq(Backup) /\ Len(backups') = n
    BY <1>0, <2>2
  <2>. QED  BY <1>0, <1>5, <2>3, StorageType DEF BackupJobEnds, TypeOK
<1>6. CASE RestoreJobEnds(s)
  <2>1. PICK i \in restoring[s], result \in {"successful", "failed"} :
          /\ restoring' = [restoring EXCEPT ![s] = @ \ {i}]
          /\ applied' = [applied EXCEPT ![s] = IF result = "successful" THEN i ELSE @]
          /\ h' = [h EXCEPT ![s].task =
                     IF @ = "processing" /\ i = h[s].job THEN result ELSE @]
    BY <1>6 DEF RestoreJobEnds
  <2>2. UNCHANGED <<spec, handled, dr, replicas, up, backups, requests, faults>>
    BY <1>6 DEF RestoreJobEnds
  <2>. DEFINE task == IF h[s].task = "processing" /\ i = h[s].job THEN result ELSE h[s].task
  <2>3. task \in {"none", "processing", "successful", "failed"}
    BY DEF TypeOK, Handler
  <2>4. h' \in [Sites -> Handler] /\ \A t \in Sites : Placed(h'[t], Len(backups'))
    BY <1>t, <2>1, <2>2, <2>3
  <2>5. restoring' \in [Sites -> SUBSET (1..n)] /\ applied' \in [Sites -> 0..n]
    BY <1>0, <2>1 DEF TypeOK
  <2>. QED  BY <2>2, <2>4, <2>5 DEF TypeOK
<1>7. CASE PodStops(s)
  <2>. DEFINE stopped == [i \in 1..Len(backups) |->
                IF backups[i].region = s /\ backups[i].state = "locked"
                THEN [backups[i] EXCEPT !.state = "failed"] ELSE backups[i]]
  <2>1. backups' = stopped
    BY <1>7 DEF PodStops
  <2>2. \A i \in 1..n : stopped[i] \in Backup
    BY <1>0, <1>b
  <2>3. stopped \in [1..n -> Backup]
    BY <2>2
  <2>. HIDE DEF stopped
  <2>4. backups' \in Seq(Backup) /\ Len(backups') = n
    BY <1>0, <2>1, <2>3
  <2>5. h' \in [Sites -> Handler] /\ \A t \in Sites : Placed(h'[t], Len(backups'))
    <3>. DEFINE task == IF h[s].task = "processing" THEN "failed" ELSE h[s].task
                q == [h[s] EXCEPT !.task = task]
    <3>1. h[s] \in Handler /\ Placed(h[s], n)
      BY DEF TypeOK
    <3>2. task \in {"none", "processing", "successful", "failed"}
      BY <3>1 DEF Handler
    <3>3. h' = [h EXCEPT ![s] = q]
      BY <1>7 DEF PodStops
    <3>. HIDE DEF task
    <3>4. q \in Handler
      BY <3>1, <3>2 DEF Handler
    <3>5. Placed(q, Len(backups'))
      BY <2>4, <3>1 DEF Handler, Placed
    <3>6. Len(backups') \in Nat /\ Len(backups') >= Len(backups)
      BY <1>0, <2>4
    <3>. QED  BY <3>3, <3>4, <3>5, <3>6, HandlerType
  <2>6. up' \in [Sites -> BOOLEAN] /\ restoring' \in [Sites -> SUBSET (1..Len(backups'))]
    BY <1>7, <2>4 DEF PodStops, TypeOK
  <2>7. faults' \in Nat
    BY <1>7 DEF PodStops, TypeOK
  <2>8. UNCHANGED <<spec, handled, dr, replicas, applied, requests>>
    BY <1>7 DEF PodStops
  <2>. QED  BY <2>4, <2>5, <2>6, <2>7, <2>8 DEF TypeOK
<1>. QED  BY <1>1, <1>2, <1>3, <1>4, <1>5, <1>6, <1>7

LEMMA InitType == Init => TypeOK
<1>. SUFFICES ASSUME Init PROVE TypeOK
  OBVIOUS
<1>1. spec \in [Sites -> Request]
  BY SwitchoverAssumption DEF Init, Request, AnyMode, Modes, NoMode
<1>2. backups \in Seq(Backup) /\ Len(backups) \in Nat
  <2>1. Legacy \in Backup
    BY DEF Legacy, Backup
  <2>2. <<>> \in Seq(Backup) /\ <<Legacy>> \in Seq(Backup)
    BY <2>1
  <2>. QED  BY <2>2 DEF Init
<1>3. replicas \in [Sites -> {0, 1}]
  BY DEF Init, ChartReplicas
<1>4. h \in [Sites -> Handler] /\ \A s \in Sites : Placed(h[s], Len(backups))
  BY <1>2, IdleType DEF Init
<1>5. handled \in [Sites -> Handled] /\ dr \in [Sites -> Status]
  BY DEF Init, Handled, Status, AnyMode, Modes, NoMode
<1>. QED  BY <1>1, <1>2, <1>3, <1>4, <1>5 DEF Init, TypeOK

LEMMA NextType == TypeOK /\ [Next]_vars => TypeOK'
<1>. SUFFICES ASSUME TypeOK, [Next]_vars PROVE TypeOK'
  OBVIOUS
<1>1. CASE UNCHANGED vars
  BY <1>1 DEF vars, crVars, daemonVars, boundVars, TypeOK
<1>2. ASSUME NEW s \in Sites, HandlerStep(s) \/ Environment(s) PROVE TypeOK'
  BY <1>2, LocalStepsType, HandlerStepsType, EnvironmentType
     DEF HandlerStep, Leave, Enter, Environment
<1>. QED  BY <1>1, <1>2 DEF Next

\* No handler, import or broker ever refers to a backup that is not in the
\* storage, and every variable keeps its range.
THEOREM TypeCorrect == Spec => []TypeOK
BY InitType, NextType, PTL DEF Spec
=============================================================================
