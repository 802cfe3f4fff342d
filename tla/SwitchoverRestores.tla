------------------------ MODULE SwitchoverRestores ------------------------
(***************************************************************************)
(* What a site that becomes active restores, for any number of sites,      *)
(* backups, requests, faults and attempts.                                 *)
(***************************************************************************)
EXTENDS SwitchoverSafety

\* A full backup of another region, and a complete one.  Neither changes.
Foreign(i, s) == i \in 1..Len(backups) /\ backups[i].full /\ backups[i].region \notin {s, "none"}
Ready(i, s)   == Foreign(i, s) /\ backups[i].state = "ok"

\* What the search knows of the backup it looks at.
LookedAt(s) == /\ h[s].pc \in {"lock", "relook"} => Foreign(h[s].job, s)
               /\ h[s].pc = "post" => Ready(h[s].job, s)

Imports(s) == \A i \in restoring[s] \cup ({applied[s]} \ {0}) : Ready(i, s)

\* What a run to the active mode that is to report success has done.
HasRestored(r) == \/ r.req.mode # "active" \/ r.prev = NoMode
                  \/ r.task = "successful" \/ (r.req.noWait /\ r.reason = "not found")
Activated(s) == h[s].pc = "report" /\ h[s].status = "done" => HasRestored(h[s])

\* What the search knows of the list it has received: a backup not locked then
\* is not locked now, and one that is passed over is unfit or could not be read.
Searching == SearchPlaces \cup {"restoreJob"}
Unlocked(r) == \A i \in 1..r.listed : i \in r.busy \/ backups[i].state # "locked"
Passed(r, s) == \A i \in (r.job + 1)..r.listed :
                  Candidate(backups[i], s) => i \in r.skipped \cup r.busy
Searched(s) == h[s].pc \in Searching =>
                 /\ Unlocked(h[s]) /\ Passed(h[s], s)
                 /\ h[s].pc = "relook" => h[s].job \in h[s].busy
SearchInv == \A s \in Sites : Searched(s)

SiteRestores(s) == LookedAt(s) /\ Imports(s) /\ Activated(s)
RestoreInv == \A s \in Sites : SiteRestores(s)

\* The ways the search goes on.
Aside(s)  == h'[s].pc \notin {"lock", "relook", "post", "report"}
Picks(s)  == h'[s].pc = "lock" /\ Foreign(h'[s].job, s)
Waits(s)  == h[s].pc \in {"lock", "relook"} /\ h'[s].pc = "relook" /\ h'[s].job = h[s].job
Chosen(s) == /\ h[s].pc = "lock" /\ h'[s].pc = "post" /\ h'[s].job = h[s].job
             /\ backups[h[s].job].state = "ok"
Ends(s)   == h'[s].pc = "report" /\ HasRestored(h'[s])
Keeps(s)  == /\ h'[s].pc = h[s].pc /\ h'[s].job = h[s].job /\ h'[s].status = h[s].status
             /\ h'[s].req = h[s].req /\ h'[s].prev = h[s].prev
             /\ h'[s].reason = h[s].reason /\ h'[s].listed = h[s].listed
             /\ h'[s].busy = h[s].busy /\ h'[s].skipped = h[s].skipped
             /\ h[s].task = "successful" => h'[s].task = "successful"
Off(s) == h'[s].pc \notin Searching
SearchGoes(s) == Aside(s) \/ Picks(s) \/ Waits(s) \/ Chosen(s) \/ Ends(s) \/ Fails(s)

\* The ways the search of a list moves.
SameList(s) == h'[s].listed = h[s].listed /\ h'[s].busy = h[s].busy
Starts(s) == /\ h'[s].pc = "scan" /\ h'[s].job = h'[s].listed /\ h'[s].listed = Len(backups)
             /\ h'[s].busy = {i \in 1..Len(backups) : backups[i].state = "locked"}
Holds(s)  == /\ SameList(s) /\ h[s].pc \in Searching
             /\ h'[s].job = h[s].job /\ h'[s].skipped = h[s].skipped
             /\ h'[s].pc = "relook" => h[s].pc = "relook" \/ backups[h[s].job].state = "locked"
Older(s)  == /\ SameList(s) /\ h[s].pc \in SearchPlaces /\ h'[s].pc = "scan"
             /\ h'[s].job = h[s].job - 1 /\ h[s].skipped \subseteq h'[s].skipped
             /\ \/ ~Candidate(backups[h[s].job], s) \/ h[s].pc = "relook"
                \/ h[s].job \in h'[s].skipped
Looks(s)  == Off(s) \/ Starts(s) \/ Holds(s) \/ Older(s) \/ Keeps(s)

\* Waits, failures and reports.
LEMMA RunGoes ==
    ASSUME TypeOK, NEW s \in Sites, PlaceInv(s),
           \/ RequestFails(s) \/ BackupNotPerformed(s) \/ BackupJobChecked(s)
           \/ WaitedDown(s) \/ WaitedUp(s) \/ SearchEnds(s) \/ RestoreJobChecked(s) \/ CallFails(s)
    PROVE  SearchGoes(s) /\ Off(s) /\ UNCHANGED <<restoring, applied, backups>>
<1>. DEFINE r == h[s]
<1>0. r \in Handler /\ h \in [Sites -> Handler] BY DEF TypeOK
<1>1. ASSUME NEW q, Local(s, q) PROVE h'[s] = q /\ UNCHANGED <<restoring, applied, backups>>
  BY <1>0, <1>1 DEF Local, daemonVars
<1>f. ASSUME Local(s, Failed(s)) PROVE SearchGoes(s) /\ Off(s) /\ UNCHANGED <<restoring, applied, backups>>
  <2>1. h'[s] = Failed(s) /\ UNCHANGED <<restoring, applied, backups>> BY <1>1, <1>f
  <2>2. Fails(s) BY <1>0, <2>1 DEF Failed, Fails, Handler
  <2>. QED  BY <2>1, <2>2 DEF SearchGoes, Off, Fails, Searching, SearchPlaces
<1>p. ASSUME NEW pc, Local(s, [r EXCEPT !.pc = pc]),
             pc \in {"list", "scaleDown"} \/ (pc = "report" /\ HasRestored(r))
      PROVE  SearchGoes(s) /\ Off(s) /\ UNCHANGED <<restoring, applied, backups>>
  <2>1. h'[s] = [r EXCEPT !.pc = pc] /\ UNCHANGED <<restoring, applied, backups>> BY <1>1, <1>p
  <2>2. /\ h'[s].pc = pc /\ h'[s].req = r.req /\ h'[s].prev = r.prev
        /\ h'[s].task = r.task /\ h'[s].reason = r.reason
    BY <1>0, <2>1 DEF Handler
  <2>. QED  BY <1>p, <2>1, <2>2 DEF SearchGoes, Aside, Ends, HasRestored, Off, Searching, SearchPlaces
<1>2. CASE BackupNotPerformed(s) \/ CallFails(s)
  BY <1>2, <1>f DEF BackupNotPerformed, CallFails
<1>3. CASE BackupJobChecked(s)
  BY <1>3, <1>f, <1>p DEF BackupJobChecked
<1>4. CASE WaitedDown(s)
  <2>1. r.req.mode # "active" BY <1>4 DEF WaitedDown, PlaceInv, LeavingPlaces
  <2>. QED  BY <1>4, <1>p, <2>1 DEF WaitedDown, HasRestored
<1>5. CASE WaitedUp(s)
  <2>1. CASE up[s] /\ r.prev = NoMode BY <1>5, <1>p, <2>1 DEF WaitedUp, HasRestored
  <2>2. CASE up[s] /\ r.prev # NoMode BY <1>5, <1>p, <2>2 DEF WaitedUp
  <2>3. CASE ~up[s] BY <1>5, <1>f, <2>3 DEF WaitedUp
  <2>. QED  BY <2>1, <2>2, <2>3
<1>6. CASE SearchEnds(s)
  BY <1>6, <1>f, <1>p DEF SearchEnds, HasRestored
<1>7. CASE RestoreJobChecked(s)
  BY <1>7, <1>f, <1>p DEF RestoreJobChecked, HasRestored
<1>8. CASE RequestFails(s)
  <2>. DEFINE left == r.tries - 1
              place == IF r.pc = "backup" THEN r.pc ELSE "list"
  <2>1. Local(s, [r EXCEPT !.tries = left, !.reason = "none", !.pc = place])
    BY <1>8 DEF RequestFails
  <2>2. place \in {"backup", "list"} OBVIOUS
  <2>. HIDE DEF left, place
  <2>3. /\ h'[s] = [r EXCEPT !.tries = left, !.reason = "none", !.pc = place]
        /\ UNCHANGED <<restoring, applied, backups>>
    BY <1>1, <2>1
  <2>4. h'[s].pc = place BY <1>0, <2>3 DEF Handler
  <2>. QED  BY <2>2, <2>3, <2>4 DEF SearchGoes, Aside, Off, Searching, SearchPlaces
<1>. QED  BY <1>2, <1>3, <1>4, <1>5, <1>6, <1>7, <1>8

\* The steps of the search.
LEMMA LookGoes ==
    ASSUME TypeOK, NEW s \in Sites,
           \/ ListBackups(s) \/ ReadInfo(s) \/ CheckUnlocked(s) \/ LookAgain(s)
           \/ StillLocked(s) \/ NothingFound(s)
    PROVE  SearchGoes(s) /\ UNCHANGED <<restoring, applied, backups>>
<1>. DEFINE r == h[s]
            older == r.job - 1
<1>0. r \in Handler /\ h \in [Sites -> Handler] /\ Placed(r, Len(backups)) BY DEF TypeOK
<1>1. ASSUME NEW q, Local(s, q) PROVE h'[s] = q /\ UNCHANGED <<restoring, applied, backups>>
  BY <1>0, <1>1 DEF Local, daemonVars
<1>c. ASSUME NEW q, Local(s, q) PROVE h'[s] = q BY <1>1, <1>c
<1>n. NextOlder(s) = [r EXCEPT !.pc = "scan", !.job = older] BY DEF NextOlder
<1>. HIDE DEF older
<1>k. ASSUME NEW seen
      PROVE  /\ NextOlder(s).pc = "scan"
             /\ [NextOlder(s) EXCEPT !.skipped = seen].pc = "scan"
             /\ [NextOlder(s) EXCEPT !.unlocked = seen].pc = "scan"
  BY <1>0, <1>n DEF Handler
<1>w. ASSUME NEW q, Local(s, q), q.pc \in {"scan", "list"}
      PROVE  SearchGoes(s) /\ UNCHANGED <<restoring, applied, backups>>
  BY <1>1, <1>w DEF SearchGoes, Aside
<1>o. ASSUME Local(s, NextOlder(s)) PROVE SearchGoes(s) /\ UNCHANGED <<restoring, applied, backups>>
  BY <1>k, <1>o, <1>w
<1>2. CASE ListBackups(s)
  <2>. DEFINE locked == {i \in 1..Len(backups) : backups[i].state = "locked"}
              n == Len(backups)
  <2>1. Local(s, [r EXCEPT !.pc = "scan", !.listed = n, !.job = n, !.busy = locked,
                           !.skipped = {}, !.unlocked = {}])
    BY <1>2 DEF ListBackups
  <2>. HIDE DEF locked, n
  <2>2. [r EXCEPT !.pc = "scan", !.listed = n, !.job = n, !.busy = locked,
                  !.skipped = {}, !.unlocked = {}].pc = "scan"
    BY <1>0 DEF Handler
  <2>. QED  BY <1>w, <2>1, <2>2
<1>3. CASE ReadInfo(s)
  <2>1. CASE Local(s, [r EXCEPT !.pc = "lock"]) /\ Candidate(backups[r.job], s)
    <3>0. h'[s] = [r EXCEPT !.pc = "lock"] BY <1>c, <2>1
    <3>1. h'[s].pc = "lock" /\ h'[s].job = r.job BY <1>0, <3>0 DEF Handler
    <3>2. r.pc = "scan" /\ r.job > 0 BY <1>3 DEF ReadInfo
    <3>3. r.job \in Nat /\ r.job <= Len(backups) BY <1>0, HandlerFields DEF Placed
    <3>4. Len(backups) \in Nat BY DEF TypeOK
    <3>5. r.job \in 1..Len(backups) BY <3>2, <3>3, <3>4
    <3>. QED  BY <1>1, <2>1, <3>1, <3>5 DEF SearchGoes, Picks, Foreign, Candidate
  <2>2. CASE Local(s, NextOlder(s)) BY <1>o, <2>2
  <2>3. CASE Local(s, [NextOlder(s) EXCEPT !.skipped = @ \cup {r.job}])
    BY <1>k, <1>w, <2>3
  <2>. QED  BY <1>3, <2>1, <2>2, <2>3 DEF ReadInfo
<1>4. CASE CheckUnlocked(s)
  <2>. DEFINE left == LockLooks - 1
  <2>1. r.pc = "lock" /\ r.job \in 1..r.listed BY <1>0, <1>4 DEF CheckUnlocked, Placed
  <2>2. backups[r.job].state \in {"failed", "ok", "locked"}
    BY <1>0, <2>1, StateType DEF TypeOK
  <2>3. \/ Local(s, NextOlder(s))
        \/ Local(s, [r EXCEPT !.pc = "post"]) /\ backups[r.job].state = "ok"
        \/ Local(s, [r EXCEPT !.pc = "relook", !.looks = left])
    BY <1>4, <2>2 DEF CheckUnlocked
  <2>. HIDE DEF left
  <2>4. CASE Local(s, [r EXCEPT !.pc = "post"]) /\ backups[r.job].state = "ok"
    <3>0. h'[s] = [r EXCEPT !.pc = "post"] BY <1>c, <2>4
    <3>1. h'[s].pc = "post" /\ h'[s].job = r.job BY <1>0, <3>0 DEF Handler
    <3>. QED  BY <1>1, <2>1, <2>4, <3>1 DEF SearchGoes, Chosen
  <2>5. CASE Local(s, [r EXCEPT !.pc = "relook", !.looks = left])
    <3>0. h'[s] = [r EXCEPT !.pc = "relook", !.looks = left] BY <1>c, <2>5
    <3>1. h'[s].pc = "relook" /\ h'[s].job = r.job BY <1>0, <3>0 DEF Handler
    <3>. QED  BY <1>1, <2>1, <2>5, <3>1 DEF SearchGoes, Waits
  <2>. QED  BY <1>o, <2>3, <2>4, <2>5
<1>5. CASE LookAgain(s)
  <2>. DEFINE left == r.looks - 1
  <2>1. r.pc = "relook" /\ r.job \in 1..r.listed BY <1>0, <1>5 DEF LookAgain, Placed
  <2>2. backups[r.job].state \in {"failed", "ok", "locked"}
    BY <1>0, <2>1, StateType DEF TypeOK
  <2>3. \/ Local(s, NextOlder(s))
        \/ Local(s, [r EXCEPT !.looks = left])
        \/ Local(s, [NextOlder(s) EXCEPT !.unlocked = @ \cup {r.job}])
    BY <1>5, <2>2 DEF LookAgain
  <2>. HIDE DEF left
  <2>4. CASE Local(s, [r EXCEPT !.looks = left])
    <3>0. h'[s] = [r EXCEPT !.looks = left] BY <1>c, <2>4
    <3>1. h'[s].pc = "relook" /\ h'[s].job = r.job BY <1>0, <2>1, <3>0 DEF Handler
    <3>. QED  BY <1>1, <2>1, <2>4, <3>1 DEF SearchGoes, Waits
  <2>5. CASE Local(s, [NextOlder(s) EXCEPT !.unlocked = @ \cup {r.job}])
    BY <1>k, <1>w, <2>5
  <2>. QED  BY <1>o, <2>3, <2>4, <2>5
<1>6. CASE StillLocked(s) BY <1>6, <1>o DEF StillLocked
<1>7. CASE NothingFound(s)
  <2>. DEFINE left == r.tries - 1
  <2>1. Local(s, [r EXCEPT !.tries = left, !.reason = "not found", !.pc = "list"])
    BY <1>7 DEF NothingFound
  <2>. HIDE DEF left
  <2>2. [r EXCEPT !.tries = left, !.reason = "not found", !.pc = "list"].pc = "list"
    BY <1>0 DEF Handler
  <2>. QED  BY <1>w, <2>1, <2>2
<1>. QED  BY <1>2, <1>3, <1>4, <1>5, <1>6, <1>7

\* The same steps, and the list.
LEMMA LookSearches ==
    ASSUME TypeOK, NEW s \in Sites,
           \/ ListBackups(s) \/ ReadInfo(s) \/ CheckUnlocked(s) \/ LookAgain(s)
           \/ StillLocked(s) \/ NothingFound(s)
    PROVE  Looks(s)
<1>. DEFINE r == h[s]
            older == r.job - 1
<1>0. r \in Handler /\ h \in [Sites -> Handler] /\ Placed(r, Len(backups)) BY DEF TypeOK
<1>c. ASSUME NEW q, Local(s, q) PROVE h'[s] = q BY <1>0, <1>c DEF Local
<1>n. NextOlder(s) = [r EXCEPT !.pc = "scan", !.job = older] BY DEF NextOlder
<1>o. ASSUME Local(s, NextOlder(s)), r.pc \in SearchPlaces,
             ~Candidate(backups[r.job], s) \/ r.pc = "relook"
      PROVE  Older(s)
  <2>. HIDE DEF older
  <2>1. h'[s] = [r EXCEPT !.pc = "scan", !.job = older] BY <1>c, <1>n, <1>o
  <2>2. /\ h'[s].pc = "scan" /\ h'[s].job = older /\ SameList(s)
        /\ h'[s].skipped = h[s].skipped
    BY <1>0, <2>1 DEF Handler, SameList
  <2>. QED  BY <1>o, <2>2 DEF Older, older
<1>2. CASE ListBackups(s)
  <2>. DEFINE locked == {i \in 1..Len(backups) : backups[i].state = "locked"}
              n == Len(backups)
  <2>1. Local(s, [r EXCEPT !.pc = "scan", !.listed = n, !.job = n, !.busy = locked,
                           !.skipped = {}, !.unlocked = {}])
    BY <1>2 DEF ListBackups
  <2>. HIDE DEF locked, n
  <2>2. h'[s] = [r EXCEPT !.pc = "scan", !.listed = n, !.job = n, !.busy = locked,
                          !.skipped = {}, !.unlocked = {}]
    BY <1>c, <2>1
  <2>3. h'[s].pc = "scan" /\ h'[s].listed = n /\ h'[s].job = n /\ h'[s].busy = locked
    BY <1>0, <2>2 DEF Handler
  <2>. QED  BY <2>3 DEF Looks, Starts, locked, n
<1>3. CASE ReadInfo(s)
  <2>0. r.pc = "scan" /\ r.pc \in SearchPlaces /\ r.pc \in Searching
    BY <1>3 DEF ReadInfo, SearchPlaces, Searching
  <2>1. CASE Local(s, [r EXCEPT !.pc = "lock"])
    <3>1. h'[s] = [r EXCEPT !.pc = "lock"] BY <1>c, <2>1
    <3>2. h'[s].pc = "lock" /\ h'[s].job = r.job /\ SameList(s) /\ h'[s].skipped = r.skipped
      BY <1>0, <3>1 DEF Handler, SameList
    <3>. QED  BY <2>0, <3>2 DEF Looks, Holds
  <2>2. CASE Local(s, NextOlder(s)) /\ ~Candidate(backups[r.job], s)
    BY <1>o, <2>0, <2>2 DEF Looks
  <2>3. CASE Local(s, [NextOlder(s) EXCEPT !.skipped = @ \cup {r.job}])
    <3>. DEFINE seen == r.skipped \cup {r.job}
    <3>. HIDE DEF older
    <3>1. NextOlder(s).skipped = r.skipped BY <1>0, <1>n DEF Handler
    <3>2. Local(s, [NextOlder(s) EXCEPT !.skipped = seen]) BY <2>3, <3>1
    <3>. HIDE DEF seen
    <3>3. h'[s] = [[r EXCEPT !.pc = "scan", !.job = older] EXCEPT !.skipped = seen]
      BY <1>c, <1>n, <3>2
    <3>4. h'[s].pc = "scan" /\ h'[s].job = older /\ SameList(s) /\ h'[s].skipped = seen
      BY <1>0, <3>3 DEF Handler, SameList
    <3>. QED  BY <2>0, <3>4 DEF Looks, Older, older, seen
  <2>. QED  BY <1>3, <2>1, <2>2, <2>3 DEF ReadInfo
<1>4. CASE CheckUnlocked(s)
  <2>. DEFINE left == LockLooks - 1
  <2>1. /\ r.pc = "lock" /\ r.job \in 1..r.listed
        /\ r.pc \in SearchPlaces /\ r.pc \in Searching
    BY <1>0, <1>4 DEF CheckUnlocked, Placed, SearchPlaces, Searching
  <2>2. backups[r.job].state \in {"failed", "ok", "locked"}
    BY <1>0, <2>1, StateType DEF TypeOK
  <2>3. \/ Local(s, NextOlder(s)) /\ ~Candidate(backups[r.job], s)
        \/ Local(s, [r EXCEPT !.pc = "post"])
        \/ Local(s, [r EXCEPT !.pc = "relook", !.looks = left]) /\ backups[r.job].state = "locked"
    BY <1>4, <2>2 DEF CheckUnlocked, Candidate
  <2>. HIDE DEF left
  <2>4. CASE Local(s, [r EXCEPT !.pc = "post"])
    <3>1. h'[s] = [r EXCEPT !.pc = "post"] BY <1>c, <2>4
    <3>2. h'[s].pc = "post" /\ h'[s].job = r.job /\ SameList(s) /\ h'[s].skipped = r.skipped
      BY <1>0, <3>1 DEF Handler, SameList
    <3>. QED  BY <2>1, <3>2 DEF Looks, Holds
  <2>5. CASE Local(s, [r EXCEPT !.pc = "relook", !.looks = left]) /\ backups[r.job].state = "locked"
    <3>1. h'[s] = [r EXCEPT !.pc = "relook", !.looks = left] BY <1>c, <2>5
    <3>2. h'[s].job = r.job /\ SameList(s) /\ h'[s].skipped = r.skipped
      BY <1>0, <3>1 DEF Handler, SameList
    <3>. QED  BY <2>1, <2>5, <3>2 DEF Looks, Holds
  <2>. QED  BY <1>o, <2>1, <2>3, <2>4, <2>5 DEF Looks
<1>5. CASE LookAgain(s)
  <2>. DEFINE left == r.looks - 1
              seen == r.unlocked \cup {r.job}
  <2>1. /\ r.pc = "relook" /\ r.job \in 1..r.listed
        /\ r.pc \in SearchPlaces /\ r.pc \in Searching
    BY <1>0, <1>5 DEF LookAgain, Placed, SearchPlaces, Searching
  <2>2. backups[r.job].state \in {"failed", "ok", "locked"}
    BY <1>0, <2>1, StateType DEF TypeOK
  <2>. HIDE DEF older
  <2>n. NextOlder(s).unlocked = r.unlocked BY <1>0, <1>n DEF Handler
  <2>3. \/ Local(s, NextOlder(s))
        \/ Local(s, [r EXCEPT !.looks = left])
        \/ Local(s, [NextOlder(s) EXCEPT !.unlocked = seen])
    BY <1>5, <2>2, <2>n DEF LookAgain
  <2>. HIDE DEF left, seen
  <2>4. CASE Local(s, [r EXCEPT !.looks = left])
    <3>1. h'[s] = [r EXCEPT !.looks = left] BY <1>c, <2>4
    <3>2. h'[s].job = r.job /\ SameList(s) /\ h'[s].skipped = r.skipped
      BY <1>0, <3>1 DEF Handler, SameList
    <3>. QED  BY <2>1, <3>2 DEF Looks, Holds
  <2>5. CASE Local(s, [NextOlder(s) EXCEPT !.unlocked = seen])
    <3>1. h'[s] = [[r EXCEPT !.pc = "scan", !.job = older] EXCEPT !.unlocked = seen]
      BY <1>c, <1>n, <2>5
    <3>2. h'[s].pc = "scan" /\ h'[s].job = older /\ SameList(s) /\ h'[s].skipped = r.skipped
      BY <1>0, <3>1 DEF Handler, SameList
    <3>. QED  BY <2>1, <3>2 DEF Looks, Older, older
  <2>. QED  BY <1>o, <2>1, <2>3, <2>4, <2>5 DEF Looks
<1>6. CASE StillLocked(s) BY <1>6, <1>o DEF StillLocked, Looks, SearchPlaces
<1>7. CASE NothingFound(s)
  <2>. DEFINE left == r.tries - 1
  <2>1. Local(s, [r EXCEPT !.tries = left, !.reason = "not found", !.pc = "list"])
    BY <1>7 DEF NothingFound
  <2>. HIDE DEF left
  <2>2. h'[s] = [r EXCEPT !.tries = left, !.reason = "not found", !.pc = "list"]
    BY <1>c, <2>1
  <2>3. h'[s].pc = "list" BY <1>0, <2>2 DEF Handler
  <2>. QED  BY <2>3 DEF Looks, Off, Searching, SearchPlaces
<1>. QED  BY <1>2, <1>3, <1>4, <1>5, <1>6, <1>7

\* Moving on in these ways keeps what is known, if only backups that are ready
\* get imported.
LEMMA SearchKeeps ==
    ASSUME TypeOK, Grown, NEW s \in Sites, LookedAt(s), Activated(s),
           SearchGoes(s) \/ Keeps(s),
           \A i \in restoring'[s] \cup ({applied'[s]} \ {0}) : Ready(i, s)
    PROVE  SiteRestores(s)'
<1>1. ASSUME NEW i, Foreign(i, s)
      PROVE  /\ i \in 1..Len(backups') /\ backups'[i].full
             /\ backups'[i].region \notin {s, "none"}
             /\ backups[i].state = "ok" => backups'[i].state = "ok"
  <2>1. i \in 1..Len(backups) BY <1>1 DEF Foreign
  <2>2. i \in 1..Len(backups') BY <2>1 DEF Grown
  <2>. QED  BY <1>1, <2>1, <2>2 DEF Foreign, Grown
<1>2. Imports(s)' BY <1>1 DEF Imports, Ready, Foreign
<1>3. LookedAt(s)'
  <2>1. CASE Aside(s) \/ Ends(s) \/ Fails(s)
    BY <2>1 DEF Aside, Ends, Fails, LookedAt
  <2>2. CASE Picks(s) BY <1>1, <2>2 DEF Picks, LookedAt, Foreign
  <2>3. CASE Waits(s) BY <1>1, <2>3 DEF Waits, LookedAt, Foreign
  <2>4. CASE Chosen(s) BY <1>1, <2>4 DEF Chosen, LookedAt, Foreign, Ready
  <2>5. CASE Keeps(s) BY <1>1, <2>5 DEF Keeps, LookedAt, Foreign, Ready
  <2>. QED  BY <2>1, <2>2, <2>3, <2>4, <2>5 DEF SearchGoes
<1>4. Activated(s)'
  BY DEF SearchGoes, Keeps, Aside, Picks, Waits, Chosen, Ends, Fails, Activated, HasRestored
<1>. QED  BY <1>2, <1>3, <1>4 DEF SiteRestores

\* A step of one site leaves the handlers and imports of the others.
LEMMA RestoreFrame ==
    ASSUME TypeOK, NEW s \in Sites, HandlerStep(s) \/ Environment(s),
           NEW t \in Sites, t # s
    PROVE  h'[t] = h[t] /\ restoring'[t] = restoring[t] /\ applied'[t] = applied[t]
<1>. USE DEF TypeOK, daemonVars
<1>1. CASE Leave(s)
  BY <1>1 DEF Leave, PostBackup, BackupNotPerformed, BackupJobChecked, ScaleDown,
              WaitedDown, Scale, Local
<1>2. CASE Enter(s)
  BY <1>2 DEF Enter, ScaleUp, WaitedUp, ListBackups, ReadInfo, CheckUnlocked,
              LookAgain, StillLocked, NothingFound, PostRestore, SearchEnds,
              RestoreJobChecked, Scale, Local
<1>3. CASE Begin(s) \/ Reject(s) \/ RequestFails(s) \/ CallFails(s) \/ Report(s)
  BY <1>3 DEF Begin, Reject, RequestFails, CallFails, Report, Local
<1>4. CASE Environment(s)
  BY <1>4 DEF Environment, PodStarts, PodStops, BackupJobEnds, RestoreJobEnds,
              OtherBackup, RequestMode, RequestRetry, Interrupted
<1>. QED  BY <1>1, <1>2, <1>3, <1>4 DEF HandlerStep

\* The other steps of the handler; the one that asks for an import has found
\* its backup ready.
LEMMA HandlerRestores ==
    ASSUME TypeOK, NEW s \in Sites, HandlerStep(s), PlaceInv(s), SiteRestores(s)
    PROVE  /\ SearchGoes(s) \/ Keeps(s)
           /\ Looks(s)
           /\ \A i \in restoring'[s] \cup ({applied'[s]} \ {0}) : Ready(i, s)
<1>. DEFINE r == h[s]
<1>0. r \in Handler /\ h \in [Sites -> Handler] /\ restoring \in [Sites -> SUBSET (1..Len(backups))]
  BY DEF TypeOK
<1>u. ASSUME UNCHANGED <<restoring, applied>>
      PROVE  \A i \in restoring'[s] \cup ({applied'[s]} \ {0}) : Ready(i, s)
  BY <1>u DEF SiteRestores, Imports
<1>1. CASE \/ RequestFails(s) \/ BackupNotPerformed(s) \/ BackupJobChecked(s)
           \/ WaitedDown(s) \/ WaitedUp(s) \/ SearchEnds(s) \/ RestoreJobChecked(s)
           \/ CallFails(s)
  BY <1>1, <1>u, RunGoes DEF Looks
<1>2. CASE \/ ListBackups(s) \/ ReadInfo(s) \/ CheckUnlocked(s) \/ LookAgain(s)
           \/ StillLocked(s) \/ NothingFound(s)
  BY <1>2, <1>u, LookGoes, LookSearches
<1>3. CASE PostBackup(s)
  <2>. DEFINE left == r.tries - 1
              new == Len(backups) + 1
  <2>1. /\ r.pc = "backup" /\ UNCHANGED <<restoring, applied>>
        /\ \/ h'[s] = [r EXCEPT !.pc = "backupJob", !.job = new]
           \/ h'[s] = [r EXCEPT !.tries = left]
    BY <1>0, <1>3 DEF PostBackup, daemonVars
  <2>. HIDE DEF left, new
  <2>2. h'[s].pc \in {"backup", "backupJob"} BY <1>0, <2>1 DEF Handler
  <2>. QED  BY <1>u, <2>1, <2>2 DEF SearchGoes, Aside, Looks, Off, Searching, SearchPlaces
<1>4. CASE ScaleDown(s) \/ ScaleUp(s)
  <2>1. PICK place \in {"waitDown", "waitUp"} : h' = [h EXCEPT ![s].pc = place]
    BY <1>4 DEF ScaleDown, ScaleUp, Scale
  <2>2. h'[s].pc = place BY <1>0, <2>1 DEF Handler
  <2>3. UNCHANGED <<restoring, applied>> BY <1>4 DEF ScaleDown, ScaleUp, Scale
  <2>. QED  BY <1>u, <2>2, <2>3 DEF SearchGoes, Aside, Looks, Off, Searching, SearchPlaces
<1>5. CASE PostRestore(s)
  <2>1. Ready(r.job, s) BY <1>5 DEF PostRestore, SiteRestores, LookedAt
  <2>2. restoring'[s] = restoring[s] \cup {r.job} /\ applied' = applied
    BY <1>0, <1>5 DEF PostRestore
  <2>3. h'[s].pc \in {"restoreJob", "list"} /\ (h'[s].pc = "restoreJob" => Holds(s))
    <3>0. r.pc = "post" BY <1>5 DEF PostRestore
    <3>1. CASE h' = [h EXCEPT ![s].pc = "restoreJob", ![s].task = "processing"]
      <4>1. h'[s] = [r EXCEPT !.pc = "restoreJob", !.task = "processing"] BY <1>0, <3>1
      <4>2. /\ h'[s].pc = "restoreJob" /\ h'[s].job = r.job /\ SameList(s)
            /\ h'[s].skipped = r.skipped
        BY <1>0, <4>1 DEF Handler, SameList
      <4>. QED  BY <3>0, <4>2 DEF Holds, Searching, SearchPlaces
    <3>2. CASE h' = [h EXCEPT ![s].pc = "list", ![s].tries = @ - 1, ![s].reason = "none"]
      <4>. DEFINE left == r.tries - 1
                  q == [r EXCEPT !.pc = "list", !.tries = left, !.reason = "none"]
      <4>1. h' = [h EXCEPT ![s] = q] BY <3>2
      <4>2. h'[s] = q BY <1>0, <4>1
      <4>. HIDE DEF left
      <4>. QED  BY <1>0, <4>2 DEF Handler
    <3>. QED  BY <1>5, <3>1, <3>2 DEF PostRestore
  <2>. QED  BY <2>1, <2>2, <2>3 DEF SearchGoes, Aside, SiteRestores, Imports, Looks, Off, Searching, SearchPlaces
<1>6. CASE Begin(s)
  <2>. DEFINE place == IF spec[s].mode = "active" THEN "scaleUp"
                       ELSE IF dr[s].mode \in {NoMode, "disable", "standby"}
                            THEN "scaleDown" ELSE "backup"
  <2>1. /\ h'[s] = [Idle EXCEPT !.req = spec[s], !.prev = dr[s].mode,
                      !.base = Len(backups), !.tries = Attempts, !.pc = place]
        /\ UNCHANGED <<restoring, applied>>
    BY <1>0, <1>6 DEF Begin, daemonVars
  <2>2. h'[s].pc = place BY <2>1 DEF Idle
  <2>. QED  BY <1>u, <2>1, <2>2 DEF SearchGoes, Aside, Looks, Off, Searching, SearchPlaces
<1>7. CASE Reject(s)
  BY <1>7, <1>u DEF Reject, daemonVars, Keeps, Looks
<1>8. CASE Report(s)
  <2>1. h'[s] = Idle /\ UNCHANGED <<restoring, applied>>
    BY <1>0, <1>8 DEF Report, daemonVars
  <2>. QED  BY <1>u, <2>1 DEF Idle, SearchGoes, Aside, Looks, Off, Searching, SearchPlaces
<1>. QED  BY <1>1, <1>2, <1>3, <1>4, <1>5, <1>6, <1>7, <1>8 DEF HandlerStep, Leave, Enter

\* The daemons import nothing the handler did not ask for, and forget their
\* imports with their pod.
LEMMA EnvironmentRestores ==
    ASSUME TypeOK, NEW s \in Sites, Environment(s), SiteRestores(s)
    PROVE  /\ SearchGoes(s) \/ Keeps(s)
           /\ Looks(s)
           /\ \A i \in restoring'[s] \cup ({applied'[s]} \ {0}) : Ready(i, s)
<1>0. /\ h \in [Sites -> Handler] /\ h[s] \in Handler
      /\ restoring \in [Sites -> SUBSET (1..Len(backups))]
      /\ applied \in [Sites -> 0..Len(backups)]
  BY DEF TypeOK
<1>u. ASSUME UNCHANGED <<restoring, applied>>
      PROVE  \A i \in restoring'[s] \cup ({applied'[s]} \ {0}) : Ready(i, s)
  BY <1>u DEF SiteRestores, Imports
<1>1. CASE PodStarts(s) \/ BackupJobEnds(s) \/ OtherBackup(s) \/ RequestMode(s)
           \/ RequestRetry(s)
  BY <1>1, <1>u DEF PodStarts, BackupJobEnds, OtherBackup, RequestMode, RequestRetry,
                    daemonVars, Keeps, Looks
<1>2. CASE Interrupted(s)
  <2>1. h'[s] = Idle /\ UNCHANGED <<restoring, applied>>
    BY <1>0, <1>2 DEF Interrupted, daemonVars
  <2>. QED  BY <1>u, <2>1 DEF Idle, SearchGoes, Aside, Looks, Off, Searching, SearchPlaces
<1>k. ASSUME NEW task, h' = [h EXCEPT ![s].task = task],
             h[s].task = "successful" => task = "successful"
      PROVE  Keeps(s)
  BY <1>0, <1>k DEF Keeps, Handler
<1>3. CASE PodStops(s)
  <2>1. Keeps(s)
    <3>. DEFINE task == IF h[s].task = "processing" THEN "failed" ELSE h[s].task
    <3>1. h' = [h EXCEPT ![s].task = task] BY <1>3 DEF PodStops
    <3>2. h[s].task = "successful" => task = "successful" OBVIOUS
    <3>. HIDE DEF task
    <3>. QED  BY <1>k, <3>1, <3>2
  <2>2. restoring'[s] = {} /\ applied' = applied BY <1>0, <1>3 DEF PodStops
  <2>. QED  BY <2>1, <2>2 DEF SiteRestores, Imports, Looks
<1>4. CASE RestoreJobEnds(s)
  <2>1. PICK i \in restoring[s], result \in {"successful", "failed"} :
          /\ restoring' = [restoring EXCEPT ![s] = @ \ {i}]
          /\ applied' = [applied EXCEPT ![s] = IF result = "successful" THEN i ELSE @]
          /\ h' = [h EXCEPT ![s].task =
                     IF @ = "processing" /\ i = h[s].job THEN result ELSE @]
    BY <1>4 DEF RestoreJobEnds
  <2>2. Keeps(s)
    <3>. DEFINE task == IF h[s].task = "processing" /\ i = h[s].job
                        THEN result ELSE h[s].task
    <3>1. h' = [h EXCEPT ![s].task = task] BY <2>1
    <3>2. h[s].task = "successful" => task = "successful" OBVIOUS
    <3>. HIDE DEF task
    <3>. QED  BY <1>k, <3>1, <3>2
  <2>3. restoring'[s] = restoring[s] \ {i} /\ applied'[s] \in {i, applied[s]}
    BY <1>0, <2>1
  <2>. QED  BY <2>2, <2>3 DEF SiteRestores, Imports, Looks
<1>. QED  BY <1>1, <1>2, <1>3, <1>4 DEF Environment

LEMMA RestoreInvNext == TypeOK /\ RunInv /\ RestoreInv /\ [Next]_vars => RestoreInv'
<1>. SUFFICES ASSUME TypeOK, RunInv, \A s \in Sites : SiteRestores(s), [Next]_vars
              PROVE  \A s \in Sites : SiteRestores(s)'
  BY DEF RestoreInv
<1>1. CASE UNCHANGED vars
  BY <1>1 DEF vars, daemonVars, SiteRestores, LookedAt, Imports, Activated, HasRestored,
              Ready, Foreign
<1>2. ASSUME NEW s \in Sites, HandlerStep(s) \/ Environment(s), NEW t \in Sites
      PROVE  SiteRestores(t)'
  <2>1. Grown BY <1>2, StorageGrows
  <2>2. PlaceInv(t) /\ SiteRestores(t) BY DEF RunInv
  <2>3. /\ SearchGoes(t) \/ Keeps(t)
        /\ \A i \in restoring'[t] \cup ({applied'[t]} \ {0}) : Ready(i, t)
    <3>1. CASE t # s
      <4>1. h'[t] = h[t] /\ restoring'[t] = restoring[t] /\ applied'[t] = applied[t]
        BY <1>2, <3>1, RestoreFrame
      <4>. QED  BY <2>2, <4>1 DEF Keeps, SiteRestores, Imports
    <3>2. CASE t = s
      BY <1>2, <2>2, <3>2, HandlerRestores, EnvironmentRestores
    <3>. QED  BY <3>1, <3>2
  <2>. QED  BY <2>1, <2>2, <2>3, SearchKeeps DEF SiteRestores
<1>. QED  BY <1>1, <1>2 DEF Next

LEMMA RestoreInvInit == Init => RestoreInv
<1>. SUFFICES ASSUME Init, NEW s \in Sites PROVE SiteRestores(s)
  BY DEF RestoreInv
<1>. QED  BY DEF Init, Idle, SiteRestores, LookedAt, Imports, Activated

LEMMA RestoreInvHolds == Spec => [](TypeOK /\ RestoreInv)
BY InitType, NextType, RunInvInit, RunInvNext, RestoreInvInit, RestoreInvNext, PTL DEF Spec

\* A daemon imports, and a broker has imported, only complete full backups of
\* other regions: the state a backup has when it is asked for is the one it
\* keeps, whatever happens between the reads of the search and the request.
THEOREM OnlyReadyImported == Spec => []OnlyForeignCompleteRestored
<1>1. TypeOK /\ RestoreInv => OnlyForeignCompleteRestored
  BY DEF RestoreInv, SiteRestores, Imports, Ready, Foreign, OnlyForeignCompleteRestored, Candidate
<1>. QED  BY <1>1, RestoreInvHolds, PTL

\* A site that had a mode reports the active one only with the import its run
\* waited for successful, or with noWait and no backup to be found: no lost
\* answer, pod or attempt makes an unrestored site active.
THEOREM ActiveIsRestored == Spec => []ActiveMeansRestored
<1>1. TypeOK /\ RestoreInv => ActiveMeansRestored
  BY DEF RestoreInv, SiteRestores, Activated, HasRestored, ActiveMeansRestored
<1>. QED  BY <1>1, RestoreInvHolds, PTL
----------------------------------------------------------------------------
\* No state of a backup changes once it is not locked.
LEMMA StatesSettle ==
    ASSUME TypeOK, NEW s \in Sites, HandlerStep(s) \/ Environment(s),
           NEW i \in 1..Len(backups), backups[i].state # "locked"
    PROVE  backups'[i].state = backups[i].state
<1>0. /\ Len(backups) \in Nat /\ backups \in Seq(Backup)
      /\ \A j \in 1..Len(backups) : backups[j] \in Backup
  BY DEF TypeOK
<1>1. CASE UNCHANGED backups BY <1>1
<1>2. ASSUME NEW full \in BOOLEAN, backups' = Append(backups, NewBackup(s, full))
      PROVE  backups'[i] = backups[i]
  BY <1>0, <1>2, NewBackupType
<1>3. CASE PostBackup(s) BY <1>2, <1>3 DEF PostBackup
<1>4. CASE OtherBackup(s) BY <1>2, <1>4 DEF OtherBackup
<1>5. CASE PodStops(s) BY <1>0, <1>5 DEF PodStops
<1>6. CASE BackupJobEnds(s)
  <2>1. PICK j \in 1..Len(backups), result \in {"ok", "failed"} :
          backups[j].state = "locked" /\ backups' = [backups EXCEPT ![j].state = result]
    BY <1>6 DEF BackupJobEnds
  <2>2. j # i BY <2>1
  <2>. QED  BY <1>0, <2>1, <2>2
<1>7. CASE HandlerStep(s) /\ ~PostBackup(s)
  <2>1. CASE Leave(s)
    BY <1>1, <1>7, <2>1 DEF Leave, BackupNotPerformed, BackupJobChecked, ScaleDown,
                            WaitedDown, Scale, Local
  <2>2. CASE Enter(s)
    BY <1>1, <2>2 DEF Enter, ScaleUp, WaitedUp, ListBackups, ReadInfo, CheckUnlocked,
                      LookAgain, StillLocked, NothingFound, PostRestore, SearchEnds,
                      RestoreJobChecked, Scale, Local
  <2>. QED  BY <1>1, <1>7, <2>1, <2>2
            DEF HandlerStep, Begin, Reject, RequestFails, CallFails, Report, Local
<1>8. CASE PodStarts(s) \/ RestoreJobEnds(s) \/ RequestMode(s) \/ RequestRetry(s) \/ Interrupted(s)
  BY <1>1, <1>8 DEF PodStarts, RestoreJobEnds, RequestMode, RequestRetry, Interrupted
<1>. QED  BY <1>3, <1>4, <1>5, <1>6, <1>7, <1>8 DEF Environment

\* Moving on in these ways keeps what the search knows of its list.
LEMMA ListKeeps ==
    ASSUME TypeOK, TypeOK', NEW s \in Sites, Searched(s), Looks(s), Grown,
           \A i \in 1..Len(backups) : backups[i].state # "locked" =>
                backups'[i].state = backups[i].state
    PROVE  Searched(s)'
<1>0. /\ h[s] \in Handler /\ h'[s] \in Handler /\ Len(backups) \in Nat
      /\ Placed(h[s], Len(backups)) /\ Placed(h'[s], Len(backups'))
  BY DEF TypeOK
<1>1. /\ h[s].job \in Nat /\ h[s].listed \in Nat /\ h[s].listed <= Len(backups)
      /\ h'[s].job \in Nat
  BY <1>0, HandlerFields DEF Placed
<1>2. ASSUME NEW i \in 1..Len(backups)
      PROVE  /\ backups[i].state # "locked" => backups'[i].state # "locked"
             /\ Candidate(backups'[i], s) => Candidate(backups[i], s)
  <2>1. backups'[i].region = backups[i].region /\ backups'[i].full = backups[i].full
    BY DEF Grown
  <2>2. backups[i].state = "failed" => backups'[i].state = "failed" OBVIOUS
  <2>. QED  BY <2>1, <2>2 DEF Candidate
<1>3. CASE Off(s) BY <1>3 DEF Off, Searched
<1>4. CASE Starts(s)
  <2>. DEFINE n == Len(backups)
  <2>1. Unlocked(h[s])' BY <1>2, <1>4 DEF Starts, Unlocked
  <2>2. Passed(h[s], s)' BY <1>1, <1>4 DEF Starts, Passed
  <2>. QED  BY <1>4, <2>1, <2>2 DEF Starts, Searched
<1>5. CASE (Holds(s) \/ Keeps(s)) /\ ~Off(s)
  <2>1. /\ h'[s].job = h[s].job /\ h'[s].listed = h[s].listed /\ h'[s].busy = h[s].busy
        /\ h'[s].skipped = h[s].skipped /\ h[s].pc \in Searching
    BY <1>5 DEF Holds, Keeps, SameList, Off
  <2>2. Unlocked(h[s]) /\ Passed(h[s], s) BY <2>1 DEF Searched
  <2>3. Unlocked(h[s])' BY <1>1, <1>2, <2>1, <2>2 DEF Unlocked
  <2>4. Passed(h[s], s)' BY <1>1, <1>2, <2>1, <2>2 DEF Passed
  <2>5. h'[s].pc = "relook" => h'[s].job \in h'[s].busy
    <3>1. CASE h[s].pc = "relook" BY <2>1, <3>1 DEF Searched
    <3>2. CASE h'[s].pc = "relook" /\ h[s].pc # "relook"
      <4>1. backups[h[s].job].state = "locked" BY <1>5, <3>2 DEF Holds, Keeps
      <4>2. h[s].job \in 1..h[s].listed BY <1>0, <2>1, <3>2 DEF Placed
      <4>. QED  BY <2>1, <2>2, <4>1, <4>2 DEF Unlocked
    <3>. QED  BY <3>1, <3>2
  <2>. QED  BY <2>3, <2>4, <2>5 DEF Searched
<1>6. CASE Older(s)
  <2>1. /\ h'[s].job = h[s].job - 1 /\ h'[s].listed = h[s].listed /\ h'[s].busy = h[s].busy
        /\ h[s].skipped \subseteq h'[s].skipped /\ h[s].pc \in Searching /\ h'[s].pc = "scan"
    BY <1>6 DEF Older, SameList, Searching
  <2>2. /\ Unlocked(h[s]) /\ Passed(h[s], s)
        /\ h[s].pc = "relook" => h[s].job \in h[s].busy
    BY <2>1 DEF Searched
  <2>3. Unlocked(h[s])' BY <1>1, <1>2, <2>1, <2>2 DEF Unlocked
  <2>4. Passed(h[s], s)'
    <3>. SUFFICES ASSUME NEW i \in (h'[s].job + 1)..h'[s].listed, Candidate(backups'[i], s)
                  PROVE  i \in h'[s].skipped \cup h'[s].busy
      BY DEF Passed
    <3>1. i \in 1..Len(backups) /\ i \in h[s].job..h[s].listed BY <1>1, <2>1
    <3>2. Candidate(backups[i], s) BY <1>2, <3>1
    <3>3. CASE i = h[s].job BY <1>6, <2>1, <2>2, <3>2, <3>3 DEF Older
    <3>4. CASE i # h[s].job
      <4>1. i \in (h[s].job + 1)..h[s].listed BY <1>1, <3>1, <3>4
      <4>. QED  BY <2>1, <2>2, <3>2, <4>1 DEF Passed
    <3>. QED  BY <3>3, <3>4
  <2>. QED  BY <2>1, <2>3, <2>4 DEF Searched
<1>. QED  BY <1>3, <1>4, <1>5, <1>6 DEF Looks

LEMMA SearchInvNext ==
    TypeOK /\ TypeOK' /\ RunInv /\ RestoreInv /\ SearchInv /\ [Next]_vars => SearchInv'
<1>. SUFFICES ASSUME TypeOK, TypeOK', RunInv, \A s \in Sites : SiteRestores(s),
                     \A s \in Sites : Searched(s), [Next]_vars
              PROVE  \A s \in Sites : Searched(s)'
  BY DEF RestoreInv, SearchInv
<1>1. CASE UNCHANGED vars
  BY <1>1 DEF vars, Searched, Unlocked, Passed
<1>2. ASSUME NEW s \in Sites, HandlerStep(s) \/ Environment(s), NEW t \in Sites
      PROVE  Searched(t)'
  <2>1. Grown BY <1>2, StorageGrows
  <2>2. \A i \in 1..Len(backups) : backups[i].state # "locked" =>
            backups'[i].state = backups[i].state
    BY <1>2, StatesSettle
  <2>3. Looks(t)
    <3>1. CASE t # s
      BY <1>2, <3>1, RestoreFrame DEF Looks, Keeps
    <3>2. CASE t = s
      BY <1>2, <3>2, HandlerRestores, EnvironmentRestores DEF RunInv
    <3>. QED  BY <3>1, <3>2
  <2>. QED  BY <2>1, <2>2, <2>3, ListKeeps
<1>. QED  BY <1>1, <1>2 DEF Next

LEMMA SearchInvInit == Init => SearchInv
BY DEF Init, Idle, SearchInv, Searched, Searching, SearchPlaces

\* While the search is at a backup, every newer fit one of its list was locked
\* when the list came or could not be read: whatever finishes, fails or is made
\* meanwhile, the backup that is restored is the newest of the complete ones.
THEOREM NewestIsRestored == Spec => []RestoresNewestComplete
<1>1. SearchInv => RestoresNewestComplete
  BY DEF SearchInv, Searched, Searching, Passed, RestoresNewestComplete
<1>. QED  BY <1>1, InitType, NextType, RunInvInit, RunInvNext, RestoreInvInit,
             RestoreInvNext, SearchInvInit, SearchInvNext, PTL DEF Spec
=============================================================================
